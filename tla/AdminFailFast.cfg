CONSTANTS
  User = {u1}
  Puid = {q1}
  NoPuid = NoPuid
  Party = {}
  Session = {s1}
  Team = {t1}
  NoTeam = NoTeam
  Status <- MemberStatus
  Unlisted = Unlisted
  StatusErrors <- AnyStatus
  LostErrors <- AnyLost
  Delays = FALSE
  MaxChanges = 1
  Admin = {a1}
  NoSession = NoSession
CHECK_DEADLOCK FALSE
SPECIFICATION AdminSpec
INVARIANTS
  FailFast
