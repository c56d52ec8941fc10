CONSTANTS
  User = {u1, u2}
  Puid = {q1, q2}
  NoPuid = NoPuid
  Party = {}
  Session = {s1}
  Team = {t1, t2}
  NoTeam = NoTeam
  Status <- MemberStatus
  Unlisted = Unlisted
  StatusErrors <- AnyStatus
  LostErrors <- AnyLost
  Delays = FALSE
  MaxChanges = 1
  Admin = {a1}
  NoSession = NoSession
CHECK_DEADLOCK FALSE
SYMMETRY Interchangeable
SPECIFICATION AdminSpec
INVARIANTS
  AdminTypeOK
  GrantOnlyToEligible
  SuccessIsComplete
  OneNotificationEach
