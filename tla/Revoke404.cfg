CONSTANTS
  User = {u1, u2}
  Puid = {q1, q2}
  NoPuid = NoPuid
  Party = {p1}
  Session = {}
  Team = {}
  NoTeam = NoTeam
  Status = {}
  Unlisted = Unlisted
  StatusErrors <- AnyStatus
  LostErrors <- QuotedLost
  Delays = TRUE
  MaxChanges = 2
  Revocation = {v1}
  NoRoom = NoRoom
CHECK_DEADLOCK FALSE
SPECIFICATION RevokeSpec
INVARIANTS
  NotFoundMeansAbsent
