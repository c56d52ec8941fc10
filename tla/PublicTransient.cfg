CONSTANTS
  User = {u1}
  Puid = {q1}
  NoPuid = NoPuid
  Party = {p1}
  Session = {s1}
  Team = {t1, "Voice"}
  NoTeam = NoTeam
  Status = {JOINED}
  Unlisted = Unlisted
  StatusErrors <- TransientStatus
  LostErrors <- AnyLost
  Delays = TRUE
  MaxChanges = 1
  Call = {c1}
  NoUser = NoUser
  NoGroup = NoGroup
  BlankPuid = BlankPuid
CHECK_DEADLOCK FALSE
SPECIFICATION PublicSpec
INVARIANTS
  RefusalJustified
PROPERTIES
  EveryCallReplies
  PublicImplementsRooms
