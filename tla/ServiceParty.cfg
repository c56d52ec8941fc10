CONSTANTS
  User = {u1, u2}
  Puid = {q1, q2}
  NoPuid = NoPuid
  Party = {p1}
  Session = {}
  Team = {}
  NoTeam = NoTeam
  Status = {"JOINED"}
  Unlisted = Unlisted
  StatusErrors <- AnyStatus
  LostErrors <- AnyLost
  Delays = TRUE
  MaxChanges = 1
  Call = {c1}
  NoUser = NoUser
  NoGroup = NoGroup
  BlankPuid = BlankPuid
  Admin = {}
  NoSession = NoSession
  Revocation = {v1}
  NoRoom = NoRoom
  Asks <- AllAsks
  MaxCrashes = 1
CHECK_DEADLOCK FALSE
SYMMETRY Interchangeable
SPECIFICATION Spec
INVARIANTS
  TypeOK
  RevocationHolds
  TokensStand
PROPERTIES
  ImplementsRooms
