CONSTANTS
  User = {u1}
  Puid = {q1}
  NoPuid = NoPuid
  Party = {}
  Session = {s1}
  Team = {t1}
  NoTeam = NoTeam
  Status = {"JOINED", "INVITED"}
  Unlisted = Unlisted
  StatusErrors <- AnyStatus
  LostErrors <- AnyLost
  Delays = TRUE
  MaxChanges = 1
  Call = {}
  NoUser = NoUser
  NoGroup = NoGroup
  BlankPuid = BlankPuid
  Admin = {a1}
  NoSession = NoSession
  Revocation = {v1}
  NoRoom = NoRoom
  Asks <- AllAsks
  MaxCrashes = 1
CHECK_DEADLOCK FALSE
SPECIFICATION Spec
INVARIANTS
  RevocationHolds
  TokensStand
PROPERTIES
  ImplementsRooms
  EveryCallEnds
