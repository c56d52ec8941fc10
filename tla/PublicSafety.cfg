CONSTANTS
  User = {u1}
  Puid = {q1, q2}
  NoPuid = NoPuid
  Party = {p1}
  Session = {s1}
  Team = {t1, t2}
  NoTeam = NoTeam
  Status = {JOINED}
  Unlisted = Unlisted
  StatusErrors <- AnyStatus
  LostErrors <- AnyLost
  Delays = FALSE
  MaxChanges = 2
  Call = {c1}
  NoUser = NoUser
  NoGroup = NoGroup
  BlankPuid = BlankPuid
CHECK_DEADLOCK FALSE
SYMMETRY Interchangeable
SPECIFICATION PublicSpec
INVARIANTS
  PublicTypeOK
  GrantOnlyToListed
  GrantIdentity
  AskedOnlyForMembers
  RefusalLeavesNoGrant
  ReplyAccountsForChannels
