CONSTANTS
  c1 = c1
  u1 = u1
  u2 = u2
  Call = {c1}
  Subject = {u1, u2}
  NoSubject = NoSubject
  Token <- Texts
  MaxValues = 2
CHECK_DEADLOCK FALSE
SPECIFICATION Spec
INVARIANTS
  TypeOK
  ReadyWhenServed
  OnlyAuthorised
  ActsForTokenHolder
  OrderlyExit
PROPERTIES
  SignalEndsProcess
