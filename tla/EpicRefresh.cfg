CONSTANTS
  Period <- Minutes50
  TTL <- Minutes60
  Timeout = 1
  MaxFailures = 2
  EmptyAnswers = TRUE
  Request = {r1}
CHECK_DEADLOCK FALSE
SPECIFICATION Spec
INVARIANTS
  TypeOK
  ValidUnlessRefreshFailed
  TrustedRequestsAccepted
  OutageBounded
  AtMostOneLateRefresh
PROPERTIES
  ShutdownStops
  OutageEnds
