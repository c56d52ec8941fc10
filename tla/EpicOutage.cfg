CONSTANTS
  Period <- Minutes50
  TTL <- Minutes60
  Timeout = 1
  MaxFailures = 1
  EmptyAnswers = FALSE
  Request = {r1}
CHECK_DEADLOCK FALSE
SPECIFICATION Spec
INVARIANTS
  TokenAlwaysValid
