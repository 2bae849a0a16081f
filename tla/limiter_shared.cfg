SPECIFICATION Spec
CONSTANTS
  Replicas = {r1}
  Redis = redis
  Keys = {k1}
  Limits = {1, 2}
  Modes = {"closed"}
  Window = 3
  ExpirySlack = 1
  Lag = 1
  Lead = 0
  MaxKeys = 1
  MaxNow = 5
  MaxChecks = 3
  MaxLosses = 1
INVARIANTS IInv WindowBound DenialJustified RetryAfterExact
PROPERTIES RefinesWindowLimiter
CHECK_DEADLOCK FALSE
