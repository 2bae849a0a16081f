SPECIFICATION Spec
CONSTANTS
  Replicas = {r1, r2}
  Redis = redis
  Keys = {k1, k2}
  Limits = {0, 1}
  Modes = {"local", "open", "closed"}
  Window = 2
  ExpirySlack = 1
  Lag = 0
  Lead = 0
  MaxKeys = 1
  MaxNow = 3
  MaxChecks = 4
  MaxLosses = 0
SYMMETRY Interchangeable
INVARIANTS OutageBound TableBounded
CHECK_DEADLOCK FALSE
