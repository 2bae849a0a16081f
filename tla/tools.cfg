SPECIFICATION Spec
CONSTANTS
  c1 = c1
  c2 = c2
  c3 = c3
  t = t
  Calls = {c1, c2}
  Callers = {"agent"}
  CallerOf <- MCCallerOf
  Tools = {t}
  Nobody = Nobody
  Serves <- MCServes
  MaxVersion = 2
  Cacheable = {t}
  Rpm <- MCRpm
  DefaultRpm = 2
  DegradedMode = "local"
  MaxAttempts = 2
INVARIANTS IInv
PROPERTIES VerdictStands Implements
CHECK_DEADLOCK FALSE
