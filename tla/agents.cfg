SPECIFICATION FairSpec
CONSTANTS
  s1 = s1
  s2 = s2
  d = d
  t = t
  Calls <- MCCalls
  Tools = {t}
  Nobody = Nobody
  Sessions = {s1}
  None = None
  MaxSteps = 2
  MaxTokens = 2
  PerCall = 2
  PromptFormats = TRUE
INVARIANTS IInv ObservationBacked OvershootBounded StreamDelivers
PROPERTIES StreamEnds
CHECK_DEADLOCK FALSE
