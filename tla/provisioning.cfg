SPECIFICATION FairSpec
CONSTANTS
  Puts = {n1, n2}
  Instances = {i}
  Names = {r, s}
  Routes = {r}
  Servers = {s}
  Workers = {w1, w2}
  MaxRetries = 1
  MaxEvents = 2
  None = None
INVARIANTS IInv NeverStranded ToldOfSuccess
PROPERTIES RequestSettles
CHECK_DEADLOCK FALSE
