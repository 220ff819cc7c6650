SPECIFICATION Spec
CONSTANTS
  Procs = {p1, p2}
  NewToken <- MCNewToken
  Old <- MCOld
  ConfigCalls <- MCConfigCalls
  LaterCalls <- MCLaterCalls
  MaxFaults = 2
  Jobs = {j1, j2}
  HelperCalls <- MCHelperCalls
  Retry = 1
  MaxCalls = 2
  MaxWorks = 1
SYMMETRY MCSymmetry
INVARIANTS RunnersKept CacheWhole ExitHonest
CHECK_DEADLOCK FALSE
