SPECIFICATION Spec
CONSTANTS
  w1 = w1
  w2 = w2
  Workers <- MCWorkers
  NoWorker = none
  MaxMachines = 2
  Limit = 2
  IdleCount = 1
  MaxBuilds = 2
  Tries = 2
  MaxRemovals = 2
SYMMETRY Symmetry
INVARIANTS
  
  NoMachineLost
  MaxBuildsRespected

  
CHECK_DEADLOCK FALSE
