SPECIFICATION Spec
CONSTANTS
  Kinds <- MCKinds
  JobsOf <- MCJobsOf
  PreparationRetries = 2
  MaxJobs <- MCMaxJobs
  MaxLost = 1
INVARIANTS
  NothingLeft
  ScriptsEnd
  
  
  
  ReasonReported
  VMClean
PROPERTY
  JobEnds
CHECK_DEADLOCK FALSE
