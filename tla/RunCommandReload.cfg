SPECIFICATION Spec
CONSTANTS
  t1 = t1
  t2 = t2
  w1 = w1
  w2 = w2
  Tokens <- MCTokens
  Workers = {w1, w2}
  Projects = {p1, p2}
  RunnerConfigs <- MCRunnerConfigs
  Configs <- MCConfigs
  HealthyChecks = 1
  RunWaitKinds = {TRUE}
  SentSignals = {}
  MaxEvents = 1
SYMMETRY MCSymmetry
INVARIANTS
  ResourcesAccounted
  BuildsListed
  ConcurrentRespected
  LimitRespected
  RequestConcurrencyRespected
  BuildNumbersDistinct
PROPERTIES
  JobsReported
