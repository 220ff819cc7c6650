SPECIFICATION FairSpec
CONSTANTS
  t1 = t1
  t2 = t2
  w1 = w1
  w2 = w2
  Tokens = {t1}
  Workers = {w1, w2}
  Projects = {p1}
  RunnerConfigs <- MCLiveRunnerConfigs
  Configs <- MCLiveConfigs
  HealthyChecks = 1
  RunWaitKinds = {TRUE, FALSE}
  SentSignals = {"SIGQUIT", "SIGTERM"}
  MaxEvents = 1
PROPERTIES
  ShutdownCompletes
