SPECIFICATION FairSpec
CONSTANTS
  script = script
  system = system
  none = none
  MaxLog = 4
  MaxTracePatchSize = 2
  Reasons <- MCReasons
  NoneFailure = none
  MaxFaults = 3
INVARIANTS
  SentInOrder
  OneSender
  ResultFaithful
  ResultDelivered
  CancelledByGitLab
PROPERTIES
  LogBeforeResult
  ReportsJob
  ReportEnds
  CancelHonoured
