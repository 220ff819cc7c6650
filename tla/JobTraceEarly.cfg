SPECIFICATION Spec
CONSTANTS
  script = script
  system = system
  none = none
  MaxLog = 2
  MaxTracePatchSize = 2
  Reasons <- MCReasons
  NoneFailure = none
  MaxFaults = 0
INVARIANTS
  LogDelivered
