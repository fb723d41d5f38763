\* One node: a request with a REPORT action among others.
CONSTANTS
  Instances = 1
  MaxInd = 1
  MaxRequests = 1
  Inputs <- MCInputs
  Traces <- MCGoodOrNone
SPECIFICATION Spec
INVARIANT ReportAmongOthersServed
CHECK_DEADLOCK FALSE
