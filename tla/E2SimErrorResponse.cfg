\* One node: a request for an unknown RAN function.
CONSTANTS
  Instances = 1
  MaxInd = 1
  MaxRequests = 1
  Inputs <- MCInputs
  Traces <- MCGoodOrNone
SPECIFICATION Spec
INVARIANT UnknownFunctionAnswered
CHECK_DEADLOCK FALSE
