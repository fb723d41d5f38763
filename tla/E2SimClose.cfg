\* Two nodes: the RIC closes the first connection after the second was opened.
CONSTANTS
  Instances = 2
  MaxInd = 1
  MaxRequests = 0
  Inputs <- MCRequests
  Traces <- MCGoodOrNone
SPECIFICATION Spec
INVARIANT ClosesWhatEnded
CHECK_DEADLOCK FALSE
