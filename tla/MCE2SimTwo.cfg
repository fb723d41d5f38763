\* Two nodes in one process, two requests and one indication for each.
CONSTANTS
  Instances = 2
  MaxInd = 1
  MaxRequests = 2
  Inputs <- MCRequests
  Traces <- MCGoodOrNone
SPECIFICATION Spec
INVARIANTS TypeOK OnlyFailuresEnd
PROPERTIES ImplementsReportService OwnPlmnIfPrompt AbandonedForGood
CHECK_DEADLOCK FALSE
