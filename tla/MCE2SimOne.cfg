\* One node, as in a plain "kpm_sim <ip> <port>": every kind of message, three requests and
\* two indications for each, so that a request can arrive before, between and after them.
CONSTANTS
  Instances = 1
  MaxInd = 2
  MaxRequests = 3
  Inputs <- MCInputs
  Traces <- MCTraces
SPECIFICATION Spec
INVARIANTS ReportsContiguous IndicationsAccepted
PROPERTIES ImplementsReportService RequestsServed
CHECK_DEADLOCK FALSE
