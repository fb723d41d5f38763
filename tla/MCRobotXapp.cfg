CONSTANTS
  p1 = p1
  Policies = {p1}
  MaxRequests = 4
SPECIFICATION Spec
INVARIANTS TypeOK NoResurrection OneAtATime DeletedTwiceNeedsCreate
PROPERTIES ImplementsPolicyStore RequestsAnswered
CHECK_DEADLOCK FALSE
