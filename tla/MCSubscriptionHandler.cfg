\* Two callers and two ids: two calls on the same id and on different ids, interleaved
\* with one receiver.  Two calls per caller allow a retry after a failed transmission.
CONSTANTS
  c1 = c1  c2 = c2  r1 = r1  g1 = g1  g2 = g2
  Callers   <- MCCallers
  Receivers <- MCReceivers
  Ids       <- MCIds
  Free = Free
  NoAnswer = NoAnswer
  MaxCalls = 2
  MaxClears = 1
SPECIFICATION Spec
INVARIANTS TypeOK LockHeld OneOwnerPerId TablesAgree
PROPERTIES ImplementsLifecycle CallsReturn AnswersApplied
CHECK_DEADLOCK FALSE
