CONSTANT MaxAttempts = 4
SPECIFICATION Spec
INVARIANTS TypeOK HostNeedsReady ExitTells
PROPERTIES RunEnds OnlyWaitingRepeats
CHECK_DEADLOCK FALSE
