\* A run whose commands went unanswered exits with 0.
CONSTANT MaxAttempts = 4
SPECIFICATION Spec
INVARIANT SucceededMeansAllSteps
CHECK_DEADLOCK FALSE
