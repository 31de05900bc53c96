CONSTANT MaxAttempts = 1
SPECIFICATION Spec
INVARIANT InterruptedMeansClean
CHECK_DEADLOCK FALSE
