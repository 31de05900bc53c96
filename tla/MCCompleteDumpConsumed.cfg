CONSTANT MaxAttempts = 1
SPECIFICATION Spec
INVARIANT
  CompleteDumpConsumed
CHECK_DEADLOCK FALSE
