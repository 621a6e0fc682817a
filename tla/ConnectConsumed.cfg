CONSTANTS
  MaxChunk = 2
  MaxBytes = 2
SPECIFICATION Spec
INVARIANTS NothingConsumed
CHECK_DEADLOCK FALSE
