CONSTANTS
  MaxChunk = 2
  MaxBytes = 2
SPECIFICATION MCSpec
INVARIANTS TypeOK FirstErrorKept ClosedOnReturn GenuineError NilIsComplete
PROPERTIES NothingAfterReturn ConnectReturns
CHECK_DEADLOCK FALSE
