CONSTANTS
  Readers = {r}
  Writers = {}
  Cancelers = {x}
  Forgotten = {"canceled"}
  MaxLen = 1
  BufSize = 1
  LowWater = 1
SPECIFICATION Spec
INVARIANTS CanceledReadTakesNothing
