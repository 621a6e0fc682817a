CONSTANTS
  Dirs = {"read", "write"}
  Readers = {r}
  Writers = {w}
  Cancelers = {x}
  Procs = {r, w, x}
  Capacity = 4
  Forgotten = {}
  MaxLen = 2
  BufSize = 2
  LowWater = 1
SPECIFICATION MCSpec
INVARIANTS TypeOK
PROPERTIES ImplementsContextIO CanceledFirst CancelEndsWaits ExpiredEnds
