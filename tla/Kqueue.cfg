CONSTANTS
  Dirs = {"read", "write"}
  Readers = {r}
  Writers = {w}
  Cancelers = {x}
  Procs = {r, w, x}
  Capacity = 4
  Forgotten = {"canceled", "error"}
  MaxLen = 2
  BufSize = 2
  LowWater = 1
  IsFile = FALSE
SPECIFICATION MCSpec
INVARIANTS TypeOK ReadNeverBlocks WriteNeverBlocks
PROPERTIES ImplementsContextIO ExpiredReturns
