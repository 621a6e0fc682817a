CONSTANTS
  Dirs = {"read", "write"}
  Readers = {r}
  Writers = {w}
  Cancelers = {x}
  Procs = {r, w, x}
  Capacity = 4
  Forgotten = {"canceled"}
  MaxLen = 1
  BufSize = 1
  LowWater = 1
  IsFile = FALSE
SPECIFICATION Spec
INVARIANTS WritesLeaveReadsAlone
