CONSTANTS
  Dirs = {"read", "write"}
  Readers = {r}
  Writers = {}
  Cancelers = {x}
  Procs = {r, x}
  Capacity = 4
  Forgotten = {}
  MaxLen = 1
  Chunk = 1
  BufSize = 1
  LowWater = 1
SPECIFICATION FairSpec
PROPERTIES CancelEndsReads
