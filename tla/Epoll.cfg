CONSTANTS
  Dirs = {"read", "write"}
  Readers = {r}
  Writers = {w}
  Cancelers = {x}
  Procs = {r, w, x}
  Capacity = 4
  Forgotten = {}
  MaxLen = 3
  Chunk = 2
  BufSize = 2
  LowWater = 1
SPECIFICATION MCSpec
INVARIANTS TypeOK Conservation FlagMatchesPipe SignalNeverStuck ReadNeverBlocks WriteAccounted
PROPERTIES ImplementsContextIO CancelEnds ExpiredEnds MethodsReturn
