CONSTANTS
  Readers = {r}
  Writers = {w}
  Cancelers = {x}
  Forgotten = {"canceled"}
  MaxLen = 2
  BufSize = 1
  LowWater = 1
  Threads = {t1, t2}
  Handles = {1, 2}
SPECIFICATION MCSpec
INVARIANTS TypeOK
PROPERTIES ImplementsContextIO FoundEnds MethodsReturn
