CONSTANTS
  Readers = {r}
  Writers = {w}
  Cancelers = {x}
  Forgotten = {"canceled", "error"}
  MaxLen = 2
  BufSize = 1
  LowWater = 1
  MaxNoise = 1
SPECIFICATION MCSpec
INVARIANTS TypeOK ClosedOnce RequestsOwned NothingLost
PROPERTIES AllImplementContextIO DeadlineEndsReads CanceledEnds
