CONSTANTS
  Readers = {r}
  Writers = {}
  Cancelers = {x}
  Forgotten = {}
  MaxLen = 1
  BufSize = 1
  LowWater = 1
SPECIFICATION FairSpec
PROPERTIES ExpiredReturns
