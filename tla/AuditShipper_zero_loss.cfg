SPECIFICATION Spec
CONSTANTS
  w1 = w1
  w2 = w2
  Ids = {1, 2, 3}
  Writers = {w1}
  BatchSize = 2
  MaxClock = 2
  MaxFaults = 0
INVARIANT NoRecordLost
