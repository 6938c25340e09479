SPECIFICATION FairSpec
CONSTANTS
  w1 = w1
  w2 = w2
  Ids = {1, 2, 3}
  Writers = {w1, w2}
  BatchSize = 2
  MaxClock = 2
  MaxFaults = 2
INVARIANTS
  TypeOK
  SentBeforePassed
PROPERTY
  EventuallyShipped
