SPECIFICATION BufferSpec
CONSTANTS
  a1 = a1
  b1 = b1
  ha1 = ha1
  ha2 = ha2
  hb1 = hb1
  nA = nA
  nB = nB
  Nodes = {nA, nB}
  Clients = {a1, b1}
  Beats = {ha1, ha2, hb1}
  NodeOf <- MCNodeOf
  TTL = 1
  MaxClock = 2
  MaxFaults = 1
  MaxLines = 2
  None = None
INVARIANTS
  BufferTypeOK
  CalmLock
  FaultlessEmptyWritten
  CalmBufferIsLog
