SPECIFICATION Spec
CONSTANTS
  a1 = a1
  a2 = a2
  b1 = b1
  ha1 = ha1
  ha2 = ha2
  hb1 = hb1
  hb2 = hb2
  nA = nA
  nB = nB
  Nodes = {nA, nB}
  Clients = {a1, a2, b1}
  Beats = {ha1, ha2, hb1, hb2}
  NodeOf <- MCNodeOf
  TTL = 2
  MaxErrors = 1
  None = None
INVARIANTS
  TypeOK
  CalmLock
  HeartbeatsMatchHolders
SYMMETRY MCSymmetry
