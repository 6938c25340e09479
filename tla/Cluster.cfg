SPECIFICATION Spec
CONSTANTS
  w = w
  f = f
  g = g
  k1 = k1
  k2 = k2
  Nodes = {w, f, g}
  Senders = {w}
  Tasks = {k1, k2}
  None = None
  Interval = 1
  Slack = 0
  SuspectAfter = 1
  DeadAfter = 2
  KeyTTL = 4
  MaxMissed = 2
  MaxErrors = 1
INVARIANTS
  TypeOK
  NoFalseDeath
  OrderlyOneRunner
SYMMETRY MCSymmetry
