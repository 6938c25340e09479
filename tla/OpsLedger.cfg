SPECIFICATION Spec
CONSTANTS
  t1 = t1
  t2 = t2
  t3 = t3
  p1 = p1
  p2 = p2
  Threads <- MCThreads
  Procs <- MCProcs
  ProcOf <- MCProcOf
  Ids = {i1}
  EmptyCheckpoint = empty
  Checkpoints = {empty, step1}
  Errors = {boom}
  None = None
  Absent = Absent
INVARIANTS
  TypeOK
  ErrorMeansFailed
  NoFalseAlarm
PROPERTIES
  LifeCycleRespected
  ImplementsService
SYMMETRY MCSymmetry
