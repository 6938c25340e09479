SPECIFICATION Spec
CONSTANTS
  p1 = p1
  p2 = p2
  q1 = q1
  P = P
  Q = Q
  t1 = t1
  t2 = t2
  s1 = s1
  x1 = x1
  x2 = x2
  Processes = {P, Q}
  Callers = {p1, p2, q1}
  ProcessOf <- MCProcessOf
  Tools = {t1, t2}
  Skills = {s1}
  Texts = {x1, x2}
  MaxFaults = 1
  None = None
  Unknown = Unknown
INVARIANTS
  TypeOK
  QuietIsConfirmed
  AnswersMatch
  LoneDeleteWorks
SYMMETRY MCSymmetry
