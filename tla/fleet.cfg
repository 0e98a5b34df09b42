SPECIFICATION Spec
CONSTANTS
  Clients = {c1, c2}
  Tasks = {t1, t2, t3}
  Names = {n1, n2}
  Bad = {n2}
  Faults = {"lost", "aws", "failures", "stop"}
  None = None
SYMMETRY Interchangeable
INVARIANTS
  TypeOK
  RetrySafe
  DuplicatesOverlap
  WaitedHasPorts
