SPECIFICATION Spec
CONSTANTS
  Clients = {c1, c2}
  Tasks = {t1, t2}
  Names = {n1}
  Bad = {}
  Faults = {}
  None = None
INVARIANTS
  UniqueNames
