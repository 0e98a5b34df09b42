SPECIFICATION Spec
CONSTANTS
  t1 = t1
  t2 = t2
  t3 = t3
  p = p
  q = q
  a = a
  b = b
  Threads = {t1, t2, t3}
  Zippers = {t1, t2}
  Editors = {t2, t3}
  Processes = {p, q}
  ProcOf <- Two
  Dirs = {a, b}
  Home <- StartInA
  Here = Here
  Given <- Asked
  Names = {world, ops}
  Keys = {k1, k2}
  OtherKeys = {k3}
  Values = {v1, v2}
  Faults = {"disk", "crash"}
  Garbled = Garbled
  None = None
SYMMETRY Alike
INVARIANTS
  TypeOK
  OwnDirectory
  BackHome
  WholeOrEmpty
  ConfigKept
