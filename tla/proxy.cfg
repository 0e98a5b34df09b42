SPECIFICATION Spec
CONSTANTS
  Admins = {a1, a2}
  Servers = {s1}
  l1 = l1
  LabelOf <- OneLabel
  Faults = {"rcon", "aws"}
  MaxProxies = 3
  IpOf <- TwoOnAHost
  MaxRuns = 2
  None = None
SYMMETRY Interchangeable
INVARIANTS
  TypeOK
  AnswersHold
