SPECIFICATION Spec
CONSTANTS
  Admins = {a1}
  Servers = {s1}
  l1 = l1
  LabelOf <- OneLabel
  Faults = {"rcon"}
  MaxProxies = 2
  IpOf <- TwoOnAHost
  MaxRuns = 1
  None = None
SYMMETRY Interchangeable
PROPERTIES
  GetRconWorks
