SPECIFICATION FairSpec
CONSTANTS
  c1 = c1
  c2 = c2
  h1 = h1
  h2 = h2
  world = world
  ops = ops
  Takers = {c1, c2}
  Guarded = {c1, c2}
  Hosts = {h1, h2}
  HostOf <- OwnHost
  Files = {world}
  Types = {"WorldSnapshot"}
  FilesOf <- WorldOnly
  Faults = {"disk", "restart"}
  MaxVersion = 1
  MaxTime = 0
  Retries = 1
  Absent = Absent
PROPERTIES
  SavingResumes
  CallsReturn
