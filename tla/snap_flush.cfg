SPECIFICATION Spec
CONSTANTS
  c1 = c1
  c2 = c2
  h1 = h1
  h2 = h2
  world = world
  ops = ops
  Takers = {c1}
  Guarded = {c1}
  Hosts = {h1}
  HostOf <- Alone
  Files = {world, ops}
  Types = {"ServerSnapshot"}
  FilesOf <- AllFiles
  Faults = {"flush"}
  MaxVersion = 1
  MaxTime = 0
  Retries = 0
  Absent = Absent
INVARIANTS
  PublishedReadable
