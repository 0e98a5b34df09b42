SPECIFICATION Spec
CONSTANTS
  c1 = c1
  c2 = c2
  h1 = h1
  h2 = h2
  world = world
  ops = ops
  Takers = {c1, c2}
  Guarded = {c1, c2}
  Hosts = {h1, h2}
  HostOf <- OwnHost
  Files = {world, ops}
  Types = {"ServerSnapshot"}
  FilesOf <- AllFiles
  Faults = {"rcon", "restart", "crash", "disk", "read"}
  MaxVersion = 1
  MaxTime = 0
  Retries = 0
  Absent = Absent
SYMMETRY Exchanges
INVARIANTS
  PointInTime
  PublishedComplete
  PublishedFresh
  AutoSaveRestored
