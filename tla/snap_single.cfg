SPECIFICATION Spec
CONSTANTS
  c1 = c1
  c2 = c2
  h1 = h1
  h2 = h2
  world = world
  ops = ops
  Takers = {c1}
  Guarded = {c1}
  Hosts = {h1}
  HostOf <- Alone
  Files = {world, ops}
  Types = {"ServerSnapshot", "WorldSnapshot"}
  FilesOf <- TwoTypes
  Faults = {"rcon", "restart", "crash", "disk", "s3"}
  MaxVersion = 1
  MaxTime = 1
  Retries = 1
  Absent = Absent
INVARIANTS
  TypeOK
  SaveOffAccounted
PROPERTIES
  ImplementsAtomicBackup
