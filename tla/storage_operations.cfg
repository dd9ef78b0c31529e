\* SensorSet operations and imports of two callers, with failing saves and restarts.
SPECIFICATION Spec
CONSTANTS
  u1 = u1  u2 = u2  s1 = s1  s2 = s2  A = A  B = B  C = C  v = v
  c1 = c1  c2 = c2  l1 = l1  l2 = l2
  Absent = Absent  Garbled = Garbled
  Uids = {u1}
  SetIds = {s1, s2}
  Entities = {A, B}
  Vars = {v}
  PrefixOf <- NoPrefixes
  Clients = {c1, c2}
  Listeners = {l1}
  NewConfigs <- ConfigA
  NewGlobals <- NoGlobals
  NewBatches <- NoBatches
  Modifications <- NoModifications
  Imports <- SomeImports
  Ops = {"create", "delete", "add", "update", "remove", "globals", "import"}
  MaxOps = 3
  MaxRenames = 1
  MaxFailures = 1
  MaxRestarts = 1
INVARIANTS TypeOK NoOrphanSensors InOnePlace VersionsOrdered Durable SavedWhenQuiet
PROPERTIES ImplementsStore DiskMovesForward
CHECK_DEADLOCK FALSE
