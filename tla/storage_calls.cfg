\* Every call returns, as long as saves end: imports, bulk stores, modifications and direct updates.
SPECIFICATION FairSpec
CONSTANTS
  u1 = u1  u2 = u2  s1 = s1  s2 = s2  A = A  B = B  C = C  v = v
  c1 = c1  c2 = c2  l1 = l1  l2 = l2
  Absent = Absent  Garbled = Garbled
  Uids = {u1, u2}
  SetIds = {s1}
  Entities = {A, B}
  Vars = {v}
  PrefixOf <- NoPrefixes
  Clients = {c1, c2}
  Listeners = {l1}
  NewConfigs <- ConfigsAB
  NewGlobals <- NoGlobals
  NewBatches <- OneBatch
  Modifications <- SomeModifications
  Imports <- SomeImports
  Ops = {"create", "replace", "modify", "persist", "variable", "import"}
  MaxOps = 3
  MaxRenames = 0
  MaxFailures = 1
  MaxRestarts = 0
PROPERTIES CallsReturn
CHECK_DEADLOCK FALSE
