\* Every operation: what the entity indexes and the validation make of them.
SPECIFICATION Spec
CONSTANTS
  u1 = u1  u2 = u2  s1 = s1  s2 = s2  A = A  B = B  C = C  v = v
  c1 = c1  c2 = c2  l1 = l1  l2 = l2
  Absent = Absent  Garbled = Garbled
  Uids = {u1, u2}
  SetIds = {s1}
  Entities = {A, B}
  Vars = {v}
  PrefixOf <- NoPrefixes
  Clients = {c1, c2}
  Listeners = {l1}
  NewConfigs <- ConfigsAB
  NewGlobals <- GlobalsAB
  NewBatches <- OneBatch
  Modifications <- SomeModifications
  Imports <- IndexImports
  Ops = {"create", "get", "delete", "add", "update", "remove", "persist", "replace",
         "globals", "variable", "modify", "import"}
  MaxOps = 3
  MaxRenames = 1
  MaxFailures = 1
  MaxRestarts = 0
INVARIANTS IndexComplete
PROPERTIES GlobalsStayAgreed
CHECK_DEADLOCK FALSE
