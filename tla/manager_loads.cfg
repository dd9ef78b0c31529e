\* Loads, reloads, single additions and removals, with the device coming and going.
CONSTANTS
  Uids = {"a", "b"}
  EntityIds <- MCEntityIds
  Formulas <- MCFormulas
  Configs <- MCConfigs
  NeedsDevice = {"b"}
  Assigns <- MCAssigns
  Backings <- MCBackings
  Variables <- MCVariables
  SensorDomain <- MCSensorDomain
  StateOf <- MCStateOf
  MaxMade = 2
  None = None
SPECIFICATION Spec
INVARIANTS TypeOK ManagedAreRegistered LookupsAgree
PROPERTIES LoadsKeepUp KeepsNeeded
