SPECIFICATION Spec
CONSTANTS
  FormulaFunctions <- MCFormulaFunctions
  Words <- MCWords
  PlainWords <- MCPlainWords
  Reserved <- MCReserved
  EngineNames <- MCEngineNames
  DefaultId <- MCDefaultId
  ObjectId <- MCObjectId
  SensorClasses <- MCSensorClasses
  BinaryClasses <- MCBinaryClasses
  UnitsOf <- MCUnitsOf
  StateClassesOf <- MCStateClassesOf
  StateClasses <- MCStateClasses
  Rising = "total_increasing"
  State = "state"
  None = "none"
  Entries = {panel, house}
  Files <- MCFiles
  Uploads <- MCUploads
  HostSensors <- MCHostSensors
  AddedVariable <- MCAddedVariable
  MaxManagers = 2
SYMMETRY EntrySymmetry
INVARIANTS
  LoadsAreSound
  NothingLeftBehind
  RoundTrip
CHECK_DEADLOCK FALSE
