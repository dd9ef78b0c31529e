SPECIFICATION Spec
CONSTANTS
  meter = meter
  solar = solar
  volts = volts
  total = total
  share = share
  power = power
  grid = grid
  OwnId = OwnId
  Nothing = Nothing
  NoHandler = NoHandler
  Absent = Absent
  NoAnswer = NoAnswer
  Sensors <- MCSensors
  Entities <- MCEntities
  Observed <- MCObserved
  Names <- MCNames
  Variables <- MCVariables
  Computed <- MCComputed
  Formula <- MCFormula
  OwnState <- MCOwnState
  Handlers <- MCHandlers
  GlobalSettings <- MCGlobalSettings
  MaxFatal = 2
INVARIANTS
  AnswersAreMeant
  HandlersFit
  FailuresHaveACause
