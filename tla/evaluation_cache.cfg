SPECIFICATION Spec
CONSTANTS
  sensor = sensor
  second = second
  plain = plain
  area = area
  rated = rated
  loop = loop
  typo = typo
  e1 = e1
  e2 = e2
  v1 = v1
  v2 = v2
  ctx = ctx
  rate = rate
  NoContext = NoContext
  Missing = Missing
  Unavailable = Unavailable
  Invalid = Invalid
  NoValue = NoValue
  NoAnswer = NoAnswer
  Name <- Texts
  Id <- Texts
  Reads <- ReadsOne
  Hidden <- AreaHides
  UsesGlobals = {rated}
  InText <- SecondsAreNamed
  Alone = {}
  Own = {sensor}
  Circular = {}
  Broken = {}
  Contexts = {NoContext, ctx}
  Entities = {e1, e2}
  Values = {v1, v2}
  Observed <- Values
  GlobalSettings <- RateMaySet
  MaxFatal = 2
  MaxEntries = 2
  Formulas = {plain, area, rated, sensor}
INVARIANTS
  TypeOK
  FreshAnswers
PROPERTIES
  AnswersFreshInCycle
