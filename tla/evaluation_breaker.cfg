SPECIFICATION FairSpec
CONSTANTS
  sensor = sensor
  second = second
  plain = plain
  area = area
  rated = rated
  loop = loop
  typo = typo
  e1 = e1
  e2 = e2
  v1 = v1
  v2 = v2
  ctx = ctx
  rate = rate
  NoContext = NoContext
  Missing = Missing
  Unavailable = Unavailable
  Invalid = Invalid
  NoValue = NoValue
  NoAnswer = NoAnswer
  Name <- OneName
  Id <- Itself
  Reads <- ReadsEach
  Hidden <- NothingHidden
  UsesGlobals = {}
  InText <- SecondsAreNamed
  Alone = {sensor}
  Own = {sensor, second}
  Circular = {loop}
  Broken = {typo}
  Contexts = {NoContext}
  Entities = {e1, e2}
  Values = {v1}
  Observed <- Anything
  GlobalSettings <- NoGlobals
  MaxFatal = 3
  MaxEntries = 1
  Formulas = {sensor, second, loop, typo}
INVARIANTS
  SkipsAreEarned
PROPERTIES
  BreakerLatches
  FaultsStop
  RecoversFromUnavailability
