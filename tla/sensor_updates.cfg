\* Polls and cycles of two sensors while they are replaced, removed and added.
CONSTANTS
  Uids = {"a", "b"}
  Entities = {"meter"}
  Uses <- MCUses
  Reads <- MCReads
  Named <- MCNamed
  Seen <- MCReads
  Own <- MCOwn
  Values = {0, 1}
  Result <- MCResult
  Missing = Missing
  Unavailable = Unavailable
  Unknown = Unknown
  MaxFatal = 1
  Observed = {1, Unavailable}
  Restored = {0}
  MaxMade <- MCMaxMade
  None = None
SPECIFICATION Spec
PROPERTIES CyclesSettle RemovedStayOut LastGoodSurvives
