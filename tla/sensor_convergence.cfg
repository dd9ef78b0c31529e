\* The same two sensors, made once each: where polls and cycles lead.
CONSTANTS
  Uids = {"a", "b"}
  Entities = {"meter"}
  Uses <- MCUses
  Reads <- MCReads
  Named <- MCNamed
  Seen <- MCReads
  Own <- MCOwn
  Values = {0, 1}
  Result <- MCResult
  Missing = Missing
  Unavailable = Unavailable
  Unknown = Unknown
  MaxFatal = 2
  Observed = {1, Unavailable}
  Restored = {0}
  MaxMade <- MCOnce
  None = None
SPECIFICATION FairSpec
PROPERTY Converges
