\* Imports, creations, additions in every order, and renamings.
CONSTANTS
  Keys = {"a", "b"}
  Names = {"a", "b", "a_2", "a_3", "b_2", "hall", "hall_2", "door"}
  Domains = {"sensor", "cover"}
  Sensor = "sensor"
  Bare = "bare"
  StateName = "state"
  Variants <- MCVariants
  Rank <- MCRank
  Docs <- MCDocs
  Foreign <- MCForeign
  PrefixOf <- MCPrefixOf
  NewIds <- MCNewIds
  MaxRounds = 2
  MaxRenames = 1
  None = None
SPECIFICATION FairSpec
INVARIANT ReferencesKept
PROPERTIES CompletionResolves Completes
