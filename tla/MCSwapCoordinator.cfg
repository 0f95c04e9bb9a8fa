CONSTANTS
  Calls = {c1, c2, c3}
  DomainKeys <- MCDomains
  Rank <- MCRank
  DomainLists <- MCDomainLists
  NoKey = NoKey
SPECIFICATION FairSwapSpec
CHECK_DEADLOCK FALSE
INVARIANTS SwapTypeOK TurnsAreTaken
PROPERTIES ExclusiveSpec EveryCallRuns
