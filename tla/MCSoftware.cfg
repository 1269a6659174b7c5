SPECIFICATION SoftSpec
CONSTANTS
  SIZE = 2
  PTRS = 8
  EQSIZE = 4
  REFILL = 1
  NTX = 2
  NRX = 2
  BITS = 2
  Loads <- McLoads
INVARIANTS
  NicExact
  OneOwner
  RulesExact
  MatchesExact
PROPERTIES
  PacketsHandled
  PartitionEnds
