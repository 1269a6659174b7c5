SPECIFICATION FairSpec
CONSTANTS
  IF_COUNT = 2
  CORE_COUNT = 4
  CLUSTER_COUNT = 2
  CLUSTER_CORE_WIDTH = 1
  SLOT_COUNT = 1
  WordKinds = {"none", "mid", "last"}
  HostCommands <- MCHostCommands
  BusySets <- MCBusySets
INVARIANTS SlotsConserved GrantIsExpected
PROPERTIES NoGrantFromDisabled StallEnds
