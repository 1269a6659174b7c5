SPECIFICATION FairSpec
CONSTANTS
  POLICY = "blocking"
  HostCommands <- MCHostCommands
  BusySets <- Never
  FullSets <- Never
  IF_COUNT = 2
  CORE_COUNT = 2
  SLOT_COUNT = 1
  DATA_FIFO_WORDS = 2
  RAM_PIPELINE = 1
  WORDS = 2
  HASH_FIFO_DEPTH = 2
INVARIANTS HashesAligned SlotsConserved
PROPERTY BlockingServes
