SPECIFICATION FairSpec
CONSTANTS
  Commands <- AllCommands
  Events = {"dram"}
  Words = {0, 1}
  HALF = 2
  CMD_GAP = 3
INVARIANT TimerInSync
PROPERTY StatusAnswered
