SPECIFICATION PcieSpec
CONSTANTS
  PAGE = 64
  MRRS = 32
  MPS = 16
  RCB = 8
  DEVS = 2
  SIZE = 128
  CFG = 20
  CapOffset <- McCapOffset
  Units <- AllUnits
  Programs <- McPrograms
  Topologies <- McTopologies
  NDEV = 4
  NFN = 3
  LAST_BUS = 255
  IO_WIN = 8
  MEM_WIN = 64
  IO_BASE = 64
  MEM_BASE = 128
  PREF_BASE = 4096
  ENUMS = 2
  RegionSizes <- McSizes
  RC_MPS = 2
  Functions <- McFunctions
  Patterns <- McPatterns
  ByteEnables <- McByteEnables
  MAXWRITES = 2
  Loads <- McLoads
  NP_MAX = 2
  GRANTS = 4
  MAXRESET = 1
INVARIANTS
  CompletionsMatch
  TransfersExact
  RoutesExact
  CapabilitiesFound
  WriteReadsBack
  HardBlockExact
PROPERTY
  PcieFinishes
