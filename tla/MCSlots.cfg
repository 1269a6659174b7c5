SPECIFICATION SlotsSpec
CONSTANTS
  CORE_COUNT = 2
  SLOT_COUNT = 2
  PKT_DONE_DEPTH = 1
  PKT_TO_CORE_DEPTH = 2
  ARB_OUT_DEPTH = 2
  RECV_DESC_DEPTH = 2
  SEND_DESC_DEPTH = 2
  MAX_RESERVED = 2
  CTRL_NET_DEPTH = 1
  Paths <- AllPaths
  Targets <- HalfToHalf
  HASH_PORTS = 2
  HASH_SLOTS = 3
  RR_PORTS = 1
  RR_SLOTS = 2
  NCORES = 2
  CHUNK = 2
  Images <- McImages
  MEMORY = 6
INVARIANTS
  SlotInOnePlace
  NoOverflow
  SlotOwnedOnce
  LoadExact
PROPERTY HostFinishes
