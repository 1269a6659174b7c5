SPECIFICATION LeavesSpec
CONSTANTS
  SLOT_COUNT = 1
  SLOT_WIDTH = 3
  Size = 2
  Data = {d1, d2}
  PORT_COUNT = 2
  ADDR_WIDTH = 1
  MaxValue = 2
  W = 4
  H = 3
  H_BLOCKING = 1
  HDR_READY = FALSE
  MAX_LEN = 12
  MAX_PKT_HDR_SIZE = 8
  SLOT_SIZE = 16
  PKT_COUNT = 3
  Lengths = {1, 4, 6, 9}
  Offsets = {0, 1, 3}
  DESC_COUNT = 2
  MEM_DEPTH = 3
INVARIANT RemoverExact
