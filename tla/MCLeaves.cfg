SPECIFICATION LeavesSpec
CONSTANTS
  SLOT_COUNT = 4
  SLOT_WIDTH = 3
  Size = 4
  Data = {d1, d2}
  PORT_COUNT = 5
  ADDR_WIDTH = 3
  MaxValue = 2
  W = 4
  H = 3
  H_BLOCKING = 1
  HDR_READY = TRUE
  MAX_LEN = 12
  MAX_PKT_HDR_SIZE = 8
  SLOT_SIZE = 16
  PKT_COUNT = 3
  Lengths = {1, 4, 9}
  Offsets = {0, 1, 3}
  DESC_COUNT = 2
  MEM_DEPTH = 3
INVARIANTS NoDoubleGrant CountTracksFree FlagsAgree FindsMaximum DmaExact HeadersExact
PROPERTIES ImplementsFifo DmaCompletes
