SPECIFICATION FairSpec
CONSTANTS
  CORE_COUNT = 2
  SLOT_COUNT = 2
  PKT_DONE_DEPTH = 1
  PKT_TO_CORE_DEPTH = 2
  ARB_OUT_DEPTH = 2
  RECV_DESC_DEPTH = 2
  SEND_DESC_DEPTH = 2
  MAX_RESERVED = 1
  CTRL_NET_DEPTH = 1
  Paths <- OnePath
  Targets <- HalfToHalf
PROPERTY SlotReturns
