SPECIFICATION BusSpec
CONSTANTS
  BW = 2
  SIZE = 16
  PAGE = 8
  MAX_BURST = 2
  IDS = 2
  Tests <- TestSet
  Units <- McUnits
  Packets <- McPackets
  NPKT = 2
  MAXRESET = 1
  SEGS = 2
  LANES = 2
  RAM_SIZE = 8
  Kinds <- McKinds
  Scripts <- ScriptSet
INVARIANTS
  PacketsExact
  AxiExact
  RamExact
PROPERTY BusFinishes
