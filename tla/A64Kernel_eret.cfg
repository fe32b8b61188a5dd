SPECIFICATION KernelSpec
CONSTANTS
  XLog = 4
  Xs = {0, 1, 2, 3, 30}
  Granule = 16
  HalfBit = 13
  PhysicalBits = 12
  PageBits = 6
  EntryBits = 3
  Capacity = 16
  Latency = 8
  InstrBytes = 4
  VectorSize = 4
  Fenced = FALSE
INVARIANTS
  EveryStoreLands
CHECK_DEADLOCK FALSE
