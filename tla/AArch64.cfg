SPECIFICATION AArch64Spec
CONSTANTS
  Core = {c1, c2}
  NoCore = NoCore
  Reg = {r1}
  XZR = XZR
  Instr = {"LDR", "STR", "LDXR", "STXR", "STLR", "CLREX", "DMB", "SVC", "LDAR"}
  Access <- Overlapping
  Model = "sequential"
  Capacity = 2
  Latency = 1
  Horizon = 9
  Granule = 2
  MaxClock = 4
  XLog = 4
  Xs = {0, 1, 2, 3, 30}
  HalfBit = 13
  PhysicalBits = 12
  PageBits = 6
  EntryBits = 3
  InstrBytes = 4
  VectorSize = 4
INVARIANTS
  ReservationFresh
  EncodingsMean
  TransfersMean
  LevelsResume
  AddressesHold
  Confined
PROPERTIES
  SequentiallyConsistent
CHECK_DEADLOCK FALSE
