SPECIFICATION OSpec
CONSTANTS
  Core = {c1, c2}
  NoCore = NoCore
  Reg = {r1, r2}
  XZR = XZR
  Instr = {"LDR", "STR"}
  Access <- Bytes
  Model = "adversarial"
  Capacity = 2
  Latency = 1
  Horizon = 9
  Granule = 2
  MaxClock = 7
SYMMETRY Symmetry
INVARIANTS
  CoherentReads
CHECK_DEADLOCK FALSE
