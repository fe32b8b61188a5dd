SPECIFICATION MSpec
CONSTANTS
  Core = {p0, p1, p2}
  p0 = p0
  p1 = p1
  p2 = p2
  NoCore = NoCore
  Reg = {r1, r2}
  r1 = r1
  r2 = r2
  XZR = XZR
  Instr = {"LDR", "STR", "DMB", "LDAR", "STLR", "LDXR", "STXR", "CLREX", "SVC"}
  Access <- Overlapping
  Tests <- AllTests
  Model = "adversarial"
  Capacity = 2
  Latency = 2
  Horizon = 20
  Granule = 2
  MaxClock = 11
  Ticks = 4
INVARIANTS
  TypeOK
  ProgramOrderPerByte
  OwnStoresVisible
  DeferredLoadsReadNow
  NothingOlderThanSync
  NoForbiddenOutcome
CHECK_DEADLOCK FALSE
