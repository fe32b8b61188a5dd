SPECIFICATION ClusterSpec
CONSTANTS
  Cpu = {0, 1}
  Shared = Shared
  Interrupt = {1}
  Level = {160}
  Firmware = {}
  Programs = {{"daif", "wfi", "sgi", "finish"}}
  Wired = {}
  SLICE_SIZE = 2
  LATENCY = 2
  Driver = "run"
  MaxStores = 0
INVARIANTS
  AllParkedIsFinal
