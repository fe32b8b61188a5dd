SPECIFICATION ClusterSpec
CONSTANTS
  Cpu = {0, 1}
  Shared = Shared
  Interrupt = {1}
  Level = {160}
  Firmware = {}
  Programs = {{"str", "dsb", "wfe", "sev", "sevl", "finish", "fault", "on", "off", "plain"}, {"wfi", "daif", "sgi", "iar", "eoir", "eret"}, {"daif", "sgi", "finish", "eret"}}
  Wired = {}
  SLICE_SIZE = 2
  LATENCY = 2
  Driver = "run"
  MaxStores = 1
INVARIANTS
  HaltedIsSpinning
  NoSleepThroughEvent
PROPERTIES
  StoresLand
