SPECIFICATION WakeupSpec
CONSTANTS
  Cpu = {0, 1}
  Shared = Shared
  Interrupt = {1, 40}
  Level = {160}
  Firmware = {}
  Programs = {{"plain", "wfe", "wfi", "sev", "sgi", "daif", "str", "dsb", "iar", "eoir", "eret", "finish"}}
  Wired = {40}
  SLICE_SIZE = 2
  LATENCY = 3
  Driver = "step"
  MaxStores = 1
  MaxWork = 4
PROPERTIES
  InterruptsWake
  WaitersGetOut
