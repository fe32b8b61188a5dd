SPECIFICATION TickSpec
CONSTANTS
  Cpu = {0, 1}
  Shared = Shared
  Interrupt = {30}
  Level = {160}
  Firmware = {}
  Ticks = 2
  Delays = {1, 3, 5}
  Far = 2
PROPERTIES
  TicksArrive
