SPECIFICATION DevicesSpec
CONSTANTS
  FifoDepth = 1
  Addresses = {0, 1}
  BrkClearsFifos = FALSE
  Wirings = {"bcm", "tegra"}
  TegraDepth = 1
  SoftwareCs = FALSE
  MaxWork = 3
  MaxWords = 2
  MaxAnswers = 1
  Pins = {"out", "in"}
  Controllers = {"bcm", "tegra"}
  BcmPins = {"in"}
  TegraPins = {"out", "in"}
  SliceSize = 3
  MayCrash = TRUE
  Cpu = {0}
  Shared = Shared
  Interrupt = {30, 40}
  Level = {160}
  Firmware = {"ENABLER", "PENDR", "ACTIVER", "ROUTING", "CTLR"}
  Patient = TRUE
  Ticks = 2
  Delays = {1, 3, 5}
  Far = 2
INVARIANTS
  DialoguesAreFrames
  LinkIsFaithful
  GpioEventsStay
  HaltedIsParked
  RegistersHold
  TickIsReal
PROPERTIES
  PollsHold
  InputsFollowWires
