SPECIFICATION SSpec
CONSTANTS
  Cpu = {c1, c2}
  Shared = Shared
  Interrupt = {1, 40}
  Level = {160}
  Firmware = {}
  Patient = FALSE
INVARIANTS
  PokesStayRouted
