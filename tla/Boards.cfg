SPECIFICATION BoardsSpec
CONSTANTS
  Cpu = {c1, c2}
  Shared = Shared
  Interrupt = {1, 30, 40}
  Level = {160}
  Firmware = {}
  Patient = TRUE
INVARIANTS
  OneServer
  EdgesAreLatched
  LevelsFollowTheirLine
  PokesStayRouted
PROPERTIES
  PokesAreTaken
  SignalsCross
  LastStoresLand
