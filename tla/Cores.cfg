SPECIFICATION Spec
CONSTANTS
  ByteBits = 3
  AmountBits = 4
  HaveSecurityExt = TRUE
  HaveVirtExt = FALSE
  HighVectors = 3840
  MemWords = 32
  MinSubregions = 8
  Size <- Sizes
  Operands = {0, 1, 2047, 2048, 4095}
  Few = {1, 2048, 4095}
  Programs = {"flow", "block", "undef", "reach", "attempt", "jump", "call"}
  Styles = {"direct", "stack", "list", "nested", "switch"}
  Memories = {"PMSA", "VMSA"}
  MaxInterrupts = 1
INVARIANTS
  ResultsAreRight
  OpcodesAgree
  CallsReturn
PROPERTIES
  ResumesExactly
  UserConfined
  KernelMemoryKept
  AbortsKeepRegisters
