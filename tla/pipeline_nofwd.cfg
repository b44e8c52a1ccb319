CONSTANTS
  XLEN = 8
  NREG = 4
  MEIE_BIT = 6
  BitAnd <- MCBitAnd
  BitOr <- MCBitOr
  BitXor <- MCBitXor
  FORWARDING = FALSE
  BHT_ENABLE = TRUE
  IMEM_WORDS = 8
  DMEM_WORDS = 2
  BHT_ENTRIES = 2
  PROGRAMS <- PipelinePrograms
  DMEM_INIT <- MCDmemInit
  LATCH_INIT = 90
  IRQ_LEVELS = {FALSE}
SPECIFICATION Spec
INVARIANTS OperandsAreArchitectural
PROPERTIES ImplementsArchitecture BubblesBounded
