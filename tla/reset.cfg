CONSTANTS
  XLEN = 8
  NREG = 4
  MEIE_BIT = 6
  BitAnd <- MCBitAnd
  BitOr <- MCBitOr
  BitXor <- MCBitXor
  FORWARDING = TRUE
  BHT_ENABLE = TRUE
  IMEM_WORDS = 16
  DMEM_WORDS = 2
  BHT_ENTRIES = 2
  PROGRAMS <- ResetPrograms
  DMEM_INIT <- MCDmemInit
  LATCH_INIT = 90
  IRQ_LEVELS = {FALSE, TRUE}
  MAX_RESETS = 2
SPECIFICATION Spec_reset
PROPERTY ImplementsRestart
