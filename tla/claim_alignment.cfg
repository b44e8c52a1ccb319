CONSTANTS
  XLEN = 8
  NREG = 4
  MEIE_BIT = 6
  BitAnd <- MCBitAnd
  BitOr <- MCBitOr
  BitXor <- MCBitXor
  FORWARDING = TRUE
  BHT_ENABLE = TRUE
  IMEM_WORDS = 16
  DMEM_WORDS = 2
  BHT_ENTRIES = 2
  PROGRAMS <- NestingPrograms
  DMEM_INIT <- MCDmemInit
  LATCH_INIT = 90
  IRQ_LEVELS = {FALSE, TRUE}
  MAX_IRQS = 2
  MAX_CYCLES = 40
  MAX_INSNS = 40
  REGS_FILES <- MCRegsFiles
SPECIFICATION Spec_tb
INVARIANT EnabledArrivalsAgree
CHECK_DEADLOCK FALSE
