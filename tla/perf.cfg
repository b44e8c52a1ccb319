CONSTANTS
  XLEN = 8
  NREG = 4
  MEIE_BIT = 6
  BitAnd <- MCBitAnd
  BitOr <- MCBitOr
  BitXor <- MCBitXor
  FORWARDING = TRUE
  BHT_ENABLE = TRUE
  IMEM_WORDS = 16
  DMEM_WORDS = 2
  BHT_ENTRIES = 2
  PROGRAMS <- PerfPrograms
  DMEM_INIT <- MCDmemInit
  LATCH_INIT = 90
  MAX_CYCLES = 30
  IRQ_LEVELS = {FALSE, TRUE}
SPECIFICATION Spec_perf
INVARIANTS CyclesAccountedFor BranchesCountedOnce PredictionsSettle
CHECK_DEADLOCK FALSE
