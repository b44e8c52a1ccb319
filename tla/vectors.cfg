CONSTANTS
  XLEN = 8
  NREG = 32
  MEIE_BIT = 6
  BitAnd <- MCBitAnd
  BitOr <- MCBitOr
  BitXor <- MCBitXor
  REGS <- MCRegs
  SAMPLES <- MCSamples
  SWEEP <- MCSweep
SPECIFICATION Spec
INVARIANTS
  DecodersAgree ControlVectorsPass ImmVectorsPass NoAssertionFails
  ImmediatesSurvive
CHECK_DEADLOCK FALSE
