CONSTANTS
  LO_SIZE = 16
  HI_SIZE = 16
  BYTE_SIZE = 4
  MEM_BYTES = 16
  LINES <- MCLines
  MAX_LINES = 4
SPECIFICATION Spec
INVARIANTS NothingOverwritten LabelsNameWhatFollows PairsRebuildTheirValue
CHECK_DEADLOCK FALSE
