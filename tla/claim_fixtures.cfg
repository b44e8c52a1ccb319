CONSTANTS
  NPROGS = 2
  SOURCES <- MCSources
  NO_DATA = "none"
  BLANK = "blank"
  MISSING = MISSING
  EMPTY = EMPTY
  TORN = TORN
  ends <- MCEnds
  MAX_EDITS = 2
  MAX_RUNS = 3
  MAX_FAULTS = 0
SPECIFICATION Spec
INVARIANTS
  FailedProgramsUntouched
CHECK_DEADLOCK FALSE
