CONSTANTS
  NPROGS = 2
  SOURCES <- MCSources
  NO_DATA = "none"
  BLANK = "blank"
  MISSING = MISSING
  EMPTY = EMPTY
  TORN = TORN
  ends <- MCEnds
  MAX_EDITS = 1
  MAX_RUNS = 3
  MAX_FAULTS = 2
SPECIFICATION Spec
INVARIANTS
  GeneratedFixturesPass FailedProgramsNeverPass FixturesAreTheSources
  SuccessHidesOnlyDeaths
CHECK_DEADLOCK FALSE
