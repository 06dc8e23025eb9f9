SPECIFICATION FairSpec
CONSTANTS
  Ids = {i1, i2}
  MaxEvents = 2
  Busy = {i1}
  MaxQueue = 1
  Restarts = TRUE
INVARIANTS NothingSkipped
PROPERTIES RunsEnd ManualRuns
CHECK_DEADLOCK FALSE
