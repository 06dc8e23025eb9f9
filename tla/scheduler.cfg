SPECIFICATION FairSpec
CONSTANTS
  Ids = {i1}
  MaxEvents = 0
  Busy = {}
  MaxQueue = 1
  Restarts = FALSE
PROPERTIES PolledAgain
CHECK_DEADLOCK FALSE
