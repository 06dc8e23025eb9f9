SPECIFICATION RetentionSpec
CONSTANTS
  Threads = {t1, t2}
  BatchSize = 2
  MaxRows = 3
  MaxDay = 2
  MaxFailures = 1
SYMMETRY Symmetry
INVARIANTS KeptUnlessOverlap
PROPERTIES RunDrains
CHECK_DEADLOCK FALSE
