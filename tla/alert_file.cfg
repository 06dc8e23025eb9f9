SPECIFICATION LogSpec
CONSTANTS
  RuleThreads = {t1, t2}
  BaselineThreads = {b1}
  MaxLines = 2
  MaxRate = 1
  MaxSecond = 3
  MaxAlerts = 5
SYMMETRY Symmetry
INVARIANTS NotifiedAreWritten
PROPERTIES ReplacesOnlyStale
CHECK_DEADLOCK FALSE
