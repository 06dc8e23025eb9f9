SPECIFICATION Spec
CONSTANTS
  Threads = {t1, t2}
  Entities = {e1}
  Kinds <- MCKinds
  Steps = 3
  Hits <- MCHits
  Window = 1
  Triggers <- MCTriggers
  Counted <- MCCounted
  ThresholdCount = 2
  CountWindow = 1
  MaxEvents = 4
  MaxClock = 2
  MaxBoots = 2
SYMMETRY Symmetry
INVARIANTS FiringsExplained OpenedChainsFire ThresholdNotMissed
CHECK_DEADLOCK FALSE
