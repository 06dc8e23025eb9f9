SPECIFICATION Spec
CONSTANTS
  Threads = {t1, t2}
  Keys = {k1, k2}
  Quiet = {0, 2}
  MaxClock = 3
  MaxFirings = 4
  MaxBoots = 2
SYMMETRY Symmetry
INVARIANTS QuietWindows SuppressedCountExact NothingForgotten MutedByOwnFiring
CHECK_DEADLOCK FALSE
