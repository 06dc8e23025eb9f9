SPECIFICATION LockoutSpec
CONSTANTS
  LoginThreads = {t1, t2, t3}
  Keys = {k1, k2}
  MAX_ATTEMPTS = 2
  BASE_BACKOFF_SECONDS = 1
  MAX_BACKOFF_SECONDS = 3
  MaxClock = 8
SYMMETRY Symmetry
INVARIANTS AttemptsSpaced
PROPERTIES EvictionHarmless
CHECK_DEADLOCK FALSE
