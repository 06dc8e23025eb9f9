SPECIFICATION Spec
CONSTANTS
  Admins = {a1, a2}
  MaxRequests = 3
  RuleNames = {1, 2}
  Builtin = {1}
  Documents <- MCDocuments
  Matrix <- MCMatrix
  Workers = {w1}
  MaxEvents = 1
  Indicators = {"address", "path", "other"}
  TypeOf <- MCTypeOf
  Batches <- MCBatches
  Cap = 1
  Met <- MCMet
SYMMETRY Symm
INVARIANTS RulesComplete UndisturbedByReload
PROPERTIES ExceptionsFresh WatchlistFresh
CHECK_DEADLOCK FALSE
