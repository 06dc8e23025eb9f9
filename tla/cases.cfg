SPECIFICATION Spec
CONSTANTS
  Threads = {t1, t2}
  CaseIds = {c1}
  i1 = i1
  Items = {i1}
  Given <- MCGiven
  Lists <- MCLists
  Notes = {n1}
  Steps = {s1}
  Resolutions = {tp}
  Unset = Unset
  Other = Other
  MaxRequests = 6
SYMMETRY Symmetry
INVARIANTS LinksTold StatusTold NothingLeftBehind
CHECK_DEADLOCK FALSE
