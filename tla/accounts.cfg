SPECIFICATION Spec
CONSTANTS
  Threads = {t1, t2}
  Ids = {u1, u2}
  Names = {admin, n1}
  Admin = admin
  MaxRequests = 5
  MaxFaults = 1
SYMMETRY Symmetry
INVARIANTS UpdatesKept RolesCurrent
PROPERTIES RevokesUnlessRaced AloneKeepsSuperadmin
CHECK_DEADLOCK FALSE
