SPECIFICATION Spec
CONSTANTS
  s1 = s1
  s2 = s2
  n1 = n1
  n2 = n2
  a1 = a1
  a2 = a2
  Namespaces = {s1}
  Names = {n1}
  Installed <- OneNode
  Overlap = 2
  Admins = {a1, a2}
  Requests = {"Create", "Delete", "List"}
  CacheErrors = TRUE
  ResetLimit = 1
  MaxTime = 1
  MaxRequests = 2
SYMMETRY Symmetry
INVARIANTS OneFlusher SetLockOwned
