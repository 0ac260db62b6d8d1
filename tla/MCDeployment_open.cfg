SPECIFICATION Spec
CONSTANTS
  n1 = n1
  n2 = n2
  x1 = x1
  x2 = x2
  s1 = s1
  s2 = s2
  l1 = l1
  h1 = h1
  h2 = h2
  None = None
  Nodes = {n1}
  UserApps = {x1}
  SysApps = {s1, s2}
  Labels = {l1}
  UserSelectors <- MCSelectors
  Handlers = {h1, h2}
  NamespaceLock = FALSE
  Requests <- AllOperations
  Failures = FALSE
  MaxRequests = 4
SYMMETRY Symmetry
INVARIANTS TypeOK NoPhantomVersion
PROPERTY CasOverwritesWhatItRead
