SPECIFICATION Spec
CONSTANTS
  c1 = c1
  k1 = k1
  r1 = r1
  d1 = d1
  d2 = d2
  x1 = x1
  x2 = x2
  h1 = h1
  h2 = h2
  None = None
  Res = {c1, r1}
  Kind <- ConfigAndRegistry
  Data = {d1, d2}
  Apps = {x1, x2}
  Handlers = {h1}
  Tails = 2
  SpacedWrites = FALSE
  NamespaceLock = FALSE
  Requests <- AllOperations
  Failures = FALSE
  MaxRequests = 4
PROPERTY VersionIncrements
