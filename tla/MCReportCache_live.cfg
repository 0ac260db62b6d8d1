SPECIFICATION FairSpec
CONSTANTS
  s1 = s1
  s2 = s2
  n1 = n1
  n2 = n2
  a1 = a1
  a2 = a2
  Namespaces = {s1}
  Names = {n1, n2}
  Installed <- AllNodes
  Overlap = 1
  Admins = {a1}
  Requests = {"Delete", "List"}
  CacheErrors = FALSE
  ResetLimit = 1
  MaxTime = 1
  MaxRequests = 1
PROPERTY ReportReachesList
