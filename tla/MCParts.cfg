SPECIFICATION PartsSpec
SYMMETRY Symmetry
CONSTANTS
  Names = {m1, m2}
  Versions = {v1, v2, v3}
  Admins = {a1, a2}
  None = None
  AppNames = {p1, p2}
INVARIANTS
  OneLatest
  SysAppsExact
  NothingLeft
  CoreAgrees
  KeepsCertificate
  GeneratedExact
  NothingDangles
  FitSucceeds
  FileDone
  MountsLatest
  WritesWhole
  PagesCover
  CredentialsWhole
  NoEditLost
  CreatedWhole
PROPERTIES
  LatestKept
  FinishedStep
CHECK_DEADLOCK FALSE
