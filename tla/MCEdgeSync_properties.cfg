SPECIFICATION Spec
CONSTANTS
  c1 = c1
  c2 = c2
  i1 = i1
  CoreSlots = {c1, c2}
  InitSlots = {i1}
  Admins = {a1, a2}
  Scopes <- TwoUpdates
  None = None
INVARIANT PropertiesWritten
