SPECIFICATION Spec
CONSTANTS
  p1 = p1
  Pipelines = {p1}
  u1 = u1
  u2 = u2
  Users = {u1, u2}
  NoUser = NoUser
  i1 = i1
  i2 = i2
  Identities = {i1, i2}
  f1 = f1
  Fingers = {f1}
  MaxSamples = 2
  MaxRecords = 2
  StorageFails = TRUE
SYMMETRY Symmetry
PROPERTIES
  IdentifyIsUnique
CHECK_DEADLOCK FALSE
