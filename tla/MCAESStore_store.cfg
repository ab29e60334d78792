SPECIFICATION Spec
CONSTANTS
  k1 = k1
  k2 = k2
  i1 = i1
  i2 = i2
  v1 = v1
  NoKey = NoKey
  Garbage = Garbage
  NotFound = NotFound
  Keys = {k1, k2}
  Indices = {i1, i2}
  Values = {v1, i2}
  BlockRecords = 2
  MaxWrites = 4
  MaxFailures = 2
INVARIANTS
  TypeOK
  Paired
PROPERTIES
  IsStore
CHECK_DEADLOCK FALSE
