SPECIFICATION FairSpec
CONSTANTS
  c1 = c1
  c2 = c2
  b1 = b1
  b2 = b2
  Null = Null
  Conns = {c1}
  Bodies <- BodiesOf
  Blocks = {b1, b2}
  MaxSends <- Five
  MaxStarts = 2
  MaxFaults = 0
INVARIANTS
  UnpacksOwnAlone
PROPERTIES
  UnpacksAllAlone
CHECK_DEADLOCK FALSE
