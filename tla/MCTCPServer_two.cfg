SPECIFICATION Spec
CONSTANTS
  c1 = c1
  c2 = c2
  b1 = b1
  b2 = b2
  Null = Null
  Conns = {c1, c2}
  Bodies <- BodiesOf
  Blocks = {b1, b2}
  MaxSends <- Two
  MaxStarts = 2
  MaxFaults = 0
INVARIANTS
  UnpacksOwn
CHECK_DEADLOCK FALSE
