SPECIFICATION Spec
CONSTANTS
  p1 = p1
  p2 = p2
  c1 = c1
  c2 = c2
  x = x
  y = y
  Garbage = Garbage
  Free = Free
  Threads <- PushersAndOne
  Pushers <- PushersAndOne
  Poppers = {c1}
  Elems = {x, y}
  MaxPush = 3
INVARIANTS
  QTypeOK
  NoUnderflow
PROPERTIES
  IsFIFO
  PopReturns
