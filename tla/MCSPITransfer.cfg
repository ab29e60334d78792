SPECIFICATION FairSpec
CONSTANTS
  a = a
  b = b
  Free = Free
  Zero = Zero
  Untouched = Untouched
  Threads = {a, b}
  Sizes = {0, 1, 3, 4, 5, 9}
  Params <- Registers
  CHUNK = 4
  WIDTH = 2
  MaxCalls = 1
INVARIANTS
  TypeOK
  ReadsInside
  WritesInside
  OnePartWhole
  ReturnsMoved
PROPERTIES
  CallsReturn
CHECK_DEADLOCK FALSE
