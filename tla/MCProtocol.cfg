SPECIFICATION Spec
CONSTANTS
  Null = Null
  WORD = 8
  LENGTHS = 4
  Objects = {o1, o2}
  Blocks = {b1, b2, b3}
  Values = {1, 2}
  Messages <- Peers
  Ranges <- Arguments
  MaxSize = 5
  MaxCalls = 5
SYMMETRY Symmetry
INVARIANTS TypeOK BufferAsMeant MemorySafe LengthAgrees Unpacked
CHECK_DEADLOCK FALSE
