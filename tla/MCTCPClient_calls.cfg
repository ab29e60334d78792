SPECIFICATION FairSpec
CONSTANTS
  a = a
  b = b
  c = c
  Garbage = Garbage
  Free = Free
  Threads = {a, c}
  Senders = {a, c}
  Closers = {c}
  Elems <- Bytes256
  Payloads = {1, 25}
  MaxLengths <- Lengths
  SockFds <- Fds
  ERROR_RETURN_TIMES = 1
  MaxCalls = 1
INVARIANTS
  TypeOK
  NoUnderflow
  TasksBalance
  ClosesAfterDrain
  OffersEachOnce
  RetryBudget
PROPERTIES
  SendReturns
  DisconnectReturns
CHECK_DEADLOCK FALSE
