SPECIFICATION Spec
CONSTANTS
  a = a
  b = b
  c = c
  Garbage = Garbage
  Free = Free
  Threads = {a, b}
  Senders = {a, b}
  Closers = {}
  Elems <- Bytes256
  Payloads = {7}
  MaxLengths = {20}
  SockFds <- Fds
  ERROR_RETURN_TIMES = 1
  MaxCalls = 1
INVARIANTS
  LastFrameSent
CHECK_DEADLOCK FALSE
