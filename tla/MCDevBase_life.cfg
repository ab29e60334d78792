SPECIFICATION FairSpec
CONSTANTS
  d1 = d1
  d2 = d2
  Nobody = Nobody
  Devices = {d1, d2}
  Fds = {3, 4}
  ClassSteps <- Steps
  MaxCalls = 6
INVARIANTS
  TypeOK
  ReadsOpenDescriptor
  OwnDescriptor
  ListedStarted
PROPERTIES
  StopReturns
CHECK_DEADLOCK FALSE
