SPECIFICATION DriverFairSpec
CONSTANTS
  c1 = c1
  c2 = c2
  c3 = c3
  c4 = c4
  i1 = i1
  i2 = i2
  h1 = h1
  h2 = h2
  s1 = s1
  s2 = s2
  NoClient = NoClient
  NoHwFilter = NoHwFilter
  Filters <- MCFilters
  NoHandle <- MCNoHandle
  Id = {i1}
  Client = {c1, c2, c3, c4}
  Wants <- MCWants
  Remover = {c1, c2, c3, c4}
  SlotCount = 2
  HwFilter = {h1, h2}
  RxQueueLen = 1
  TxQueueLen = 1
  Sender = {}
  MaxBus = 0
CHECK_DEADLOCK FALSE
INVARIANTS
  TypeOK
  RegistrationsConsistent
  InitIsAllOrNothing
PROPERTIES
  QueuedFramesReachHandlers
  InitEnds
