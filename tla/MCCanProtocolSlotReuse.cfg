SPECIFICATION Spec
CONSTANTS
  c1 = c1
  c2 = c2
  c3 = c3
  i1 = i1
  i2 = i2
  h1 = h1
  h2 = h2
  h3 = h3
  s1 = s1
  s2 = s2
  NoClient = NoClient
  NoHwFilter = NoHwFilter
  Id = {i1, i2}
  Client = {c1, c2}
  Wants <- MCWants
  Remover = {c1}
  SlotCount = 1
  HwFilter = {h1, h2}
  RxQueueLen = 1
  TxQueueLen = 1
  Sender = {}
  MaxBus = 0
CHECK_DEADLOCK FALSE
INVARIANTS
  HandlerGetsItsFrames
