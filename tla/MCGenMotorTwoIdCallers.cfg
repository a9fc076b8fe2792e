SPECIFICATION HistorySpec
CONSTANTS
  c1 = c1
  c2 = c2
  t0 = t0
  t1 = t1
  MotorCount = 2
  DefaultNodeId <- MCDefaultNodeId
  DefaultPeriod <- MCDefaultPeriod
  Caller = {c1, c2}
  Ops <- TwoIdCallersOps
  Target = {t0, t1}
  InitialTarget = t0
  NodeIdArg <- AddressNodeIdArg
  ConfigArg <- NoConfigArg
  RxFrame <- AddressRxFrame
  MaxTx = 2
CHECK_DEADLOCK FALSE
INVARIANTS
  NodeIdsUnique
