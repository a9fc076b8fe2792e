\* Every operation but the changes of node IDs, one thread per target.
SPECIFICATION HistorySpec
CONSTANTS
  c1 = c1
  c2 = c2
  t0 = t0
  t1 = t1
  MotorCount = 1
  DefaultNodeId <- MCDefaultNodeId
  DefaultPeriod <- MCDefaultPeriod
  Caller = {c1, c2}
  Ops <- HistoryOps
  Target = {t0, t1}
  InitialTarget = t0
  NodeIdArg <- OneNodeId
  ConfigArg <- HistoryConfigArg
  RxFrame <- HistoryRxFrame
  MaxTx = 3
CHECK_DEADLOCK FALSE
INVARIANTS
  TypeOK
  AcksNeverExceedSends
  CacheMatchesTheWire
  OtaRestoresKnownReporting
