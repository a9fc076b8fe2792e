SPECIFICATION HistorySpec
CONSTANTS
  c1 = c1
  c2 = c2
  t0 = t0
  t1 = t1
  MotorCount = 1
  DefaultNodeId <- MCDefaultNodeId
  DefaultPeriod <- MCDefaultPeriod
  Caller = {c1, c2}
  Ops <- OtaOps
  Target = {t0, t1}
  InitialTarget = t0
  NodeIdArg <- OneNodeId
  ConfigArg <- HistoryConfigArg
  RxFrame <- ReportConfigAcks
  MaxTx = 4
CHECK_DEADLOCK FALSE
INVARIANTS
  OtaRestoresReporting
