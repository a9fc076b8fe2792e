SPECIFICATION SystemSpec
CONSTANTS
  c1 = c1
  c2 = c2
  t0 = t0
  t1 = t1
  MotorCount = 2
  DefaultNodeId <- MCDefaultNodeId
  DefaultPeriod <- MCDefaultPeriod
  Caller = {c1, c2}
  Ops <- TwoThreadOps
  Target = {t1}
  InitialTarget = t1
  NodeIdArg <- MCNodeIdArg
  ConfigArg = {}
  RxFrame <- MotorAnswer
  MaxTx = 2
  WireLen = 2
  BackLen = 2
CHECK_DEADLOCK FALSE
PROPERTIES
  CommandsReachTheirMotor
