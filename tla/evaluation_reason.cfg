CONSTANTS
  vic = vic
  n1 = n1
  n2 = n2
  n3 = n3
  none = none
  Nodes <- MCNodes
  Victim = vic
  Flows <- MCFlows
  SrcNode <- MCSrcNode
  DstNode <- MCDstNode
  kNotFound = none
  AccumulationDelay = 1
  HopDelay = 1
  LiveWindow = 1
  MaxHops = 3
  StopTime = 3
  Drain = 1
  MaxArrivals = 5
  Routes <- MCRoutes
  Transit = 1
  Tolerance = 2
  HopTolerance = 3
SPECIFICATION LiveSpec
INVARIANTS SuccessOnlyOnLostTrail
CHECK_DEADLOCK FALSE
