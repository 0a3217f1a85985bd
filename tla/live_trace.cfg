CONSTANTS
  vic = vic
  n1 = n1
  n2 = n2
  n3 = n3
  none = none
  Nodes <- MCNodes
  Victim = vic
  Flows <- MCFlows
  SrcNode <- MCSrcNode
  DstNode <- MCDstNode
  kNotFound = none
  AccumulationDelay = 1
  HopDelay = 3
  LiveWindow = 1
  MaxHops = 3
  StopTime = 6
  Drain = 2
  MaxArrivals = 3
  Routes <- MCRoutes
  Transit = 1
  Tolerance = 2
  HopTolerance = 3
SPECIFICATION LiveSpec
INVARIANTS AssignmentIsStable EveryBurstAnswered SuccessWithinBudget TracedBurstsAreHits LabelsAreOwn
CHECK_DEADLOCK FALSE
