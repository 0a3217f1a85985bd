CONSTANTS
  none = none
  None = None
  Nodes <- MCNodes
  Victim = 0
  Flows <- MCFlows
  SrcNode <- MCSrcNode
  DstNode <- MCDstNode
  Route <- MCRoute
  LastNode = 3
  kNotFound = none
  AccumulationDelay = 1
  HopDelay = 1
  LiveWindow = 4
  MaxHops = 2
  StopTime = 3
  Drain = 4
  MaxArrivals = 4
SPECIFICATION ListenersSpec
INVARIANTS BudgetRespected OriginMarksAreReported
PROPERTIES TimelyTracesComplete DrivesVisualizer
CHECK_DEADLOCK FALSE
