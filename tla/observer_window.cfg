CONSTANTS
  vic = vic
  n1 = n1
  n2 = n2
  n3 = n3
  none = none
  Nodes <- MCNodes
  Victim = vic
  Flows <- MCFlows
  SrcNode <- MCSrcNode
  DstNode <- MCDstNode
  kNotFound = none
  AccumulationDelay = 2
  HopDelay = 1
  LiveWindow = 3
  MaxHops = 3
  StopTime = 4
  Drain = 3
  MaxArrivals = 5
SPECIFICATION Spec
INVARIANTS TypeOK OneOutcomePerTrace OneTracePerFlow ChainFollowsObservedFlows PathIsSimple BudgetRespected CutOffOnlyNearEnd
PROPERTIES ImplementsTraceWalk
CHECK_DEADLOCK FALSE
