CONSTANTS
  n1 = n1
  n2 = n2
  n3 = n3
  Nodes <- MCNodes
  Flows <- MCFlows
  SrcNode <- MCSrcNode
  DstNode <- MCDstNode
  Delay <- MCDelay
  SentAs <- MCSentAs
  Bucket = 2
  OnCount = 1
  MinTransitions = 2
  MaxLag = 1
  ThresholdNum = 1
  ThresholdDen = 4
  Radix = 3
  Precision = 1
  MaxLead = 1
  Horizon = 4
  MaxPackets = 3
SPECIFICATION Spec
INVARIANTS QueriesExact OfflineAgrees DelayTolerated
CHECK_DEADLOCK FALSE
