CONSTANTS
  vic = vic
  n1 = n1
  n2 = n2
  n3 = n3
  one = one
  two = two
  late = late
  Nodes <- MCNodes
  Victim = vic
  VictimPort = 0
  BackgroundPort = 20
  Interfaces <- MCInterfaces
  Outgoing <- MCOutgoing
  kNotFound = kNotFound
  Actors <- MCActors
  PoolPercent = 70
  RelayPool <- MCRelayPool
  Phase <- MCPhase
  PeriodS = 10
  BurstS = 1
  StopSlack = 8
  ChainLenMin = 1
  ChainLenCap = 2
  ScaledDiameter = 2
  PacketsPerBurst = 2
  SubBurstPicks = {1, 2}
  MinPerSub = 1
  IdleGaps = {7, 8}
  RelayDelays = {1, 2}
  LinkDelays = {1}
  FirstRelayPort = 1
  LastRelayPort = 4
  FirstEphemeral = 4
  SessionEnds <- MCSessionEnds
  SessionCounts = {1}
  SessionGaps = {6}
  SessionSlack = 1
  StopTime = 10
  Drain = 3
SYMMETRY MCSymmetry
SPECIFICATION Spec
INVARIANTS PacketsFollowOracle OracleChainsAreTraceable SendsLoggedAreSent BurstsArriveWhole OneVictimFlowPerBurst ReceptionsNameTheirSender CadenceKept
CHECK_DEADLOCK FALSE
