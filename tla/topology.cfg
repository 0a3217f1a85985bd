CONSTANTS
  Values <- MCValues
  Stoi <- MCStoi
  NotAnInt = NotAnInt
  Lines <- MCLines
  MaxLines = 3
  DefaultRegenAttempts = 1
  UintRange = 4
  N = 5
  RegenLimits = {1}
  BottleneckPercent = 20
SPECIFICATION StartSpec
INVARIANTS ConfigIsLastAssignment RunsWithEveryLog ArticulationExact BuiltMeshIsGiantComponent PathStatsExact NoBottleneckUnlessExhausted
CHECK_DEADLOCK FALSE
