CONSTANTS
  N = 5
  RegenLimits = {2}
  BottleneckPercent = 20
SPECIFICATION Spec
INVARIANTS NoBottleneck
CHECK_DEADLOCK FALSE
