CONSTANTS
  PeriodPrior = 2
  Tolerance = 1
  RelaySets <- MCRelaySets
  Fingerprints <- MCFingerprints
  TimingScores <- MCTimingScores
  TraceMin = 1
  TraceMax = 2
  MaxTime = 8
  MaxBursts = 3
SPECIFICATION Spec
INVARIANTS JoinedClusterIsEstimated
CHECK_DEADLOCK FALSE
