CONSTANTS
  Nodes <- MCNodes
  Victim = 0
  LastNode = 4
  Slots = {s1, s2}
  None = None
SYMMETRY SlotSymmetry
SPECIFICATION Spec
INVARIANTS MarkerIsHolders HighlightsArePending NewestTraceStaysLit
