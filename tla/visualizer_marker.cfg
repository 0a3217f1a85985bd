CONSTANTS
  Nodes <- MCNodes
  Victim = 0
  LastNode = 4
  Slots = {s1}
  None = None
SPECIFICATION Spec
INVARIANTS PastOriginIsPrecedingBursts
