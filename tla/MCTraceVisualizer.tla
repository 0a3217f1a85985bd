------------------------- MODULE MCTraceVisualizer -------------------------
(* Five nodes, node 0 the victim, as RandomMeshTopology numbers it.  The   *)
(* slots are interchangeable: nothing but equality is ever asked of them.  *)
EXTENDS TraceVisualizer, TLC

MCNodes == 0..4
SlotSymmetry == Permutations(Slots)
=============================================================================
