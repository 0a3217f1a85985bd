-------------------------- MODULE MCTraceListeners --------------------------
(* The flows of MCTracebackObserver over numbered nodes, 0 the victim; two *)
(* of them cross the third overlay node on the way.                        *)
EXTENDS TraceListeners

CONSTANT none

MCNodes == 0..3
MCEnds ==
  [f1v |-> <<1, 0>>, f2v |-> <<2, 0>>, f12 |-> <<1, 2>>, f21 |-> <<2, 1>>,
   f32 |-> <<3, 2>>, f13 |-> <<1, 3>>, fx1 |-> <<none, 1>>]
MCFlows == DOMAIN MCEnds
MCSrcNode == [f \in MCFlows |-> MCEnds[f][1]]
MCDstNode == [f \in MCFlows |-> MCEnds[f][2]]
MCRoute == [f \in MCFlows |-> IF f \in {"f1v", "f12"} THEN {3} ELSE {}]
=============================================================================
