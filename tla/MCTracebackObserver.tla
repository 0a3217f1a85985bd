------------------------ MODULE MCTracebackObserver ------------------------
(***************************************************************************)
(* A victim, overlay nodes n1 and n2 that can feed each other (so that a   *)
(* walk can loop), a node n3 between them, and a flow into n1 whose source *)
(* address no node registered.                                             *)
(***************************************************************************)
EXTENDS TracebackObserver

CONSTANTS vic, n1, n2, n3, none

MCNodes == {vic, n1, n2, n3}

\* flow name -> <<source, destination>>
MCEnds ==
  [f1v |-> <<n1, vic>>, f2v |-> <<n2, vic>>, f12 |-> <<n1, n2>>, f21 |-> <<n2, n1>>,
   f32 |-> <<n3, n2>>, f13 |-> <<n1, n3>>, fx1 |-> <<none, n1>>]
MCFlows == DOMAIN MCEnds
MCSrcNode == [f \in MCFlows |-> MCEnds[f][1]]
MCDstNode == [f \in MCFlows |-> MCEnds[f][2]]
=============================================================================
