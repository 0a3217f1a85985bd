---------------------------- MODULE MCLiveTrace ----------------------------
(***************************************************************************)
(* Three bursts, one of three hops, one of two and one of one, that share  *)
(* relays and can overlap; a noise flow into each relay.                   *)
(***************************************************************************)
EXTENDS LiveTrace

CONSTANTS vic, n1, n2, n3, none

MCNodes == {vic, n1, n2, n3}

MCEnds ==
  [f32 |-> <<n3, n2>>, f21 |-> <<n2, n1>>, f1v |-> <<n1, vic>>, f12 |-> <<n1, n2>>,
   f2v |-> <<n2, vic>>, f3v |-> <<n3, vic>>, f31 |-> <<n3, n1>>]
MCFlows == DOMAIN MCEnds
MCSrcNode == [f \in MCFlows |-> MCEnds[f][1]]
MCDstNode == [f \in MCFlows |-> MCEnds[f][2]]
MCRoutes == {<<"f32", "f21", "f1v">>, <<"f12", "f2v">>, <<"f3v">>}
=============================================================================
