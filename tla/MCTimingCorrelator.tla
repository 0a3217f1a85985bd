------------------------- MODULE MCTimingCorrelator ------------------------
(* A relay n1 receives two flows, a slow and a fast one, and sends one on;  *)
(* the slow one is logged by its sender under the name of another interface *)
EXTENDS TimingCorrelator

CONSTANTS n1, n2, n3

MCNodes == {n1, n2, n3}
MCEnds == [up |-> <<n2, n1, 1>>, upSent |-> <<n2, n1, 1>>, noise |-> <<n3, n1, 0>>, out |-> <<n1, n3, 0>>]
MCFlows == DOMAIN MCEnds
MCSrcNode == [f \in MCFlows |-> MCEnds[f][1]]
MCDstNode == [f \in MCFlows |-> MCEnds[f][2]]
MCDelay == [f \in MCFlows |-> MCEnds[f][3]]
MCSentAs == [up |-> "upSent", noise |-> "noise", out |-> "out"]
=============================================================================
