------------------------- MODULE MCStepstoneOverlay -------------------------
(***************************************************************************)
(* Two actors drawing relays from the same two nodes.  Their bursts        *)
(* overlap, and a second burst of the first actor falls due exactly at the *)
(* stop time; the third actor's phase lies past it.  Bursts are of two     *)
(* packets, together or in two sub-bursts, and the longest schedule        *)
(* outlasts the sockets.  The port cursor reaches ports that sockets use,  *)
(* and wraps.  Between n1 and n2 packets leave by the second interface.    *)
(***************************************************************************)
EXTENDS StepstoneOverlay, TLC

CONSTANTS vic, n1, n2, n3, one, two, late

MCNodes == {vic, n1, n2, n3}
MCInterfaces == [n \in MCNodes |-> IF n \in {n1, n2} THEN 2 ELSE 1]
MCOutgoing ==
  [n \in MCNodes |-> [m \in MCNodes |-> IF {n, m} = {n1, n2} THEN 2 ELSE 1]]
MCActors == {one, two, late}
MCRelayPool == [x \in MCActors |-> {n1, n2}]
MCPhase == (one :> 0) @@ (two :> 1) @@ (late :> 11)
MCSessionEnds == {<<n3, vic>>}
MCSymmetry == Permutations({n1, n2})
=============================================================================
