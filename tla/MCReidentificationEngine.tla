--------------------- MODULE MCReidentificationEngine ----------------------
(* Direct bursts and bursts over one or two relays, two fingerprints, and  *)
(* timing scores at the sentinel, in the middle and at the top.            *)
EXTENDS ReidentificationEngine

MCRelaySets == {{}, {"r"}, {"r", "s"}}
MCFingerprints == {[onDuration |-> 1, transitions |-> 4],
                   [onDuration |-> 3, transitions |-> 8]}
MCTimingScores == {-1 * Unit, Unit}
=============================================================================
