----------------------------- MODULE Evaluation -----------------------------
(***************************************************************************)
(* How a finished run is judged (analysis/common.py and                    *)
(* analysis/evaluate_phase1.py to evaluate_phase3.py): the oracle's bursts *)
(* are lined up with the records of one of the outputs by time alone, one  *)
(* to one.                                                                 *)
(*                                                                         *)
(* A burst is a record with a start and a chain, origin first; a record of *)
(* an output has the detection time, that of a trace also the path, victim *)
(* first, and the node its first match was resolved to, if it had one.     *)
(***************************************************************************)
EXTENDS Integers, Sequences, FiniteSets, SequencesExt

\* abs(record_time(r) - b["start_time_s"])
Gap(burst, record) ==
  IF record.detect >= burst.start THEN record.detect - burst.start
  ELSE burst.start - record.detect

\* The (burst, record) pairs close enough to be considered.
Pairings(bursts, records, tolerance) ==
  {p \in (DOMAIN bursts) \X (DOMAIN records) :
     Gap(bursts[p[1]], records[p[2]]) <= tolerance}

\* Mutant: the pairs are gone through burst by burst.
CloserPairing_BurstOrder(bursts, records, p, q) ==
  p[1] < q[1] \/ (p[1] = q[1] /\ p[2] < q[2])
\* A stable sort by Gap of the pairs enumerated burst by burst.
CloserPairing(bursts, records, p, q) ==
  LET gp == Gap(bursts[p[1]], records[p[2]])
      gq == Gap(bursts[q[1]], records[q[2]])
  IN  \/ gp < gq
      \/ gp = gq /\ p[1] < q[1]
      \/ gp = gq /\ p[1] = q[1] /\ p[2] < q[2]

Unassigned == 0

\* Mutant: every burst takes its nearest record, claimed or not.
Claimable_Nearest(assigned, p) == assigned[p[1]] = Unassigned

\* Neither side of the pair is taken.
Claimable(assigned, p) ==
  assigned[p[1]] = Unassigned /\ \A b \in DOMAIN assigned : assigned[b] # p[2]

\* The closest pair neither side of which is taken, if there is one.
Claim(bursts, records, tolerance, assigned) ==
  LET free == {p \in Pairings(bursts, records, tolerance) : Claimable(assigned, p)}
      best == CHOOSE p \in free :
                \A q \in free \ {p} : CloserPairing(bursts, records, p, q)
  IN  IF free = {} THEN assigned ELSE [assigned EXCEPT ![best[1]] = best[2]]

(***************************************************************************)
(* For each burst the index of its record, or Unassigned.  Going through   *)
(* sorted pairs and skipping the taken ones is to claim the closest pair   *)
(* that can be claimed, until none is left or every burst has a record.    *)
(***************************************************************************)
assign_one_to_one(bursts, records, tolerance) ==
  LET after[n \in 0..Len(bursts)] ==
        IF n = 0 THEN [b \in DOMAIN bursts |-> Unassigned]
        ELSE Claim(bursts, records, tolerance, after[n - 1])
  IN  after[Len(bursts)]

\* Phase 2: only the paths are compared, whatever the reason the trace
\* stopped for.
Success(burst, record) == record.chain = Reverse(burst.chain)

\* Mutant: the upstream of the last relay is counted from the wrong end.
ExpectedUpstream_Relay(burst) == burst.chain[Len(burst.chain) - 1]
\* Phase 1: the node before the one that sent the victim its packets.
ExpectedUpstream(burst) == burst.chain[Len(burst.chain) - 2]
HasUpstream(burst) == Len(burst.chain) >= 3

\* Phase 1: the first hop of the trace matched a flow from that node.
Hit(burst, record) == record.matched /\ record.resolved = ExpectedUpstream(burst)
=============================================================================
