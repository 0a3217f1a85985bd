----------------------------- MODULE LiveTrace -----------------------------
(***************************************************************************)
(* A run from end to end: bursts are fired and logged by the oracle, the   *)
(* observer traces them amid background noise, and what it has written     *)
(* when the simulator stops is evaluated against the oracle                *)
(* (scratch/livetrace-sim.cc, analysis/evaluate_phase1.py to               *)
(* evaluate_phase3.py).                                                    *)
(*                                                                         *)
(* The traffic is the observer's view of StepstoneOverlay: a burst reaches *)
(* the nodes of its chain in the instant it is fired, and the victim in a  *)
(* flow of its own (OneVictimFlowPerBurst).  What the way takes in the     *)
(* program is felt only where the run ends: the campaign fires up to and   *)
(* at the stop time, at which the victim's sink closes, so that the last   *)
(* bursts are logged as ground truth and not heard.                        *)
(***************************************************************************)
EXTENDS TracebackObserver, Evaluation

CONSTANTS
  Routes,       \* bursts, as the flows from the origin to the victim
  Transit,      \* the longest a burst is on its way to the victim
  Tolerance,    \* tolerance of evaluate_run in phases 2 and 3
  HopTolerance  \* and in phase 1, where it is the live window given there

ASSUME RouteAssumption ==
  /\ Transit \in Nat
  /\ Tolerance \in Nat
  /\ HopTolerance \in Nat /\ HopTolerance >= Tolerance
  /\ Routes \subseteq Seq(Flows) \ {<<>>}
  /\ \A r \in Routes :
       /\ DstNode[Last(r)] = Victim
       /\ \A i \in 1..(Len(r) - 1) : DstNode[r[i]] = SrcNode[r[i + 1]]

VARIABLES
  oracle,   \* the bursts logged, in order
  heard     \* the indexes of those that the victim heard, in order

liveVars == <<vars, oracle, heard>>

LiveInit ==
  /\ Init
  /\ oracle = <<>>
  /\ heard = <<>>

TrueChain(route) == [i \in 1..Len(route) |-> SrcNode[route[i]]] \o <<Victim>>

ReceivedNow(flows) == [f \in Flows |-> IF f \in flows THEN now ELSE lastRx[f]]

\* A flow into the victim is not used by two bursts, since the port it comes
\* from is fresh.
ReachesVictim(route) ==
  /\ now < StopTime
  /\ Last(route) \notin seen
  /\ lastRx' = ReceivedNow(ToSet(route))
  /\ OnFlowObserved(Last(route))
  /\ heard' = Append(heard, Len(oracle) + 1)

\* The burst comes to the victim when its sink has stopped.  The relays, which
\* stop some seconds after the burst, have received it.
FindsSinkClosed(route) ==
  /\ now + Transit >= StopTime
  /\ lastRx' = ReceivedNow(ToSet(Front(route)))
  /\ UNCHANGED <<observerVars, heard>>

\* A burst is fired, logged, and observed along its route.
FireBurst(route) ==
  /\ arrivals < MaxArrivals
  /\ now <= StopTime
  /\ now < EndTime
  /\ ReachesVictim(route) \/ FindsSinkClosed(route)
  /\ arrivals' = arrivals + 1
  /\ oracle' = Append(oracle, [start |-> now, chain |-> TrueChain(route)])
  /\ UNCHANGED now

\* A session of background traffic, or more of a burst at one of its relays.
\* The sink it reaches notifies nobody, so that none starts a trace.
FireSession(f) ==
  /\ DstNode[f] # Victim
  /\ RecordRecv(f)
  /\ UNCHANGED <<observerVars, oracle, heard>>

LiveNext ==
  \/ \E r \in Routes : FireBurst(r)
  \/ \E f \in Flows : FireSession(f)
  \/ (\E p \in pending : AttemptTrace(p)) /\ UNCHANGED <<oracle, heard>>
  \/ Tick /\ UNCHANGED <<oracle, heard>>

LiveSpec == LiveInit /\ [][LiveNext]_liveVars

-----------------------------------------------------------------------------
\* A line of the traceback output, as far as the evaluation reads it: the
\* trace's last one, with the node that sent the flow its first one matched.
TraceRecord(t, reason, last) ==
  [traceId |-> t.traceId, detect |-> t.detect, chain |-> t.chain, reason |-> reason,
   matched |-> t.hops > 0,
   resolved |-> IF Len(t.chain) >= 3 THEN t.chain[3] ELSE SrcNode[last]]

InOrderOfId(records) ==
  CHOOSE s \in SetToSeqs(records) :
    \A i, j \in DOMAIN s : i < j => s[i].traceId < s[j].traceId

\* Mutant: only traces that were completed are read.
Records_CompletedOnly ==
  InOrderOfId({TraceRecord(c, c.reason, c.last) : c \in completed})

(***************************************************************************)
(* What is read of each trace, traces in order of their first line.  A     *)
(* trace cut off by the end of the run has lines of the hops it matched.   *)
(***************************************************************************)
Records ==
  InOrderOfId({TraceRecord(c, c.reason, c.last) : c \in completed}
              \cup {TraceRecord(p, "matched", p.confirmed) : p \in {q \in pending : q.hops > 0}})

Assigned == assign_one_to_one(oracle, Records, Tolerance)
HopAssigned == assign_one_to_one(oracle, Records, HopTolerance)

\* The re-identification output: the completed traces with an upstream node,
\* in the order they were completed.
ReidRecords ==
  CHOOSE s \in SetToSeqs({c \in completed : Len(c.chain) >= 2}) :
    \A i, j \in DOMAIN s :
      i < j => \/ s[i].at < s[j].at
               \/ s[i].at = s[j].at /\ s[i].traceId < s[j].traceId

Labels == assign_one_to_one(oracle, ReidRecords, Tolerance)

-----------------------------------------------------------------------------
(***************************************************************************)
(* Properties.                                                             *)
(***************************************************************************)

\* Phase 2 assigns one-to-one, and no burst and record that are closer to
\* each other than each is to what it was given were kept apart: a burst
\* goes without a record only if closer bursts claimed all those near it.
AssignmentIsStable ==
  LET at == Assigned
  IN  /\ \A a, b \in DOMAIN oracle : a # b /\ at[a] = at[b] => at[a] = Unassigned
      /\ \A b \in DOMAIN oracle, r \in DOMAIN Records :
           Gap(oracle[b], Records[r]) <= Tolerance =>
             \/ at[b] # Unassigned /\ Gap(oracle[b], Records[at[b]]) <= Gap(oracle[b], Records[r])
             \/ \E a \in DOMAIN oracle :
                  at[a] = r /\ Gap(oracle[a], Records[r]) <= Gap(oracle[b], Records[r])

Ended == now = EndTime

\* Every burst fired early enough to be heard before the victim's sink stops,
\* and for one attempt before the simulator does, is answered: the run's
\* output has a trace detected when it started, and that trace is the one it
\* is judged by, whatever noise and other bursts there were, the last ones,
\* which are ground truth without a trace, included.
EveryBurstAnswered ==
  Ended =>
    \A b \in DOMAIN oracle :
      /\ oracle[b].start + Transit < StopTime
      /\ oracle[b].start + AccumulationDelay < EndTime
      => /\ Assigned[b] # Unassigned
         /\ Records[Assigned[b]].detect = oracle[b].start

\* No burst counts as traced whose chain is longer than the live window has
\* time for, by however many lucky matches: an attempt for each node but the
\* victim, the last one at most a hop delay past the window.
SuccessWithinBudget ==
  \A b \in DOMAIN oracle :
    Assigned[b] # Unassigned /\ Success(oracle[b], Records[Assigned[b]]) =>
      AccumulationDelay + (Len(oracle[b].chain) - 2) * HopDelay
        <= (IF AccumulationDelay > LiveWindow THEN AccumulationDelay ELSE LiveWindow + HopDelay)

\* The evaluators do not contradict each other: what phase 2 counts as traced
\* through a relay, phase 1 counts as a hit, although it lines bursts and
\* traces up anew, within a wider tolerance.
TracedBurstsAreHits ==
  \A b \in DOMAIN oracle :
    /\ Assigned[b] # Unassigned
    /\ Success(oracle[b], Records[Assigned[b]])
    /\ HasUpstream(oracle[b])
    => HopAssigned[b] # Unassigned /\ Hit(oracle[b], Records[HopAssigned[b]])

\* A burst is labelled with the cluster of its own trace or, if that left no
\* line, not at all: a burst whose trace was cut off, or that the victim never
\* heard, does not borrow the label of another's, unless the two started
\* within the same unit of time.
LabelsAreOwn ==
  Ended =>
    \A b \in DOMAIN oracle :
      Labels[b] # Unassigned => ReidRecords[Labels[b]].detect = oracle[b].start

\* Expected to be violated.  docs/traceback-algorithm.md:202-204: a trace that
\* stopped for any reason but no_match_above_threshold counts as a failure.
SuccessOnlyOnLostTrail ==
  Ended =>
    \A b \in DOMAIN oracle :
      Assigned[b] # Unassigned /\ Success(oracle[b], Records[Assigned[b]]) =>
        Records[Assigned[b]].reason = "no_match_above_threshold"
=============================================================================
