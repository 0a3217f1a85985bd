------------------------- MODULE TracebackObserver -------------------------
(***************************************************************************)
(* The victim-side traceback engine (contrib/livetrace/model/              *)
(* traceback-observer.cc) together with the two things it reads: the       *)
(* observation log and the node address index.                             *)
(*                                                                         *)
(* Every flow the victim sees for the first time starts a trace; a trace   *)
(* is a chain of AttemptTrace events on the simulator's queue, the first   *)
(* one AccumulationDelay after the detection and each further one          *)
(* HopDelay after the previous.  An attempt names the peer of the flow     *)
(* confirmed last, asks the correlator for that peer's upstream flow, and  *)
(* either schedules the next attempt or reports the finished trace.        *)
(*                                                                         *)
(* Data abstraction: the correlator's score is a nondeterministic choice   *)
(* among the flows it would score (Candidates); of the log only the last   *)
(* arrival of each flow is kept, which is all that "has arrived since t0"  *)
(* can tell apart.  Time is discrete and advances only past instants whose *)
(* queued attempts have all run.  Attempts of different traces at one      *)
(* instant share no state, so their order is left open.                    *)
(***************************************************************************)
EXTENDS Integers, Sequences, FiniteSets

CONSTANTS
  Nodes,              \* the overlay nodes
  Victim,             \* m_victimNodeId
  Flows,              \* flow keys "src:port->dst:port"
  SrcNode,            \* address index applied to a flow key's source side
  DstNode,            \* the node that receives the flow
  kNotFound,          \* NodeAddressIndex::kNotFound
  AccumulationDelay,  \* m_cfg.accumulationDelayS
  HopDelay,           \* m_cfg.hopDelayS
  LiveWindow,         \* m_cfg.liveWindowS
  MaxHops,            \* m_cfg.maxHops
  StopTime,           \* stopTimeS: the victim's sink application stops here
  Drain,              \* the simulator stops Drain after StopTime
  MaxArrivals         \* bound: packets received in one behaviour

ASSUME TopologyAssumption ==
  /\ Victim \in Nodes
  /\ kNotFound \notin Nodes
  /\ SrcNode \in [Flows -> Nodes \cup {kNotFound}]
  /\ DstNode \in [Flows -> Nodes]

ASSUME TimingAssumption ==
  /\ AccumulationDelay \in Nat
  /\ HopDelay \in Nat
  /\ LiveWindow \in Nat
  /\ MaxHops \in Nat
  /\ StopTime \in Nat
  /\ Drain \in Nat
  /\ MaxArrivals \in Nat

VARIABLES
  now,           \* Simulator::Now()
  lastRx,        \* m_obsLog: when each flow was last received, or Never
  arrivals,      \* number of packets received so far (for the bound)
  seen,          \* m_seenAtVictim
  nextTraceId,   \* m_nextTraceId
  pending,       \* the AttemptTrace events on the simulator's queue
  completed      \* the traceComplete calls made so far

observerVars == <<seen, nextTraceId, pending, completed>>
vars == <<now, lastRx, arrivals, seen, nextTraceId, pending, completed>>

Never == -1
EndTime == StopTime + Drain

(***************************************************************************)
(* The arguments bound into a queued AttemptTrace, with its due time.      *)
(***************************************************************************)
Attempt ==
  [traceId : Nat, due : Nat, hop0 : Flows, confirmed : Flows, detect : Nat,
   hops : Nat, chain : Seq(Nodes)]

StopReason ==
  {"unknown_peer_address", "cycle_detected", "window_expired",
   "hop_limit_reached", "no_match_above_threshold"}

Completion ==
  [traceId : Nat, at : Nat, hop0 : Flows, last : Flows, detect : Nat,
   hops : Nat, chain : Seq(Nodes), reason : StopReason]

Init ==
  /\ now = 0
  /\ lastRx = [f \in Flows |-> Never]
  /\ arrivals = 0
  /\ seen = {}
  /\ nextTraceId = 0
  /\ pending = {}
  /\ completed = {}

-----------------------------------------------------------------------------
(***************************************************************************)
(* A packet of flow f is received.  The receiving application records it   *)
(* and then notifies the observer, in one event.                           *)
(***************************************************************************)
RecordRecv(f) ==
  /\ arrivals < MaxArrivals
  /\ now < EndTime
  /\ DstNode[f] = Victim => now < StopTime
  /\ lastRx' = [lastRx EXCEPT ![f] = now]
  /\ arrivals' = arrivals + 1
  /\ UNCHANGED now

FirstAttempt(f) ==
  [traceId |-> nextTraceId, due |-> now + AccumulationDelay, hop0 |-> f,
   confirmed |-> f, detect |-> now, hops |-> 0, chain |-> <<Victim>>]

\* Mutant: a flow key seen before starts another trace.
StartsTrace_Unremembered(f) == DstNode[f] = Victim

StartsTrace(f) == DstNode[f] = Victim /\ f \notin seen

\* Mutant: m_nextTraceId is not incremented.
OnFlowObserved_NoIncrement(f) ==
  /\ seen' = IF StartsTrace(f) THEN seen \cup {f} ELSE seen
  /\ pending' = IF StartsTrace(f) THEN pending \cup {FirstAttempt(f)} ELSE pending
  /\ UNCHANGED <<nextTraceId, completed>>

OnFlowObserved(f) ==
  \/ /\ StartsTrace(f)
     /\ seen' = seen \cup {f}
     /\ nextTraceId' = nextTraceId + 1
     /\ pending' = pending \cup {FirstAttempt(f)}
     /\ UNCHANGED completed
  \/ /\ ~StartsTrace(f)
     /\ UNCHANGED observerVars

Receive(f) == RecordRecv(f) /\ OnFlowObserved(f)

-----------------------------------------------------------------------------
(***************************************************************************)
(* The handler AttemptTrace, one action per outcome.                       *)
(***************************************************************************)
Peer(p) == SrcNode[p.confirmed]
\* Mutant: the cycle test looks at the last confirmed node only.
OnChain_LastOnly(p) == p.chain[Len(p.chain)] = Peer(p)
OnChain(p) == \E i \in DOMAIN p.chain : p.chain[i] = Peer(p)
\* Mutant: the live window slides along with the walk.
Deadline_Sliding(p) == now + LiveWindow
Deadline(p) == p.detect + LiveWindow

Due(p) == p.due = now /\ now < EndTime
\* Mutant: an unregistered peer address is walked to like any other.
KnownPeer_Unchecked(p) == Due(p)
KnownPeer(p) == Due(p) /\ Peer(p) # kNotFound
FreshPeer(p) == KnownPeer(p) /\ ~OnChain(p)
\* Mutant: off by one in the hop limit.
MaySearch_OneMoreHop(p) == FreshPeer(p) /\ now <= Deadline(p) /\ p.hops <= MaxHops
MaySearch(p) == FreshPeer(p) /\ now <= Deadline(p) /\ p.hops < MaxHops

\* Mutant: any flow received since t0 matches, whichever node received it.
Candidates_AnyNode(reference, node, t0) ==
  {f \in Flows \ {reference} : lastRx[f] >= t0}

(***************************************************************************)
(* The flows FindBestUpstreamMatch scores: received at the node since t0,  *)
(* other than the reference flow.  Which of them scores best, and whether  *)
(* that score reaches the threshold, is left open.                         *)
(***************************************************************************)
Candidates(reference, node, t0) ==
  {f \in Flows \ {reference} : DstNode[f] = node /\ lastRx[f] >= t0}

Finish(p, chain, reason) ==
  /\ pending' = pending \ {p}
  /\ completed' = completed \cup
       {[traceId |-> p.traceId, at |-> now, hop0 |-> p.hop0,
         last |-> p.confirmed, detect |-> p.detect, hops |-> p.hops,
         chain |-> chain, reason |-> reason]}
  /\ UNCHANGED <<now, lastRx, arrivals, seen, nextTraceId>>

UnknownPeer(p) ==
  /\ Due(p)
  /\ Peer(p) = kNotFound
  /\ Finish(p, p.chain, "unknown_peer_address")

CycleDetected(p) ==
  /\ KnownPeer(p)
  /\ OnChain(p)
  /\ Finish(p, Append(p.chain, Peer(p)), "cycle_detected")

WindowExpired(p) ==
  /\ FreshPeer(p)
  /\ now > Deadline(p)
  /\ Finish(p, Append(p.chain, Peer(p)), "window_expired")

HopLimitReached(p) ==
  /\ FreshPeer(p)
  /\ now <= Deadline(p)
  /\ p.hops >= MaxHops
  /\ Finish(p, Append(p.chain, Peer(p)), "hop_limit_reached")

NoMatch(p) ==
  /\ MaySearch(p)
  /\ Finish(p, Append(p.chain, Peer(p)), "no_match_above_threshold")

\* Mutant: each hop extends the path the first attempt was given.
NextAttempt_ForgetsPath(p, match) ==
  [traceId |-> p.traceId, due |-> now + HopDelay, hop0 |-> p.hop0,
   confirmed |-> match, detect |-> p.detect, hops |-> p.hops + 1,
   chain |-> <<Victim, Peer(p)>>]

NextAttempt(p, match) ==
  [traceId |-> p.traceId, due |-> now + HopDelay, hop0 |-> p.hop0,
   confirmed |-> match, detect |-> p.detect, hops |-> p.hops + 1,
   chain |-> Append(p.chain, Peer(p))]

\* Mutant: a hop is confirmed but the next attempt is never scheduled.
Matched_NoReschedule(p, match) ==
  /\ MaySearch(p)
  /\ match \in Candidates(p.confirmed, Peer(p), p.detect)
  /\ pending' = pending \ {p}
  /\ UNCHANGED <<now, lastRx, arrivals, seen, nextTraceId, completed>>

Matched(p, match) ==
  /\ MaySearch(p)
  /\ match \in Candidates(p.confirmed, Peer(p), p.detect)
  /\ pending' = (pending \ {p}) \cup {NextAttempt(p, match)}
  /\ UNCHANGED <<now, lastRx, arrivals, seen, nextTraceId, completed>>

\* The trace ends without naming an origin.
GiveUp(p) ==
  \/ UnknownPeer(p)
  \/ CycleDetected(p)
  \/ WindowExpired(p)
  \/ HopLimitReached(p)

AttemptTrace(p) ==
  \/ GiveUp(p)
  \/ NoMatch(p)
  \/ \E match \in Flows : Matched(p, match)

-----------------------------------------------------------------------------
(***************************************************************************)
(* Virtual time moves on once nothing is left to run at this instant, and  *)
(* stops at EndTime: Simulator::Stop was queued before every attempt that  *)
(* is due at that instant, so those never run.                             *)
(***************************************************************************)
Tick ==
  /\ now < EndTime
  /\ \A p \in pending : p.due # now
  /\ now' = now + 1
  /\ UNCHANGED <<lastRx, arrivals, observerVars>>

Next ==
  \/ \E f \in Flows : Receive(f)
  \/ \E p \in pending : AttemptTrace(p)
  \/ Tick

(***************************************************************************)
(* The simulator keeps running queued events until it is stopped; nothing  *)
(* obliges a packet to arrive.                                             *)
(***************************************************************************)
Fairness ==
  /\ WF_vars(Tick)
  /\ WF_vars(\E p \in pending : AttemptTrace(p))

Spec == Init /\ [][Next]_vars
FairSpec == Spec /\ Fairness

-----------------------------------------------------------------------------
(***************************************************************************)
(* Properties.                                                             *)
(***************************************************************************)

\* Every variable has its type; in particular a queued attempt and a
\* completion carry nodes of the overlay, never kNotFound, in their chain.
TypeOK ==
  /\ now \in 0..EndTime
  /\ lastRx \in [Flows -> Nat \cup {Never}]
  /\ arrivals \in Nat
  /\ seen \in SUBSET Flows
  /\ nextTraceId \in Nat
  /\ pending \in SUBSET Attempt
  /\ completed \in SUBSET Completion

Traces == pending \cup completed

\* A trace that has been started is queued exactly once or completed exactly
\* once, never both and never neither: no attempt forgets to reschedule or
\* to report, and none does so twice.
OneOutcomePerTrace ==
  /\ \A i \in 0..(nextTraceId - 1) : \E t \in Traces : t.traceId = i
  /\ \A t \in Traces : t.traceId < nextTraceId
  /\ \A p, q \in pending : p.traceId = q.traceId => p = q
  /\ \A c, d \in completed : c.traceId = d.traceId => c = d
  /\ \A p \in pending, c \in completed : p.traceId # c.traceId

\* A flow key is traced once: distinct traces start from distinct flows, and
\* the flows in m_seenAtVictim are exactly those some trace started from.
OneTracePerFlow ==
  /\ \A t, u \in Traces : t.hop0 = u.hop0 => t.traceId = u.traceId
  /\ seen = {t.hop0 : t \in Traces}

\* Each step of a reported path is a flow that was really received by the
\* downstream node after the burst was detected: hops are never invented,
\* taken from another node's log or from before the window.
ChainFollowsObservedFlows ==
  \A t \in Traces : \A i \in 1..(Len(t.chain) - 1) :
    \E f \in Flows : /\ SrcNode[f] = t.chain[i + 1]
                     /\ DstNode[f] = t.chain[i]
                     /\ lastRx[f] >= t.detect

NoRepeat(s) == \A i, j \in DOMAIN s : i # j => s[i] # s[j]

\* A path starts at the victim and visits no node twice; the one exception
\* is the node that closes a cycle, reported last and as such.
PathIsSimple ==
  /\ \A p \in pending : p.chain[1] = Victim /\ NoRepeat(p.chain)
  /\ \A c \in completed :
       /\ c.chain[1] = Victim
       /\ NoRepeat(SubSeq(c.chain, 1, Len(c.chain) - 1))
       /\ NoRepeat(c.chain) <=> c.reason # "cycle_detected"

\* The latest instant, counted from detection, at which a trace can report.
LongestTrace ==
  IF AccumulationDelay > LiveWindow THEN AccumulationDelay
  ELSE LiveWindow + HopDelay

\* The live-window budget bounds the whole trace although it is only looked
\* at when an attempt runs: every attempt is due, and every trace reported,
\* within LongestTrace of detection, after as many hop delays as the path
\* has hops, and never after more than MaxHops of them.
BudgetRespected ==
  /\ \A p \in pending : /\ p.due <= p.detect + LongestTrace
                        /\ p.due = p.detect + AccumulationDelay + HopDelay * p.hops
  /\ \A c \in completed : /\ c.at <= c.detect + LongestTrace
                          /\ c.at = c.detect + AccumulationDelay + HopDelay * c.hops
  /\ \A t \in Traces : t.hops <= MaxHops

\* When the simulator stops, the only traces cut off without a report are
\* those detected at most LongestTrace before the end: an attempt due at that
\* very instant no longer runs.
CutOffOnlyNearEnd ==
  now = EndTime => \A p \in pending : p.detect + LongestTrace >= EndTime

\* A trace whose longest possible course fits before the end of the run is
\* eventually reported.
TimelyTracesComplete ==
  \A f \in Flows :
    (\E p \in pending : p.hop0 = f /\ p.detect + LongestTrace < EndTime)
      ~> (\E c \in completed : c.hop0 = f)

\* Seen from its listeners the engine is the abstract walk: traces numbered
\* in order of detection, each growing by one fresh node a step and reported
\* once, its path final from then on.
TraceOf(i) == CHOOSE t \in Traces : t.traceId = i

Walk == INSTANCE TraceWalk WITH
  path <- [i \in 1..nextTraceId |-> TraceOf(i - 1).chain],
  open <- {p.traceId + 1 : p \in pending}

ImplementsTraceWalk == Walk!Spec
=============================================================================
