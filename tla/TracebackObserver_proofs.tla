---------------------- MODULE TracebackObserver_proofs ----------------------
(***************************************************************************)
(* Proofs about the traceback engine, for every set of nodes and flows and *)
(* every delay, window and hop limit.                                      *)
(***************************************************************************)
EXTENDS TracebackObserver, TLAPS

-----------------------------------------------------------------------------
(***************************************************************************)
(* What one step does to the queue and the reports, in three forms that    *)
(* every proof below splits a step into.                                   *)
(***************************************************************************)

\* A step that leaves the traces alone: other packets and the clock.
Quiet == UNCHANGED <<seen, nextTraceId, pending, completed>>

\* A step that starts a trace from flow f.
Starts(f) ==
  /\ f \notin seen
  /\ seen' = seen \cup {f}
  /\ nextTraceId' = nextTraceId + 1
  /\ pending' = pending \cup {FirstAttempt(f)}
  /\ completed' = completed

\* The completion Finish adds for attempt p.
Report(p, chain, reason) ==
  [traceId |-> p.traceId, at |-> now, hop0 |-> p.hop0, last |-> p.confirmed,
   detect |-> p.detect, hops |-> p.hops, chain |-> chain, reason |-> reason]

\* A step that ends the trace of attempt p.
Ends(p) ==
  /\ Due(p)
  /\ pending' = pending \ {p}
  /\ \E reason \in StopReason :
       \E chain \in {p.chain} \cup (IF Peer(p) \in Nodes THEN {Append(p.chain, Peer(p))} ELSE {}) :
         completed' = completed \cup {Report(p, chain, reason)}
  /\ UNCHANGED <<now, seen, nextTraceId>>

\* A step that carries the trace of attempt p one hop further.
Continues(p, match) ==
  /\ MaySearch(p)
  /\ pending' = (pending \ {p}) \cup {NextAttempt(p, match)}
  /\ UNCHANGED <<now, seen, nextTraceId, completed>>

\* One step as the traces see it, whatever else it does.
TraceStep ==
  /\ Tick \/ now' = now
  /\ \/ Quiet
     \/ \E f \in Flows : Starts(f)
     \/ \E p \in pending : Ends(p)
     \/ \E p \in pending : \E match \in Flows : Continues(p, match)

\* The peer of a queued attempt is a node or kNotFound.
LEMMA PeerType ==
  ASSUME NEW p \in Attempt
  PROVE  Peer(p) \in Nodes \cup {kNotFound}
BY TopologyAssumption DEF Peer, Attempt

\* The five ways of ending a trace have the common form Ends.
LEMMA EndForm ==
  ASSUME NEW p \in Attempt,
         UnknownPeer(p) \/ CycleDetected(p) \/ WindowExpired(p)
           \/ HopLimitReached(p) \/ NoMatch(p)
  PROVE  Ends(p)
<1>1. CASE UnknownPeer(p)
  BY <1>1 DEF UnknownPeer, Finish, Ends, Report, StopReason
<1>2. CASE CycleDetected(p)
  BY <1>2, PeerType DEF CycleDetected, KnownPeer, Finish, Ends, Report, StopReason
<1>3. CASE WindowExpired(p)
  BY <1>3, PeerType DEF WindowExpired, FreshPeer, KnownPeer, Finish, Ends, Report, StopReason
<1>4. CASE HopLimitReached(p)
  BY <1>4, PeerType DEF HopLimitReached, FreshPeer, KnownPeer, Finish, Ends, Report, StopReason
<1>5. CASE NoMatch(p)
  BY <1>5, PeerType DEF NoMatch, MaySearch, FreshPeer, KnownPeer, Finish, Ends, Report, StopReason
<1>6. QED
  BY <1>1, <1>2, <1>3, <1>4, <1>5

\* An attempt ends its trace or carries it further.
LEMMA AttemptForm ==
  ASSUME pending \in SUBSET Attempt, NEW p \in pending, AttemptTrace(p)
  PROVE  TraceStep
<1>1. CASE \E match \in Flows : Matched(p, match)
  BY <1>1 DEF Matched, Continues, TraceStep
<1>2. CASE ~\E match \in Flows : Matched(p, match)
  <2>1. Ends(p)
    BY <1>2, EndForm DEF AttemptTrace, GiveUp
  <2>2. now' = now
    BY <2>1 DEF Ends
  <2>3. QED
    BY <2>1, <2>2 DEF TraceStep
<1>3. QED
  BY <1>1, <1>2

LEMMA TickForm == Tick => TraceStep
BY DEF Tick, Quiet, observerVars, TraceStep

\* An observed flow starts a trace or does nothing.
LEMMA ObservedForm ==
  ASSUME NEW f \in Flows, OnFlowObserved(f), now' = now
  PROVE  TraceStep
BY DEF OnFlowObserved, StartsTrace, Starts, Quiet, observerVars, TraceStep

LEMMA StepForms ==
  ASSUME pending \in SUBSET Attempt, [Next]_vars
  PROVE  TraceStep
<1>1. CASE \E f \in Flows : Receive(f)
  BY <1>1, ObservedForm DEF Receive, RecordRecv
<1>2. CASE \E p \in pending : AttemptTrace(p)
  BY <1>2, AttemptForm
<1>3. CASE Tick
  BY <1>3, TickForm
<1>4. CASE UNCHANGED vars
  BY <1>4 DEF vars, Quiet, TraceStep
<1>5. QED
  BY <1>1, <1>2, <1>3, <1>4 DEF Next

-----------------------------------------------------------------------------
(***************************************************************************)
(* Types.                                                                  *)
(***************************************************************************)
LEMMA EndTimeType == EndTime \in Nat
BY TimingAssumption DEF EndTime

LEMMA FirstAttemptType ==
  ASSUME now \in Nat, nextTraceId \in Nat, NEW f \in Flows
  PROVE  FirstAttempt(f) \in Attempt
BY TimingAssumption, TopologyAssumption DEF FirstAttempt, Attempt

LEMMA NextAttemptType ==
  ASSUME now \in Nat, NEW p \in Attempt, NEW match \in Flows, MaySearch(p)
  PROVE  NextAttempt(p, match) \in Attempt
<1>1. Peer(p) \in Nodes
  BY PeerType DEF MaySearch, FreshPeer, KnownPeer
<1>2. Append(p.chain, Peer(p)) \in Seq(Nodes)
  BY <1>1 DEF Attempt
<1>3. QED
  BY <1>2, TimingAssumption DEF NextAttempt, Attempt

LEMMA ReportType ==
  ASSUME now \in Nat, NEW p \in Attempt, NEW reason \in StopReason,
         NEW chain \in {p.chain} \cup
           (IF Peer(p) \in Nodes THEN {Append(p.chain, Peer(p))} ELSE {})
  PROVE  Report(p, chain, reason) \in Completion
<1>1. chain \in Seq(Nodes)
  BY DEF Attempt
<1>2. QED
  BY <1>1 DEF Report, Completion, Attempt

\* The clock and the log keep their types in every step.
LEMMA EnvironmentTypes ==
  ASSUME TypeOK, [Next]_vars
  PROVE  /\ (now \in 0..EndTime)'
         /\ (lastRx \in [Flows -> Nat \cup {Never}])'
         /\ (arrivals \in Nat)'
<1> USE EndTimeType
<1>1. CASE \E f \in Flows : Receive(f)
  BY <1>1 DEF Receive, RecordRecv, TypeOK
<1>2. CASE \E p \in pending : AttemptTrace(p)
  BY <1>2 DEF AttemptTrace, GiveUp, UnknownPeer, CycleDetected, WindowExpired,
     HopLimitReached, NoMatch, Finish, Matched, TypeOK
<1>3. CASE Tick
  BY <1>3 DEF Tick, TypeOK
<1>4. CASE UNCHANGED vars
  BY <1>4 DEF vars, TypeOK
<1>5. QED
  BY <1>1, <1>2, <1>3, <1>4 DEF Next

LEMMA TraceTypes ==
  ASSUME TypeOK, TraceStep
  PROVE  /\ seen' \in SUBSET Flows
         /\ nextTraceId' \in Nat
         /\ pending' \in SUBSET Attempt
         /\ completed' \in SUBSET Completion
<1>1. now \in Nat
  BY EndTimeType DEF TypeOK
<1>2. CASE Quiet
  BY <1>2 DEF Quiet, TypeOK
<1>3. CASE \E f \in Flows : Starts(f)
  BY <1>3, <1>1, FirstAttemptType DEF Starts, TypeOK
<1>4. CASE \E p \in pending : Ends(p)
  BY <1>4, <1>1, ReportType DEF Ends, TypeOK
<1>5. CASE \E p \in pending : \E match \in Flows : Continues(p, match)
  BY <1>5, <1>1, NextAttemptType DEF Continues, TypeOK
<1>6. QED
  BY <1>2, <1>3, <1>4, <1>5 DEF TraceStep

LEMMA TypeStep == TypeOK /\ [Next]_vars => TypeOK'
<1> SUFFICES ASSUME TypeOK, [Next]_vars
             PROVE  TypeOK'
  OBVIOUS
<1>1. TraceStep
  BY StepForms DEF TypeOK
<1>2. QED
  BY <1>1, TraceTypes, EnvironmentTypes DEF TypeOK

LEMMA Steps == TypeOK /\ [Next]_vars => TraceStep
BY StepForms DEF TypeOK

\* Every reachable state is well typed; in particular no chain ever holds an
\* address that resolves to no node (traceback-observer.cc:109-126).
THEOREM TypeCorrect == Spec => []TypeOK
<1>1. Init => TypeOK
  BY EndTimeType DEF Init, TypeOK, Never
<1>2. QED
  BY <1>1, TypeStep, PTL DEF Spec

-----------------------------------------------------------------------------
(***************************************************************************)
(* One outcome per trace.                                                  *)
(***************************************************************************)
LEMMA OneOutcomeStep ==
  TypeOK /\ OneOutcomePerTrace /\ TraceStep => OneOutcomePerTrace'
<1> SUFFICES ASSUME TypeOK, OneOutcomePerTrace, TraceStep
             PROVE  OneOutcomePerTrace'
  OBVIOUS
<1>t. /\ nextTraceId \in Nat
      /\ \A p \in pending : p \in Attempt /\ p.traceId \in Nat
      /\ \A c \in completed : c.traceId \in Nat
  BY DEF TypeOK, Attempt, Completion
<1>1. CASE Quiet
  BY <1>1 DEF Quiet, OneOutcomePerTrace, Traces
<1>2. CASE \E f \in Flows : Starts(f)
  <2>1. PICK f \in Flows : Starts(f)
    BY <1>2
  <2>2. FirstAttempt(f).traceId = nextTraceId
    BY DEF FirstAttempt
  <2>3. QED
    BY <2>1, <2>2, <1>t DEF Starts, OneOutcomePerTrace, Traces
<1>3. CASE \E p \in pending : Ends(p)
  <2>1. PICK p \in pending : Ends(p)
    BY <1>3
  <2>2. PICK c : c.traceId = p.traceId /\ completed' = completed \cup {c}
    BY <2>1 DEF Ends, Report
  <2>3. QED
    BY <2>1, <2>2, <1>t DEF Ends, OneOutcomePerTrace, Traces
<1>4. CASE \E p \in pending : \E match \in Flows : Continues(p, match)
  <2>1. PICK p \in pending, match \in Flows : Continues(p, match)
    BY <1>4
  <2>2. NextAttempt(p, match).traceId = p.traceId
    BY <1>t DEF NextAttempt, Attempt
  <2>3. QED
    BY <2>1, <2>2, <1>t DEF Continues, OneOutcomePerTrace, Traces
<1>5. QED
  BY <1>1, <1>2, <1>3, <1>4 DEF TraceStep

\* Every trace that was ever started is on the queue exactly once or has been
\* reported exactly once: AttemptTrace always ends in one call of finish or
\* one Schedule (traceback-observer.cc:101-176).
THEOREM OneOutcome == Spec => []OneOutcomePerTrace
<1>1. Init => OneOutcomePerTrace
  BY DEF Init, OneOutcomePerTrace, Traces
<1>2. QED
  BY <1>1, OneOutcomeStep, Steps, TypeCorrect, PTL DEF Spec

-----------------------------------------------------------------------------
(***************************************************************************)
(* One trace per flow.                                                     *)
(***************************************************************************)
LEMMA OneTraceStep ==
  TypeOK /\ OneTracePerFlow /\ TraceStep => OneTracePerFlow'
<1> SUFFICES ASSUME TypeOK, OneTracePerFlow, TraceStep
             PROVE  OneTracePerFlow'
  OBVIOUS
<1>1. CASE Quiet
  BY <1>1 DEF Quiet, OneTracePerFlow, Traces
<1>2. CASE \E f \in Flows : Starts(f)
  <2>1. PICK f \in Flows : Starts(f)
    BY <1>2
  <2>2. FirstAttempt(f).hop0 = f
    BY DEF FirstAttempt
  <2>3. QED
    BY <2>1, <2>2 DEF Starts, OneTracePerFlow, Traces
<1>3. CASE \E p \in pending : Ends(p)
  <2>1. PICK p \in pending : Ends(p)
    BY <1>3
  <2>2. PICK c : /\ c.traceId = p.traceId
                 /\ c.hop0 = p.hop0
                 /\ completed' = completed \cup {c}
    BY <2>1 DEF Ends, Report
  <2>3. QED
    BY <2>1, <2>2 DEF Ends, OneTracePerFlow, Traces
<1>4. CASE \E p \in pending : \E match \in Flows : Continues(p, match)
  <2>1. PICK p \in pending, match \in Flows : Continues(p, match)
    BY <1>4
  <2>2. /\ NextAttempt(p, match).traceId = p.traceId
        /\ NextAttempt(p, match).hop0 = p.hop0
    BY DEF NextAttempt, TypeOK, Attempt
  <2>3. QED
    BY <2>1, <2>2 DEF Continues, OneTracePerFlow, Traces
<1>5. QED
  BY <1>1, <1>2, <1>3, <1>4 DEF TraceStep

\* A flow key starts at most one trace, ever, and m_seenAtVictim is exactly
\* the set of flows that did (traceback-observer.cc:55-59).
THEOREM OneTrace == Spec => []OneTracePerFlow
<1>1. Init => OneTracePerFlow
  BY DEF Init, OneTracePerFlow, Traces
<1>2. QED
  BY <1>1, OneTraceStep, Steps, TypeCorrect, PTL DEF Spec

-----------------------------------------------------------------------------
(***************************************************************************)
(* Time and hop budgets.  The bounds of BudgetRespected are not inductive  *)
(* alone: that a report comes at the due time of its attempt needs the     *)
(* clock never to pass an attempt that is still queued.                    *)
(***************************************************************************)
NothingOverdue == \A p \in pending : now <= p.due

BudgetInv == BudgetRespected /\ NothingOverdue

LEMMA LongestTraceType ==
  /\ LongestTrace \in Nat
  /\ AccumulationDelay <= LongestTrace
BY TimingAssumption DEF LongestTrace

LEMMA HopDelays ==
  ASSUME NEW h \in Nat
  PROVE  /\ HopDelay * h \in Nat
         /\ HopDelay * (h + 1) = HopDelay * h + HopDelay
BY TimingAssumption

\* An attempt that searches while the window is open leaves time for one
\* more hop delay within LongestTrace.
LEMMA SearchLeavesTime ==
  ASSUME NEW p \in Attempt, MaySearch(p), now \in Nat,
         p.due = p.detect + AccumulationDelay + HopDelay * p.hops
  PROVE  now + HopDelay <= p.detect + LongestTrace
<1>1. /\ p.detect \in Nat /\ p.hops \in Nat
      /\ p.due = now /\ now <= p.detect + LiveWindow
  BY DEF MaySearch, FreshPeer, KnownPeer, Due, Deadline, Attempt
<1>2. HopDelay * p.hops \in Nat
  BY <1>1, HopDelays
<1>3. AccumulationDelay <= LiveWindow
  BY <1>1, <1>2, TimingAssumption
<1>4. QED
  BY <1>1, <1>3, TimingAssumption DEF LongestTrace

LEMMA BudgetStep == TypeOK /\ BudgetInv /\ TraceStep => BudgetInv'
<1> SUFFICES ASSUME TypeOK, BudgetInv, TraceStep
             PROVE  BudgetInv'
  OBVIOUS
<1>t. /\ now \in Nat
      /\ \A p \in pending : p \in Attempt
      /\ \A p \in Attempt : /\ p.due \in Nat /\ p.detect \in Nat
                            /\ p.hops \in Nat
  BY EndTimeType DEF TypeOK, Attempt
<1>1. CASE \E f \in Flows : Starts(f) /\ now' = now
  <2>1. PICK f \in Flows : Starts(f) /\ now' = now
    BY <1>1
  <2> DEFINE a == FirstAttempt(f)
  <2>2. /\ a.due = now + AccumulationDelay
        /\ a.detect = now
        /\ a.hops = 0
    BY DEF FirstAttempt
  <2>3. /\ a.due <= a.detect + LongestTrace
        /\ a.due = a.detect + AccumulationDelay + HopDelay * a.hops
        /\ a.hops <= MaxHops
        /\ now <= a.due
    BY <2>2, <1>t, LongestTraceType, TimingAssumption
  <2> HIDE DEF a
  <2>4. pending' = pending \cup {a} /\ completed' = completed
    BY <2>1 DEF Starts, a
  <2>5. QED
    BY <2>1, <2>3, <2>4 DEF BudgetInv, BudgetRespected, NothingOverdue, Traces
<1>2. CASE \E p \in pending : Ends(p)
  <2>1. PICK p \in pending : Ends(p)
    BY <1>2
  <2>2. PICK c : /\ c.at = now /\ c.detect = p.detect /\ c.hops = p.hops
                 /\ completed' = completed \cup {c}
    BY <2>1 DEF Ends, Report
  <2>3. p.due = now /\ now' = now /\ pending' = pending \ {p}
    BY <2>1 DEF Ends, Due
  <2>4. QED
    BY <2>2, <2>3 DEF BudgetInv, BudgetRespected, NothingOverdue, Traces
<1>3. CASE \E p \in pending : \E match \in Flows : Continues(p, match)
  <2>1. PICK p \in pending, match \in Flows : Continues(p, match)
    BY <1>3
  <2> DEFINE a == NextAttempt(p, match)
  <2>2. /\ a.due = now + HopDelay
        /\ a.detect = p.detect
        /\ a.hops = p.hops + 1
    BY DEF NextAttempt
  <2>3. /\ p.due = p.detect + AccumulationDelay + HopDelay * p.hops
        /\ p.due = now
        /\ p.hops < MaxHops
        /\ p \in Attempt
    BY <2>1, <1>t DEF BudgetInv, BudgetRespected, Continues, MaySearch, FreshPeer,
       KnownPeer, Due
  <2>4. a.due = a.detect + AccumulationDelay + HopDelay * a.hops
    <3> DEFINE spent == HopDelay * p.hops
    <3>1. /\ spent \in Nat
          /\ HopDelay * a.hops = spent + HopDelay
      BY <2>2, <2>3, <1>t, HopDelays
    <3>2. now = p.detect + AccumulationDelay + spent
      BY <2>3
    <3> HIDE DEF spent
    <3>3. now + HopDelay = p.detect + AccumulationDelay + (spent + HopDelay)
      BY <3>1, <3>2, <2>3, <1>t, TimingAssumption
    <3>4. QED
      BY <3>1, <3>3, <2>2
  <2>5. a.due <= a.detect + LongestTrace
    BY <2>1, <2>2, <2>3, <1>t, SearchLeavesTime DEF Continues
  <2>6. a.hops <= MaxHops /\ now <= a.due
    BY <2>2, <2>3, <1>t, TimingAssumption
  <2> HIDE DEF a
  <2>7. /\ pending' = (pending \ {p}) \cup {a}
        /\ completed' = completed /\ now' = now
    BY <2>1 DEF Continues, a
  <2>8. QED
    BY <2>4, <2>5, <2>6, <2>7 DEF BudgetInv, BudgetRespected, NothingOverdue, Traces
<1>4. CASE Quiet /\ now' = now
  BY <1>4 DEF Quiet, BudgetInv, BudgetRespected, NothingOverdue, Traces
<1>5. CASE Tick
  <2>1. \A p \in pending : now + 1 <= p.due
    BY <1>5, <1>t DEF Tick, BudgetInv, NothingOverdue
  <2>2. QED
    BY <2>1, <1>5 DEF Tick, observerVars, BudgetInv, BudgetRespected, NothingOverdue, Traces
<1>6. QED
  BY <1>1, <1>2, <1>3, <1>4, <1>5, TickForm DEF TraceStep

\* The window is compared with the clock only when an attempt runs
\* (traceback-observer.cc:128), yet it bounds every trace as a whole.
THEOREM Budget == Spec => []BudgetRespected
<1>1. Init => BudgetInv
  BY DEF Init, BudgetInv, BudgetRespected, NothingOverdue, Traces
<1>2. BudgetInv => BudgetRespected
  BY DEF BudgetInv
<1>3. QED
  BY <1>1, <1>2, BudgetStep, Steps, TypeCorrect, PTL DEF Spec

\* Simulator::Stop (livetrace-sim.cc:568) cuts off no trace that was detected
\* more than LongestTrace before it.
THEOREM CutOff == Spec => []CutOffOnlyNearEnd
<1>1. Init => BudgetInv
  BY DEF Init, BudgetInv, BudgetRespected, NothingOverdue, Traces
<1>2. TypeOK /\ BudgetInv => CutOffOnlyNearEnd
  <2> SUFFICES ASSUME TypeOK, BudgetInv, now = EndTime, NEW p \in pending
               PROVE  p.detect + LongestTrace >= EndTime
    BY DEF CutOffOnlyNearEnd
  <2>1. EndTime <= p.due /\ p.due <= p.detect + LongestTrace
    BY DEF BudgetInv, BudgetRespected, NothingOverdue
  <2>2. p.due \in Nat /\ p.detect \in Nat
    BY DEF TypeOK, Attempt
  <2>3. QED
    BY <2>1, <2>2, EndTimeType, LongestTraceType
<1>3. QED
  BY <1>1, <1>2, BudgetStep, Steps, TypeCorrect, PTL DEF Spec

-----------------------------------------------------------------------------
(***************************************************************************)
(* Paths.                                                                  *)
(***************************************************************************)
LEMMA AppendFacts ==
  ASSUME NEW s \in Seq(Nodes), NEW n \in Nodes
  PROVE  /\ Append(s, n) \in Seq(Nodes)
         /\ Len(Append(s, n)) = Len(s) + 1
         /\ DOMAIN s = 1..Len(s)
         /\ DOMAIN Append(s, n) = 1..(Len(s) + 1)
         /\ \A i \in 1..Len(s) : Append(s, n)[i] = s[i]
         /\ Append(s, n)[Len(s) + 1] = n
         /\ Len(s) \in Nat
OBVIOUS

\* A walk that appends a node it has not visited stays simple.
LEMMA AppendFresh ==
  ASSUME NEW s \in Seq(Nodes), NEW n \in Nodes, NoRepeat(s),
         ~\E i \in DOMAIN s : s[i] = n
  PROVE  NoRepeat(Append(s, n))
BY AppendFacts DEF NoRepeat

\* One that appends a visited node does not.
LEMMA AppendVisited ==
  ASSUME NEW s \in Seq(Nodes), NEW n \in Nodes, NEW i \in DOMAIN s, s[i] = n
  PROVE  ~NoRepeat(Append(s, n))
<1>1. /\ i \in DOMAIN Append(s, n) /\ Len(s) + 1 \in DOMAIN Append(s, n)
      /\ i # Len(s) + 1
      /\ Append(s, n)[i] = Append(s, n)[Len(s) + 1]
  BY AppendFacts
<1>2. QED
  BY <1>1 DEF NoRepeat

LEMMA PrefixOfAppend ==
  ASSUME NEW s \in Seq(Nodes), NEW n \in Nodes
  PROVE  SubSeq(Append(s, n), 1, Len(Append(s, n)) - 1) = s
OBVIOUS

LEMMA PrefixOfSimple ==
  ASSUME NEW s \in Seq(Nodes), NoRepeat(s)
  PROVE  NoRepeat(SubSeq(s, 1, Len(s) - 1))
<1> DEFINE t == SubSeq(s, 1, Len(s) - 1)
<1>1. \A i \in DOMAIN t : i \in DOMAIN s /\ t[i] = s[i]
  OBVIOUS
<1> HIDE DEF t
<1>2. NoRepeat(t)
  BY <1>1 DEF NoRepeat
<1>3. QED
  BY <1>2 DEF t

\* A queued path is never empty: it starts with the victim.
Rooted == \A p \in pending : Len(p.chain) >= 1

PathInv == PathIsSimple /\ Rooted

\* What PathIsSimple says of one reported path.
ReportedPath(chain, reason) ==
  /\ chain[1] = Victim
  /\ NoRepeat(SubSeq(chain, 1, Len(chain) - 1))
  /\ NoRepeat(chain) <=> reason # "cycle_detected"

\* Ending a trace with an admissible path keeps the invariant.
LEMMA FinishPath ==
  ASSUME PathInv, NEW p \in pending, NEW chain, NEW reason,
         Finish(p, chain, reason), ReportedPath(chain, reason)
  PROVE  PathInv'
<1>1. PICK c : /\ c.chain = chain /\ c.reason = reason
               /\ completed' = completed \cup {c}
  BY DEF Finish
<1>2. pending' = pending \ {p}
  BY DEF Finish
<1>3. QED
  BY <1>1, <1>2 DEF PathInv, PathIsSimple, Rooted, ReportedPath

\* A node not yet on the path makes an admissible path, whatever ends it.
LEMMA FreshPath ==
  ASSUME PathInv, NEW p \in pending, p \in Attempt, FreshPeer(p)
  PROVE  /\ Append(p.chain, Peer(p))[1] = Victim
         /\ NoRepeat(Append(p.chain, Peer(p)))
         /\ NoRepeat(SubSeq(Append(p.chain, Peer(p)), 1, Len(Append(p.chain, Peer(p))) - 1))
<1>1. p.chain \in Seq(Nodes) /\ Peer(p) \in Nodes
  BY PeerType DEF FreshPeer, KnownPeer, Attempt
<1>2. /\ p.chain[1] = Victim /\ NoRepeat(p.chain) /\ Len(p.chain) >= 1
      /\ ~\E i \in DOMAIN p.chain : p.chain[i] = Peer(p)
  BY DEF PathInv, PathIsSimple, Rooted, FreshPeer, OnChain
<1>3. Append(p.chain, Peer(p))[1] = Victim
  BY <1>1, <1>2, AppendFacts
<1>4. QED
  BY <1>1, <1>2, <1>3, AppendFresh, PrefixOfAppend

LEMMA PathStep == TypeOK /\ PathInv /\ [Next]_vars => PathInv'
<1> SUFFICES ASSUME TypeOK, PathInv, [Next]_vars
             PROVE  PathInv'
  OBVIOUS
<1>t. \A p \in pending : p \in Attempt /\ p.chain \in Seq(Nodes)
  BY DEF TypeOK, Attempt
<1>1. CASE \E f \in Flows : Receive(f)
  <2>1. PICK f \in Flows : Receive(f)
    BY <1>1
  <2>2. /\ completed' = completed
        /\ pending' = pending \/ pending' = pending \cup {FirstAttempt(f)}
    BY <2>1 DEF Receive, OnFlowObserved, observerVars
  <2>3. FirstAttempt(f).chain = <<Victim>>
    BY DEF FirstAttempt
  <2>4. NoRepeat(<<Victim>>) /\ Len(<<Victim>>) >= 1 /\ <<Victim>>[1] = Victim
    BY DEF NoRepeat
  <2>5. QED
    BY <2>2, <2>3, <2>4 DEF PathInv, PathIsSimple, Rooted
<1>2. ASSUME NEW p \in pending, AttemptTrace(p)
      PROVE  PathInv'
  <2>1. /\ p.chain \in Seq(Nodes) /\ p \in Attempt /\ Len(p.chain) >= 1
        /\ p.chain[1] = Victim /\ NoRepeat(p.chain)
    BY <1>t DEF PathInv, PathIsSimple, Rooted
  <2>2. CASE UnknownPeer(p)
    <3>1. ReportedPath(p.chain, "unknown_peer_address")
      BY <2>1, PrefixOfSimple DEF ReportedPath
    <3>2. QED
      BY <2>2, <3>1, FinishPath DEF UnknownPeer
  <2>3. CASE CycleDetected(p)
    <3>1. Peer(p) \in Nodes
      BY <2>1, <2>3, PeerType DEF CycleDetected, KnownPeer
    <3>2. PICK i \in DOMAIN p.chain : p.chain[i] = Peer(p)
      BY <2>3 DEF CycleDetected, OnChain
    <3>3. ~NoRepeat(Append(p.chain, Peer(p)))
      BY <2>1, <3>1, <3>2, AppendVisited
    <3>4. Append(p.chain, Peer(p))[1] = Victim
      BY <2>1, <3>1, AppendFacts
    <3>5. ReportedPath(Append(p.chain, Peer(p)), "cycle_detected")
      BY <2>1, <3>1, <3>3, <3>4, PrefixOfAppend DEF ReportedPath
    <3>6. QED
      BY <2>3, <3>5, FinishPath DEF CycleDetected
  <2>4. CASE WindowExpired(p)
    <3>1. ReportedPath(Append(p.chain, Peer(p)), "window_expired")
      BY <2>1, <2>4, FreshPath DEF ReportedPath, WindowExpired
    <3>2. QED
      BY <2>4, <3>1, FinishPath DEF WindowExpired
  <2>5. CASE HopLimitReached(p)
    <3>1. ReportedPath(Append(p.chain, Peer(p)), "hop_limit_reached")
      BY <2>1, <2>5, FreshPath DEF ReportedPath, HopLimitReached
    <3>2. QED
      BY <2>5, <3>1, FinishPath DEF HopLimitReached
  <2>6. CASE NoMatch(p)
    <3>1. ReportedPath(Append(p.chain, Peer(p)), "no_match_above_threshold")
      BY <2>1, <2>6, FreshPath DEF ReportedPath, NoMatch, MaySearch
    <3>2. QED
      BY <2>6, <3>1, FinishPath DEF NoMatch
  <2>7. CASE \E match \in Flows : Matched(p, match)
    <3>1. PICK match \in Flows : Matched(p, match)
      BY <2>7
    <3>2. FreshPeer(p) /\ Peer(p) \in Nodes
      BY <2>1, <3>1, PeerType DEF Matched, MaySearch, FreshPeer, KnownPeer
    <3>3. NextAttempt(p, match).chain = Append(p.chain, Peer(p))
      BY DEF NextAttempt
    <3>4. /\ pending' = (pending \ {p}) \cup {NextAttempt(p, match)}
          /\ completed' = completed
      BY <3>1 DEF Matched
    <3>5. Len(Append(p.chain, Peer(p))) >= 1
      BY <2>1, <3>2, AppendFacts
    <3>6. QED
      BY <2>1, <3>2, <3>3, <3>4, <3>5, FreshPath DEF PathInv, PathIsSimple, Rooted
  <2>8. QED
    BY <1>2, <2>2, <2>3, <2>4, <2>5, <2>6, <2>7 DEF AttemptTrace, GiveUp
<1>3. CASE Tick
  BY <1>3 DEF Tick, observerVars, PathInv, PathIsSimple, Rooted
<1>4. CASE UNCHANGED vars
  BY <1>4 DEF vars, PathInv, PathIsSimple, Rooted
<1>5. QED
  BY <1>1, <1>2, <1>3, <1>4 DEF Next

\* No reported path visits a node twice unless it says so: the repeat test
\* stands before the push, which finish then reports
\* (traceback-observer.cc:117-126).
THEOREM SimplePath == Spec => []PathIsSimple
<1>1. Init => PathInv
  BY DEF Init, PathInv, PathIsSimple, Rooted
<1>2. PathInv => PathIsSimple
  BY DEF PathInv
<1>3. QED
  BY <1>1, <1>2, PathStep, TypeCorrect, PTL DEF Spec

-----------------------------------------------------------------------------
(***************************************************************************)
(* Every hop rests on an observed flow.  Two facts carry the invariant     *)
(* from step to step: the flow a queued attempt starts from was received   *)
(* by the last node of its path since detection, and the log never runs    *)
(* ahead of the clock, so that a later arrival only raises lastRx.         *)
(***************************************************************************)
LogInPast == \A f \in Flows : lastRx[f] <= now

\* Flow f carries traffic from n to the last node of the path, since t0.
Feeds(f, chain, t0) ==
  DstNode[f] = chain[Len(chain)] /\ lastRx[f] >= t0

\* Each step of the path is a flow received since t0.
Observed(chain, t0) ==
  \A i \in 1..(Len(chain) - 1) :
    \E f \in Flows : /\ SrcNode[f] = chain[i + 1]
                     /\ DstNode[f] = chain[i]
                     /\ lastRx[f] >= t0

ObservedInv ==
  /\ LogInPast
  /\ \A p \in pending : /\ Len(p.chain) >= 1
                        /\ Feeds(p.confirmed, p.chain, p.detect)
                        /\ Observed(p.chain, p.detect)
  /\ \A c \in completed : Observed(c.chain, c.detect)

\* Appending the peer of the confirmed flow keeps a path observed.
LEMMA PeerObserved ==
  ASSUME ObservedInv, NEW p \in pending, p \in Attempt, Peer(p) \in Nodes
  PROVE  Observed(Append(p.chain, Peer(p)), p.detect)
<1> DEFINE longer == Append(p.chain, Peer(p))
<1>1. p.chain \in Seq(Nodes) /\ p.confirmed \in Flows
  BY DEF Attempt
<1>2. /\ Len(p.chain) >= 1
      /\ Feeds(p.confirmed, p.chain, p.detect)
      /\ Observed(p.chain, p.detect)
  BY DEF ObservedInv
<1>3. /\ Len(longer) = Len(p.chain) + 1 /\ Len(p.chain) \in Nat
      /\ \A i \in 1..Len(p.chain) : longer[i] = p.chain[i]
      /\ longer[Len(p.chain) + 1] = Peer(p)
  BY <1>1, AppendFacts
<1> HIDE DEF longer
<1>4. SUFFICES ASSUME NEW i \in 1..Len(p.chain)
               PROVE  \E f \in Flows : /\ SrcNode[f] = longer[i + 1]
                                       /\ DstNode[f] = longer[i]
                                       /\ lastRx[f] >= p.detect
  BY <1>3 DEF Observed, longer
<1>5. CASE i = Len(p.chain)
  BY <1>1, <1>2, <1>3, <1>5 DEF Feeds, Peer
<1>6. CASE i # Len(p.chain)
  <2>1. /\ i \in 1..(Len(p.chain) - 1)
        /\ longer[i] = p.chain[i] /\ longer[i + 1] = p.chain[i + 1]
    BY <1>3, <1>6
  <2>2. QED
    BY <1>2, <2>1 DEF Observed
<1>7. QED
  BY <1>5, <1>6

\* An arrival only strengthens what was observed.
LEMMA LaterArrival ==
  ASSUME TypeOK, LogInPast, NEW f \in Flows, RecordRecv(f)
  PROVE  /\ LogInPast'
         /\ \A g \in Flows : /\ lastRx[g] \in Int /\ lastRx'[g] \in Int
                             /\ lastRx'[g] >= lastRx[g]
         /\ lastRx'[f] = now
BY EndTimeType DEF TypeOK, LogInPast, RecordRecv, Never

LEMMA StillObserved ==
  ASSUME NEW chain, NEW t0 \in Nat, Observed(chain, t0),
         \A g \in Flows : /\ lastRx[g] \in Int /\ lastRx'[g] \in Int
                          /\ lastRx'[g] >= lastRx[g]
  PROVE  Observed(chain, t0)'
<1> SUFFICES ASSUME NEW i \in 1..(Len(chain) - 1)
             PROVE  \E f \in Flows : /\ SrcNode[f] = chain[i + 1]
                                     /\ DstNode[f] = chain[i]
                                     /\ lastRx'[f] >= t0
  BY DEF Observed
<1>1. PICK f \in Flows : /\ SrcNode[f] = chain[i + 1]
                         /\ DstNode[f] = chain[i]
                         /\ lastRx[f] >= t0
  BY DEF Observed
<1>2. lastRx'[f] >= t0
  BY <1>1
<1>3. QED
  BY <1>1, <1>2

LEMMA ObservedReceive ==
  ASSUME TypeOK, ObservedInv, NEW f \in Flows, Receive(f)
  PROVE  ObservedInv'
<1>1. /\ LogInPast'
      /\ \A g \in Flows : /\ lastRx[g] \in Int /\ lastRx'[g] \in Int
                          /\ lastRx'[g] >= lastRx[g]
      /\ lastRx'[f] = now
  BY LaterArrival DEF Receive, ObservedInv
<1>2. ASSUME NEW p \in pending
      PROVE  /\ Len(p.chain) >= 1
             /\ Feeds(p.confirmed, p.chain, p.detect)'
             /\ Observed(p.chain, p.detect)'
  <2>1. /\ p.detect \in Nat /\ p.confirmed \in Flows
        /\ Len(p.chain) >= 1
        /\ Feeds(p.confirmed, p.chain, p.detect)
        /\ Observed(p.chain, p.detect)
    BY <1>2 DEF TypeOK, Attempt, ObservedInv
  <2>2. Observed(p.chain, p.detect)'
    BY <1>1, <2>1, StillObserved
  <2>3. Feeds(p.confirmed, p.chain, p.detect)'
    BY <1>1, <2>1 DEF Feeds
  <2>4. QED
    BY <2>1, <2>2, <2>3
<1>3. ASSUME NEW c \in completed
      PROVE  Observed(c.chain, c.detect)'
  <2>1. c.detect \in Nat /\ Observed(c.chain, c.detect)
    BY <1>3 DEF TypeOK, Completion, ObservedInv
  <2>2. QED
    BY <1>1, <2>1, StillObserved
<1>4. /\ completed' = completed
      /\ \/ pending' = pending
         \/ pending' = pending \cup {FirstAttempt(f)} /\ DstNode[f] = Victim
  BY DEF Receive, OnFlowObserved, StartsTrace, observerVars
<1>5. PICK a : a = FirstAttempt(f)
  OBVIOUS
<1>6. CASE pending' = pending \cup {a} /\ DstNode[f] = Victim
  <2>1. /\ a.chain = <<Victim>> /\ a.confirmed = f /\ a.detect = now
        /\ Len(<<Victim>>) = 1 /\ <<Victim>>[1] = Victim
    BY <1>5 DEF FirstAttempt
  <2>2. now \in Nat
    BY EndTimeType DEF TypeOK
  <2>3. /\ Len(a.chain) >= 1
        /\ DstNode[a.confirmed] = a.chain[Len(a.chain)] /\ lastRx'[a.confirmed] >= a.detect
        /\ Observed(a.chain, a.detect)'
    BY <1>1, <1>6, <2>1, <2>2 DEF Observed
  <2>4. ASSUME NEW p \in pending'
        PROVE  /\ Len(p.chain) >= 1
               /\ Feeds(p.confirmed, p.chain, p.detect)'
               /\ Observed(p.chain, p.detect)'
    <3>1. CASE p \in pending
      BY <1>2, <3>1
    <3>2. CASE p = a
      BY <2>3, <3>2 DEF Feeds, Observed
    <3>3. QED
      BY <1>6, <2>4, <3>1, <3>2
  <2>5. QED
    BY <1>1, <1>3, <1>4, <2>4 DEF ObservedInv
<1>7. CASE pending' = pending
  BY <1>1, <1>2, <1>3, <1>4, <1>7 DEF ObservedInv
<1>8. QED
  BY <1>4, <1>5, <1>6, <1>7

LEMMA ObservedFinish ==
  ASSUME ObservedInv, NEW p \in pending, NEW chain, NEW reason,
         Finish(p, chain, reason), Observed(chain, p.detect)
  PROVE  ObservedInv'
<1>1. PICK c : /\ c.chain = chain /\ c.detect = p.detect
               /\ completed' = completed \cup {c}
  BY DEF Finish
<1>2. pending' = pending \ {p} /\ UNCHANGED <<now, lastRx>>
  BY DEF Finish
<1>3. LogInPast'
  BY <1>2 DEF ObservedInv, LogInPast
<1>4. ASSUME NEW q \in pending'
      PROVE  /\ Len(q.chain) >= 1
             /\ Feeds(q.confirmed, q.chain, q.detect)'
             /\ Observed(q.chain, q.detect)'
  BY <1>2, <1>4 DEF ObservedInv, Feeds, Observed
<1>5. ASSUME NEW d \in completed'
      PROVE  Observed(d.chain, d.detect)'
  <2>1. Observed(d.chain, d.detect)
    BY <1>1, <1>5 DEF ObservedInv
  <2>2. QED
    BY <1>2, <2>1 DEF Observed
<1>6. QED
  BY <1>3, <1>4, <1>5 DEF ObservedInv

LEMMA ObservedMatched ==
  ASSUME TypeOK, ObservedInv, NEW p \in pending, NEW match \in Flows, Matched(p, match)
  PROVE  ObservedInv'
<1>1. p \in Attempt /\ p.chain \in Seq(Nodes) /\ Peer(p) \in Nodes
  BY PeerType DEF TypeOK, Attempt, Matched, MaySearch, FreshPeer, KnownPeer
<1>2. Observed(Append(p.chain, Peer(p)), p.detect)
  BY <1>1, PeerObserved
<1>3. /\ Len(Append(p.chain, Peer(p))) >= 1
      /\ Append(p.chain, Peer(p))[Len(Append(p.chain, Peer(p)))] = Peer(p)
  BY <1>1, AppendFacts
<1>4. DstNode[match] = Peer(p) /\ lastRx[match] >= p.detect
  BY DEF Matched, Candidates
<1>5. PICK a : a = NextAttempt(p, match)
  OBVIOUS
<1>6. /\ a.chain = Append(p.chain, Peer(p)) /\ a.detect = p.detect
      /\ a.confirmed = match
  BY <1>5 DEF NextAttempt
<1>7. Len(a.chain) >= 1 /\ Feeds(a.confirmed, a.chain, a.detect) /\ Observed(a.chain, a.detect)
  BY <1>2, <1>3, <1>4, <1>6 DEF Feeds
<1>8. /\ pending' = (pending \ {p}) \cup {a}
      /\ UNCHANGED <<now, lastRx, completed>>
  BY <1>5 DEF Matched
<1>9. QED
  BY <1>7, <1>8 DEF ObservedInv, LogInPast, Feeds, Observed

LEMMA ObservedStep == TypeOK /\ ObservedInv /\ [Next]_vars => ObservedInv'
<1> SUFFICES ASSUME TypeOK, ObservedInv, [Next]_vars
             PROVE  ObservedInv'
  OBVIOUS
<1>1. CASE \E f \in Flows : Receive(f)
  BY <1>1, ObservedReceive
<1>2. ASSUME NEW p \in pending, AttemptTrace(p)
      PROVE  ObservedInv'
  <2>1. p \in Attempt /\ Observed(p.chain, p.detect)
    BY DEF TypeOK, ObservedInv
  <2>2. Peer(p) # kNotFound => Observed(Append(p.chain, Peer(p)), p.detect)
    BY <2>1, PeerType, PeerObserved
  <2>3. CASE UnknownPeer(p)
    BY <2>1, <2>3, ObservedFinish DEF UnknownPeer
  <2>4. CASE CycleDetected(p)
    BY <2>2, <2>4, ObservedFinish DEF CycleDetected, KnownPeer
  <2>5. CASE WindowExpired(p)
    BY <2>2, <2>5, ObservedFinish DEF WindowExpired, FreshPeer, KnownPeer
  <2>6. CASE HopLimitReached(p)
    BY <2>2, <2>6, ObservedFinish DEF HopLimitReached, FreshPeer, KnownPeer
  <2>7. CASE NoMatch(p)
    BY <2>2, <2>7, ObservedFinish DEF NoMatch, MaySearch, FreshPeer, KnownPeer
  <2>8. CASE \E match \in Flows : Matched(p, match)
    BY <2>8, ObservedMatched
  <2>9. QED
    BY <1>2, <2>3, <2>4, <2>5, <2>6, <2>7, <2>8 DEF AttemptTrace, GiveUp
<1>3. CASE Tick
  <2>1. \A f \in Flows : lastRx[f] <= now + 1
    BY EndTimeType DEF TypeOK, ObservedInv, LogInPast, Never
  <2>2. QED
    BY <1>3, <2>1 DEF Tick, observerVars, ObservedInv, LogInPast, Feeds, Observed
<1>4. CASE UNCHANGED vars
  BY <1>4 DEF vars, ObservedInv, LogInPast, Feeds, Observed
<1>5. QED
  BY <1>1, <1>2, <1>3, <1>4 DEF Next

\* Every hop of every path, queued or reported, is a flow its downstream node
\* received after the burst was detected (traceback-observer.cc:139-141).
THEOREM ObservedHops == Spec => []ChainFollowsObservedFlows
<1>1. Init => ObservedInv
  BY DEF Init, ObservedInv, LogInPast, Never
<1>2. ObservedInv => ChainFollowsObservedFlows
  BY DEF ObservedInv, ChainFollowsObservedFlows, Observed, Traces
<1>3. QED
  BY <1>1, <1>2, ObservedStep, TypeCorrect, PTL DEF Spec

-----------------------------------------------------------------------------
(***************************************************************************)
(* The traceback engine implements TraceWalk, the walk its listeners rely  *)
(* on.  A trace of the walk is the one queued attempt or the one           *)
(* completion that carries its number: OneOutcomePerTrace makes the CHOOSE *)
(* of TraceOf a function of the trace number.                              *)
(***************************************************************************)
paths == [i \in 1..nextTraceId |-> TraceOf(i - 1).chain]
opens == {p.traceId + 1 : p \in pending}

\* The two refinement-mapped variables, element by element.
MapFacts ==
  /\ \A t \in Traces : /\ t.traceId + 1 \in 1..nextTraceId
                       /\ paths[t.traceId + 1] = t.chain
  /\ \A i \in 1..nextTraceId : \E t \in Traces : t.traceId = i - 1
  /\ paths \in [1..nextTraceId -> Seq(Nodes)]

LEMMA MapFactsHold == TypeOK /\ OneOutcomePerTrace => MapFacts
<1> SUFFICES ASSUME TypeOK, OneOutcomePerTrace
             PROVE  MapFacts
  OBVIOUS
<1>1. /\ nextTraceId \in Nat
      /\ \A t \in Traces : t.traceId \in Nat /\ t.chain \in Seq(Nodes)
  BY DEF TypeOK, Traces, Attempt, Completion
<1>2. \A t, u \in Traces : t.traceId = u.traceId => t = u
  BY DEF OneOutcomePerTrace, Traces
<1>3. \A t \in Traces : TraceOf(t.traceId) = t
  BY <1>2 DEF TraceOf
<1>4. \A t \in Traces : t.traceId < nextTraceId
  BY DEF OneOutcomePerTrace
<1>5. \A t \in Traces : /\ t.traceId + 1 \in 1..nextTraceId
                        /\ paths[t.traceId + 1] = t.chain
  <2> SUFFICES ASSUME NEW t \in Traces
               PROVE  /\ t.traceId + 1 \in 1..nextTraceId
                      /\ paths[t.traceId + 1] = t.chain
    OBVIOUS
  <2>1. t.traceId + 1 \in 1..nextTraceId /\ (t.traceId + 1) - 1 = t.traceId
    BY <1>1, <1>4
  <2>2. QED
    BY <2>1, <1>3 DEF paths
<1>6. \A i \in 1..nextTraceId : \E t \in Traces : t.traceId = i - 1
  BY <1>1 DEF OneOutcomePerTrace
<1>7. paths \in [1..nextTraceId -> Seq(Nodes)]
  BY <1>1, <1>3, <1>6 DEF paths
<1>8. QED
  BY <1>5, <1>6, <1>7 DEF MapFacts

-----------------------------------------------------------------------------
(***************************************************************************)
(* The walk's hop bound is on the length of a path, the engine's on the    *)
(* hops it has counted; an invariant relates the two.                      *)
(***************************************************************************)
HopsCountPath == \A p \in pending : Len(p.chain) = p.hops + 1

LEMMA HopsCountStep == TypeOK /\ HopsCountPath /\ TraceStep => HopsCountPath'
<1> SUFFICES ASSUME TypeOK, HopsCountPath, TraceStep
             PROVE  HopsCountPath'
  OBVIOUS
<1>1. CASE Quiet
  BY <1>1 DEF Quiet, HopsCountPath
<1>2. CASE \E f \in Flows : Starts(f)
  <2>1. PICK f \in Flows : Starts(f)
    BY <1>2
  <2>2. Len(FirstAttempt(f).chain) = FirstAttempt(f).hops + 1
    BY DEF FirstAttempt
  <2>3. QED
    BY <2>1, <2>2 DEF Starts, HopsCountPath
<1>3. CASE \E p \in pending : Ends(p)
  BY <1>3 DEF Ends, HopsCountPath
<1>4. CASE \E p \in pending : \E match \in Flows : Continues(p, match)
  <2>1. PICK p \in pending, match \in Flows : Continues(p, match)
    BY <1>4
  <2>2. p \in Attempt /\ p.chain \in Seq(Nodes) /\ p.hops \in Nat /\ Len(p.chain) = p.hops + 1
    BY DEF TypeOK, Attempt, HopsCountPath
  <2>3. Peer(p) \in Nodes
    BY <2>1, <2>2, PeerType DEF Continues, MaySearch, FreshPeer, KnownPeer
  <2>4. Len(NextAttempt(p, match).chain) = NextAttempt(p, match).hops + 1
    BY <2>2, <2>3, AppendFacts DEF NextAttempt
  <2>5. QED
    BY <2>1, <2>4 DEF Continues, HopsCountPath
<1>5. QED
  BY <1>1, <1>2, <1>3, <1>4 DEF TraceStep

-----------------------------------------------------------------------------
(***************************************************************************)
(* Every step maps to a step of the walk or to a stutter.                  *)
(***************************************************************************)
\* When one trace is replaced by another of its number, one path changes.
LEMMA OnePathChanges ==
  ASSUME MapFacts, MapFacts', nextTraceId \in Nat, nextTraceId' = nextTraceId,
         NEW p \in Traces, NEW q, q \in Traces', q.traceId = p.traceId,
         \A t \in Traces : t # p => t \in Traces'
  PROVE  /\ p.traceId + 1 \in 1..nextTraceId
         /\ paths[p.traceId + 1] = p.chain
         /\ paths' = [paths EXCEPT ![p.traceId + 1] = q.chain]
<1> DEFINE changed == [paths EXCEPT ![p.traceId + 1] = q.chain]
<1>1. /\ p.traceId + 1 \in 1..nextTraceId /\ paths[p.traceId + 1] = p.chain
      /\ paths'[p.traceId + 1] = q.chain
  BY DEF MapFacts
<1>2. /\ paths \in [1..nextTraceId -> Seq(Nodes)]
      /\ paths' \in [1..nextTraceId -> Seq(Nodes)]
  BY DEF MapFacts
<1>3. ASSUME NEW i \in 1..nextTraceId, i # p.traceId + 1
      PROVE  paths'[i] = paths[i]
  <2>1. PICK t \in Traces : t.traceId = i - 1
    BY <1>3 DEF MapFacts
  <2>2. t # p /\ t.traceId + 1 = i
    BY <1>3, <2>1
  <2>3. paths[t.traceId + 1] = t.chain /\ paths'[t.traceId + 1] = t.chain
    BY <2>1, <2>2 DEF MapFacts
  <2>4. QED
    BY <2>2, <2>3
<1>4. DOMAIN changed = 1..nextTraceId /\ DOMAIN paths' = 1..nextTraceId
  BY <1>2
<1>5. \A i \in 1..nextTraceId : paths'[i] = changed[i]
  BY <1>1, <1>2, <1>3
<1>6. paths' = changed
  <2>1. changed = [i \in 1..nextTraceId |-> changed[i]]
    BY <1>2
  <2>2. paths' = [i \in 1..nextTraceId |-> paths'[i]]
    BY <1>2
  <2> HIDE DEF changed
  <2>3. QED
    BY <2>1, <2>2, <1>5
<1>7. QED
  BY <1>1, <1>6

\* The same for the step of the walk, written over the mapped variables.
WalkStart == /\ paths' = Append(paths, <<Victim>>)
             /\ opens' = opens \cup {Len(paths) + 1}

WalkExtend(i) ==
  /\ i \in opens
  /\ Len(paths[i]) <= MaxHops
  /\ \E n \in Nodes \ {paths[i][j] : j \in 1..Len(paths[i])} :
       paths' = [paths EXCEPT ![i] = Append(paths[i], n)]
  /\ opens' = opens

WalkReport(i) ==
  /\ i \in opens
  /\ opens' = opens \ {i}
  /\ \/ paths' = paths
     \/ \E n \in Nodes : paths' = [paths EXCEPT ![i] = Append(paths[i], n)]

LEMMA StartMaps ==
  ASSUME TypeOK, MapFacts, MapFacts', NEW f \in Flows, Starts(f)
  PROVE  WalkStart
<1>1. nextTraceId \in Nat /\ nextTraceId' = nextTraceId + 1
  BY DEF TypeOK, Starts
<1>2. PICK a : a = FirstAttempt(f)
  OBVIOUS
<1>3. a.traceId = nextTraceId /\ a.chain = <<Victim>>
  BY <1>2 DEF FirstAttempt
<1>4. pending' = pending \cup {a} /\ completed' = completed
  BY <1>2 DEF Starts
<1>5. a \in Traces' /\ \A t \in Traces : t \in Traces'
  BY <1>4 DEF Traces
<1>6. /\ paths \in [1..nextTraceId -> Seq(Nodes)]
      /\ paths' \in [1..(nextTraceId + 1) -> Seq(Nodes)]
  BY <1>1 DEF MapFacts
<1>7. ASSUME NEW i \in 1..nextTraceId
      PROVE  paths'[i] = paths[i]
  <2>1. PICK t \in Traces : t.traceId = i - 1
    BY DEF MapFacts
  <2>2. t.traceId + 1 = i
    BY <2>1
  <2>3. paths[t.traceId + 1] = t.chain /\ paths'[t.traceId + 1] = t.chain
    BY <2>1, <1>5 DEF MapFacts
  <2>4. QED
    BY <2>2, <2>3
<1>8. paths'[nextTraceId + 1] = <<Victim>>
  BY <1>3, <1>5 DEF MapFacts
<1>9. /\ paths \in Seq(Seq(Nodes)) /\ Len(paths) = nextTraceId
      /\ paths' \in Seq(Seq(Nodes)) /\ Len(paths') = nextTraceId + 1
  BY <1>1, <1>6
<1>10. <<Victim>> \in Seq(Nodes)
  BY TopologyAssumption
<1>11. paths' = Append(paths, <<Victim>>)
  BY <1>1, <1>7, <1>8, <1>9, <1>10
<1>12. opens' = opens \cup {Len(paths) + 1}
  BY <1>3, <1>4, <1>9 DEF opens
<1>13. QED
  BY <1>11, <1>12 DEF WalkStart

LEMMA EndMaps ==
  ASSUME TypeOK, OneOutcomePerTrace, MapFacts, MapFacts', NEW p \in pending, Ends(p)
  PROVE  WalkReport(p.traceId + 1)
<1>1. /\ p \in Attempt /\ p \in Traces /\ p.chain \in Seq(Nodes) /\ nextTraceId \in Nat
      /\ \A q \in pending : q.traceId \in Nat
  BY DEF TypeOK, Attempt, Traces
<1>2. PICK reason \in StopReason,
           chain \in {p.chain} \cup (IF Peer(p) \in Nodes THEN {Append(p.chain, Peer(p))} ELSE {}) :
             completed' = completed \cup {Report(p, chain, reason)}
  BY DEF Ends
<1>3. PICK c : c = Report(p, chain, reason)
  OBVIOUS
<1>4. c.traceId = p.traceId /\ c.chain = chain
  BY <1>3 DEF Report
<1>5. pending' = pending \ {p} /\ completed' = completed \cup {c} /\ nextTraceId' = nextTraceId
  BY <1>2, <1>3 DEF Ends
<1>6. c \in Traces' /\ \A t \in Traces : t # p => t \in Traces'
  BY <1>5 DEF Traces
<1>7. /\ p.traceId + 1 \in 1..nextTraceId
      /\ paths[p.traceId + 1] = p.chain
      /\ paths' = [paths EXCEPT ![p.traceId + 1] = chain]
  BY <1>1, <1>4, <1>5, <1>6, OnePathChanges
<1>8. p.traceId + 1 \in opens /\ opens' = opens \ {p.traceId + 1}
  <2>1. \A q \in pending : q.traceId + 1 = p.traceId + 1 => q = p
    BY <1>1 DEF OneOutcomePerTrace
  <2>2. QED
    BY <1>5, <2>1 DEF opens
<1>9. CASE chain = p.chain
  <2>1. paths' = paths
    BY <1>7, <1>9 DEF MapFacts
  <2>2. QED
    BY <1>8, <2>1 DEF WalkReport
<1>10. CASE Peer(p) \in Nodes /\ chain = Append(p.chain, Peer(p))
  BY <1>7, <1>8, <1>10 DEF WalkReport
<1>11. QED
  BY <1>9, <1>10

LEMMA ContinueMaps ==
  ASSUME TypeOK, OneOutcomePerTrace, HopsCountPath, MapFacts, MapFacts',
         NEW p \in pending, NEW match \in Flows, Continues(p, match)
  PROVE  WalkExtend(p.traceId + 1)
<1>1. /\ p \in Attempt /\ p \in Traces /\ p.chain \in Seq(Nodes) /\ nextTraceId \in Nat
      /\ p.hops \in Nat /\ Len(p.chain) = p.hops + 1
  BY DEF TypeOK, Attempt, Traces, HopsCountPath
<1>2. /\ Peer(p) \in Nodes /\ p.hops < MaxHops
      /\ ~\E i \in DOMAIN p.chain : p.chain[i] = Peer(p)
  BY <1>1, PeerType DEF Continues, MaySearch, FreshPeer, KnownPeer, OnChain
<1>3. PICK a : a = NextAttempt(p, match)
  OBVIOUS
<1>4. a.traceId = p.traceId /\ a.chain = Append(p.chain, Peer(p))
  BY <1>3 DEF NextAttempt
<1>5. /\ pending' = (pending \ {p}) \cup {a}
      /\ completed' = completed /\ nextTraceId' = nextTraceId
  BY <1>3 DEF Continues
<1>6. a \in Traces' /\ \A t \in Traces : t # p => t \in Traces'
  BY <1>5 DEF Traces
<1>7. /\ paths[p.traceId + 1] = p.chain
      /\ paths' = [paths EXCEPT ![p.traceId + 1] = Append(p.chain, Peer(p))]
  BY <1>1, <1>4, <1>5, <1>6, OnePathChanges
<1>8. p.traceId + 1 \in opens /\ opens' = opens
  BY <1>4, <1>5 DEF opens
<1>9. Peer(p) \in Nodes \ {p.chain[j] : j \in 1..Len(p.chain)}
  BY <1>1, <1>2
<1>10. Len(p.chain) <= MaxHops
  BY <1>1, <1>2, TimingAssumption
<1>11. QED
  BY <1>7, <1>8, <1>9, <1>10 DEF WalkExtend

LEMMA StepMaps ==
  TypeOK /\ OneOutcomePerTrace /\ HopsCountPath /\ MapFacts /\ MapFacts' /\ TraceStep
    => [Walk!Next]_(Walk!vars)
<1> SUFFICES ASSUME TypeOK, OneOutcomePerTrace, HopsCountPath, MapFacts, MapFacts', TraceStep
             PROVE  [Walk!Next]_(Walk!vars)
  OBVIOUS
<1>1. CASE Quiet
  BY <1>1 DEF Quiet, Walk!vars, TraceOf, Traces
<1>2. ASSUME NEW f \in Flows, Starts(f)
      PROVE  Walk!Next
  <2>1. WalkStart
    BY <1>2, StartMaps
  <2>2. Walk!Start
    BY <2>1 DEF WalkStart, Walk!Start, paths, opens
  <2>3. QED
    BY <2>2 DEF Walk!Next
<1>3. Len(paths) = nextTraceId
  BY DEF MapFacts, TypeOK
<1>4. ASSUME NEW p \in pending, Ends(p)
      PROVE  Walk!Next
  <2>1. WalkReport(p.traceId + 1)
    BY <1>4, EndMaps
  <2>2. Walk!Report(p.traceId + 1)
    BY <2>1 DEF WalkReport, Walk!Report, paths, opens
  <2>3. p.traceId + 1 \in 1..Len(paths)
    BY <1>3 DEF MapFacts, Traces
  <2>4. QED
    BY <2>2, <2>3 DEF Walk!Next, paths
<1>5. ASSUME NEW p \in pending, NEW match \in Flows, Continues(p, match)
      PROVE  Walk!Next
  <2>1. WalkExtend(p.traceId + 1)
    BY <1>5, ContinueMaps
  <2>2. Walk!Extend(p.traceId + 1)
    BY <2>1 DEF WalkExtend, Walk!Extend, Walk!Visited, paths, opens
  <2>3. p.traceId + 1 \in 1..Len(paths)
    BY <1>3 DEF MapFacts, Traces
  <2>4. QED
    BY <2>2, <2>3 DEF Walk!Next, paths
<1>6. QED
  BY <1>1, <1>2, <1>4, <1>5 DEF TraceStep

\* The engine, with its queue, clock and log, implements the abstract walk:
\* what listeners see of a trace through SetTraceStartedNotify,
\* SetHopConfirmedNotify and SetTraceCompleteNotify
\* (traceback-observer.cc:30-46) is a walk of TraceWalk.
THEOREM Implementation == Spec => ImplementsTraceWalk
<1>1. Init => Walk!Init
  BY DEF Init, Walk!Init
<1>2. Init => HopsCountPath
  BY DEF Init, HopsCountPath
<1>3. QED
  BY <1>1, <1>2, HopsCountStep, MapFactsHold, StepMaps, Steps, TypeCorrect, OneOutcome, PTL
     DEF Spec, ImplementsTraceWalk, Walk!Spec
=============================================================================
