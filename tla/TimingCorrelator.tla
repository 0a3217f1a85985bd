-------------------------- MODULE TimingCorrelator -------------------------
(***************************************************************************)
(* The correlator (contrib/livetrace/model/timing-correlator.cc): ON/OFF   *)
(* signals of flows over a window of the log, their Pearson correlation    *)
(* over a range of lags, and the search for the flow that best explains a  *)
(* reference flow at a node; and the mirror of it that the offline         *)
(* evaluation computes from the persisted log (analysis/correlator.py).    *)
(*                                                                         *)
(* A Pearson coefficient r is kept exactly as the pair <<num, den>> of     *)
(* integers with r * |r| = num / den, which orders scores as r does; the   *)
(* code's -1 (no correlation) is <<-1, 1>>.                                *)
(*                                                                         *)
(* The behaviours build logs packet by packet: a packet of flow f is       *)
(* recorded when sent, under the key its sender gives it, and, Delay[f]    *)
(* later, when received.  As the unit tests do, packets may be recorded in *)
(* any order of timestamps.                                                *)
(***************************************************************************)
EXTENDS ObservationLog

CONSTANTS
  SrcNode, DstNode, Delay,   \* of each flow
  SentAs,                    \* the key its sends are logged under, of each flow
                             \* that is sent: a relay's names its first interface
  Bucket,                    \* bucketS
  OnCount,                   \* max(1, onThresholdPps * bucketS)
  MinTransitions,            \* m_cfg.minOnOffTransitions
  MaxLag,                    \* m_cfg.maxLagBuckets
  ThresholdNum, ThresholdDen, \* the score threshold, as a score
  Radix,                     \* 10: times are written in decimal digits
  Precision,                 \* 10^5: with six of them, a time is at least so
                             \* many times what its last digit stands for
  MaxLead,                   \* the longest a burst is on its way to the victim
  Horizon,                   \* bound: packets are sent in 0..Horizon
  MaxPackets                 \* bound: packets recorded

ASSUME CorrelatorAssumption ==
  /\ SrcNode \in [Flows -> Nodes]
  /\ DstNode \in [Flows -> Nodes]
  /\ Delay \in [Flows -> Nat]
  /\ DOMAIN SentAs \subseteq Flows
  /\ \A f \in DOMAIN SentAs : SentAs[f] \in Flows
  /\ Bucket \in Nat \ {0}
  /\ OnCount \in Nat \ {0}
  /\ MinTransitions \in Nat
  /\ MaxLag \in Nat
  /\ {Radix, Precision, MaxLead, Horizon} \subseteq Nat

\* A threshold above the score of no correlation.
ASSUME ThresholdAssumption ==
  ThresholdDen \in Nat \ {0} /\ ThresholdNum \in Int /\ -ThresholdDen < ThresholdNum

VARIABLE packets   \* number of packets recorded

vars == <<byNode, byFlow, packets>>

None == <<-1, 1>>
AtLeastScore(s, r) == s[1] * r[2] >= r[1] * s[2]
Threshold == <<ThresholdNum, ThresholdDen>>

-----------------------------------------------------------------------------
(***************************************************************************)
(* Signals are sequences of 0 and 1.                                       *)
(***************************************************************************)
NumBuckets(t0, t1) == (t1 - t0 + Bucket - 1) \div Bucket + 1

ComputeOnOffSignal(f, t0, t1) ==
  LET events == EventsForFlow(f, t0, t1)
      Count(k) == Cardinality({i \in DOMAIN events : (events[i].t - t0) \div Bucket = k})
  IN  [b \in 1..NumBuckets(t0, t1) |-> IF Count(b - 1) >= OnCount THEN 1 ELSE 0]

CountTransitions(s) == Cardinality({i \in 2..Len(s) : s[i] # s[i - 1]})

Overlap(a, b, lag) ==
  {i \in 1..Len(a) : i + lag \in 1..Len(b)}

SignedSquare(x) == IF x < 0 THEN -(x * x) ELSE x * x

\* With sums over the n positions of the overlap, n * n times the covariance
\* and variances of the code, whose common factor cancels in the quotient.
PearsonAtLag(a, b, lag) ==
  LET overlap == Overlap(a, b, lag)
      n == Cardinality(overlap)
      Sum(f) == MapThenSumSet(LAMBDA i : f[i], overlap)
      SumA == Sum(a)
      SumB == Sum([i \in overlap |-> b[i + lag]])
      SumAB == Sum([i \in overlap |-> a[i] * b[i + lag]])
      VarA == n * SumA - SumA * SumA   \* a[i] * a[i] = a[i]
      VarB == n * SumB - SumB * SumB
  IN  IF n < 2 \/ VarA <= 0 \/ VarB <= 0 THEN None
      ELSE <<SignedSquare(n * SumAB - SumA * SumB), VarA * VarB>>

Better(s, r) == IF AtLeastScore(s, r) THEN s ELSE r
BestOf(score) == FoldSet(LAMBDA lag, best : Better(score[lag], best), None, DOMAIN score)

\* Mutant: only delays, no advances, are searched, and one lag too few.
Lags_Short == 0..(MaxLag - 1)
Lags == -MaxLag..MaxLag

Correlate(a, b) ==
  IF CountTransitions(a) < MinTransitions \/ CountTransitions(b) < MinTransitions
  THEN None
  ELSE BestOf([lag \in Lags |-> PearsonAtLag(a, b, lag)])

-----------------------------------------------------------------------------
\* Mutant: any event of the flow at the node will do.
ReceivedAt_AnyEvent(f, n, t0, t1) ==
  \E e \in ToSet(EventsForFlow(f, t0, t1)) : e.node = n
ReceivedAt(f, n, t0, t1) ==
  \E e \in ToSet(EventsForFlow(f, t0, t1)) : e.node = n /\ e.isRx

NoMatch == [flow |-> "", score |-> None, valid |-> FALSE]

FindBestUpstreamMatch(reference, n, t0, t1, exclude) ==
  LET refSignal == ComputeOnOffSignal(reference, t0, t1)
      Eligible(f) == /\ f # reference
                     /\ f \notin exclude
                     /\ ReceivedAt(f, n, t0, t1)
      Consider(best, f) ==
        LET score == Correlate(refSignal, ComputeOnOffSignal(f, t0, t1))
        IN  IF ~Eligible(f) \/ AtLeastScore(best.score, score) THEN best
            ELSE [best EXCEPT !.flow = f, !.score = score]
      best == FoldLeft(Consider, NoMatch, FlowsAtNode(n, t0, t1))
  IN  [best EXCEPT !.valid = AtLeastScore(best.score, Threshold)]

-----------------------------------------------------------------------------
Packet(f, t) ==
  /\ packets < MaxPackets
  /\ packets' = packets + 1
  /\ RecordBoth(Event(t, SrcNode[f], FALSE, SentAs[f], packets),
                Event(t + Delay[f], DstNode[f], TRUE, f, packets))

Init == LogInit /\ packets = 0

Next == \E f \in DOMAIN SentAs, t \in 0..Horizon : Packet(f, t)

Spec == Init /\ [][Next]_vars

-----------------------------------------------------------------------------
(***************************************************************************)
(* The mirror reads the persisted log, which has a line for every event    *)
(* recorded.  A stream writes a time to six significant digits: the later  *)
(* it is, the coarser.                                                     *)
(***************************************************************************)
Recorded == UNION {ToSet(byFlow[f]) : f \in Flows}

\* What the last digit of a time stands for: a power of ten, or, of an early
\* time, less than the clock resolves.
LastDigit(t) ==
  Max({1} \cup {g \in 1..t : Precision * g <= t /\ \E k \in 0..t : g = Radix^k})

Written(t) == LastDigit(t) * ((2 * t + LastDigit(t)) \div (2 * LastDigit(t)))

compute_on_off_signal(flow, t0, t1) ==
  LET InBucket(k) == {e \in Recorded : /\ e.flow = flow
                                       /\ t0 <= Written(e.t) /\ Written(e.t) <= t1
                                       /\ (Written(e.t) - t0) \div Bucket = k}
  IN  [b \in 1..NumBuckets(t0, t1) |-> IF Cardinality(InBucket(b - 1)) >= OnCount THEN 1 ELSE 0]

\* From deviations, each times the number of positions.
pearson_at_lag(a, b, lag) ==
  LET range == (Max({0, -lag}) + 1)..Min({Len(a), Len(b) - lag})
      count == Cardinality(range)
      sum(f) == MapThenSumSet(LAMBDA i : f[i], range)
      sumA == sum(a)
      sumB == sum([i \in range |-> b[i + lag]])
      da == [i \in range |-> count * a[i] - sumA]
      db == [i \in range |-> count * b[i + lag] - sumB]
      cov == sum([i \in range |-> da[i] * db[i]])
      varA == sum([i \in range |-> da[i] * da[i]])
      varB == sum([i \in range |-> db[i] * db[i]])
  IN  IF count < 2 \/ varA <= 0 \/ varB <= 0 THEN None
      ELSE <<SignedSquare(cov), varA * varB>>

correlate(a, b) ==
  IF CountTransitions(a) < MinTransitions \/ CountTransitions(b) < MinTransitions
  THEN None
  ELSE BestOf([lag \in -MaxLag..MaxLag |-> pearson_at_lag(a, b, lag)])

\* evaluate_phase1.py: the flows whose scores the online choice is held against.
candidate_flows(confirmed, n, t0, t1) ==
  {e.flow : e \in {ev \in Recorded : /\ ev.node = n /\ ev.isRx
                                    /\ t0 <= Written(ev.t) /\ Written(ev.t) <= t1}} \ {confirmed}

-----------------------------------------------------------------------------
(***************************************************************************)
(* Properties.                                                             *)
(***************************************************************************)
Instants == 0..(Horizon + 1)

\* Each event is in the index of its node and of its flow; a query returns
\* exactly the indexed events inside the closed window, by time and, within
\* an instant, in the order they were recorded.
QueriesExact ==
  /\ Recorded = UNION {ToSet(byNode[n]) : n \in Nodes}
  /\ Cardinality(Recorded) = 2 * packets
  /\ \A t0, t1 \in Instants :
       /\ \A n \in Nodes :
            ToSet(EventsAtNode(n, t0, t1))
              = {e \in Recorded : e.node = n /\ e.t >= t0 /\ e.t <= t1}
       /\ \A f \in Flows :
            LET found == EventsForFlow(f, t0, t1)
            IN  /\ ToSet(found) = {e \in Recorded : e.flow = f /\ e.t >= t0 /\ e.t <= t1}
                /\ \A i \in 2..Len(found) :
                     \/ found[i - 1].t < found[i].t
                     \/ /\ found[i - 1].t = found[i].t
                        /\ found[i - 1].size <= found[i].size

Signal(f) == ComputeOnOffSignal(f, 0, Horizon + 1)

\* The window of t0..t1 of the engine, and the one of the same length from u0
\* of the evaluation, hold the same events in the same buckets, in spite of the
\* digits the evaluation does not have.
InEngineWindow(e, t0, t1) == t0 <= e.t /\ e.t <= t1
Aligned(t0, t1, u0) ==
  \A e \in Recorded :
    /\ InEngineWindow(e, t0, t1) <=> u0 <= Written(e.t) /\ Written(e.t) <= u0 + (t1 - t0)
    /\ InEngineWindow(e, t0, t1) => (Written(e.t) - u0) \div Bucket = (e.t - t0) \div Bucket

MirrorAgreesAt(r, n, t0, t1, u0) ==
  LET match == FindBestUpstreamMatch(r, n, t0, t1, {r})
      u1 == u0 + (t1 - t0)
      candidates == candidate_flows(r, n, u0, u1)
      ScoreOf(f) == correlate(compute_on_off_signal(r, u0, u1),
                              compute_on_off_signal(f, u0, u1))
  IN  /\ \A f \in candidates : AtLeastScore(match.score, ScoreOf(f))
      /\ \/ match.score = None
         \/ /\ match.flow \in candidates
            /\ AtLeastScore(ScoreOf(match.flow), match.score)
      /\ match.valid <=> \E f \in candidates : AtLeastScore(ScoreOf(f), Threshold)

\* The evaluation, with its hand-kept mirror, the persisted log and a window
\* that starts when the oracle says the burst was sent, not when it was
\* detected, finds what the engine acted on: no candidate has a better score
\* than the match, a match has the score of a candidate, and it is valid
\* exactly when some candidate reaches the threshold.  It does so whatever the
\* window, the order in which events were logged and the keys senders used,
\* unless the earlier start or a digit not written moves an event to another
\* bucket, or over the edge of the window.
OfflineAgrees ==
  \A t0, t1 \in Instants, lead \in 0..MaxLead : t0 <= t1 /\ lead <= t0 =>
    LET u0 == Written(t0 - lead)
    IN  Aligned(t0, t1, u0) =>
          \A r \in Flows, n \in Nodes : MirrorAgreesAt(r, n, t0, t1, u0)

AtLeast1(x) == IF x < 1 THEN 1 ELSE x
Shifted(s, k) == [b \in 1..Len(s) |-> IF b - k \in 1..Len(s) THEN s[b - k] ELSE 0]

\* A signal repeated by a relay within the lag budget, no delay included, is
\* recognised with the perfect score, provided the part of it that is still
\* inside the window has not gone flat.
DelayTolerated ==
  \A f \in Flows, k \in 0..MaxLag :
    LET s == Signal(f)
        kept == SubSeq(s, 1, Len(s) - k)
    IN  CountTransitions(kept) >= AtLeast1(MinTransitions) =>
          LET score == Correlate(s, Shifted(s, k)) IN score[1] = score[2]
=============================================================================
