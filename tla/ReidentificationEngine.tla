---------------------- MODULE ReidentificationEngine -----------------------
(***************************************************************************)
(* The engine that groups reported bursts into clusters, one per suspected *)
(* actor (contrib/livetrace/model/reidentification-engine.cc), fed by      *)
(* completed traces.                                                       *)
(*                                                                         *)
(* The environment detects bursts in time order; each is reported between  *)
(* TraceMin and TraceMax after its detection, so that reports of bursts    *)
(* detected close together arrive in either order.                         *)
(*                                                                         *)
(* Doubles are integers: times and averages in units of 1/Fine, scores in  *)
(* units of 1/Unit.  What the timing correlator returns for a cluster's    *)
(* reference burst and the new one is any of TimingScores, Unit standing   *)
(* for 1.0 and -Unit for its -1 sentinel.                                  *)
(***************************************************************************)
EXTENDS Integers, Sequences, FiniteSetsExt

CONSTANTS
  PeriodPrior,        \* m_cfg.periodPriorS
  Tolerance,          \* m_cfg.periodicityToleranceS
  RelaySets,          \* inputs: relay sets of reported chains
  Fingerprints,       \* inputs: [onDuration, transitions] of bursts
  TimingScores,       \* inputs: results of TimingCorrelator::Correlate
  TraceMin,           \* least delay from detection to report
  TraceMax,           \* greatest delay from detection to report
  MaxTime,            \* bound: last instant
  MaxBursts           \* bound: bursts detected

ASSUME ReidAssumption ==
  /\ PeriodPrior \in Nat \ {0}
  /\ Tolerance \in Nat \ {0}
  /\ TraceMin \in Nat
  /\ TraceMax \in Nat
  /\ TraceMin <= TraceMax
  /\ MaxTime \in Nat
  /\ MaxBursts \in Nat
  /\ \A relays \in RelaySets : IsFiniteSet(relays)
  /\ Fingerprints \subseteq [onDuration : Nat, transitions : Nat]
  /\ TimingScores \subseteq Int

VARIABLES
  now,            \* Simulator::Now()
  inFlight,       \* bursts detected and not yet reported: [trace, detect]
  detected,       \* number of bursts detected
  clusters,       \* m_clusters
  nextClusterId,  \* m_nextClusterId
  log             \* the output lines, in the order they are written

engineVars == <<clusters, nextClusterId, log>>
vars == <<now, inFlight, detected, clusters, nextClusterId, log>>

Fine == 600
Unit == 600
NotEstimated == -1 * Fine

Threshold == 500 * Unit
PeriodicityWeight == 280   \* 0.40 * 0.7, in thousandths
ConvergenceWeight == 120   \* 0.40 * 0.3
TimingWeight == 450
FingerprintWeight == 150

Abs(x) == IF x < 0 THEN -x ELSE x
AtLeast0(x) == IF x < 0 THEN 0 ELSE x
AtMost(x, y) == IF x < y THEN x ELSE y
AtLeast(x, y) == IF x > y THEN x ELSE y

\* std::round of a / b for b > 0: half away from zero.
Round(a, b) ==
  IF a >= 0 THEN (2 * a + b) \div (2 * b) ELSE -((2 * (-a) + b) \div (2 * b))

Init ==
  /\ now = 0
  /\ inFlight = {}
  /\ detected = 0
  /\ clusters = <<>>
  /\ nextClusterId = 0
  /\ log = <<>>

-----------------------------------------------------------------------------
(***************************************************************************)
(* Scoring a burst against a cluster.                                      *)
(***************************************************************************)
Period(c) == IF c.estimate > 0 THEN c.estimate ELSE PeriodPrior * Fine

\* Mutant: no missed bursts are allowed for.
PeriodicityScore_NoMissed(c, detect) ==
  LET diff == Abs((detect - c.lastDetect) * Fine - Period(c))
  IN  AtLeast0(Unit - (diff * Unit) \div (Tolerance * Fine))
PeriodicityScore(c, detect) ==
  LET diff == Min({Abs((detect - c.lastDetect) * Fine - k * Period(c)) : k \in 1..3})
  IN  AtLeast0(Unit - (diff * Unit) \div (Tolerance * Fine))

ConvergenceScore(c, relays) ==
  LET union == relays \cup c.relays
  IN  IF union = {} THEN 0
      ELSE (Cardinality(relays \cap c.relays) * Unit) \div Cardinality(union)

\* 1 - min(1, |x - avg| / max(floor, avg))
Similarity(x, avg, floor) ==
  Unit - AtMost(Unit, (Abs(x * Fine - avg) * Unit) \div AtLeast(floor, avg))

FingerprintScore(c, fp) ==
  (Similarity(fp.onDuration, c.onDurationAvg, Fine \div 2)
     + Similarity(fp.transitions, c.transitionsAvg, Fine)) \div 2

Score(c, b) ==
  PeriodicityWeight * PeriodicityScore(c, b.detect)
    + ConvergenceWeight * ConvergenceScore(c, b.relays)
    + TimingWeight * AtLeast0(b.timing[c.id])
    + FingerprintWeight * FingerprintScore(c, b.fp)

\* The first cluster with the strictly best score.  A score can never be below
\* the initial -1, so that there is one unless there is no cluster.
IsBest(i, b) ==
  \A j \in DOMAIN clusters :
    \/ Score(clusters[i], b) > Score(clusters[j], b)
    \/ Score(clusters[i], b) = Score(clusters[j], b) /\ i <= j

Recognises(i, b) == IsBest(i, b) /\ Score(clusters[i], b) >= Threshold

-----------------------------------------------------------------------------
(***************************************************************************)
(* Joining a cluster and founding one.                                     *)
(***************************************************************************)
\* How many of the cluster's periods the interval spans, at least one.
Periods(c, interval) == AtLeast(1, Round(interval * Fine, Period(c)))

NewEstimate(c, interval) ==
  LET adjusted == (interval * Fine) \div Periods(c, interval)
  IN  IF c.estimate <= 0 THEN adjusted
      ELSE (7 * c.estimate + 3 * adjusted) \div 10

\* Mutant: the average is updated with the count before this member.
NewAverage_StaleCount(avg, x, n) == avg + (x * Fine - avg) \div (n - 1)
NewAverage(avg, x, n) == avg + (x * Fine - avg) \div n

\* Mutant: the relays of the new member replace those seen before.
Joined_ReplacesRelays(c, b) ==
  [c EXCEPT !.estimate = NewEstimate(c, b.detect - c.lastDetect),
            !.lastDetect = b.detect,
            !.memberCount = c.memberCount + 1,
            !.relays = b.relays,
            !.onDurationAvg = NewAverage(@, b.fp.onDuration, c.memberCount + 1),
            !.transitionsAvg = NewAverage(@, b.fp.transitions, c.memberCount + 1)]

\* Mutant: the interval is taken after lastDetectTimeS has been moved.
Joined_StaleInterval(c, b) ==
  [c EXCEPT !.estimate = NewEstimate(c, 0),
            !.lastDetect = b.detect,
            !.memberCount = c.memberCount + 1,
            !.relays = c.relays \cup b.relays,
            !.onDurationAvg = NewAverage(@, b.fp.onDuration, c.memberCount + 1),
            !.transitionsAvg = NewAverage(@, b.fp.transitions, c.memberCount + 1)]

Joined(c, b) ==
  [c EXCEPT !.estimate = NewEstimate(c, b.detect - c.lastDetect),
            !.lastDetect = b.detect,
            !.memberCount = c.memberCount + 1,
            !.relays = c.relays \cup b.relays,
            !.onDurationAvg = NewAverage(@, b.fp.onDuration, c.memberCount + 1),
            !.transitionsAvg = NewAverage(@, b.fp.transitions, c.memberCount + 1)]

Founded(b) ==
  [id |-> nextClusterId, lastDetect |-> b.detect, estimate |-> NotEstimated,
   memberCount |-> 1, relays |-> b.relays, ref |-> b.trace,
   onDurationAvg |-> b.fp.onDuration * Fine,
   transitionsAvg |-> b.fp.transitions * Fine]

LogLine(b, cluster, score) ==
  [trace |-> b.trace, detect |-> b.detect, cluster |-> cluster,
   score |-> score, relays |-> b.relays, fp |-> b.fp]

Join(i, b) ==
  /\ Recognises(i, b)
  /\ clusters' = [clusters EXCEPT ![i] = Joined(@, b)]
  /\ log' = Append(log, LogLine(b, clusters[i].id, Score(clusters[i], b)))
  /\ UNCHANGED nextClusterId

Found(b) ==
  /\ \A i \in DOMAIN clusters : ~Recognises(i, b)
  /\ clusters' = Append(clusters, Founded(b))
  /\ nextClusterId' = nextClusterId + 1
  /\ log' = Append(log, LogLine(b, nextClusterId, -1))

-----------------------------------------------------------------------------
(***************************************************************************)
(* The traceback engine: detections, and reports with the burst's relays,  *)
(* fingerprint and timing score against every cluster.                     *)
(***************************************************************************)
Overdue(t) == now >= t.detect + TraceMax

Detect ==
  /\ detected < MaxBursts
  /\ \A t \in inFlight : t.detect # now
  /\ inFlight' = inFlight \cup {[trace |-> detected, detect |-> now]}
  /\ detected' = detected + 1
  /\ UNCHANGED <<now, engineVars>>

\* A chain of the victim alone names no upstream node and is ignored.
ReportedUnresolved(t) ==
  /\ now >= t.detect + TraceMin
  /\ inFlight' = inFlight \ {t}
  /\ UNCHANGED <<now, detected, engineVars>>

OnTraceComplete(t, b) ==
  /\ now >= t.detect + TraceMin
  /\ inFlight' = inFlight \ {t}
  /\ (\E i \in DOMAIN clusters : Join(i, b)) \/ Found(b)
  /\ UNCHANGED <<now, detected>>

Burst(t, relays, fp, timing) ==
  [trace |-> t.trace, detect |-> t.detect, relays |-> relays, fp |-> fp,
   timing |-> timing]

Tick ==
  /\ now < MaxTime
  /\ \A t \in inFlight : ~Overdue(t)
  /\ now' = now + 1
  /\ UNCHANGED <<inFlight, detected, engineVars>>

Next ==
  \/ Detect
  \/ Tick
  \/ \E t \in inFlight :
       \/ ReportedUnresolved(t)
       \/ \E relays \in RelaySets, fp \in Fingerprints,
             timing \in [0..(nextClusterId - 1) -> TimingScores] :
            OnTraceComplete(t, Burst(t, relays, fp, timing))

Spec == Init /\ [][Next]_vars

-----------------------------------------------------------------------------
(***************************************************************************)
(* Properties.                                                             *)
(***************************************************************************)
Members(c) == {i \in DOMAIN log : log[i].cluster = c.id}

\* Types; a cluster's members never number less than one.
TypeOK ==
  /\ now \in 0..MaxTime
  /\ detected \in 0..MaxBursts
  /\ nextClusterId \in Nat
  /\ \A i \in DOMAIN clusters :
       /\ clusters[i].lastDetect \in 0..MaxTime
       /\ clusters[i].estimate \in Int
       /\ clusters[i].memberCount \in Nat \ {0}
       /\ clusters[i].onDurationAvg \in Nat
       /\ clusters[i].transitionsAvg \in Nat

\* Every reported burst is in exactly one cluster, clusters are numbered in
\* the order they were founded, each counts the bursts logged under it and
\* knows every relay any of them used, in whatever order they were reported.
MembershipAccounts ==
  /\ nextClusterId = Len(clusters)
  /\ \A i \in DOMAIN log : log[i].cluster \in 0..(nextClusterId - 1)
  /\ \A i, j \in DOMAIN log : log[i].trace = log[j].trace => i = j
  /\ \A i \in DOMAIN clusters :
       LET c == clusters[i]
       IN  /\ c.id = i - 1
           /\ c.memberCount = Cardinality(Members(c))
           /\ c.relays = UNION {log[j].relays : j \in Members(c)}

\* An average over n members with this sum of values.  Each update rounds down,
\* by less than the count, which up to six divides Fine and loses nothing.
IsMean(avg, n, sum) ==
  LET lost == Fine * sum - avg * n
  IN  0 <= lost /\ 2 * lost <= n * (n - 1) /\ (n <= 6 => lost = 0)

OnDurations == [j \in DOMAIN log |-> log[j].fp.onDuration]
Transitions == [j \in DOMAIN log |-> log[j].fp.transitions]

\* The running averages of the fingerprint are the means over the members,
\* whatever the order the bursts were reported in.
AveragesAreMeans ==
  \A i \in DOMAIN clusters :
    LET c == clusters[i]
        Sum(f) == MapThenSumSet(LAMBDA j : f[j], Members(c))
    IN  /\ IsMean(c.onDurationAvg, c.memberCount, Sum(OnDurations))
        /\ IsMean(c.transitionsAvg, c.memberCount, Sum(Transitions))

InOrder == \A i, j \in DOMAIN log : i < j => log[i].detect < log[j].detect

\* As long as bursts are reported in the order they were detected, a cluster
\* of two or more has an estimated period and a cluster of one has none.
EstimatedWhenInOrder ==
  InOrder => \A i \in DOMAIN clusters :
    clusters[i].estimate > 0 <=> clusters[i].memberCount >= 2

\* The bursts reported so far could be one strictly periodic actor's: same
\* relays, same fingerprint, one to three periods apart.
OneRegularActor ==
  \A i \in 1..(Len(log) - 1) :
    /\ log[i].relays = log[i + 1].relays /\ log[i].relays # {}
    /\ log[i].fp = log[i + 1].fp
    /\ log[i + 1].detect - log[i].detect \in {k * PeriodPrior : k \in 1..3}

\* A strictly periodic actor on a stable path is never split, though bursts
\* are missed in between and the timing correlation is of no help at all.
PeriodicActorNotSplit == OneRegularActor => Len(clusters) <= 1

\* reidentification-engine.h:74 says of the period estimate that a value of
\* zero or less means not yet estimated: a cluster that has been joined,
\* and hence has an estimate, holds a positive one.
JoinedClusterIsEstimated ==
  \A i \in DOMAIN clusters :
    clusters[i].memberCount >= 2 => clusters[i].estimate > 0
=============================================================================
