-------------------- MODULE ReidentificationEngine_proofs -------------------
(***************************************************************************)
(* Proofs about the re-identification engine, for every number of bursts,  *)
(* every order of reports, and every period, tolerance and timing score.   *)
(***************************************************************************)
EXTENDS ReidentificationEngine, NaturalNumbers

-----------------------------------------------------------------------------
(***************************************************************************)
(* Shapes.                                                                 *)
(***************************************************************************)
Fingerprint == [onDuration : Nat, transitions : Nat]
RelaySet == {S \in SUBSET UNION RelaySets : IsFiniteSet(S)}
Trace == [trace : Nat, detect : Nat]
Cluster ==
  [id : Nat, lastDetect : Nat, estimate : Int, memberCount : Nat \ {0},
   relays : RelaySet, ref : Nat, onDurationAvg : Nat, transitionsAvg : Nat]
Line ==
  [trace : Nat, detect : Nat, cluster : Nat, score : Int, relays : RelaySet,
   fp : Fingerprint]

Shape ==
  /\ now \in Nat
  /\ detected \in Nat
  /\ nextClusterId \in Nat
  /\ inFlight \subseteq Trace
  /\ clusters \in Seq(Cluster)
  /\ log \in Seq(Line)
  /\ nextClusterId = Len(clusters)
  /\ \A i \in DOMAIN clusters : clusters[i].id = i - 1

\* What is known of a reported burst.
IsBurst(b) ==
  /\ b.trace \in Nat
  /\ b.detect \in Nat
  /\ b.relays \in RelaySets
  /\ b.fp \in Fingerprint
  /\ b.timing \in [0..(nextClusterId - 1) -> Int]

LEMMA BurstShape ==
  ASSUME NEW t \in Trace, NEW relays \in RelaySets, NEW fp \in Fingerprints,
         NEW timing \in [0..(nextClusterId - 1) -> TimingScores]
  PROVE  IsBurst(Burst(t, relays, fp, timing))
BY ReidAssumption DEF IsBurst, Burst, Trace, Fingerprint

LEMMA RoundIsInt ==
  ASSUME NEW a \in Int, NEW b \in Nat \ {0}
  PROVE  Round(a, b) \in Int
BY DEF Round

LEMMA PeriodIsPositive ==
  ASSUME NEW c \in Cluster
  PROVE  Period(c) \in Nat \ {0}
BY ReidAssumption DEF Period, Cluster, Fine

LEMMA PeriodsArePositive ==
  ASSUME NEW c \in Cluster, NEW interval \in Int
  PROVE  Periods(c, interval) \in Nat \ {0}
<1>1. Round(interval * Fine, Period(c)) \in Int
  BY PeriodIsPositive, RoundIsInt DEF Fine
<1> QED BY <1>1 DEF Periods, AtLeast

LEMMA NewEstimateIsInt ==
  ASSUME NEW c \in Cluster, NEW interval \in Int
  PROVE  NewEstimate(c, interval) \in Int
<1> DEFINE adjusted == (interval * Fine) \div Periods(c, interval)
<1>1. adjusted \in Int
  BY PeriodsArePositive DEF Fine
<1>2. c.estimate \in Int
  BY DEF Cluster
<1> HIDE DEF adjusted
<1>3. (7 * c.estimate + 3 * adjusted) \div 10 \in Int
  BY <1>1, <1>2
<1> QED BY <1>1, <1>3 DEF NewEstimate, adjusted

LEMMA NewAverageIsNat ==
  ASSUME NEW avg \in Nat, NEW x \in Nat, NEW n \in Nat \ {0}
  PROVE  NewAverage(avg, x, n) \in Nat
<1> DEFINE q == (x * Fine - avg) \div n
<1>1. x * Fine - avg \in Int /\ -avg <= x * Fine - avg
  BY DEF Fine
<1>2. q \in Int /\ x * Fine - avg < n * q + n
  BY <1>1
<1> HIDE DEF q
<1>3. ASSUME q <= -avg - 1 PROVE FALSE
  <2>1. n * (q + 1) <= n * (-avg)
    BY <1>2, <1>3
  <2>2. n * (q + 1) = n * q + n /\ n * (-avg) = -(n * avg)
    BY <1>2
  <2>3. n * avg >= avg /\ n * avg \in Nat
    OBVIOUS
  <2> QED BY <1>1, <1>2, <2>1, <2>2, <2>3
<1>4. avg + q \in Nat
  BY <1>2, <1>3
<1> QED BY <1>4 DEF NewAverage, q

LEMMA JoinedShape ==
  ASSUME NEW c \in Cluster, NEW b, IsBurst(b)
  PROVE  /\ Joined(c, b) \in Cluster
         /\ Joined(c, b).id = c.id
         /\ Joined(c, b).lastDetect = b.detect
         /\ Joined(c, b).memberCount = c.memberCount + 1
         /\ Joined(c, b).relays = c.relays \cup b.relays
         /\ Joined(c, b).estimate = NewEstimate(c, b.detect - c.lastDetect)
         /\ Joined(c, b).onDurationAvg
              = NewAverage(c.onDurationAvg, b.fp.onDuration, c.memberCount + 1)
         /\ Joined(c, b).transitionsAvg
              = NewAverage(c.transitionsAvg, b.fp.transitions, c.memberCount + 1)
<1> DEFINE e == NewEstimate(c, b.detect - c.lastDetect)
           o == NewAverage(c.onDurationAvg, b.fp.onDuration, c.memberCount + 1)
           t == NewAverage(c.transitionsAvg, b.fp.transitions, c.memberCount + 1)
           r == c.relays \cup b.relays
<1>1. /\ c.lastDetect \in Nat /\ c.memberCount + 1 \in Nat \ {0}
      /\ c.onDurationAvg \in Nat /\ c.transitionsAvg \in Nat
      /\ c.relays \in RelaySet
  BY DEF Cluster
<1>2. /\ b.detect \in Nat /\ b.fp.onDuration \in Nat /\ b.fp.transitions \in Nat
      /\ b.relays \in RelaySet
  BY ReidAssumption DEF IsBurst, Fingerprint, RelaySet
<1>3. e \in Int
  BY <1>1, <1>2, NewEstimateIsInt
<1>4. o \in Nat
  BY <1>1, <1>2, NewAverageIsNat
<1>5. t \in Nat
  BY <1>1, <1>2, NewAverageIsNat
<1>6. r \in RelaySet
  BY <1>1, <1>2, FS_Union DEF RelaySet
<1>7. Joined(c, b)
        = [c EXCEPT !.estimate = e, !.lastDetect = b.detect,
                    !.memberCount = c.memberCount + 1, !.relays = r,
                    !.onDurationAvg = o, !.transitionsAvg = t]
  BY DEF Joined, Cluster
<1> HIDE DEF e, o, t, r
<1>8. /\ Joined(c, b) \in Cluster
      /\ Joined(c, b).id = c.id
      /\ Joined(c, b).lastDetect = b.detect
      /\ Joined(c, b).memberCount = c.memberCount + 1
      /\ Joined(c, b).relays = r
      /\ Joined(c, b).estimate = e
      /\ Joined(c, b).onDurationAvg = o
      /\ Joined(c, b).transitionsAvg = t
  BY <1>1, <1>2, <1>3, <1>4, <1>5, <1>6, <1>7 DEF Cluster
<1> QED
  BY <1>8 DEF e, o, t, r

LEMMA FoundedShape ==
  ASSUME NEW b, IsBurst(b), nextClusterId \in Nat
  PROVE  /\ Founded(b) \in Cluster
         /\ Founded(b).id = nextClusterId
         /\ Founded(b).lastDetect = b.detect
         /\ Founded(b).estimate = NotEstimated
         /\ Founded(b).memberCount = 1
         /\ Founded(b).relays = b.relays
         /\ Founded(b).onDurationAvg = b.fp.onDuration * Fine
         /\ Founded(b).transitionsAvg = b.fp.transitions * Fine
<1>1. /\ b.trace \in Nat /\ b.detect \in Nat
      /\ b.fp.onDuration \in Nat /\ b.fp.transitions \in Nat
      /\ b.relays \in RelaySet
  BY ReidAssumption DEF IsBurst, Fingerprint, RelaySet
<1>2. /\ NotEstimated \in Int
      /\ b.fp.onDuration * Fine \in Nat /\ b.fp.transitions * Fine \in Nat
  BY <1>1 DEF NotEstimated, Fine
<1> QED
  BY <1>1, <1>2 DEF Founded, Cluster

-----------------------------------------------------------------------------
(***************************************************************************)
(* Scores.                                                                 *)
(***************************************************************************)
\* Min of three integers is the least of them.
LEMMA MinOfThree ==
  ASSUME NEW x \in Int, NEW y \in Int, NEW z \in Int
  PROVE  /\ Min({x, y, z}) \in {x, y, z}
         /\ Min({x, y, z}) <= x /\ Min({x, y, z}) <= y /\ Min({x, y, z}) <= z
<1>1. \E m \in {x, y, z} : \A n \in {x, y, z} : m <= n
  <2>1. CASE x <= y /\ x <= z
    BY <2>1
  <2>2. CASE y <= x /\ y <= z
    BY <2>2
  <2>3. CASE z <= x /\ z <= y
    BY <2>3
  <2> QED BY <2>1, <2>2, <2>3
<1> QED BY <1>1 DEF Min

\* How far the gap is from k periods.
Deviation(c, detect, k) == Abs((detect - c.lastDetect) * Fine - k * Period(c))

LEMMA PeriodicityScoreIsInt ==
  ASSUME NEW c \in Cluster, NEW detect \in Nat
  PROVE  /\ PeriodicityScore(c, detect) \in Nat
         /\ \A k \in 1..3 :
              Deviation(c, detect, k) = 0 => PeriodicityScore(c, detect) = Unit
<1> DEFINE d1 == Deviation(c, detect, 1)
           d2 == Deviation(c, detect, 2)
           d3 == Deviation(c, detect, 3)
           diff == Min({d1, d2, d3})
<1>1. \A k \in 1..3 : Deviation(c, detect, k) \in Nat
  <2>1. c.lastDetect \in Nat
    BY DEF Cluster
  <2> TAKE k \in 1..3
  <2>2. k * Period(c) \in Int
    BY PeriodIsPositive
  <2> QED BY <2>1, <2>2 DEF Deviation, Abs, Fine
<1>2. d1 \in Nat /\ d2 \in Nat /\ d3 \in Nat
  BY <1>1
<1>3. {Deviation(c, detect, k) : k \in 1..3} = {d1, d2, d3}
  OBVIOUS
<1>4. PeriodicityScore(c, detect)
        = AtLeast0(Unit - (diff * Unit) \div (Tolerance * Fine))
  BY <1>3 DEF PeriodicityScore, Deviation
<1>5. \A k \in 1..3 : Deviation(c, detect, k) = 0 => d1 = 0 \/ d2 = 0 \/ d3 = 0
  OBVIOUS
<1> HIDE DEF d1, d2, d3
<1>6. diff \in {d1, d2, d3} /\ diff <= d1 /\ diff <= d2 /\ diff <= d3
  BY <1>2, MinOfThree
<1> HIDE DEF diff
<1>7. PeriodicityScore(c, detect) \in Nat
  BY <1>2, <1>4, <1>6, ReidAssumption DEF AtLeast0, Unit, Fine
<1>8. ASSUME NEW k \in 1..3, Deviation(c, detect, k) = 0
      PROVE  PeriodicityScore(c, detect) = Unit
  <2>1. diff = 0
    BY <1>2, <1>5, <1>6, <1>8
  <2>2. (diff * Unit) \div (Tolerance * Fine) = 0
    BY <2>1, ReidAssumption DEF Unit, Fine
  <2> QED BY <1>4, <2>2 DEF AtLeast0, Unit
<1> QED BY <1>7, <1>8

LEMMA ConvergenceScoreIsInt ==
  ASSUME NEW c \in Cluster, NEW relays \in RelaySet
  PROVE  /\ ConvergenceScore(c, relays) \in Nat
         /\ c.relays = relays /\ relays # {} => ConvergenceScore(c, relays) = Unit
<1> DEFINE union == relays \cup c.relays
           common == relays \cap c.relays
<1>1. c.relays \in RelaySet
  BY DEF Cluster
<1>2. IsFiniteSet(union) /\ IsFiniteSet(common)
  BY <1>1, FS_Union, FS_Subset DEF RelaySet
<1>3. Cardinality(union) \in Nat /\ Cardinality(common) \in Nat
  BY <1>2, FS_CardinalityType
<1>4. union # {} => Cardinality(union) # 0
  BY <1>2, FS_EmptySet
<1>5. ConvergenceScore(c, relays)
        = IF union = {} THEN 0
          ELSE (Cardinality(common) * Unit) \div Cardinality(union)
  BY DEF ConvergenceScore
<1>6. ConvergenceScore(c, relays) \in Nat
  BY <1>3, <1>4, <1>5 DEF Unit
<1>7. ASSUME c.relays = relays, relays # {}
      PROVE  ConvergenceScore(c, relays) = Unit
  <2>1. union = relays /\ common = relays
    BY <1>7
  <2>2. ASSUME NEW n \in Nat \ {0} PROVE (n * 600) \div n = 600
    OBVIOUS
  <2> QED BY <1>3, <1>4, <1>5, <1>7, <2>1, <2>2 DEF Unit
<1> QED BY <1>6, <1>7

LEMMA SimilarityIsInt ==
  ASSUME NEW x \in Nat, NEW avg \in Int, NEW floor \in Nat \ {0}
  PROVE  /\ Similarity(x, avg, floor) \in Nat
         /\ avg = x * Fine => Similarity(x, avg, floor) = Unit
<1> DEFINE scale == AtLeast(floor, avg)
           distance == Abs(x * Fine - avg)
<1>1. scale \in Nat \ {0}
  BY DEF AtLeast
<1>2. distance \in Nat
  BY DEF Abs, Fine
<1>3. Similarity(x, avg, floor) = Unit - AtMost(Unit, (distance * Unit) \div scale)
  BY DEF Similarity
<1>4. avg = x * Fine => distance = 0
  BY DEF Abs, Fine
<1> HIDE DEF scale, distance
<1>5. (distance * Unit) \div scale \in Nat
  BY <1>1, <1>2 DEF Unit
<1>6. distance = 0 => (distance * Unit) \div scale = 0
  BY <1>1 DEF Unit
<1> QED BY <1>3, <1>4, <1>5, <1>6 DEF AtMost, Unit

LEMMA FingerprintScoreIsInt ==
  ASSUME NEW c \in Cluster, NEW fp \in Fingerprint
  PROVE  /\ FingerprintScore(c, fp) \in Nat
         /\ /\ c.onDurationAvg = fp.onDuration * Fine
            /\ c.transitionsAvg = fp.transitions * Fine
            => FingerprintScore(c, fp) = Unit
<1> DEFINE s1 == Similarity(fp.onDuration, c.onDurationAvg, Fine \div 2)
           s2 == Similarity(fp.transitions, c.transitionsAvg, Fine)
<1>1. /\ fp.onDuration \in Nat /\ fp.transitions \in Nat
      /\ c.onDurationAvg \in Int /\ c.transitionsAvg \in Int
  BY DEF Fingerprint, Cluster
<1>2. Fine \in Nat \ {0} /\ Fine \div 2 \in Nat \ {0}
  BY DEF Fine
<1>3. s1 \in Nat /\ (c.onDurationAvg = fp.onDuration * Fine => s1 = Unit)
  BY <1>1, <1>2, SimilarityIsInt
<1>4. s2 \in Nat /\ (c.transitionsAvg = fp.transitions * Fine => s2 = Unit)
  BY <1>1, <1>2, SimilarityIsInt
<1>5. FingerprintScore(c, fp) = (s1 + s2) \div 2
  BY DEF FingerprintScore
<1> HIDE DEF s1, s2
<1> QED BY <1>3, <1>4, <1>5 DEF Unit

\* A burst's score against a cluster, and the least it can be when period,
\* relays and fingerprint match exactly: the threshold, whatever the timing.
LEMMA ScoreIsInt ==
  ASSUME NEW c \in Cluster, NEW b, IsBurst(b), c.id \in 0..(nextClusterId - 1)
  PROVE  /\ Score(c, b) \in Int
         /\ /\ PeriodicityScore(c, b.detect) = Unit
            /\ ConvergenceScore(c, b.relays) = Unit
            /\ FingerprintScore(c, b.fp) = Unit
            => Score(c, b) >= Threshold
<1> DEFINE p == PeriodicityScore(c, b.detect)
           v == ConvergenceScore(c, b.relays)
           f == FingerprintScore(c, b.fp)
           m == AtLeast0(b.timing[c.id])
<1>1. p \in Nat
  BY PeriodicityScoreIsInt DEF IsBurst
<1>2. v \in Nat
  BY ConvergenceScoreIsInt, ReidAssumption DEF IsBurst, RelaySet
<1>3. f \in Nat
  BY FingerprintScoreIsInt DEF IsBurst
<1>4. m \in Nat
  <2>1. b.timing[c.id] \in Int
    BY DEF IsBurst
  <2> QED BY <2>1 DEF AtLeast0
<1>5. Score(c, b) = PeriodicityWeight * p + ConvergenceWeight * v
                      + TimingWeight * m + FingerprintWeight * f
  BY DEF Score
<1> HIDE DEF p, v, f, m
<1>6. Score(c, b) \in Int
  BY <1>1, <1>2, <1>3, <1>4, <1>5
     DEF PeriodicityWeight, ConvergenceWeight, TimingWeight, FingerprintWeight
<1>7. p = Unit /\ v = Unit /\ f = Unit => Score(c, b) >= Threshold
  BY <1>4, <1>5
     DEF PeriodicityWeight, ConvergenceWeight, TimingWeight, FingerprintWeight,
         Unit, Threshold
<1> QED BY <1>6, <1>7 DEF p, v, f

-----------------------------------------------------------------------------
(***************************************************************************)
(* What a report does.                                                     *)
(***************************************************************************)
\* A burst that joins cluster i is logged under that cluster's number.
LEMMA JoinStep ==
  ASSUME Shape, NEW b, IsBurst(b), NEW i \in DOMAIN clusters, Join(i, b)
  PROVE  /\ clusters' = [clusters EXCEPT ![i] = Joined(clusters[i], b)]
         /\ clusters' \in Seq(Cluster)
         /\ Len(clusters') = Len(clusters)
         /\ DOMAIN clusters' = DOMAIN clusters
         /\ \A k \in DOMAIN clusters : clusters'[k].id = clusters[k].id
         /\ nextClusterId' = nextClusterId
         /\ \E l \in Line :
              /\ log' = Append(log, l)
              /\ l.trace = b.trace /\ l.detect = b.detect
              /\ l.relays = b.relays /\ l.fp = b.fp
              /\ l.cluster = clusters[i].id
<1> DEFINE c == clusters[i]
           j == Joined(c, b)
           l == LogLine(b, c.id, Score(c, b))
<1>1. c \in Cluster /\ c.id \in 0..(nextClusterId - 1)
  <2>1. i \in 1..Len(clusters) /\ c.id = i - 1 /\ nextClusterId = Len(clusters)
    BY DEF Shape
  <2>2. c \in Cluster
    BY DEF Shape
  <2> QED BY <2>1, <2>2 DEF Shape
<1>2. j \in Cluster /\ j.id = c.id
  BY <1>1, JoinedShape
<1>3. Score(c, b) \in Int
  BY <1>1, ScoreIsInt
<1>4. b.relays \in RelaySet
  BY ReidAssumption DEF IsBurst, RelaySet
<1>5. l \in Line
  BY <1>1, <1>3, <1>4 DEF LogLine, Line, IsBurst
<1>6. clusters' = [clusters EXCEPT ![i] = j] /\ log' = Append(log, l)
      /\ nextClusterId' = nextClusterId
  BY DEF Join
<1>7. l.trace = b.trace /\ l.detect = b.detect /\ l.relays = b.relays
      /\ l.fp = b.fp /\ l.cluster = c.id
  BY DEF LogLine
<1> HIDE DEF j, l
<1>8. /\ clusters' \in Seq(Cluster)
      /\ Len(clusters') = Len(clusters)
      /\ DOMAIN clusters' = DOMAIN clusters
      /\ \A k \in DOMAIN clusters : clusters'[k].id = clusters[k].id
  BY <1>2, <1>6 DEF Shape
<1> QED BY <1>5, <1>6, <1>7, <1>8 DEF j

\* A burst that founds a cluster is logged under the next number.
LEMMA FoundStep ==
  ASSUME Shape, NEW b, IsBurst(b), Found(b)
  PROVE  /\ clusters' = Append(clusters, Founded(b))
         /\ clusters' \in Seq(Cluster)
         /\ Len(clusters') = Len(clusters) + 1
         /\ nextClusterId' = Len(clusters')
         /\ \A k \in DOMAIN clusters' : clusters'[k].id = k - 1
         /\ \E l \in Line :
              /\ log' = Append(log, l)
              /\ l.trace = b.trace /\ l.detect = b.detect
              /\ l.relays = b.relays /\ l.fp = b.fp
              /\ l.cluster = nextClusterId
<1> DEFINE l == LogLine(b, nextClusterId, -1)
           f == Founded(b)
<1>1. f \in Cluster /\ f.id = nextClusterId
  BY FoundedShape DEF Shape
<1>2. b.relays \in RelaySet
  BY ReidAssumption DEF IsBurst, RelaySet
<1>3. l \in Line
  BY <1>2 DEF LogLine, Line, IsBurst, Shape
<1>4. clusters' = Append(clusters, f) /\ log' = Append(log, l)
      /\ nextClusterId' = nextClusterId + 1
  BY DEF Found
<1>5. l.trace = b.trace /\ l.detect = b.detect /\ l.relays = b.relays
      /\ l.fp = b.fp /\ l.cluster = nextClusterId
  BY DEF LogLine
<1> HIDE DEF f, l
<1>6. /\ clusters' \in Seq(Cluster)
      /\ Len(clusters') = Len(clusters) + 1
      /\ nextClusterId' = Len(clusters')
      /\ \A k \in DOMAIN clusters' : clusters'[k].id = k - 1
  BY <1>1, <1>4 DEF Shape
<1> QED BY <1>3, <1>4, <1>5, <1>6 DEF f

\* Every step but a report leaves the engine alone.
LEMMA Steps ==
  ASSUME Shape, [Next]_vars
  PROVE  \/ UNCHANGED vars
         \/ Detect
         \/ Tick
         \/ \E t \in inFlight : ReportedUnresolved(t)
         \/ \E t \in inFlight : \E b :
              /\ OnTraceComplete(t, b) /\ IsBurst(b)
              /\ b.trace = t.trace /\ b.detect = t.detect
<1>1. ASSUME NEW t \in inFlight, NEW relays \in RelaySets, NEW fp \in Fingerprints,
             NEW timing \in [0..(nextClusterId - 1) -> TimingScores],
             OnTraceComplete(t, Burst(t, relays, fp, timing))
      PROVE  \E b : /\ OnTraceComplete(t, b) /\ IsBurst(b)
                    /\ b.trace = t.trace /\ b.detect = t.detect
  <2>1. t \in Trace
    BY DEF Shape
  <2>2. IsBurst(Burst(t, relays, fp, timing))
    BY <2>1, BurstShape
  <2>3. /\ Burst(t, relays, fp, timing).trace = t.trace
        /\ Burst(t, relays, fp, timing).detect = t.detect
    BY DEF Burst
  <2> QED BY <1>1, <2>2, <2>3
<1> QED BY <1>1 DEF Next

LEMMA ShapeStep ==
  ASSUME Shape, [Next]_vars
  PROVE  Shape'
<1>1. CASE UNCHANGED vars
  BY <1>1 DEF vars, engineVars, Shape
<1>2. CASE Detect
  <2>1. [trace |-> detected, detect |-> now] \in Trace
    BY DEF Shape, Trace
  <2> QED BY <1>2, <2>1 DEF Detect, engineVars, Shape
<1>3. CASE Tick
  BY <1>3 DEF Tick, engineVars, Shape
<1>4. ASSUME NEW t \in inFlight, ReportedUnresolved(t)
      PROVE  Shape'
  BY <1>4 DEF ReportedUnresolved, engineVars, Shape
<1>5. ASSUME NEW t \in inFlight, NEW b, OnTraceComplete(t, b), IsBurst(b)
      PROVE  Shape'
  <2>1. /\ now' = now /\ detected' = detected /\ inFlight' \subseteq inFlight
        /\ (\E i \in DOMAIN clusters : Join(i, b)) \/ Found(b)
    BY <1>5 DEF OnTraceComplete
  <2>2. ASSUME NEW i \in DOMAIN clusters, Join(i, b)
        PROVE  Shape'
    <3>1. /\ clusters' \in Seq(Cluster) /\ nextClusterId' = nextClusterId
          /\ Len(clusters') = Len(clusters) /\ DOMAIN clusters' = DOMAIN clusters
          /\ \A k \in DOMAIN clusters : clusters'[k].id = clusters[k].id
          /\ \E l \in Line : log' = Append(log, l)
      BY <1>5, <2>2, JoinStep
    <3>2. log' \in Seq(Line)
      BY <3>1 DEF Shape
    <3> QED BY <2>1, <3>1, <3>2 DEF Shape
  <2>3. ASSUME Found(b)
        PROVE  Shape'
    <3>1. /\ clusters' \in Seq(Cluster) /\ nextClusterId' = Len(clusters')
          /\ \A k \in DOMAIN clusters' : clusters'[k].id = k - 1
          /\ \E l \in Line : log' = Append(log, l)
      BY <1>5, <2>3, FoundStep
    <3>2. log' \in Seq(Line) /\ Len(clusters') \in Nat
      BY <3>1 DEF Shape
    <3> QED BY <2>1, <3>1, <3>2 DEF Shape
  <2> QED BY <2>1, <2>2, <2>3
<1> QED BY <1>1, <1>2, <1>3, <1>4, <1>5, Steps

LEMMA ShapeAlways == Spec => []Shape
<1>1. Init => Shape
  BY DEF Init, Shape
<1>2. Shape /\ [Next]_vars => Shape'
  BY ShapeStep
<1> QED BY <1>1, <1>2, PTL DEF Spec

\* Nothing is detected in the future.
Dated ==
  /\ now <= MaxTime
  /\ detected <= MaxBursts
  /\ \A t \in inFlight : t.detect <= now
  /\ \A i \in DOMAIN clusters : clusters[i].lastDetect <= now

LEMMA DatedStep ==
  ASSUME Shape, Dated, [Next]_vars
  PROVE  Dated'
<1>1. now \in Nat /\ detected \in Nat
  BY DEF Shape
<1>2. CASE UNCHANGED vars
  BY <1>2 DEF vars, engineVars, Dated
<1>3. CASE Detect
  <2>1. [trace |-> detected, detect |-> now].detect <= now
    BY <1>1
  <2>2. detected + 1 <= MaxBursts
    BY <1>1, <1>3, ReidAssumption DEF Detect
  <2>3. \A t \in inFlight' : t.detect <= now
    BY <1>3, <2>1 DEF Detect, Dated
  <2> QED BY <1>3, <2>2, <2>3 DEF Detect, engineVars, Dated
<1>4. CASE Tick
  <2>1. now + 1 <= MaxTime
    BY <1>1, <1>4, ReidAssumption DEF Tick
  <2>2. \A t \in inFlight : t \in Trace
    BY DEF Shape
  <2>3. \A t \in inFlight : t.detect <= now + 1
    BY <1>1, <2>2 DEF Dated, Trace
  <2>4. \A i \in DOMAIN clusters : clusters[i] \in Cluster
    BY DEF Shape
  <2>5. \A i \in DOMAIN clusters : clusters[i].lastDetect <= now + 1
    BY <1>1, <2>4 DEF Dated, Cluster
  <2> QED BY <1>4, <2>1, <2>3, <2>5 DEF Tick, engineVars, Dated
<1>5. ASSUME NEW t \in inFlight, ReportedUnresolved(t)
      PROVE  Dated'
  BY <1>5 DEF ReportedUnresolved, engineVars, Dated
<1>6. ASSUME NEW t \in inFlight, NEW b, OnTraceComplete(t, b), IsBurst(b),
             b.detect = t.detect
      PROVE  Dated'
  <2>1. /\ now' = now /\ detected' = detected /\ inFlight' \subseteq inFlight
        /\ (\E i \in DOMAIN clusters : Join(i, b)) \/ Found(b)
    BY <1>6 DEF OnTraceComplete
  <2>2. b.detect <= now
    BY <1>6 DEF Dated
  <2>3. ASSUME NEW i \in DOMAIN clusters, Join(i, b), NEW k \in DOMAIN clusters'
        PROVE  clusters'[k].lastDetect <= now
    <3>1. /\ clusters' = [clusters EXCEPT ![i] = Joined(clusters[i], b)]
          /\ DOMAIN clusters' = DOMAIN clusters
      BY <1>6, <2>3, JoinStep
    <3>2. clusters[i] \in Cluster
      BY DEF Shape
    <3>3. Joined(clusters[i], b).lastDetect = b.detect
      BY <1>6, <3>2, JoinedShape
    <3> QED BY <2>2, <3>1, <3>3 DEF Dated
  <2>4. ASSUME Found(b), NEW k \in DOMAIN clusters'
        PROVE  clusters'[k].lastDetect <= now
    <3>1. clusters' = Append(clusters, Founded(b))
      BY <1>6, <2>4, FoundStep
    <3>2. Founded(b).lastDetect = b.detect
      BY <1>6, FoundedShape DEF Shape
    <3>3. \/ k \in DOMAIN clusters /\ clusters'[k] = clusters[k]
          \/ clusters'[k] = Founded(b)
      BY <2>4, <3>1 DEF Shape
    <3> QED BY <2>2, <3>2, <3>3 DEF Dated
  <2>5. \A k \in DOMAIN clusters' : clusters'[k].lastDetect <= now'
    BY <2>1, <2>3, <2>4
  <2> QED BY <2>1, <2>5 DEF Dated
<1> QED BY <1>2, <1>3, <1>4, <1>5, <1>6, Steps

\* The types of the engine's state: averages never go below zero, counts
\* never fall to it, estimates are integers, and a cluster was last seen at an
\* instant of the run.
THEOREM TypeCorrect == Spec => []TypeOK
<1>1. Init => Shape /\ Dated
  BY ReidAssumption DEF Init, Shape, Dated
<1>2. Shape /\ Dated /\ [Next]_vars => Dated'
  BY DatedStep
<1>3. Shape /\ Dated => TypeOK
  <2> SUFFICES ASSUME Shape, Dated PROVE TypeOK
    OBVIOUS
  <2>1. \A i \in DOMAIN clusters : clusters[i] \in Cluster
    BY DEF Shape
  <2>2. now \in 0..MaxTime /\ detected \in 0..MaxBursts /\ nextClusterId \in Nat
    BY ReidAssumption DEF Shape, Dated
  <2>3. \A i \in DOMAIN clusters :
          /\ clusters[i].lastDetect \in Nat
          /\ clusters[i].estimate \in Int
          /\ clusters[i].memberCount \in Nat \ {0}
          /\ clusters[i].onDurationAvg \in Nat
          /\ clusters[i].transitionsAvg \in Nat
    BY <2>1 DEF Cluster
  <2>4. \A i \in DOMAIN clusters : clusters[i].lastDetect \in 0..MaxTime
    BY <2>2, <2>3, ReidAssumption DEF Dated
  <2> QED BY <2>2, <2>3, <2>4 DEF TypeOK
<1> QED BY <1>1, <1>2, <1>3, ShapeAlways, PTL DEF Spec

-----------------------------------------------------------------------------
(***************************************************************************)
(* Membership.  The counts of a cluster say that a new line is filed under *)
(* exactly one cluster and repeats no earlier trace, which holds because a *)
(* trace is reported once and cluster numbers are never reused.            *)
(***************************************************************************)
ReportedOnce ==
  /\ \A t \in inFlight : t.trace < detected
  /\ \A t, u \in inFlight : t.trace = u.trace => t = u
  /\ \A i \in DOMAIN log : log[i].trace < detected
  /\ \A i \in DOMAIN log : \A t \in inFlight : log[i].trace # t.trace
  /\ \A i, j \in DOMAIN log : log[i].trace = log[j].trace => i = j

Filed == \A i \in DOMAIN log : log[i].cluster < nextClusterId

\* The lines filed under cluster i, which its record summarises.
Lines(i) == {j \in DOMAIN log : log[j].cluster = i - 1}

Summarised(i) ==
  /\ clusters[i].memberCount = Cardinality(Lines(i))
  /\ clusters[i].relays = UNION {log[j].relays : j \in Lines(i)}
  /\ \E j \in Lines(i) : log[j].detect = clusters[i].lastDetect

Accounts ==
  /\ Shape
  /\ ReportedOnce
  /\ Filed
  /\ \A i \in DOMAIN clusters : Summarised(i)

LEMMA LinesAreFinite ==
  ASSUME Shape, NEW i
  PROVE  IsFiniteSet(Lines(i)) /\ Lines(i) \subseteq 1..Len(log)
<1>1. Lines(i) \subseteq 1..Len(log) /\ Len(log) \in Nat
  BY DEF Lines, Shape
<1>2. IsFiniteSet(1..Len(log))
  BY <1>1, FS_Interval
<1> QED BY <1>1, <1>2, FS_Subset

\* A new line is filed under its cluster and under no other.
LEMMA LinesAfter ==
  ASSUME Shape, NEW l \in Line, log' = Append(log, l), NEW i
  PROVE  /\ l.cluster = i - 1 => Lines(i)' = Lines(i) \cup {Len(log) + 1}
         /\ l.cluster # i - 1 => Lines(i)' = Lines(i)
         /\ DOMAIN log' = DOMAIN log \cup {Len(log) + 1}
         /\ Len(log) + 1 \notin DOMAIN log
         /\ \A j \in DOMAIN log : log'[j] = log[j]
         /\ log'[Len(log) + 1] = l
<1>1. /\ Len(log) \in Nat /\ DOMAIN log = 1..Len(log)
      /\ DOMAIN log' = 1..(Len(log) + 1)
      /\ \A j \in DOMAIN log : log'[j] = log[j]
      /\ log'[Len(log) + 1] = l
  BY DEF Shape
<1>2. /\ DOMAIN log' = DOMAIN log \cup {Len(log) + 1}
      /\ Len(log) + 1 \notin DOMAIN log
  BY <1>1
<1> QED BY <1>1, <1>2 DEF Lines

LEMMA UnionWithOneMore ==
  ASSUME NEW S, NEW n, NEW F, NEW G, \A j \in S : G[j] = F[j]
  PROVE  UNION {G[j].relays : j \in S \cup {n}}
           = (UNION {F[j].relays : j \in S}) \cup G[n].relays
<1>1. {G[j].relays : j \in S \cup {n}} = {F[j].relays : j \in S} \cup {G[n].relays}
  OBVIOUS
<1> QED BY <1>1

\* The clusters a report leaves alone keep their lines, hence their summary.
LEMMA UntouchedStaysSummarised ==
  ASSUME Shape, NEW l \in Line, log' = Append(log, l),
         NEW i \in DOMAIN clusters, Summarised(i),
         l.cluster # i - 1, clusters'[i] = clusters[i]
  PROVE  Summarised(i)'
<1>1. Lines(i)' = Lines(i) /\ \A j \in Lines(i) : log'[j] = log[j]
  BY LinesAfter DEF Lines
<1>2. {log'[j].relays : j \in Lines(i)'} = {log[j].relays : j \in Lines(i)}
  BY <1>1
<1>3. \E j \in Lines(i)' : log'[j].detect = clusters'[i].lastDetect
  BY <1>1 DEF Summarised
<1> QED BY <1>1, <1>2, <1>3 DEF Summarised

LEMMA JoinKeepsSummaries ==
  ASSUME Accounts, NEW b, IsBurst(b), NEW i \in DOMAIN clusters, Join(i, b)
  PROVE  \A k \in DOMAIN clusters' : Summarised(k)'
<1> USE DEF Accounts
<1>1. PICK l \in Line : /\ log' = Append(log, l)
                        /\ l.trace = b.trace /\ l.detect = b.detect
                        /\ l.relays = b.relays /\ l.cluster = clusters[i].id
  BY JoinStep
<1>2. /\ clusters' = [clusters EXCEPT ![i] = Joined(clusters[i], b)]
      /\ DOMAIN clusters' = DOMAIN clusters
  BY JoinStep
<1>3. i \in Int /\ l.cluster = i - 1
  BY <1>1 DEF Shape
<1>4. ASSUME NEW k \in DOMAIN clusters, k # i
      PROVE  Summarised(k)'
  <2>1. k \in Int /\ clusters'[k] = clusters[k]
    BY <1>2, <1>4 DEF Shape
  <2> QED BY <1>1, <1>3, <1>4, <2>1, UntouchedStaysSummarised
<1>5. Summarised(i)'
  <2> DEFINE n == Len(log) + 1
             c == clusters[i]
  <2>1. /\ Lines(i)' = Lines(i) \cup {n} /\ n \notin Lines(i)
        /\ \A j \in Lines(i) : log'[j] = log[j]
        /\ log'[n] = l
    BY <1>1, <1>3, LinesAfter DEF Lines
  <2>2. c \in Cluster
    BY DEF Shape
  <2>3. /\ clusters'[i] = Joined(c, b)
        /\ clusters'[i].memberCount = c.memberCount + 1
        /\ clusters'[i].relays = c.relays \cup b.relays
        /\ clusters'[i].lastDetect = b.detect
    BY <1>2, <2>2, JoinedShape DEF Shape
  <2> HIDE DEF n
  <2>4. Cardinality(Lines(i)') = Cardinality(Lines(i)) + 1
    BY <2>1, LinesAreFinite, FS_AddElement
  <2>5. UNION {log'[j].relays : j \in Lines(i) \cup {n}}
          = (UNION {log[j].relays : j \in Lines(i)}) \cup log'[n].relays
    BY <2>1, UnionWithOneMore
  <2>6. UNION {log'[j].relays : j \in Lines(i)'}
          = (UNION {log[j].relays : j \in Lines(i)}) \cup b.relays
    BY <1>1, <2>1, <2>5
  <2>7. \E j \in Lines(i)' : log'[j].detect = clusters'[i].lastDetect
    BY <1>1, <2>1, <2>3
  <2>8. /\ c.memberCount = Cardinality(Lines(i))
        /\ c.relays = UNION {log[j].relays : j \in Lines(i)}
    BY DEF Summarised
  <2>9. clusters'[i].memberCount = Cardinality(Lines(i)')
    BY <2>3, <2>4, <2>8
  <2>10. clusters'[i].relays = UNION {log'[j].relays : j \in Lines(i)'}
    BY <2>3, <2>6, <2>8
  <2> QED BY <2>7, <2>9, <2>10 DEF Summarised
<1> QED BY <1>2, <1>4, <1>5

LEMMA FoundKeepsSummaries ==
  ASSUME Accounts, NEW b, IsBurst(b), Found(b)
  PROVE  \A k \in DOMAIN clusters' : Summarised(k)'
<1> USE DEF Accounts
<1>0. PICK n, i : n = Len(log) + 1 /\ i = Len(clusters) + 1
  OBVIOUS
<1>1. PICK l \in Line : /\ log' = Append(log, l)
                        /\ l.trace = b.trace /\ l.detect = b.detect
                        /\ l.relays = b.relays /\ l.cluster = nextClusterId
  BY FoundStep
<1>2. clusters' = Append(clusters, Founded(b))
  BY FoundStep
<1>3. /\ Founded(b).memberCount = 1 /\ Founded(b).relays = b.relays
      /\ Founded(b).lastDetect = b.detect
  BY FoundedShape DEF Shape
<1>4. i \in Int /\ l.cluster = i - 1
  BY <1>0, <1>1 DEF Shape
<1>5. ASSUME NEW k \in DOMAIN clusters
      PROVE  Summarised(k)'
  <2>1. k \in Int /\ k # i /\ clusters'[k] = clusters[k]
    BY <1>0, <1>2 DEF Shape
  <2> QED BY <1>1, <1>4, <2>1, UntouchedStaysSummarised
<1>6. Summarised(i)'
  <2>1. Lines(i) = {}
    <3>1. \A j \in DOMAIN log : log[j] \in Line
      BY DEF Shape
    <3>2. \A j \in DOMAIN log : log[j].cluster \in Nat
      BY <3>1 DEF Line
    <3>3. \A j \in DOMAIN log : log[j].cluster < i - 1
      BY <1>0 DEF Filed, Shape
    <3> QED BY <1>4, <3>2, <3>3 DEF Lines
  <2>2. Lines(i)' = {n} /\ log'[n] = l
    BY <1>0, <1>1, <1>4, <2>1, LinesAfter
  <2>3. clusters'[i] = Founded(b)
    BY <1>0, <1>2 DEF Shape
  <2>4. Cardinality(Lines(i)') = 1
    <3>1. Cardinality({n}) = 1
      BY FS_Singleton
    <3> QED BY <2>2, <3>1
  <2>5. UNION {log'[j].relays : j \in {} \cup {n}}
          = (UNION {log[j].relays : j \in {}}) \cup log'[n].relays
    BY UnionWithOneMore
  <2>6. UNION {log'[j].relays : j \in Lines(i)'} = b.relays
    BY <1>1, <2>2, <2>5
  <2>7. \E j \in Lines(i)' : log'[j].detect = clusters'[i].lastDetect
    BY <1>1, <1>3, <2>2, <2>3
  <2> QED BY <1>3, <2>3, <2>4, <2>6, <2>7 DEF Summarised
<1>7. DOMAIN clusters' = DOMAIN clusters \cup {i}
  BY <1>0, <1>2 DEF Shape
<1> QED BY <1>5, <1>6, <1>7

\* What a new line for a burst in flight does to the numbering of traces.
LEMMA ReportKeepsOnce ==
  ASSUME Accounts, NEW t \in inFlight, NEW l \in Line, l.trace = t.trace,
         log' = Append(log, l), inFlight' = inFlight \ {t}, detected' = detected
  PROVE  ReportedOnce'
<1>1. PICK n : n = Len(log) + 1
  OBVIOUS
<1>2. /\ DOMAIN log' = DOMAIN log \cup {n} /\ n \notin DOMAIN log
      /\ \A j \in DOMAIN log : log'[j] = log[j]
      /\ log'[n] = l
  BY <1>1, LinesAfter DEF Accounts
<1>3. ReportedOnce
  BY DEF Accounts
<1>4. \A i \in DOMAIN log' :
        \/ i \in DOMAIN log /\ log'[i] = log[i]
        \/ i = n /\ log'[i].trace = t.trace
  BY <1>2
<1>5. \A u \in inFlight' : u \in inFlight /\ u.trace # t.trace
  BY <1>3 DEF ReportedOnce
<1>6. /\ \A u \in inFlight' : u.trace < detected'
      /\ \A u, v \in inFlight' : u.trace = v.trace => u = v
  BY <1>3, <1>5 DEF ReportedOnce
<1>7. \A i \in DOMAIN log' : log'[i].trace < detected'
  BY <1>3, <1>4 DEF ReportedOnce
<1>8. \A i \in DOMAIN log' : \A u \in inFlight' : log'[i].trace # u.trace
  BY <1>3, <1>4, <1>5 DEF ReportedOnce
<1>9. \A i, j \in DOMAIN log' : log'[i].trace = log'[j].trace => i = j
  BY <1>3, <1>4 DEF ReportedOnce
<1> QED BY <1>6, <1>7, <1>8, <1>9 DEF ReportedOnce

LEMMA AccountsStep ==
  ASSUME Accounts, [Next]_vars
  PROVE  Accounts'
<1>1. Shape /\ Shape'
  BY ShapeStep DEF Accounts
<1>2. ASSUME UNCHANGED <<clusters, nextClusterId, log>>
      PROVE  Filed' /\ \A i \in DOMAIN clusters' : Summarised(i)'
  BY <1>2 DEF Accounts, Filed, Summarised, Lines
<1>3. CASE UNCHANGED vars
  <2>1. ReportedOnce'
    BY <1>3 DEF vars, Accounts, ReportedOnce
  <2> QED BY <1>1, <1>2, <1>3, <2>1 DEF vars, Accounts
<1>4. CASE Detect
  <2>1. PICK u : u = [trace |-> detected, detect |-> now]
    OBVIOUS
  <2>2. /\ inFlight' = inFlight \cup {u} /\ detected' = detected + 1
        /\ UNCHANGED <<clusters, nextClusterId, log>>
        /\ u.trace = detected
    BY <1>4, <2>1 DEF Detect, engineVars
  <2>3. /\ detected \in Nat
        /\ \A t \in inFlight : t.trace \in Nat /\ t.trace < detected
        /\ \A i \in DOMAIN log : log[i].trace \in Nat /\ log[i].trace < detected
    <3>1. \A t \in inFlight : t \in Trace
      BY <1>1 DEF Shape
    <3>2. \A i \in DOMAIN log : log[i] \in Line
      BY <1>1 DEF Shape
    <3> QED BY <1>1, <3>1, <3>2 DEF Accounts, ReportedOnce, Shape, Trace, Line
  <2>4. /\ \A t \in inFlight' : t.trace < detected'
        /\ \A i \in DOMAIN log' : log'[i].trace < detected'
    BY <2>2, <2>3
  <2>5. /\ \A t, v \in inFlight' : t.trace = v.trace => t = v
        /\ \A i \in DOMAIN log' : \A t \in inFlight' : log'[i].trace # t.trace
    BY <2>2, <2>3 DEF Accounts, ReportedOnce
  <2>6. \A i, j \in DOMAIN log' : log'[i].trace = log'[j].trace => i = j
    BY <2>2 DEF Accounts, ReportedOnce
  <2>7. ReportedOnce'
    BY <2>4, <2>5, <2>6 DEF ReportedOnce
  <2> QED BY <1>1, <1>2, <2>2, <2>7 DEF Accounts
<1>5. CASE Tick
  <2>1. UNCHANGED <<inFlight, detected, clusters, nextClusterId, log>>
    BY <1>5 DEF Tick, engineVars
  <2>2. ReportedOnce'
    BY <2>1 DEF Accounts, ReportedOnce
  <2> QED BY <1>1, <1>2, <2>1, <2>2 DEF Accounts
<1>6. ASSUME NEW t \in inFlight, ReportedUnresolved(t)
      PROVE  Accounts'
  <2>1. /\ inFlight' \subseteq inFlight
        /\ UNCHANGED <<detected, clusters, nextClusterId, log>>
    BY <1>6 DEF ReportedUnresolved, engineVars
  <2>2. ReportedOnce'
    BY <2>1 DEF Accounts, ReportedOnce
  <2> QED BY <1>1, <1>2, <2>1, <2>2 DEF Accounts
<1>7. ASSUME NEW t \in inFlight, NEW b, OnTraceComplete(t, b), IsBurst(b),
             b.trace = t.trace
      PROVE  Accounts'
  <2>1. /\ inFlight' = inFlight \ {t} /\ detected' = detected
        /\ (\E i \in DOMAIN clusters : Join(i, b)) \/ Found(b)
    BY <1>7 DEF OnTraceComplete
  <2>2. ASSUME NEW i \in DOMAIN clusters, Join(i, b)
        PROVE  Accounts'
    <3>1. PICK l \in Line : /\ log' = Append(log, l) /\ l.trace = b.trace
                            /\ l.cluster = clusters[i].id
      BY <1>1, <1>7, <2>2, JoinStep
    <3>2. ReportedOnce'
      BY <1>7, <2>1, <3>1, ReportKeepsOnce
    <3>3. \A k \in DOMAIN clusters' : Summarised(k)'
      BY <1>7, <2>2, JoinKeepsSummaries
    <3>4. nextClusterId' = nextClusterId /\ l.cluster < nextClusterId
      BY <1>1, <1>7, <2>2, <3>1, JoinStep DEF Shape
    <3>5. Filed'
      BY <1>1, <3>1, <3>4, LinesAfter DEF Accounts, Filed
    <3> QED BY <1>1, <3>2, <3>3, <3>5 DEF Accounts
  <2>3. ASSUME Found(b)
        PROVE  Accounts'
    <3>1. PICK l \in Line : /\ log' = Append(log, l) /\ l.trace = b.trace
                            /\ l.cluster = nextClusterId
      BY <1>1, <1>7, <2>3, FoundStep
    <3>2. ReportedOnce'
      BY <1>7, <2>1, <3>1, ReportKeepsOnce
    <3>3. \A k \in DOMAIN clusters' : Summarised(k)'
      BY <1>7, <2>3, FoundKeepsSummaries
    <3>4. nextClusterId' = nextClusterId + 1
      BY <2>3 DEF Found
    <3>5. \A j \in DOMAIN log : log[j].cluster \in Nat
      <4>1. \A j \in DOMAIN log : log[j] \in Line
        BY <1>1 DEF Shape
      <4> QED BY <4>1 DEF Line
    <3>6. Filed'
      BY <1>1, <3>1, <3>4, <3>5, LinesAfter DEF Accounts, Filed, Shape
    <3> QED BY <1>1, <3>2, <3>3, <3>6 DEF Accounts
  <2> QED BY <2>1, <2>2, <2>3
<1> QED BY <1>1, <1>3, <1>4, <1>5, <1>6, <1>7, Steps

LEMMA AccountsAlways == Spec => []Accounts
<1>1. Init => Accounts
  <2>1. Init => Shape
    BY DEF Init, Shape
  <2> QED BY <2>1 DEF Init, Accounts, ReportedOnce, Filed
<1>2. Accounts /\ [Next]_vars => Accounts'
  BY AccountsStep
<1> QED BY <1>1, <1>2, PTL DEF Spec

\* Every reported burst is in exactly one cluster, numbered in the order of
\* founding, which counts its bursts and knows every relay any of them used.
THEOREM MembershipCorrect == Spec => []MembershipAccounts
<1>1. Accounts => MembershipAccounts
  <2> SUFFICES ASSUME Accounts PROVE MembershipAccounts
    OBVIOUS
  <2>1. /\ nextClusterId = Len(clusters)
        /\ \A i \in DOMAIN clusters : clusters[i].id = i - 1
    BY DEF Accounts, Shape
  <2>2. \A i \in DOMAIN log : log[i].cluster \in 0..(nextClusterId - 1)
    <3>1. \A j \in DOMAIN log : log[j] \in Line
      BY DEF Accounts, Shape
    <3>2. \A j \in DOMAIN log : log[j].cluster \in Nat
      BY <3>1 DEF Line
    <3> QED BY <3>2 DEF Accounts, Filed, Shape
  <2>3. \A i, j \in DOMAIN log : log[i].trace = log[j].trace => i = j
    BY DEF Accounts, ReportedOnce
  <2>4. ASSUME NEW i \in DOMAIN clusters
        PROVE  /\ clusters[i].memberCount = Cardinality(Members(clusters[i]))
               /\ clusters[i].relays = UNION {log[j].relays : j \in Members(clusters[i])}
    <3>1. Members(clusters[i]) = Lines(i)
      BY <2>1 DEF Members, Lines
    <3>2. Summarised(i)
      BY DEF Accounts
    <3> QED BY <3>1, <3>2 DEF Summarised
  <2> QED BY <2>1, <2>2, <2>3, <2>4 DEF MembershipAccounts
<1> QED BY <1>1, AccountsAlways, PTL

-----------------------------------------------------------------------------
(***************************************************************************)
(* The running averages.  An update loses the remainder of its division    *)
(* and nothing else, and there is one update for each line of the cluster. *)
(***************************************************************************)
\* A number less than n that n divides is zero.
LEMMA NoRemainder ==
  ASSUME NEW n \in 1..6, NEW k \in Int, NEW sum \in Int, NEW avg \in Int,
         NEW r \in Int, r = Fine * sum - avg * n, 0 <= r, r < n
  PROVE  r = 0
<1> USE DEF Fine
<1>1. CASE n = 1
  BY <1>1
<1>2. CASE n = 2
  BY <1>2
<1>3. CASE n = 3
  BY <1>3
<1>4. CASE n = 4
  BY <1>4
<1>5. CASE n = 5
  BY <1>5
<1>6. CASE n = 6
  BY <1>6
<1> QED BY <1>1, <1>2, <1>3, <1>4, <1>5, <1>6

LEMMA Remainder ==
  ASSUME NEW a \in Int, NEW b \in Nat \ {0}
  PROVE  /\ a \div b \in Int
         /\ 0 <= a - b * (a \div b)
         /\ a - b * (a \div b) < b
OBVIOUS

LEMMA MeanOfOne ==
  ASSUME NEW x \in Nat
  PROVE  IsMean(x * Fine, 1, x)
BY DEF IsMean, Fine

LEMMA MeanOfOneMore ==
  ASSUME NEW avg \in Nat, NEW x \in Nat, NEW n \in Nat \ {0}, NEW sum \in Int,
         IsMean(avg, n, sum)
  PROVE  IsMean(NewAverage(avg, x, n + 1), n + 1, sum + x)
<1> DEFINE gap == x * Fine - avg
           q == gap \div (n + 1)
           r == gap - (n + 1) * q
           lost == Fine * sum - avg * n
           lostNow == Fine * (sum + x) - (avg + q) * (n + 1)
<1>1. gap \in Int /\ n + 1 \in Nat \ {0}
  BY DEF Fine
<1>2. q \in Int /\ 0 <= r /\ r < n + 1
  BY <1>1, Remainder
<1>3. /\ lost \in Int /\ 0 <= lost /\ 2 * lost <= n * (n - 1)
      /\ n <= 6 => lost = 0
  BY DEF IsMean, Fine
<1>4. NewAverage(avg, x, n + 1) = avg + q
  BY DEF NewAverage
<1> HIDE DEF q
<1>5. lostNow = lost + r
  <2>1. (avg + q) * (n + 1) = avg * n + avg + (n + 1) * q
    BY <1>2
  <2>2. Fine * (sum + x) = Fine * sum + x * Fine
    BY DEF Fine
  <2>3. Fine * sum \in Int /\ x * Fine \in Int /\ avg * n \in Int /\ (n + 1) * q \in Int
    BY <1>2 DEF Fine
  <2> QED BY <2>1, <2>2, <2>3
<1>6. r \in Int
  BY <1>1, <1>2
<1>7. 0 <= lostNow
  BY <1>2, <1>3, <1>5, <1>6
<1>8. 2 * lostNow <= (n + 1) * ((n + 1) - 1)
  <2>1. r <= n
    BY <1>2, <1>6
  <2>2. (n + 1) * ((n + 1) - 1) = n * (n - 1) + 2 * n
    OBVIOUS
  <2>3. n * (n - 1) \in Int
    OBVIOUS
  <2> HIDE DEF r, lost, lostNow
  <2> QED BY <1>3, <1>5, <1>6, <2>1, <2>2, <2>3
<1>9. ASSUME n + 1 <= 6 PROVE lostNow = 0
  <2>1. n + 1 \in 1..6 /\ lost = 0 /\ lostNow = r
    BY <1>3, <1>5, <1>6, <1>9
  <2>2. sum + x \in Int /\ avg + q \in Int
    BY <1>2
  <2>3. lostNow \in Int /\ 0 <= lostNow /\ lostNow < n + 1
    BY <1>2, <1>6, <2>1
  <2> QED BY <2>1, <2>2, <2>3, NoRemainder
<1> QED BY <1>4, <1>7, <1>8, <1>9 DEF IsMean

\* The averages of cluster i are those of its lines.
Averaged(i) ==
  /\ IsMean(clusters[i].onDurationAvg, clusters[i].memberCount,
            SumOver(OnDurations, Lines(i)))
  /\ IsMean(clusters[i].transitionsAvg, clusters[i].memberCount,
            SumOver(Transitions, Lines(i)))

LEMMA ValuesAreNat ==
  ASSUME Shape
  PROVE  \A j \in DOMAIN log : OnDurations[j] \in Nat /\ Transitions[j] \in Nat
<1>1. \A j \in DOMAIN log : log[j] \in Line
  BY DEF Shape
<1>2. \A j \in DOMAIN log : log[j].fp.onDuration \in Nat /\ log[j].fp.transitions \in Nat
  BY <1>1 DEF Line, Fingerprint
<1> QED BY <1>2 DEF OnDurations, Transitions

\* A new line leaves the values of the others alone.
LEMMA ValuesAfter ==
  ASSUME Shape, NEW l \in Line, log' = Append(log, l)
  PROVE  /\ \A j \in DOMAIN log : /\ OnDurations'[j] = OnDurations[j]
                                  /\ Transitions'[j] = Transitions[j]
         /\ OnDurations'[Len(log) + 1] = l.fp.onDuration
         /\ Transitions'[Len(log) + 1] = l.fp.transitions
<1>1. /\ DOMAIN log' = DOMAIN log \cup {Len(log) + 1}
      /\ \A j \in DOMAIN log : log'[j] = log[j]
      /\ log'[Len(log) + 1] = l
  BY LinesAfter
<1> QED BY <1>1 DEF OnDurations, Transitions

\* The values g are those of f over S, and v at one more place n.
GrowsBy(f, g, S, n, v) ==
  /\ IsFiniteSet(S) /\ n \notin S
  /\ \A j \in S : f[j] \in Nat /\ g[j] = f[j]
  /\ v \in Nat /\ g[n] = v

\* The sum over a cluster's lines grows by the value of the line it gets.
LEMMA SumWithOneMore ==
  ASSUME NEW f, NEW g, NEW S, NEW n, NEW v, GrowsBy(f, g, S, n, v)
  PROVE  /\ SumOver(g, S \cup {n}) = SumOver(f, S) + v
         /\ SumOver(f, S) \in Int
<1> USE DEF GrowsBy
<1>1. IsFiniteSet(S \cup {n}) /\ (S \cup {n}) \ {n} = S
  BY FS_AddElement
<1>2. \A j \in S \cup {n} : g[j] \in Int
  OBVIOUS
<1>3. SumOver(g, S \cup {n}) = g[n] + SumOver(g, S)
  BY <1>1, <1>2, SumOverRemove
<1>4. SumOver(g, S) = SumOver(f, S) /\ SumOver(f, S) \in Int
  BY SumOverSame, SumOverType
<1> QED BY <1>3, <1>4

LEMMA UntouchedStaysAveraged ==
  ASSUME Shape, NEW l \in Line, log' = Append(log, l),
         NEW i \in DOMAIN clusters, Averaged(i),
         l.cluster # i - 1, clusters'[i] = clusters[i]
  PROVE  Averaged(i)'
<1>1. Lines(i)' = Lines(i) /\ Lines(i) \subseteq DOMAIN log /\ IsFiniteSet(Lines(i))
  BY LinesAfter, LinesAreFinite DEF Lines
<1>2. \A j \in Lines(i) : /\ OnDurations[j] \in Int /\ Transitions[j] \in Int
                          /\ OnDurations'[j] = OnDurations[j]
                          /\ Transitions'[j] = Transitions[j]
  BY <1>1, ValuesAreNat, ValuesAfter
<1>3. /\ SumOver(OnDurations', Lines(i)) = SumOver(OnDurations, Lines(i))
      /\ SumOver(Transitions', Lines(i)) = SumOver(Transitions, Lines(i))
  BY <1>1, <1>2, SumOverSame
<1>4. /\ SumOver(OnDurations, Lines(i))' = SumOver(OnDurations', Lines(i)')
      /\ SumOver(Transitions, Lines(i))' = SumOver(Transitions', Lines(i)')
  BY DEF SumOver, MapThenSumSet, MapThenFoldSet
<1> QED BY <1>1, <1>3, <1>4 DEF Averaged, IsMean

LEMMA JoinKeepsAverages ==
  ASSUME Accounts, \A i \in DOMAIN clusters : Averaged(i),
         NEW b, IsBurst(b), NEW i \in DOMAIN clusters, Join(i, b)
  PROVE  \A k \in DOMAIN clusters' : Averaged(k)'
<1> USE DEF Accounts
<1>1. PICK l \in Line : /\ log' = Append(log, l) /\ l.fp = b.fp
                        /\ l.cluster = clusters[i].id
  BY JoinStep
<1>2. /\ clusters' = [clusters EXCEPT ![i] = Joined(clusters[i], b)]
      /\ DOMAIN clusters' = DOMAIN clusters
  BY JoinStep
<1>3. i \in Int /\ l.cluster = i - 1
  BY <1>1 DEF Shape
<1>4. ASSUME NEW k \in DOMAIN clusters, k # i
      PROVE  Averaged(k)'
  <2>1. k \in Int /\ clusters'[k] = clusters[k]
    BY <1>2, <1>4 DEF Shape
  <2> QED BY <1>1, <1>3, <1>4, <2>1, UntouchedStaysAveraged
<1>5. Averaged(i)'
  <2>0. PICK n, c : n = Len(log) + 1 /\ c = clusters[i]
    OBVIOUS
  <2>1. /\ Lines(i)' = Lines(i) \cup {n} /\ n \notin Lines(i)
        /\ Lines(i) \subseteq DOMAIN log /\ IsFiniteSet(Lines(i))
    BY <1>1, <1>3, <2>0, LinesAfter, LinesAreFinite DEF Lines
  <2>2. c \in Cluster
    BY <2>0 DEF Shape
  <2>3. b.fp.onDuration \in Nat /\ b.fp.transitions \in Nat
    BY DEF IsBurst, Fingerprint
  <2>4. /\ clusters'[i].memberCount = c.memberCount + 1
        /\ clusters'[i].onDurationAvg
             = NewAverage(c.onDurationAvg, b.fp.onDuration, c.memberCount + 1)
        /\ clusters'[i].transitionsAvg
             = NewAverage(c.transitionsAvg, b.fp.transitions, c.memberCount + 1)
    BY <1>2, <2>0, <2>2, JoinedShape DEF Shape
  <2>5. /\ \A j \in Lines(i) : OnDurations[j] \in Nat /\ OnDurations'[j] = OnDurations[j]
        /\ \A j \in Lines(i) : Transitions[j] \in Nat /\ Transitions'[j] = Transitions[j]
        /\ OnDurations'[n] = b.fp.onDuration /\ Transitions'[n] = b.fp.transitions
    BY <1>1, <2>0, <2>1, ValuesAreNat, ValuesAfter
  <2>6. /\ GrowsBy(OnDurations, OnDurations', Lines(i), n, b.fp.onDuration)
        /\ GrowsBy(Transitions, Transitions', Lines(i), n, b.fp.transitions)
    BY <2>1, <2>3, <2>5 DEF GrowsBy
  <2>7. /\ SumOver(OnDurations', Lines(i) \cup {n})
             = SumOver(OnDurations, Lines(i)) + b.fp.onDuration
        /\ SumOver(OnDurations, Lines(i)) \in Int
        /\ SumOver(Transitions', Lines(i) \cup {n})
             = SumOver(Transitions, Lines(i)) + b.fp.transitions
        /\ SumOver(Transitions, Lines(i)) \in Int
    <3>1. ASSUME NEW f, NEW g, NEW v, GrowsBy(f, g, Lines(i), n, v)
          PROVE  /\ SumOver(g, Lines(i) \cup {n}) = SumOver(f, Lines(i)) + v
                 /\ SumOver(f, Lines(i)) \in Int
      BY <3>1, SumWithOneMore
    <3> QED BY <2>6, <3>1, Zenon
  <2>8. /\ IsMean(c.onDurationAvg, c.memberCount, SumOver(OnDurations, Lines(i)))
        /\ IsMean(c.transitionsAvg, c.memberCount, SumOver(Transitions, Lines(i)))
    BY <2>0 DEF Averaged
  <2>9. /\ c.onDurationAvg \in Nat /\ c.transitionsAvg \in Nat
        /\ c.memberCount \in Nat \ {0}
    BY <2>2 DEF Cluster
  <2>10. /\ IsMean(clusters'[i].onDurationAvg, clusters'[i].memberCount,
                   SumOver(OnDurations', Lines(i)'))
         /\ IsMean(clusters'[i].transitionsAvg, clusters'[i].memberCount,
                   SumOver(Transitions', Lines(i)'))
    BY <2>1, <2>3, <2>4, <2>7, <2>8, <2>9, MeanOfOneMore
  <2>11. /\ SumOver(OnDurations, Lines(i))' = SumOver(OnDurations', Lines(i)')
         /\ SumOver(Transitions, Lines(i))' = SumOver(Transitions', Lines(i)')
    BY DEF SumOver, MapThenSumSet, MapThenFoldSet
  <2> QED BY <2>10, <2>11 DEF Averaged, IsMean
<1> QED BY <1>2, <1>4, <1>5

LEMMA FoundKeepsAverages ==
  ASSUME Accounts, \A i \in DOMAIN clusters : Averaged(i), NEW b, IsBurst(b), Found(b)
  PROVE  \A k \in DOMAIN clusters' : Averaged(k)'
<1> USE DEF Accounts
<1>0. PICK n, i : n = Len(log) + 1 /\ i = Len(clusters) + 1
  OBVIOUS
<1>1. PICK l \in Line : /\ log' = Append(log, l) /\ l.fp = b.fp
                        /\ l.cluster = nextClusterId
  BY FoundStep
<1>2. clusters' = Append(clusters, Founded(b))
  BY FoundStep
<1>3. i \in Int /\ l.cluster = i - 1
  BY <1>0, <1>1 DEF Shape
<1>4. ASSUME NEW k \in DOMAIN clusters
      PROVE  Averaged(k)'
  <2>1. k \in Int /\ k # i /\ clusters'[k] = clusters[k]
    BY <1>0, <1>2 DEF Shape
  <2> QED BY <1>1, <1>3, <2>1, UntouchedStaysAveraged
<1>5. Averaged(i)'
  <2>1. Lines(i) = {}
    <3>1. \A j \in DOMAIN log : log[j] \in Line
      BY DEF Shape
    <3>2. \A j \in DOMAIN log : log[j].cluster \in Nat
      BY <3>1 DEF Line
    <3>3. \A j \in DOMAIN log : log[j].cluster < i - 1
      BY <1>0 DEF Filed, Shape
    <3> QED BY <1>3, <3>2, <3>3 DEF Lines
  <2>2. Lines(i)' = {} \cup {n}
    BY <1>0, <1>1, <1>3, <2>1, LinesAfter
  <2>3. clusters'[i] = Founded(b)
    BY <1>0, <1>2 DEF Shape
  <2>4. b.fp.onDuration \in Nat /\ b.fp.transitions \in Nat
    BY DEF IsBurst, Fingerprint
  <2>5. OnDurations'[n] = b.fp.onDuration /\ Transitions'[n] = b.fp.transitions
    BY <1>0, <1>1, ValuesAfter
  <2>6. /\ GrowsBy(OnDurations, OnDurations', {}, n, b.fp.onDuration)
        /\ GrowsBy(Transitions, Transitions', {}, n, b.fp.transitions)
    BY <2>4, <2>5, FS_EmptySet DEF GrowsBy
  <2>7. SumOver(OnDurations, {}) = 0 /\ SumOver(Transitions, {}) = 0
    BY SumOverEmpty
  <2>8. /\ SumOver(OnDurations', {} \cup {n}) = b.fp.onDuration
        /\ SumOver(Transitions', {} \cup {n}) = b.fp.transitions
    BY <2>4, <2>6, <2>7, SumWithOneMore
  <2>9. /\ IsMean(b.fp.onDuration * Fine, 1, SumOver(OnDurations', Lines(i)'))
        /\ IsMean(b.fp.transitions * Fine, 1, SumOver(Transitions', Lines(i)'))
    BY <2>2, <2>4, <2>8, MeanOfOne
  <2>10. /\ clusters'[i].memberCount = 1
         /\ clusters'[i].onDurationAvg = b.fp.onDuration * Fine
         /\ clusters'[i].transitionsAvg = b.fp.transitions * Fine
    BY <2>3, FoundedShape DEF Shape
  <2>11. /\ SumOver(OnDurations, Lines(i))' = SumOver(OnDurations', Lines(i)')
         /\ SumOver(Transitions, Lines(i))' = SumOver(Transitions', Lines(i)')
    BY DEF SumOver, MapThenSumSet, MapThenFoldSet
  <2> QED BY <2>9, <2>10, <2>11 DEF Averaged, IsMean
<1>6. DOMAIN clusters' = DOMAIN clusters \cup {i}
  BY <1>0, <1>2 DEF Shape
<1> QED BY <1>4, <1>5, <1>6

LEMMA AveragedStep ==
  ASSUME Accounts, \A i \in DOMAIN clusters : Averaged(i), [Next]_vars
  PROVE  \A i \in DOMAIN clusters' : Averaged(i)'
<1>1. ASSUME UNCHANGED <<clusters, log>>
      PROVE  \A i \in DOMAIN clusters' : Averaged(i)'
  <2>1. ASSUME NEW i \in DOMAIN clusters PROVE Averaged(i)'
    <3>1. OnDurations' = OnDurations /\ Transitions' = Transitions /\ Lines(i)' = Lines(i)
      BY <1>1 DEF OnDurations, Transitions, Lines
    <3>2. /\ SumOver(OnDurations, Lines(i))' = SumOver(OnDurations', Lines(i)')
          /\ SumOver(Transitions, Lines(i))' = SumOver(Transitions', Lines(i)')
      BY DEF SumOver, MapThenSumSet, MapThenFoldSet
    <3> QED BY <1>1, <3>1, <3>2 DEF Averaged, IsMean
  <2> QED BY <1>1, <2>1
<1>2. ASSUME NEW t \in inFlight, NEW b, OnTraceComplete(t, b), IsBurst(b)
      PROVE  \A i \in DOMAIN clusters' : Averaged(i)'
  BY <1>2, JoinKeepsAverages, FoundKeepsAverages DEF OnTraceComplete
<1> QED
  BY <1>1, <1>2, Steps
     DEF Accounts, vars, Detect, Tick, ReportedUnresolved, engineVars

\* The averages kept of a cluster's fingerprint are the means over its bursts,
\* in whatever order they are reported: exactly so up to six bursts, and beyond
\* that to within what the divisions of the updates round away.
THEOREM AveragesCorrect == Spec => []AveragesAreMeans
<1> DEFINE All == \A i \in DOMAIN clusters : Averaged(i)
<1>1. Init => All
  BY DEF Init
<1>2. Accounts /\ All /\ [Next]_vars => All'
  BY AveragedStep
<1>3. Accounts /\ All => AveragesAreMeans
  <2> SUFFICES ASSUME Accounts, All, NEW i \in DOMAIN clusters
               PROVE  /\ IsMean(clusters[i].onDurationAvg, clusters[i].memberCount,
                                MapThenSumSet(LAMBDA j : OnDurations[j], Members(clusters[i])))
                      /\ IsMean(clusters[i].transitionsAvg, clusters[i].memberCount,
                                MapThenSumSet(LAMBDA j : Transitions[j], Members(clusters[i])))
    BY DEF AveragesAreMeans
  <2>1. Members(clusters[i]) = Lines(i)
    BY DEF Members, Lines, Accounts, Shape
  <2> QED BY <2>1 DEF Averaged, SumOver
<1> QED BY <1>1, <1>2, <1>3, AccountsAlways, PTL DEF Spec

-----------------------------------------------------------------------------
(***************************************************************************)
(* The period estimate.  A cluster's last detection is that of one of its  *)
(* lines, so that while reports arrive in order every interval is positive *)
(* and so is every estimate made from it.                                  *)
(***************************************************************************)
\* An interval spans no more periods than it has units.
LEMMA RoundIsAtMost ==
  ASSUME NEW x \in Nat \ {0}, NEW p \in Nat \ {0}
  PROVE  Round(x, p) \in Nat /\ Round(x, p) <= x
<1> DEFINE q == (2 * x + p) \div (2 * p)
<1>1. 2 * p \in Nat \ {0} /\ 2 * x + p \in Nat
  OBVIOUS
<1>2. q \in Nat /\ (2 * p) * q <= 2 * x + p
  BY <1>1
<1>3. Round(x, p) = q
  BY DEF Round
<1> HIDE DEF q
<1>4. ASSUME q >= x + 1 PROVE FALSE
  <2>1. (2 * p) * (x + 1) <= (2 * p) * q
    BY <1>2, <1>4
  <2>2. 2 * (p * x) + 2 * p <= 2 * x + p
    BY <1>2, <2>1
  <2>3. p * x >= x
    OBVIOUS
  <2>4. p * x \in Nat
    OBVIOUS
  <2> QED BY <2>2, <2>3, <2>4
<1> QED BY <1>2, <1>3, <1>4

LEMMA NewEstimateIsPositive ==
  ASSUME NEW c \in Cluster, NEW interval \in Nat \ {0}
  PROVE  NewEstimate(c, interval) > 0
<1> DEFINE n == Periods(c, interval)
           adjusted == (interval * Fine) \div n
<1>1. interval * Fine \in Nat \ {0}
  BY DEF Fine
<1>2. n \in Nat \ {0} /\ n <= interval * Fine
  BY <1>1, PeriodIsPositive, RoundIsAtMost DEF Periods, AtLeast
<1> HIDE DEF n
<1>3. adjusted \in Nat \ {0}
  <2>1. ASSUME NEW x \in Nat, NEW m \in Nat \ {0}, m <= x
        PROVE  x \div m \in Nat \ {0}
    BY <2>1
  <2> QED BY <1>1, <1>2, <2>1
<1>4. NewEstimate(c, interval)
        = IF c.estimate <= 0 THEN adjusted
          ELSE (7 * c.estimate + 3 * adjusted) \div 10
  BY DEF NewEstimate, n
<1>5. c.estimate \in Int
  BY DEF Cluster
<1> HIDE DEF adjusted
<1>6. c.estimate > 0 => (7 * c.estimate + 3 * adjusted) \div 10 > 0
  BY <1>3, <1>5
<1> QED BY <1>3, <1>4, <1>5, <1>6

\* The last line of an ordered log is later than every detection before it.
LEMMA LaterThanAll ==
  ASSUME Shape, NEW l \in Line, log' = Append(log, l), InOrder'
  PROVE  InOrder /\ \A j \in DOMAIN log : log[j].detect < l.detect
<1>1. PICK n : n = Len(log) + 1
  OBVIOUS
<1>2. /\ DOMAIN log' = DOMAIN log \cup {n}
      /\ \A j \in DOMAIN log : log'[j] = log[j]
      /\ log'[n] = l
  BY <1>1, LinesAfter
<1>3. \A j \in DOMAIN log : j < n
  BY <1>1 DEF Shape
<1> QED BY <1>2, <1>3 DEF InOrder

LEMMA EstimatedStep ==
  ASSUME Accounts, EstimatedWhenInOrder, [Next]_vars
  PROVE  EstimatedWhenInOrder'
<1>1. Shape
  BY DEF Accounts
<1>2. ASSUME UNCHANGED <<clusters, log>>
      PROVE  EstimatedWhenInOrder'
  BY <1>2 DEF EstimatedWhenInOrder, InOrder
<1>3. ASSUME NEW t \in inFlight, NEW b, OnTraceComplete(t, b), IsBurst(b), InOrder'
      PROVE  \A k \in DOMAIN clusters' :
               clusters'[k].estimate > 0 <=> clusters'[k].memberCount >= 2
  <2>1. (\E i \in DOMAIN clusters : Join(i, b)) \/ Found(b)
    BY <1>3 DEF OnTraceComplete
  <2>2. ASSUME NEW i \in DOMAIN clusters, Join(i, b), NEW k \in DOMAIN clusters'
        PROVE  clusters'[k].estimate > 0 <=> clusters'[k].memberCount >= 2
    <3>1. PICK l \in Line : log' = Append(log, l) /\ l.detect = b.detect
      BY <1>1, <1>3, <2>2, JoinStep
    <3>2. /\ clusters' = [clusters EXCEPT ![i] = Joined(clusters[i], b)]
          /\ DOMAIN clusters' = DOMAIN clusters
      BY <1>1, <1>3, <2>2, JoinStep
    <3>3. InOrder /\ \A j \in DOMAIN log : log[j].detect < b.detect
      BY <1>1, <1>3, <3>1, LaterThanAll
    <3>4. CASE k # i
      BY <3>2, <3>3, <3>4 DEF EstimatedWhenInOrder
    <3>5. CASE k = i
      <4> DEFINE c == clusters[i]
      <4>1. c \in Cluster
        BY <1>1 DEF Shape
      <4>2. c.lastDetect \in Nat /\ b.detect \in Nat /\ c.memberCount \in Nat \ {0}
        BY <1>3, <4>1 DEF Cluster, IsBurst
      <4>3. PICK j \in DOMAIN log : log[j].detect = c.lastDetect
        BY DEF Accounts, Summarised, Lines
      <4>4. b.detect - c.lastDetect \in Nat \ {0}
        BY <3>3, <4>2, <4>3
      <4>5. /\ clusters'[i].estimate = NewEstimate(c, b.detect - c.lastDetect)
            /\ clusters'[i].memberCount = c.memberCount + 1
        BY <1>3, <3>2, <4>1, JoinedShape
      <4>6. NewEstimate(c, b.detect - c.lastDetect) > 0
        BY <4>1, <4>4, NewEstimateIsPositive
      <4> HIDE DEF c
      <4> QED BY <3>5, <4>2, <4>5, <4>6
    <3> QED BY <3>4, <3>5
  <2>3. ASSUME Found(b), NEW k \in DOMAIN clusters'
        PROVE  clusters'[k].estimate > 0 <=> clusters'[k].memberCount >= 2
    <3>1. PICK l \in Line : log' = Append(log, l)
      BY <1>1, <1>3, <2>3, FoundStep
    <3>2. InOrder
      BY <1>1, <1>3, <3>1, LaterThanAll
    <3>3. clusters' = Append(clusters, Founded(b))
      BY <1>1, <1>3, <2>3, FoundStep
    <3>4. Founded(b).memberCount = 1 /\ Founded(b).estimate = NotEstimated
      BY <1>1, <1>3, FoundedShape DEF Shape
    <3>5. \/ k \in DOMAIN clusters /\ clusters'[k] = clusters[k]
          \/ clusters'[k] = Founded(b)
      BY <1>1, <2>3, <3>3 DEF Shape
    <3> QED
      BY <3>2, <3>4, <3>5 DEF EstimatedWhenInOrder, NotEstimated, Fine
  <2> QED BY <2>1, <2>2, <2>3
<1>4. ASSUME NEW t \in inFlight, NEW b, OnTraceComplete(t, b), IsBurst(b)
      PROVE  EstimatedWhenInOrder'
  BY <1>3, <1>4 DEF EstimatedWhenInOrder
<1> QED
  BY <1>1, <1>2, <1>4, Steps DEF vars, engineVars, Detect, Tick, ReportedUnresolved

\* While bursts are reported in the order they were detected, a cluster of two
\* or more has an estimated period and a cluster of one has none.
THEOREM EstimateCorrect == Spec => []EstimatedWhenInOrder
<1>1. Init => EstimatedWhenInOrder
  BY DEF Init, EstimatedWhenInOrder
<1>2. Accounts /\ EstimatedWhenInOrder /\ [Next]_vars => EstimatedWhenInOrder'
  BY EstimatedStep
<1> QED BY <1>1, <1>2, AccountsAlways, PTL DEF Spec

-----------------------------------------------------------------------------
(***************************************************************************)
(* A regular actor.  As long as all bursts so far could be one actor's,    *)
(* the only cluster mirrors the last line exactly, and its period is the   *)
(* prior whether or not it has been estimated; so the next burst of that   *)
(* actor matches in period, relays and fingerprint, and these three alone  *)
(* carry it to the threshold.                                              *)
(***************************************************************************)
Mirrors(c, l) ==
  /\ c.lastDetect = l.detect
  /\ c.relays = l.relays
  /\ c.onDurationAvg = l.fp.onDuration * Fine
  /\ c.transitionsAvg = l.fp.transitions * Fine
  /\ c.estimate \in {NotEstimated, PeriodPrior * Fine}

Regular ==
  OneRegularActor =>
    \/ Len(log) = 0 /\ Len(clusters) = 0
    \/ Len(log) # 0 /\ Len(clusters) = 1 /\ Mirrors(clusters[1], log[Len(log)])

LEMMA Quotient ==
  ASSUME NEW a \in Int, NEW b \in Nat \ {0}, NEW q \in Int,
         b * q <= a, a < b * q + b
  PROVE  a \div b = q
<1> DEFINE d == a \div b
<1>1. d \in Int /\ b * d <= a /\ a < b * d + b
  OBVIOUS
<1> HIDE DEF d
<1>2. ASSUME d >= q + 1 PROVE FALSE
  <2>1. b * d >= b * (q + 1)
    BY <1>1, <1>2
  <2>2. b * (q + 1) = b * q + b
    OBVIOUS
  <2> QED BY <1>1, <2>1, <2>2
<1>3. ASSUME q >= d + 1 PROVE FALSE
  <2>1. b * q >= b * (d + 1)
    BY <1>1, <1>3
  <2>2. b * (d + 1) = b * d + b
    BY <1>1
  <2> QED BY <1>1, <2>1, <2>2
<1> QED BY <1>1, <1>2, <1>3 DEF d

LEMMA MirrorPeriod ==
  ASSUME NEW c \in Cluster, c.estimate \in {NotEstimated, PeriodPrior * Fine}
  PROVE  Period(c) = PeriodPrior * Fine
BY ReidAssumption DEF Period, NotEstimated, Fine

\* One to three whole periods leave the estimate at the period.
LEMMA MirrorEstimate ==
  ASSUME NEW c \in Cluster, c.estimate \in {NotEstimated, PeriodPrior * Fine},
         NEW k \in 1..3
  PROVE  NewEstimate(c, k * PeriodPrior) = PeriodPrior * Fine
<1>1. PICK p \in Nat \ {0} : p = PeriodPrior * Fine
  BY ReidAssumption DEF Fine
<1>2. (k * PeriodPrior) * Fine = k * p /\ k * p \in Nat
  BY <1>1, ReidAssumption DEF Fine
<1>3. Round(k * p, p) = (2 * (k * p) + p) \div (2 * p)
  BY <1>2 DEF Round
<1>4. (2 * (k * p) + p) \div (2 * p) = k
  <2>1. (2 * p) * k = 2 * (k * p) /\ 2 * p \in Nat \ {0}
    OBVIOUS
  <2> QED BY <1>2, <2>1, Quotient
<1>5. Periods(c, k * PeriodPrior) = k
  BY <1>1, <1>2, <1>3, <1>4, MirrorPeriod DEF Periods, AtLeast
<1>6. (k * p) \div k = p
  <2>1. k * p <= k * p /\ k * p < k * p + k /\ k \in Nat \ {0}
    BY <1>2
  <2> QED BY <1>2, <2>1, Quotient
<1>7. NewEstimate(c, k * PeriodPrior)
        = IF c.estimate <= 0 THEN p ELSE (7 * c.estimate + 3 * p) \div 10
  BY <1>2, <1>5, <1>6 DEF NewEstimate
<1> QED BY <1>1, <1>7 DEF NotEstimated, Fine

LEMMA SameAverage ==
  ASSUME NEW x \in Nat, NEW n \in Nat \ {0}
  PROVE  NewAverage(x * Fine, x, n) = x * Fine
<1>1. x * Fine \in Int /\ x * Fine - x * Fine = 0
  BY DEF Fine
<1>2. 0 \div n = 0
  BY Quotient
<1> QED BY <1>1, <1>2 DEF NewAverage

\* The next burst of the actor a cluster mirrors matches it.
LEMMA MirrorMatches ==
  ASSUME NEW c \in Cluster, NEW l \in Line, Mirrors(c, l),
         NEW b, IsBurst(b), c.id \in 0..(nextClusterId - 1),
         b.relays = l.relays, b.relays # {}, b.fp = l.fp,
         NEW k \in 1..3, b.detect - l.detect = k * PeriodPrior
  PROVE  Score(c, b) >= Threshold
<1>1. PeriodicityScore(c, b.detect) = Unit
  <2>1. Period(c) = PeriodPrior * Fine
    BY MirrorPeriod DEF Mirrors
  <2>2. (b.detect - c.lastDetect) * Fine = k * Period(c)
    BY <2>1, ReidAssumption DEF Mirrors, Fine
  <2>3. k * Period(c) \in Int
    BY PeriodIsPositive
  <2>4. Deviation(c, b.detect, k) = 0
    BY <2>2, <2>3 DEF Deviation, Abs
  <2> QED BY <2>4, PeriodicityScoreIsInt DEF IsBurst
<1>2. ConvergenceScore(c, b.relays) = Unit
  BY ConvergenceScoreIsInt DEF Mirrors, Line
<1>3. FingerprintScore(c, b.fp) = Unit
  BY FingerprintScoreIsInt DEF Mirrors, IsBurst
<1> QED BY <1>1, <1>2, <1>3, ScoreIsInt

LEMMA MirrorJoined ==
  ASSUME NEW c \in Cluster, NEW l \in Line, Mirrors(c, l),
         NEW b, IsBurst(b), b.relays = l.relays, b.fp = l.fp,
         NEW k \in 1..3, b.detect - l.detect = k * PeriodPrior,
         NEW m \in Line, m.detect = b.detect, m.relays = b.relays, m.fp = b.fp
  PROVE  Mirrors(Joined(c, b), m)
<1>1. /\ c.memberCount + 1 \in Nat \ {0}
      /\ b.fp.onDuration \in Nat /\ b.fp.transitions \in Nat
  BY DEF Cluster, IsBurst, Fingerprint
<1>2. Joined(c, b).lastDetect = m.detect
  BY JoinedShape
<1>3. Joined(c, b).relays = m.relays
  <2>1. Joined(c, b).relays = c.relays \cup b.relays
    BY JoinedShape
  <2>2. c.relays = b.relays
    BY DEF Mirrors
  <2> QED BY <2>1, <2>2
<1>4. Joined(c, b).onDurationAvg = m.fp.onDuration * Fine
  BY <1>1, JoinedShape, SameAverage DEF Mirrors
<1>5. Joined(c, b).transitionsAvg = m.fp.transitions * Fine
  BY <1>1, JoinedShape, SameAverage DEF Mirrors
<1>6. Joined(c, b).estimate = PeriodPrior * Fine
  BY JoinedShape, MirrorEstimate DEF Mirrors
<1> QED BY <1>2, <1>3, <1>4, <1>5, <1>6 DEF Mirrors

\* A log that is one regular actor's was so before its last line, which
\* continues it.
LEMMA RegularBefore ==
  ASSUME Shape, NEW l \in Line, log' = Append(log, l), OneRegularActor'
  PROVE  /\ OneRegularActor
         /\ Len(log) # 0 =>
              /\ log[Len(log)] \in Line
              /\ l.relays = log[Len(log)].relays /\ l.relays # {}
              /\ l.fp = log[Len(log)].fp
              /\ \E k \in 1..3 : l.detect - log[Len(log)].detect = k * PeriodPrior
<1>1. PICK n \in Nat : n = Len(log)
  BY DEF Shape
<1>2. /\ DOMAIN log = 1..n /\ Len(log') = n + 1
      /\ \A j \in 1..n : log'[j] = log[j]
      /\ log'[n + 1] = l
  BY <1>1 DEF Shape
<1>3. \A i \in 1..n :
        /\ log'[i].relays = log'[i + 1].relays /\ log'[i].relays # {}
        /\ log'[i].fp = log'[i + 1].fp
        /\ log'[i + 1].detect - log'[i].detect \in {k * PeriodPrior : k \in 1..3}
  BY <1>1, <1>2 DEF OneRegularActor
<1>4. OneRegularActor
  <2>1. \A i \in 1..(n - 1) : i \in 1..n /\ i + 1 \in 1..n
    OBVIOUS
  <2> QED BY <1>1, <1>2, <1>3, <2>1 DEF OneRegularActor
<1>5. ASSUME n # 0
      PROVE  /\ log[n] \in Line
             /\ l.relays = log[n].relays /\ l.relays # {}
             /\ l.fp = log[n].fp
             /\ \E k \in 1..3 : l.detect - log[n].detect = k * PeriodPrior
  <2>1. n \in 1..n
    BY <1>5
  <2> QED BY <1>1, <1>2, <1>3, <2>1 DEF Shape
<1> QED BY <1>1, <1>4, <1>5

LEMMA RegularStep ==
  ASSUME Accounts, Regular, [Next]_vars
  PROVE  Regular'
<1>1. Shape
  BY DEF Accounts
<1>2. ASSUME UNCHANGED <<clusters, log>>
      PROVE  Regular'
  BY <1>2 DEF Regular, OneRegularActor, Mirrors
<1>3. ASSUME NEW t \in inFlight, NEW b, OnTraceComplete(t, b), IsBurst(b), OneRegularActor'
      PROVE  /\ Len(log') # 0 /\ Len(clusters') = 1
             /\ Mirrors(clusters'[1], log'[Len(log')])
  <2>1. PICK n \in Nat : n = Len(log)
    BY <1>1 DEF Shape
  <2>2. (\E i \in DOMAIN clusters : Join(i, b)) \/ Found(b)
    BY <1>3 DEF OnTraceComplete
  <2>3. PICK l \in Line : /\ log' = Append(log, l)
                          /\ l.trace = b.trace /\ l.detect = b.detect
                          /\ l.relays = b.relays /\ l.fp = b.fp
    BY <1>1, <1>3, <2>2, JoinStep, FoundStep
  <2>4. Len(log') = n + 1 /\ log'[n + 1] = l
    BY <1>1, <2>1, <2>3 DEF Shape
  <2>5. CASE n = 0
    <3>1. Len(clusters) = 0
      BY <1>1, <1>3, <2>1, <2>3, <2>5, RegularBefore DEF Regular
    <3>2. DOMAIN clusters = {}
      BY <1>1, <3>1 DEF Shape
    <3>3. Found(b)
      BY <2>2, <3>2
    <3>4. clusters' = Append(clusters, Founded(b))
      BY <1>1, <1>3, <3>3, FoundStep
    <3>5. Len(clusters') = 1 /\ clusters'[1] = Founded(b)
      BY <1>1, <3>1, <3>4 DEF Shape
    <3>6. Mirrors(Founded(b), l)
      BY <1>1, <1>3, <2>3, FoundedShape DEF Mirrors, Shape
    <3> QED BY <2>4, <2>5, <3>5, <3>6
  <2>6. CASE n # 0
    <3> DEFINE c == clusters[1]
               m == log[n]
    <3>1. /\ m \in Line
          /\ l.relays = m.relays /\ l.relays # {} /\ l.fp = m.fp
          /\ \E k \in 1..3 : l.detect - m.detect = k * PeriodPrior
      BY <1>1, <1>3, <2>1, <2>3, <2>6, RegularBefore
    <3>2. Len(clusters) = 1 /\ Mirrors(c, m)
      BY <1>1, <1>3, <2>1, <2>3, <2>6, RegularBefore DEF Regular
    <3>3. /\ DOMAIN clusters = {1} /\ c \in Cluster
          /\ c.id \in 0..(nextClusterId - 1)
      <4>1. DOMAIN clusters = {1}
        BY <1>1, <3>2 DEF Shape
      <4>2. \A i \in DOMAIN clusters : clusters[i] \in Cluster
        BY <1>1 DEF Shape
      <4>3. nextClusterId = 1
        BY <1>1, <3>2 DEF Shape
      <4>4. \A i \in DOMAIN clusters : clusters[i].id = i - 1
        BY <1>1 DEF Shape
      <4> QED BY <4>1, <4>2, <4>3, <4>4
    <3>4. PICK k \in 1..3 : b.detect - m.detect = k * PeriodPrior
      BY <2>3, <3>1
    <3> HIDE DEF m
    <3>5. Score(c, b) >= Threshold /\ Score(c, b) \in Int
      BY <1>3, <2>3, <3>1, <3>2, <3>3, <3>4, MirrorMatches, ScoreIsInt
    <3>6. Recognises(1, b)
      BY <3>3, <3>5 DEF Recognises, IsBest
    <3>7. Join(1, b)
      BY <2>2, <3>3, <3>6 DEF Found
    <3>8. clusters' = [clusters EXCEPT ![1] = Joined(c, b)]
      BY <1>1, <1>3, <3>3, <3>7, JoinStep
    <3>9. Len(clusters') = 1 /\ clusters'[1] = Joined(c, b)
      BY <1>1, <3>2, <3>8 DEF Shape
    <3>10. Mirrors(Joined(c, b), l)
      BY <1>3, <2>3, <3>1, <3>2, <3>3, <3>4, MirrorJoined
    <3> QED BY <2>1, <2>4, <3>9, <3>10
  <2> QED BY <2>5, <2>6
<1>4. ASSUME NEW t \in inFlight, NEW b, OnTraceComplete(t, b), IsBurst(b)
      PROVE  Regular'
  BY <1>3, <1>4 DEF Regular
<1> QED
  BY <1>1, <1>2, <1>4, Steps DEF vars, engineVars, Detect, Tick, ReportedUnresolved

\* A strictly periodic actor on a stable path is never split, whatever its
\* period and the tolerance, whichever bursts are missed in between, and
\* though the timing correlation may be of no help at all.
THEOREM PeriodicActorStaysOne == Spec => []PeriodicActorNotSplit
<1>1. Init => Regular
  BY DEF Init, Regular
<1>2. Accounts /\ Regular /\ [Next]_vars => Regular'
  BY RegularStep
<1>3. Accounts /\ Regular => PeriodicActorNotSplit
  <2>1. ASSUME Accounts, Regular, OneRegularActor PROVE Len(clusters) \in {0, 1}
    BY <2>1 DEF Regular
  <2>2. \A n \in {0, 1} : n <= 1
    OBVIOUS
  <2> QED BY <2>1, <2>2 DEF PeriodicActorNotSplit
<1> QED BY <1>1, <1>2, <1>3, AccountsAlways, PTL DEF Spec
=============================================================================
