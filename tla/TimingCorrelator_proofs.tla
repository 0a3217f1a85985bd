---------------------- MODULE TimingCorrelator_proofs ----------------------
(***************************************************************************)
(* What the correlator can be relied on for, for every set of nodes and    *)
(* flows, and however many packets are recorded in whatever order of their *)
(* timestamps: the sorted indexes lose no event and a query finds those of *)
(* its window, in order; a signal repeated within the lag budget has the   *)
(* perfect score; and the mirror the evaluation is computed with agrees    *)
(* with the choice the engine made.                                        *)
(***************************************************************************)
EXTENDS TimingCorrelator, NaturalNumbers

-----------------------------------------------------------------------------
(***************************************************************************)
(* What is in an index, and how it is ordered: by time and, within an      *)
(* instant, by the packet, that is in the order of recording.              *)
(***************************************************************************)
AnEvent == [t : Int, node : Nodes, isRx : BOOLEAN, flow : Flows, size : Nat]

NotAfter(d, e) == d.t < e.t \/ (d.t = e.t /\ d.size <= e.size)

Ordered(bucket) ==
  /\ bucket \in Seq(AnEvent)
  /\ \A i, j \in 1..Len(bucket) : i <= j => NotAfter(bucket[i], bucket[j])

\* No event twice.
Distinct(bucket) == \A i, j \in 1..Len(bucket) : bucket[i] = bucket[j] => i = j

\* The first of some positions of a sequence, or the position after its last.
LEMMA FirstPosition ==
  ASSUME NEW n \in Nat, NEW P \in SUBSET (1..n)
  PROVE  LET p == Min(P \cup {n + 1})
         IN  /\ p \in 1..(n + 1)
             /\ p # n + 1 => p \in P
             /\ \A i \in 1..n : i < p => i \notin P
<1> DEFINE Q == P \cup {n + 1}
<1>1. Q \in SUBSET Nat /\ Q # {} /\ Q \subseteq 1..(n + 1)
  OBVIOUS
<1>2. \E m \in Q : \A k \in Q : m <= k
  <2> HIDE DEF Q
  <2> QED BY <1>1, LeastNatural
<1>3. Min(Q) \in Q /\ \A k \in Q : Min(Q) <= k
  <2> HIDE DEF Q
  <2> QED BY <1>2 DEF Min
<1> DEFINE p == Min(Q)
<1>4. p \in Q /\ \A k \in Q : p <= k
  BY <1>3
<1> HIDE DEF p
<1>5. /\ p \in 1..(n + 1)
      /\ p # n + 1 => p \in P
      /\ \A i \in 1..n : i < p => i \notin P
  BY <1>1, <1>4
<1> QED BY <1>5 DEF p

-----------------------------------------------------------------------------
(***************************************************************************)
(* Insertion.                                                              *)
(***************************************************************************)
LEMMA InsertAtPosition ==
  ASSUME NEW T, NEW s \in Seq(T), NEW e \in T, NEW p \in 1..(Len(s) + 1)
  PROVE  /\ InsertAt(s, p, e) \in Seq(T)
         /\ Len(InsertAt(s, p, e)) = Len(s) + 1
         /\ \A i \in 1..(Len(s) + 1) :
              InsertAt(s, p, e)[i] = IF i < p THEN s[i] ELSE IF i = p THEN e ELSE s[i - 1]
<1> DEFINE before == SubSeq(s, 1, p - 1)
           after  == SubSeq(s, p, Len(s))
<1>1. Len(s) \in Nat /\ p \in Nat
  OBVIOUS
<1>2. /\ before \in Seq(T) /\ Len(before) = p - 1
      /\ \A i \in 1..(p - 1) : before[i] = s[i]
  BY <1>1
<1>3. /\ after \in Seq(T) /\ Len(after) = Len(s) - p + 1
      /\ \A i \in 1..(Len(s) - p + 1) : after[i] = s[p + i - 1]
  BY <1>1
<1>4. InsertAt(s, p, e) = (before \o <<e>>) \o after
  BY DEF InsertAt
<1> HIDE DEF before, after
<1> DEFINE front == before \o <<e>>
<1>5. /\ front \in Seq(T) /\ Len(front) = p
      /\ \A i \in 1..p : front[i] = IF i < p THEN s[i] ELSE e
  BY <1>1, <1>2
<1> HIDE DEF front
<1>6. InsertAt(s, p, e) = front \o after
  BY <1>4 DEF front
<1>7. front \o after \in Seq(T) /\ Len(front \o after) = Len(s) + 1
  BY <1>1, <1>3, <1>5
<1>8. ASSUME NEW i \in 1..(Len(s) + 1)
      PROVE  (front \o after)[i] = IF i < p THEN s[i] ELSE IF i = p THEN e ELSE s[i - 1]
  <2>1. CASE i <= p
    BY <1>1, <1>3, <1>5, <2>1
  <2>2. CASE i > p
    <3>1. (front \o after)[i] = after[i - p]
      BY <1>1, <1>3, <1>5, <2>2
    <3>2. i - p \in 1..(Len(s) - p + 1)
      BY <1>1, <2>2
    <3>3. after[i - p] = s[p + (i - p) - 1] /\ p + (i - p) - 1 = i - 1
      BY <1>1, <1>3, <3>2
    <3> QED BY <1>1, <2>2, <3>1, <3>3
  <2>3. i <= p \/ i > p
    BY <1>1
  <2> QED BY <2>1, <2>2, <2>3
<1> QED BY <1>6, <1>7, <1>8

\* An event recorded last goes after every event of its own instant.
LEMMA InsertSortedOrdered ==
  ASSUME NEW s, Ordered(s), NEW e \in AnEvent, \A d \in ToSet(s) : d.size <= e.size
  PROVE  /\ Ordered(InsertSorted(s, e))
         /\ ToSet(InsertSorted(s, e)) = ToSet(s) \cup {e}
<1>1. s \in Seq(AnEvent) /\ Len(s) \in Nat
  BY DEF Ordered
<1> DEFINE n == Len(s)
           later == {i \in 1..n : s[i].t > e.t}
           p == Min(later \cup {n + 1})
           r == InsertAt(s, p, e)
<1>2. DOMAIN s = 1..n
  BY <1>1
<1>3. InsertSorted(s, e) = r
  BY <1>2 DEF InsertSorted
<1>4. /\ p \in 1..(n + 1)
      /\ p # n + 1 => p \in later
      /\ \A i \in 1..n : i < p => i \notin later
  <2> HIDE DEF later
  <2>1. later \in SUBSET (1..n)
    BY DEF later
  <2> QED BY <1>1, <2>1, FirstPosition
<1> HIDE DEF p
<1>5. /\ r \in Seq(AnEvent)
      /\ Len(r) = n + 1
      /\ \A i \in 1..(n + 1) : r[i] = IF i < p THEN s[i] ELSE IF i = p THEN e ELSE s[i - 1]
  BY <1>1, <1>4, InsertAtPosition
<1> HIDE DEF r
<1>6. \A i \in 1..n : s[i] \in AnEvent /\ s[i].size <= e.size
  BY <1>1, <1>2 DEF ToSet
<1>7. /\ \A i \in 1..n : s[i].t \in Int /\ s[i].size \in Nat
      /\ e.t \in Int /\ e.size \in Nat
  BY <1>6 DEF AnEvent
<1>8. \A i, j \in 1..n : i <= j => NotAfter(s[i], s[j])
  BY DEF Ordered
<1>9. ASSUME NEW i \in 1..n, i < p PROVE NotAfter(s[i], e)
  BY <1>4, <1>6, <1>7, <1>9 DEF NotAfter
<1>10. ASSUME NEW i \in 1..n, p <= i PROVE NotAfter(e, s[i])
  <2>1. p \in 1..n /\ s[p].t > e.t
    BY <1>1, <1>4, <1>10
  <2>2. NotAfter(s[p], s[i])
    BY <1>8, <1>10, <2>1
  <2> QED BY <1>7, <2>1, <2>2 DEF NotAfter
<1>11. ASSUME NEW i \in 1..(n + 1), NEW j \in 1..(n + 1), i <= j PROVE NotAfter(r[i], r[j])
  <2>0. p \in Nat /\ n \in Nat /\ i \in Nat /\ j \in Nat
    BY <1>1, <1>4
  <2>1. CASE j < p
    <3>1. r[i] = s[i] /\ r[j] = s[j] /\ i \in 1..n /\ j \in 1..n
      BY <1>4, <1>5, <1>11, <2>0, <2>1
    <3> QED BY <1>8, <1>11, <3>1
  <2>2. CASE j = p
    <3>1. r[j] = e
      BY <1>5, <2>0, <2>2
    <3>2. CASE i = p
      <4>1. r[i] = e
        BY <1>5, <2>0, <3>2
      <4> QED BY <1>7, <3>1, <4>1 DEF NotAfter
    <3>3. CASE i < p
      <4>1. r[i] = s[i] /\ i \in 1..n
        BY <1>4, <1>5, <2>0, <3>3
      <4> QED BY <1>9, <3>1, <3>3, <4>1
    <3> QED BY <1>11, <2>0, <2>2, <3>2, <3>3
  <2>3. CASE j > p
    <3>1. r[j] = s[j - 1] /\ j - 1 \in 1..n /\ p <= j - 1
      BY <1>4, <1>5, <2>0, <2>3
    <3>2. CASE i < p
      <4>1. r[i] = s[i] /\ i \in 1..n /\ i <= j - 1
        BY <1>4, <1>5, <2>0, <2>3, <3>2
      <4> QED BY <1>8, <3>1, <4>1
    <3>3. CASE i = p
      <4>1. r[i] = e
        BY <1>5, <2>0, <3>3
      <4> QED BY <1>10, <3>1, <4>1
    <3>4. CASE i > p
      <4>1. r[i] = s[i - 1] /\ i - 1 \in 1..n /\ i - 1 <= j - 1
        BY <1>4, <1>5, <1>11, <2>0, <3>4
      <4> QED BY <1>8, <3>1, <4>1
    <3> QED BY <2>0, <3>2, <3>3, <3>4
  <2> QED BY <2>0, <2>1, <2>2, <2>3
<1>12. Ordered(r)
  BY <1>5, <1>11 DEF Ordered
<1>13. ToSet(r) = ToSet(s) \cup {e}
  <2>1. DOMAIN r = 1..(n + 1)
    BY <1>1, <1>5
  <2>2. ASSUME NEW i \in 1..(n + 1) PROVE r[i] \in ToSet(s) \cup {e}
    <3>1. i < p => i \in 1..n
      BY <1>1, <1>4
    <3>2. i > p => i - 1 \in 1..n
      BY <1>1, <1>4
    <3> QED BY <1>1, <1>2, <1>4, <1>5, <3>1, <3>2 DEF ToSet
  <2>3. ASSUME NEW i \in 1..n PROVE s[i] \in ToSet(r)
    <3>1. CASE i < p
      <4>1. i \in 1..(n + 1) /\ r[i] = s[i]
        BY <1>1, <1>5, <3>1
      <4> QED BY <2>1, <4>1 DEF ToSet
    <3>2. CASE ~(i < p)
      <4>1. i + 1 \in 1..(n + 1) /\ ~(i + 1 < p) /\ i + 1 # p /\ (i + 1) - 1 = i
        BY <1>1, <1>4, <3>2
      <4>2. r[i + 1] = s[i]
        BY <1>5, <4>1
      <4> QED BY <2>1, <4>1, <4>2 DEF ToSet
    <3> QED BY <3>1, <3>2
  <2>4. r[p] = e /\ p \in 1..(n + 1)
    BY <1>1, <1>4, <1>5
  <2>5. ToSet(r) \subseteq ToSet(s) \cup {e}
    BY <2>1, <2>2 DEF ToSet
  <2>6. ToSet(s) \subseteq ToSet(r)
    BY <1>2, <2>3 DEF ToSet
  <2>7. e \in ToSet(r)
    BY <2>1, <2>4 DEF ToSet
  <2> QED BY <2>5, <2>6, <2>7
<1> QED BY <1>3, <1>12, <1>13

-----------------------------------------------------------------------------
(***************************************************************************)
(* Queries.                                                                *)
(***************************************************************************)
LEMMA WindowExact ==
  ASSUME NEW s, Ordered(s), NEW t0 \in Int, NEW t1 \in Int
  PROVE  LET found == WindowedCopy(s, t0, t1)
         IN  /\ ToSet(found) = {e \in ToSet(s) : e.t >= t0 /\ e.t <= t1}
             /\ Ordered(found)
             /\ Distinct(s) => Distinct(found)
<1>1. s \in Seq(AnEvent) /\ Len(s) \in Nat
  BY DEF Ordered
<1> DEFINE n == Len(s)
           reached == {i \in 1..n : s[i].t >= t0}
           from == Min(reached \cup {n + 1})
           beyond == {i \in from..n : s[i].t > t1}
           to == Min(beyond \cup {n + 1})
           found == SubSeq(s, from, to - 1)
<1>2. DOMAIN s = 1..n
  BY <1>1
<1>3. WindowedCopy(s, t0, t1) = found
  BY <1>2 DEF WindowedCopy
<1>4. /\ from \in 1..(n + 1)
      /\ from # n + 1 => from \in reached
      /\ \A i \in 1..n : i < from => i \notin reached
  <2> HIDE DEF reached
  <2>1. reached \in SUBSET (1..n)
    BY DEF reached
  <2> QED BY <1>1, <2>1, FirstPosition
<1> HIDE DEF from
<1>5. /\ to \in 1..(n + 1)
      /\ to # n + 1 => to \in beyond
      /\ \A i \in 1..n : i < to => i \notin beyond
  <2>1. beyond \in SUBSET (1..n)
    BY <1>1, <1>4
  <2> HIDE DEF beyond
  <2> QED BY <1>1, <2>1, FirstPosition
<1> HIDE DEF to
<1>6. from <= to /\ from \in Nat /\ to \in Nat
  BY <1>1, <1>4, <1>5
<1>7. /\ found \in Seq(AnEvent)
      /\ Len(found) = to - from
      /\ \A k \in 1..(to - from) : found[k] = s[from + k - 1]
  BY <1>1, <1>4, <1>5, <1>6
<1> HIDE DEF found
<1>8. \A i \in 1..n : s[i].t \in Int /\ s[i].size \in Nat
  <2>1. \A i \in 1..n : s[i] \in AnEvent
    BY <1>1, <1>2
  <2> QED BY <2>1 DEF AnEvent
<1>9. \A i, j \in 1..n : i <= j => s[i].t <= s[j].t
  BY <1>8 DEF Ordered, NotAfter
<1>10. ASSUME NEW i \in 1..n
       PROVE  (s[i].t >= t0 /\ s[i].t <= t1) <=> i \in from..(to - 1)
  <2>1. s[i].t \in Int
    BY <1>8
  <2>2. s[i].t >= t0 <=> from <= i
    <3>1. CASE from <= i
      <4>1. from \in 1..n /\ s[from].t >= t0 /\ s[from].t \in Int
        BY <1>1, <1>4, <1>8, <3>1
      <4>2. s[from].t <= s[i].t
        BY <1>9, <3>1, <4>1
      <4> QED BY <2>1, <3>1, <4>1, <4>2
    <3>2. CASE ~(from <= i)
      BY <1>4, <1>6, <2>1, <3>2
    <3> QED BY <3>1, <3>2
  <2>3. ASSUME from <= i PROVE s[i].t <= t1 <=> i < to
    <3>1. CASE to <= i
      <4>1. to \in 1..n /\ s[to].t > t1 /\ s[to].t \in Int
        BY <1>1, <1>5, <1>8, <3>1
      <4>2. s[to].t <= s[i].t
        BY <1>9, <3>1, <4>1
      <4> QED BY <1>6, <2>1, <3>1, <4>1, <4>2
    <3>2. CASE ~(to <= i)
      <4>1. i \notin beyond /\ i \in from..n
        BY <1>5, <1>6, <2>3, <3>2
      <4> QED BY <1>6, <2>1, <3>2, <4>1
    <3> QED BY <3>1, <3>2
  <2> QED BY <1>6, <2>2, <2>3
<1>11. DOMAIN found = 1..(to - from)
  BY <1>6, <1>7
<1>12. ToSet(found) = {e \in ToSet(s) : e.t >= t0 /\ e.t <= t1}
  <2>1. ASSUME NEW k \in 1..(to - from)
        PROVE  found[k] \in ToSet(s) /\ found[k].t >= t0 /\ found[k].t <= t1
    <3>1. from + k - 1 \in 1..n /\ from + k - 1 \in from..(to - 1)
      BY <1>1, <1>4, <1>5, <1>6
    <3>2. found[k] = s[from + k - 1]
      BY <1>7
    <3>3. s[from + k - 1].t >= t0 /\ s[from + k - 1].t <= t1
      BY <1>10, <3>1
    <3> QED BY <1>2, <3>1, <3>2, <3>3 DEF ToSet
  <2>2. ASSUME NEW i \in 1..n, s[i].t >= t0, s[i].t <= t1
        PROVE  s[i] \in ToSet(found)
    <3>1. i \in from..(to - 1)
      BY <1>10, <2>2
    <3>2. i - from + 1 \in 1..(to - from) /\ from + (i - from + 1) - 1 = i
      BY <1>6, <3>1
    <3>3. found[i - from + 1] = s[i]
      BY <1>7, <3>2
    <3> QED BY <1>11, <3>2, <3>3 DEF ToSet
  <2>3. \A e \in ToSet(found) : e \in ToSet(s) /\ e.t >= t0 /\ e.t <= t1
    BY <1>11, <2>1 DEF ToSet
  <2>4. \A e \in ToSet(s) : e.t >= t0 /\ e.t <= t1 => e \in ToSet(found)
    <3> SUFFICES ASSUME NEW e \in ToSet(s), e.t >= t0, e.t <= t1
                 PROVE  e \in ToSet(found)
      OBVIOUS
    <3>1. PICK i \in 1..n : e = s[i]
      BY <1>2 DEF ToSet
    <3> QED BY <2>2, <3>1
  <2> QED BY <2>3, <2>4
<1>13. Ordered(found)
  <2>1. ASSUME NEW i \in 1..Len(found), NEW j \in 1..Len(found), i <= j
        PROVE  NotAfter(found[i], found[j])
    <3>1. /\ from + i - 1 \in 1..n /\ from + j - 1 \in 1..n
          /\ from + i - 1 <= from + j - 1
      <4>1. PICK m \in Nat, a \in Nat, z \in Nat : m = n /\ a = from /\ z = to
        BY <1>1, <1>6
      <4>2. i \in 1..(z - a) /\ j \in 1..(z - a) /\ z <= m + 1 /\ a >= 1
        BY <1>4, <1>5, <1>7, <4>1
      <4>3. a + i - 1 \in 1..m /\ a + j - 1 \in 1..m /\ a + i - 1 <= a + j - 1
        BY <2>1, <4>1, <4>2
      <4> QED BY <4>1, <4>3
    <3>2. found[i] = s[from + i - 1] /\ found[j] = s[from + j - 1]
      BY <1>7
    <3>3. NotAfter(s[from + i - 1], s[from + j - 1])
      BY <3>1 DEF Ordered
    <3> QED BY <3>2, <3>3
  <2> QED BY <1>7, <2>1 DEF Ordered
<1>14. ASSUME Distinct(s) PROVE Distinct(found)
  <2> SUFFICES ASSUME NEW i \in 1..Len(found), NEW j \in 1..Len(found), found[i] = found[j]
               PROVE  i = j
    BY DEF Distinct
  <2>1. /\ from + i - 1 \in 1..n /\ from + j - 1 \in 1..n
        /\ from + i - 1 = from + j - 1 => i = j
    BY <1>1, <1>4, <1>5, <1>6, <1>7
  <2>2. found[i] = s[from + i - 1] /\ found[j] = s[from + j - 1]
    BY <1>7
  <2> QED BY <1>14, <2>1, <2>2 DEF Distinct
<1> QED BY <1>3, <1>12, <1>13, <1>14

-----------------------------------------------------------------------------
(***************************************************************************)
(* The inductive invariant: both indexes are ordered, each event is where  *)
(* its node and its flow say, and the packets recorded are numbered.       *)
(***************************************************************************)
IndexedByNode == UNION {ToSet(byNode[n]) : n \in Nodes}

LogInv ==
  /\ packets \in Nat
  /\ byNode \in [Nodes -> Seq(AnEvent)] /\ byFlow \in [Flows -> Seq(AnEvent)]
  /\ \A n \in Nodes : Ordered(byNode[n]) /\ \A e \in ToSet(byNode[n]) : e.node = n
  /\ \A f \in Flows : Ordered(byFlow[f]) /\ \A e \in ToSet(byFlow[f]) : e.flow = f
  /\ Recorded = IndexedByNode
  /\ \A e \in Recorded : e.size < packets
  /\ IsFiniteSet(Recorded) /\ Cardinality(Recorded) = 2 * packets

LEMMA InitLogInv == Init => LogInv
<1> SUFFICES ASSUME Init PROVE LogInv
  OBVIOUS
<1>1. packets = 0 /\ byNode = [n \in Nodes |-> <<>>] /\ byFlow = [f \in Flows |-> <<>>]
  BY DEF Init, LogInit
<1>2. Ordered(<<>>) /\ ToSet(<<>>) = {}
  BY DEF Ordered, ToSet
<1>3. (\A n \in Nodes : byNode[n] = <<>>) /\ (\A f \in Flows : byFlow[f] = <<>>)
  BY <1>1
<1>4. Recorded = {} /\ IndexedByNode = {}
  BY <1>2, <1>3 DEF Recorded, IndexedByNode
<1>5. IsFiniteSet({}) /\ Cardinality({}) = 0
  BY FS_EmptySet
<1>6. byNode \in [Nodes -> Seq(AnEvent)] /\ byFlow \in [Flows -> Seq(AnEvent)]
  BY <1>1
<1> QED BY <1>1, <1>2, <1>3, <1>4, <1>5, <1>6 DEF LogInv

\* An index over K with no event recorded after e.
Accepts(index, K, e) ==
  /\ index \in [K -> Seq(AnEvent)]
  /\ \A k \in K : Ordered(index[k]) /\ \A d \in ToSet(index[k]) : d.size <= e.size

\* The index new is the other one with e under a key.
Extends(new, index, K, key, e) ==
  /\ new \in [K -> Seq(AnEvent)]
  /\ \A k \in K :
       /\ Ordered(new[k])
       /\ ToSet(new[k]) = ToSet(index[k]) \cup (IF k = key THEN {e} ELSE {})

\* What inserting an event into an index does.
LEMMA InsertedExact ==
  ASSUME NEW K, NEW index, NEW key \in K, NEW e \in AnEvent, Accepts(index, K, e)
  PROVE  Extends(Inserted(index, key, e), index, K, key, e)
<1> DEFINE new == Inserted(index, key, e)
           changed == InsertSorted(index[key], e)
<1>1. Ordered(changed) /\ ToSet(changed) = ToSet(index[key]) \cup {e}
  BY InsertSortedOrdered DEF Accepts
<1>2. changed \in Seq(AnEvent)
  BY <1>1 DEF Ordered
<1> HIDE DEF changed
<1>3. new = [index EXCEPT ![key] = changed]
  BY DEF Inserted, changed
<1> HIDE DEF new
<1>4. new \in [K -> Seq(AnEvent)]
  BY <1>2, <1>3 DEF Accepts
<1>5. new[key] = changed /\ \A k \in K \ {key} : new[k] = index[k]
  BY <1>3 DEF Accepts
<1>6. \A k \in K : Ordered(new[k])
  BY <1>1, <1>5 DEF Accepts
<1>7. \A k \in K : ToSet(new[k]) = ToSet(index[k]) \cup (IF k = key THEN {e} ELSE {})
  <2> SUFFICES ASSUME NEW k \in K
               PROVE  ToSet(new[k]) = ToSet(index[k]) \cup (IF k = key THEN {e} ELSE {})
    OBVIOUS
  <2>1. CASE k = key
    BY <1>1, <1>5, <2>1
  <2>2. CASE k # key
    <3>1. ToSet(new[k]) = ToSet(index[k])
      BY <1>5, <2>2
    <3> QED BY <2>2, <3>1
  <2> QED BY <2>1, <2>2
<1>8. Extends(new, index, K, key, e)
  BY <1>4, <1>6, <1>7 DEF Extends
<1> QED BY <1>8 DEF new

\* Two events of one packet, the first one new to the index.
LEMMA InsertedTwice ==
  ASSUME NEW K, NEW index, NEW k1 \in K, NEW k2 \in K, NEW d \in AnEvent, NEW e \in AnEvent,
         d.size = e.size, Accepts(index, K, d)
  PROVE  \E mid : /\ Extends(mid, index, K, k1, d)
                  /\ Extends(Inserted(Inserted(index, k1, d), k2, e), mid, K, k2, e)
<1> DEFINE mid == Inserted(index, k1, d)
<1>1. Extends(mid, index, K, k1, d)
  BY InsertedExact
<1> HIDE DEF mid
<1>2. Accepts(mid, K, e)
  <2>1. mid \in [K -> Seq(AnEvent)] /\ \A k \in K : Ordered(mid[k])
    BY <1>1 DEF Extends
  <2>2. ASSUME NEW k \in K, NEW c \in ToSet(mid[k]) PROVE c.size <= e.size
    <3>1. c = d \/ c \in ToSet(index[k])
      BY <1>1, <2>2 DEF Extends
    <3>2. d.size \in Nat
      BY DEF AnEvent
    <3>3. c.size <= d.size
      BY <3>1, <3>2 DEF Accepts
    <3> QED BY <3>3
  <2> QED BY <2>1, <2>2 DEF Accepts
<1>3. Extends(Inserted(mid, k2, e), mid, K, k2, e)
  BY <1>2, InsertedExact
<1> QED BY <1>1, <1>3 DEF mid

LEMMA PacketLogInv ==
  ASSUME LogInv, NEW f \in DOMAIN SentAs, NEW t \in 0..Horizon, Packet(f, t)
  PROVE  LogInv'
<1> DEFINE sent == Event(t, SrcNode[f], FALSE, SentAs[f], packets)
           received == Event(t + Delay[f], DstNode[f], TRUE, f, packets)
<1>1. f \in Flows /\ SentAs[f] \in Flows /\ SrcNode[f] \in Nodes /\ DstNode[f] \in Nodes
      /\ Delay[f] \in Nat
  BY CorrelatorAssumption
<1>2. packets \in Nat /\ packets' = packets + 1
  BY DEF LogInv, Packet
<1>3. /\ sent \in AnEvent /\ received \in AnEvent
      /\ sent.size = packets /\ received.size = packets
      /\ sent.node = SrcNode[f] /\ received.node = DstNode[f]
      /\ sent.flow = SentAs[f] /\ received.flow = f
      /\ sent # received
  BY <1>1, <1>2 DEF AnEvent, Event
<1>4. /\ byNode' = Inserted(Inserted(byNode, sent.node, sent), received.node, received)
      /\ byFlow' = Inserted(Inserted(byFlow, sent.flow, sent), received.flow, received)
  BY DEF Packet, RecordBoth
<1> HIDE DEF sent, received
<1>5. \A e \in Recorded : e.size < packets
  BY DEF LogInv
<1>6. \A e \in IndexedByNode : e.size < packets
  BY <1>5 DEF LogInv
<1>7. Accepts(byNode, Nodes, sent)
  <2> SUFFICES ASSUME NEW n \in Nodes, NEW c \in ToSet(byNode[n])
               PROVE  c.size <= sent.size
    BY DEF LogInv, Accepts
  <2>1. c.size < packets
    BY <1>6 DEF IndexedByNode
  <2>2. c \in AnEvent
    BY DEF LogInv, ToSet
  <2> QED BY <1>2, <1>3, <2>1, <2>2 DEF AnEvent
<1>8. Accepts(byFlow, Flows, sent)
  <2> SUFFICES ASSUME NEW g \in Flows, NEW c \in ToSet(byFlow[g])
               PROVE  c.size <= sent.size
    BY DEF LogInv, Accepts
  <2>1. c.size < packets
    BY <1>5 DEF Recorded
  <2>2. c \in AnEvent
    BY DEF LogInv, ToSet
  <2> QED BY <1>2, <1>3, <2>1, <2>2 DEF AnEvent
<1>9. sent.size = received.size
  BY <1>3
<1>10. /\ byNode' \in [Nodes -> Seq(AnEvent)]
       /\ \A n \in Nodes : /\ Ordered(byNode'[n])
                           /\ ToSet(byNode'[n]) = ToSet(byNode[n])
                                \cup (IF n = sent.node THEN {sent} ELSE {})
                                \cup (IF n = received.node THEN {received} ELSE {})
  <2>1. sent.node \in Nodes /\ received.node \in Nodes
    BY <1>1, <1>3
  <2>2. PICK mid : /\ Extends(mid, byNode, Nodes, sent.node, sent)
                   /\ Extends(byNode', mid, Nodes, received.node, received)
    BY <1>3, <1>4, <1>7, <1>9, <2>1, InsertedTwice
  <2> QED BY <2>2 DEF Extends
<1>11. /\ byFlow' \in [Flows -> Seq(AnEvent)]
       /\ \A g \in Flows : /\ Ordered(byFlow'[g])
                           /\ ToSet(byFlow'[g]) = ToSet(byFlow[g])
                                \cup (IF g = sent.flow THEN {sent} ELSE {})
                                \cup (IF g = received.flow THEN {received} ELSE {})
  <2>1. sent.flow \in Flows /\ received.flow \in Flows
    BY <1>1, <1>3
  <2>2. PICK mid : /\ Extends(mid, byFlow, Flows, sent.flow, sent)
                   /\ Extends(byFlow', mid, Flows, received.flow, received)
    BY <1>3, <1>4, <1>8, <1>9, <2>1, InsertedTwice
  <2> QED BY <2>2 DEF Extends
<1>12. Recorded' = Recorded \cup {sent, received}
  <2>1. sent.flow \in Flows /\ received.flow \in Flows
    BY <1>1, <1>3
  <2> QED BY <1>11, <2>1 DEF Recorded
<1>13. IndexedByNode' = IndexedByNode \cup {sent, received}
  <2>1. sent.node \in Nodes /\ received.node \in Nodes
    BY <1>1, <1>3
  <2> QED BY <1>10, <2>1 DEF IndexedByNode
<1>14. Recorded' = IndexedByNode'
  BY <1>12, <1>13 DEF LogInv
<1>15. \A e \in Recorded' : e.size < packets'
  <2> SUFFICES ASSUME NEW e \in Recorded' PROVE e.size < packets'
    OBVIOUS
  <2>1. CASE e \in Recorded
    <3>1. e \in AnEvent
      BY <2>1 DEF LogInv, Recorded, ToSet
    <3> QED BY <1>2, <1>5, <2>1, <3>1 DEF AnEvent
  <2>2. CASE e \in {sent, received}
    BY <1>2, <1>3, <2>2
  <2> QED BY <1>12, <2>1, <2>2
<1>16. IsFiniteSet(Recorded') /\ Cardinality(Recorded') = 2 * packets'
  <2>1. IsFiniteSet(Recorded) /\ Cardinality(Recorded) = 2 * packets
    BY DEF LogInv
  <2>2. sent \notin Recorded /\ received \notin Recorded
    BY <1>2, <1>3, <1>5
  <2> DEFINE mid == Recorded \cup {sent}
  <2>3. IsFiniteSet(mid) /\ Cardinality(mid) = 2 * packets + 1
    BY <1>2, <2>1, <2>2, FS_AddElement
  <2>4. received \notin mid
    BY <1>3, <2>2
  <2> HIDE DEF mid
  <2>5. IsFiniteSet(mid \cup {received}) /\ Cardinality(mid \cup {received}) = 2 * packets + 1 + 1
    BY <1>2, <2>3, <2>4, FS_AddElement
  <2>6. Recorded' = mid \cup {received}
    BY <1>12 DEF mid
  <2> QED BY <1>2, <2>5, <2>6
<1>17. \A n \in Nodes : Ordered(byNode'[n]) /\ \A e \in ToSet(byNode'[n]) : e.node = n
  BY <1>10 DEF LogInv
<1>18. \A g \in Flows : Ordered(byFlow'[g]) /\ \A e \in ToSet(byFlow'[g]) : e.flow = g
  BY <1>11 DEF LogInv
<1>19. packets' \in Nat
  BY <1>2
<1> QED BY <1>10, <1>11, <1>14, <1>15, <1>16, <1>17, <1>18, <1>19 DEF LogInv

LEMMA LogInvAlways == Spec => []LogInv
<1>1. Init => LogInv
  BY InitLogInv
<1>2. LogInv /\ [Next]_vars => LogInv'
  <2> SUFFICES ASSUME LogInv, [Next]_vars PROVE LogInv'
    OBVIOUS
  <2>1. CASE Next
    BY <2>1, PacketLogInv DEF Next
  <2>2. CASE UNCHANGED vars
    <3>1. byNode' = byNode /\ byFlow' = byFlow /\ packets' = packets
      BY <2>2 DEF vars
    <3>2. Recorded' = Recorded /\ IndexedByNode' = IndexedByNode
      BY <3>1 DEF Recorded, IndexedByNode
    <3> QED BY <3>1, <3>2 DEF LogInv
  <2> QED BY <2>1, <2>2
<1> QED BY <1>1, <1>2, PTL DEF Spec

-----------------------------------------------------------------------------
\* Whatever was recorded in whatever order, a query by node or by flow
\* returns exactly the events of its closed window, and those of a flow by
\* time and, within an instant, in the order they were recorded.
THEOREM Queries == Spec => []QueriesExact
<1>1. LogInv => QueriesExact
  <2> SUFFICES ASSUME LogInv PROVE QueriesExact
    OBVIOUS
  <2>1. Recorded = UNION {ToSet(byNode[n]) : n \in Nodes} /\ Cardinality(Recorded) = 2 * packets
    BY DEF LogInv, IndexedByNode
  <2>2. ASSUME NEW t0 \in Instants, NEW t1 \in Instants, NEW n \in Nodes
        PROVE  ToSet(EventsAtNode(n, t0, t1))
                 = {e \in Recorded : e.node = n /\ e.t >= t0 /\ e.t <= t1}
    <3>1. t0 \in Int /\ t1 \in Int
      BY <2>2 DEF Instants
    <3>2. Ordered(byNode[n])
      BY DEF LogInv
    <3>3. ToSet(EventsAtNode(n, t0, t1)) = {e \in ToSet(byNode[n]) : e.t >= t0 /\ e.t <= t1}
      BY <3>1, <3>2, WindowExact DEF EventsAtNode
    <3>4. ToSet(byNode[n]) = {e \in Recorded : e.node = n}
      BY <2>1 DEF LogInv
    <3> QED BY <3>3, <3>4
  <2>3. ASSUME NEW t0 \in Instants, NEW t1 \in Instants, NEW f \in Flows
        PROVE  /\ ToSet(EventsForFlow(f, t0, t1))
                    = {e \in Recorded : e.flow = f /\ e.t >= t0 /\ e.t <= t1}
               /\ Ordered(EventsForFlow(f, t0, t1))
    <3>1. t0 \in Int /\ t1 \in Int
      BY <2>3 DEF Instants
    <3>2. Ordered(byFlow[f])
      BY DEF LogInv
    <3>3. /\ ToSet(EventsForFlow(f, t0, t1)) = {e \in ToSet(byFlow[f]) : e.t >= t0 /\ e.t <= t1}
          /\ Ordered(EventsForFlow(f, t0, t1))
      BY <3>1, <3>2, WindowExact DEF EventsForFlow
    <3>4. ToSet(byFlow[f]) = {e \in Recorded : e.flow = f}
      BY DEF LogInv, Recorded
    <3> QED BY <3>3, <3>4
  <2>4. ASSUME NEW found, Ordered(found), NEW i \in 2..Len(found)
        PROVE  \/ found[i - 1].t < found[i].t
               \/ found[i - 1].t = found[i].t /\ found[i - 1].size <= found[i].size
    <3>1. Len(found) \in Nat
      BY <2>4 DEF Ordered
    <3>2. i - 1 \in 1..Len(found) /\ i \in 1..Len(found) /\ i - 1 <= i
      BY <3>1
    <3> QED BY <2>4, <3>2 DEF Ordered, NotAfter
  <2> QED BY <2>1, <2>2, <2>3, <2>4 DEF QueriesExact
<1> QED BY <1>1, LogInvAlways, PTL

-----------------------------------------------------------------------------
(***************************************************************************)
(* Scores: an order on fractions, and the best of the scores over some     *)
(* lags, folded as the code does.                                          *)
(***************************************************************************)
Score == Int \X (Nat \ {0})

LEMMA Scaled ==
  ASSUME NEW x \in Int, NEW y \in Int, NEW z \in Nat \ {0}
  PROVE  x >= y <=> x * z >= y * z
OBVIOUS

LEMMA AtLeastTransitive ==
  ASSUME NEW s \in Score, NEW r \in Score, NEW q \in Score,
         AtLeastScore(s, r), AtLeastScore(r, q)
  PROVE  AtLeastScore(s, q)
<1>1. PICK a \in Int, b \in Nat \ {0} : s[1] = a /\ s[2] = b
  BY DEF Score
<1>2. PICK c \in Int, d \in Nat \ {0} : r[1] = c /\ r[2] = d
  BY DEF Score
<1>3. PICK e \in Int, f \in Nat \ {0} : q[1] = e /\ q[2] = f
  BY DEF Score
<1>4. a * d >= c * b /\ c * f >= e * d
  BY <1>1, <1>2, <1>3 DEF AtLeastScore
<1>5. (a * d) * f >= (c * b) * f /\ (c * f) * b >= (e * d) * b
  <2>1. a * d \in Int /\ c * b \in Int /\ c * f \in Int /\ e * d \in Int
    OBVIOUS
  <2> QED BY <1>4, <2>1, Scaled
<1>6. (a * d) * f = (a * f) * d /\ (c * b) * f = (c * f) * b /\ (e * d) * b = (e * b) * d
  OBVIOUS
<1>7. (a * f) * d >= (e * b) * d
  <2>1. (a * f) * d \in Int /\ (c * f) * b \in Int /\ (e * b) * d \in Int
    OBVIOUS
  <2> QED BY <1>5, <1>6, <2>1
<1>8. a * f >= e * b
  <2>1. a * f \in Int /\ e * b \in Int
    OBVIOUS
  <2> QED BY <1>7, <2>1, Scaled
<1> QED BY <1>1, <1>3, <1>8 DEF AtLeastScore

LEMMA AtLeastTotal ==
  ASSUME NEW s \in Score, NEW r \in Score
  PROVE  AtLeastScore(s, s) /\ (AtLeastScore(s, r) \/ AtLeastScore(r, s))
<1>1. s[1] * r[2] \in Int /\ r[1] * s[2] \in Int /\ s[1] * s[2] \in Int
  BY DEF Score
<1> QED BY <1>1 DEF AtLeastScore

LEMMA NoneIsScore == None \in Score
BY DEF None, Score

LEMMA BestIsGreatest ==
  ASSUME NEW L, IsFiniteSet(L), NEW score \in [L -> Score]
  PROVE  /\ BestOf(score) \in Score
         /\ AtLeastScore(BestOf(score), None)
         /\ \A lag \in L : AtLeastScore(BestOf(score), score[lag])
         /\ BestOf(score) = None \/ \E lag \in L : BestOf(score) = score[lag]
<1> DEFINE Loop(h) == [s \in SUBSET L |->
                         IF s = {} THEN None
                         ELSE LET x == CHOOSE x \in s : TRUE IN Better(score[x], h[s \ {x}])]
           best == CHOOSE h : h = Loop(h)
<1>1. BestOf(score) = best[L]
  <2>1. DOMAIN score = L
    OBVIOUS
  <2> QED BY <2>1 DEF BestOf, FoldSet, MapThenFoldSet
<1>2. \E h : h = Loop(h)
  <2> DEFINE step == [x \in L |-> [v \in Score |-> Better(score[x], v)]]
             pick == [s \in SUBSET L |-> Pick(s)]
  <2>1. ASSUME NEW x \in L, NEW v \in Score PROVE Better(score[x], v) \in Score
    BY DEF Better
  <2>2. step \in [L -> [Score -> Score]]
    BY <2>1
  <2>3. Picks(pick, L)
    BY PickIsMember DEF Picks
  <2>4. ASSUME NEW x \in L, NEW v \in Score PROVE step[x][v] = Better(score[x], v)
    OBVIOUS
  <2>5. \A s \in SUBSET L : pick[s] = Pick(s)
    OBVIOUS
  <2> HIDE DEF step, pick
  <2>6. PICK h \in [SUBSET L -> Score] : Folded(h, L, None, step, pick)
    BY <2>2, <2>3, NoneIsScore, FoldHasValue
  <2>7. ASSUME NEW s \in SUBSET L
        PROVE  h[s] = IF s = {} THEN None ELSE Better(score[Pick(s)], h[s \ {Pick(s)}])
    <3>1. CASE s = {}
      BY <2>6, <3>1 DEF Folded
    <3>2. CASE s # {}
      <4>1. PICK x \in s : x = Pick(s)
        BY <3>2, PickIsMember
      <4>2. h[s \ {x}] \in Score /\ x \in L
        OBVIOUS
      <4>3. h[s] = step[x][h[s \ {x}]]
        BY <2>5, <2>6, <3>2, <4>1 DEF Folded
      <4> QED BY <2>4, <3>2, <4>1, <4>2, <4>3
    <3> QED BY <3>1, <3>2
  <2>8. h = [s \in SUBSET L |-> IF s = {} THEN None ELSE Better(score[Pick(s)], h[s \ {Pick(s)}])]
    BY <2>7
  <2> QED BY <2>8 DEF Pick
<1>3. best = Loop(best)
  BY <1>2
<1>4. \A s \in SUBSET L :
        best[s] = IF s = {} THEN None ELSE Better(score[Pick(s)], best[s \ {Pick(s)}])
  BY <1>3 DEF Pick
<1> HIDE DEF best
<1> DEFINE Greatest(s) ==
             /\ best[s] \in Score
             /\ AtLeastScore(best[s], None)
             /\ \A lag \in s : AtLeastScore(best[s], score[lag])
             /\ best[s] = None \/ \E lag \in s : best[s] = score[lag]
           P == {s \in SUBSET L : Greatest(s)}
<1>5. {} \in P
  <2>1. best[{}] = None
    BY <1>4
  <2> QED BY <2>1, NoneIsScore, AtLeastTotal
<1>6. ASSUME NEW s \in SUBSET L, \A x \in s : s \ {x} \in P PROVE s \in P
  <2>1. CASE s # {}
    <3>1. PICK x \in s : x = Pick(s)
      BY <2>1, PickIsMember
    <3>2. PICK v \in Score : v = best[s \ {x}]
      BY <1>6
    <3>3. best[s] = Better(score[x], v)
      BY <1>4, <2>1, <3>1, <3>2
    <3>4. /\ AtLeastScore(v, None)
          /\ \A lag \in s \ {x} : AtLeastScore(v, score[lag])
          /\ v = None \/ \E lag \in s \ {x} : v = score[lag]
      BY <1>6, <3>2
    <3>5. PICK y \in Score : y = score[x]
      OBVIOUS
    <3>6. \A lag \in s : score[lag] \in Score
      OBVIOUS
    <3>7. CASE AtLeastScore(y, v)
      <4>1. best[s] = y
        BY <3>3, <3>5, <3>7 DEF Better
      <4>2. \A lag \in s \ {x} : AtLeastScore(y, score[lag])
        BY <3>4, <3>6, <3>7, AtLeastTransitive
      <4>3. AtLeastScore(y, None)
        BY <3>4, <3>7, NoneIsScore, AtLeastTransitive
      <4>4. AtLeastScore(y, y)
        BY AtLeastTotal
      <4> QED BY <3>5, <4>1, <4>2, <4>3, <4>4
    <3>8. CASE ~AtLeastScore(y, v)
      <4>1. best[s] = v
        BY <3>3, <3>5, <3>8 DEF Better
      <4>2. AtLeastScore(v, y)
        BY <3>8, AtLeastTotal
      <4> QED BY <3>4, <3>5, <4>1, <4>2
    <3> QED BY <3>7, <3>8
  <2> QED BY <1>5, <2>1
<1>7. P \in SUBSET SUBSET L
  OBVIOUS
<1> HIDE DEF P
<1>8. P = SUBSET L
  BY <1>5, <1>6, <1>7, SubsetInduction
<1>9. Greatest(L)
  BY <1>8 DEF P
<1> QED BY <1>1, <1>9

-----------------------------------------------------------------------------
(***************************************************************************)
(* A coefficient counts bits: with n positions of which A are set in one   *)
(* signal, B in the other and C in both, it is n C - A B over the product  *)
(* of n A - A A and n B - B B, and never above one.                        *)
(***************************************************************************)
AreBits(x, S) == \A i \in S : x[i] \in {0, 1}
IsProduct(z, x, y, S) == \A i \in S : z[i] = x[i] * y[i]

\* The four counts.
Counted(x, y, z, S) ==
  \E p, q, r, s \in Nat :
    /\ Cardinality(S) = p + q + r + s
    /\ SumOver(x, S) = p + r
    /\ SumOver(y, S) = p + s
    /\ SumOver(z, S) = p

LEMMA ProductOfBits ==
  ASSUME NEW S, NEW x, NEW y, NEW z, AreBits(x, S), AreBits(y, S), IsProduct(z, x, y, S)
  PROVE  \A i \in S : z[i] \in {0, 1} /\ x[i] \in Int /\ y[i] \in Int /\ z[i] \in Int
<1> SUFFICES ASSUME NEW i \in S
             PROVE  z[i] \in {0, 1} /\ x[i] \in Int /\ y[i] \in Int /\ z[i] \in Int
  OBVIOUS
<1>1. x[i] \in {0, 1} /\ y[i] \in {0, 1} /\ z[i] = x[i] * y[i]
  BY DEF AreBits, IsProduct
<1>2. PICK u \in {0, 1}, v \in {0, 1} : x[i] = u /\ y[i] = v
  BY <1>1
<1>3. u * v \in {0, 1}
  OBVIOUS
<1> QED BY <1>1, <1>2, <1>3

LEMMA BitsCounted ==
  ASSUME NEW S, IsFiniteSet(S), NEW x, NEW y, NEW z,
         AreBits(x, S), AreBits(y, S), IsProduct(z, x, y, S)
  PROVE  Counted(x, y, z, S)
<1> DEFINE P == {T \in SUBSET S : Counted(x, y, z, T)}
<1>1. {} \in P
  <2>1. Cardinality({}) = 0 /\ SumOver(x, {}) = 0 /\ SumOver(y, {}) = 0 /\ SumOver(z, {}) = 0
    BY FS_EmptySet, SumOverEmpty
  <2>2. Counted(x, y, z, {})
    <3>1. 0 \in Nat /\ 0 = 0 + 0 + 0 + 0 /\ 0 = 0 + 0
      OBVIOUS
    <3> QED BY <2>1, <3>1 DEF Counted
  <2> QED BY <2>2
<1>2. ASSUME NEW T \in SUBSET S, \A i \in T : T \ {i} \in P PROVE T \in P
  <2>1. CASE T # {}
    <3>1. PICK i \in T : TRUE
      BY <2>1
    <3>2. PICK p \in Nat, q \in Nat, r \in Nat, s \in Nat :
            /\ Cardinality(T \ {i}) = p + q + r + s
            /\ SumOver(x, T \ {i}) = p + r
            /\ SumOver(y, T \ {i}) = p + s
            /\ SumOver(z, T \ {i}) = p
      BY <1>2, <3>1 DEF Counted
    <3>3. IsFiniteSet(T)
      BY FS_Subset
    <3>4. Cardinality(T) = p + q + r + s + 1
      <4>1. Cardinality(T \ {i}) = Cardinality(T) - 1 /\ Cardinality(T) \in Nat
        BY <3>3, FS_RemoveElement, FS_CardinalityType
      <4> QED BY <3>2, <4>1
    <3>5. \A j \in T : x[j] \in Int /\ y[j] \in Int /\ z[j] \in Int
      BY ProductOfBits
    <3>6. /\ SumOver(x, T) = x[i] + (p + r)
          /\ SumOver(y, T) = y[i] + (p + s)
          /\ SumOver(z, T) = z[i] + p
      BY <3>2, <3>3, <3>5, SumOverRemove
    <3>7. x[i] \in {0, 1} /\ y[i] \in {0, 1} /\ z[i] = x[i] * y[i]
      BY DEF AreBits, IsProduct
    <3>8. CASE x[i] = 1 /\ y[i] = 1
      <4>1. z[i] = 1
        BY <3>7, <3>8
      <4>2. /\ Cardinality(T) = (p + 1) + q + r + s /\ SumOver(x, T) = (p + 1) + r
            /\ SumOver(y, T) = (p + 1) + s /\ SumOver(z, T) = p + 1 /\ p + 1 \in Nat
        BY <3>4, <3>6, <3>8, <4>1
      <4>3. Counted(x, y, z, T)
        BY <4>2 DEF Counted
      <4> QED BY <4>3
    <3>9. CASE x[i] = 1 /\ y[i] = 0
      <4>1. z[i] = 0
        BY <3>7, <3>9
      <4>2. /\ Cardinality(T) = p + q + (r + 1) + s /\ SumOver(x, T) = p + (r + 1)
            /\ SumOver(y, T) = p + s /\ SumOver(z, T) = p /\ r + 1 \in Nat
        BY <3>4, <3>6, <3>9, <4>1
      <4>3. Counted(x, y, z, T)
        BY <4>2 DEF Counted
      <4> QED BY <4>3
    <3>10. CASE x[i] = 0 /\ y[i] = 1
      <4>1. z[i] = 0
        BY <3>7, <3>10
      <4>2. /\ Cardinality(T) = p + q + r + (s + 1) /\ SumOver(x, T) = p + r
            /\ SumOver(y, T) = p + (s + 1) /\ SumOver(z, T) = p /\ s + 1 \in Nat
        BY <3>4, <3>6, <3>10, <4>1
      <4>3. Counted(x, y, z, T)
        BY <4>2 DEF Counted
      <4> QED BY <4>3
    <3>11. CASE x[i] = 0 /\ y[i] = 0
      <4>1. z[i] = 0
        BY <3>7, <3>11
      <4>2. /\ Cardinality(T) = p + (q + 1) + r + s /\ SumOver(x, T) = p + r
            /\ SumOver(y, T) = p + s /\ SumOver(z, T) = p /\ q + 1 \in Nat
        BY <3>4, <3>6, <3>11, <4>1
      <4>3. Counted(x, y, z, T)
        BY <4>2 DEF Counted
      <4> QED BY <4>3
    <3> QED BY <3>7, <3>8, <3>9, <3>10, <3>11
  <2> QED BY <1>1, <2>1
<1>3. P \in SUBSET SUBSET S
  OBVIOUS
<1> HIDE DEF P
<1>4. P = SUBSET S
  BY <1>1, <1>2, <1>3, SubsetInduction
<1>5. S \in P
  BY <1>4
<1> QED BY <1>5 DEF P

-----------------------------------------------------------------------------
Coefficient(n, A, B, AB) ==
  IF n < 2 \/ n * A - A * A <= 0 \/ n * B - B * B <= 0 THEN None
  ELSE <<SignedSquare(n * AB - A * B), (n * A - A * A) * (n * B - B * B)>>

LEMMA ProductGrows ==
  ASSUME NEW a \in Nat, NEW b \in Nat, NEW c \in Nat, NEW d \in Nat, a <= c, b <= d
  PROVE  a * b <= c * d /\ a * b \in Nat /\ c * d \in Nat
<1>1. a * b <= c * b /\ c * b <= c * d
  OBVIOUS
<1>2. a * b \in Nat /\ c * b \in Nat /\ c * d \in Nat
  OBVIOUS
<1> QED BY <1>1, <1>2

LEMMA AtMostOne ==
  ASSUME NEW p \in Nat, NEW q \in Nat, NEW r \in Nat, NEW s \in Nat,
         NEW n, n = p + q + r + s
  PROVE  LET c == Coefficient(n, p + r, p + s, p) IN c \in Score /\ c[1] <= c[2]
<1> DEFINE U == (p + r) * (q + s)
           V == (p + s) * (q + r)
           C == p * q - r * s
<1>1. /\ n * (p + r) - (p + r) * (p + r) = U
      /\ n * (p + s) - (p + s) * (p + s) = V
      /\ n * p - (p + r) * (p + s) = C
  OBVIOUS
<1>2. p * q <= U /\ p * q <= V /\ p * q \in Nat /\ U \in Nat /\ V \in Nat /\ r * s \in Nat
  <2>1. p <= p + r /\ q <= q + s /\ p <= p + s /\ q <= q + r
    OBVIOUS
  <2>2. p * q <= U /\ p * q \in Nat /\ U \in Nat
    BY <2>1, ProductGrows
  <2>3. p * q <= V /\ V \in Nat
    BY <2>1, ProductGrows
  <2>4. r * s \in Nat
    OBVIOUS
  <2> QED BY <2>2, <2>3, <2>4
<1>3. PICK u \in Nat, v \in Nat, m \in Nat, k \in Nat :
        u = U /\ v = V /\ m = p * q /\ k = r * s
  BY <1>2
<1>4. C = m - k
  BY <1>3
<1>5. m <= u /\ m <= v
  BY <1>2, <1>3
<1> DEFINE c == m - k
<1>6. SignedSquare(c) \in Int /\ SignedSquare(c) <= u * v /\ u * v \in Nat
  <2>1. CASE c < 0
    <3>1. c * c >= 0 /\ u * v >= 0 /\ c * c \in Int /\ u * v \in Nat
      OBVIOUS
    <3> QED BY <2>1, <3>1 DEF SignedSquare
  <2>2. CASE ~(c < 0)
    <3>1. c \in Nat /\ c <= u /\ c <= v
      BY <1>5, <2>2
    <3>2. c * c <= u * v /\ c * c \in Nat /\ u * v \in Nat
      BY <3>1, ProductGrows
    <3> QED BY <2>2, <3>2 DEF SignedSquare
  <2> QED BY <2>1, <2>2
<1>7. Coefficient(n, p + r, p + s, p)
        = IF n < 2 \/ u <= 0 \/ v <= 0 THEN None ELSE <<SignedSquare(c), u * v>>
  BY <1>1, <1>3, <1>4 DEF Coefficient
<1>8. CASE n < 2 \/ u <= 0 \/ v <= 0
  BY <1>7, <1>8, NoneIsScore DEF None
<1>9. CASE ~(n < 2 \/ u <= 0 \/ v <= 0)
  <2>1. u \in Nat \ {0} /\ v \in Nat \ {0}
    BY <1>9
  <2>2. u * v \in Nat \ {0}
    BY <2>1
  <2> HIDE DEF c
  <2> QED BY <1>6, <1>7, <1>9, <2>2 DEF Score
<1> QED BY <1>8, <1>9

-----------------------------------------------------------------------------
(***************************************************************************)
(* The online coefficient of two signals at a lag.                         *)
(***************************************************************************)
\* The positions compared at a lag.
LEMMA OverlapIs ==
  ASSUME NEW a \in Seq({0, 1}), NEW b \in Seq({0, 1}), NEW lag \in Int
  PROVE  /\ Overlap(a, b, lag) \in SUBSET (1..Len(a))
         /\ IsFiniteSet(Overlap(a, b, lag))
         /\ \A i \in Overlap(a, b, lag) : a[i] \in {0, 1} /\ b[i + lag] \in {0, 1}
<1>1. Overlap(a, b, lag) \in SUBSET (1..Len(a))
  BY DEF Overlap
<1>2. IsFiniteSet(1..Len(a))
  BY FS_Interval
<1>3. \A i \in Overlap(a, b, lag) : i \in DOMAIN a /\ i + lag \in DOMAIN b
  BY DEF Overlap
<1> QED BY <1>1, <1>2, <1>3, FS_Subset

SumsAt(a, b, lag, S) ==
  [n |-> Cardinality(S), A |-> SumOver(a, S),
   B |-> SumOver([i \in S |-> b[i + lag]], S),
   AB |-> SumOver([i \in S |-> a[i] * b[i + lag]], S)]

LEMMA OnlineScore ==
  ASSUME NEW a, NEW b, NEW lag
  PROVE  LET s == SumsAt(a, b, lag, Overlap(a, b, lag))
         IN  PearsonAtLag(a, b, lag) = Coefficient(s.n, s.A, s.B, s.AB)
<1> DEFINE S == Overlap(a, b, lag)
           n == Cardinality(S)
           A == MapThenSumSet(LAMBDA i : a[i], S)
           B == MapThenSumSet(LAMBDA i : [j \in S |-> b[j + lag]][i], S)
           AB == MapThenSumSet(LAMBDA i : [j \in S |-> a[j] * b[j + lag]][i], S)
<1>1. PearsonAtLag(a, b, lag)
        = IF n < 2 \/ n * A - A * A <= 0 \/ n * B - B * B <= 0 THEN None
          ELSE <<SignedSquare(n * AB - A * B), (n * A - A * A) * (n * B - B * B)>>
  BY DEF PearsonAtLag
<1>2. A = SumOver(a, S)
  BY DEF SumOver
<1>3. B = SumOver([i \in S |-> b[i + lag]], S)
  BY DEF SumOver
<1>4. AB = SumOver([i \in S |-> a[i] * b[i + lag]], S)
  BY DEF SumOver
<1> HIDE DEF n, A, B, AB
<1> QED BY <1>1, <1>2, <1>3, <1>4 DEF Coefficient, SumsAt, n

-----------------------------------------------------------------------------
(***************************************************************************)
(* Signals.                                                                *)
(***************************************************************************)
Bits == {0, 1}

LEMMA BucketsType ==
  ASSUME NEW t0 \in Int, NEW t1 \in Int, t0 <= t1
  PROVE  NumBuckets(t0, t1) \in Nat
<1>1. PICK x \in Nat : x = t1 - t0 + Bucket - 1
  BY CorrelatorAssumption
<1>2. x \div Bucket \in Nat
  BY CorrelatorAssumption
<1> QED BY <1>1, <1>2 DEF NumBuckets

LEMMA SignalType ==
  ASSUME NEW f, NEW t0 \in Int, NEW t1 \in Int, t0 <= t1
  PROVE  ComputeOnOffSignal(f, t0, t1) \in Seq(Bits)
<1>1. PICK n \in Nat : n = NumBuckets(t0, t1)
  BY BucketsType
<1> DEFINE events == EventsForFlow(f, t0, t1)
           Count(k) == Cardinality({i \in DOMAIN events : (events[i].t - t0) \div Bucket = k})
           s == [b \in 1..n |-> IF Count(b - 1) >= OnCount THEN 1 ELSE 0]
<1>2. ComputeOnOffSignal(f, t0, t1) = s
  BY <1>1 DEF ComputeOnOffSignal
<1> HIDE DEF Count
<1>3. s \in [1..n -> Bits]
  BY DEF Bits
<1> QED BY <1>2, <1>3

\* Sums of bits lie between none and all.
LEMMA SumOfBits ==
  ASSUME NEW S, IsFiniteSet(S), NEW x, AreBits(x, S)
  PROVE  SumOver(x, S) \in 0..Cardinality(S)
<1> DEFINE z == [i \in S |-> x[i] * x[i]]
<1>1. IsProduct(z, x, x, S)
  BY DEF IsProduct
<1> HIDE DEF z
<1>2. Counted(x, x, z, S)
  BY <1>1, BitsCounted
<1> QED BY <1>2 DEF Counted

LEMMA SumNotFlat ==
  ASSUME NEW S, IsFiniteSet(S), NEW x, AreBits(x, S),
         NEW i \in S, NEW j \in S, x[i] = 1, x[j] = 0
  PROVE  SumOver(x, S) \in 1..(Cardinality(S) - 1)
<1>1. /\ IsFiniteSet(S \ {i}) /\ IsFiniteSet(S \ {j})
      /\ Cardinality(S \ {j}) = Cardinality(S) - 1 /\ Cardinality(S \ {i}) = Cardinality(S) - 1
      /\ Cardinality(S) \in Nat
  BY FS_RemoveElement, FS_CardinalityType
<1>2. AreBits(x, S \ {i}) /\ AreBits(x, S \ {j})
  BY DEF AreBits
<1>3. SumOver(x, S \ {i}) \in 0..(Cardinality(S) - 1) /\ SumOver(x, S \ {j}) \in 0..(Cardinality(S) - 1)
  BY <1>1, <1>2, SumOfBits
<1>4. \A l \in S : x[l] \in Int
  BY DEF AreBits
<1>5. SumOver(x, S) = x[i] + SumOver(x, S \ {i}) /\ SumOver(x, S) = x[j] + SumOver(x, S \ {j})
  BY <1>4, SumOverRemove
<1> QED BY <1>1, <1>3, <1>5

LEMMA ScoreAtLag ==
  ASSUME NEW a \in Seq(Bits), NEW b \in Seq(Bits), NEW lag \in Int
  PROVE  LET c == PearsonAtLag(a, b, lag) IN c \in Score /\ c[1] <= c[2]
<1> DEFINE S == Overlap(a, b, lag)
           y == [i \in S |-> b[i + lag]]
           z == [i \in S |-> a[i] * b[i + lag]]
<1>1. IsFiniteSet(S) /\ \A i \in S : a[i] \in {0, 1} /\ b[i + lag] \in {0, 1}
  BY OverlapIs DEF Bits
<1> HIDE DEF S
<1>2. AreBits(a, S) /\ AreBits(y, S) /\ IsProduct(z, a, y, S)
  BY <1>1 DEF AreBits, IsProduct
<1>3. PearsonAtLag(a, b, lag)
        = Coefficient(Cardinality(S), SumOver(a, S), SumOver(y, S), SumOver(z, S))
  BY OnlineScore DEF SumsAt, S
<1> HIDE DEF y, z
<1>4. PICK p \in Nat, q \in Nat, r \in Nat, s \in Nat :
        /\ Cardinality(S) = p + q + r + s
        /\ SumOver(a, S) = p + r
        /\ SumOver(y, S) = p + s
        /\ SumOver(z, S) = p
  BY <1>1, <1>2, BitsCounted DEF Counted
<1> QED BY <1>3, <1>4, AtMostOne

-----------------------------------------------------------------------------
(***************************************************************************)
(* Delays: the score at the lag of the delay is one, which no other lag    *)
(* exceeds.                                                                *)
(***************************************************************************)
LEMMA BestAtLags ==
  ASSUME NEW a \in Seq(Bits), NEW b \in Seq(Bits),
         CountTransitions(a) >= MinTransitions, CountTransitions(b) >= MinTransitions,
         CountTransitions(a) \in Nat, CountTransitions(b) \in Nat
  PROVE  /\ Correlate(a, b) \in Score
         /\ Correlate(a, b)[1] <= Correlate(a, b)[2]
         /\ \A lag \in Lags : AtLeastScore(Correlate(a, b), PearsonAtLag(a, b, lag))
<1> DEFINE score == [lag \in Lags |-> PearsonAtLag(a, b, lag)]
<1>1. Lags \subseteq Int /\ IsFiniteSet(Lags)
  <2>1. MaxLag \in Int /\ -MaxLag \in Int
    BY CorrelatorAssumption
  <2>2. IsFiniteSet(-MaxLag..MaxLag)
    BY <2>1, FS_Interval
  <2> QED BY <2>1, <2>2 DEF Lags
<1>2. \A lag \in Lags : /\ score[lag] \in Score /\ score[lag][1] <= score[lag][2]
                        /\ score[lag] = PearsonAtLag(a, b, lag)
  BY <1>1, ScoreAtLag
<1>3. score \in [Lags -> Score]
  BY <1>2
<1>4. Correlate(a, b) = BestOf(score)
  BY CorrelatorAssumption DEF Correlate
<1> HIDE DEF score
<1>5. /\ BestOf(score) \in Score
      /\ \A lag \in Lags : AtLeastScore(BestOf(score), score[lag])
      /\ BestOf(score) = None \/ \E lag \in Lags : BestOf(score) = score[lag]
  BY <1>1, <1>3, BestIsGreatest
<1>6. None[1] <= None[2]
  BY DEF None
<1>7. BestOf(score)[1] <= BestOf(score)[2]
  BY <1>2, <1>5, <1>6
<1> QED BY <1>2, <1>4, <1>5, <1>7

-----------------------------------------------------------------------------
Turns(s) == {i \in 2..Len(s) : s[i] # s[i - 1]}

LEMMA TurnsFinite ==
  ASSUME NEW s, Len(s) \in Nat
  PROVE  IsFiniteSet(Turns(s)) /\ CountTransitions(s) = Cardinality(Turns(s)) /\ CountTransitions(s) \in Nat
<1>1. IsFiniteSet(2..Len(s)) /\ Turns(s) \in SUBSET (2..Len(s))
  BY FS_Interval DEF Turns
<1>2. IsFiniteSet(Turns(s))
  BY <1>1, FS_Subset
<1> QED BY <1>2, FS_CardinalityType DEF CountTransitions, Turns

LEMMA ShiftedKeeps ==
  ASSUME NEW s \in Seq(Bits), NEW k \in Nat, k <= Len(s)
  PROVE  LET kept == SubSeq(s, 1, Len(s) - k)
             b == Shifted(s, k)
         IN  /\ b \in Seq(Bits)
             /\ CountTransitions(s) \in Nat /\ CountTransitions(s) >= CountTransitions(kept)
             /\ CountTransitions(b) \in Nat /\ CountTransitions(b) >= CountTransitions(kept)
<1> DEFINE m == Len(s) - k
           kept == SubSeq(s, 1, m)
           b == Shifted(s, k)
<1>1. m \in Nat /\ m <= Len(s) /\ Len(s) \in Nat
  OBVIOUS
<1>2. /\ kept \in Seq(Bits) /\ Len(kept) = m
      /\ \A i \in 1..m : kept[i] = s[i]
  BY <1>1
<1>3. \A i \in 1..Len(s) : s[i] \in Bits
  OBVIOUS
<1>4. /\ b \in Seq(Bits) /\ Len(b) = Len(s)
      /\ \A i \in 1..Len(s) : b[i] = IF i - k \in 1..Len(s) THEN s[i - k] ELSE 0
  <2>1. b = [i \in 1..Len(s) |-> IF i - k \in 1..Len(s) THEN s[i - k] ELSE 0]
    BY DEF Shifted
  <2>2. b \in [1..Len(s) -> Bits]
    BY <1>3, <2>1 DEF Bits
  <2>3. b \in Seq(Bits) /\ Len(b) = Len(s)
    BY <1>1, <2>2
  <2> QED BY <2>1, <2>3
<1> HIDE DEF kept, b
<1>5. Turns(kept) \in SUBSET Turns(s)
  <2> SUFFICES ASSUME NEW i \in Turns(kept) PROVE i \in Turns(s)
    OBVIOUS
  <2>1. i \in 2..m /\ kept[i] # kept[i - 1]
    BY <1>2 DEF Turns
  <2>2. i \in 1..m /\ i - 1 \in 1..m /\ i \in 2..Len(s)
    BY <1>1, <2>1
  <2> QED BY <1>2, <2>1, <2>2 DEF Turns
<1>6. /\ IsFiniteSet(Turns(s)) /\ CountTransitions(s) = Cardinality(Turns(s))
      /\ CountTransitions(s) \in Nat
      /\ IsFiniteSet(Turns(b)) /\ CountTransitions(b) = Cardinality(Turns(b))
      /\ CountTransitions(b) \in Nat
      /\ IsFiniteSet(Turns(kept)) /\ CountTransitions(kept) = Cardinality(Turns(kept))
  BY <1>1, <1>2, <1>4, TurnsFinite
<1>7. Cardinality(Turns(kept)) <= Cardinality(Turns(s))
  BY <1>5, <1>6, FS_Subset
<1>8. Cardinality(Turns(kept)) <= Cardinality(Turns(b))
  <2> DEFINE f == [i \in Turns(kept) |-> i + k]
  <2>1. ASSUME NEW i \in Turns(kept) PROVE i + k \in Turns(b) /\ i \in Int
    <3>1. i \in 2..m /\ kept[i] # kept[i - 1]
      BY <1>2 DEF Turns
    <3>2. /\ i \in 1..m /\ i - 1 \in 1..m
          /\ i + k \in 2..Len(s) /\ (i + k) - 1 \in 1..Len(s) /\ i + k \in 1..Len(s)
          /\ (i + k) - k = i /\ ((i + k) - 1) - k = i - 1
          /\ i \in 1..Len(s) /\ i - 1 \in 1..Len(s)
      BY <1>1, <3>1
    <3>3. b[i + k] = s[i]
      BY <1>4, <3>2
    <3>4. b[(i + k) - 1] = s[i - 1]
      BY <1>4, <3>2
    <3> QED BY <1>2, <1>4, <3>1, <3>2, <3>3, <3>4 DEF Turns
  <2>2. f \in [Turns(kept) -> Turns(b)]
    BY <2>1
  <2>3. \A i, j \in Turns(kept) : f[i] = f[j] => i = j
    BY <2>1
  <2>4. f \in Injection(Turns(kept), Turns(b))
    <3> HIDE DEF f
    <3> QED BY <2>2, <2>3 DEF Injection, IsInjective
  <2> QED BY <1>6, <2>4, FS_Injection
<1> QED BY <1>4, <1>6, <1>7, <1>8 DEF kept, b

\* The score at the lag of the delay.
LEMMA PerfectAtDelay ==
  ASSUME NEW s \in Seq(Bits), NEW k \in Nat, k <= Len(s),
         NEW i \in 2..(Len(s) - k), s[i] # s[i - 1]
  PROVE  \E v \in Nat \ {0} : PearsonAtLag(s, Shifted(s, k), k) = <<v, v>>
<1> DEFINE m == Len(s) - k
           b == Shifted(s, k)
           S == 1..m
           y == [j \in S |-> b[j + k]]
           z == [j \in S |-> s[j] * b[j + k]]
<1>1. m \in Nat /\ m <= Len(s) /\ Len(s) \in Nat
  OBVIOUS
<1>2. b = [j \in 1..Len(s) |-> IF j - k \in 1..Len(s) THEN s[j - k] ELSE 0]
  BY DEF Shifted
<1>3. Len(b) = Len(s)
  <2>1. DOMAIN b = 1..Len(s)
    BY <1>2
  <2> QED BY <1>1, <1>2, <2>1
<1>4. Overlap(s, b, k) = S
  BY <1>1, <1>3 DEF Overlap
<1>5. ASSUME NEW j \in S
      PROVE  /\ s[j] \in {0, 1} /\ s[j] \in Int
             /\ b[j + k] = s[j] /\ s[j] * s[j] = s[j]
  <2>1. j + k \in 1..Len(s) /\ (j + k) - k = j /\ j \in 1..Len(s)
    BY <1>1
  <2>2. b[j + k] = s[j]
    BY <1>2, <2>1
  <2>3. s[j] \in {0, 1}
    BY <2>1 DEF Bits
  <2> QED BY <2>2, <2>3
<1> HIDE DEF b
<1>6. \A j \in S : s[j] \in Int /\ y[j] = s[j] /\ z[j] = s[j]
  BY <1>5
<1>7. IsFiniteSet(S) /\ Cardinality(S) = m
  BY <1>1, FS_Interval
<1>8. PearsonAtLag(s, b, k) = Coefficient(m, SumOver(s, S), SumOver(y, S), SumOver(z, S))
  BY <1>4, <1>7, OnlineScore DEF SumsAt
<1> HIDE DEF y, z
<1>9. SumOver(y, S) = SumOver(s, S) /\ SumOver(z, S) = SumOver(s, S)
  BY <1>6, <1>7, SumOverSame
<1>10. SumOver(s, S) \in 1..(m - 1)
  <2>1. i \in S /\ i - 1 \in S
    BY <1>1
  <2>2. AreBits(s, S)
    BY <1>5 DEF AreBits
  <2>3. CASE s[i] = 1 /\ s[i - 1] = 0
    BY <1>7, <2>1, <2>2, <2>3, SumNotFlat
  <2>4. CASE s[i] = 0 /\ s[i - 1] = 1
    BY <1>7, <2>1, <2>2, <2>4, SumNotFlat
  <2>5. s[i] \in {0, 1} /\ s[i - 1] \in {0, 1}
    BY <1>5, <2>1
  <2> QED BY <2>3, <2>4, <2>5
<1>11. PICK A \in Nat \ {0}, B \in Nat \ {0} : A = SumOver(s, S) /\ m = A + B
  <2>1. PICK A \in Nat \ {0} : A = SumOver(s, S) /\ A < m
    BY <1>1, <1>10
  <2>2. m - A \in Nat \ {0} /\ m = A + (m - A)
    BY <1>1, <2>1
  <2> QED BY <2>1, <2>2
<1>12. PICK v \in Nat \ {0} : v = A * B
  OBVIOUS
<1>13. m * A - A * A = v
  BY <1>11, <1>12
<1>14. v * v \in Nat \ {0}
  OBVIOUS
<1>15. SignedSquare(v) = v * v
  BY DEF SignedSquare
<1>16. Coefficient(m, A, A, A) = <<v * v, v * v>>
  <2>1. ~(m < 2) /\ ~(v <= 0)
    BY <1>11, <1>12
  <2> QED BY <1>13, <1>15, <2>1 DEF Coefficient
<1> QED BY <1>8, <1>9, <1>11, <1>14, <1>16 DEF b

\* A signal a relay repeats within the lag budget, the part of it still inside
\* the window not being flat, has the perfect score: whatever was logged, the
\* search over the lags of TimingCorrelator::Correlate does not miss it.
THEOREM DelaysTolerated == Spec => []DelayTolerated
<1>1. DelayTolerated
  <2> SUFFICES ASSUME NEW f \in Flows, NEW k \in 0..MaxLag,
                      LET s == Signal(f)
                      IN  CountTransitions(SubSeq(s, 1, Len(s) - k)) >= AtLeast1(MinTransitions)
               PROVE  LET s == Signal(f)
                          score == Correlate(s, Shifted(s, k))
                      IN  score[1] = score[2]
    BY DEF DelayTolerated
  <2>1. PICK s \in Seq(Bits) : s = Signal(f)
    <3>1. Horizon + 1 \in Int /\ 0 \in Int /\ 0 <= Horizon + 1
      BY CorrelatorAssumption
    <3> QED BY <3>1, SignalType DEF Signal
  <2> DEFINE kept == SubSeq(s, 1, Len(s) - k)
             b == Shifted(s, k)
  <2>2. CountTransitions(kept) >= AtLeast1(MinTransitions)
    BY <2>1
  <2>3. k \in Nat /\ k \in Lags /\ Len(s) \in Nat /\ MinTransitions \in Nat
    BY CorrelatorAssumption DEF Lags
  <2>4. Len(kept) \in Nat /\ Len(kept) = IF k <= Len(s) THEN Len(s) - k ELSE 0
    BY <2>3
  <2>5. Turns(kept) # {}
    <3>1. CountTransitions(kept) = Cardinality(Turns(kept)) /\ CountTransitions(kept) \in Nat
      BY <2>4, TurnsFinite
    <3>2. CountTransitions(kept) >= 1
      BY <2>2, <2>3, <3>1 DEF AtLeast1
    <3>3. Cardinality(Turns(kept)) # 0
      BY <3>1, <3>2
    <3> QED BY <3>3, FS_EmptySet
  <2>6. PICK i \in 2..Len(kept) : kept[i] # kept[i - 1]
    BY <2>5 DEF Turns
  <2>7. k <= Len(s) /\ Len(kept) = Len(s) - k
    BY <2>3, <2>4, <2>6
  <2>8. i \in 2..(Len(s) - k) /\ s[i] # s[i - 1]
    <3>1. \A j \in 1..(Len(s) - k) : kept[j] = s[j]
      BY <2>3, <2>7
    <3>2. i \in 1..(Len(s) - k) /\ i - 1 \in 1..(Len(s) - k)
      BY <2>3, <2>6, <2>7
    <3> QED BY <2>6, <2>7, <3>1, <3>2
  <2>9. PICK v \in Nat \ {0} : PearsonAtLag(s, b, k) = <<v, v>>
    BY <2>3, <2>7, <2>8, PerfectAtDelay
  <2>10. /\ b \in Seq(Bits)
         /\ CountTransitions(s) \in Nat /\ CountTransitions(s) >= CountTransitions(kept)
         /\ CountTransitions(b) \in Nat /\ CountTransitions(b) >= CountTransitions(kept)
    BY <2>3, <2>7, ShiftedKeeps
  <2>11. CountTransitions(s) >= MinTransitions /\ CountTransitions(b) >= MinTransitions
    <3>1. CountTransitions(kept) \in Nat
      BY <2>4, TurnsFinite
    <3>2. CountTransitions(kept) >= MinTransitions
      BY <2>2, <2>3, <3>1 DEF AtLeast1
    <3> QED BY <2>3, <2>10, <3>1, <3>2
  <2> HIDE DEF b, kept
  <2>12. PICK c \in Score : c = Correlate(s, b) /\ c[1] <= c[2] /\ AtLeastScore(c, <<v, v>>)
    BY <2>3, <2>9, <2>10, <2>11, BestAtLags
  <2>13. PICK x \in Int, w \in Nat \ {0} : c[1] = x /\ c[2] = w
    BY DEF Score
  <2>14. x * v >= w * v
    BY <2>12, <2>13 DEF AtLeastScore
  <2>15. x >= w
    BY <2>14, Scaled
  <2> QED BY <2>1, <2>12, <2>13, <2>15 DEF b
<1> QED BY <1>1, PTL

-----------------------------------------------------------------------------
(***************************************************************************)
(* No event is logged twice: packets differ by their number, and the send  *)
(* of a packet from its reception by the direction.                        *)
(***************************************************************************)
LEMMA InsertSortedDistinct ==
  ASSUME NEW s \in Seq(AnEvent), NEW e \in AnEvent, e \notin ToSet(s), Distinct(s)
  PROVE  Distinct(InsertSorted(s, e))
<1> DEFINE n == Len(s)
           later == {i \in 1..n : s[i].t > e.t}
           p == Min(later \cup {n + 1})
           r == InsertAt(s, p, e)
<1>1. DOMAIN s = 1..n /\ n \in Nat
  OBVIOUS
<1>2. InsertSorted(s, e) = r
  BY <1>1 DEF InsertSorted
<1>3. p \in 1..(n + 1)
  <2>1. later \in SUBSET (1..n)
    OBVIOUS
  <2> HIDE DEF later
  <2> QED BY <1>1, <2>1, FirstPosition
<1> HIDE DEF p
<1>4. /\ Len(r) = n + 1
      /\ \A i \in 1..(n + 1) : r[i] = IF i < p THEN s[i] ELSE IF i = p THEN e ELSE s[i - 1]
  BY <1>1, <1>3, InsertAtPosition
<1> HIDE DEF r
<1>5. \A i \in 1..n : s[i] # e
  BY <1>1 DEF ToSet
<1>6. ASSUME NEW i \in 1..(n + 1), NEW j \in 1..(n + 1), i < j PROVE r[i] # r[j]
  <2>0. p \in Nat /\ i \in Nat /\ j \in Nat
    BY <1>3
  <2>1. CASE j < p
    <3>1. r[i] = s[i] /\ r[j] = s[j] /\ i \in 1..n /\ j \in 1..n
      BY <1>1, <1>3, <1>4, <1>6, <2>0, <2>1
    <3> QED BY <1>6, <2>0, <3>1 DEF Distinct
  <2>2. CASE j = p
    <3>1. r[i] = s[i] /\ r[j] = e /\ i \in 1..n
      BY <1>1, <1>3, <1>4, <1>6, <2>0, <2>2
    <3> QED BY <1>5, <3>1
  <2>3. CASE j > p /\ i < p
    <3>1. r[i] = s[i] /\ r[j] = s[j - 1] /\ i \in 1..n /\ j - 1 \in 1..n /\ i # j - 1
      BY <1>1, <1>3, <1>4, <1>6, <2>0, <2>3
    <3> QED BY <3>1 DEF Distinct
  <2>4. CASE i = p
    <3>1. r[i] = e /\ r[j] = s[j - 1] /\ j - 1 \in 1..n
      BY <1>1, <1>3, <1>4, <1>6, <2>0, <2>4
    <3> QED BY <1>5, <3>1
  <2>5. CASE i > p
    <3>1. r[i] = s[i - 1] /\ r[j] = s[j - 1] /\ i - 1 \in 1..n /\ j - 1 \in 1..n /\ i - 1 # j - 1
      BY <1>1, <1>3, <1>4, <1>6, <2>0, <2>5
    <3> QED BY <3>1 DEF Distinct
  <2> QED BY <1>6, <2>0, <2>1, <2>2, <2>3, <2>4, <2>5
<1>7. Distinct(r)
  <2> SUFFICES ASSUME NEW i \in 1..Len(r), NEW j \in 1..Len(r), r[i] = r[j] PROVE i = j
    BY DEF Distinct
  <2>1. i \in 1..(n + 1) /\ j \in 1..(n + 1) /\ i \in Int /\ j \in Int
    BY <1>4
  <2>2. ~(i < j) /\ ~(j < i)
    BY <1>6, <2>1
  <2> QED BY <2>1, <2>2
<1> QED BY <1>2, <1>7

EachOnce == \A f \in Flows : Distinct(byFlow[f])

LEMMA InsertedOnce ==
  ASSUME NEW K, NEW index, NEW key \in K, NEW e \in AnEvent,
         index \in [K -> Seq(AnEvent)], e \notin ToSet(index[key]),
         \A k \in K : Distinct(index[k])
  PROVE  \A k \in K : Distinct(Inserted(index, key, e)[k])
<1> SUFFICES ASSUME NEW k \in K PROVE Distinct(Inserted(index, key, e)[k])
  OBVIOUS
<1>1. Inserted(index, key, e)[k] = IF k = key THEN InsertSorted(index[key], e) ELSE index[k]
  BY DEF Inserted
<1>2. Distinct(InsertSorted(index[key], e))
  BY InsertSortedDistinct
<1> QED BY <1>1, <1>2

LEMMA PacketOnce ==
  ASSUME LogInv, EachOnce, NEW f \in DOMAIN SentAs, NEW t \in 0..Horizon, Packet(f, t)
  PROVE  EachOnce'
<1> DEFINE sent == Event(t, SrcNode[f], FALSE, SentAs[f], packets)
           received == Event(t + Delay[f], DstNode[f], TRUE, f, packets)
<1>1. f \in Flows /\ SentAs[f] \in Flows /\ SrcNode[f] \in Nodes /\ DstNode[f] \in Nodes
      /\ Delay[f] \in Nat
  BY CorrelatorAssumption
<1>2. packets \in Nat
  BY DEF LogInv
<1>3. /\ sent \in AnEvent /\ received \in AnEvent
      /\ sent.size = packets /\ received.size = packets
      /\ sent.flow = SentAs[f] /\ received.flow = f
      /\ sent # received
  BY <1>1, <1>2 DEF AnEvent, Event
<1>4. byFlow' = Inserted(Inserted(byFlow, sent.flow, sent), received.flow, received)
  BY DEF Packet, RecordBoth
<1> HIDE DEF sent, received
<1>5. \A g \in Flows : sent \notin ToSet(byFlow[g]) /\ received \notin ToSet(byFlow[g])
  BY <1>2, <1>3 DEF LogInv, Recorded
<1>6. Accepts(byFlow, Flows, sent)
  <2> SUFFICES ASSUME NEW g \in Flows, NEW c \in ToSet(byFlow[g])
               PROVE  c.size <= sent.size
    BY DEF LogInv, Accepts
  <2>1. c.size < packets
    BY DEF LogInv, Recorded
  <2>2. c \in AnEvent
    BY DEF LogInv, ToSet
  <2> QED BY <1>2, <1>3, <2>1, <2>2 DEF AnEvent
<1> DEFINE mid == Inserted(byFlow, sent.flow, sent)
<1>7. Extends(mid, byFlow, Flows, sent.flow, sent)
  BY <1>1, <1>3, <1>6, InsertedExact
<1>8. \A g \in Flows : Distinct(mid[g])
  <2>1. byFlow \in [Flows -> Seq(AnEvent)] /\ sent \notin ToSet(byFlow[sent.flow])
    BY <1>1, <1>3, <1>5 DEF LogInv
  <2> QED BY <1>1, <1>3, <2>1, InsertedOnce DEF EachOnce
<1> HIDE DEF mid
<1>9. mid \in [Flows -> Seq(AnEvent)] /\ received \notin ToSet(mid[received.flow])
  BY <1>1, <1>3, <1>5, <1>7 DEF Extends
<1>10. byFlow' = Inserted(mid, received.flow, received)
  BY <1>4 DEF mid
<1>11. \A g \in Flows : Distinct(Inserted(mid, received.flow, received)[g])
  BY <1>1, <1>3, <1>8, <1>9, InsertedOnce
<1> QED BY <1>10, <1>11 DEF EachOnce

LEMMA EachOnceAlways == Spec => [](LogInv /\ EachOnce)
<1>1. Init => EachOnce
  <2> SUFFICES ASSUME Init, NEW f \in Flows PROVE Distinct(byFlow[f])
    BY DEF EachOnce
  <2>1. byFlow[f] = <<>>
    BY DEF Init, LogInit
  <2> QED BY <2>1 DEF Distinct
<1>2. LogInv /\ EachOnce /\ [Next]_vars => EachOnce'
  <2> SUFFICES ASSUME LogInv, EachOnce, [Next]_vars PROVE EachOnce'
    OBVIOUS
  <2>1. CASE Next
    BY <2>1, PacketOnce DEF Next
  <2>2. CASE UNCHANGED vars
    BY <2>2 DEF vars, EachOnce
  <2> QED BY <2>1, <2>2
<1> QED BY <1>1, <1>2, LogInvAlways, PTL DEF Spec

-----------------------------------------------------------------------------
(***************************************************************************)
(* The mirror sees the same signals: it counts events where the online     *)
(* program counts positions of a query.                                    *)
(***************************************************************************)
EventsOf(f, t0, t1) == {e \in Recorded : e.flow = f /\ e.t >= t0 /\ e.t <= t1}

LEMMA FlowWindow ==
  ASSUME LogInv, EachOnce, NEW f \in Flows, NEW t0 \in Int, NEW t1 \in Int
  PROVE  LET found == EventsForFlow(f, t0, t1)
         IN  /\ found \in Seq(AnEvent)
             /\ Distinct(found)
             /\ ToSet(found) = EventsOf(f, t0, t1)
<1>1. Ordered(byFlow[f]) /\ Distinct(byFlow[f])
  BY DEF LogInv, EachOnce
<1>2. /\ ToSet(EventsForFlow(f, t0, t1)) = {e \in ToSet(byFlow[f]) : e.t >= t0 /\ e.t <= t1}
      /\ Ordered(EventsForFlow(f, t0, t1))
      /\ Distinct(EventsForFlow(f, t0, t1))
  BY <1>1, WindowExact DEF EventsForFlow
<1>3. ToSet(byFlow[f]) = {e \in Recorded : e.flow = f}
  BY DEF LogInv, Recorded
<1> QED BY <1>2, <1>3 DEF Ordered, EventsOf

\* Counting positions of a sequence without repetition is counting its members.
LEMMA CountedByPosition ==
  ASSUME NEW s \in Seq(AnEvent), Distinct(s), NEW I \in SUBSET (DOMAIN s)
  PROVE  Cardinality({s[i] : i \in I}) = Cardinality(I)
<1> DEFINE E == {s[i] : i \in I}
           f == [i \in I |-> s[i]]
<1>1. DOMAIN s = 1..Len(s) /\ Len(s) \in Nat
  OBVIOUS
<1>2. IsFiniteSet(I)
  <2>1. IsFiniteSet(1..Len(s))
    BY <1>1, FS_Interval
  <2> QED BY <1>1, <2>1, FS_Subset
<1>3. f \in Injection(I, E) /\ f \in Surjection(I, E)
  <2>1. f \in [I -> E]
    OBVIOUS
  <2>2. \A i, j \in I : f[i] = f[j] => i = j
    BY <1>1 DEF Distinct
  <2>3. \A e \in E : \E i \in I : f[i] = e
    OBVIOUS
  <2> HIDE DEF f, E
  <2> QED BY <2>1, <2>2, <2>3 DEF Injection, Surjection, IsInjective
<1> HIDE DEF f
<1>4. ExistsBijection(I, E)
  BY <1>3 DEF ExistsBijection, Bijection
<1> QED BY <1>2, <1>4, FS_Bijection

LEMMA SignalsAgree ==
  ASSUME LogInv, EachOnce, NEW f \in Flows,
         NEW t0 \in Int, NEW t1 \in Int, NEW u0 \in Int, Aligned(t0, t1, u0)
  PROVE  compute_on_off_signal(f, u0, u0 + (t1 - t0)) = ComputeOnOffSignal(f, t0, t1)
<1> DEFINE events == EventsForFlow(f, t0, t1)
           I(k) == {i \in DOMAIN events : (events[i].t - t0) \div Bucket = k}
           u1 == u0 + (t1 - t0)
           E(k) == {e \in Recorded : /\ e.flow = f
                                     /\ u0 <= Written(e.t) /\ Written(e.t) <= u1
                                     /\ (Written(e.t) - u0) \div Bucket = k}
<1>1. /\ events \in Seq(AnEvent) /\ Distinct(events)
      /\ ToSet(events) = EventsOf(f, t0, t1)
  BY FlowWindow
<1>2. ASSUME NEW k PROVE Cardinality(E(k)) = Cardinality(I(k))
  <2>1. E(k) = {events[i] : i \in I(k)}
    <3>1. \A e \in Recorded : e.t \in Int
      <4> SUFFICES ASSUME NEW e \in Recorded PROVE e.t \in Int
        OBVIOUS
      <4>1. PICK g \in Flows : e \in ToSet(byFlow[g])
        BY DEF Recorded
      <4>2. byFlow[g] \in Seq(AnEvent)
        BY DEF LogInv
      <4>3. e \in AnEvent
        BY <4>1, <4>2 DEF ToSet
      <4> QED BY <4>3 DEF AnEvent
    <3>2. \A e \in Recorded :
            /\ t0 <= e.t /\ e.t <= t1 <=> u0 <= Written(e.t) /\ Written(e.t) <= u1
            /\ t0 <= e.t /\ e.t <= t1 => (Written(e.t) - u0) \div Bucket = (e.t - t0) \div Bucket
      BY DEF Aligned, InEngineWindow
    <3>3. ToSet(events) = {e \in Recorded : e.flow = f /\ t0 <= e.t /\ e.t <= t1}
      BY <1>1, <3>1 DEF EventsOf
    <3>4. E(k) = {e \in ToSet(events) : (e.t - t0) \div Bucket = k}
      BY <3>2, <3>3
    <3> HIDE DEF E, events
    <3> QED BY <3>4 DEF ToSet
  <2>2. I(k) \in SUBSET (DOMAIN events)
    OBVIOUS
  <2> HIDE DEF I, E, events
  <2> QED BY <1>1, <2>1, <2>2, CountedByPosition
<1>3. ComputeOnOffSignal(f, t0, t1)
        = [b \in 1..NumBuckets(t0, t1) |-> IF Cardinality(I(b - 1)) >= OnCount THEN 1 ELSE 0]
  BY DEF ComputeOnOffSignal
<1>4. compute_on_off_signal(f, u0, u1)
        = [b \in 1..NumBuckets(u0, u1) |-> IF Cardinality(E(b - 1)) >= OnCount THEN 1 ELSE 0]
  BY DEF compute_on_off_signal
<1>5. NumBuckets(u0, u1) = NumBuckets(t0, t1)
  <2>1. u1 - u0 = t1 - t0
    OBVIOUS
  <2> HIDE DEF u1
  <2> QED BY <2>1 DEF NumBuckets
<1> HIDE DEF I, E
<1> QED BY <1>2, <1>3, <1>4, <1>5

-----------------------------------------------------------------------------
\* Deviations.
LEMMA ProductExpanded ==
  ASSUME NEW n \in Int, NEW x \in Int, NEW y \in Int, NEW A \in Int, NEW B \in Int
  PROVE  (n * x - A) * (n * y - B) = n * n * (x * y) - n * B * x - n * A * y + A * B
OBVIOUS

IsDeviations(d, x, y, n, A, B, S) ==
  \A i \in S : d[i] = (n * x[i] - A) * (n * y[i] - B)

LEMMA SumOfDeviations ==
  ASSUME NEW S, IsFiniteSet(S), NEW x, NEW y, NEW z, NEW d,
         NEW n \in Int, NEW A \in Int, NEW B \in Int,
         AreBits(x, S), AreBits(y, S), IsProduct(z, x, y, S),
         IsDeviations(d, x, y, n, A, B, S)
  PROVE  SumOver(d, S) = n * n * SumOver(z, S) - n * B * SumOver(x, S) - n * A * SumOver(y, S)
                         + Cardinality(S) * (A * B)
<1> DEFINE Holds(T) ==
             SumOver(d, T) = n * n * SumOver(z, T) - n * B * SumOver(x, T) - n * A * SumOver(y, T)
                             + Cardinality(T) * (A * B)
           P == {T \in SUBSET S : Holds(T)}
<1>1. {} \in P
  <2>1. /\ Cardinality({}) = 0 /\ SumOver(x, {}) = 0 /\ SumOver(y, {}) = 0 /\ SumOver(z, {}) = 0
        /\ SumOver(d, {}) = 0
    BY FS_EmptySet, SumOverEmpty
  <2>2. 0 = n * n * 0 - n * B * 0 - n * A * 0 + 0 * (A * B)
    OBVIOUS
  <2> QED BY <2>1, <2>2
<1>2. \A i \in S : x[i] \in Int /\ y[i] \in Int /\ z[i] \in Int /\ d[i] \in Int
  <2> SUFFICES ASSUME NEW i \in S
               PROVE  x[i] \in Int /\ y[i] \in Int /\ z[i] \in Int /\ d[i] \in Int
    OBVIOUS
  <2>1. x[i] \in Int /\ y[i] \in Int /\ z[i] \in Int
    BY ProductOfBits
  <2>2. PICK u \in Int, v \in Int : u = n * x[i] - A /\ v = n * y[i] - B
    BY <2>1
  <2>3. d[i] = u * v
    BY <2>2 DEF IsDeviations
  <2> QED BY <2>1, <2>3
<1>3. ASSUME NEW T \in SUBSET S, \A i \in T : T \ {i} \in P PROVE T \in P
  <2>1. CASE T # {}
    <3>1. PICK i \in T : TRUE
      BY <2>1
    <3>2. IsFiniteSet(T) /\ IsFiniteSet(T \ {i})
      BY FS_Subset
    <3>3. PICK c \in Int : Cardinality(T \ {i}) = c /\ Cardinality(T) = c + 1
      <4>1. Cardinality(T \ {i}) = Cardinality(T) - 1 /\ Cardinality(T) \in Nat
        BY <3>2, FS_RemoveElement, FS_CardinalityType
      <4> QED BY <4>1
    <3>4. PICK X \in Int, Y \in Int, Z \in Int, D \in Int :
            /\ X = SumOver(x, T \ {i}) /\ Y = SumOver(y, T \ {i})
            /\ Z = SumOver(z, T \ {i}) /\ D = SumOver(d, T \ {i})
      BY <1>2, <3>2, SumOverType
    <3>5. /\ SumOver(x, T) = x[i] + X /\ SumOver(y, T) = y[i] + Y
          /\ SumOver(z, T) = z[i] + Z /\ SumOver(d, T) = d[i] + D
      BY <1>2, <3>2, <3>4, SumOverRemove
    <3>6. D = n * n * Z - n * B * X - n * A * Y + c * (A * B)
      BY <1>3, <3>3, <3>4
    <3>7. PICK u \in Int, v \in Int, w \in Int, e \in Int :
            u = x[i] /\ v = y[i] /\ w = z[i] /\ e = d[i]
      BY <1>2
    <3>8. w = u * v /\ e = n * n * w - n * B * u - n * A * v + A * B
      <4>1. w = u * v /\ e = (n * u - A) * (n * v - B)
        BY <3>7 DEF IsProduct, IsDeviations
      <4> QED BY <4>1, ProductExpanded
    <3>9. e + D = n * n * (w + Z) - n * B * (u + X) - n * A * (v + Y) + (c + 1) * (A * B)
      BY <3>6, <3>8
    <3>10. Holds(T)
      BY <3>3, <3>5, <3>7, <3>9
    <3> QED BY <3>10
  <2> QED BY <1>1, <2>1
<1>4. P \in SUBSET SUBSET S
  OBVIOUS
<1> HIDE DEF P
<1>5. P = SUBSET S
  BY <1>1, <1>3, <1>4, SubsetInduction
<1>6. S \in P
  BY <1>5
<1> QED BY <1>6 DEF P

-----------------------------------------------------------------------------
(***************************************************************************)
(* The coefficient from deviations: each is n times its value, so that the *)
(* sums are those of the online coefficient times n, and the fraction the  *)
(* same.                                                                   *)
(***************************************************************************)
Same(s, r) == AtLeastScore(s, r) /\ AtLeastScore(r, s)

\* The positions compared, by both programs.
LEMMA RangeIsOverlap ==
  ASSUME NEW a \in Seq(Bits), NEW b \in Seq(Bits), NEW lag \in Int
  PROVE  (Max({0, -lag}) + 1)..Min({Len(a), Len(b) - lag}) = Overlap(a, b, lag)
<1>1. PICK m \in Nat, n \in Nat : m = Len(a) /\ n = Len(b)
  OBVIOUS
<1>2. Max({0, -lag}) = IF -lag >= 0 THEN -lag ELSE 0
  <2>1. CASE -lag >= 0
    <3>1. -lag \in {0, -lag} /\ \A y \in {0, -lag} : -lag >= y
      BY <2>1
    <3>2. \A x \in {0, -lag} : (\A y \in {0, -lag} : x >= y) => x = -lag
      BY <2>1
    <3> QED BY <2>1, <3>1, <3>2 DEF Max
  <2>2. CASE ~(-lag >= 0)
    <3>1. 0 \in {0, -lag} /\ \A y \in {0, -lag} : 0 >= y
      BY <2>2
    <3>2. \A x \in {0, -lag} : (\A y \in {0, -lag} : x >= y) => x = 0
      BY <2>2
    <3> QED BY <2>2, <3>1, <3>2 DEF Max
  <2> QED BY <2>1, <2>2
<1>3. Min({m, n - lag}) = IF m <= n - lag THEN m ELSE n - lag
  <2>1. CASE m <= n - lag
    <3>1. m \in {m, n - lag} /\ \A y \in {m, n - lag} : m <= y
      BY <2>1
    <3>2. \A x \in {m, n - lag} : (\A y \in {m, n - lag} : x <= y) => x = m
      BY <2>1
    <3> QED BY <2>1, <3>1, <3>2 DEF Min
  <2>2. CASE ~(m <= n - lag)
    <3>1. n - lag \in {m, n - lag} /\ \A y \in {m, n - lag} : n - lag <= y
      BY <2>2
    <3>2. \A x \in {m, n - lag} : (\A y \in {m, n - lag} : x <= y) => x = n - lag
      BY <2>2
    <3> QED BY <2>2, <3>1, <3>2 DEF Min
  <2> QED BY <2>1, <2>2
<1>4. \A i \in Int : i \in (Max({0, -lag}) + 1)..Min({m, n - lag}) <=> i \in 1..m /\ i + lag \in 1..n
  BY <1>2, <1>3
<1>5. (Max({0, -lag}) + 1)..Min({m, n - lag}) \subseteq Int
  BY <1>2, <1>3
<1>6. Overlap(a, b, lag) = {i \in 1..m : i + lag \in 1..n}
  BY <1>1 DEF Overlap
<1> DEFINE R == (Max({0, -lag}) + 1)..Min({m, n - lag})
<1>7. R = {i \in 1..m : i + lag \in 1..n}
  <2>1. \A i \in Int : i \in R <=> i \in 1..m /\ i + lag \in 1..n
    BY <1>4
  <2>2. R \subseteq Int
    BY <1>5
  <2> HIDE DEF R
  <2>3. \A i \in R : i \in {k \in 1..m : k + lag \in 1..n}
    BY <2>1, <2>2
  <2>4. \A i \in {k \in 1..m : k + lag \in 1..n} : i \in R
    BY <2>1
  <2> QED BY <2>3, <2>4
<1> QED BY <1>1, <1>6, <1>7

\* Multiplying covariance and variances by the number of positions squared.
LEMMA ScaledCoefficient ==
  ASSUME NEW n \in Nat \ {0}, NEW c \in Int, NEW u \in Nat \ {0}, NEW v \in Nat \ {0}
  PROVE  /\ Same(<<SignedSquare(c), u * v>>, <<SignedSquare(n * c), (n * u) * (n * v)>>)
         /\ <<SignedSquare(n * c), (n * u) * (n * v)>> \in Score
<1>1. SignedSquare(n * c) = (n * n) * SignedSquare(c) /\ SignedSquare(n * c) \in Int
      /\ SignedSquare(c) \in Int
  <2>1. n * c \in Int /\ (c < 0 <=> n * c < 0) /\ (n * c) * (n * c) = (n * n) * (c * c)
        /\ c * c \in Int
    OBVIOUS
  <2>2. CASE c < 0
    <3>1. (n * n) * (-(c * c)) = -((n * n) * (c * c))
      OBVIOUS
    <3> QED BY <2>1, <2>2, <3>1 DEF SignedSquare
  <2>3. CASE ~(c < 0)
    BY <2>1, <2>3 DEF SignedSquare
  <2> QED BY <2>2, <2>3
<1>2. PICK q \in Int : q = SignedSquare(c)
  BY <1>1
<1>3. (n * u) * (n * v) = (n * n) * (u * v) /\ u * v \in Nat \ {0} /\ n * n \in Nat \ {0}
  OBVIOUS
<1>4. PICK w \in Nat \ {0}, m \in Nat \ {0} : w = u * v /\ m = n * n
  BY <1>3
<1>5. m * w \in Nat \ {0} /\ q * (m * w) = (m * q) * w /\ m * q \in Int /\ q * (m * w) \in Int
  OBVIOUS
<1>6. SignedSquare(n * c) = m * q /\ (n * u) * (n * v) = m * w
  BY <1>1, <1>2, <1>3, <1>4
<1>7. Same(<<q, w>>, <<m * q, m * w>>) /\ <<m * q, m * w>> \in Score
  BY <1>5 DEF Same, AtLeastScore, Score
<1> QED BY <1>2, <1>4, <1>6, <1>7

LEMMA NonePlain == Same(None, None) /\ None \in Score
BY AtLeastTotal, NoneIsScore DEF Same

LEMMA ScoresAgree ==
  ASSUME NEW a \in Seq(Bits), NEW b \in Seq(Bits), NEW lag \in Int
  PROVE  /\ pearson_at_lag(a, b, lag) \in Score
         /\ Same(PearsonAtLag(a, b, lag), pearson_at_lag(a, b, lag))
<1> DEFINE S == (Max({0, -lag}) + 1)..Min({Len(a), Len(b) - lag})
           n == Cardinality(S)
           y == [i \in S |-> b[i + lag]]
           z == [i \in S |-> a[i] * b[i + lag]]
           A == MapThenSumSet(LAMBDA i : a[i], S)
           B == MapThenSumSet(LAMBDA i : y[i], S)
           da == [i \in S |-> n * a[i] - A]
           db == [i \in S |-> n * b[i + lag] - B]
           dab == [i \in S |-> da[i] * db[i]]
           daa == [i \in S |-> da[i] * da[i]]
           dbb == [i \in S |-> db[i] * db[i]]
           cov == MapThenSumSet(LAMBDA i : dab[i], S)
           varA == MapThenSumSet(LAMBDA i : daa[i], S)
           varB == MapThenSumSet(LAMBDA i : dbb[i], S)
<1>1. pearson_at_lag(a, b, lag)
        = IF n < 2 \/ varA <= 0 \/ varB <= 0 THEN None ELSE <<SignedSquare(cov), varA * varB>>
  BY DEF pearson_at_lag
<1>2. A = SumOver(a, S) /\ B = SumOver(y, S)
  BY DEF SumOver
<1>3. cov = SumOver(dab, S) /\ varA = SumOver(daa, S) /\ varB = SumOver(dbb, S)
  BY DEF SumOver
<1>4. PearsonAtLag(a, b, lag) = Coefficient(n, SumOver(a, S), SumOver(y, S), SumOver(z, S))
  BY RangeIsOverlap, OnlineScore DEF SumsAt
<1>5. S = Overlap(a, b, lag)
  BY RangeIsOverlap
<1> HIDE DEF S, A, B, cov, varA, varB
<1>6. IsFiniteSet(S) /\ \A i \in S : a[i] \in {0, 1} /\ b[i + lag] \in {0, 1}
  BY <1>5, OverlapIs DEF Bits
<1>7. AreBits(a, S) /\ AreBits(y, S)
  BY <1>6 DEF AreBits
<1>8. /\ IsProduct(z, a, y, S) /\ IsProduct(a, a, a, S) /\ IsProduct(y, y, y, S)
  BY <1>6 DEF IsProduct
<1>9. n \in Nat /\ A \in Int /\ B \in Int
  <2>1. n \in Nat
    BY <1>6, FS_CardinalityType
  <2>2. SumOver(a, S) \in 0..n /\ SumOver(y, S) \in 0..n
    BY <1>6, <1>7, SumOfBits
  <2> QED BY <1>2, <2>1, <2>2
<1>10. /\ IsDeviations(dab, a, y, n, A, B, S)
       /\ IsDeviations(daa, a, a, n, A, A, S)
       /\ IsDeviations(dbb, y, y, n, B, B, S)
  BY DEF IsDeviations
<1> HIDE DEF y, z, dab, daa, dbb, n
<1>11. PICK Z \in Int : Z = SumOver(z, S)
  <2>1. \A i \in S : z[i] \in Int
    BY <1>7, <1>8, ProductOfBits
  <2> QED BY <1>6, <2>1, SumOverType
<1>12. /\ cov = n * n * Z - n * B * A - n * A * B + n * (A * B)
       /\ varA = n * n * A - n * A * A - n * A * A + n * (A * A)
       /\ varB = n * n * B - n * B * B - n * B * B + n * (B * B)
  <2>1. cov = n * n * SumOver(z, S) - n * B * SumOver(a, S) - n * A * SumOver(y, S)
              + Cardinality(S) * (A * B)
    BY <1>3, <1>6, <1>7, <1>8, <1>9, <1>10, SumOfDeviations
  <2>2. varA = n * n * SumOver(a, S) - n * A * SumOver(a, S) - n * A * SumOver(a, S)
               + Cardinality(S) * (A * A)
    BY <1>3, <1>6, <1>7, <1>8, <1>9, <1>10, SumOfDeviations
  <2>3. varB = n * n * SumOver(y, S) - n * B * SumOver(y, S) - n * B * SumOver(y, S)
               + Cardinality(S) * (B * B)
    BY <1>3, <1>6, <1>7, <1>8, <1>9, <1>10, SumOfDeviations
  <2> QED BY <1>2, <1>11, <2>1, <2>2, <2>3 DEF n
<1>13. PICK c \in Int, u \in Int, v \in Int :
         c = n * Z - A * B /\ u = n * A - A * A /\ v = n * B - B * B
  BY <1>9, <1>11
<1>14. cov = n * c /\ varA = n * u /\ varB = n * v
  <2>1. n * n * Z - n * B * A - n * A * B + n * (A * B) = n * (n * Z - A * B)
    BY <1>9, <1>11
  <2>2. n * n * A - n * A * A - n * A * A + n * (A * A) = n * (n * A - A * A)
    BY <1>9
  <2>3. n * n * B - n * B * B - n * B * B + n * (B * B) = n * (n * B - B * B)
    BY <1>9
  <2> QED BY <1>12, <1>13, <2>1, <2>2, <2>3
<1>15. PearsonAtLag(a, b, lag)
         = IF n < 2 \/ u <= 0 \/ v <= 0 THEN None ELSE <<SignedSquare(c), u * v>>
  BY <1>2, <1>4, <1>11, <1>13 DEF Coefficient
<1>16. pearson_at_lag(a, b, lag)
         = IF n < 2 \/ n * u <= 0 \/ n * v <= 0 THEN None
           ELSE <<SignedSquare(n * c), (n * u) * (n * v)>>
  BY <1>1, <1>14
<1>17. CASE n < 2
  BY <1>15, <1>16, <1>17, NonePlain
<1>18. CASE ~(n < 2)
  <2>1. n \in Nat \ {0}
    BY <1>9, <1>18
  <2>2. (n * u <= 0 <=> u <= 0) /\ (n * v <= 0 <=> v <= 0)
    BY <2>1
  <2>3. CASE u <= 0 \/ v <= 0
    BY <1>15, <1>16, <2>2, <2>3, NonePlain
  <2>4. CASE ~(u <= 0 \/ v <= 0)
    <3>1. u \in Nat \ {0} /\ v \in Nat \ {0}
      BY <2>4
    <3>2. /\ Same(<<SignedSquare(c), u * v>>, <<SignedSquare(n * c), (n * u) * (n * v)>>)
          /\ <<SignedSquare(n * c), (n * u) * (n * v)>> \in Score
      BY <2>1, <3>1, ScaledCoefficient
    <3> QED BY <1>15, <1>16, <1>18, <2>2, <2>4, <3>2
  <2> QED BY <2>3, <2>4
<1> QED BY <1>17, <1>18, <1>9

LEMMA CorrelationsAgree ==
  ASSUME NEW a \in Seq(Bits), NEW b \in Seq(Bits)
  PROVE  /\ Correlate(a, b) \in Score /\ correlate(a, b) \in Score
         /\ AtLeastScore(Correlate(a, b), None)
         /\ Same(Correlate(a, b), correlate(a, b))
<1> DEFINE online == [lag \in Lags |-> PearsonAtLag(a, b, lag)]
           offline == [lag \in Lags |-> pearson_at_lag(a, b, lag)]
           flat == CountTransitions(a) < MinTransitions \/ CountTransitions(b) < MinTransitions
<1>1. Lags \subseteq Int /\ IsFiniteSet(Lags) /\ Lags = -MaxLag..MaxLag
  <2>1. MaxLag \in Int /\ -MaxLag \in Int
    BY CorrelatorAssumption
  <2>2. IsFiniteSet(-MaxLag..MaxLag)
    BY <2>1, FS_Interval
  <2> QED BY <2>1, <2>2 DEF Lags
<1>2. Correlate(a, b) = IF flat THEN None ELSE BestOf(online)
  BY DEF Correlate
<1>3. correlate(a, b) = IF flat THEN None ELSE BestOf(offline)
  BY <1>1 DEF correlate
<1>4. \A lag \in Lags : /\ online[lag] \in Score /\ offline[lag] \in Score
                        /\ Same(online[lag], offline[lag])
  BY <1>1, ScoreAtLag, ScoresAgree
<1>5. online \in [Lags -> Score] /\ offline \in [Lags -> Score]
  BY <1>4
<1> HIDE DEF online, offline, flat
<1>6. PICK c \in Score : /\ c = BestOf(online) /\ AtLeastScore(c, None)
                         /\ \A lag \in Lags : AtLeastScore(c, online[lag])
                         /\ c = None \/ \E lag \in Lags : c = online[lag]
  BY <1>1, <1>5, BestIsGreatest
<1>7. PICK d \in Score : /\ d = BestOf(offline) /\ AtLeastScore(d, None)
                         /\ \A lag \in Lags : AtLeastScore(d, offline[lag])
                         /\ d = None \/ \E lag \in Lags : d = offline[lag]
  BY <1>1, <1>5, BestIsGreatest
<1>8. AtLeastScore(c, d)
  <2>1. ASSUME NEW lag \in Lags, d = offline[lag] PROVE AtLeastScore(c, d)
    BY <1>4, <1>6, <2>1, AtLeastTransitive DEF Same
  <2> QED BY <1>6, <1>7, <2>1
<1>9. AtLeastScore(d, c)
  <2>1. ASSUME NEW lag \in Lags, c = online[lag] PROVE AtLeastScore(d, c)
    BY <1>4, <1>7, <2>1, AtLeastTransitive DEF Same
  <2> QED BY <1>6, <1>7, <2>1
<1>10. Same(c, d)
  BY <1>8, <1>9 DEF Same
<1>11. AtLeastScore(None, None)
  BY NonePlain DEF Same
<1> QED BY <1>2, <1>3, <1>6, <1>7, <1>10, <1>11, NonePlain

-----------------------------------------------------------------------------
(***************************************************************************)
(* The flows a query of a node names.                                      *)
(***************************************************************************)
LEMMA MaxIsMember ==
  ASSUME NEW n \in Nat, NEW s \in SUBSET (1..n), s # {}
  PROVE  Max(s) \in s
<1>1. IsFiniteSet(s) /\ s \in SUBSET Nat
  <2>1. IsFiniteSet(1..n)
    BY FS_Interval
  <2>2. s \in SUBSET Nat
    OBVIOUS
  <2> QED BY <2>1, <2>2, FS_Subset
<1>2. PICK m \in s : \A k \in s : k <= m
  BY <1>1, GreatestNatural
<1>3. \A k \in s : m >= k
  BY <1>1, <1>2
<1> QED BY <1>3 DEF Max

LEMMA AddedFlow ==
  ASSUME NEW fl \in Seq(Flows), NEW f \in Flows
  PROVE  LET r == IF Contains(fl, f) THEN fl ELSE Append(fl, f)
         IN  r \in Seq(Flows) /\ ToSet(r) = ToSet(fl) \cup {f}
<1>1. DOMAIN fl = 1..Len(fl) /\ Len(fl) \in Nat
  OBVIOUS
<1>2. CASE Contains(fl, f)
  BY <1>1, <1>2 DEF Contains, ToSet
<1>3. CASE ~Contains(fl, f)
  <2>1. PICK r : r = Append(fl, f) /\ r \in Seq(Flows)
    <3>1. Append(fl, f) \in Seq(Flows)
      OBVIOUS
    <3> QED BY <3>1
  <2>2. /\ DOMAIN r = 1..(Len(fl) + 1)
        /\ \A i \in 1..Len(fl) : r[i] = fl[i]
        /\ r[Len(fl) + 1] = f
    BY <1>1, <2>1
  <2>3. ASSUME NEW i \in 1..(Len(fl) + 1) PROVE r[i] \in ToSet(fl) \cup {f}
    <3>1. CASE i \in 1..Len(fl)
      BY <1>1, <2>2, <3>1 DEF ToSet
    <3>2. CASE i = Len(fl) + 1
      BY <2>2, <3>2
    <3> QED BY <1>1, <3>1, <3>2
  <2>4. ASSUME NEW i \in 1..Len(fl) PROVE fl[i] \in ToSet(r)
    <3>1. i \in 1..(Len(fl) + 1) /\ r[i] = fl[i]
      BY <1>1, <2>2
    <3> QED BY <2>2, <3>1 DEF ToSet
  <2>5. Len(fl) + 1 \in 1..(Len(fl) + 1)
    BY <1>1
  <2>6. ToSet(r) \subseteq ToSet(fl) \cup {f}
    BY <2>2, <2>3 DEF ToSet
  <2>7. ToSet(fl) \subseteq ToSet(r)
    BY <1>1, <2>4 DEF ToSet
  <2>8. f \in ToSet(r)
    BY <2>2, <2>5 DEF ToSet
  <2> QED BY <1>3, <2>1, <2>6, <2>7, <2>8
<1> QED BY <1>2, <1>3

LEMMA FlowsAtNodeExact ==
  ASSUME LogInv, NEW n \in Nodes, NEW t0 \in Int, NEW t1 \in Int
  PROVE  /\ FlowsAtNode(n, t0, t1) \in Seq(Flows)
         /\ ToSet(FlowsAtNode(n, t0, t1))
              = {e.flow : e \in {d \in Recorded : d.node = n /\ d.t >= t0 /\ d.t <= t1}}
<1> DEFINE events == EventsAtNode(n, t0, t1)
           AddFlow(fl, e) == IF Contains(fl, e.flow) THEN fl ELSE Append(fl, e.flow)
           D == DOMAIN events
           Loop(h) == [s \in SUBSET D |->
                         IF s = {} THEN <<>>
                         ELSE LET x == Max(s) IN AddFlow(h[s \ {x}], events[x])]
           result == CHOOSE h : h = Loop(h)
<1>1. FlowsAtNode(n, t0, t1) = result[D]
  BY DEF FlowsAtNode, FoldLeft, MapThenFoldSet
<1>2. /\ events \in Seq(AnEvent)
      /\ ToSet(events) = {e \in Recorded : e.node = n /\ e.t >= t0 /\ e.t <= t1}
  <2>1. Ordered(byNode[n])
    BY DEF LogInv
  <2>2. /\ ToSet(events) = {e \in ToSet(byNode[n]) : e.t >= t0 /\ e.t <= t1}
        /\ Ordered(events)
    BY <2>1, WindowExact DEF EventsAtNode
  <2>3. ToSet(byNode[n]) = {e \in Recorded : e.node = n}
    BY DEF LogInv, IndexedByNode
  <2> HIDE DEF events
  <2> QED BY <2>2, <2>3 DEF Ordered
<1> HIDE DEF events
<1>3. /\ D = 1..Len(events) /\ Len(events) \in Nat
      /\ IsFiniteSet(D)
      /\ \A i \in D : events[i].flow \in Flows
  <2>1. D = 1..Len(events) /\ Len(events) \in Nat
    BY <1>2
  <2>2. \A i \in D : events[i] \in AnEvent
    BY <1>2
  <2> HIDE DEF D
  <2>3. IsFiniteSet(D)
    BY <2>1, FS_Interval
  <2>4. \A i \in D : events[i].flow \in Flows
    BY <2>2 DEF AnEvent
  <2> QED BY <2>1, <2>3, <2>4
<1>4. \A s \in SUBSET D : s # {} => Max(s) \in s
  BY <1>3, MaxIsMember
<1> HIDE DEF D
<1>5. ASSUME NEW i \in D, NEW v \in Seq(Flows)
      PROVE  /\ AddFlow(v, events[i]) \in Seq(Flows)
             /\ ToSet(AddFlow(v, events[i])) = ToSet(v) \cup {events[i].flow}
  BY <1>3, AddedFlow
<1> HIDE DEF AddFlow
<1>6. \E h : h = Loop(h)
  <2> DEFINE step == [i \in D |-> [v \in Seq(Flows) |-> AddFlow(v, events[i])]]
             pick == [s \in SUBSET D |-> Max(s)]
  <2>1. step \in [D -> [Seq(Flows) -> Seq(Flows)]] /\ <<>> \in Seq(Flows)
    BY <1>5
  <2>2. Picks(pick, D)
    BY <1>4 DEF Picks
  <2>3. ASSUME NEW i \in D, NEW v \in Seq(Flows) PROVE step[i][v] = AddFlow(v, events[i])
    OBVIOUS
  <2>4. \A s \in SUBSET D : pick[s] = Max(s)
    OBVIOUS
  <2> HIDE DEF step, pick
  <2>5. PICK h \in [SUBSET D -> Seq(Flows)] : Folded(h, D, <<>>, step, pick)
    BY <1>3, <2>1, <2>2, FoldHasValue
  <2>6. ASSUME NEW s \in SUBSET D
        PROVE  h[s] = IF s = {} THEN <<>> ELSE AddFlow(h[s \ {Max(s)}], events[Max(s)])
    <3>1. CASE s = {}
      BY <2>5, <3>1 DEF Folded
    <3>2. CASE s # {}
      <4>1. PICK x \in s : x = Max(s)
        BY <1>4, <3>2
      <4>2. h[s \ {x}] \in Seq(Flows) /\ x \in D
        OBVIOUS
      <4>3. h[s] = step[x][h[s \ {x}]]
        BY <2>4, <2>5, <3>2, <4>1 DEF Folded
      <4> QED BY <2>3, <3>2, <4>1, <4>2, <4>3
    <3> QED BY <3>1, <3>2
  <2>7. h = [s \in SUBSET D |->
               IF s = {} THEN <<>> ELSE AddFlow(h[s \ {Max(s)}], events[Max(s)])]
    BY <2>6
  <2> QED BY <2>7
<1>7. result = Loop(result)
  BY <1>6
<1>8. \A s \in SUBSET D :
        result[s] = IF s = {} THEN <<>> ELSE AddFlow(result[s \ {Max(s)}], events[Max(s)])
  BY <1>7
<1> HIDE DEF result
<1> DEFINE P == {s \in SUBSET D : /\ result[s] \in Seq(Flows)
                                  /\ ToSet(result[s]) = {events[i].flow : i \in s}}
<1>9. {} \in P
  <2>1. result[{}] = <<>>
    BY <1>8
  <2>2. <<>> \in Seq(Flows) /\ ToSet(<<>>) = {}
    BY DEF ToSet
  <2> QED BY <2>1, <2>2
<1>10. ASSUME NEW s \in SUBSET D, \A x \in s : s \ {x} \in P PROVE s \in P
  <2>1. CASE s # {}
    <3>1. PICK x \in s : x = Max(s)
      BY <1>4, <2>1
    <3>2. PICK v \in Seq(Flows) : /\ v = result[s \ {x}]
                                  /\ ToSet(v) = {events[i].flow : i \in s \ {x}}
      BY <1>10
    <3>3. result[s] = AddFlow(v, events[x])
      BY <1>8, <2>1, <3>1, <3>2
    <3>4. result[s] \in Seq(Flows) /\ ToSet(result[s]) = ToSet(v) \cup {events[x].flow}
      BY <1>5, <3>3
    <3>5. ToSet(result[s]) = {events[i].flow : i \in s}
      BY <3>2, <3>4
    <3> QED BY <3>4, <3>5
  <2> QED BY <1>9, <2>1
<1>11. P \in SUBSET SUBSET D
  OBVIOUS
<1> HIDE DEF P
<1>12. P = SUBSET D
  BY <1>3, <1>9, <1>10, <1>11, SubsetInduction
<1>13. result[D] \in Seq(Flows) /\ ToSet(result[D]) = {events[i].flow : i \in D}
  BY <1>12 DEF P
<1>14. {events[i].flow : i \in D} = {e.flow : e \in ToSet(events)}
  BY DEF ToSet, D
<1> QED BY <1>1, <1>2, <1>13, <1>14

-----------------------------------------------------------------------------
(***************************************************************************)
(* The search goes through those flows and keeps the best.                 *)
(***************************************************************************)
Choice == [flow : Flows \cup {""}, score : Score, valid : {FALSE}]

\* The best of the eligible flows at some positions.
BestFound(m, s, flows, eligible, scores) ==
  /\ m \in Choice
  /\ AtLeastScore(m.score, None)
  /\ \A i \in s : flows[i] \in eligible => AtLeastScore(m.score, scores[flows[i]])
  /\ \/ m = NoMatch
     \/ \E i \in s : flows[i] \in eligible /\ m.flow = flows[i] /\ m.score = scores[flows[i]]

LEMMA Considered ==
  ASSUME NEW flows, NEW s, NEW x, x \notin s, NEW eligible, NEW scores,
         \A i \in s \cup {x} : flows[i] \in Flows /\ scores[flows[i]] \in Score,
         NEW m, BestFound(m, s, flows, eligible, scores)
  PROVE  LET f == flows[x]
         IN  BestFound(IF f \notin eligible \/ AtLeastScore(m.score, scores[f]) THEN m
                       ELSE [m EXCEPT !.flow = f, !.score = scores[f]],
                       s \cup {x}, flows, eligible, scores)
<1> DEFINE f == flows[x]
<1>1. PICK q \in Score : q = scores[f]
  OBVIOUS
<1>2. m \in Choice /\ m.score \in Score
  BY DEF BestFound, Choice
<1>3. CASE f \notin eligible \/ AtLeastScore(m.score, q)
  BY <1>1, <1>3 DEF BestFound
<1>4. CASE ~(f \notin eligible \/ AtLeastScore(m.score, q))
  <2> DEFINE r == [m EXCEPT !.flow = f, !.score = q]
  <2>1. r \in Choice /\ r.flow = f /\ r.score = q
    BY <1>2 DEF Choice
  <2>2. AtLeastScore(q, m.score) /\ AtLeastScore(q, q)
    BY <1>2, <1>4, AtLeastTotal
  <2>3. AtLeastScore(q, None)
    BY <1>2, <2>2, NoneIsScore, AtLeastTransitive DEF BestFound
  <2>4. ASSUME NEW i \in s, flows[i] \in eligible PROVE AtLeastScore(q, scores[flows[i]])
    <3>1. AtLeastScore(m.score, scores[flows[i]]) /\ scores[flows[i]] \in Score
      BY <2>4 DEF BestFound
    <3> QED BY <1>2, <2>2, <3>1, AtLeastTransitive
  <2> HIDE DEF r
  <2>5. BestFound(r, s \cup {x}, flows, eligible, scores)
    BY <1>1, <1>4, <2>1, <2>2, <2>3, <2>4 DEF BestFound
  <2> QED BY <1>1, <1>4, <2>5 DEF r
<1> QED BY <1>1, <1>3, <1>4

AreScores(scores, r, t0, t1) ==
  \A f \in Flows : scores[f] = Correlate(ComputeOnOffSignal(r, t0, t1),
                                         ComputeOnOffSignal(f, t0, t1))

EligibleFlows(r, n, t0, t1, exclude) ==
  {f \in Flows : f # r /\ f \notin exclude /\ ReceivedAt(f, n, t0, t1)}

\* What the search answers, from the flows it goes through.
IsBest(match, flows, eligible, scores) ==
  \E m : /\ BestFound(m, DOMAIN flows, flows, eligible, scores)
         /\ match = [m EXCEPT !.valid = AtLeastScore(m.score, Threshold)]

LEMMA BestMatch ==
  ASSUME NEW r, NEW n, NEW t0, NEW t1, NEW exclude,
         FlowsAtNode(n, t0, t1) \in Seq(Flows),
         NEW scores \in [Flows -> Score], AreScores(scores, r, t0, t1)
  PROVE  IsBest(FindBestUpstreamMatch(r, n, t0, t1, exclude), FlowsAtNode(n, t0, t1),
                EligibleFlows(r, n, t0, t1, exclude), scores)
<1> DEFINE refSignal == ComputeOnOffSignal(r, t0, t1)
           Eligible(f) == /\ f # r
                          /\ f \notin exclude
                          /\ ReceivedAt(f, n, t0, t1)
           Consider(best, f) ==
             LET score == Correlate(refSignal, ComputeOnOffSignal(f, t0, t1))
             IN  IF ~Eligible(f) \/ AtLeastScore(best.score, score) THEN best
                 ELSE [best EXCEPT !.flow = f, !.score = score]
           flows == FlowsAtNode(n, t0, t1)
           eligible == EligibleFlows(r, n, t0, t1, exclude)
           best == FoldLeft(Consider, NoMatch, flows)
           D == DOMAIN flows
           Loop(h) == [s \in SUBSET D |->
                         IF s = {} THEN NoMatch
                         ELSE LET x == Max(s) IN Consider(h[s \ {x}], flows[x])]
           result == CHOOSE h : h = Loop(h)
<1>1. FindBestUpstreamMatch(r, n, t0, t1, exclude)
        = [best EXCEPT !.valid = AtLeastScore(best.score, Threshold)]
  BY DEF FindBestUpstreamMatch
<1>2. ASSUME NEW m, NEW f \in Flows
      PROVE  Consider(m, f) = IF f \notin eligible \/ AtLeastScore(m.score, scores[f]) THEN m
                              ELSE [m EXCEPT !.flow = f, !.score = scores[f]]
  <2>1. f \in eligible <=> Eligible(f)
    BY DEF EligibleFlows
  <2>2. scores[f] = Correlate(refSignal, ComputeOnOffSignal(f, t0, t1))
    BY DEF AreScores
  <2> HIDE DEF Eligible, refSignal, eligible
  <2> QED BY <2>1, <2>2
<1> HIDE DEF Consider, eligible
<1>3. best = result[D]
  BY DEF FoldLeft, MapThenFoldSet
<1> HIDE DEF best
<1>4. /\ D = 1..Len(flows) /\ Len(flows) \in Nat
      /\ IsFiniteSet(D)
      /\ \A i \in D : flows[i] \in Flows /\ scores[flows[i]] \in Score
  <2>1. D = 1..Len(flows) /\ Len(flows) \in Nat /\ \A i \in D : flows[i] \in Flows
    OBVIOUS
  <2> HIDE DEF D, flows
  <2>2. IsFiniteSet(D)
    BY <2>1, FS_Interval
  <2> QED BY <2>1, <2>2
<1>5. \A s \in SUBSET D : s # {} => Max(s) \in s
  BY <1>4, MaxIsMember
<1> HIDE DEF D, flows
<1> DEFINE Found(m, s) == BestFound(m, s, flows, eligible, scores)
<1>6. ASSUME NEW s \in SUBSET D, NEW x \in s, NEW m, Found(m, s \ {x})
      PROVE  Found(Consider(m, flows[x]), s)
  <2>1. PICK f \in Flows : f = flows[x]
    BY <1>4
  <2>2. PICK w : w = s \ {x} /\ w \cup {x} = s /\ x \notin w
    <3>1. (s \ {x}) \cup {x} = s /\ x \notin s \ {x}
      OBVIOUS
    <3> QED BY <3>1
  <2>3. \A i \in w \cup {x} : flows[i] \in Flows /\ scores[flows[i]] \in Score
    BY <1>4, <2>2
  <2>4. Found(m, w)
    BY <1>6, <2>2
  <2>5. BestFound(IF flows[x] \notin eligible \/ AtLeastScore(m.score, scores[flows[x]]) THEN m
                  ELSE [m EXCEPT !.flow = flows[x], !.score = scores[flows[x]]],
                  w \cup {x}, flows, eligible, scores)
    BY <2>2, <2>3, <2>4, Considered
  <2>6. Consider(m, f) = IF f \notin eligible \/ AtLeastScore(m.score, scores[f]) THEN m
                         ELSE [m EXCEPT !.flow = f, !.score = scores[f]]
    BY <1>2
  <2>7. BestFound(Consider(m, f), w \cup {x}, flows, eligible, scores)
    BY <2>1, <2>5, <2>6
  <2> QED BY <2>1, <2>2, <2>7
<1>7. NoMatch \in Choice /\ Found(NoMatch, {})
  <2>1. NoMatch \in Choice /\ NoMatch.score = None
    BY NoneIsScore DEF NoMatch, Choice
  <2> QED BY <2>1, NonePlain DEF BestFound, Same
<1>8. ASSUME NEW i \in D, NEW m \in Choice PROVE Consider(m, flows[i]) \in Choice
  <2>1. PICK f \in Flows, q \in Score : f = flows[i] /\ q = scores[f]
    BY <1>4
  <2>2. [m EXCEPT !.flow = f, !.score = q] \in Choice
    BY DEF Choice
  <2>3. Consider(m, f) \in {m, [m EXCEPT !.flow = f, !.score = q]}
    BY <1>2, <2>1
  <2> QED BY <2>1, <2>2, <2>3
<1>9. \E h : h = Loop(h)
  <2> DEFINE step == [i \in D |-> [m \in Choice |-> Consider(m, flows[i])]]
             pick == [s \in SUBSET D |-> Max(s)]
  <2>1. step \in [D -> [Choice -> Choice]]
    BY <1>8
  <2>2. Picks(pick, D)
    BY <1>5 DEF Picks
  <2>3. ASSUME NEW i \in D, NEW m \in Choice PROVE step[i][m] = Consider(m, flows[i])
    OBVIOUS
  <2>4. \A s \in SUBSET D : pick[s] = Max(s)
    OBVIOUS
  <2> HIDE DEF step, pick
  <2>5. PICK h \in [SUBSET D -> Choice] : Folded(h, D, NoMatch, step, pick)
    BY <1>4, <1>7, <2>1, <2>2, FoldHasValue
  <2>6. ASSUME NEW s \in SUBSET D
        PROVE  h[s] = IF s = {} THEN NoMatch ELSE Consider(h[s \ {Max(s)}], flows[Max(s)])
    <3>1. CASE s = {}
      BY <2>5, <3>1 DEF Folded
    <3>2. CASE s # {}
      <4>1. PICK x \in s : x = Max(s)
        BY <1>5, <3>2
      <4>2. h[s \ {x}] \in Choice /\ x \in D
        OBVIOUS
      <4>3. h[s] = step[x][h[s \ {x}]]
        BY <2>4, <2>5, <3>2, <4>1 DEF Folded
      <4> QED BY <2>3, <3>2, <4>1, <4>2, <4>3
    <3> QED BY <3>1, <3>2
  <2>7. h = [s \in SUBSET D |->
               IF s = {} THEN NoMatch ELSE Consider(h[s \ {Max(s)}], flows[Max(s)])]
    BY <2>6
  <2> QED BY <2>7
<1>10. result = Loop(result)
  BY <1>9
<1>11. \A s \in SUBSET D :
         result[s] = IF s = {} THEN NoMatch ELSE Consider(result[s \ {Max(s)}], flows[Max(s)])
  BY <1>10
<1> HIDE DEF result, Found
<1> DEFINE P == {s \in SUBSET D : Found(result[s], s)}
<1>12. {} \in P
  BY <1>7, <1>11
<1>13. ASSUME NEW s \in SUBSET D, \A x \in s : s \ {x} \in P PROVE s \in P
  <2>1. CASE s # {}
    <3>1. PICK x \in s : x = Max(s)
      BY <1>5, <2>1
    <3>2. Found(result[s \ {x}], s \ {x})
      BY <1>13
    <3>3. result[s] = Consider(result[s \ {x}], flows[x])
      BY <1>11, <2>1, <3>1
    <3>4. Found(result[s], s)
      BY <1>6, <3>2, <3>3
    <3> QED BY <3>4
  <2> QED BY <1>12, <2>1
<1>14. P \in SUBSET SUBSET D
  OBVIOUS
<1> HIDE DEF P
<1>15. P = SUBSET D
  BY <1>4, <1>12, <1>13, <1>14, SubsetInduction
<1>16. Found(result[D], D)
  BY <1>15 DEF P
<1> QED BY <1>1, <1>3, <1>16 DEF IsBest, Found, D, flows, eligible

-----------------------------------------------------------------------------
(***************************************************************************)
(* The mirror agrees.                                                      *)
(***************************************************************************)
LEMMA RecordedEvents ==
  ASSUME LogInv, NEW e \in Recorded
  PROVE  e.flow \in Flows /\ e.t \in Int
<1>1. PICK f \in Flows : e \in ToSet(byFlow[f])
  BY DEF Recorded
<1>2. Ordered(byFlow[f])
  BY DEF LogInv
<1>3. e \in AnEvent
  BY <1>1, <1>2 DEF Ordered, ToSet
<1> QED BY <1>3 DEF AnEvent

\* A written time is a number: the largest of finitely many powers that are
\* candidates for its last digit, times a quotient.
LEMMA WrittenType ==
  ASSUME NEW t \in Int
  PROVE  Written(t) \in Int
<1> DEFINE D == {1} \cup {g \in 1..t : Precision * g <= t /\ \E k \in 0..t : g = Radix^k}
           m == AtLeast1(t)
<1>1. m \in Nat /\ D \in SUBSET (1..m) /\ D # {}
  BY DEF AtLeast1
<1>2. LastDigit(t) = Max(D)
  BY DEF LastDigit
<1> HIDE DEF D, m
<1>3. Max(D) \in 1..m
  BY <1>1, MaxIsMember
<1>4. PICK d \in Nat \ {0} : d = LastDigit(t)
  BY <1>1, <1>2, <1>3
<1>5. d * ((2 * t + d) \div (2 * d)) \in Int
  <2>1. 2 * t + d \in Int /\ 2 * d \in Nat \ {0}
    OBVIOUS
  <2>2. (2 * t + d) \div (2 * d) \in Int
    BY <2>1
  <2> QED BY <2>2
<1> QED BY <1>4, <1>5 DEF Written

LEMMA Candidates ==
  ASSUME LogInv, EachOnce, NEW r, NEW n \in Nodes,
         NEW t0 \in Int, NEW t1 \in Int, NEW u0 \in Int, Aligned(t0, t1, u0)
  PROVE  candidate_flows(r, n, u0, u0 + (t1 - t0))
           = {f \in Flows : f # r /\ ReceivedAt(f, n, t0, t1)}
<1> DEFINE heard == {e \in Recorded : /\ e.node = n /\ e.isRx
                                      /\ t0 <= e.t /\ e.t <= t1}
           read == {e \in Recorded : /\ e.node = n /\ e.isRx
                                     /\ u0 <= Written(e.t) /\ Written(e.t) <= u0 + (t1 - t0)}
<1>1. candidate_flows(r, n, u0, u0 + (t1 - t0)) = {e.flow : e \in heard} \ {r}
  <2>1. read = heard
    BY DEF Aligned, InEngineWindow
  <2>2. candidate_flows(r, n, u0, u0 + (t1 - t0)) = {e.flow : e \in read} \ {r}
    BY DEF candidate_flows
  <2> QED BY <2>1, <2>2
<1>2. \A e \in Recorded : e.flow \in Flows /\ e.t \in Int
  BY RecordedEvents
<1>3. ASSUME NEW f \in Flows
      PROVE  ReceivedAt(f, n, t0, t1) <=> \E e \in heard : e.flow = f
  <2>1. ToSet(EventsForFlow(f, t0, t1)) = EventsOf(f, t0, t1)
    BY FlowWindow
  <2>2. ReceivedAt(f, n, t0, t1) <=> \E e \in EventsOf(f, t0, t1) : e.node = n /\ e.isRx
    BY <2>1 DEF ReceivedAt
  <2>3. \A e : e \in EventsOf(f, t0, t1) /\ e.node = n /\ e.isRx <=> e \in heard /\ e.flow = f
    BY <1>2 DEF EventsOf
  <2> QED BY <2>2, <2>3
<1>4. \A e \in heard : e.flow \in Flows
  BY <1>2
<1> HIDE DEF heard
<1> QED BY <1>1, <1>3, <1>4

LEMMA MatchAgrees ==
  ASSUME LogInv, EachOnce, NEW r \in Flows, NEW n \in Nodes,
         NEW t0 \in Int, NEW t1 \in Int, t0 <= t1, NEW u0 \in Int, Aligned(t0, t1, u0)
  PROVE  MirrorAgreesAt(r, n, t0, t1, u0)
<1> DEFINE match == FindBestUpstreamMatch(r, n, t0, t1, {r})
           u1 == u0 + (t1 - t0)
           candidates == candidate_flows(r, n, u0, u1)
           ScoreOf(f) == correlate(compute_on_off_signal(r, u0, u1),
                                   compute_on_off_signal(f, u0, u1))
           flows == FlowsAtNode(n, t0, t1)
           signal == [f \in Flows |-> ComputeOnOffSignal(f, t0, t1)]
           scores == [f \in Flows |-> Correlate(signal[r], signal[f])]
           mirrored == [f \in Flows |-> ScoreOf(f)]
<1>1. signal \in [Flows -> Seq(Bits)]
  BY SignalType
<1>2. \A f \in Flows : signal[f] = ComputeOnOffSignal(f, t0, t1)
  OBVIOUS
<1>3. \A f \in Flows : mirrored[f] = correlate(signal[r], signal[f])
  BY <1>2, SignalsAgree
<1>4. \A f \in Flows : ScoreOf(f) = mirrored[f]
  OBVIOUS
<1> HIDE DEF signal, mirrored, ScoreOf
<1>5. ASSUME NEW f \in Flows
      PROVE  /\ scores[f] \in Score /\ mirrored[f] \in Score
             /\ AtLeastScore(scores[f], mirrored[f]) /\ AtLeastScore(mirrored[f], scores[f])
  <2>1. PICK a \in Seq(Bits), b \in Seq(Bits) : a = signal[r] /\ b = signal[f]
    BY <1>1
  <2>2. scores[f] = Correlate(a, b) /\ mirrored[f] = correlate(a, b)
    BY <1>3, <2>1
  <2> QED BY <2>2, CorrelationsAgree DEF Same
<1>6. scores \in [Flows -> Score]
  BY <1>5
<1>7. AreScores(scores, r, t0, t1)
  BY <1>2 DEF AreScores
<1> HIDE DEF scores
<1>8. candidates = EligibleFlows(r, n, t0, t1, {r})
  BY Candidates DEF EligibleFlows
<1>9. flows \in Seq(Flows)
  BY FlowsAtNodeExact
<1> HIDE DEF candidates, match
<1>10. PICK m : /\ BestFound(m, DOMAIN flows, flows, candidates, scores)
                /\ match = [m EXCEPT !.valid = AtLeastScore(m.score, Threshold)]
  <2>1. IsBest(match, flows, candidates, scores)
    BY <1>6, <1>7, <1>8, <1>9, BestMatch DEF match
  <2> QED BY <2>1 DEF IsBest
<1>11. m \in Choice /\ m.score \in Score
  BY <1>10 DEF BestFound, Choice
<1>12. /\ match.flow = m.flow /\ match.score = m.score
       /\ match.valid = AtLeastScore(m.score, Threshold)
  BY <1>10, <1>11 DEF Choice
<1>13. \A f \in candidates : f \in Flows /\ \E i \in DOMAIN flows : flows[i] = f
  <2>1. ToSet(flows) = {e.flow : e \in {d \in Recorded : d.node = n /\ d.t >= t0 /\ d.t <= t1}}
    BY FlowsAtNodeExact
  <2>2. \A f \in candidates : f \in ToSet(flows)
    <3>1. \A e \in Recorded : /\ e.t \in Int
                              /\ u0 <= Written(e.t) /\ Written(e.t) <= u1 => t0 <= e.t /\ e.t <= t1
      BY RecordedEvents DEF Aligned, InEngineWindow
    <3>2. candidates = {e.flow : e \in {ev \in Recorded : /\ ev.node = n /\ ev.isRx
                                                          /\ u0 <= Written(ev.t)
                                                          /\ Written(ev.t) <= u1}} \ {r}
      BY DEF candidates, candidate_flows
    <3> QED BY <2>1, <3>1, <3>2
  <2> HIDE DEF flows
  <2>3. \A f \in candidates : f \in Flows
    BY <1>8 DEF EligibleFlows
  <2> QED BY <2>2, <2>3 DEF ToSet
<1> HIDE DEF flows
<1>14. ASSUME NEW f \in candidates
       PROVE  /\ AtLeastScore(m.score, scores[f])
              /\ AtLeastScore(m.score, ScoreOf(f))
  <2>1. f \in Flows /\ AtLeastScore(m.score, scores[f])
    BY <1>10, <1>13 DEF BestFound
  <2>2. AtLeastScore(m.score, mirrored[f])
    BY <1>5, <1>11, <2>1, AtLeastTransitive
  <2> QED BY <1>4, <2>1, <2>2
<1>15. \/ m = NoMatch /\ m.score = None
       \/ /\ m.flow \in candidates /\ m.flow \in Flows
          /\ m.score = scores[m.flow]
          /\ AtLeastScore(ScoreOf(m.flow), m.score)
  <2>1. CASE \E i \in DOMAIN flows : /\ flows[i] \in candidates
                                     /\ m.flow = flows[i] /\ m.score = scores[flows[i]]
    <3>1. m.flow \in candidates /\ m.flow \in Flows /\ m.score = scores[m.flow]
      BY <1>13, <2>1
    <3>2. AtLeastScore(mirrored[m.flow], m.score)
      BY <1>5, <3>1
    <3> QED BY <1>4, <3>1, <3>2
  <2>2. NoMatch.score = None
    BY DEF NoMatch
  <2> QED BY <1>10, <2>1, <2>2 DEF BestFound
<1>16. Threshold \in Score /\ ~AtLeastScore(None, Threshold)
  BY ThresholdAssumption DEF Threshold, Score, None, AtLeastScore
<1>17. match.valid <=> \E f \in candidates : AtLeastScore(ScoreOf(f), Threshold)
  <2>1. ASSUME AtLeastScore(m.score, Threshold)
        PROVE  \E f \in candidates : AtLeastScore(ScoreOf(f), Threshold)
    <3>1. m.score # None
      BY <1>16, <2>1
    <3>2. PICK f \in candidates : /\ f = m.flow /\ f \in Flows
                                  /\ AtLeastScore(ScoreOf(f), m.score)
      BY <1>15, <3>1
    <3>3. ScoreOf(f) \in Score
      BY <1>4, <1>5, <3>2
    <3>4. AtLeastScore(ScoreOf(f), Threshold)
      BY <1>11, <1>16, <2>1, <3>2, <3>3, AtLeastTransitive
    <3> QED BY <3>4
  <2>2. ASSUME NEW f \in candidates, AtLeastScore(ScoreOf(f), Threshold)
        PROVE  AtLeastScore(m.score, Threshold)
    <3>1. ScoreOf(f) \in Score
      BY <1>4, <1>5, <1>13
    <3> QED BY <1>11, <1>14, <1>16, <2>2, <3>1, AtLeastTransitive
  <2> QED BY <1>12, <2>1, <2>2
<1>18. match.score = None \/ /\ match.flow \in candidates
                             /\ AtLeastScore(ScoreOf(match.flow), match.score)
  BY <1>12, <1>15
<1>19. \A f \in candidates : AtLeastScore(match.score, ScoreOf(f))
  BY <1>12, <1>14
<1> QED BY <1>17, <1>18, <1>19 DEF MirrorAgreesAt, match, candidates, ScoreOf, u1

\* Whatever was logged, in whatever order and under whatever keys, the match of
\* TimingCorrelator::FindBestUpstreamMatch is what the mirror of it in
\* analysis/correlator.py would choose, score for score, among the candidates
\* evaluate_phase1.py takes from the persisted log, with times of as many digits
\* as ObservationLog::Record writes and a window that starts with the burst: if
\* neither moves an event to another bucket or over the edge of the window.
THEOREM MirrorAgrees == Spec => []OfflineAgrees
<1>1. LogInv /\ EachOnce => OfflineAgrees
  <2> SUFFICES ASSUME LogInv, EachOnce,
                      NEW t0 \in Instants, NEW t1 \in Instants, NEW lead \in 0..MaxLead,
                      t0 <= t1, lead <= t0, Aligned(t0, t1, Written(t0 - lead)),
                      NEW r \in Flows, NEW n \in Nodes
               PROVE  MirrorAgreesAt(r, n, t0, t1, Written(t0 - lead))
    BY DEF OfflineAgrees
  <2>1. t0 \in Int /\ t1 \in Int
    <3>1. Horizon \in Int
      BY CorrelatorAssumption
    <3> QED BY <3>1 DEF Instants
  <2>2. Written(t0 - lead) \in Int
    <3>1. t0 - lead \in Int
      BY <2>1
    <3> QED BY <3>1, WrittenType
  <2> QED BY <2>1, <2>2, MatchAgrees
<1> QED BY <1>1, EachOnceAlways, PTL
=============================================================================
