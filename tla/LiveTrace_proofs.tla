-------------------------- MODULE LiveTrace_proofs --------------------------
(***************************************************************************)
(* Proofs about what is made of the traceback engine's results.  How a run *)
(* is judged: what the one-to-one assignment of records to bursts          *)
(* guarantees for every list of bursts and records, and what that says of  *)
(* a run's own outputs.  What is shown of it: that the engine and the      *)
(* visualizer it calls implement TraceVisualizer.  Both for every          *)
(* topology, every set of bursts and every delay, window and tolerance.    *)
(***************************************************************************)
EXTENDS LiveTrace, TraceListeners, TracebackObserver_proofs, NaturalNumbers

-----------------------------------------------------------------------------
(***************************************************************************)
(* The assignment.                                                         *)
(***************************************************************************)

\* Lists of bursts and records, with times.
Dated(bursts, records) ==
  /\ Len(bursts) \in Nat /\ DOMAIN bursts = 1..Len(bursts)
  /\ Len(records) \in Nat /\ DOMAIN records = 1..Len(records)
  /\ \A b \in DOMAIN bursts : bursts[b].start \in Nat
  /\ \A r \in DOMAIN records : records[r].detect \in Nat

Assignments(bursts, records) == [DOMAIN bursts -> {Unassigned} \cup DOMAIN records]

Free(bursts, records, tolerance, assigned) ==
  {p \in Pairings(bursts, records, tolerance) : Claimable(assigned, p)}

Closest(bursts, records, free, p) ==
  \A q \in free \ {p} : CloserPairing(bursts, records, p, q)

LEMMA GapType ==
  ASSUME NEW bursts, NEW records, Dated(bursts, records),
         NEW b \in DOMAIN bursts, NEW r \in DOMAIN records
  PROVE  /\ Gap(bursts[b], records[r]) \in Nat
         /\ Gap(bursts[b], records[r]) <= 0 <=> records[r].detect = bursts[b].start
BY DEF Gap, Dated

\* Among pairs there is a closest one, since the sort has no ties.
LEMMA ClosestExists ==
  ASSUME NEW bursts, NEW records, Dated(bursts, records),
         NEW free \in SUBSET ((DOMAIN bursts) \X (DOMAIN records)), free # {}
  PROVE  \E p \in free : Closest(bursts, records, free, p)
<1>0. DOMAIN bursts \subseteq Nat /\ DOMAIN records \subseteq Nat
  BY DEF Dated
<1> DEFINE gap(p) == Gap(bursts[p[1]], records[p[2]])
<1>1. \A p \in free : gap(p) \in Nat /\ p[1] \in Nat /\ p[2] \in Nat /\ p = <<p[1], p[2]>>
  BY <1>0, GapType
<1>2. PICK p1 \in free : \A q \in free : gap(p1) <= gap(q)
  <2> DEFINE T == {gap(p) : p \in free}
  <2>1. T \in SUBSET Nat /\ T # {}
    BY <1>1
  <2>2. PICK g \in T : \A k \in T : g <= k
    <3> HIDE DEF T
    <3> QED BY <2>1, LeastNatural
  <2> QED BY <2>2
<1> DEFINE near == {q \in free : gap(q) = gap(p1)}
<1>3. PICK p2 \in near : \A q \in near : p2[1] <= q[1]
  <2> DEFINE T == {p[1] : p \in near}
  <2>1. T \in SUBSET Nat /\ T # {}
    BY <1>1
  <2>2. PICK g \in T : \A k \in T : g <= k
    <3> HIDE DEF T
    <3> QED BY <2>1, LeastNatural
  <2> QED BY <2>2
<1> DEFINE row == {q \in near : q[1] = p2[1]}
<1>4. PICK p3 \in row : \A q \in row : p3[2] <= q[2]
  <2> DEFINE T == {p[2] : p \in row}
  <2>1. T \in SUBSET Nat /\ T # {}
    BY <1>1
  <2>2. PICK g \in T : \A k \in T : g <= k
    <3> HIDE DEF T
    <3> QED BY <2>1, LeastNatural
  <2> QED BY <2>2
<1>5. p3 \in free /\ gap(p3) = gap(p1) /\ p3[1] = p2[1]
  OBVIOUS
<1>6. ASSUME NEW q \in free \ {p3}
      PROVE  CloserPairing(bursts, records, p3, q)
  <2>1. gap(p3) \in Nat /\ gap(q) \in Nat /\ gap(p3) <= gap(q)
    BY <1>1, <1>2, <1>5
  <2>2. CASE gap(p3) # gap(q)
    <3>1. gap(p3) < gap(q)
      BY <2>1, <2>2
    <3> QED BY <3>1 DEF CloserPairing
  <2>3. CASE gap(p3) = gap(q)
    <3>1. q \in near /\ p3[1] <= q[1]
      BY <1>3, <1>5, <2>3
    <3>2. CASE p3[1] # q[1]
      <4>1. p3[1] < q[1]
        BY <1>1, <1>5, <3>1, <3>2
      <4> QED BY <2>3, <4>1 DEF CloserPairing
    <3>3. CASE p3[1] = q[1]
      <4>1. q \in row /\ p3[2] <= q[2]
        BY <1>4, <1>5, <3>1, <3>3
      <4>2. p3[2] # q[2]
        BY <1>1, <1>5, <3>3
      <4>3. p3[2] < q[2]
        BY <1>1, <1>5, <4>1, <4>2
      <4> QED BY <2>3, <3>3, <4>3 DEF CloserPairing
    <3> QED BY <3>2, <3>3
  <2> QED BY <2>2, <2>3
<1> QED BY <1>5, <1>6 DEF Closest

\* The sort is strict: no two pairs are closer than each other.
LEMMA CloserIsStrict ==
  ASSUME NEW bursts, NEW records, Dated(bursts, records),
         NEW p \in (DOMAIN bursts) \X (DOMAIN records),
         NEW q \in (DOMAIN bursts) \X (DOMAIN records),
         CloserPairing(bursts, records, p, q)
  PROVE  /\ ~CloserPairing(bursts, records, q, p)
         /\ Gap(bursts[p[1]], records[p[2]]) <= Gap(bursts[q[1]], records[q[2]])
<1>1. /\ p[1] \in Nat /\ p[2] \in Nat /\ q[1] \in Nat /\ q[2] \in Nat
      /\ p[1] \in DOMAIN bursts /\ q[1] \in DOMAIN bursts
      /\ p[2] \in DOMAIN records /\ q[2] \in DOMAIN records
  BY DEF Dated
<1>2. PICK gp \in Nat : gp = Gap(bursts[p[1]], records[p[2]])
  BY <1>1, GapType
<1>3. PICK gq \in Nat : gq = Gap(bursts[q[1]], records[q[2]])
  BY <1>1, GapType
<1>4. /\ CloserPairing(bursts, records, p, q) <=>
           gp < gq \/ (gp = gq /\ p[1] < q[1]) \/ (gp = gq /\ p[1] = q[1] /\ p[2] < q[2])
      /\ CloserPairing(bursts, records, q, p) <=>
           gq < gp \/ (gq = gp /\ q[1] < p[1]) \/ (gq = gp /\ q[1] = p[1] /\ q[2] < p[2])
  BY <1>2, <1>3 DEF CloserPairing
<1> QED BY <1>1, <1>2, <1>3, <1>4

\* Either nothing can be claimed any more, or the closest pair is.
LEMMA ClaimForm ==
  ASSUME NEW bursts, NEW records, Dated(bursts, records), NEW tolerance \in Nat,
         NEW assigned
  PROVE  \/ /\ Free(bursts, records, tolerance, assigned) = {}
            /\ Claim(bursts, records, tolerance, assigned) = assigned
         \/ \E p \in Free(bursts, records, tolerance, assigned) :
              /\ Closest(bursts, records, Free(bursts, records, tolerance, assigned), p)
              /\ Claim(bursts, records, tolerance, assigned) = [assigned EXCEPT ![p[1]] = p[2]]
<1>1. PICK free : free = Free(bursts, records, tolerance, assigned)
  OBVIOUS
<1>2. Claim(bursts, records, tolerance, assigned) =
        LET best == CHOOSE p \in free :
                      \A q \in free \ {p} : CloserPairing(bursts, records, p, q)
        IN  IF free = {} THEN assigned ELSE [assigned EXCEPT ![best[1]] = best[2]]
  BY <1>1 DEF Claim, Free
<1>3. CASE free = {}
  BY <1>1, <1>2, <1>3
<1>4. CASE free # {}
  <2>1. free \in SUBSET ((DOMAIN bursts) \X (DOMAIN records))
    BY <1>1 DEF Free, Pairings
  <2>2. \E p \in free : \A q \in free \ {p} : CloserPairing(bursts, records, p, q)
    BY <1>4, <2>1, ClosestExists DEF Closest
  <2>3. PICK best : best = CHOOSE p \in free :
                             \A q \in free \ {p} : CloserPairing(bursts, records, p, q)
    OBVIOUS
  <2>4. best \in free /\ \A q \in free \ {best} : CloserPairing(bursts, records, best, q)
    BY <2>2, <2>3
  <2>5. Claim(bursts, records, tolerance, assigned) = [assigned EXCEPT ![best[1]] = best[2]]
    BY <1>2, <1>4, <2>3
  <2> QED BY <1>1, <2>4, <2>5 DEF Closest
<1> QED BY <1>3, <1>4

LEMMA ClaimType ==
  ASSUME NEW bursts, NEW records, Dated(bursts, records), NEW tolerance \in Nat,
         NEW assigned \in Assignments(bursts, records)
  PROVE  Claim(bursts, records, tolerance, assigned) \in Assignments(bursts, records)
<1>1. \A p \in Free(bursts, records, tolerance, assigned) :
        p[1] \in DOMAIN bursts /\ p[2] \in DOMAIN records
  BY DEF Free, Pairings
<1>2. CASE Claim(bursts, records, tolerance, assigned) = assigned
  BY <1>2
<1>3. ASSUME NEW p \in Free(bursts, records, tolerance, assigned),
             Claim(bursts, records, tolerance, assigned) = [assigned EXCEPT ![p[1]] = p[2]]
      PROVE  Claim(bursts, records, tolerance, assigned) \in Assignments(bursts, records)
  BY <1>1, <1>3 DEF Assignments
<1> QED BY <1>2, <1>3, ClaimForm

\* after is the course of the assignment, claim by claim.
Course(bursts, records, tolerance, after) ==
  /\ after \in [0..Len(bursts) -> Assignments(bursts, records)]
  /\ after[0] = [b \in DOMAIN bursts |-> Unassigned]
  /\ \A i \in 0..(Len(bursts) - 1) : after[i + 1] = Claim(bursts, records, tolerance, after[i])

LEMMA AssignmentCourse ==
  ASSUME NEW bursts, NEW records, Dated(bursts, records), NEW tolerance \in Nat
  PROVE  \E after : /\ Course(bursts, records, tolerance, after)
                    /\ assign_one_to_one(bursts, records, tolerance) = after[Len(bursts)]
<1> DEFINE X == Assignments(bursts, records)
           base == [b \in DOMAIN bursts |-> Unassigned]
           step == [a \in X |-> Claim(bursts, records, tolerance, a)]
           Body(g) == [n \in 0..Len(bursts) |->
                         IF n = 0 THEN base ELSE Claim(bursts, records, tolerance, g[n - 1])]
<1>1. Len(bursts) \in Nat
  BY DEF Dated
<1>2. base \in X
  BY DEF Assignments
<1>3. step \in [X -> X]
  <2> HIDE DEF X
  <2>1. \A a \in X : Claim(bursts, records, tolerance, a) \in X
    BY ClaimType DEF X
  <2> QED BY <2>1
<1>4. PICK f \in [0..Len(bursts) -> X] : Repeated(f, Len(bursts), base, step)
  <2> HIDE DEF X, base, step
  <2> QED BY <1>1, <1>2, <1>3, Repetition
<1> HIDE DEF X, base
<1>5. f = Body(f)
  <2>1. ASSUME NEW i \in 0..Len(bursts), i # 0
        PROVE  step[f[i - 1]] = Claim(bursts, records, tolerance, f[i - 1])
    <3>1. i - 1 \in 0..Len(bursts)
      BY <1>1, <2>1
    <3> QED BY <3>1
  <2> HIDE DEF step
  <2>2. \A i \in 0..Len(bursts) :
          f[i] = IF i = 0 THEN base ELSE Claim(bursts, records, tolerance, f[i - 1])
    BY <1>4, <2>1 DEF Repeated
  <2> QED BY <2>2
<1> HIDE DEF step
<1>6. PICK after : after = CHOOSE g : g = Body(g)
  OBVIOUS
<1>7. assign_one_to_one(bursts, records, tolerance) = after[Len(bursts)]
  BY <1>6 DEF assign_one_to_one, base
<1>8. after = Body(after)
  <2> HIDE DEF Body
  <2> QED BY <1>5, <1>6
<1>9. ASSUME NEW n \in 0..Len(bursts)
      PROVE  after[n] = IF n = 0 THEN base ELSE Claim(bursts, records, tolerance, after[n - 1])
  BY <1>8
<1>10. DOMAIN after = 0..Len(bursts)
  BY <1>8
<1>11. \A i \in 0..(Len(bursts) - 1) : after[i + 1] = Claim(bursts, records, tolerance, after[i])
  <2> SUFFICES ASSUME NEW i \in 0..(Len(bursts) - 1)
               PROVE  after[i + 1] = Claim(bursts, records, tolerance, after[i])
    OBVIOUS
  <2>1. i + 1 \in 0..Len(bursts) /\ i + 1 # 0 /\ (i + 1) - 1 = i
    BY <1>1
  <2> HIDE DEF Body
  <2> QED BY <1>9, <2>1
<1>12. after[0] = base
  <2>1. 0 \in 0..Len(bursts)
    BY <1>1
  <2> QED BY <1>9, <2>1
<1>13. \A n \in 0..Len(bursts) : after[n] \in X
  <2> DEFINE P == {n \in 0..Len(bursts) : after[n] \in X}
  <2>1. 0 \in P
    BY <1>1, <1>2, <1>12
  <2>2. ASSUME NEW i \in P, i < Len(bursts) PROVE i + 1 \in P
    <3>1. i \in 0..(Len(bursts) - 1) /\ i + 1 \in 0..Len(bursts) /\ after[i] \in X
      BY <1>1, <2>2
    <3>2. Claim(bursts, records, tolerance, after[i]) \in X
      BY <3>1, ClaimType DEF X
    <3> QED BY <1>11, <3>1, <3>2
  <2>3. P \in SUBSET (0..Len(bursts))
    OBVIOUS
  <2> HIDE DEF P
  <2>4. P = 0..Len(bursts)
    BY <1>1, <2>1, <2>2, <2>3, BoundedInduction
  <2> QED BY <2>4 DEF P
<1>14. after \in [0..Len(bursts) -> X]
  <2>1. after = [n \in 0..Len(bursts) |-> after[n]]
    BY <1>8
  <2> QED BY <1>13, <2>1
<1> QED BY <1>7, <1>11, <1>12, <1>14 DEF Course, X, base

-----------------------------------------------------------------------------
(***************************************************************************)
(* What the claims made so far guarantee: the assignment is one-to-one and *)
(* within the tolerance, and every pair that can no longer be claimed lost *)
(* to one that is no farther apart.                                        *)
(***************************************************************************)
Served(bursts, records, assigned, q) ==
  \/ /\ assigned[q[1]] # Unassigned
     /\ Gap(bursts[q[1]], records[assigned[q[1]]]) <= Gap(bursts[q[1]], records[q[2]])
  \/ \E a \in DOMAIN bursts :
       /\ assigned[a] = q[2]
       /\ Gap(bursts[a], records[q[2]]) <= Gap(bursts[q[1]], records[q[2]])

OneToOne(bursts, assigned) ==
  \A a, b \in DOMAIN bursts : a # b /\ assigned[a] = assigned[b] => assigned[a] = Unassigned

Within(bursts, records, tolerance, assigned) ==
  \A b \in DOMAIN bursts :
    assigned[b] # Unassigned => Gap(bursts[b], records[assigned[b]]) <= tolerance

Settled(bursts, records, tolerance, assigned) ==
  /\ OneToOne(bursts, assigned)
  /\ Within(bursts, records, tolerance, assigned)
  /\ \A q \in Pairings(bursts, records, tolerance) :
       Claimable(assigned, q) \/ Served(bursts, records, assigned, q)

Filled(assigned) == {b \in DOMAIN assigned : assigned[b] # Unassigned}

LEMMA ClaimSettles ==
  ASSUME NEW bursts, NEW records, Dated(bursts, records), NEW tolerance \in Nat,
         NEW assigned \in Assignments(bursts, records),
         Settled(bursts, records, tolerance, assigned),
         NEW p \in Free(bursts, records, tolerance, assigned),
         Closest(bursts, records, Free(bursts, records, tolerance, assigned), p),
         NEW next, next = [assigned EXCEPT ![p[1]] = p[2]]
  PROVE  /\ Settled(bursts, records, tolerance, next)
         /\ p[1] \notin Filled(assigned)
         /\ Filled(next) = Filled(assigned) \cup {p[1]}
<1>1. /\ p \in Pairings(bursts, records, tolerance)
      /\ p \in (DOMAIN bursts) \X (DOMAIN records)
      /\ p[1] \in DOMAIN bursts /\ p[2] \in DOMAIN records
      /\ Gap(bursts[p[1]], records[p[2]]) <= tolerance
      /\ assigned[p[1]] = Unassigned
      /\ \A b \in DOMAIN bursts : assigned[b] # p[2]
  BY DEF Free, Pairings, Claimable, Assignments
<1>2. /\ DOMAIN assigned = DOMAIN bursts /\ DOMAIN next = DOMAIN bursts
      /\ next[p[1]] = p[2]
      /\ \A b \in DOMAIN bursts : b # p[1] => next[b] = assigned[b]
  BY <1>1 DEF Assignments
<1>3. p[2] # Unassigned
  BY <1>1 DEF Dated, Unassigned
<1>4. OneToOne(bursts, next)
  <2> SUFFICES ASSUME NEW a \in DOMAIN bursts, NEW b \in DOMAIN bursts, a # b, next[a] = next[b]
               PROVE  next[a] = Unassigned
    BY DEF OneToOne
  <2>1. a # p[1] /\ b # p[1]
    BY <1>1, <1>2
  <2> QED BY <1>2, <2>1 DEF Settled, OneToOne
<1>5. Within(bursts, records, tolerance, next)
  <2> SUFFICES ASSUME NEW b \in DOMAIN bursts, next[b] # Unassigned
               PROVE  Gap(bursts[b], records[next[b]]) <= tolerance
    BY DEF Within
  <2>1. CASE b = p[1]
    BY <1>1, <1>2, <2>1
  <2>2. CASE b # p[1]
    <3>1. next[b] = assigned[b]
      BY <1>2, <2>2
    <3> QED BY <3>1 DEF Settled, Within
  <2> QED BY <2>1, <2>2
<1>6. ASSUME NEW q \in Pairings(bursts, records, tolerance), ~Claimable(next, q)
      PROVE  Served(bursts, records, next, q)
  <2>1. /\ q \in (DOMAIN bursts) \X (DOMAIN records)
        /\ q[1] \in DOMAIN bursts /\ q[2] \in DOMAIN records
    BY DEF Pairings
  <2>2. CASE Served(bursts, records, assigned, q)
    <3>1. CASE assigned[q[1]] # Unassigned
               /\ Gap(bursts[q[1]], records[assigned[q[1]]]) <= Gap(bursts[q[1]], records[q[2]])
      <4>1. q[1] # p[1]
        BY <1>1, <3>1
      <4>2. next[q[1]] = assigned[q[1]]
        BY <1>2, <2>1, <4>1
      <4> QED BY <3>1, <4>2 DEF Served
    <3>2. ASSUME NEW a \in DOMAIN bursts, assigned[a] = q[2],
                 Gap(bursts[a], records[q[2]]) <= Gap(bursts[q[1]], records[q[2]])
          PROVE  Served(bursts, records, next, q)
      <4>1. a # p[1]
        BY <1>1, <2>1, <3>2 DEF Dated, Unassigned
      <4>2. next[a] = q[2]
        BY <1>2, <3>2, <4>1
      <4> QED BY <3>2, <4>2 DEF Served
    <3> QED BY <2>2, <3>1, <3>2 DEF Served
  <2>3. CASE Claimable(assigned, q)
    <3>1. q \in Free(bursts, records, tolerance, assigned)
      BY <2>3 DEF Free
    <3>2. Gap(bursts[p[1]], records[p[2]]) <= Gap(bursts[q[1]], records[q[2]])
      <4>1. CASE q = p
        <5>1. Gap(bursts[p[1]], records[p[2]]) \in Nat
          BY <1>1, GapType
        <5> QED BY <4>1, <5>1
      <4>2. CASE q # p
        <5>1. CloserPairing(bursts, records, p, q)
          BY <3>1, <4>2 DEF Closest
        <5> QED BY <1>1, <2>1, <5>1, CloserIsStrict
      <4> QED BY <4>1, <4>2
    <3>3. q[1] = p[1] \/ q[2] = p[2]
      BY <1>2, <1>6, <2>1, <2>3 DEF Claimable
    <3>4. CASE q[1] = p[1]
      <4>1. next[q[1]] = p[2] /\ next[q[1]] # Unassigned
        BY <1>2, <1>3, <3>4
      <4> QED BY <3>2, <3>4, <4>1 DEF Served
    <3>5. CASE q[2] = p[2]
      BY <1>1, <1>2, <3>2, <3>5 DEF Served
    <3> QED BY <3>3, <3>4, <3>5
  <2> QED BY <2>2, <2>3 DEF Settled
<1>7. p[1] \notin Filled(assigned)
  BY <1>1 DEF Filled
<1>8. Filled(next) = Filled(assigned) \cup {p[1]}
  BY <1>1, <1>2, <1>3 DEF Filled
<1> QED BY <1>4, <1>5, <1>6, <1>7, <1>8 DEF Settled

LEMMA CourseSettles ==
  ASSUME NEW bursts, NEW records, Dated(bursts, records), NEW tolerance \in Nat,
         NEW after, Course(bursts, records, tolerance, after)
  PROVE  \A i \in 0..Len(bursts) :
           /\ Settled(bursts, records, tolerance, after[i])
           /\ \/ Free(bursts, records, tolerance, after[i]) = {}
              \/ Cardinality(Filled(after[i])) = i
<1> DEFINE Good(i) == /\ Settled(bursts, records, tolerance, after[i])
                      /\ \/ Free(bursts, records, tolerance, after[i]) = {}
                         \/ Cardinality(Filled(after[i])) = i
           P == {i \in 0..Len(bursts) : Good(i)}
<1>1. Len(bursts) \in Nat /\ DOMAIN bursts = 1..Len(bursts)
  BY DEF Dated
<1>2. Good(0)
  <2>1. PICK a : a = after[0]
    OBVIOUS
  <2>2. DOMAIN a = DOMAIN bursts /\ \A b \in DOMAIN bursts : a[b] = Unassigned
    BY <2>1 DEF Course
  <2>3. OneToOne(bursts, a) /\ Within(bursts, records, tolerance, a)
    BY <2>2 DEF OneToOne, Within
  <2>4. \A q \in Pairings(bursts, records, tolerance) : Claimable(a, q)
    BY <2>2 DEF Pairings, Claimable, Dated, Unassigned
  <2>5. Filled(a) = {}
    BY <2>2 DEF Filled
  <2>6. Cardinality(Filled(a)) = 0
    BY <2>5, FS_EmptySet
  <2> QED BY <2>1, <2>3, <2>4, <2>6 DEF Settled
<1>3. ASSUME NEW i \in 0..(Len(bursts) - 1), Good(i)
      PROVE  Good(i + 1)
  <2>1. i \in 0..Len(bursts)
    BY <1>1
  <2>2. PICK a : a = after[i]
    OBVIOUS
  <2>3. PICK c : c = after[i + 1]
    OBVIOUS
  <2>4. c = Claim(bursts, records, tolerance, a) /\ a \in Assignments(bursts, records)
    BY <2>1, <2>2, <2>3 DEF Course
  <2>5. CASE /\ Free(bursts, records, tolerance, a) = {}
             /\ Claim(bursts, records, tolerance, a) = a
    BY <1>3, <2>2, <2>3, <2>4, <2>5
  <2>6. ASSUME NEW p \in Free(bursts, records, tolerance, a),
               Closest(bursts, records, Free(bursts, records, tolerance, a), p),
               Claim(bursts, records, tolerance, a) = [a EXCEPT ![p[1]] = p[2]]
        PROVE  Good(i + 1)
    <3>1. /\ Settled(bursts, records, tolerance, c)
          /\ p[1] \notin Filled(a)
          /\ Filled(c) = Filled(a) \cup {p[1]}
      BY <1>3, <2>2, <2>4, <2>6, ClaimSettles
    <3>2. Cardinality(Filled(a)) = i
      BY <1>3, <2>2, <2>6
    <3>3. IsFiniteSet(Filled(a))
      <4>1. Filled(a) \subseteq 1..Len(bursts)
        BY <1>1, <2>4 DEF Filled, Assignments
      <4>2. IsFiniteSet(1..Len(bursts))
        BY <1>1, FS_Interval
      <4> QED BY <4>1, <4>2, FS_Subset
    <3>4. Cardinality(Filled(c)) = i + 1
      BY <3>1, <3>2, <3>3, FS_AddElement
    <3> QED BY <2>3, <3>1, <3>4
  <2> HIDE DEF Good
  <2> QED BY <2>4, <2>5, <2>6, ClaimForm
<1>4. P = 0..Len(bursts)
  <2> HIDE DEF Good
  <2>1. 0 \in P
    BY <1>1, <1>2
  <2>2. ASSUME NEW i \in P, i < Len(bursts) PROVE i + 1 \in P
    <3>1. i \in 0..(Len(bursts) - 1) /\ i + 1 \in 0..Len(bursts) /\ Good(i)
      BY <1>1, <2>2
    <3> QED BY <1>3, <3>1
  <2>3. P \in SUBSET (0..Len(bursts))
    OBVIOUS
  <2> HIDE DEF P
  <2> QED BY <1>1, <2>1, <2>2, <2>3, BoundedInduction
<1>5. \A i \in 0..Len(bursts) : Good(i)
  <2> HIDE DEF Good
  <2> QED BY <1>4
<1> QED BY <1>5

\* When the pairs have been gone through the assignment is one-to-one, within
\* the tolerance and stable, whatever the lists
\* (assign_one_to_one, analysis/common.py:96-140).
THEOREM StableAssignment ==
  ASSUME NEW bursts, NEW records, Dated(bursts, records), NEW tolerance \in Nat,
         NEW at, at = assign_one_to_one(bursts, records, tolerance)
  PROVE  /\ at \in Assignments(bursts, records)
         /\ OneToOne(bursts, at)
         /\ Within(bursts, records, tolerance, at)
         /\ \A q \in Pairings(bursts, records, tolerance) : Served(bursts, records, at, q)
<1>1. PICK after : Course(bursts, records, tolerance, after) /\ at = after[Len(bursts)]
  BY AssignmentCourse
<1>2. Len(bursts) \in Nat /\ DOMAIN bursts = 1..Len(bursts) /\ Len(bursts) \in 0..Len(bursts)
  BY DEF Dated
<1>3. at \in Assignments(bursts, records)
  BY <1>1, <1>2 DEF Course
<1>4. /\ Settled(bursts, records, tolerance, at)
      /\ \/ Free(bursts, records, tolerance, at) = {}
         \/ Cardinality(Filled(at)) = Len(bursts)
  BY <1>1, <1>2, CourseSettles
<1>5. Free(bursts, records, tolerance, at) = {}
  <2> SUFFICES ASSUME Cardinality(Filled(at)) = Len(bursts)
               PROVE  Free(bursts, records, tolerance, at) = {}
    BY <1>4
  <2>1. IsFiniteSet(1..Len(bursts)) /\ Cardinality(1..Len(bursts)) = Len(bursts)
    <3>1. 1 \in Int /\ Len(bursts) \in Int
      BY <1>2
    <3>2. /\ IsFiniteSet(1..Len(bursts))
          /\ Cardinality(1..Len(bursts)) =
               IF 1 > Len(bursts) THEN 0 ELSE Len(bursts) - 1 + 1
      BY <3>1, FS_Interval
    <3> QED BY <1>2, <3>2
  <2>2. Filled(at) \in SUBSET (1..Len(bursts))
    BY <1>2, <1>3 DEF Filled, Assignments
  <2>3. Filled(at) = 1..Len(bursts)
    BY <2>1, <2>2, FS_Subset
  <2>4. \A b \in DOMAIN bursts : at[b] # Unassigned
    BY <1>2, <2>3 DEF Filled
  <2> QED BY <2>4 DEF Free, Pairings, Claimable
<1>6. \A q \in Pairings(bursts, records, tolerance) : ~Claimable(at, q)
  BY <1>5 DEF Free
<1> QED BY <1>3, <1>4, <1>6 DEF Settled

\* A wider tolerance takes no record away: it goes through the same pairs
\* first, and through the ones farther apart only then.
LEMMA WiderTolerance ==
  ASSUME NEW bursts, NEW records, Dated(bursts, records),
         NEW narrow \in Nat, NEW wide \in Nat, narrow <= wide,
         NEW at, at = assign_one_to_one(bursts, records, narrow),
         NEW wat, wat = assign_one_to_one(bursts, records, wide)
  PROVE  \A b \in DOMAIN bursts : at[b] # Unassigned => wat[b] = at[b]
<1>1. PICK after : Course(bursts, records, narrow, after) /\ at = after[Len(bursts)]
  BY AssignmentCourse
<1>2. PICK wafter : Course(bursts, records, wide, wafter) /\ wat = wafter[Len(bursts)]
  BY AssignmentCourse
<1>3. Len(bursts) \in Nat /\ DOMAIN bursts = 1..Len(bursts)
  BY DEF Dated
<1> DEFINE Keeps(a, w) == \A b \in DOMAIN bursts : a[b] # Unassigned => w[b] = a[b]
           Good(a, w) == \/ w = a
                         \/ Free(bursts, records, narrow, a) = {} /\ Keeps(a, w)
           P == {i \in 0..Len(bursts) : Good(after[i], wafter[i])}
<1>4. 0 \in P
  BY <1>1, <1>2, <1>3 DEF Course
<1>5. ASSUME NEW a \in Assignments(bursts, records), NEW w \in Assignments(bursts, records),
             Good(a, w)
      PROVE  Good(Claim(bursts, records, narrow, a), Claim(bursts, records, wide, w))
  <2>1. PICK free : free = Free(bursts, records, narrow, a)
    OBVIOUS
  <2>2. PICK wfree : wfree = Free(bursts, records, wide, w)
    OBVIOUS
  <2>3. PICK a1 : a1 = Claim(bursts, records, narrow, a)
    OBVIOUS
  <2>4. PICK w1 : w1 = Claim(bursts, records, wide, w)
    OBVIOUS
  <2>5. \/ free = {} /\ a1 = a
        \/ \E p \in free : /\ Closest(bursts, records, free, p)
                           /\ a1 = [a EXCEPT ![p[1]] = p[2]]
    BY <2>1, <2>3, ClaimForm
  <2>6. \/ wfree = {} /\ w1 = w
        \/ \E p \in wfree : /\ Closest(bursts, records, wfree, p)
                            /\ w1 = [w EXCEPT ![p[1]] = p[2]]
    BY <2>2, <2>4, ClaimForm
  <2>7. Keeps(w, w1)
    <3> SUFFICES ASSUME NEW p \in wfree, w1 = [w EXCEPT ![p[1]] = p[2]],
                        NEW b \in DOMAIN bursts, w[b] # Unassigned
                 PROVE  w1[b] = w[b]
      BY <2>6
    <3>1. w[p[1]] = Unassigned
      BY <2>2 DEF Free, Claimable
    <3>2. b # p[1] /\ DOMAIN w = DOMAIN bursts
      BY <3>1 DEF Assignments
    <3> QED BY <3>2
  <2>8. CASE free = {}
    <3>1. a1 = a
      BY <2>5, <2>8
    <3>2. Keeps(a, w)
      BY <1>5
    <3>3. Keeps(a, w1)
      BY <2>7, <3>2
    <3> HIDE DEF Keeps
    <3> QED BY <2>1, <2>3, <2>4, <2>8, <3>1, <3>3
  <2>9. CASE free # {}
    <3>1. w = a
      BY <1>5, <2>1, <2>9
    <3>2. free = {p \in wfree : Gap(bursts[p[1]], records[p[2]]) <= narrow}
      <4>1. \A p \in (DOMAIN bursts) \X (DOMAIN records) :
              Gap(bursts[p[1]], records[p[2]]) \in Nat
        BY GapType
      <4>2. Pairings(bursts, records, narrow) =
              {p \in Pairings(bursts, records, wide) : Gap(bursts[p[1]], records[p[2]]) <= narrow}
        BY <4>1 DEF Pairings
      <4> QED BY <2>1, <2>2, <3>1, <4>2 DEF Free
    <3>3. PICK p \in free : /\ Closest(bursts, records, free, p)
                            /\ a1 = [a EXCEPT ![p[1]] = p[2]]
      BY <2>5, <2>9
    <3>4. PICK q \in wfree : /\ Closest(bursts, records, wfree, q)
                             /\ w1 = [w EXCEPT ![q[1]] = q[2]]
      BY <2>6, <3>2, <3>3
    <3>5. /\ p \in (DOMAIN bursts) \X (DOMAIN records)
          /\ q \in (DOMAIN bursts) \X (DOMAIN records)
      BY <2>1, <2>2 DEF Free, Pairings
    <3>6. q = p
      <4> SUFFICES ASSUME q # p PROVE FALSE
        OBVIOUS
      <4>1. CloserPairing(bursts, records, q, p)
        BY <3>2, <3>3, <3>4 DEF Closest
      <4>2. /\ ~CloserPairing(bursts, records, p, q)
            /\ Gap(bursts[q[1]], records[q[2]]) <= Gap(bursts[p[1]], records[p[2]])
        BY <3>5, <4>1, CloserIsStrict
      <4>3. /\ Gap(bursts[q[1]], records[q[2]]) \in Nat
            /\ Gap(bursts[p[1]], records[p[2]]) \in Nat
            /\ Gap(bursts[p[1]], records[p[2]]) <= narrow
        BY <3>2, <3>3, <3>5, GapType
      <4>4. Gap(bursts[q[1]], records[q[2]]) <= narrow
        BY <4>2, <4>3
      <4>5. q \in free
        BY <3>2, <3>4, <4>4
      <4>6. CloserPairing(bursts, records, p, q)
        BY <3>3, <4>5 DEF Closest
      <4> QED BY <4>2, <4>6
    <3> QED BY <2>3, <2>4, <3>1, <3>3, <3>4, <3>6
  <2> QED BY <2>8, <2>9
<1>6. ASSUME NEW i \in P, i < Len(bursts) PROVE i + 1 \in P
  <2>1. /\ i \in 0..(Len(bursts) - 1) /\ i \in 0..Len(bursts) /\ i + 1 \in 0..Len(bursts)
        /\ Good(after[i], wafter[i])
    BY <1>3, <1>6
  <2>2. after[i] \in Assignments(bursts, records) /\ wafter[i] \in Assignments(bursts, records)
    BY <1>1, <1>2, <2>1 DEF Course
  <2>3. /\ after[i + 1] = Claim(bursts, records, narrow, after[i])
        /\ wafter[i + 1] = Claim(bursts, records, wide, wafter[i])
    BY <1>1, <1>2, <2>1 DEF Course
  <2> HIDE DEF Good
  <2>4. Good(Claim(bursts, records, narrow, after[i]), Claim(bursts, records, wide, wafter[i]))
    BY <1>5, <2>1, <2>2
  <2>5. Good(after[i + 1], wafter[i + 1])
    BY <2>3, <2>4
  <2> QED BY <2>1, <2>5
<1>7. P = 0..Len(bursts)
  <2>1. P \in SUBSET (0..Len(bursts))
    OBVIOUS
  <2> HIDE DEF P
  <2> QED BY <1>3, <1>4, <1>6, <2>1, BoundedInduction
<1>8. Good(at, wat)
  <2>1. Len(bursts) \in P
    BY <1>3, <1>7
  <2> HIDE DEF Good
  <2> QED BY <1>1, <1>2, <2>1
<1> QED BY <1>8

-----------------------------------------------------------------------------
(***************************************************************************)
(* When every record belongs to a burst of its own that started when it    *)
(* was detected, no burst is given another's: a record lost to a burst of  *)
(* another instant would leave the bursts of its own instant with fewer    *)
(* records than there are of them.                                         *)
(***************************************************************************)
Owners(bursts, records, owner) ==
  /\ owner \in [DOMAIN records -> DOMAIN bursts]
  /\ \A r, u \in DOMAIN records : owner[r] = owner[u] => r = u
  /\ \A r \in DOMAIN records : bursts[owner[r]].start = records[r].detect

LEMMA OwnRecords ==
  ASSUME NEW bursts, NEW records, Dated(bursts, records), NEW tolerance \in Nat,
         NEW at, at = assign_one_to_one(bursts, records, tolerance),
         NEW owner, Owners(bursts, records, owner)
  PROVE  /\ \A b \in DOMAIN bursts :
              at[b] # Unassigned => records[at[b]].detect = bursts[b].start
         /\ \A b \in DOMAIN bursts :
              (\A a \in DOMAIN bursts : bursts[a].start = bursts[b].start =>
                 \E r \in DOMAIN records : owner[r] = a)
              => at[b] # Unassigned
<1>1. /\ at \in Assignments(bursts, records)
      /\ OneToOne(bursts, at)
      /\ \A q \in Pairings(bursts, records, tolerance) : Served(bursts, records, at, q)
  BY StableAssignment
<1>2. \A b \in DOMAIN bursts : at[b] # Unassigned => at[b] \in DOMAIN records
  BY <1>1 DEF Assignments
<1> DEFINE B(s) == {a \in DOMAIN bursts : bursts[a].start = s}
           R(s) == {r \in DOMAIN records : records[r].detect = s}
<1>3. ASSUME NEW s PROVE IsFiniteSet(B(s)) /\ IsFiniteSet(R(s))
  <2>1. IsFiniteSet(1..Len(bursts)) /\ IsFiniteSet(1..Len(records))
    BY FS_Interval DEF Dated
  <2>2. B(s) \subseteq 1..Len(bursts) /\ R(s) \subseteq 1..Len(records)
    BY DEF Dated
  <2> HIDE DEF B, R
  <2> QED BY <2>1, <2>2, FS_Subset
\* A burst and a record of one instant are not both left to others.
<1>4. ASSUME NEW s, NEW a \in B(s), NEW r \in R(s)
      PROVE  \/ at[a] # Unassigned /\ at[a] \in R(s)
             \/ \E c \in B(s) : at[c] = r
  <2>1. a \in DOMAIN bursts /\ bursts[a].start = s /\ r \in DOMAIN records /\ records[r].detect = s
    OBVIOUS
  <2>2. Gap(bursts[a], records[r]) = 0
    BY <2>1 DEF Gap, Dated
  <2>3. PICK q : q = <<a, r>>
    OBVIOUS
  <2>4. q \in Pairings(bursts, records, tolerance) /\ q[1] = a /\ q[2] = r
    BY <2>1, <2>2, <2>3 DEF Pairings
  <2>5. Served(bursts, records, at, q)
    BY <1>1, <2>4
  <2>6. CASE at[a] # Unassigned /\ Gap(bursts[a], records[at[a]]) <= 0
    <3>1. at[a] \in DOMAIN records
      BY <1>2, <2>1, <2>6
    <3>2. records[at[a]].detect = bursts[a].start
      BY <2>1, <2>6, <3>1, GapType
    <3> QED BY <2>1, <2>6, <3>1, <3>2
  <2>7. ASSUME NEW c \in DOMAIN bursts, at[c] = r, Gap(bursts[c], records[r]) <= 0
        PROVE  c \in B(s)
    <3>1. records[r].detect = bursts[c].start
      BY <2>1, <2>7, GapType
    <3> QED BY <2>1, <3>1
  <2> QED BY <2>2, <2>4, <2>5, <2>6, <2>7 DEF Served
<1>5. ASSUME NEW b \in DOMAIN bursts, at[b] # Unassigned
      PROVE  records[at[b]].detect = bursts[b].start
  <2> SUFFICES ASSUME records[at[b]].detect # bursts[b].start PROVE FALSE
    OBVIOUS
  <2>1. PICK r \in DOMAIN records : r = at[b]
    BY <1>2, <1>5
  <2>2. PICK s : s = records[r].detect
    OBVIOUS
  <2>3. r \in R(s) /\ b \notin B(s) /\ b \in DOMAIN bursts
    BY <2>1, <2>2
  <2>4. ASSUME NEW a \in B(s)
        PROVE  at[a] \in R(s) \ {r} /\ at[a] # Unassigned
    <3>1. ~\E c \in B(s) : at[c] = r
      <4> SUFFICES ASSUME NEW c \in B(s), at[c] = r PROVE FALSE
        OBVIOUS
      <4>1. c # b /\ c \in DOMAIN bursts
        BY <2>3
      <4>2. at[c] = at[b]
        BY <2>1
      <4> QED BY <1>1, <1>5, <4>1, <4>2 DEF OneToOne
    <3> HIDE DEF B, R
    <3>2. at[a] # Unassigned /\ at[a] \in R(s)
      BY <1>4, <2>3, <3>1
    <3> QED BY <3>1, <3>2
  <2> DEFINE f == [a \in B(s) |-> at[a]]
             g == [u \in R(s) |-> owner[u]]
  <2>5. f \in [B(s) -> R(s) \ {r}]
    <3> HIDE DEF B, R
    <3> QED BY <2>4
  <2>6. \A a, c \in B(s) : f[a] = f[c] => a = c
    <3> SUFFICES ASSUME NEW a \in B(s), NEW c \in B(s), f[a] = f[c], a # c PROVE FALSE
      OBVIOUS
    <3>1. at[a] = at[c] /\ a \in DOMAIN bursts /\ c \in DOMAIN bursts /\ at[a] # Unassigned
      <4>1. at[a] # Unassigned
        BY <2>4
      <4> QED BY <4>1
    <3> HIDE DEF B, f
    <3> QED BY <1>1, <3>1 DEF OneToOne
  <2>7. g \in [R(s) -> B(s)]
    BY DEF Owners
  <2>8. \A u, w \in R(s) : g[u] = g[w] => u = w
    BY DEF Owners
  <2>9. IsFiniteSet(R(s))
    BY <1>3
  <2> HIDE DEF B, R, f, g
  <2>10. r \in R(s)
    BY <2>3
  <2> QED BY <2>5, <2>6, <2>7, <2>8, <2>9, <2>10, NoInjectionIntoFewer
<1>6. ASSUME NEW b \in DOMAIN bursts,
             \A a \in DOMAIN bursts : bursts[a].start = bursts[b].start =>
               \E r \in DOMAIN records : owner[r] = a
      PROVE  at[b] # Unassigned
  <2> SUFFICES ASSUME at[b] = Unassigned PROVE FALSE
    OBVIOUS
  <2>1. PICK s : s = bursts[b].start
    OBVIOUS
  <2>2. b \in B(s)
    BY <2>1
  <2>3. \A r \in R(s) : \E c \in B(s) \ {b} : at[c] = r
    <3> SUFFICES ASSUME NEW r \in R(s) PROVE \E c \in B(s) \ {b} : at[c] = r
      OBVIOUS
    <3>1. r # Unassigned
      BY DEF Dated, Unassigned
    <3> HIDE DEF B, R
    <3>2. PICK c \in B(s) : at[c] = r
      BY <1>4, <2>2
    <3> QED BY <3>1, <3>2
  <2>4. \A a \in B(s) : \E r \in R(s) : owner[r] = a
    <3> SUFFICES ASSUME NEW a \in B(s) PROVE \E r \in R(s) : owner[r] = a
      OBVIOUS
    <3>1. PICK r \in DOMAIN records : owner[r] = a
      BY <1>6, <2>1
    <3>2. records[r].detect = bursts[a].start
      BY <3>1 DEF Owners
    <3> QED BY <3>1, <3>2
  <2> DEFINE f == [r \in R(s) |-> CHOOSE c \in B(s) \ {b} : at[c] = r]
             g == [a \in B(s) |-> CHOOSE r \in R(s) : owner[r] = a]
  <2>5. \A r \in R(s) : f[r] \in B(s) \ {b} /\ at[f[r]] = r
    <3> HIDE DEF B, R
    <3> QED BY <2>3
  <2>6. \A a \in B(s) : g[a] \in R(s) /\ owner[g[a]] = a
    <3> HIDE DEF B, R
    <3> QED BY <2>4
  <2>7. f \in [R(s) -> B(s) \ {b}] /\ g \in [B(s) -> R(s)]
    <3>1. f = [r \in R(s) |-> f[r]] /\ g = [a \in B(s) |-> g[a]]
      OBVIOUS
    <3> HIDE DEF B, R, f, g
    <3> QED BY <2>5, <2>6, <3>1
  <2>8. IsFiniteSet(B(s))
    BY <1>3
  <2> HIDE DEF B, R, f, g
  <2>9. /\ \A r, u \in R(s) : f[r] = f[u] => r = u
        /\ \A a, c \in B(s) : g[a] = g[c] => a = c
    BY <2>5, <2>6
  <2> QED BY <2>2, <2>7, <2>8, <2>9, NoInjectionIntoFewer
<1> QED BY <1>5, <1>6

-----------------------------------------------------------------------------
(***************************************************************************)
(* The outputs, as lists.                                                  *)
(***************************************************************************)

\* A list of a set's elements holds each of them once.
LEMMA Enumerates ==
  ASSUME NEW S, IsFiniteSet(S), NEW s \in SetToSeqs(S)
  PROVE  /\ Len(s) \in Nat /\ DOMAIN s = 1..Len(s)
         /\ \A i \in DOMAIN s : s[i] \in S
         /\ \A i, j \in DOMAIN s : s[i] = s[j] => i = j
         /\ \A x \in S : \E i \in DOMAIN s : s[i] = x
<1>1. PICK n \in Nat : n = Cardinality(S)
  BY FS_CardinalityType
<1>2. s \in [1..n -> S] /\ \A i, j \in 1..n : i # j => s[i] # s[j]
  BY <1>1 DEF SetToSeqs
<1>3. Len(s) = n /\ DOMAIN s = 1..n
  BY <1>2
<1>4. IsFiniteSet(1..n) /\ Cardinality(1..n) = n
  <2>1. /\ IsFiniteSet(1..n)
        /\ Cardinality(1..n) = IF 1 > n THEN 0 ELSE n - 1 + 1
    BY FS_Interval
  <2> QED BY <2>1
<1>5. s \in Injection(1..n, S)
  BY <1>2 DEF Injection, IsInjective
<1>6. s \in Surjection(1..n, S)
  BY <1>1, <1>4, <1>5, FS_Injection
<1>7. \A x \in S : \E i \in DOMAIN s : s[i] = x
  BY <1>3, <1>6 DEF Surjection
<1> QED BY <1>2, <1>3, <1>7

\* A finite set that is strictly and totally ordered can be listed in order:
\* each element at the place the number of those before it gives.
LEMMA OrderedListing ==
  ASSUME NEW S, IsFiniteSet(S), NEW Before,
         \A x \in S : <<x, x>> \notin Before,
         \A x, y, z \in S : <<x, y>> \in Before /\ <<y, z>> \in Before => <<x, z>> \in Before,
         \A x, y \in S : x # y => <<x, y>> \in Before \/ <<y, x>> \in Before
  PROVE  \E s \in SetToSeqs(S) :
           \A i, j \in DOMAIN s : i < j => <<s[i], s[j]>> \in Before
<1>1. PICK n \in Nat : n = Cardinality(S)
  BY FS_CardinalityType
<1> DEFINE Earlier(x) == {y \in S : <<y, x>> \in Before}
           rank == [x \in S |-> Cardinality(Earlier(x)) + 1]
<1>2. ASSUME NEW x \in S
      PROVE  /\ IsFiniteSet(Earlier(x)) /\ Cardinality(Earlier(x)) \in Nat
             /\ Cardinality(Earlier(x)) < n
  <2>1. Earlier(x) \in SUBSET S /\ Earlier(x) # S
    OBVIOUS
  <2> HIDE DEF Earlier
  <2>2. /\ IsFiniteSet(Earlier(x)) /\ Cardinality(Earlier(x)) <= Cardinality(S)
        /\ Cardinality(S) # Cardinality(Earlier(x))
    BY <2>1, FS_Subset
  <2>3. Cardinality(Earlier(x)) \in Nat
    BY <2>2, FS_CardinalityType
  <2> QED BY <1>1, <2>2, <2>3
<1>3. ASSUME NEW x \in S, NEW y \in S, <<x, y>> \in Before
      PROVE  rank[x] < rank[y]
  <2>1. Earlier(x) \in SUBSET Earlier(y) /\ Earlier(x) # Earlier(y)
    <3>1. x \in Earlier(y) /\ x \notin Earlier(x)
      BY <1>3
    <3> QED BY <1>3, <3>1
  <2>2. rank[x] = Cardinality(Earlier(x)) + 1 /\ rank[y] = Cardinality(Earlier(y)) + 1
    OBVIOUS
  <2> HIDE DEF Earlier, rank
  <2>3. /\ Cardinality(Earlier(x)) <= Cardinality(Earlier(y))
        /\ Cardinality(Earlier(y)) # Cardinality(Earlier(x))
    BY <1>2, <2>1, FS_Subset
  <2> QED BY <1>2, <2>2, <2>3
<1>4. rank \in [S -> 1..n]
  <2>1. \A x \in S : rank[x] = Cardinality(Earlier(x)) + 1
    OBVIOUS
  <2>2. rank = [x \in S |-> rank[x]]
    OBVIOUS
  <2> HIDE DEF Earlier, rank
  <2>3. \A x \in S : rank[x] \in 1..n
    BY <1>2, <2>1
  <2> QED BY <2>2, <2>3
<1> HIDE DEF rank, Earlier
<1>5. \A x, y \in S : rank[x] = rank[y] => x = y
  <2> SUFFICES ASSUME NEW x \in S, NEW y \in S, rank[x] = rank[y], x # y PROVE FALSE
    OBVIOUS
  <2>1. rank[x] < rank[y] \/ rank[y] < rank[x]
    BY <1>3
  <2>2. rank[x] \in Nat /\ rank[y] \in Nat
    BY <1>4
  <2> QED BY <2>1, <2>2
<1>6. rank \in Surjection(S, 1..n)
  <2>1. rank \in Injection(S, 1..n)
    BY <1>4, <1>5 DEF Injection, IsInjective
  <2>2. /\ IsFiniteSet(1..n)
        /\ Cardinality(1..n) = IF 1 > n THEN 0 ELSE n - 1 + 1
    BY FS_Interval
  <2>3. Cardinality(1..n) = Cardinality(S)
    BY <1>1, <2>2
  <2> QED BY <2>1, <2>2, <2>3, FS_Injection
<1>7. \A i \in 1..n : \E x \in S : rank[x] = i
  BY <1>6 DEF Surjection
<1> DEFINE s == [i \in 1..n |-> CHOOSE x \in S : rank[x] = i]
<1>8. \A i \in 1..n : s[i] \in S /\ rank[s[i]] = i
  BY <1>7
<1>9. DOMAIN s = 1..n /\ s = [i \in 1..n |-> s[i]]
  OBVIOUS
<1> HIDE DEF s
<1>10. s \in SetToSeqs(S)
  <2>1. s \in [1..n -> S]
    BY <1>8, <1>9
  <2>2. \A i, j \in 1..n : i # j => s[i] # s[j]
    BY <1>8
  <2> QED BY <1>1, <2>1, <2>2 DEF SetToSeqs
<1>11. ASSUME NEW i \in DOMAIN s, NEW j \in DOMAIN s, i < j
       PROVE  <<s[i], s[j]>> \in Before
  <2>1. s[i] \in S /\ s[j] \in S /\ rank[s[i]] = i /\ rank[s[j]] = j /\ i \in Nat /\ j \in Nat
    BY <1>8, <1>9
  <2>2. s[i] # s[j] /\ ~(rank[s[j]] < rank[s[i]])
    BY <1>11, <2>1
  <2>3. <<s[j], s[i]>> \notin Before
    BY <1>3, <2>1, <2>2
  <2> QED BY <2>1, <2>2, <2>3
<1> QED BY <1>10, <1>11

LEMMA ImageIsFinite ==
  ASSUME NEW S, IsFiniteSet(S), NEW f, DOMAIN f = S, f = [x \in S |-> f[x]]
  PROVE  IsFiniteSet({f[x] : x \in S})
<1>1. f \in Surjection(S, {f[x] : x \in S})
  BY DEF Surjection
<1> QED BY <1>1, FS_Surjection

LEMMA InOrderOfIdLists ==
  ASSUME NEW S, IsFiniteSet(S), \A t \in S : t.traceId \in Nat,
         \A t, u \in S : t.traceId = u.traceId => t = u
  PROVE  InOrderOfId(S) \in SetToSeqs(S)
<1> DEFINE Before == {x \in S \X S : x[1].traceId < x[2].traceId}
<1>1. \A x, y \in S : <<x, y>> \in Before <=> x.traceId < y.traceId
  OBVIOUS
<1> HIDE DEF Before
<1>2. /\ \A x \in S : <<x, x>> \notin Before
      /\ \A x, y, z \in S : <<x, y>> \in Before /\ <<y, z>> \in Before => <<x, z>> \in Before
      /\ \A x, y \in S : x # y => <<x, y>> \in Before \/ <<y, x>> \in Before
  BY <1>1
<1>3. PICK s \in SetToSeqs(S) : \A i, j \in DOMAIN s : i < j => <<s[i], s[j]>> \in Before
  BY <1>2, OrderedListing
<1>4. \A i \in DOMAIN s : s[i] \in S
  BY Enumerates
<1>5. \A i, j \in DOMAIN s : i < j => s[i].traceId < s[j].traceId
  BY <1>1, <1>3, <1>4
<1> QED BY <1>5 DEF InOrderOfId

-----------------------------------------------------------------------------
(***************************************************************************)
(* A step of a run, as the traces and the oracle see it: the engine is     *)
(* told of the last flow of each burst that the victim hears and of        *)
(* nothing else, so that the traces started are the bursts heard, in their *)
(* order.                                                                  *)
(***************************************************************************)
Logged(route) == oracle' = Append(oracle, [start |-> now, chain |-> TrueChain(route)])

HeardStep(route) ==
  /\ Starts(Last(route))
  /\ Logged(route)
  /\ heard' = Append(heard, Len(oracle) + 1)

UnheardStep(route) ==
  /\ Quiet
  /\ now + Transit >= StopTime
  /\ Logged(route)
  /\ heard' = heard

LiveStep ==
  /\ TraceStep
  /\ \/ \E route \in Routes : HeardStep(route) \/ UnheardStep(route)
     \/ /\ oracle' = oracle /\ heard' = heard
        /\ \/ Quiet
           \/ \E p \in pending : Ends(p)
           \/ \E p \in pending : \E match \in Flows : Continues(p, match)

LEMMA RouteType ==
  ASSUME NEW route \in Routes
  PROVE  /\ route \in Seq(Flows) /\ Len(route) >= 1
         /\ Last(route) \in Flows /\ DstNode[Last(route)] = Victim
         /\ TrueChain(route) \in Seq(Nodes \cup {kNotFound})
<1>1. route \in Seq(Flows) /\ route # <<>>
  BY RouteAssumption
<1>2. Len(route) >= 1 /\ Len(route) \in Nat
  BY <1>1
<1>3. Last(route) \in Flows /\ DstNode[Last(route)] = Victim
  BY <1>1, <1>2, RouteAssumption DEF Last
<1>4. TrueChain(route) \in Seq(Nodes \cup {kNotFound})
  <2>1. \A i \in 1..Len(route) : SrcNode[route[i]] \in Nodes \cup {kNotFound}
    BY <1>1, TopologyAssumption
  <2>2. [i \in 1..Len(route) |-> SrcNode[route[i]]] \in Seq(Nodes \cup {kNotFound})
    BY <1>2, <2>1
  <2>3. <<Victim>> \in Seq(Nodes \cup {kNotFound})
    BY TopologyAssumption
  <2> QED BY <2>2, <2>3 DEF TrueChain
<1> QED BY <1>1, <1>2, <1>3, <1>4

LEMMA LiveForms ==
  ASSUME TypeOK, [LiveNext]_liveVars
  PROVE  LiveStep
<1>t. pending \in SUBSET Attempt
  BY DEF TypeOK
<1>1. CASE \E r \in Routes : FireBurst(r)
  <2>1. PICK r \in Routes : FireBurst(r)
    BY <1>1
  <2>2. Last(r) \in Flows /\ DstNode[Last(r)] = Victim /\ Logged(r) /\ now' = now
    BY <2>1, RouteType DEF FireBurst, Logged
  <2>3. CASE ReachesVictim(r)
    <3>1. Starts(Last(r)) /\ heard' = Append(heard, Len(oracle) + 1)
      BY <2>2, <2>3 DEF ReachesVictim, OnFlowObserved, StartsTrace, Starts
    <3>2. TraceStep
      BY <2>2, <3>1 DEF TraceStep
    <3> QED BY <2>2, <3>1, <3>2 DEF HeardStep, LiveStep
  <2>4. CASE FindsSinkClosed(r)
    <3>1. Quiet /\ heard' = heard /\ now + Transit >= StopTime
      BY <2>4 DEF FindsSinkClosed, observerVars, Quiet
    <3> QED BY <2>2, <3>1 DEF UnheardStep, TraceStep, LiveStep
  <2> QED BY <2>1, <2>3, <2>4 DEF FireBurst
<1>2. CASE \E f \in Flows : FireSession(f)
  BY <1>2 DEF FireSession, RecordRecv, observerVars, Quiet, TraceStep, LiveStep
<1>3. CASE (\E p \in pending : AttemptTrace(p)) /\ UNCHANGED <<oracle, heard>>
  <2>1. PICK p \in pending : AttemptTrace(p)
    BY <1>3
  <2>2. CASE \E match \in Flows : Matched(p, match)
    <3>1. \E match \in Flows : Continues(p, match)
      BY <2>2 DEF Matched, Continues
    <3> QED BY <1>3, <1>t, <2>1, <3>1, AttemptForm DEF LiveStep
  <2>3. CASE ~\E match \in Flows : Matched(p, match)
    <3>1. Ends(p)
      BY <1>t, <2>1, <2>3, EndForm DEF AttemptTrace, GiveUp
    <3> QED BY <1>3, <1>t, <2>1, <3>1, AttemptForm DEF LiveStep
  <2> QED BY <2>2, <2>3
<1>4. CASE Tick /\ UNCHANGED <<oracle, heard>>
  BY <1>4, TickForm DEF Tick, observerVars, Quiet, LiveStep
<1>5. CASE UNCHANGED liveVars
  BY <1>5 DEF liveVars, vars, Quiet, TraceStep, LiveStep
<1> QED BY <1>1, <1>2, <1>3, <1>4, <1>5 DEF LiveNext

LEMMA LiveEnvironmentTypes ==
  ASSUME TypeOK, [LiveNext]_liveVars
  PROVE  /\ (now \in 0..EndTime)'
         /\ (lastRx \in [Flows -> Nat \cup {Never}])'
         /\ (arrivals \in Nat)'
<1> USE EndTimeType
<1>1. CASE \E r \in Routes : FireBurst(r)
  BY <1>1 DEF FireBurst, ReachesVictim, FindsSinkClosed, ReceivedNow, TypeOK
<1>2. CASE \E f \in Flows : FireSession(f)
  BY <1>2 DEF FireSession, RecordRecv, TypeOK
<1>3. CASE \E p \in pending : AttemptTrace(p)
  BY <1>3 DEF AttemptTrace, GiveUp, UnknownPeer, CycleDetected, WindowExpired,
     HopLimitReached, NoMatch, Finish, Matched, TypeOK
<1>4. CASE Tick
  BY <1>4 DEF Tick, TypeOK
<1>5. CASE UNCHANGED liveVars
  BY <1>5 DEF liveVars, vars, TypeOK
<1> QED BY <1>1, <1>2, <1>3, <1>4, <1>5 DEF LiveNext

-----------------------------------------------------------------------------
(***************************************************************************)
(* The invariant of a run: the engine's own invariants, which survive      *)
(* traffic of any kind; how long a path is for the hops it took; and the   *)
(* oracle's log, whose entry heard[i] is the burst that started trace      *)
(* i - 1: every burst fired in time is heard, and none twice.              *)
(***************************************************************************)
ReportsCountPath == \A c \in completed : Len(c.chain) \in {c.hops + 1, c.hops + 2}

FewTraces == IsFiniteSet(pending) /\ IsFiniteSet(completed)

Entry == [start : Nat, chain : Seq(Nodes \cup {kNotFound})]

OracleInv ==
  /\ oracle \in Seq(Entry)
  /\ heard \in Seq(Nat) /\ Len(heard) = nextTraceId
  /\ \A i \in 1..Len(heard) : heard[i] \in 1..Len(oracle)
  /\ \A i, j \in 1..Len(heard) : heard[i] = heard[j] => i = j
  /\ \A b \in 1..Len(oracle) :
       oracle[b].start + Transit < StopTime => \E i \in 1..Len(heard) : heard[i] = b
  /\ \A t \in Traces : oracle[heard[t.traceId + 1]].start = t.detect

LiveInv ==
  /\ TypeOK
  /\ OneOutcomePerTrace
  /\ BudgetInv
  /\ HopsCountPath
  /\ ReportsCountPath
  /\ FewTraces
  /\ OracleInv

LEMMA ReportsCountStep ==
  TypeOK /\ HopsCountPath /\ ReportsCountPath /\ LiveStep => ReportsCountPath'
<1> SUFFICES ASSUME TypeOK, HopsCountPath, ReportsCountPath, LiveStep
             PROVE  ReportsCountPath'
  OBVIOUS
<1>1. CASE completed' = completed
  BY <1>1 DEF ReportsCountPath
<1>2. CASE \E p \in pending : Ends(p)
  <2>1. PICK p \in pending : Ends(p)
    BY <1>2
  <2>2. PICK reason \in StopReason,
             chain \in {p.chain} \cup (IF Peer(p) \in Nodes THEN {Append(p.chain, Peer(p))} ELSE {}) :
               completed' = completed \cup {Report(p, chain, reason)}
    BY <2>1 DEF Ends
  <2>3. PICK c : c = Report(p, chain, reason)
    OBVIOUS
  <2>4. c.hops = p.hops /\ c.chain = chain
    BY <2>3 DEF Report
  <2>5. p.chain \in Seq(Nodes) /\ Len(p.chain) = p.hops + 1 /\ p.hops \in Nat
    BY DEF TypeOK, Attempt, HopsCountPath
  <2>6. Len(chain) \in {p.hops + 1, p.hops + 2}
    BY <2>2, <2>5, AppendFacts
  <2> QED BY <2>2, <2>3, <2>4, <2>6 DEF ReportsCountPath
<1> QED BY <1>1, <1>2 DEF LiveStep, HeardStep, UnheardStep, Starts, Quiet, Continues

LEMMA FewTracesStep == FewTraces /\ TraceStep => FewTraces'
<1> SUFFICES ASSUME FewTraces, TraceStep
             PROVE  FewTraces'
  OBVIOUS
<1>1. CASE Quiet
  BY <1>1 DEF Quiet, FewTraces
<1>2. CASE \E f \in Flows : Starts(f)
  <2>1. PICK f \in Flows : Starts(f)
    BY <1>2
  <2>2. PICK a : a = FirstAttempt(f)
    OBVIOUS
  <2>3. pending' = pending \cup {a} /\ completed' = completed
    BY <2>1, <2>2 DEF Starts
  <2> QED BY <2>3, FS_AddElement DEF FewTraces
<1>3. CASE \E p \in pending : Ends(p)
  <2>1. PICK p \in pending : Ends(p)
    BY <1>3
  <2>2. PICK c : completed' = completed \cup {c}
    BY <2>1 DEF Ends
  <2>3. pending' = pending \ {p}
    BY <2>1 DEF Ends
  <2> QED BY <2>2, <2>3, FS_AddElement, FS_RemoveElement DEF FewTraces
<1>4. CASE \E p \in pending : \E match \in Flows : Continues(p, match)
  <2>1. PICK p \in pending, match \in Flows : Continues(p, match)
    BY <1>4
  <2>2. PICK a : a = NextAttempt(p, match)
    OBVIOUS
  <2>3. pending' = (pending \ {p}) \cup {a} /\ completed' = completed
    BY <2>1, <2>2 DEF Continues
  <2>4. IsFiniteSet(pending \ {p})
    BY FS_RemoveElement DEF FewTraces
  <2> QED BY <2>3, <2>4, FS_AddElement DEF FewTraces
<1> QED BY <1>1, <1>2, <1>3, <1>4 DEF TraceStep

LEMMA LogGrows ==
  ASSUME TypeOK, OracleInv, NEW route \in Routes, Logged(route)
  PROVE  /\ oracle' \in Seq(Entry) /\ Len(oracle') = Len(oracle) + 1
         /\ oracle'[Len(oracle) + 1].start = now
         /\ \A i \in 1..Len(oracle) : oracle'[i] = oracle[i]
<1>1. PICK e \in Entry : e = [start |-> now, chain |-> TrueChain(route)]
  <2>1. now \in Nat /\ TrueChain(route) \in Seq(Nodes \cup {kNotFound})
    BY EndTimeType, RouteType DEF TypeOK
  <2> QED BY <2>1 DEF Entry
<1>2. e.start = now
  BY <1>1
<1>3. oracle \in Seq(Entry) /\ oracle' = Append(oracle, e)
  BY <1>1 DEF OracleInv, Logged
<1> QED BY <1>2, <1>3, AppendFacts

LEMMA OracleStep ==
  TypeOK /\ OneOutcomePerTrace /\ OracleInv /\ LiveStep => OracleInv'
<1> SUFFICES ASSUME TypeOK, OneOutcomePerTrace, OracleInv, LiveStep
             PROVE  OracleInv'
  OBVIOUS
<1>t. /\ nextTraceId \in Nat /\ now \in Nat
      /\ \A t \in Traces : t.traceId \in Nat /\ t.traceId < nextTraceId
  BY EndTimeType DEF TypeOK, Traces, Attempt, Completion, OneOutcomePerTrace
<1>o. /\ oracle \in Seq(Entry) /\ Len(oracle) \in Nat
      /\ heard \in Seq(Nat) /\ Len(heard) = nextTraceId
      /\ \A i \in 1..Len(heard) : heard[i] \in 1..Len(oracle)
      /\ \A i, j \in 1..Len(heard) : heard[i] = heard[j] => i = j
      /\ \A b \in 1..Len(oracle) :
           oracle[b].start + Transit < StopTime => \E i \in 1..Len(heard) : heard[i] = b
  BY DEF OracleInv
<1>1. ASSUME NEW route \in Routes, HeardStep(route)
      PROVE  OracleInv'
  <2>1. PICK a : a = FirstAttempt(Last(route))
    OBVIOUS
  <2>2. a.traceId = nextTraceId /\ a.detect = now
    BY <2>1 DEF FirstAttempt
  <2>3. Traces' = Traces \cup {a} /\ nextTraceId' = nextTraceId + 1
    BY <1>1, <2>1 DEF HeardStep, Starts, Traces
  <2>4. /\ oracle' \in Seq(Entry) /\ Len(oracle') = Len(oracle) + 1
        /\ oracle'[Len(oracle) + 1].start = now
        /\ \A i \in 1..Len(oracle) : oracle'[i] = oracle[i]
    BY <1>1, LogGrows DEF HeardStep
  <2>5. /\ heard' \in Seq(Nat) /\ Len(heard') = nextTraceId + 1
        /\ heard'[nextTraceId + 1] = Len(oracle) + 1
        /\ \A i \in 1..nextTraceId : heard'[i] = heard[i]
    <3>1. heard' = Append(heard, Len(oracle) + 1) /\ Len(oracle) + 1 \in Nat
      BY <1>1, <1>o DEF HeardStep
    <3> QED BY <1>t, <1>o, <3>1, AppendFacts
  <2>6. ASSUME NEW i \in 1..Len(heard')
        PROVE  \/ i \in 1..nextTraceId /\ heard'[i] = heard[i] /\ heard[i] \in 1..Len(oracle)
               \/ i = nextTraceId + 1 /\ heard'[i] = Len(oracle) + 1
    BY <1>t, <1>o, <2>5
  <2>7. \A i \in 1..Len(heard') : heard'[i] \in 1..Len(oracle')
    BY <1>o, <2>4, <2>6
  <2>8. \A i, j \in 1..Len(heard') : heard'[i] = heard'[j] => i = j
    BY <1>o, <2>6
  <2>9. ASSUME NEW b \in 1..Len(oracle'), oracle'[b].start + Transit < StopTime
        PROVE  \E i \in 1..Len(heard') : heard'[i] = b
    <3>1. CASE b \in 1..Len(oracle)
      <4>1. oracle[b].start + Transit < StopTime
        BY <2>4, <2>9, <3>1
      <4>2. PICK i \in 1..Len(heard) : heard[i] = b
        BY <1>o, <3>1, <4>1
      <4>3. i \in 1..Len(heard') /\ i \in 1..nextTraceId
        BY <1>t, <1>o, <2>5
      <4> QED BY <2>5, <4>2, <4>3
    <3>2. CASE b = Len(oracle) + 1
      <4>1. nextTraceId + 1 \in 1..Len(heard')
        BY <1>t, <2>5
      <4> QED BY <2>5, <3>2, <4>1
    <3> QED BY <1>o, <2>4, <3>1, <3>2
  <2>10. ASSUME NEW t \in Traces' PROVE oracle'[heard'[t.traceId + 1]].start = t.detect
    <3>1. CASE t \in Traces
      <4>1. t.traceId + 1 \in 1..nextTraceId
        BY <1>t, <3>1
      <4>2. heard'[t.traceId + 1] = heard[t.traceId + 1] /\ heard[t.traceId + 1] \in 1..Len(oracle)
        BY <1>o, <2>5, <4>1
      <4> QED BY <2>4, <3>1, <4>2 DEF OracleInv
    <3>2. CASE t = a
      BY <2>2, <2>4, <2>5, <3>2
    <3> QED BY <2>3, <3>1, <3>2
  <2> QED BY <2>3, <2>4, <2>5, <2>7, <2>8, <2>9, <2>10 DEF OracleInv
<1>2. ASSUME NEW route \in Routes, UnheardStep(route)
      PROVE  OracleInv'
  <2>1. /\ oracle' \in Seq(Entry) /\ Len(oracle') = Len(oracle) + 1
        /\ oracle'[Len(oracle) + 1].start = now
        /\ \A i \in 1..Len(oracle) : oracle'[i] = oracle[i]
    BY <1>2, LogGrows DEF UnheardStep
  <2>2. heard' = heard /\ Traces' = Traces /\ nextTraceId' = nextTraceId
    BY <1>2 DEF UnheardStep, Quiet, Traces
  <2>3. \A i \in 1..Len(heard') : heard'[i] \in 1..Len(oracle')
    BY <1>o, <2>1, <2>2
  <2>4. ASSUME NEW b \in 1..Len(oracle'), oracle'[b].start + Transit < StopTime
        PROVE  \E i \in 1..Len(heard') : heard'[i] = b
    <3>1. b # Len(oracle) + 1
      <4>1. now + Transit >= StopTime /\ now + Transit \in Int /\ StopTime \in Int
        BY <1>t, <1>2, RouteAssumption, TimingAssumption DEF UnheardStep
      <4>2. ~(now + Transit < StopTime)
        BY <4>1
      <4> QED BY <2>1, <2>4, <4>2
    <3>2. b \in 1..Len(oracle)
      BY <1>o, <2>1, <3>1
    <3>3. oracle[b].start + Transit < StopTime
      BY <2>1, <2>4, <3>2
    <3> QED BY <1>o, <2>2, <3>2, <3>3
  <2>5. ASSUME NEW t \in Traces' PROVE oracle'[heard'[t.traceId + 1]].start = t.detect
    <3>1. t \in Traces /\ t.traceId + 1 \in 1..Len(heard)
      BY <1>t, <1>o, <2>2
    <3>2. heard[t.traceId + 1] \in 1..Len(oracle)
      BY <1>o, <3>1
    <3> QED BY <2>1, <2>2, <3>1, <3>2 DEF OracleInv
  <2> QED BY <1>o, <2>1, <2>2, <2>3, <2>4, <2>5 DEF OracleInv
<1>3. CASE oracle' = oracle /\ heard' = heard /\ Quiet
  BY <1>3 DEF Quiet, OracleInv, Traces
<1>4. ASSUME oracle' = oracle, heard' = heard, NEW p \in pending, Ends(p)
      PROVE  OracleInv'
  <2>1. PICK c : /\ c.traceId = p.traceId /\ c.detect = p.detect
                 /\ completed' = completed \cup {c}
    BY <1>4 DEF Ends, Report
  <2>2. Traces' \subseteq Traces \cup {c} /\ nextTraceId' = nextTraceId /\ p \in Traces
    BY <1>4, <2>1 DEF Ends, Traces
  <2>3. \A t \in Traces' : oracle[heard[t.traceId + 1]].start = t.detect
    BY <2>1, <2>2 DEF OracleInv
  <2> QED BY <1>4, <1>o, <2>2, <2>3 DEF OracleInv
<1>5. ASSUME oracle' = oracle, heard' = heard, NEW p \in pending, NEW match \in Flows,
             Continues(p, match)
      PROVE  OracleInv'
  <2>1. PICK a : a = NextAttempt(p, match)
    OBVIOUS
  <2>2. a.traceId = p.traceId /\ a.detect = p.detect
    BY <2>1 DEF NextAttempt
  <2>3. Traces' \subseteq Traces \cup {a} /\ nextTraceId' = nextTraceId /\ p \in Traces
    BY <1>5, <2>1 DEF Continues, Traces
  <2>4. \A t \in Traces' : oracle[heard[t.traceId + 1]].start = t.detect
    BY <2>2, <2>3 DEF OracleInv
  <2> QED BY <1>5, <1>o, <2>3, <2>4 DEF OracleInv
<1> QED BY <1>1, <1>2, <1>3, <1>4, <1>5 DEF LiveStep

LEMMA LiveInvStep == LiveInv /\ [LiveNext]_liveVars => LiveInv'
<1> SUFFICES ASSUME LiveInv, [LiveNext]_liveVars
             PROVE  LiveInv'
  OBVIOUS
<1>1. /\ TypeOK /\ OneOutcomePerTrace /\ BudgetInv /\ HopsCountPath
      /\ ReportsCountPath /\ FewTraces /\ OracleInv
  BY DEF LiveInv
<1>2. LiveStep
  BY <1>1, LiveForms
<1>3. TraceStep
  BY <1>2 DEF LiveStep
<1>4. TypeOK'
  BY <1>1, <1>3, TraceTypes, LiveEnvironmentTypes DEF TypeOK
<1>5. OneOutcomePerTrace' /\ BudgetInv' /\ HopsCountPath'
  BY <1>1, <1>3, OneOutcomeStep, BudgetStep, HopsCountStep
<1>6. ReportsCountPath' /\ FewTraces' /\ OracleInv'
  BY <1>1, <1>2, <1>3, ReportsCountStep, FewTracesStep, OracleStep
<1> QED BY <1>4, <1>5, <1>6 DEF LiveInv

LEMMA LiveInvHolds == LiveSpec => []LiveInv
<1>1. LiveInit => LiveInv
  <2> SUFFICES ASSUME LiveInit PROVE LiveInv
    OBVIOUS
  <2>1. TypeOK
    BY EndTimeType DEF LiveInit, Init, TypeOK, Never
  <2>2. /\ OneOutcomePerTrace /\ BudgetInv /\ HopsCountPath /\ ReportsCountPath
    BY DEF LiveInit, Init, OneOutcomePerTrace, Traces, BudgetInv, BudgetRespected,
       NothingOverdue, HopsCountPath, ReportsCountPath
  <2>3. FewTraces
    BY FS_EmptySet DEF LiveInit, Init, FewTraces
  <2>4. OracleInv
    BY DEF LiveInit, Init, OracleInv, Traces
  <2> QED BY <2>1, <2>2, <2>3, <2>4 DEF LiveInv
<1> QED BY <1>1, LiveInvStep, PTL DEF LiveSpec

-----------------------------------------------------------------------------
(***************************************************************************)
(* What the outputs hold when they are read.                               *)
(***************************************************************************)
Reported == completed \cup {p \in pending : p.hops > 0}

\* The trace's line, whichever of the two it comes from.
IsLineOf(record, t) ==
  /\ record.traceId = t.traceId /\ record.detect = t.detect
  /\ record.chain = t.chain /\ (record.matched <=> t.hops > 0)
  /\ Len(t.chain) >= 3 => record.resolved = t.chain[3]

RecordFacts ==
  /\ Dated(oracle, Records)
  /\ \A r \in DOMAIN Records : \E t \in Reported : IsLineOf(Records[r], t)
  /\ \A r, u \in DOMAIN Records : Records[r].traceId = Records[u].traceId => r = u
  /\ \A t \in Reported : \E r \in DOMAIN Records : IsLineOf(Records[r], t)

\* The burst that started a trace.
BurstOf(t) == heard[t.traceId + 1]

LEMMA OracleDated ==
  ASSUME LiveInv
  PROVE  /\ Len(oracle) \in Nat /\ DOMAIN oracle = 1..Len(oracle)
         /\ \A b \in DOMAIN oracle : /\ oracle[b].start \in Nat
                                     /\ oracle[b].chain \in Seq(Nodes \cup {kNotFound})
         /\ \A t \in Traces : /\ BurstOf(t) \in DOMAIN oracle
                              /\ oracle[BurstOf(t)].start = t.detect
         /\ \A t, u \in Traces : BurstOf(t) = BurstOf(u) => t.traceId = u.traceId
         /\ \A b \in DOMAIN oracle :
              oracle[b].start + Transit < StopTime => \E t \in Traces : BurstOf(t) = b
<1>1. /\ oracle \in Seq(Entry) /\ Len(heard) = nextTraceId
      /\ \A i \in 1..Len(heard) : heard[i] \in 1..Len(oracle)
      /\ \A i, j \in 1..Len(heard) : heard[i] = heard[j] => i = j
      /\ \A b \in 1..Len(oracle) :
           oracle[b].start + Transit < StopTime => \E i \in 1..Len(heard) : heard[i] = b
      /\ \A t \in Traces : oracle[BurstOf(t)].start = t.detect
  BY DEF LiveInv, OracleInv, BurstOf
<1>2. \A e \in Entry : e.start \in Nat /\ e.chain \in Seq(Nodes \cup {kNotFound})
  BY DEF Entry
<1>3. /\ Len(oracle) \in Nat /\ DOMAIN oracle = 1..Len(oracle)
      /\ \A b \in DOMAIN oracle : oracle[b] \in Entry
  BY <1>1
<1>4. \A t \in Traces : t.traceId \in Nat /\ t.traceId < nextTraceId
  BY DEF LiveInv, TypeOK, Traces, Attempt, Completion, OneOutcomePerTrace
<1>n. nextTraceId \in Nat
  BY DEF LiveInv, TypeOK
<1>5. \A t \in Traces : t.traceId + 1 \in 1..Len(heard)
  BY <1>1, <1>4, <1>n
<1>6. \A t \in Traces : BurstOf(t) \in DOMAIN oracle
  BY <1>1, <1>3, <1>5 DEF BurstOf
<1>7. \A t, u \in Traces : BurstOf(t) = BurstOf(u) => t.traceId = u.traceId
  <2> SUFFICES ASSUME NEW t \in Traces, NEW u \in Traces, BurstOf(t) = BurstOf(u)
               PROVE  t.traceId = u.traceId
    OBVIOUS
  <2>1. t.traceId + 1 = u.traceId + 1
    BY <1>1, <1>5 DEF BurstOf
  <2> QED BY <1>4, <2>1
<1>8. ASSUME NEW b \in DOMAIN oracle, oracle[b].start + Transit < StopTime
      PROVE  \E t \in Traces : BurstOf(t) = b
  <2>1. PICK i \in 1..Len(heard) : heard[i] = b
    BY <1>1, <1>3, <1>8
  <2>2. i - 1 \in 0..(nextTraceId - 1) /\ (i - 1) + 1 = i
    BY <1>1, <1>n
  <2>3. PICK t \in Traces : t.traceId = i - 1
    BY <2>2 DEF LiveInv, OneOutcomePerTrace
  <2> QED BY <2>1, <2>2, <2>3 DEF BurstOf
<1> QED BY <1>1, <1>2, <1>3, <1>6, <1>7, <1>8

LEMMA ReportedFacts ==
  ASSUME LiveInv
  PROVE  /\ Reported \subseteq Traces /\ completed \subseteq Reported
         /\ \A t \in Traces : t.traceId \in Nat /\ t.detect \in Nat /\ t.hops \in Nat
         /\ \A t, u \in Traces : t.traceId = u.traceId => t = u
         /\ IsFiniteSet(completed) /\ IsFiniteSet({p \in pending : p.hops > 0})
<1>1. \A t \in Traces : t.traceId \in Nat /\ t.detect \in Nat /\ t.hops \in Nat
  BY DEF LiveInv, TypeOK, Traces, Attempt, Completion
<1>2. \A t, u \in Traces : t.traceId = u.traceId => t = u
  BY DEF LiveInv, OneOutcomePerTrace, Traces
<1>3. {p \in pending : p.hops > 0} \subseteq pending
  OBVIOUS
<1>4. IsFiniteSet(completed) /\ IsFiniteSet({p \in pending : p.hops > 0})
  BY <1>3, FS_Subset DEF LiveInv, FewTraces
<1> QED BY <1>1, <1>2, <1>4 DEF Reported, Traces

LEMMA LineOf ==
  ASSUME NEW t, NEW reason, NEW last
  PROVE  IsLineOf(TraceRecord(t, reason, last), t)
BY DEF IsLineOf, TraceRecord

LEMMA RecordFactsHold == LiveInv => RecordFacts
<1> SUFFICES ASSUME LiveInv
             PROVE  RecordFacts
  OBVIOUS
<1> DEFINE open == {p \in pending : p.hops > 0}
           lines == {TraceRecord(c, c.reason, c.last) : c \in completed}
           cut == {TraceRecord(p, "matched", p.confirmed) : p \in open}
           S == lines \cup cut
<1>1. \A x \in S : \E t \in Reported : IsLineOf(x, t)
  <2>1. \A x \in lines : \E t \in Reported : IsLineOf(x, t)
    BY LineOf DEF Reported
  <2>2. \A x \in cut : \E t \in Reported : IsLineOf(x, t)
    BY LineOf DEF Reported
  <2> QED BY <2>1, <2>2
<1>2. \A t \in Reported : \E x \in S : IsLineOf(x, t)
  BY LineOf DEF Reported
<1>3. IsFiniteSet(S)
  <2> DEFINE f == [c \in completed |-> TraceRecord(c, c.reason, c.last)]
             g == [p \in open |-> TraceRecord(p, "matched", p.confirmed)]
  <2>1. IsFiniteSet(completed) /\ IsFiniteSet(open)
    BY ReportedFacts
  <2>2. /\ DOMAIN f = completed /\ f = [c \in completed |-> f[c]]
        /\ DOMAIN g = open /\ g = [p \in open |-> g[p]]
        /\ lines = {f[c] : c \in completed} /\ cut = {g[p] : p \in open}
    OBVIOUS
  <2> HIDE DEF f, g, open, lines, cut
  <2>3. IsFiniteSet(lines)
    BY <2>1, <2>2, ImageIsFinite
  <2>4. IsFiniteSet(cut)
    BY <2>1, <2>2, ImageIsFinite
  <2> QED BY <2>3, <2>4, FS_Union
<1>4. \A x, y \in S : x.traceId = y.traceId => x = y
  <2>1. \A c \in completed, x \in lines :
          x.traceId = c.traceId => x = TraceRecord(c, c.reason, c.last)
    <3> SUFFICES ASSUME NEW c \in completed, NEW d \in completed,
                        TraceRecord(d, d.reason, d.last).traceId = c.traceId
                 PROVE  TraceRecord(d, d.reason, d.last) = TraceRecord(c, c.reason, c.last)
      OBVIOUS
    <3>1. d.traceId = c.traceId
      BY LineOf DEF IsLineOf
    <3>2. d = c
      BY <3>1, ReportedFacts DEF Traces
    <3> QED BY <3>2
  <2>2. \A p \in open, x \in cut :
          x.traceId = p.traceId => x = TraceRecord(p, "matched", p.confirmed)
    <3> SUFFICES ASSUME NEW p \in open, NEW q \in open,
                        TraceRecord(q, "matched", q.confirmed).traceId = p.traceId
                 PROVE  TraceRecord(q, "matched", q.confirmed) = TraceRecord(p, "matched", p.confirmed)
      OBVIOUS
    <3>1. q.traceId = p.traceId
      BY LineOf DEF IsLineOf
    <3>2. q = p
      BY <3>1, ReportedFacts DEF Traces
    <3> QED BY <3>2
  <2>3. \A x \in lines : \E c \in completed : x = TraceRecord(c, c.reason, c.last) /\ x.traceId = c.traceId
    BY DEF TraceRecord
  <2>4. \A x \in cut : \E p \in open : x = TraceRecord(p, "matched", p.confirmed) /\ x.traceId = p.traceId
    BY DEF TraceRecord
  <2>5. \A c \in completed, p \in open : p.traceId # c.traceId
    BY DEF LiveInv, OneOutcomePerTrace
  <2> HIDE DEF open, lines, cut
  <2>6. \A x \in lines, y \in lines : x.traceId = y.traceId => x = y
    BY <2>1, <2>3
  <2>7. \A x \in cut, y \in cut : x.traceId = y.traceId => x = y
    BY <2>2, <2>4
  <2>8. \A x \in lines, y \in cut : x.traceId # y.traceId
    BY <2>3, <2>4, <2>5
  <2> QED BY <2>6, <2>7, <2>8
<1>5. Records = InOrderOfId(S)
  BY DEF Records
<1> HIDE DEF S
<1>6. \A x \in S : x.traceId \in Nat /\ x.detect \in Nat
  BY <1>1, ReportedFacts DEF IsLineOf
<1>7. Records \in SetToSeqs(S)
  BY <1>3, <1>4, <1>5, <1>6, InOrderOfIdLists
<1>8. /\ Len(Records) \in Nat /\ DOMAIN Records = 1..Len(Records)
      /\ \A i \in DOMAIN Records : Records[i] \in S
      /\ \A i, j \in DOMAIN Records : Records[i] = Records[j] => i = j
      /\ \A x \in S : \E i \in DOMAIN Records : Records[i] = x
  <2>1. PICK s : s = Records
    OBVIOUS
  <2>2. /\ Len(s) \in Nat /\ DOMAIN s = 1..Len(s)
        /\ \A i \in DOMAIN s : s[i] \in S
        /\ \A i, j \in DOMAIN s : s[i] = s[j] => i = j
        /\ \A x \in S : \E i \in DOMAIN s : s[i] = x
    BY <1>3, <1>7, <2>1, Enumerates
  <2> QED BY <2>1, <2>2
<1>9. Dated(oracle, Records)
  BY <1>6, <1>8, OracleDated DEF Dated
<1>10. \A r \in DOMAIN Records : \E t \in Reported : IsLineOf(Records[r], t)
  BY <1>1, <1>8
<1>11. \A r, u \in DOMAIN Records : Records[r].traceId = Records[u].traceId => r = u
  BY <1>4, <1>8
<1>12. \A t \in Reported : \E r \in DOMAIN Records : IsLineOf(Records[r], t)
  BY <1>2, <1>8
<1> QED BY <1>9, <1>10, <1>11, <1>12 DEF RecordFacts

ReidFacts ==
  /\ Dated(oracle, ReidRecords)
  /\ \A r \in DOMAIN ReidRecords : ReidRecords[r] \in completed
  /\ \A r, u \in DOMAIN ReidRecords : ReidRecords[r] = ReidRecords[u] => r = u

LEMMA ReidFactsHold == LiveInv => ReidFacts
<1> SUFFICES ASSUME LiveInv
             PROVE  ReidFacts
  OBVIOUS
<1> DEFINE S == {c \in completed : Len(c.chain) >= 2}
           Before == {x \in S \X S : \/ x[1].at < x[2].at
                                     \/ x[1].at = x[2].at /\ x[1].traceId < x[2].traceId}
<1>1. \A x, y \in S : <<x, y>> \in Before <=>
        \/ x.at < y.at
        \/ x.at = y.at /\ x.traceId < y.traceId
  OBVIOUS
<1>2. /\ S \subseteq completed
      /\ \A x \in S : x.at \in Nat /\ x.traceId \in Nat /\ x.detect \in Nat
      /\ \A x, y \in S : x.traceId = y.traceId => x = y
  BY DEF LiveInv, TypeOK, Completion, OneOutcomePerTrace
<1>3. ReidRecords = CHOOSE s \in SetToSeqs(S) :
                      \A i, j \in DOMAIN s :
                        i < j => \/ s[i].at < s[j].at
                                 \/ s[i].at = s[j].at /\ s[i].traceId < s[j].traceId
  BY DEF ReidRecords
<1> HIDE DEF S, Before
<1>4. IsFiniteSet(S)
  BY <1>2, ReportedFacts, FS_Subset
<1>5. /\ \A x \in S : <<x, x>> \notin Before
      /\ \A x, y, z \in S : <<x, y>> \in Before /\ <<y, z>> \in Before => <<x, z>> \in Before
      /\ \A x, y \in S : x # y => <<x, y>> \in Before \/ <<y, x>> \in Before
  BY <1>1, <1>2
<1>6. PICK s \in SetToSeqs(S) : \A i, j \in DOMAIN s : i < j => <<s[i], s[j]>> \in Before
  BY <1>4, <1>5, OrderedListing
<1>7. \A i \in DOMAIN s : s[i] \in S
  BY <1>4, Enumerates
<1>8. \A i, j \in DOMAIN s : i < j => \/ s[i].at < s[j].at
                                      \/ s[i].at = s[j].at /\ s[i].traceId < s[j].traceId
  BY <1>1, <1>6, <1>7
<1>9. PICK t : t = ReidRecords
  OBVIOUS
<1>10. t \in SetToSeqs(S)
  BY <1>3, <1>8, <1>9
<1>11. /\ Len(t) \in Nat /\ DOMAIN t = 1..Len(t)
       /\ \A i \in DOMAIN t : t[i] \in S
       /\ \A i, j \in DOMAIN t : t[i] = t[j] => i = j
  BY <1>4, <1>10, Enumerates
<1> QED BY <1>2, <1>9, <1>11, OracleDated DEF ReidFacts, Dated

-----------------------------------------------------------------------------
(***************************************************************************)
(* The verdicts.                                                           *)
(***************************************************************************)
LEMMA AssignedFacts ==
  ASSUME LiveInv
  PROVE  /\ Assigned \in Assignments(oracle, Records)
         /\ OneToOne(oracle, Assigned)
         /\ \A q \in Pairings(oracle, Records, Tolerance) :
              Served(oracle, Records, Assigned, q)
         /\ \A b \in DOMAIN oracle : Assigned[b] # Unassigned => Assigned[b] \in DOMAIN Records
<1>1. Dated(oracle, Records) /\ Tolerance \in Nat
  BY RecordFactsHold, RouteAssumption DEF RecordFacts
<1>2. /\ Assigned \in Assignments(oracle, Records)
      /\ OneToOne(oracle, Assigned)
      /\ \A q \in Pairings(oracle, Records, Tolerance) :
           Served(oracle, Records, Assigned, q)
  BY <1>1, StableAssignment DEF Assigned
<1> QED BY <1>2 DEF Assignments

\* The assignment phase 2 judges a run by is one-to-one and stable, for every
\* course of the run and at every moment of it; for the lists the other phases
\* assign there is StableAssignment
\* (evaluate_run, analysis/evaluate_phase2.py:39-46).
THEOREM Stability == LiveSpec => []AssignmentIsStable
<1>1. LiveInv => AssignmentIsStable
  <2> SUFFICES ASSUME LiveInv PROVE AssignmentIsStable
    OBVIOUS
  <2>1. PICK at : at = Assigned
    OBVIOUS
  <2>2. /\ at \in Assignments(oracle, Records)
        /\ OneToOne(oracle, at)
        /\ \A q \in Pairings(oracle, Records, Tolerance) : Served(oracle, Records, at, q)
    BY <2>1, AssignedFacts
  <2>3. ASSUME NEW b \in DOMAIN oracle, NEW r \in DOMAIN Records,
               Gap(oracle[b], Records[r]) <= Tolerance
        PROVE  \/ at[b] # Unassigned /\ Gap(oracle[b], Records[at[b]]) <= Gap(oracle[b], Records[r])
               \/ \E a \in DOMAIN oracle :
                    at[a] = r /\ Gap(oracle[a], Records[r]) <= Gap(oracle[b], Records[r])
    <3>1. PICK q : q = <<b, r>>
      OBVIOUS
    <3>2. q \in Pairings(oracle, Records, Tolerance) /\ q[1] = b /\ q[2] = r
      BY <2>3, <3>1 DEF Pairings
    <3>3. Served(oracle, Records, at, q)
      BY <2>2, <3>2
    <3> QED BY <3>2, <3>3 DEF Served
  <2>4. \A a, b \in DOMAIN oracle : a # b /\ at[a] = at[b] => at[a] = Unassigned
    BY <2>2 DEF OneToOne
  <2> QED BY <2>1, <2>3, <2>4 DEF AssignmentIsStable
<1> QED BY <1>1, LiveInvHolds, PTL

\* The burst a record is the trace of.
OwnerOf(records) == [r \in DOMAIN records |-> heard[records[r].traceId + 1]]

LEMMA RecordOwners ==
  ASSUME LiveInv
  PROVE  Owners(oracle, Records, OwnerOf(Records))
<1>1. ASSUME NEW r \in DOMAIN Records
      PROVE  \E t \in Traces : /\ Records[r].traceId = t.traceId
                               /\ OwnerOf(Records)[r] = BurstOf(t)
                               /\ oracle[BurstOf(t)].start = Records[r].detect
  <2>1. PICK t \in Reported : IsLineOf(Records[r], t)
    BY RecordFactsHold DEF RecordFacts
  <2>2. t \in Traces /\ Records[r].traceId = t.traceId /\ Records[r].detect = t.detect
    BY <2>1, ReportedFacts DEF IsLineOf
  <2>3. OwnerOf(Records)[r] = BurstOf(t)
    BY <2>2 DEF OwnerOf, BurstOf
  <2> QED BY <2>2, <2>3, OracleDated
<1>2. \A r, u \in DOMAIN Records :
        OwnerOf(Records)[r] = OwnerOf(Records)[u] => r = u
  BY <1>1, OracleDated, RecordFactsHold DEF RecordFacts
<1>3. OwnerOf(Records) \in [DOMAIN Records -> DOMAIN oracle]
  <2>1. \A r \in DOMAIN Records : OwnerOf(Records)[r] \in DOMAIN oracle
    BY <1>1, OracleDated
  <2> QED BY <2>1 DEF OwnerOf
<1>4. \A r \in DOMAIN Records : oracle[OwnerOf(Records)[r]].start = Records[r].detect
  BY <1>1
<1> QED BY <1>2, <1>3, <1>4 DEF Owners

LEMMA ReidOwners ==
  ASSUME LiveInv
  PROVE  Owners(oracle, ReidRecords, OwnerOf(ReidRecords))
<1>1. ASSUME NEW r \in DOMAIN ReidRecords
      PROVE  /\ ReidRecords[r] \in Traces
             /\ OwnerOf(ReidRecords)[r] = BurstOf(ReidRecords[r])
             /\ oracle[BurstOf(ReidRecords[r])].start = ReidRecords[r].detect
  <2>1. ReidRecords[r] \in Traces
    BY ReidFactsHold DEF ReidFacts, Traces
  <2>2. OwnerOf(ReidRecords)[r] = BurstOf(ReidRecords[r])
    BY DEF OwnerOf, BurstOf
  <2> QED BY <2>1, <2>2, OracleDated
<1>2. \A r, u \in DOMAIN ReidRecords :
        OwnerOf(ReidRecords)[r] = OwnerOf(ReidRecords)[u] => r = u
  <2> SUFFICES ASSUME NEW r \in DOMAIN ReidRecords, NEW u \in DOMAIN ReidRecords,
                      OwnerOf(ReidRecords)[r] = OwnerOf(ReidRecords)[u]
               PROVE  r = u
    OBVIOUS
  <2>1. ReidRecords[r].traceId = ReidRecords[u].traceId
    BY <1>1, OracleDated
  <2>2. ReidRecords[r] = ReidRecords[u]
    BY <1>1, <2>1, ReportedFacts
  <2> QED BY <2>2, ReidFactsHold DEF ReidFacts
<1>3. OwnerOf(ReidRecords) \in [DOMAIN ReidRecords -> DOMAIN oracle]
  <2>1. \A r \in DOMAIN ReidRecords : OwnerOf(ReidRecords)[r] \in DOMAIN oracle
    BY <1>1, OracleDated
  <2> QED BY <2>1 DEF OwnerOf
<1> QED BY <1>1, <1>2, <1>3 DEF Owners

\* No burst is ever labelled with the cluster of a burst of another instant,
\* whatever traces the end of the run cut off and whatever bursts came too late
\* for the victim to hear
\* (evaluate_run, analysis/evaluate_phase3.py:40-51).
THEOREM OwnLabels == LiveSpec => []LabelsAreOwn
<1>1. LiveInv => LabelsAreOwn
  <2> SUFFICES ASSUME LiveInv, NEW b \in DOMAIN oracle, Labels[b] # Unassigned
               PROVE  ReidRecords[Labels[b]].detect = oracle[b].start
    BY DEF LabelsAreOwn
  <2>1. Dated(oracle, ReidRecords) /\ Tolerance \in Nat
    BY ReidFactsHold, RouteAssumption DEF ReidFacts
  <2> QED BY <2>1, ReidOwners, OwnRecords DEF Labels
<1> QED BY <1>1, LiveInvHolds, PTL

\* Every burst that the victim hears for sure, before its sink stops, and that
\* leaves time for one attempt before the simulator stops is judged by a trace
\* detected when it started, the bursts logged and not heard notwithstanding
\* (evaluate_run, analysis/evaluate_phase2.py:39-46).
THEOREM BurstsAnswered == LiveSpec => []EveryBurstAnswered
<1>1. LiveInv => EveryBurstAnswered
  <2> SUFFICES ASSUME LiveInv, Ended, NEW b \in DOMAIN oracle,
                      oracle[b].start + Transit < StopTime,
                      oracle[b].start + AccumulationDelay < EndTime
               PROVE  /\ Assigned[b] # Unassigned
                      /\ Records[Assigned[b]].detect = oracle[b].start
    BY DEF EveryBurstAnswered
  <2>1. Dated(oracle, Records) /\ Tolerance \in Nat
    BY RecordFactsHold, RouteAssumption DEF RecordFacts
  <2>2. ASSUME NEW a \in DOMAIN oracle, oracle[a].start = oracle[b].start
        PROVE  \E r \in DOMAIN Records : OwnerOf(Records)[r] = a
    <3>1. PICK t \in Traces : BurstOf(t) = a
      BY <2>2, OracleDated
    <3>2. t.detect = oracle[b].start
      BY <2>2, <3>1, OracleDated
    <3>3. t \in Reported
      <4> SUFFICES ASSUME t \in pending, ~(t.hops > 0)
                   PROVE  FALSE
        BY <3>1 DEF Reported, Traces
      <4>1. t.hops = 0 /\ t.detect \in Nat
        BY <3>1, ReportedFacts
      <4>2. /\ t.due = t.detect + AccumulationDelay + HopDelay * t.hops
            /\ now <= t.due
        BY DEF LiveInv, BudgetInv, BudgetRespected, NothingOverdue
      <4>3. t.due = t.detect + AccumulationDelay
        BY <4>1, <4>2, TimingAssumption
      <4>4. now = EndTime /\ t.due < EndTime
        BY <3>2, <4>3 DEF Ended
      <4>5. t.due \in Int /\ EndTime \in Int
        BY <4>1, <4>3, TimingAssumption, EndTimeType
      <4> QED BY <4>2, <4>4, <4>5
    <3>4. PICK r \in DOMAIN Records : IsLineOf(Records[r], t)
      BY <3>3, RecordFactsHold DEF RecordFacts
    <3>5. OwnerOf(Records)[r] = BurstOf(t)
      BY <3>4 DEF IsLineOf, OwnerOf, BurstOf
    <3> QED BY <3>1, <3>5
  <2>3. Assigned[b] # Unassigned
    BY <2>1, <2>2, RecordOwners, OwnRecords DEF Assigned
  <2>4. Records[Assigned[b]].detect = oracle[b].start
    BY <2>1, <2>3, RecordOwners, OwnRecords DEF Assigned
  <2> QED BY <2>3, <2>4
<1> QED BY <1>1, LiveInvHolds, PTL

\* A burst that counts as traced has the path of the trace it is judged by.
LEMMA SuccessForm ==
  ASSUME LiveInv, NEW b \in DOMAIN oracle, Assigned[b] # Unassigned,
         Success(oracle[b], Records[Assigned[b]])
  PROVE  \E t \in Reported :
           /\ IsLineOf(Records[Assigned[b]], t)
           /\ t.chain = Reverse(oracle[b].chain)
           /\ Len(t.chain) = Len(oracle[b].chain)
           /\ Len(t.chain) \in {t.hops + 1, t.hops + 2}
           /\ t.hops \in Nat
<1>1. Assigned[b] \in DOMAIN Records
  BY AssignedFacts
<1>2. PICK t \in Reported : IsLineOf(Records[Assigned[b]], t)
  BY <1>1, RecordFactsHold DEF RecordFacts
<1>3. t.chain = Reverse(oracle[b].chain)
  BY <1>2 DEF IsLineOf, Success
<1>4. Len(oracle[b].chain) \in Nat
  BY OracleDated
<1>5. Len(t.chain) = Len(oracle[b].chain)
  BY <1>3, <1>4 DEF Reverse
<1>6. Len(t.chain) \in {t.hops + 1, t.hops + 2}
  BY DEF LiveInv, HopsCountPath, ReportsCountPath, Reported
<1>7. t.hops \in Nat
  BY ReportedFacts
<1> QED BY <1>2, <1>3, <1>5, <1>6, <1>7

\* Phase 1 and phase 2 agree: the wider tolerance of phase 1 leaves the burst
\* with the same trace, and that names the node before the last relay
\* (evaluate_run, analysis/evaluate_phase1.py:45-120).
THEOREM TracedAreHits == LiveSpec => []TracedBurstsAreHits
<1>1. LiveInv => TracedBurstsAreHits
  <2> SUFFICES ASSUME LiveInv, NEW b \in DOMAIN oracle, Assigned[b] # Unassigned,
                      Success(oracle[b], Records[Assigned[b]]), HasUpstream(oracle[b])
               PROVE  HopAssigned[b] # Unassigned /\ Hit(oracle[b], Records[HopAssigned[b]])
    BY DEF TracedBurstsAreHits
  <2>1. HopAssigned[b] = Assigned[b]
    <3>1. Dated(oracle, Records)
      BY RecordFactsHold DEF RecordFacts
    <3>2. Tolerance \in Nat /\ HopTolerance \in Nat /\ Tolerance <= HopTolerance
      BY RouteAssumption
    <3> QED BY <3>1, <3>2, WiderTolerance DEF Assigned, HopAssigned
  <2>2. PICK t \in Reported :
          /\ IsLineOf(Records[Assigned[b]], t)
          /\ t.chain = Reverse(oracle[b].chain)
          /\ Len(t.chain) = Len(oracle[b].chain)
          /\ Len(t.chain) \in {t.hops + 1, t.hops + 2}
          /\ t.hops \in Nat
    BY SuccessForm
  <2>3. Len(oracle[b].chain) \in Nat /\ Len(oracle[b].chain) >= 3
    BY OracleDated DEF HasUpstream
  <2>4. t.hops > 0 /\ Len(t.chain) >= 3
    BY <2>2, <2>3
  <2>5. t.chain[3] = oracle[b].chain[Len(oracle[b].chain) - 2]
    <3>1. /\ 3 \in 1..Len(oracle[b].chain)
          /\ (Len(oracle[b].chain) - 3) + 1 = Len(oracle[b].chain) - 2
      BY <2>3
    <3> QED BY <2>2, <3>1 DEF Reverse
  <2> QED BY <2>1, <2>2, <2>4, <2>5 DEF IsLineOf, Hit, ExpectedUpstream
<1> QED BY <1>1, LiveInvHolds, PTL

\* No burst counts as traced whose chain is longer than the live window has
\* time for (traceback-observer.cc:128, analysis/evaluate_phase2.py:72).
THEOREM SuccessInTime == LiveSpec => []SuccessWithinBudget
<1>1. LiveInv => SuccessWithinBudget
  <2> SUFFICES ASSUME LiveInv, NEW b \in DOMAIN oracle, Assigned[b] # Unassigned,
                      Success(oracle[b], Records[Assigned[b]])
               PROVE  AccumulationDelay + (Len(oracle[b].chain) - 2) * HopDelay <= LongestTrace
    BY DEF SuccessWithinBudget, LongestTrace
  <2>1. PICK t \in Reported :
          /\ Len(t.chain) = Len(oracle[b].chain)
          /\ Len(t.chain) \in {t.hops + 1, t.hops + 2}
          /\ t.hops \in Nat
    BY SuccessForm
  <2>2. PICK spent \in Nat : spent = HopDelay * t.hops
    BY <2>1, TimingAssumption
  <2>3. AccumulationDelay + spent <= LongestTrace
    <3>1. t.detect \in Nat /\ LongestTrace \in Nat /\ AccumulationDelay \in Nat
      BY ReportedFacts, LongestTraceType, TimingAssumption
    <3>2. CASE t \in pending
      <4>1. /\ t.due <= t.detect + LongestTrace
            /\ t.due = t.detect + AccumulationDelay + spent
        BY <2>2, <3>2 DEF LiveInv, BudgetInv, BudgetRespected
      <4> QED BY <3>1, <4>1
    <3>3. CASE t \in completed
      <4>1. /\ t.at <= t.detect + LongestTrace
            /\ t.at = t.detect + AccumulationDelay + spent
        BY <2>2, <3>3 DEF LiveInv, BudgetInv, BudgetRespected
      <4> QED BY <3>1, <4>1
    <3> QED BY <3>2, <3>3 DEF Reported
  <2>4. (Len(oracle[b].chain) - 2) * HopDelay <= spent
    <3>1. CASE Len(t.chain) = t.hops + 2
      <4>1. Len(oracle[b].chain) - 2 = t.hops
        BY <2>1, <3>1
      <4>2. t.hops * HopDelay = HopDelay * t.hops
        BY <2>1, TimingAssumption
      <4> QED BY <2>2, <4>1, <4>2
    <3>2. CASE Len(t.chain) = t.hops + 1
      <4>1. Len(oracle[b].chain) - 2 = t.hops - 1
        BY <2>1, <3>2
      <4>2. (t.hops - 1) * HopDelay = HopDelay * t.hops - HopDelay
        BY <2>1, TimingAssumption
      <4> QED BY <2>2, <4>1, <4>2, TimingAssumption
    <3> QED BY <2>1, <3>1, <3>2
  <2>5. (Len(oracle[b].chain) - 2) * HopDelay \in Int
    <3>1. Len(oracle[b].chain) - 2 \in Int
      BY OracleDated
    <3> QED BY <3>1, TimingAssumption
  <2> QED BY <2>2, <2>3, <2>4, <2>5, LongestTraceType, TimingAssumption
<1> QED BY <1>1, LiveInvHolds, PTL

-----------------------------------------------------------------------------
(***************************************************************************)
(* The traceback engine calls the visualizer as TraceVisualizer takes for  *)
(* granted: engine and listeners together implement that module, the slot  *)
(* of a trace being the flow it started from.                              *)
(***************************************************************************)
walks ==
  [f \in VictimFlows |->
     IF InFlight(f) = {} THEN None
     ELSE UNION {ConfirmedNodes(p) : p \in InFlight(f)}]
latest == IF nextTraceId = 0 THEN None ELSE TraceOf(nextTraceId - 1).hop0

\* A trace starts from a flow the victim receives.
FromVictim == \A t \in Traces : t.hop0 \in VictimFlows

EngineInv ==
  /\ TypeOK
  /\ OneOutcomePerTrace
  /\ OneTracePerFlow
  /\ PathInv
  /\ FromVictim

\* The listeners add no step of their own to the engine.
LEMMA EngineSteps ==
  ASSUME [ListenersNext]_allVars
  PROVE  [Next]_vars
<1>1. CASE UNCHANGED allVars
  BY <1>1 DEF allVars
<1>2. ASSUME NEW f \in Flows, ReceiveAndNotify(f) PROVE Next
  BY <1>2 DEF ReceiveAndNotify, Next
<1>3. ASSUME NEW p \in pending, AttemptAndNotify(p) PROVE Next
  BY <1>3
     DEF AttemptAndNotify, MatchedAndNotify, NoMatchAndNotify, GiveUpAndNotify,
         AttemptTrace, Next
<1>4. CASE TickOnly
  BY <1>4 DEF TickOnly, Next
<1> QED BY <1>1, <1>2, <1>3, <1>4 DEF ListenersNext

LEMMA EngineInside == ListenersSpec => Spec
<1>1. ListenersInit => Init
  BY DEF ListenersInit
<1>2. [ListenersNext]_allVars => [Next]_vars
  BY EngineSteps
<1> QED BY <1>1, <1>2, PTL DEF ListenersSpec, Spec

LEMMA FromVictimStep ==
  ASSUME TypeOK, FromVictim, [Next]_vars
  PROVE  FromVictim'
<1>1. CASE \E f \in Flows : Receive(f)
  <2>1. PICK f \in Flows : Receive(f)
    BY <1>1
  <2>2. CASE StartsTrace(f)
    <3>1. PICK a : a = FirstAttempt(f)
      OBVIOUS
    <3>2. a.hop0 = f /\ f \in VictimFlows
      BY <2>2, <3>1 DEF FirstAttempt, StartsTrace, VictimFlows
    <3>3. pending' = pending \cup {a} /\ completed' = completed
      BY <2>1, <2>2, <3>1 DEF Receive, OnFlowObserved
    <3> QED BY <3>2, <3>3 DEF FromVictim, Traces, VictimFlows
  <2>3. CASE ~StartsTrace(f)
    BY <2>1, <2>3
       DEF Receive, OnFlowObserved, observerVars, FromVictim, Traces, VictimFlows
  <2> QED BY <2>2, <2>3
<1>2. ASSUME NEW p \in pending, Ends(p) PROVE FromVictim'
  <2>1. PICK c : c.hop0 = p.hop0 /\ completed' = completed \cup {c}
    BY <1>2 DEF Ends, Report
  <2>2. pending' = pending \ {p}
    BY <1>2 DEF Ends
  <2> QED BY <2>1, <2>2 DEF FromVictim, Traces, VictimFlows
<1>3. ASSUME NEW p \in pending, NEW match \in Flows, Continues(p, match)
      PROVE  FromVictim'
  <2>1. PICK a : a = NextAttempt(p, match)
    OBVIOUS
  <2>2. a.hop0 = p.hop0
    BY <2>1 DEF NextAttempt
  <2>3. pending' = (pending \ {p}) \cup {a} /\ completed' = completed
    BY <1>3, <2>1 DEF Continues
  <2> QED BY <2>2, <2>3 DEF FromVictim, Traces, VictimFlows
<1>4. ASSUME Quiet PROVE FromVictim'
  BY <1>4 DEF Quiet, FromVictim, Traces, VictimFlows
<1>5. CASE \E p \in pending : AttemptTrace(p)
  <2>1. PICK p \in pending : AttemptTrace(p)
    BY <1>5
  <2>2. p \in Attempt
    BY DEF TypeOK
  <2>3. CASE \E match \in Flows : Matched(p, match)
    BY <1>3, <2>3 DEF Matched, Continues
  <2>4. CASE ~\E match \in Flows : Matched(p, match)
    BY <1>2, <2>1, <2>2, <2>4, EndForm DEF AttemptTrace, GiveUp
  <2> QED BY <2>3, <2>4
<1>6. CASE Tick
  BY <1>4, <1>6 DEF Tick, Quiet, observerVars
<1>7. CASE UNCHANGED vars
  BY <1>4, <1>7 DEF vars, Quiet
<1> QED BY <1>1, <1>5, <1>6, <1>7 DEF Next

LEMMA EngineInvAlways == Spec => []EngineInv
<1>1. Init => FromVictim /\ PathInv
  BY DEF Init, FromVictim, Traces, PathInv, PathIsSimple, Rooted
<1>2. TypeOK /\ FromVictim /\ [Next]_vars => FromVictim'
  BY FromVictimStep
<1>3. TypeOK /\ OneOutcomePerTrace /\ OneTracePerFlow /\ PathInv /\ FromVictim
        => EngineInv
  BY DEF EngineInv
<1> QED
  BY <1>1, <1>2, <1>3, PathStep, TypeCorrect, OneOutcome, OneTrace, PTL DEF Spec

-----------------------------------------------------------------------------
(***************************************************************************)
(* The mapped variables, trace by trace.                                   *)
(***************************************************************************)
LEMMA WalkOf ==
  ASSUME EngineInv, NEW p \in pending
  PROVE  /\ p.hop0 \in VictimFlows
         /\ InFlight(p.hop0) = {p}
         /\ walks[p.hop0] = ConfirmedNodes(p)
         /\ ConfirmedNodes(p) \subseteq Nodes
         /\ walks[p.hop0] # None
<1>1. p.hop0 \in VictimFlows
  BY DEF EngineInv, FromVictim, Traces
<1>2. \A q \in pending : q.hop0 = p.hop0 => q = p
  BY DEF EngineInv, OneTracePerFlow, OneOutcomePerTrace, Traces
<1>3. InFlight(p.hop0) = {p}
  BY <1>2 DEF InFlight
<1>4. walks[p.hop0] = ConfirmedNodes(p)
  BY <1>1, <1>3 DEF walks
<1>5. p.chain \in Seq(Nodes)
  BY DEF EngineInv, TypeOK, Attempt
<1>6. ConfirmedNodes(p) \subseteq Nodes
  BY <1>5 DEF ConfirmedNodes
<1>7. ConfirmedNodes(p) # None
  BY <1>6, ListenersAssumption
<1> QED BY <1>1, <1>3, <1>4, <1>6, <1>7

\* The trace started last, whatever has become of it.
LEMMA LatestOf ==
  ASSUME EngineInv, NEW t \in Traces, t.traceId = nextTraceId - 1
  PROVE  latest = t.hop0
<1>1. \A u \in Traces : u.traceId = t.traceId => u = t
  BY DEF EngineInv, OneOutcomePerTrace, Traces
<1>2. TraceOf(nextTraceId - 1) = t
  BY <1>1 DEF TraceOf
<1>3. nextTraceId # 0
  BY DEF EngineInv, TypeOK, Traces, Attempt, Completion
<1> QED BY <1>2, <1>3 DEF latest

\* A step that keeps every trace's number and flow keeps the one started last.
LEMMA LatestStays ==
  ASSUME EngineInv, EngineInv', nextTraceId' = nextTraceId,
         \A t \in Traces : \E u \in Traces' : u.traceId = t.traceId /\ u.hop0 = t.hop0
  PROVE  latest' = latest
<1>1. CASE nextTraceId = 0
  BY <1>1 DEF latest
<1>2. CASE nextTraceId # 0
  <2>1. nextTraceId - 1 \in 0..(nextTraceId - 1)
    BY <1>2 DEF EngineInv, TypeOK
  <2>2. PICK t \in Traces : t.traceId = nextTraceId - 1
    BY <2>1 DEF EngineInv, OneOutcomePerTrace
  <2>3. PICK u \in Traces' : u.traceId = t.traceId /\ u.hop0 = t.hop0
    BY <2>2
  <2>4. latest = t.hop0
    BY <2>2, LatestOf
  <2>5. \A v \in Traces' : v.traceId = u.traceId => v = u
    BY <2>3 DEF EngineInv, OneOutcomePerTrace, Traces
  <2>6. TraceOf(nextTraceId - 1)' = u
    BY <2>2, <2>3, <2>5 DEF TraceOf
  <2>7. latest' = u.hop0
    BY <1>2, <2>6 DEF latest
  <2> QED BY <2>3, <2>4, <2>7
<1> QED BY <1>1, <1>2

\* The other traces' walks are untouched when only p's attempt changes.
LEMMA OneWalkChanges ==
  ASSUME NEW f \in VictimFlows,
         \A g \in VictimFlows \ {f} : InFlight(g)' = InFlight(g)
  PROVE  walks' = [walks EXCEPT ![f] = walks'[f]]
<1>1. \A g \in VictimFlows \ {f} : walks'[g] = walks[g]
  BY DEF walks, VictimFlows, ConfirmedNodes
<1> QED BY <1>1 DEF walks, VictimFlows

-----------------------------------------------------------------------------
(***************************************************************************)
(* Every step maps to a step of the visualizer's module or to a stutter.   *)
(***************************************************************************)
StartsWalk(f) ==
  /\ walks[f] = None
  /\ walks' = [walks EXCEPT ![f] = {}]
  /\ latest' = f

GrowsWalk(f, n) ==
  /\ walks[f] # None
  /\ n \in Nodes \ (walks[f] \cup {Victim})
  /\ walks' = [walks EXCEPT ![f] = walks[f] \cup {n}]
  /\ latest' = latest

EndsWalk(f) ==
  /\ walks[f] # None
  /\ walks' = [walks EXCEPT ![f] = None]
  /\ latest' = latest

LEMMA StartMapped ==
  ASSUME EngineInv, EngineInv', NEW f \in VictimFlows, Starts(f)
  PROVE  StartsWalk(f)
<1>1. PICK a : a = FirstAttempt(f)
  OBVIOUS
<1>2. a.hop0 = f /\ a.traceId = nextTraceId /\ a.chain = <<Victim>>
  BY <1>1 DEF FirstAttempt
<1>3. pending' = pending \cup {a} /\ nextTraceId' = nextTraceId + 1
  BY <1>1 DEF Starts
<1>4. InFlight(f) = {}
  BY DEF EngineInv, OneTracePerFlow, Starts, Traces, InFlight
<1>5. InFlight(f)' = {a}
  BY <1>2, <1>3, <1>4 DEF InFlight
<1>6. \A g \in VictimFlows \ {f} : InFlight(g)' = InFlight(g)
  BY <1>2, <1>3 DEF InFlight
<1>7. ConfirmedNodes(a) = {}
  BY <1>2 DEF ConfirmedNodes
<1>8. walks[f] = None /\ walks'[f] = {}
  BY <1>4, <1>5, <1>7 DEF walks, VictimFlows, ConfirmedNodes
<1>9. walks' = [walks EXCEPT ![f] = {}]
  BY <1>6, <1>8, OneWalkChanges
<1>10. latest' = f
  <2>1. nextTraceId \in Nat
    BY DEF EngineInv, TypeOK
  <2>2. a \in Traces'
    BY <1>3 DEF Traces
  <2>3. \A v \in Traces' : v.traceId = a.traceId => v = a
    BY <2>2 DEF EngineInv, OneOutcomePerTrace, Traces
  <2>4. nextTraceId' - 1 = nextTraceId /\ nextTraceId' # 0
    BY <1>3, <2>1
  <2>5. TraceOf(nextTraceId - 1)' = a
    BY <1>2, <2>2, <2>3, <2>4 DEF TraceOf
  <2> QED BY <1>2, <2>4, <2>5 DEF latest
<1> QED BY <1>8, <1>9, <1>10 DEF StartsWalk

LEMMA ImageWithOneMore ==
  ASSUME NEW S, NEW k, NEW F, NEW G, \A i \in S : G[i] = F[i]
  PROVE  {G[i] : i \in S \cup {k}} = {F[i] : i \in S} \cup {G[k]}
OBVIOUS

\* A peer not on the chain is one the listeners have not been told of.
LEMMA FreshIsUnvisited ==
  ASSUME EngineInv, NEW p \in pending, FreshPeer(p)
  PROVE  Peer(p) \in Nodes \ (walks[p.hop0] \cup {Victim})
<1>1. p \in Attempt /\ p.chain \in Seq(Nodes) /\ Peer(p) \in Nodes
  BY PeerType DEF EngineInv, TypeOK, Attempt, FreshPeer, KnownPeer
<1>2. p.chain[1] = Victim /\ Len(p.chain) >= 1 /\ Len(p.chain) \in Nat
  BY <1>1 DEF EngineInv, PathInv, PathIsSimple, Rooted
<1>3. \A i \in 1..Len(p.chain) : p.chain[i] # Peer(p)
  BY <1>1 DEF FreshPeer, OnChain
<1>4. Peer(p) # Victim
  BY <1>2, <1>3
<1>5. Peer(p) \notin ConfirmedNodes(p)
  BY <1>3 DEF ConfirmedNodes
<1> QED BY <1>1, <1>4, <1>5, WalkOf

LEMMA GrowMapped ==
  ASSUME EngineInv, EngineInv', NEW p \in pending, NEW match \in Flows, Matched(p, match)
  PROVE  GrowsWalk(p.hop0, Peer(p))
<1>1. PICK a : a = NextAttempt(p, match)
  OBVIOUS
<1>2. a.hop0 = p.hop0 /\ a.traceId = p.traceId /\ a.chain = Append(p.chain, Peer(p))
  BY <1>1 DEF NextAttempt
<1>3. /\ pending' = (pending \ {p}) \cup {a}
      /\ nextTraceId' = nextTraceId /\ completed' = completed
  BY <1>1 DEF Matched
<1>4. /\ p.hop0 \in VictimFlows /\ InFlight(p.hop0) = {p}
      /\ walks[p.hop0] = ConfirmedNodes(p) /\ walks[p.hop0] # None
  BY WalkOf
<1>5. /\ p \in Attempt /\ p.chain \in Seq(Nodes) /\ Peer(p) \in Nodes
      /\ FreshPeer(p)
  BY PeerType DEF EngineInv, TypeOK, Attempt, Matched, MaySearch, FreshPeer, KnownPeer
<1>6. p.chain[1] = Victim /\ Len(p.chain) >= 1 /\ Len(p.chain) \in Nat
  BY <1>5 DEF EngineInv, PathInv, PathIsSimple, Rooted
<1>8. Peer(p) \in Nodes \ (walks[p.hop0] \cup {Victim})
  BY <1>5, FreshIsUnvisited
<1>9. ConfirmedNodes(a) = ConfirmedNodes(p) \cup {Peer(p)}
  <2>1. /\ Len(a.chain) = Len(p.chain) + 1
        /\ \A i \in 1..Len(p.chain) : a.chain[i] = p.chain[i]
        /\ a.chain[Len(p.chain) + 1] = Peer(p)
    BY <1>2, <1>5, AppendFacts
  <2>2. 2..Len(a.chain) = (2..Len(p.chain)) \cup {Len(p.chain) + 1}
    BY <1>6, <2>1
  <2>3. \A i \in 2..Len(p.chain) : a.chain[i] = p.chain[i]
    BY <1>6, <2>1
  <2>4. {a.chain[i] : i \in (2..Len(p.chain)) \cup {Len(p.chain) + 1}}
          = {p.chain[i] : i \in 2..Len(p.chain)} \cup {a.chain[Len(p.chain) + 1]}
    BY <2>3, ImageWithOneMore
  <2> QED BY <2>1, <2>2, <2>4 DEF ConfirmedNodes
<1>10. InFlight(p.hop0)' = {a}
  BY <1>2, <1>3, <1>4 DEF InFlight
<1>11. \A g \in VictimFlows \ {p.hop0} : InFlight(g)' = InFlight(g)
  BY <1>2, <1>3 DEF InFlight
<1>12. walks'[p.hop0] = walks[p.hop0] \cup {Peer(p)}
  <2>1. UNION {ConfirmedNodes(q) : q \in {a}} = ConfirmedNodes(a)
    OBVIOUS
  <2>2. walks'[p.hop0] = UNION {ConfirmedNodes(q) : q \in {a}}
    BY <1>4, <1>10 DEF walks, VictimFlows, ConfirmedNodes
  <2> QED BY <1>4, <1>9, <2>1, <2>2
<1>13. walks' = [walks EXCEPT ![p.hop0] = walks[p.hop0] \cup {Peer(p)}]
  BY <1>4, <1>11, <1>12, OneWalkChanges
<1>14. \A t \in Traces : \E u \in Traces' : u.traceId = t.traceId /\ u.hop0 = t.hop0
  BY <1>2, <1>3 DEF Traces
<1> QED BY <1>3, <1>4, <1>8, <1>13, <1>14, LatestStays DEF GrowsWalk

LEMMA EndMapped ==
  ASSUME EngineInv, EngineInv', NEW p \in pending, Ends(p)
  PROVE  EndsWalk(p.hop0)
<1>1. PICK c : /\ c.traceId = p.traceId /\ c.hop0 = p.hop0
               /\ completed' = completed \cup {c}
  BY DEF Ends, Report
<1>2. pending' = pending \ {p} /\ nextTraceId' = nextTraceId
  BY DEF Ends
<1>3. /\ p.hop0 \in VictimFlows /\ InFlight(p.hop0) = {p} /\ walks[p.hop0] # None
  BY WalkOf
<1>4. InFlight(p.hop0)' = {}
  BY <1>2, <1>3 DEF InFlight
<1>5. \A g \in VictimFlows \ {p.hop0} : InFlight(g)' = InFlight(g)
  BY <1>2 DEF InFlight
<1>6. walks'[p.hop0] = None
  BY <1>3, <1>4 DEF walks, VictimFlows
<1>7. walks' = [walks EXCEPT ![p.hop0] = None]
  BY <1>3, <1>5, <1>6, OneWalkChanges
<1>8. \A t \in Traces : \E u \in Traces' : u.traceId = t.traceId /\ u.hop0 = t.hop0
  BY <1>1, <1>2 DEF Traces
<1> QED BY <1>2, <1>3, <1>7, <1>8, LatestStays DEF EndsWalk

LEMMA QuietMapped ==
  ASSUME Quiet
  PROVE  walks' = walks /\ latest' = latest
BY DEF Quiet, walks, latest, VictimFlows, InFlight, ConfirmedNodes, TraceOf, Traces

LEMMA VisualizerStep ==
  ASSUME EngineInv, EngineInv', [ListenersNext]_allVars
  PROVE  [Viz!Next]_(Viz!vars)
<1>1. ASSUME Quiet, UNCHANGED listenerVars
      PROVE  UNCHANGED Viz!vars
  BY <1>1, QuietMapped DEF Viz!vars, listenerVars, walks, latest
<1>2. CASE UNCHANGED allVars
  BY <1>1, <1>2 DEF allVars, vars, Quiet
<1>3. CASE TickOnly
  BY <1>1, <1>3 DEF TickOnly, Tick, Quiet, observerVars
<1>4. ASSUME NEW f \in Flows, ReceiveAndNotify(f)
      PROVE  [Viz!Next]_(Viz!vars)
  <2>1. CASE StartsTrace(f)
    <3>1. f \in VictimFlows /\ Starts(f)
      BY <1>4, <2>1
         DEF ReceiveAndNotify, Receive, OnFlowObserved, StartsTrace, Starts, VictimFlows
    <3>2. StartsWalk(f)
      BY <3>1, StartMapped
    <3>3. Viz!OnTraceStarted /\ precedingGuess' = guess /\ guess' = None
      BY <1>4, <2>1 DEF ReceiveAndNotify, TraceStarted
    <3>4. Viz!TraceStarted(f)
      BY <3>2, <3>3 DEF Viz!TraceStarted, StartsWalk, walks, latest
    <3> QED BY <3>1, <3>4 DEF Viz!Next
  <2>2. CASE ~StartsTrace(f)
    <3>1. Quiet /\ UNCHANGED listenerVars
      BY <1>4, <2>2
         DEF ReceiveAndNotify, TraceStarted, Receive, OnFlowObserved, Quiet, observerVars
    <3> QED BY <1>1, <3>1
  <2> QED BY <2>1, <2>2
<1>5. ASSUME NEW p \in pending, NEW match \in Flows, MatchedAndNotify(p, match)
      PROVE  Viz!Next
  <2>1. GrowsWalk(p.hop0, Peer(p))
    BY <1>5, GrowMapped DEF MatchedAndNotify
  <2>2. /\ Viz!OnHopConfirmed(Peer(p), Route[p.confirmed])
        /\ UNCHANGED <<guess, precedingGuess>>
    BY <1>5 DEF MatchedAndNotify
  <2>3. Viz!HopConfirmed(p.hop0, Peer(p), Route[p.confirmed])
    BY <2>1, <2>2 DEF Viz!HopConfirmed, Viz!Unvisited, GrowsWalk, walks, latest
  <2>4. /\ p.hop0 \in VictimFlows /\ Peer(p) \in Nodes
        /\ Route[p.confirmed] \in SUBSET Nodes
    BY <2>1, WalkOf, ListenersAssumption
       DEF GrowsWalk, EngineInv, TypeOK, Attempt
  <2> QED BY <2>3, <2>4 DEF Viz!Next
<1>6. ASSUME NEW p \in pending, NoMatchAndNotify(p)
      PROVE  Viz!Next
  <2>1. p \in Attempt
    BY DEF EngineInv, TypeOK
  <2>2. NoMatch(p)
    BY <1>6 DEF NoMatchAndNotify
  <2>3. EndsWalk(p.hop0)
    BY <2>1, <2>2, EndForm, EndMapped
  <2>4. /\ Viz!OnTraceComplete(Peer(p), Route[p.confirmed])
        /\ guess' = Peer(p) /\ precedingGuess' = precedingGuess
    BY <1>6 DEF NoMatchAndNotify, OriginGuess
  <2>5. Peer(p) \in Nodes \ (walks[p.hop0] \cup {Victim})
    BY <2>2, FreshIsUnvisited DEF NoMatch, MaySearch
  <2>6. Viz!OriginGuessed(p.hop0, Peer(p), Route[p.confirmed])
    BY <2>3, <2>4, <2>5 DEF Viz!OriginGuessed, Viz!Unvisited, EndsWalk, walks, latest
  <2>7. /\ p.hop0 \in VictimFlows /\ Peer(p) \in Nodes
        /\ Route[p.confirmed] \in SUBSET Nodes
    BY <2>1, <2>5, WalkOf, ListenersAssumption DEF Attempt
  <2> QED BY <2>6, <2>7 DEF Viz!Next
<1>7. ASSUME NEW p \in pending, GiveUpAndNotify(p)
      PROVE  Viz!Next
  <2>1. p \in Attempt
    BY DEF EngineInv, TypeOK
  <2>2. Ends(p) /\ UNCHANGED listenerVars
    BY <1>7, <2>1, EndForm DEF GiveUpAndNotify, GiveUp
  <2>3. EndsWalk(p.hop0)
    BY <2>2, EndMapped
  <2>4. Viz!NoGuess(p.hop0)
    BY <2>2, <2>3
       DEF Viz!NoGuess, Viz!vizVars, EndsWalk, walks, latest, listenerVars
  <2>5. p.hop0 \in VictimFlows
    BY WalkOf
  <2> QED BY <2>4, <2>5 DEF Viz!Next
<1> QED
  BY <1>2, <1>3, <1>4, <1>5, <1>6, <1>7 DEF ListenersNext, AttemptAndNotify

\* The engine drives the visualizer as its module takes for granted, for any
\* overlay, any routes and any timing: a trace confirms only nodes it has not
\* visited, never the victim, guesses an unvisited origin, at most once and
\* last.  So what is proved of the visualizer there holds of the program.
THEOREM Listeners == ListenersSpec => DrivesVisualizer
<1>1. ListenersInit => Viz!Init
  BY DEF ListenersInit, Init, Viz!Init, InFlight
<1>2. EngineInv /\ EngineInv' /\ [ListenersNext]_allVars => [Viz!Next]_(Viz!vars)
  BY VisualizerStep
<1> QED
  BY <1>1, <1>2, EngineInside, EngineInvAlways, PTL
     DEF ListenersSpec, DrivesVisualizer, Viz!Spec

-----------------------------------------------------------------------------
(***************************************************************************)
(* The marks of an origin.  What the visualizer's proofs say of every run  *)
(* of TraceVisualizer holds of the colours here; what is left is that a    *)
(* guess is a trace reported with its trail ending at the node guessed.    *)
(***************************************************************************)
VizProofs == INSTANCE TraceVisualizer_proofs WITH
  Slots <- VictimFlows, walk <- walks, newest <- latest

EndedAt(n) ==
  \E c \in completed :
    c.reason = "no_match_above_threshold" /\ c.chain[Len(c.chain)] = n

MarksReported ==
  \A n \in Nodes : VizProofs!OriginMarked(n) \/ guess = n => EndedAt(n)

\* The module the colours' theorems are about and the one the engine implements
\* are the same specification.
LEMMA VisualizerRuns == DrivesVisualizer => VizProofs!Spec
<1>1. Viz!Init => VizProofs!Init
  BY DEF Viz!Init, VizProofs!Init, walks, latest, Viz!kGrey, VizProofs!kGrey
<1>2. [Viz!Next]_(Viz!vars) => [VizProofs!Next]_(VizProofs!vars)
  <2>1. Viz!vars = VizProofs!vars /\ Viz!vars' = VizProofs!vars'
    BY DEF Viz!vars, VizProofs!vars, walks, latest
  <2>2. Viz!Next => VizProofs!Next
    BY DEF Viz!Next, VizProofs!Next, walks, latest, Viz!TraceStarted, VizProofs!TraceStarted,
      Viz!OnTraceStarted, VizProofs!OnTraceStarted, Viz!ResetLoop, VizProofs!ResetLoop,
      Viz!ResetNode, VizProofs!ResetNode, Viz!HopConfirmed, VizProofs!HopConfirmed,
      Viz!OriginGuessed, VizProofs!OriginGuessed, Viz!NoGuess, VizProofs!NoGuess, Viz!vizVars, VizProofs!vizVars,
      Viz!Unvisited, VizProofs!Unvisited, Viz!OnHopConfirmed, VizProofs!OnHopConfirmed,
      Viz!OnTraceComplete, VizProofs!OnTraceComplete, Viz!PendingAfter, VizProofs!PendingAfter,
      Viz!PaintPhysicalRelays, VizProofs!PaintPhysicalRelays, Viz!Paint, VizProofs!Paint,
      Viz!kGrey, Viz!kPastOrigin, Viz!kPaleRed, Viz!kRed, Viz!kLatestOrigin,
      VizProofs!kGrey, VizProofs!kPastOrigin, VizProofs!kPaleRed, VizProofs!kRed, VizProofs!kLatestOrigin
  <2> QED BY <2>1, <2>2
<1> QED BY <1>1, <1>2, PTL DEF DrivesVisualizer, Viz!Spec, VizProofs!Spec

LEMMA VisualizerAssumption == VizProofs!NodesAssumption
BY ListenersAssumption, TopologyAssumption DEF VizProofs!NodesAssumption

\* The visualizer's guarantees, of the program: whatever traces overlap, cycle
\* or fail, only the recorded holder shows light purple, every highlighted node
\* is queued for the next reset, and the newest trace stays lit.
THEOREM ColoursOfTheProgram ==
  ListenersSpec => [](/\ VizProofs!MarkerIsHolders
                      /\ VizProofs!HighlightsArePending
                      /\ VizProofs!NewestTraceStaysLit)
BY Listeners, VisualizerRuns, VisualizerAssumption, VizProofs!MarkerCorrect,
   VizProofs!HighlightsCorrect, VizProofs!NewestCorrect, PTL

\* A report is never withdrawn, and a new guess is a new report.
LEMMA GuessIsReported ==
  ASSUME EngineInv, [ListenersNext]_allVars, NEW n \in Nodes
  PROVE  /\ EndedAt(n) => EndedAt(n)'
         /\ guess' = n /\ guess # n => EndedAt(n)'
<1>1. EndedAt(n) => EndedAt(n)'
  <2>1. [Next]_vars
    BY EngineSteps
  <2>2. pending \in SUBSET Attempt
    BY DEF EngineInv, TypeOK
  <2>3. TraceStep
    BY <2>1, <2>2, StepForms
  <2>4. ASSUME NEW p \in pending, Ends(p) PROVE completed \subseteq completed'
    BY <2>4 DEF Ends
  <2>5. completed \subseteq completed'
    BY <2>3, <2>4 DEF TraceStep, Starts, Continues, Quiet
  <2> QED BY <2>5 DEF EndedAt
<1>2. CASE UNCHANGED guess
  BY <1>1, <1>2
<1>3. ASSUME NEW p \in pending, NoMatchAndNotify(p)
      PROVE  guess' = n => EndedAt(n)'
  <2>1. guess' = Peer(p) /\ NoMatch(p)
    BY <1>3 DEF NoMatchAndNotify, OriginGuess
  <2>2. PICK path : path = Append(p.chain, Peer(p))
    OBVIOUS
  <2>3. PICK c : c = Report(p, path, "no_match_above_threshold")
    OBVIOUS
  <2>4. completed' = completed \cup {c}
    BY <2>1, <2>2, <2>3 DEF NoMatch, Finish, Report
  <2>5. c.reason = "no_match_above_threshold" /\ c.chain = path
    BY <2>3 DEF Report
  <2>6. path[Len(path)] = Peer(p)
    <3>1. p.chain \in Seq(Nodes)
      BY DEF EngineInv, TypeOK, Attempt
    <3> QED BY <2>2, <3>1
  <2> QED BY <2>1, <2>4, <2>5, <2>6 DEF EndedAt
<1>4. ASSUME NEW f \in Flows, ReceiveAndNotify(f)
      PROVE  guess' = None \/ guess' = guess
  BY <1>4 DEF ReceiveAndNotify, listenerVars
<1>5. None \notin Nodes
  BY ListenersAssumption
<1>6. CASE ListenersNext
  BY <1>1, <1>2, <1>3, <1>4, <1>5, <1>6
     DEF ListenersNext, AttemptAndNotify, MatchedAndNotify, GiveUpAndNotify, TickOnly,
         listenerVars
<1> QED BY <1>1, <1>2, <1>6 DEF allVars, listenerVars

\* An origin marked on screen, present or past, was reported: no relay or hop,
\* no reset, and no marker resurfacing from under a brighter colour shows an
\* origin that no trace ended at.
THEOREM OriginsReported == ListenersSpec => []OriginMarksAreReported
<1> DEFINE Step == \A n \in Nodes :
                     VizProofs!OriginMarked(n)' => VizProofs!OriginMarked(n) \/ guess' = n
<1>1. ListenersInit => MarksReported
  <2> SUFFICES ASSUME ListenersInit, NEW n \in Nodes
               PROVE  ~VizProofs!OriginMarked(n) /\ guess # n
    BY DEF MarksReported
  <2> QED
    BY ListenersAssumption
       DEF ListenersInit, VizProofs!OriginMarked, VizProofs!MarkedIn, VizProofs!Begin,
           Viz!kGrey, VizProofs!kLatestOrigin, VizProofs!kPastOrigin
<1>2. MarksReported /\ EngineInv /\ [ListenersNext]_allVars /\ [Step]_(VizProofs!vars)
        => MarksReported'
  <2> SUFFICES ASSUME MarksReported, EngineInv, [ListenersNext]_allVars,
                      [Step]_(VizProofs!vars), NEW n \in Nodes,
                      VizProofs!OriginMarked(n)' \/ guess' = n
               PROVE  EndedAt(n)'
    BY DEF MarksReported
  <2>1. VizProofs!OriginMarked(n) \/ guess = n \/ guess' = n
    BY DEF VizProofs!vars, VizProofs!OriginMarked, VizProofs!MarkedIn, VizProofs!Begin
  <2> QED BY <2>1, GuessIsReported DEF MarksReported
<1>3. MarksReported => OriginMarksAreReported
  BY DEF MarksReported, OriginMarksAreReported, EndedAt, VizProofs!OriginMarked,
         VizProofs!MarkedIn, VizProofs!Begin, Viz!kLatestOrigin, Viz!kPastOrigin,
         VizProofs!kLatestOrigin, VizProofs!kPastOrigin
<1>4. ListenersSpec => VizProofs!MarksAreGuesses
  BY Listeners, VisualizerRuns, VisualizerAssumption, VizProofs!MarksCorrect, PTL
<1>5. ListenersSpec => []EngineInv
  BY EngineInside, EngineInvAlways, PTL
<1> QED
  BY <1>1, <1>2, <1>3, <1>4, <1>5, PTL DEF ListenersSpec, VizProofs!MarksAreGuesses
=============================================================================
