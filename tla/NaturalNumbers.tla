--------------------------- MODULE NaturalNumbers ---------------------------
(***************************************************************************)
(* Induction on the natural numbers, from the well-foundedness of strict   *)
(* inclusion among the subsets of an interval, and what follows from it:   *)
(* iteration, counting, and sums over finite sets.                         *)
(***************************************************************************)
EXTENDS Integers, FiniteSetsExt, FiniteSetTheorems, TLAPS

\* A set of natural numbers that is not empty has a least member.
LEMMA LeastNatural ==
  ASSUME NEW T \in SUBSET Nat, T # {}
  PROVE  \E m \in T : \A k \in T : m <= k
<1>1. PICK n \in T : TRUE
  OBVIOUS
<1> DEFINE Below == {0..m : m \in {k \in T : k <= n}}
<1>2. Below \subseteq SUBSET (0..n)
  OBVIOUS
<1>3. 0..n \in Below
  BY <1>1
<1>4. IsWellFoundedOn(StrictSubsetOrdering(0..n), SUBSET (0..n))
  <2>1. IsFiniteSet(0..n)
    BY <1>1, FS_Interval
  <2>2. FiniteSubsetsOf(0..n) = SUBSET (0..n)
    BY <2>1, FS_FiniteSubsetsOfFinite
  <2> QED BY <2>2, FS_StrictSubsetOrderingWellFounded
<1>5. \E x \in Below : \A y \in Below : ~(<<y, x>> \in StrictSubsetOrdering(0..n))
  <2>1. Below # {}
    BY <1>3
  <2> HIDE DEF Below
  <2> QED BY <1>2, <1>4, <2>1, WFMin
<1>6. PICK m \in T : /\ m <= n
                     /\ \A y \in Below : ~(<<y, 0..m>> \in StrictSubsetOrdering(0..n))
  BY <1>5
<1>7. ASSUME NEW k \in T, k < m PROVE FALSE
  <2>1. 0..k \in Below
    BY <1>6, <1>7
  <2>2. 0..k \subseteq 0..m /\ 0..k # 0..m
    BY <1>6, <1>7
  <2>3. 0..k \in SUBSET (0..n) /\ 0..m \in SUBSET (0..n)
    BY <1>6, <1>7
  <2> HIDE DEF Below
  <2> QED BY <1>6, <2>1, <2>2, <2>3 DEF StrictSubsetOrdering
<1> QED BY <1>7

\* A set with zero and closed under successor holds every natural number.
LEMMA Induction ==
  ASSUME NEW P \in SUBSET Nat, 0 \in P, \A n \in P : n + 1 \in P
  PROVE  P = Nat
<1> SUFFICES ASSUME P # Nat PROVE FALSE
  OBVIOUS
<1> DEFINE T == Nat \ P
<1>1. T \in SUBSET Nat /\ T # {}
  OBVIOUS
<1> HIDE DEF T
<1>2. PICK m \in T : \A k \in T : m <= k
  BY <1>1, LeastNatural
<1>3. m \in Nat \ {0}
  BY <1>1, <1>2 DEF T
<1>4. m - 1 \in Nat /\ m - 1 \notin T
  BY <1>1, <1>2, <1>3
<1>5. m \in P
  <2>1. m - 1 \in P
    BY <1>4 DEF T
  <2>2. (m - 1) + 1 = m
    BY <1>3
  <2> QED BY <2>1, <2>2
<1> QED BY <1>2, <1>5 DEF T

\* A finite set of natural numbers that is not empty has a greatest member.
LEMMA GreatestNatural ==
  ASSUME NEW T \in SUBSET Nat, IsFiniteSet(T), T # {}
  PROVE  \E m \in T : \A k \in T : k <= m
<1> DEFINE Bounded(S) == \E m \in S : \A k \in S : k <= m
           P == {c \in Nat : \A S \in SUBSET Nat :
                   IsFiniteSet(S) /\ Cardinality(S) = c + 1 => Bounded(S)}
<1>1. 0 \in P
  <2> SUFFICES ASSUME NEW S \in SUBSET Nat, IsFiniteSet(S), Cardinality(S) = 1
               PROVE  Bounded(S)
    OBVIOUS
  <2>1. PICK m : S = {m}
    BY FS_Singleton
  <2> QED BY <2>1
<1>2. ASSUME NEW c \in P PROVE c + 1 \in P
  <2> SUFFICES ASSUME NEW S \in SUBSET Nat, IsFiniteSet(S), Cardinality(S) = c + 2
               PROVE  Bounded(S)
    OBVIOUS
  <2>1. S # {}
    BY FS_EmptySet
  <2>2. PICK x \in S : TRUE
    BY <2>1
  <2>3. IsFiniteSet(S \ {x}) /\ Cardinality(S \ {x}) = c + 1
    BY <2>2, FS_RemoveElement
  <2>4. Bounded(S \ {x})
    BY <2>3
  <2>5. PICK m \in S \ {x} : \A k \in S \ {x} : k <= m
    BY <2>4
  <2>6. CASE x <= m
    BY <2>5, <2>6
  <2>7. CASE m <= x
    <3>1. \A k \in S : k <= x
      BY <2>2, <2>5, <2>7
    <3> QED BY <2>2, <3>1
  <2> QED BY <2>2, <2>5, <2>6, <2>7
<1>3. P = Nat
  <2> HIDE DEF P
  <2>1. P \in SUBSET Nat
    BY DEF P
  <2> QED BY <1>1, <1>2, <2>1, Induction
<1>4. Cardinality(T) \in Nat \ {0}
  BY FS_CardinalityType, FS_EmptySet
<1>5. Cardinality(T) - 1 \in P /\ (Cardinality(T) - 1) + 1 = Cardinality(T)
  <2> HIDE DEF P
  <2> QED BY <1>3, <1>4
<1> QED BY <1>5

\* f is what a recursive function on 1..n stands for: each value is a step
\* from the one before.
Iterated(f, n, base, step) ==
  \A i \in 1..n : f[i] = IF i = 1 THEN base ELSE step[i][f[i - 1]]

LEMMA Iteration ==
  ASSUME NEW X, NEW n \in Nat, NEW base \in X, NEW step \in [Nat -> [X -> X]]
  PROVE  \E f \in [1..n -> X] : Iterated(f, n, base, step)
<1> DEFINE Iterates(f, m) ==
             \A i \in 1..m : f[i] = IF i = 1 THEN base ELSE step[i][f[i - 1]]
           P == {m \in Nat : \E f \in [1..m -> X] : Iterates(f, m)}
<1>1. 0 \in P
  <2>1. [i \in 1..0 |-> base] \in [1..0 -> X]
    OBVIOUS
  <2>2. Iterates([i \in 1..0 |-> base], 0)
    OBVIOUS
  <2> QED BY <2>1, <2>2
<1>2. ASSUME NEW m \in P PROVE m + 1 \in P
  <2>1. PICK f \in [1..m -> X] : Iterates(f, m)
    OBVIOUS
  <2> DEFINE last == IF m = 0 THEN base ELSE step[m + 1][f[m]]
             g == [i \in 1..(m + 1) |-> IF i = m + 1 THEN last ELSE f[i]]
  <2>2. last \in X
    <3>1. CASE m = 0
      BY <3>1
    <3>2. CASE m # 0
      <4>1. m \in 1..m /\ m + 1 \in Nat
        BY <3>2
      <4>2. f[m] \in X
        BY <4>1
      <4>3. step[m + 1] \in [X -> X]
        BY <4>1
      <4>4. step[m + 1][f[m]] \in X
        BY <4>2, <4>3
      <4> QED BY <3>2, <4>4
    <3> QED BY <3>1, <3>2
  <2> HIDE DEF last
  <2>3. g \in [1..(m + 1) -> X]
    <3>1. \A i \in 1..(m + 1) : i # m + 1 => i \in 1..m
      OBVIOUS
    <3>2. \A i \in 1..(m + 1) : (IF i = m + 1 THEN last ELSE f[i]) \in X
      BY <2>2, <3>1
    <3> QED BY <3>2
  <2>4. ASSUME NEW i \in 1..(m + 1)
        PROVE  g[i] = IF i = 1 THEN base ELSE step[i][g[i - 1]]
    <3>1. CASE i = m + 1
      <4>1. CASE m = 0
        BY <3>1, <4>1 DEF last
      <4>2. CASE m # 0
        <5>1. g[i] = last /\ last = step[m + 1][f[m]] /\ g[m] = f[m] /\ i # 1 /\ i - 1 = m
          BY <3>1, <4>2 DEF last
        <5> HIDE DEF g
        <5> QED BY <3>1, <5>1
      <4> QED BY <4>1, <4>2
    <3>2. CASE i # m + 1
      <4>1. i \in 1..m /\ g[i] = f[i] /\ (i # 1 => g[i - 1] = f[i - 1])
        BY <3>2
      <4> HIDE DEF g
      <4> QED BY <2>1, <4>1
    <3> QED BY <3>1, <3>2
  <2>5. Iterates(g, m + 1)
    BY <2>4
  <2> HIDE DEF g, Iterates
  <2>6. \E h \in [1..(m + 1) -> X] : Iterates(h, m + 1)
    BY <2>3, <2>5
  <2>7. m + 1 \in Nat
    OBVIOUS
  <2> QED BY <2>6, <2>7
<1>3. P = Nat
  <2> HIDE DEF P
  <2>1. P \in SUBSET Nat
    BY DEF P
  <2> QED BY <1>1, <1>2, <2>1, Induction
<1> QED BY <1>3 DEF Iterated

\* The same for one step done again and again.
Repeated(f, n, base, step) ==
  \A i \in 0..n : f[i] = IF i = 0 THEN base ELSE step[f[i - 1]]

LEMMA Repetition ==
  ASSUME NEW X, NEW n \in Nat, NEW base \in X, NEW step \in [X -> X]
  PROVE  \E f \in [0..n -> X] : Repeated(f, n, base, step)
<1> DEFINE steps == [i \in Nat |-> step]
<1>1. steps \in [Nat -> [X -> X]] /\ n + 1 \in Nat
  OBVIOUS
<1>2. \A i \in 1..(n + 1) : steps[i] = step
  OBVIOUS
<1> HIDE DEF steps
<1>3. PICK m \in Nat : m = n + 1
  BY <1>1
<1>4. PICK g \in [1..m -> X] : Iterated(g, m, base, steps)
  BY <1>1, Iteration
<1> DEFINE f == [i \in 0..n |-> g[i + 1]]
<1>5. f \in [0..n -> X]
  BY <1>3
<1>6. ASSUME NEW i \in 0..n
      PROVE  f[i] = IF i = 0 THEN base ELSE step[f[i - 1]]
  <2>1. i + 1 \in 1..m /\ (i + 1) - 1 = i /\ (i + 1 = 1 <=> i = 0)
    BY <1>3
  <2>2. f[i] = g[i + 1]
    OBVIOUS
  <2>3. i # 0 => f[i - 1] = g[i]
    <3>1. i # 0 => i - 1 \in 0..n /\ (i - 1) + 1 = i
      OBVIOUS
    <3> QED BY <3>1
  <2> HIDE DEF f
  <2> QED BY <1>2, <1>3, <1>4, <2>1, <2>2, <2>3 DEF Iterated
<1> HIDE DEF f
<1> QED BY <1>5, <1>6 DEF Repeated

\* The same for a step that depends on its number, from zero on.
Stepped(f, n, base, step) ==
  \A i \in 0..n : f[i] = IF i = 0 THEN base ELSE step[i][f[i - 1]]

LEMMA Recursion ==
  ASSUME NEW X, NEW n \in Nat, NEW base \in X, NEW step \in [1..n -> [X -> X]]
  PROVE  \E f \in [0..n -> X] : Stepped(f, n, base, step)
<1> DEFINE same == [x \in X |-> x]
           steps == [i \in Nat |-> IF i - 1 \in 1..n THEN step[i - 1] ELSE same]
<1>1. steps \in [Nat -> [X -> X]]
  <2>1. same \in [X -> X]
    OBVIOUS
  <2> HIDE DEF same
  <2> QED BY <2>1
<1>2. \A i \in 2..(n + 1) : steps[i] = step[i - 1]
  OBVIOUS
<1> HIDE DEF steps
<1>3. PICK m \in Nat : m = n + 1
  OBVIOUS
<1>4. PICK g \in [1..m -> X] : Iterated(g, m, base, steps)
  BY <1>1, Iteration
<1> DEFINE f == [i \in 0..n |-> g[i + 1]]
<1>5. f \in [0..n -> X]
  BY <1>3
<1>6. ASSUME NEW i \in 0..n
      PROVE  f[i] = IF i = 0 THEN base ELSE step[i][f[i - 1]]
  <2>1. i + 1 \in 1..m /\ (i + 1) - 1 = i /\ (i + 1 = 1 <=> i = 0)
    BY <1>3
  <2>2. f[i] = g[i + 1]
    OBVIOUS
  <2>3. i # 0 => f[i - 1] = g[i]
    <3>1. i # 0 => i - 1 \in 0..n /\ (i - 1) + 1 = i
      OBVIOUS
    <3> QED BY <3>1
  <2>4. i # 0 => steps[i + 1] = step[i]
    <3>1. i # 0 => i + 1 \in 2..(n + 1) /\ (i + 1) - 1 = i
      OBVIOUS
    <3> QED BY <1>2, <3>1
  <2> HIDE DEF f
  <2> QED BY <1>4, <2>1, <2>2, <2>3, <2>4 DEF Iterated
<1> HIDE DEF f
<1> QED BY <1>5, <1>6 DEF Stepped

\* What holds at zero and is passed on up to n holds up to n.
LEMMA BoundedInduction ==
  ASSUME NEW n \in Nat, NEW P \in SUBSET (0..n), 0 \in P,
         \A i \in P : i < n => i + 1 \in P
  PROVE  P = 0..n
<1> DEFINE Q == {i \in Nat : i <= n => i \in P}
<1>1. 0 \in Q /\ Q \in SUBSET Nat
  OBVIOUS
<1>2. ASSUME NEW i \in Q PROVE i + 1 \in Q
  OBVIOUS
<1>3. Q = Nat
  <2> HIDE DEF Q
  <2> QED BY <1>1, <1>2, Induction
<1>4. ASSUME NEW i \in 0..n PROVE i \in P
  <2>1. i \in Q
    BY <1>3
  <2> QED BY <2>1
<1> HIDE DEF Q
<1> QED BY <1>4

\* What each value of a function passes on to the next, all of them have.
LEMMA StaysIn ==
  ASSUME NEW n \in Nat, NEW f, NEW X, f[0] \in X,
         \A i \in 1..n : f[i - 1] \in X => f[i] \in X
  PROVE  \A i \in 0..n : f[i] \in X
<1> DEFINE P == {i \in 0..n : f[i] \in X}
<1>1. 0 \in P
  OBVIOUS
<1>2. ASSUME NEW i \in P, i < n PROVE i + 1 \in P
  <2>1. i + 1 \in 1..n /\ (i + 1) - 1 = i
    BY <1>2
  <2> QED BY <2>1
<1>3. P \in SUBSET (0..n)
  OBVIOUS
<1> HIDE DEF P
<1>4. P = 0..n
  BY <1>1, <1>2, <1>3, BoundedInduction
<1> QED BY <1>4 DEF P

\* A one-to-one map into a smaller finite set there is none.
LEMMA NoInjectionIntoFewer ==
  ASSUME NEW S, NEW T, IsFiniteSet(T), NEW x \in T, NEW f \in [S -> T \ {x}],
         \A a, b \in S : f[a] = f[b] => a = b,
         NEW g \in [T -> S], \A c, d \in T : g[c] = g[d] => c = d
  PROVE  FALSE
<1>1. f \in Injection(S, T \ {x}) /\ g \in Injection(T, S)
  BY DEF Injection, IsInjective
<1>2. /\ IsFiniteSet(T \ {x}) /\ Cardinality(T \ {x}) = Cardinality(T) - 1
      /\ Cardinality(T) \in Nat
  BY FS_RemoveElement, FS_CardinalityType
<1>3. IsFiniteSet(S) /\ Cardinality(S) <= Cardinality(T \ {x})
  BY <1>1, <1>2, FS_Injection
<1>4. Cardinality(T) <= Cardinality(S) /\ Cardinality(S) \in Nat
  BY <1>1, <1>3, FS_Injection, FS_CardinalityType
<1> QED BY <1>2, <1>3, <1>4

-----------------------------------------------------------------------------
(***************************************************************************)
(* Sums over finite sets.  The library's fold is a recursive function on   *)
(* the subsets; it has a value since it is reached from the empty set by   *)
(* as many unfoldings as there are elements.                               *)
(***************************************************************************)
\* The sum of f over S.
SumOver(f, S) == MapThenSumSet(LAMBDA x : f[x], S)

\* One unfolding of the fold that computes it, over the subsets of S.
Pick(s) == CHOOSE x \in s : TRUE
SumUnfolded(f, S, h) ==
  [s \in SUBSET S |->
     IF s = {} THEN 0 ELSE LET x == CHOOSE x \in s : TRUE IN f[x] + h[s \ {x}]]
SumFold(f, S) == CHOOSE h : h = SumUnfolded(f, S, h)

LEMMA PickIsMember == ASSUME NEW s, s # {} PROVE Pick(s) \in s
BY DEF Pick

\* Induction on the number of elements of the subsets of a finite set.
LEMMA SubsetInduction ==
  ASSUME NEW S, IsFiniteSet(S), NEW P \in SUBSET SUBSET S, {} \in P,
         \A s \in SUBSET S : (\A x \in s : s \ {x} \in P) => s \in P
  PROVE  P = SUBSET S
<1> DEFINE Q == {n \in Nat : \A s \in SUBSET S : Cardinality(s) <= n => s \in P}
<1>1. \A s \in SUBSET S : IsFiniteSet(s) /\ Cardinality(s) \in Nat
  BY FS_Subset, FS_CardinalityType
<1>2. 0 \in Q
  <2>1. ASSUME NEW s \in SUBSET S, Cardinality(s) <= 0 PROVE s = {}
    BY <1>1, <2>1, FS_EmptySet
  <2> QED BY <2>1
<1>3. ASSUME NEW n \in Q PROVE n + 1 \in Q
  <2> SUFFICES ASSUME NEW s \in SUBSET S, Cardinality(s) <= n + 1 PROVE s \in P
    OBVIOUS
  <2>1. ASSUME NEW x \in s PROVE s \ {x} \in P
    <3>1. Cardinality(s \ {x}) = Cardinality(s) - 1
      BY <1>1, FS_RemoveElement
    <3>2. Cardinality(s \ {x}) <= n
      BY <1>1, <3>1
    <3> QED BY <3>2
  <2> QED BY <2>1
<1> HIDE DEF Q
<1>4. Q \in SUBSET Nat
  BY DEF Q
<1>5. Q = Nat
  BY <1>2, <1>3, <1>4, Induction
<1>6. ASSUME NEW s \in SUBSET S PROVE s \in P
  <2>1. Cardinality(s) \in Q
    BY <1>1, <1>5
  <2> QED BY <1>1, <2>1 DEF Q
<1> QED BY <1>6

\* h is what a fold over the subsets of S stands for, that takes out the
\* elements in the order of pick.
Folded(h, S, base, step, pick) ==
  \A s \in SUBSET S :
    h[s] = IF s = {} THEN base ELSE step[pick[s]][h[s \ {pick[s]}]]

Picks(pick, S) == \A s \in SUBSET S : s # {} => pick[s] \in s

LEMMA FoldHasValue ==
  ASSUME NEW S, IsFiniteSet(S), NEW X, NEW base \in X, NEW step \in [S -> [X -> X]],
         NEW pick, Picks(pick, S)
  PROVE  \E h \in [SUBSET S -> X] : Folded(h, S, base, step, pick)
<1> DEFINE Next(h) == [s \in SUBSET S |->
                         IF s = {} THEN base ELSE step[pick[s]][h[s \ {pick[s]}]]]
           Upto(n) == {s \in SUBSET S : Cardinality(s) <= n}
           P == {n \in Nat : \E h \in [SUBSET S -> X] : \A s \in Upto(n) : h[s] = Next(h)[s]}
<1>1. \A s \in SUBSET S : IsFiniteSet(s) /\ Cardinality(s) \in Nat
  BY FS_Subset, FS_CardinalityType
<1>2. ASSUME NEW h \in [SUBSET S -> X] PROVE Next(h) \in [SUBSET S -> X]
  <2>1. ASSUME NEW s \in SUBSET S, s # {}
        PROVE  step[pick[s]][h[s \ {pick[s]}]] \in X
    <3>1. pick[s] \in S /\ s \ {pick[s]} \in SUBSET S
      BY <2>1 DEF Picks
    <3>2. step[pick[s]] \in [X -> X] /\ h[s \ {pick[s]}] \in X
      BY <3>1
    <3> QED BY <3>2
  <2> QED BY <2>1
<1>3. ASSUME NEW h, NEW s \in SUBSET S
      PROVE  Next(h)[s] = IF s = {} THEN base ELSE step[pick[s]][h[s \ {pick[s]}]]
  OBVIOUS
<1> HIDE DEF Next
<1>4. 0 \in P
  <2>1. PICK h \in [SUBSET S -> X] : \A s \in SUBSET S : h[s] = base
    <3> WITNESS [s \in SUBSET S |-> base] \in [SUBSET S -> X]
    <3> QED OBVIOUS
  <2>2. ASSUME NEW s \in Upto(0) PROVE h[s] = Next(h)[s]
    <3>1. s = {}
      BY <1>1, FS_EmptySet
    <3> QED BY <1>3, <2>1, <3>1
  <2>3. 0 \in Nat
    OBVIOUS
  <2> QED BY <2>2, <2>3
<1>5. ASSUME NEW n \in P PROVE n + 1 \in P
  <2>1. PICK h \in [SUBSET S -> X] : \A s \in Upto(n) : h[s] = Next(h)[s]
    OBVIOUS
  <2>2. PICK g \in [SUBSET S -> X] : g = Next(h)
    BY <1>2
  <2>3. ASSUME NEW s \in Upto(n + 1) PROVE g[s] = Next(g)[s]
    <3>1. CASE s = {}
      BY <1>3, <2>2, <3>1
    <3>2. CASE s # {}
      <4>1. PICK x \in s : x = pick[s]
        BY <3>2 DEF Picks
      <4>2. s \ {x} \in Upto(n)
        <5>1. Cardinality(s \ {x}) = Cardinality(s) - 1
          BY <1>1, FS_RemoveElement
        <5> QED BY <1>1, <5>1
      <4>3. h[s \ {x}] = g[s \ {x}]
        BY <2>1, <2>2, <4>2
      <4>4. g[s] = step[x][h[s \ {x}]] /\ Next(g)[s] = step[x][g[s \ {x}]]
        BY <1>3, <2>2, <3>2, <4>1
      <4> QED BY <4>3, <4>4
    <3> QED BY <3>1, <3>2
  <2> QED BY <2>3
<1> HIDE DEF P
<1>6. P = Nat
  <2>1. P \in SUBSET Nat
    BY DEF P
  <2> QED BY <1>4, <1>5, <2>1, Induction
<1>7. PICK h \in [SUBSET S -> X] : \A s \in Upto(Cardinality(S)) : h[s] = Next(h)[s]
  BY <1>1, <1>6 DEF P
<1>8. ASSUME NEW s \in SUBSET S
      PROVE  h[s] = IF s = {} THEN base ELSE step[pick[s]][h[s \ {pick[s]}]]
  <2>1. Cardinality(s) <= Cardinality(S)
    BY FS_Subset
  <2>2. h[s] = Next(h)[s]
    BY <1>7, <2>1
  <2> QED BY <1>3, <2>2
<1> QED BY <1>8 DEF Folded

\* The fold of a sum has a value on every finite set.
LEMMA SumFoldUnfolds ==
  ASSUME NEW S, IsFiniteSet(S), NEW f, \A x \in S : f[x] \in Int
  PROVE  /\ SumFold(f, S) \in [SUBSET S -> Int]
         /\ SumFold(f, S) = SumUnfolded(f, S, SumFold(f, S))
<1>1. \E h : h = SumUnfolded(f, S, h)
  <2> DEFINE step == [x \in S |-> [v \in Int |-> f[x] + v]]
             pick == [s \in SUBSET S |-> Pick(s)]
  <2>1. step \in [S -> [Int -> Int]]
    OBVIOUS
  <2>2. Picks(pick, S)
    BY PickIsMember DEF Picks
  <2>3. ASSUME NEW x \in S, NEW v \in Int PROVE step[x][v] = f[x] + v
    OBVIOUS
  <2>4. \A s \in SUBSET S : pick[s] = Pick(s)
    OBVIOUS
  <2> HIDE DEF step, pick
  <2>5. PICK h \in [SUBSET S -> Int] : Folded(h, S, 0, step, pick)
    <3>1. 0 \in Int
      OBVIOUS
    <3> QED BY <2>1, <2>2, <3>1, FoldHasValue
  <2>6. ASSUME NEW s \in SUBSET S
        PROVE  h[s] = IF s = {} THEN 0 ELSE f[Pick(s)] + h[s \ {Pick(s)}]
    <3>1. CASE s = {}
      BY <2>5, <3>1 DEF Folded
    <3>2. CASE s # {}
      <4>1. PICK x \in s : x = Pick(s)
        BY <3>2, PickIsMember
      <4>2. h[s \ {x}] \in Int /\ x \in S
        OBVIOUS
      <4>3. h[s] = step[x][h[s \ {x}]]
        BY <2>4, <2>5, <3>2, <4>1 DEF Folded
      <4> QED BY <2>3, <3>2, <4>1, <4>2, <4>3
    <3> QED BY <3>1, <3>2
  <2>7. h = [s \in SUBSET S |-> IF s = {} THEN 0 ELSE f[Pick(s)] + h[s \ {Pick(s)}]]
    BY <2>6
  <2> QED BY <2>7 DEF SumUnfolded, Pick
<1>2. PICK k : k = SumFold(f, S)
  OBVIOUS
<1>3. k = SumUnfolded(f, S, k)
  BY <1>1, <1>2 DEF SumFold
<1>4. \A s \in SUBSET S :
         k[s] = IF s = {} THEN 0 ELSE f[Pick(s)] + k[s \ {Pick(s)}]
  BY <1>3 DEF SumUnfolded, Pick
<1>5. \A s \in SUBSET S : k[s] \in Int
  <2> DEFINE R == {s \in SUBSET S : k[s] \in Int}
  <2>1. {} \in R
    <3>1. k[{}] = 0
      BY <1>4
    <3> QED BY <3>1
  <2>2. ASSUME NEW s \in SUBSET S, \A x \in s : s \ {x} \in R PROVE s \in R
    <3>1. CASE s = {}
      BY <2>1, <3>1
    <3>2. CASE s # {}
      <4>1. PICK x : x = Pick(s)
        OBVIOUS
      <4>2. x \in s /\ k[s \ {x}] \in Int
        BY <2>2, <3>2, <4>1, PickIsMember
      <4>3. k[s] = f[x] + k[s \ {x}]
        BY <1>4, <3>2, <4>1
      <4> QED BY <4>2, <4>3
    <3> QED BY <3>1, <3>2
  <2>3. R \in SUBSET SUBSET S
    OBVIOUS
  <2> HIDE DEF R
  <2>4. R = SUBSET S
    BY <2>1, <2>2, <2>3, SubsetInduction
  <2> QED BY <2>4 DEF R
<1>6. k \in [SUBSET S -> Int]
  <2>1. k = [s \in SUBSET S |-> k[s]]
    BY <1>3 DEF SumUnfolded
  <2> QED BY <1>5, <2>1
<1> QED BY <1>2, <1>3, <1>6

\* Two functions that unfold alike on the subsets of T agree on T.
Unfolds(a, f, T) ==
  \A s \in SUBSET T : a[s] = IF s = {} THEN 0 ELSE f[Pick(s)] + a[s \ {Pick(s)}]

LEMMA FoldsAgree ==
  ASSUME NEW T, IsFiniteSet(T), NEW a, NEW b, NEW f, NEW g, \A x \in T : g[x] = f[x],
         Unfolds(a, f, T), Unfolds(b, g, T)
  PROVE  a[T] = b[T]
<1> DEFINE R == {s \in SUBSET T : a[s] = b[s]}
<1>1. {} \in R
  <2>1. a[{}] = 0 /\ b[{}] = 0
    BY DEF Unfolds
  <2> QED BY <2>1
<1>2. ASSUME NEW s \in SUBSET T, \A x \in s : s \ {x} \in R PROVE s \in R
  <2>1. CASE s # {}
    <3>1. PICK x : x = Pick(s)
      OBVIOUS
    <3>2. x \in s /\ a[s \ {x}] = b[s \ {x}] /\ g[x] = f[x]
      BY <1>2, <2>1, <3>1, PickIsMember
    <3>3. a[s] = f[x] + a[s \ {x}] /\ b[s] = g[x] + b[s \ {x}]
      BY <2>1, <3>1 DEF Unfolds
    <3> QED BY <3>2, <3>3
  <2> QED BY <1>1, <2>1
<1>3. R \in SUBSET SUBSET T
  OBVIOUS
<1> HIDE DEF R
<1>4. R = SUBSET T
  BY <1>1, <1>2, <1>3, SubsetInduction
<1> QED BY <1>4 DEF R

\* The fold over a subset is that of the subset.
LEMMA SumFoldOfSubset ==
  ASSUME NEW S, IsFiniteSet(S), NEW f, \A x \in S : f[x] \in Int, NEW T \in SUBSET S,
         NEW g, \A x \in T : g[x] = f[x]
  PROVE  SumFold(f, S)[T] = SumOver(g, T)
<1>1. PICK a : a = SumFold(f, S) /\ a = SumUnfolded(f, S, a)
  BY SumFoldUnfolds
<1>2. IsFiniteSet(T)
  BY FS_Subset
<1>3. PICK b : b = SumFold(g, T) /\ b = SumUnfolded(g, T, b)
  <2>1. \A x \in T : g[x] \in Int
    OBVIOUS
  <2> QED BY <1>2, <2>1, SumFoldUnfolds
<1>4. Unfolds(a, f, T)
  BY <1>1 DEF SumUnfolded, Pick, Unfolds
<1>5. Unfolds(b, g, T)
  BY <1>3 DEF SumUnfolded, Pick, Unfolds
<1>6. a[T] = b[T]
  BY <1>2, <1>4, <1>5, FoldsAgree
<1>7. SumOver(g, T) = SumFold(g, T)[T]
  BY DEF SumOver, MapThenSumSet, MapThenFoldSet, SumFold, SumUnfolded
<1> QED BY <1>1, <1>3, <1>6, <1>7

LEMMA SumOverType ==
  ASSUME NEW S, IsFiniteSet(S), NEW f, \A x \in S : f[x] \in Int
  PROVE  SumOver(f, S) \in Int
<1>1. SumFold(f, S)[S] = SumOver(f, S)
  BY SumFoldOfSubset
<1>2. SumFold(f, S) \in [SUBSET S -> Int]
  BY SumFoldUnfolds
<1> QED BY <1>1, <1>2

LEMMA SumOverEmpty ==
  ASSUME NEW f
  PROVE  SumOver(f, {}) = 0
<1>1. IsFiniteSet({})
  BY FS_EmptySet
<1>2. SumFold(f, {}) = SumUnfolded(f, {}, SumFold(f, {})) /\ SumFold(f, {})[{}] = SumOver(f, {})
  BY <1>1, SumFoldUnfolds, SumFoldOfSubset
<1> QED BY <1>2 DEF SumUnfolded

\* A sum depends on the summands alone.
LEMMA SumOverSame ==
  ASSUME NEW S, IsFiniteSet(S), NEW f, \A x \in S : f[x] \in Int,
         NEW g, \A x \in S : g[x] = f[x]
  PROVE  SumOver(g, S) = SumOver(f, S)
<1>1. SumFold(f, S)[S] = SumOver(g, S)
  BY SumFoldOfSubset
<1>2. SumFold(f, S)[S] = SumOver(f, S)
  BY SumFoldOfSubset
<1> QED BY <1>1, <1>2

\* Any element can be taken out first.
LEMMA SumOverRemove ==
  ASSUME NEW S, IsFiniteSet(S), NEW f, \A x \in S : f[x] \in Int, NEW x \in S
  PROVE  SumOver(f, S) = f[x] + SumOver(f, S \ {x})
<1>1. PICK a \in [SUBSET S -> Int] : a = SumFold(f, S) /\ a = SumUnfolded(f, S, a)
  BY SumFoldUnfolds
<1>2. \A s \in SUBSET S :
        a[s] = IF s = {} THEN 0 ELSE f[Pick(s)] + a[s \ {Pick(s)}]
  BY <1>1 DEF SumUnfolded, Pick
<1>3. \A s \in SUBSET S : a[s] = SumOver(f, s)
  BY <1>1, SumFoldOfSubset
<1> DEFINE R == {s \in SUBSET S : \A y \in s : a[s] = f[y] + a[s \ {y}]}
<1>4. {} \in R
  OBVIOUS
<1>5. ASSUME NEW s \in SUBSET S, \A y \in s : s \ {y} \in R PROVE s \in R
  <2> SUFFICES ASSUME NEW y \in s PROVE a[s] = f[y] + a[s \ {y}]
    OBVIOUS
  <2>1. PICK z : z = Pick(s)
    OBVIOUS
  <2>2. z \in s
    BY <2>1, PickIsMember
  <2>3. a[s] = f[z] + a[s \ {z}]
    BY <1>2, <2>1
  <2>4. CASE y # z
    <3>1. y \in s \ {z} /\ z \in s \ {y} /\ (s \ {z}) \ {y} = (s \ {y}) \ {z}
      BY <2>2, <2>4
    <3>2. a[s \ {z}] = f[y] + a[(s \ {z}) \ {y}] /\ a[s \ {y}] = f[z] + a[(s \ {y}) \ {z}]
      BY <1>5, <2>2, <3>1
    <3>3. f[y] \in Int /\ f[z] \in Int /\ a[(s \ {z}) \ {y}] \in Int
      BY <2>2
    <3>4. a[(s \ {z}) \ {y}] = a[(s \ {y}) \ {z}]
      BY <3>1
    <3>5. PICK v \in Int : v = a[(s \ {z}) \ {y}]
      BY <3>3
    <3>6. a[s \ {z}] = f[y] + v /\ a[s \ {y}] = f[z] + v
      BY <3>2, <3>4, <3>5
    <3> QED BY <2>3, <3>3, <3>6
  <2> QED BY <2>3, <2>4
<1>6. R \in SUBSET SUBSET S
  OBVIOUS
<1> HIDE DEF R
<1>7. R = SUBSET S
  BY <1>4, <1>5, <1>6, SubsetInduction
<1>8. a[S] = f[x] + a[S \ {x}]
  BY <1>7 DEF R
<1> QED BY <1>3, <1>8
=============================================================================
