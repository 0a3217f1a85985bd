--------------------------- MODULE StartUp_proofs ---------------------------
(***************************************************************************)
(* Theorems about StartUp, the reader of configurations and the mesh       *)
(* builder, and their proofs.                                              *)
(***************************************************************************)
EXTENDS StartUp, NaturalNumbers

\* A sequence that holds every member of a set once, and nothing else.
Lists(s, S) ==
  /\ s \in Seq(S)
  /\ \A i, j \in DOMAIN s : s[i] = s[j] => i = j
  /\ \A x \in S : \E i \in DOMAIN s : s[i] = x

LEMMA VertexFacts ==
  /\ N \in Nat \ {0}
  /\ IsFiniteSet(Vertex) /\ Cardinality(Vertex) = N
  /\ Vertex \subseteq Nat /\ 0 \in Vertex
  /\ \A S \in SUBSET Vertex : IsFiniteSet(S) /\ Cardinality(S) \in 0..N
<1>1. N \in Nat \ {0} /\ N - 1 \in Nat
  BY MeshAssumption
<1>2. /\ IsFiniteSet(0..(N - 1))
      /\ Cardinality(0..(N - 1)) = IF 0 > N - 1 THEN 0 ELSE (N - 1) - 0 + 1
  BY <1>1, FS_Interval
<1>3. IsFiniteSet(Vertex) /\ Cardinality(Vertex) = N
  BY <1>1, <1>2 DEF Vertex
<1>4. ASSUME NEW S \in SUBSET Vertex
      PROVE  IsFiniteSet(S) /\ Cardinality(S) \in 0..N
  <2>1. IsFiniteSet(S) /\ Cardinality(S) <= N
    BY <1>3, FS_Subset
  <2>2. Cardinality(S) \in Nat
    BY <2>1, FS_CardinalityType
  <2> QED BY <1>1, <2>1, <2>2
<1> QED BY <1>1, <1>3, <1>4 DEF Vertex

LEMMA ListLength ==
  ASSUME NEW S, NEW s, Lists(s, S)
  PROVE  /\ Len(s) \in Nat /\ DOMAIN s = 1..Len(s)
         /\ IsFiniteSet(S) /\ Cardinality(S) = Len(s)
         /\ ToSet(s) = S
<1>1. s \in Seq(S)
  BY DEF Lists
<1>2. PICK n \in Nat : n = Len(s)
  BY <1>1
<1>3. DOMAIN s = 1..n /\ s \in [1..n -> S]
  BY <1>1, <1>2
<1>4. /\ IsFiniteSet(1..n)
      /\ Cardinality(1..n) = IF 1 > n THEN 0 ELSE n - 1 + 1
  BY FS_Interval
<1>5. Cardinality(1..n) = n
  BY <1>4
<1>6. s \in Surjection(1..n, S) /\ s \in Injection(1..n, S)
  BY <1>3 DEF Lists, Surjection, Injection, IsInjective
<1>7. s \in Bijection(1..n, S)
  BY <1>6 DEF Bijection
<1>8. IsFiniteSet(S) /\ Cardinality(S) = n
  BY <1>4, <1>5, <1>6, <1>7, FS_Surjection, FS_Bijection
<1>9. ToSet(s) = S
  BY <1>3 DEF ToSet, Lists
<1> QED BY <1>2, <1>3, <1>8, <1>9

\* Ascending lists a set of vertices: the number of lesser members is
\* different for each and ranges up to the size.
Lesser(S, v) == {w \in S : w < v}

LEMMA LesserCount ==
  ASSUME NEW S \in SUBSET Vertex, NEW v \in S
  PROVE  Cardinality(Lesser(S, v)) \in 0..(Cardinality(S) - 1)
<1>1. Lesser(S, v) \in SUBSET S /\ v \notin Lesser(S, v)
  BY VertexFacts DEF Lesser
<1>2. /\ IsFiniteSet(Lesser(S, v)) /\ Cardinality(Lesser(S, v)) <= Cardinality(S)
      /\ Cardinality(S) # Cardinality(Lesser(S, v))
  BY <1>1, VertexFacts, FS_Subset
<1>3. Cardinality(Lesser(S, v)) \in Nat /\ Cardinality(S) \in Nat
  BY <1>2, VertexFacts, FS_CardinalityType
<1> QED BY <1>2, <1>3

LEMMA LesserGrows ==
  ASSUME NEW S \in SUBSET Vertex, NEW v \in S, NEW w \in S, v < w
  PROVE  Cardinality(Lesser(S, v)) < Cardinality(Lesser(S, w))
<1>1. v \in Nat /\ w \in Nat /\ S \subseteq Nat
  BY VertexFacts
<1>2. \A x \in S : x < v => x < w
  BY <1>1
<1>3. Lesser(S, v) \in SUBSET Lesser(S, w) /\ v \in Lesser(S, w) /\ v \notin Lesser(S, v)
  <2>1. ~(v < v)
    BY <1>1
  <2>2. Lesser(S, v) \in SUBSET Lesser(S, w)
    BY <1>2 DEF Lesser
  <2>3. v \in Lesser(S, w) /\ v \notin Lesser(S, v)
    BY <2>1 DEF Lesser
  <2> QED BY <2>2, <2>3
<1>4. IsFiniteSet(Lesser(S, w))
  <2>1. Lesser(S, w) \in SUBSET Vertex
    BY DEF Lesser
  <2> QED BY <2>1, VertexFacts
<1>5. /\ Cardinality(Lesser(S, v)) <= Cardinality(Lesser(S, w))
      /\ Cardinality(Lesser(S, w)) # Cardinality(Lesser(S, v))
  BY <1>3, <1>4, FS_Subset
<1>6. Cardinality(Lesser(S, v)) \in Nat /\ Cardinality(Lesser(S, w)) \in Nat
  <2>1. Cardinality(S) \in Nat
    BY VertexFacts
  <2> QED BY <2>1, LesserCount
<1> QED BY <1>5, <1>6

LEMMA AscendingLists ==
  ASSUME NEW S \in SUBSET Vertex
  PROVE  Lists(Ascending(S), S)
<1>1. PICK n \in Nat : n = Cardinality(S)
  BY VertexFacts
<1> DEFINE rank == [v \in S |-> Cardinality(Lesser(S, v)) + 1]
<1>2. \A v \in S : rank[v] = Cardinality(Lesser(S, v)) + 1
  OBVIOUS
<1>3. rank \in [S -> 1..n]
  <2>1. \A v \in S : Cardinality(Lesser(S, v)) + 1 \in 1..n
    BY <1>1, LesserCount
  <2> QED BY <2>1
<1> HIDE DEF rank
<1>4. \A v, w \in S : rank[v] = rank[w] => v = w
  <2> SUFFICES ASSUME NEW v \in S, NEW w \in S, rank[v] = rank[w], v # w PROVE FALSE
    OBVIOUS
  <2>1. v < w \/ w < v
    BY VertexFacts
  <2>2. PICK a, b \in Nat : a = Cardinality(Lesser(S, v)) /\ b = Cardinality(Lesser(S, w))
    BY <1>1, LesserCount
  <2>3. a < b \/ b < a
    BY <2>1, <2>2, LesserGrows
  <2>4. a + 1 = b + 1
    BY <1>2, <2>2
  <2> QED BY <2>3, <2>4
<1>5. rank \in Surjection(S, 1..n)
  <2>1. rank \in Injection(S, 1..n)
    BY <1>3, <1>4 DEF Injection, IsInjective
  <2>2. /\ IsFiniteSet(1..n)
        /\ Cardinality(1..n) = IF 1 > n THEN 0 ELSE n - 1 + 1
    BY FS_Interval
  <2>3. Cardinality(1..n) = Cardinality(S)
    BY <1>1, <2>2
  <2>4. IsFiniteSet(S)
    BY VertexFacts
  <2> QED BY <2>1, <2>2, <2>3, <2>4, FS_Injection
<1>6. \A i \in 1..n : \E v \in S : Cardinality(Lesser(S, v)) = i - 1
  <2> SUFFICES ASSUME NEW i \in 1..n PROVE \E v \in S : Cardinality(Lesser(S, v)) = i - 1
    OBVIOUS
  <2>1. PICK v \in S : rank[v] = i
    BY <1>5 DEF Surjection
  <2>2. PICK a \in Nat : a = Cardinality(Lesser(S, v))
    BY <1>1, LesserCount
  <2> QED BY <1>2, <2>1, <2>2
<1>7. Ascending(S) = [i \in 1..n |-> CHOOSE v \in S : Cardinality(Lesser(S, v)) = i - 1]
  BY <1>1 DEF Ascending, Lesser
<1> DEFINE s == Ascending(S)
<1>8. /\ s \in [1..n -> S]
      /\ \A i \in 1..n : Cardinality(Lesser(S, s[i])) = i - 1
  BY <1>6, <1>7
<1> HIDE DEF s
<1>9. \A i \in 1..n : rank[s[i]] = i
  <2> SUFFICES ASSUME NEW i \in 1..n PROVE rank[s[i]] = i
    OBVIOUS
  <2>1. s[i] \in S
    BY <1>8
  <2> QED BY <1>2, <1>8, <2>1
<1>10. DOMAIN s = 1..n /\ s \in Seq(S)
  BY <1>8
<1>11. \A i, j \in 1..n : s[i] = s[j] => i = j
  BY <1>9
<1>12. ASSUME NEW v \in S PROVE \E i \in 1..n : s[i] = v
  <2>1. PICK i \in 1..n : i = rank[v]
    BY <1>3
  <2>2. s[i] \in S /\ rank[s[i]] = rank[v]
    BY <1>8, <1>9, <2>1
  <2> QED BY <1>4, <2>2
<1> QED BY <1>10, <1>11, <1>12 DEF Lists, s

-----------------------------------------------------------------------------
(***************************************************************************)
(* Reachability.  What is reached from a vertex is the least set that      *)
(* holds it and every neighbour of its members.                            *)
(***************************************************************************)
Closed(E, C) == \A u \in C : Neighbours(E, u) \subseteq C

LEMMA NeighboursMutual ==
  ASSUME NEW E, NEW u \in Vertex, NEW v \in Vertex
  PROVE  v \in Neighbours(E, u) <=> u \in Neighbours(E, v)
<1>1. {u, v} = {v, u}
  OBVIOUS
<1> QED BY <1>1 DEF Neighbours

\* Edges lead both ways: what is not in a closed set is closed too.
LEMMA ClosedWithout ==
  ASSUME NEW E, NEW C \in SUBSET Vertex, NEW D \in SUBSET Vertex, Closed(E, C), Closed(E, D)
  PROVE  Closed(E, C \ D)
<1> SUFFICES ASSUME NEW u \in C \ D, NEW v \in Neighbours(E, u) PROVE v \in C \ D
  BY DEF Closed
<1>1. v \in Vertex /\ u \in Neighbours(E, v)
  <2>1. v \in Vertex
    BY DEF Neighbours
  <2> QED BY <2>1, NeighboursMutual
<1> QED BY <1>1 DEF Closed

Further(E, B) == B \cup UNION {Neighbours(E, u) : u \in B}

LEMMA FurtherType ==
  ASSUME NEW E, NEW B \in SUBSET Vertex
  PROVE  Further(E, B) \in SUBSET Vertex
BY DEF Further, Neighbours

LEMMA BallsUnfold ==
  ASSUME NEW E, NEW s \in Vertex
  PROVE  /\ Balls(E, s) \in [0..N -> SUBSET Vertex]
         /\ Ball(E, s, 0) = {s}
         /\ \A k \in 1..N : Ball(E, s, k) = Further(E, Ball(E, s, k - 1))
<1> DEFINE step == [k \in 1..N |-> [B \in SUBSET Vertex |-> Further(E, B)]]
           Is(ball) == ball = [k \in 0..N |-> IF k = 0 THEN {s} ELSE Further(E, ball[k - 1])]
<1>1. step \in [1..N -> [SUBSET Vertex -> SUBSET Vertex]]
  BY FurtherType
<1>2. \A k \in 1..N : \A B \in SUBSET Vertex : step[k][B] = Further(E, B)
  OBVIOUS
<1> HIDE DEF step
<1>3. {s} \in SUBSET Vertex /\ N \in Nat
  BY VertexFacts
<1>4. PICK b \in [0..N -> SUBSET Vertex] : Stepped(b, N, {s}, step)
  BY <1>1, <1>3, Recursion
<1>5. \A k \in 0..N : b[k] = IF k = 0 THEN {s} ELSE Further(E, b[k - 1])
  <2> SUFFICES ASSUME NEW k \in 0..N
               PROVE  b[k] = IF k = 0 THEN {s} ELSE Further(E, b[k - 1])
    OBVIOUS
  <2>1. CASE k = 0
    BY <1>4, <2>1 DEF Stepped
  <2>2. CASE k # 0
    <3>1. k \in 1..N /\ k - 1 \in 0..N
      BY <1>3, <2>2
    <3> QED BY <1>2, <1>4, <2>2, <3>1 DEF Stepped
  <2> QED BY <2>1, <2>2
<1>6. Is(b)
  <2>1. b = [k \in 0..N |-> b[k]]
    OBVIOUS
  <2> QED BY <1>5, <2>1
<1>7. Balls(E, s) = CHOOSE ball : Is(ball)
  BY DEF Balls, Further
<1>8. Is(Balls(E, s))
  <2> HIDE DEF Is
  <2> QED BY <1>6, <1>7
<1>9. /\ DOMAIN Balls(E, s) = 0..N /\ Balls(E, s) = [k \in 0..N |-> Balls(E, s)[k]]
      /\ \A k \in 0..N : Balls(E, s)[k] =
           IF k = 0 THEN {s} ELSE Further(E, Balls(E, s)[k - 1])
  <2> DEFINE ball == Balls(E, s)
  <2>1. Is(ball)
    BY <1>8
  <2> HIDE DEF ball
  <2> QED BY <2>1 DEF ball
<1> HIDE DEF Is
<1>10. 0 \in 0..N /\ \A k \in 1..N : k \in 0..N /\ k # 0
  BY <1>3
<1>11. \A k \in 0..N : Balls(E, s)[k] \in SUBSET Vertex
  <2> DEFINE ball == Balls(E, s)
             X == SUBSET Vertex
  <2>1. ball[0] \in X
    BY <1>3, <1>9, <1>10
  <2>2. ASSUME NEW k \in 1..N, ball[k - 1] \in X PROVE ball[k] \in X
    <3>1. ball[k] = Further(E, ball[k - 1])
      BY <1>9, <1>10
    <3>2. ball[k - 1] \in SUBSET Vertex
      BY <2>2
    <3> HIDE DEF ball
    <3>3. PICK B \in SUBSET Vertex : B = ball[k - 1]
      BY <3>2
    <3> QED BY <3>1, <3>3, FurtherType
  <2> HIDE DEF ball, X
  <2>3. \A k \in 0..N : ball[k] \in X
    BY <1>3, <2>1, <2>2, StaysIn
  <2> QED BY <2>3 DEF ball, X
<1>12. Balls(E, s) \in [0..N -> SUBSET Vertex]
  BY <1>9, <1>11
<1>13. Ball(E, s, 0) = {s}
  BY <1>9, <1>10 DEF Ball
<1>14. \A k \in 1..N : Ball(E, s, k) = Further(E, Ball(E, s, k - 1))
  BY <1>9, <1>10 DEF Ball
<1> QED BY <1>12, <1>13, <1>14

LEMMA BallNext ==
  ASSUME NEW E, NEW s \in Vertex, NEW k \in 0..N, k < N
  PROVE  k + 1 \in 0..N /\ Ball(E, s, k + 1) = Further(E, Ball(E, s, k))
<1>1. N \in Nat
  BY VertexFacts
<1>2. k + 1 \in 1..N /\ k + 1 \in 0..N /\ (k + 1) - 1 = k
  BY <1>1
<1>3. \A j \in 1..N : Ball(E, s, j) = Further(E, Ball(E, s, j - 1))
  BY BallsUnfold
<1>4. Ball(E, s, k + 1) = Further(E, Ball(E, s, (k + 1) - 1))
  BY <1>2, <1>3
<1> QED BY <1>2, <1>4

LEMMA BallType ==
  ASSUME NEW E, NEW s \in Vertex, NEW k \in 0..N
  PROVE  Ball(E, s, k) \in SUBSET Vertex /\ s \in Ball(E, s, k)
<1>1. \A j \in 0..N : Ball(E, s, j) \in SUBSET Vertex
  <2>1. Balls(E, s) \in [0..N -> SUBSET Vertex]
    BY BallsUnfold
  <2> QED BY <2>1 DEF Ball
<1> DEFINE P == {j \in 0..N : s \in Ball(E, s, j)}
<1>2. 0 \in P /\ N \in Nat
  BY BallsUnfold, VertexFacts
<1>3. ASSUME NEW j \in P, j < N PROVE j + 1 \in P
  <2>1. j \in 0..N
    OBVIOUS
  <2>2. j + 1 \in 0..N /\ Ball(E, s, j + 1) = Further(E, Ball(E, s, j))
    BY <1>3, <2>1, BallNext
  <2> QED BY <2>1, <2>2 DEF Further
<1>4. P \in SUBSET (0..N)
  OBVIOUS
<1> HIDE DEF P
<1>5. P = 0..N
  BY <1>2, <1>3, <1>4, BoundedInduction
<1> QED BY <1>1, <1>5 DEF P

\* A closed set holds every ball about its members.
LEMMA BallsWithin ==
  ASSUME NEW E, NEW s \in Vertex, NEW C, s \in C, Closed(E, C)
  PROVE  \A k \in 0..N : Ball(E, s, k) \subseteq C
<1> DEFINE P == {j \in 0..N : Ball(E, s, j) \subseteq C}
<1>1. 0 \in P /\ N \in Nat
  BY BallsUnfold, VertexFacts
<1>2. ASSUME NEW j \in P, j < N PROVE j + 1 \in P
  <2>1. j \in 0..N
    OBVIOUS
  <2>2. j + 1 \in 0..N /\ Ball(E, s, j + 1) = Further(E, Ball(E, s, j))
    BY <1>2, <2>1, BallNext
  <2> QED BY <2>1, <2>2 DEF Further, Closed
<1>3. P \in SUBSET (0..N)
  OBVIOUS
<1> HIDE DEF P
<1>4. P = 0..N
  BY <1>1, <1>2, <1>3, BoundedInduction
<1> QED BY <1>4 DEF P

\* A ball that is not closed yet grows, and there are but N vertices.
LEMMA ReachClosed ==
  ASSUME NEW E, NEW s \in Vertex
  PROVE  Closed(E, Reach(E, s))
<1> DEFINE P == {k \in 0..N : \/ Closed(E, Ball(E, s, k))
                              \/ Cardinality(Ball(E, s, k)) > k}
<1>1. 0 \in P /\ N \in Nat
  <2>1. Cardinality({s}) = 1
    BY FS_Singleton
  <2>2. Ball(E, s, 0) = {s}
    BY BallsUnfold
  <2>3. N \in Nat /\ 0 \in 0..N
    BY VertexFacts
  <2> QED BY <2>1, <2>2, <2>3
<1>2. ASSUME NEW k \in P, k < N PROVE k + 1 \in P
  <2>1. k \in 0..N /\ k + 1 \in 0..N
    BY <1>1, <1>2
  <2>2. Ball(E, s, k + 1) = Further(E, Ball(E, s, k))
    BY <1>2, <2>1, BallNext
  <2>3. CASE Closed(E, Ball(E, s, k))
    <3>1. Ball(E, s, k + 1) = Ball(E, s, k)
      BY <2>2, <2>3 DEF Further, Closed
    <3> QED BY <2>1, <2>3, <3>1
  <2>4. CASE ~Closed(E, Ball(E, s, k))
    <3>1. PICK A, B \in SUBSET Vertex : A = Ball(E, s, k) /\ B = Ball(E, s, k + 1)
      BY <2>1, BallType
    <3>2. A \subseteq B /\ A # B
      BY <2>2, <2>4, <3>1 DEF Further, Closed
    <3>3. IsFiniteSet(B) /\ Cardinality(A) \in Nat /\ Cardinality(B) \in Nat
      BY VertexFacts
    <3>4. Cardinality(A) <= Cardinality(B) /\ Cardinality(B) # Cardinality(A)
      BY <3>2, <3>3, FS_Subset
    <3>5. Cardinality(A) > k
      BY <2>4, <3>1
    <3>6. Cardinality(B) > k + 1
      BY <2>1, <3>3, <3>4, <3>5
    <3> QED BY <2>1, <3>1, <3>6
  <2> QED BY <2>3, <2>4
<1>3. P \in SUBSET (0..N)
  OBVIOUS
<1> HIDE DEF P
<1>4. P = 0..N
  BY <1>1, <1>2, <1>3, BoundedInduction
<1>5. N \in P /\ N \in 0..N
  BY <1>1, <1>4
<1>6. Cardinality(Ball(E, s, N)) <= N
  <2>1. Ball(E, s, N) \in SUBSET Vertex
    BY <1>5, BallType
  <2> QED BY <2>1, VertexFacts
<1>7. Cardinality(Ball(E, s, N)) \in Nat
  <2>1. Ball(E, s, N) \in SUBSET Vertex
    BY <1>5, BallType
  <2> QED BY <2>1, VertexFacts
<1> QED BY <1>1, <1>5, <1>6, <1>7 DEF P, Reach

LEMMA ReachLeast ==
  ASSUME NEW E, NEW s \in Vertex
  PROVE  /\ Reach(E, s) \in SUBSET Vertex /\ s \in Reach(E, s)
         /\ Closed(E, Reach(E, s))
         /\ \A C : s \in C /\ Closed(E, C) => Reach(E, s) \subseteq C
<1>1. N \in 0..N
  BY VertexFacts
<1>2. Reach(E, s) \in SUBSET Vertex /\ s \in Reach(E, s)
  BY <1>1, BallType DEF Reach
<1>3. ASSUME NEW C, s \in C, Closed(E, C) PROVE Reach(E, s) \subseteq C
  BY <1>1, <1>3, BallsWithin DEF Reach
<1> QED BY <1>2, <1>3, ReachClosed

LEMMA ReachMutual ==
  ASSUME NEW E, NEW s \in Vertex, NEW t \in Reach(E, s)
  PROVE  t \in Vertex /\ Reach(E, t) = Reach(E, s)
<1>1. t \in Vertex
  BY ReachLeast
<1>2. Reach(E, t) \subseteq Reach(E, s)
  BY <1>1, ReachLeast
<1>3. s \in Reach(E, t)
  <2> SUFFICES ASSUME s \notin Reach(E, t) PROVE FALSE
    OBVIOUS
  <2>1. Closed(E, Reach(E, s) \ Reach(E, t))
    BY <1>1, ReachLeast, ClosedWithout
  <2>2. s \in Reach(E, s) \ Reach(E, t)
    BY ReachLeast
  <2>3. Reach(E, s) \subseteq Reach(E, s) \ Reach(E, t)
    BY <2>1, <2>2, ReachLeast
  <2>4. t \in Reach(E, t)
    BY <1>1, ReachLeast
  <2> QED BY <2>3, <2>4
<1>4. Reach(E, s) \subseteq Reach(E, t)
  BY <1>1, <1>3, ReachLeast
<1> QED BY <1>1, <1>2, <1>4

-----------------------------------------------------------------------------
(***************************************************************************)
(* Breadth-first search.  It lists what is reached from its source, and    *)
(* writes the distance of each.                                            *)
(***************************************************************************)
Queue == [order : Seq(Vertex), dist : [Vertex -> Int]]
FreshQueue(s) == [order |-> <<s>>, dist |-> [v \in Vertex |-> IF v = s THEN 0 ELSE -1]]

LEMMA TakeOutType ==
  ASSUME NEW E, NEW q \in Queue, NEW i \in 1..N
  PROVE  TakeOut(E, q, i) \in Queue
<1> DEFINE u == q.order[i]
           new == {v \in Neighbours(E, u) : q.dist[v] = -1}
<1>1. CASE i > Len(q.order)
  BY <1>1 DEF TakeOut
<1>2. CASE ~(i > Len(q.order))
  <2>1. q.order \in Seq(Vertex) /\ q.dist \in [Vertex -> Int] /\ i \in Nat
    BY DEF Queue
  <2>2. i \in 1..Len(q.order)
    BY <1>2, <2>1
  <2>3. u \in Vertex
    BY <2>1, <2>2
  <2>4. new \in SUBSET Vertex
    BY DEF Neighbours
  <2>5. TakeOut(E, q, i) =
          [order |-> q.order \o Ascending(new),
           dist  |-> [v \in Vertex |-> IF v \in new THEN q.dist[u] + 1 ELSE q.dist[v]]]
    BY <1>2 DEF TakeOut
  <2> HIDE DEF new, u
  <2>6. Ascending(new) \in Seq(Vertex)
    <3>1. Ascending(new) \in Seq(new)
      BY <2>4, AscendingLists DEF Lists
    <3> QED BY <2>4, <3>1
  <2>7. q.order \o Ascending(new) \in Seq(Vertex)
    BY <2>1, <2>6
  <2>8. [v \in Vertex |-> IF v \in new THEN q.dist[u] + 1 ELSE q.dist[v]] \in [Vertex -> Int]
    BY <2>1, <2>3
  <2> QED BY <2>5, <2>7, <2>8 DEF Queue
<1> QED BY <1>1, <1>2

LEMMA FreshQueueType ==
  ASSUME NEW s \in Vertex
  PROVE  FreshQueue(s) \in Queue
<1>1. <<s>> \in Seq(Vertex)
  OBVIOUS
<1>2. [v \in Vertex |-> IF v = s THEN 0 ELSE -1] \in [Vertex -> Int]
  OBVIOUS
<1> QED BY <1>1, <1>2 DEF FreshQueue, Queue

\* The turns of the loop.
Turns(E, s, after) ==
  /\ after[0] = FreshQueue(s)
  /\ \A i \in 1..N : after[i] = TakeOut(E, after[i - 1], i)

LEMMA BfsUnfolds ==
  ASSUME NEW E, NEW s \in Vertex
  PROVE  \E after \in [0..N -> Queue] : Turns(E, s, after) /\ Bfs(E, s) = after[N]
<1> DEFINE step == [i \in 1..N |-> [q \in Queue |-> TakeOut(E, q, i)]]
           Is(f) == f = [i \in 0..N |-> IF i = 0 THEN FreshQueue(s) ELSE TakeOut(E, f[i - 1], i)]
<1>1. step \in [1..N -> [Queue -> Queue]]
  BY TakeOutType
<1>2. \A i \in 1..N : \A q \in Queue : step[i][q] = TakeOut(E, q, i)
  OBVIOUS
<1> HIDE DEF step
<1>3. FreshQueue(s) \in Queue /\ N \in Nat
  BY FreshQueueType, VertexFacts
<1>4. PICK b \in [0..N -> Queue] : Stepped(b, N, FreshQueue(s), step)
  BY <1>1, <1>3, Recursion
<1>5. \A i \in 0..N : b[i] = IF i = 0 THEN FreshQueue(s) ELSE TakeOut(E, b[i - 1], i)
  <2> SUFFICES ASSUME NEW i \in 0..N
               PROVE  b[i] = IF i = 0 THEN FreshQueue(s) ELSE TakeOut(E, b[i - 1], i)
    OBVIOUS
  <2>1. CASE i = 0
    BY <1>4, <2>1 DEF Stepped
  <2>2. CASE i # 0
    <3>1. i \in 1..N /\ i - 1 \in 0..N
      BY <1>3, <2>2
    <3> QED BY <1>2, <1>4, <2>2, <3>1 DEF Stepped
  <2> QED BY <2>1, <2>2
<1>6. Is(b)
  <2>1. b = [i \in 0..N |-> b[i]]
    OBVIOUS
  <2> QED BY <1>5, <2>1
<1> DEFINE after == CHOOSE f : Is(f)
<1>7. Bfs(E, s) = after[N]
  BY DEF Bfs, FreshQueue
<1>8. Is(after)
  <2> HIDE DEF Is
  <2> QED BY <1>6
<1> HIDE DEF after
<1>9. /\ after = [i \in 0..N |-> after[i]]
      /\ \A i \in 0..N : after[i] = IF i = 0 THEN FreshQueue(s) ELSE TakeOut(E, after[i - 1], i)
  BY <1>8
<1> HIDE DEF Is
<1>10. 0 \in 0..N /\ \A i \in 1..N : i \in 0..N /\ i # 0
  BY <1>3
<1>11. after[0] = FreshQueue(s) /\ \A i \in 1..N : after[i] = TakeOut(E, after[i - 1], i)
  BY <1>9, <1>10
<1>12. \A i \in 0..N : after[i] \in Queue
  <2>1. \A i \in 1..N : after[i - 1] \in Queue => after[i] \in Queue
    BY <1>11, TakeOutType
  <2>2. after[0] \in Queue
    BY <1>3, <1>11
  <2> QED BY <1>3, <2>1, <2>2, StaysIn
<1>13. after \in [0..N -> Queue]
  BY <1>9, <1>12
<1> QED BY <1>7, <1>11, <1>13 DEF Turns

\* What holds before turn i + 1.  A vertex is in the queue once if it has a
\* distance (Queued), and as far away as that (Sound); the queue is in order
\* of distance, over a range of one from its front on (Ordered); and what has
\* been taken out has had its neighbours queued, one further at most (Taken).
Queued(q) ==
  /\ Len(q.order) >= 1
  /\ \A j, k \in DOMAIN q.order : q.order[j] = q.order[k] => j = k
  /\ \A v \in Vertex : q.dist[v] # -1 <=> \E j \in DOMAIN q.order : q.order[j] = v
Sound(E, s, q, i) ==
  \A v \in Vertex : q.dist[v] # -1 => q.dist[v] \in 0..i /\ v \in Ball(E, s, q.dist[v])
Ordered(q, i) ==
  /\ \A j, k \in DOMAIN q.order : j <= k => q.dist[q.order[j]] <= q.dist[q.order[k]]
  /\ i + 1 <= Len(q.order) =>
       \A k \in DOMAIN q.order : q.dist[q.order[k]] <= q.dist[q.order[i + 1]] + 1
Taken(E, q, i) ==
  \A j \in DOMAIN q.order : j <= i =>
    \A v \in Neighbours(E, q.order[j]) : q.dist[v] # -1 /\ q.dist[v] <= q.dist[q.order[j]] + 1
Searched(E, s, q, i) ==
  /\ q \in Queue
  /\ Queued(q)
  /\ Sound(E, s, q, i)
  /\ Ordered(q, i)
  /\ Taken(E, q, i)
  /\ q.dist[s] = 0

LEMMA SearchStarts ==
  ASSUME NEW E, NEW s \in Vertex
  PROVE  Searched(E, s, FreshQueue(s), 0)
<1> DEFINE q == FreshQueue(s)
<1>1. /\ q \in Queue /\ q.order = <<s>> /\ Len(q.order) = 1 /\ DOMAIN q.order = {1}
      /\ q.order[1] = s
      /\ \A v \in Vertex : q.dist[v] = IF v = s THEN 0 ELSE -1
  BY FreshQueueType DEF FreshQueue
<1>2. Ball(E, s, 0) = {s}
  BY BallsUnfold
<1> HIDE DEF q
<1>3. Queued(q)
  BY <1>1 DEF Queued
<1>4. Sound(E, s, q, 0)
  BY <1>1, <1>2 DEF Sound
<1>5. Ordered(q, 0)
  BY <1>1 DEF Ordered
<1>6. Taken(E, q, 0)
  BY <1>1 DEF Taken
<1>7. q.dist[s] = 0
  BY <1>1
<1>8. Searched(E, s, q, 0)
  BY <1>1, <1>3, <1>4, <1>5, <1>6, <1>7 DEF Searched
<1> QED BY <1>8 DEF q

\* A turn that takes a vertex out: what it appends, and to what distance.
TakesOut(E, q, i, r, u, new, A) ==
  /\ u \in Vertex /\ u = q.order[i]
  /\ new \in SUBSET Vertex
  /\ \A v \in Vertex : v \in new <=> v \in Neighbours(E, u) /\ q.dist[v] = -1
  /\ Lists(A, new)
  /\ r.order = q.order \o A
  /\ \A v \in Vertex : r.dist[v] = IF v \in new THEN q.dist[u] + 1 ELSE q.dist[v]

LEMMA TurnForm ==
  ASSUME NEW E, NEW q \in Queue, NEW i \in 1..N, i <= Len(q.order)
  PROVE  \E u, new, A : TakesOut(E, q, i, TakeOut(E, q, i), u, new, A)
<1> DEFINE u == q.order[i]
           new == {v \in Neighbours(E, u) : q.dist[v] = -1}
           A == Ascending(new)
<1>1. q.order \in Seq(Vertex) /\ q.dist \in [Vertex -> Int] /\ i \in Nat
  BY DEF Queue
<1>2. ~(i > Len(q.order)) /\ i \in 1..Len(q.order)
  BY <1>1
<1>3. u \in Vertex
  BY <1>1, <1>2
<1>4. new \in SUBSET Vertex
  BY DEF Neighbours
<1>5. TakeOut(E, q, i) =
        [order |-> q.order \o A,
         dist  |-> [v \in Vertex |-> IF v \in new THEN q.dist[u] + 1 ELSE q.dist[v]]]
  BY <1>2 DEF TakeOut
<1>6. Lists(A, new)
  BY <1>4, AscendingLists
<1>7. \A v \in Vertex : v \in new <=> v \in Neighbours(E, u) /\ q.dist[v] = -1
  OBVIOUS
<1>8. u = q.order[i]
  OBVIOUS
<1> HIDE DEF A, new, u
<1>9. /\ TakeOut(E, q, i).order = q.order \o A
      /\ \A v \in Vertex : TakeOut(E, q, i).dist[v] = IF v \in new THEN q.dist[u] + 1 ELSE q.dist[v]
  BY <1>5
<1>10. TakesOut(E, q, i, TakeOut(E, q, i), u, new, A)
  BY <1>3, <1>4, <1>6, <1>7, <1>8, <1>9 DEF TakesOut
<1> QED BY <1>10

LEMMA TurnKeeps ==
  ASSUME NEW E, NEW s \in Vertex, NEW q, NEW i \in 1..N, Searched(E, s, q, i - 1)
  PROVE  Searched(E, s, TakeOut(E, q, i), i)
<1> DEFINE r == TakeOut(E, q, i)
<1>1. /\ q \in Queue /\ Queued(q) /\ Sound(E, s, q, i - 1) /\ Ordered(q, i - 1)
      /\ Taken(E, q, i - 1) /\ q.dist[s] = 0
  BY DEF Searched
<1>2. PICK L \in Nat : L = Len(q.order)
  BY <1>1 DEF Queue
<1>3. /\ q.order \in [1..L -> Vertex] /\ q.order \in Seq(Vertex) /\ DOMAIN q.order = 1..L
      /\ q.dist \in [Vertex -> Int]
      /\ L >= 1 /\ i \in Nat \ {0}
  BY <1>1, <1>2 DEF Queue, Queued
<1>4. CASE i > L
  <2>1. r = q
    BY <1>2, <1>4 DEF TakeOut
  <2>2. Sound(E, s, q, i)
    BY <1>1, <1>3 DEF Sound
  <2>3. Ordered(q, i)
    BY <1>1, <1>2, <1>3, <1>4 DEF Ordered
  <2>4. Taken(E, q, i)
    <3>1. \A j \in DOMAIN q.order : j <= i - 1
      BY <1>3, <1>4
    <3> QED BY <1>1, <3>1 DEF Taken
  <2> HIDE DEF r
  <2>5. Searched(E, s, r, i)
    BY <1>1, <2>1, <2>2, <2>3, <2>4 DEF Searched
  <2> QED BY <2>5 DEF r
<1>5. CASE i <= L
  <2>1. PICK u, new, A : TakesOut(E, q, i, r, u, new, A)
    BY <1>1, <1>2, <1>5, TurnForm
  <2>2. r \in Queue
    BY <1>1, TakeOutType
  <2> HIDE DEF r
  <2>3. /\ u \in Vertex /\ u = q.order[i] /\ new \in SUBSET Vertex
        /\ \A v \in Vertex : v \in new <=> v \in Neighbours(E, u) /\ q.dist[v] = -1
        /\ Lists(A, new)
        /\ r.order = q.order \o A
        /\ \A v \in Vertex : r.dist[v] = IF v \in new THEN q.dist[u] + 1 ELSE q.dist[v]
    BY <2>1 DEF TakesOut
  <2>4. PICK m \in Nat : m = Len(A)
    BY <2>3, ListLength
  <2>5. /\ DOMAIN A = 1..m /\ A \in [1..m -> new] /\ A \in Seq(Vertex)
        /\ \A j, k \in 1..m : A[j] = A[k] => j = k
        /\ \A v \in new : \E j \in 1..m : A[j] = v
    <3>1. A \in Seq(new) /\ DOMAIN A = 1..m
      BY <2>3, <2>4, ListLength DEF Lists
    <3>2. A \in [1..m -> new] /\ A \in Seq(Vertex)
      BY <2>3, <2>4, <3>1
    <3> QED BY <2>3, <3>1, <3>2 DEF Lists
  <2>6. /\ DOMAIN r.order = 1..(L + m) /\ Len(r.order) = L + m
        /\ \A j \in 1..L : r.order[j] = q.order[j]
        /\ \A j \in 1..m : r.order[L + j] = A[j]
    BY <1>2, <1>3, <2>3, <2>4, <2>5
  <2>7. \A k \in 1..(L + m) : k \in 1..L \/ \E j \in 1..m : k = L + j
    <3> SUFFICES ASSUME NEW k \in 1..(L + m), k \notin 1..L
                 PROVE  \E j \in 1..m : k = L + j
      OBVIOUS
    <3>1. k - L \in 1..m /\ k = L + (k - L)
      OBVIOUS
    <3> QED BY <3>1
  \* The places of the old and the new vertices.
  <2>8. \A j \in 1..L : /\ q.order[j] \in Vertex /\ r.order[j] = q.order[j]
                        /\ q.dist[q.order[j]] # -1 /\ q.order[j] \notin new
                        /\ r.dist[q.order[j]] = q.dist[q.order[j]]
    <3> SUFFICES ASSUME NEW j \in 1..L
                 PROVE  /\ q.order[j] \in Vertex /\ r.order[j] = q.order[j]
                        /\ q.dist[q.order[j]] # -1 /\ q.order[j] \notin new
                        /\ r.dist[q.order[j]] = q.dist[q.order[j]]
      OBVIOUS
    <3>1. q.order[j] \in Vertex /\ r.order[j] = q.order[j]
      BY <1>3, <2>6
    <3>2. q.dist[q.order[j]] # -1
      BY <1>1, <1>3, <3>1 DEF Queued
    <3> QED BY <2>3, <3>1, <3>2
  <2>9. \A j \in 1..m : /\ A[j] \in new /\ A[j] \in Vertex /\ r.order[L + j] = A[j]
                        /\ r.dist[A[j]] = q.dist[u] + 1
    BY <2>3, <2>5, <2>6
  <2>10. i \in 1..L /\ q.dist[u] # -1 /\ q.dist[u] \in 0..(i - 1) /\ u \in Ball(E, s, q.dist[u])
    <3>1. i \in 1..L
      BY <1>3, <1>5
    <3>2. u \in Vertex /\ q.dist[u] # -1
      BY <2>3, <2>8, <3>1
    <3>3. Sound(E, s, q, i - 1)
      BY <1>1
    <3>4. q.dist[u] \in 0..(i - 1) /\ u \in Ball(E, s, q.dist[u])
      BY <3>2, <3>3 DEF Sound
    <3> QED BY <3>1, <3>2, <3>4
  <2>11. Queued(r)
    <3>1. Len(r.order) >= 1
      BY <1>3, <2>6
    <3>2. ASSUME NEW j \in 1..(L + m), NEW k \in 1..(L + m), r.order[j] = r.order[k]
          PROVE  j = k
      <4>1. CASE j \in 1..L /\ k \in 1..L
        <5>1. r.order[j] = q.order[j] /\ r.order[k] = q.order[k]
          BY <2>8, <4>1
        <5>2. \A a, b \in 1..L : q.order[a] = q.order[b] => a = b
          BY <1>1, <1>3 DEF Queued
        <5> QED BY <3>2, <4>1, <5>1, <5>2
      <4>2. CASE j \in 1..L /\ k \notin 1..L
        BY <2>7, <2>8, <2>9, <3>2, <4>2
      <4>3. CASE j \notin 1..L /\ k \in 1..L
        BY <2>7, <2>8, <2>9, <3>2, <4>3
      <4>4. CASE j \notin 1..L /\ k \notin 1..L
        <5>1. PICK a \in 1..m : j = L + a
          BY <2>7, <4>4
        <5>2. PICK b \in 1..m : k = L + b
          BY <2>7, <4>4
        <5> QED BY <2>5, <2>9, <3>2, <5>1, <5>2
      <4> QED BY <4>1, <4>2, <4>3, <4>4
    <3>3. ASSUME NEW v \in Vertex
          PROVE  r.dist[v] # -1 <=> \E j \in 1..(L + m) : r.order[j] = v
      <4>1. CASE v \in new
        <5>1. r.dist[v] # -1
          BY <2>3, <2>10, <4>1
        <5>2. PICK j \in 1..m : A[j] = v
          BY <2>5, <4>1
        <5>3. L + j \in 1..(L + m)
          OBVIOUS
        <5> QED BY <2>9, <5>1, <5>2, <5>3
      <4>2. CASE v \notin new
        <5>1. r.dist[v] = q.dist[v]
          BY <2>3, <4>2
        <5>2. q.dist[v] # -1 <=> \E j \in 1..L : q.order[j] = v
          BY <1>1, <1>3 DEF Queued
        <5>3. ASSUME NEW j \in 1..(L + m), r.order[j] = v PROVE \E k \in 1..L : q.order[k] = v
          BY <2>7, <2>8, <2>9, <4>2, <5>3
        <5>4. ASSUME NEW j \in 1..L, q.order[j] = v PROVE \E k \in 1..(L + m) : r.order[k] = v
          <6>1. j \in 1..(L + m)
            OBVIOUS
          <6> QED BY <2>8, <5>4, <6>1
        <5> QED BY <5>1, <5>2, <5>3, <5>4
      <4> QED BY <4>1, <4>2
    <3> QED BY <2>6, <3>1, <3>2, <3>3 DEF Queued
  <2>12. Sound(E, s, r, i)
    <3> SUFFICES ASSUME NEW v \in Vertex, r.dist[v] # -1
                 PROVE  r.dist[v] \in 0..i /\ v \in Ball(E, s, r.dist[v])
      BY DEF Sound
    <3>1. CASE v \in new
      <4>1. PICK d \in 0..(i - 1) : d = q.dist[u]
        BY <2>10
      <4>2. d \in 0..N /\ d < N
        BY VertexFacts
      <4>3. Ball(E, s, d + 1) = Further(E, Ball(E, s, d))
        BY <4>2, BallNext
      <4>4. r.dist[v] = d + 1 /\ v \in Neighbours(E, u) /\ u \in Ball(E, s, d)
        BY <2>3, <2>10, <3>1, <4>1
      <4>5. v \in Further(E, Ball(E, s, d))
        BY <4>4 DEF Further
      <4> QED BY <1>3, <4>1, <4>3, <4>4, <4>5
    <3>2. CASE v \notin new
      <4>1. r.dist[v] = q.dist[v] /\ q.dist[v] # -1
        BY <2>3, <3>2
      <4>2. q.dist[v] \in 0..(i - 1) /\ v \in Ball(E, s, q.dist[v])
        BY <1>1, <4>1 DEF Sound
      <4> QED BY <1>3, <4>1, <4>2
    <3> QED BY <3>1, <3>2
  \* The front is u: what was queued lies between its distance and one more.
  <2>13. \A k \in 1..L : /\ q.dist[q.order[k]] \in Int
                         /\ q.dist[q.order[k]] <= q.dist[u] + 1
                         /\ i <= k => q.dist[u] <= q.dist[q.order[k]]
    <3>1. (i - 1) + 1 = i
      BY <1>3
    <3>2. \A k \in 1..L : q.dist[q.order[k]] <= q.dist[u] + 1
      BY <1>1, <1>2, <1>3, <1>5, <2>3, <3>1 DEF Ordered
    <3>3. \A k \in 1..L : i <= k => q.dist[u] <= q.dist[q.order[k]]
      BY <1>1, <1>3, <2>3, <2>10 DEF Ordered
    <3> QED BY <1>3, <2>8, <3>2, <3>3
  <2>14. PICK d \in Int : d = q.dist[u]
    BY <2>10
  <2>15. Ordered(r, i)
    <3>1. ASSUME NEW j \in 1..(L + m), NEW k \in 1..(L + m), j <= k
          PROVE  r.dist[r.order[j]] <= r.dist[r.order[k]]
      <4>1. CASE j \in 1..L /\ k \in 1..L
        <5>1. q.dist[q.order[j]] <= q.dist[q.order[k]]
          BY <1>1, <1>3, <3>1, <4>1 DEF Ordered
        <5> QED BY <2>8, <4>1, <5>1
      <4>2. CASE j \in 1..L /\ k \notin 1..L
        <5>1. r.dist[r.order[k]] = d + 1
          BY <2>7, <2>9, <2>14, <4>2
        <5>2. r.dist[r.order[j]] <= d + 1
          BY <2>8, <2>13, <2>14, <4>2
        <5> QED BY <5>1, <5>2
      <4>3. CASE j \notin 1..L /\ k \in 1..L
        BY <3>1, <4>3
      <4>4. CASE j \notin 1..L /\ k \notin 1..L
        <5>1. r.dist[r.order[k]] = d + 1 /\ r.dist[r.order[j]] = d + 1
          BY <2>7, <2>9, <2>14, <4>4
        <5> QED BY <5>1
      <4> QED BY <4>1, <4>2, <4>3, <4>4
    <3>2. \A k \in 1..(L + m) : r.dist[r.order[k]] <= d + 1
      BY <2>7, <2>8, <2>9, <2>13, <2>14
    <3>3. ASSUME i + 1 <= L + m, NEW k \in 1..(L + m)
          PROVE  r.dist[r.order[k]] <= r.dist[r.order[i + 1]] + 1
      <4>1. i + 1 \in 1..(L + m)
        BY <1>3, <3>3
      <4>2. r.dist[r.order[i + 1]] \in Int /\ r.dist[r.order[i + 1]] >= d
        <5>1. CASE i + 1 \in 1..L
          <6>1. i <= i + 1
            BY <1>3
          <6> QED BY <2>8, <2>13, <2>14, <5>1, <6>1
        <5>2. CASE i + 1 \notin 1..L
          <6>1. r.dist[r.order[i + 1]] = d + 1
            BY <2>7, <2>9, <2>14, <4>1, <5>2
          <6> QED BY <6>1
        <5> QED BY <5>1, <5>2
      <4>3. r.dist[r.order[k]] <= d + 1
        BY <3>2
      <4>4. r.dist[r.order[k]] \in Int
        BY <2>7, <2>8, <2>9, <2>13, <2>14
      <4> QED BY <4>2, <4>3, <4>4
    <3> QED BY <2>6, <3>1, <3>3 DEF Ordered
  <2>16. Taken(E, r, i)
    <3> SUFFICES ASSUME NEW j \in 1..(L + m), j <= i, NEW v \in Neighbours(E, r.order[j])
                 PROVE  r.dist[v] # -1 /\ r.dist[v] <= r.dist[r.order[j]] + 1
      BY <2>6 DEF Taken
    <3>1. j \in 1..L /\ v \in Vertex
      BY <1>5 DEF Neighbours
    <3>2. r.order[j] = q.order[j] /\ r.dist[r.order[j]] = q.dist[q.order[j]]
      BY <2>8, <3>1
    <3>3. CASE j = i
      <4>1. r.dist[r.order[j]] = d
        BY <2>3, <2>14, <3>2, <3>3
      <4>2. CASE v \in new
        <5>1. r.dist[v] = d + 1 /\ d # -2
          BY <2>3, <2>10, <2>14, <4>2
        <5> QED BY <4>1, <5>1
      <4>3. CASE v \notin new
        <5>1. r.dist[v] = q.dist[v] /\ q.dist[v] # -1
          BY <2>3, <3>1, <3>2, <3>3, <4>3
        <5>2. PICK k \in 1..L : q.order[k] = v
          BY <1>1, <1>3, <3>1, <5>1 DEF Queued
        <5>3. q.dist[v] <= d + 1
          BY <2>13, <2>14, <5>2
        <5> QED BY <4>1, <5>1, <5>3
      <4> QED BY <4>2, <4>3
    <3>4. CASE j # i
      <4>1. j <= i - 1
        BY <1>3, <3>4
      <4>2. q.dist[v] # -1 /\ q.dist[v] <= q.dist[q.order[j]] + 1
        BY <1>1, <1>3, <3>1, <3>2, <4>1 DEF Taken
      <4>3. v \notin new
        BY <2>3, <3>1, <4>2
      <4> QED BY <2>3, <3>1, <3>2, <4>2, <4>3
    <3> QED BY <3>3, <3>4
  <2>17. r.dist[s] = 0
    <3>1. s \notin new
      BY <1>1, <2>3
    <3> QED BY <1>1, <2>3, <3>1
  <2>18. Searched(E, s, r, i)
    BY <2>2, <2>11, <2>12, <2>15, <2>16, <2>17 DEF Searched
  <2> QED BY <2>18 DEF r
<1> QED BY <1>3, <1>4, <1>5

LEMMA BfsSearched ==
  ASSUME NEW E, NEW s \in Vertex
  PROVE  Searched(E, s, Bfs(E, s), N)
<1>1. PICK after \in [0..N -> Queue] : Turns(E, s, after) /\ Bfs(E, s) = after[N]
  BY BfsUnfolds
<1> DEFINE P == {i \in 0..N : Searched(E, s, after[i], i)}
<1>2. N \in Nat /\ P \in SUBSET (0..N)
  BY VertexFacts
<1>3. 0 \in P
  <2>1. Searched(E, s, after[0], 0)
    BY <1>1, SearchStarts DEF Turns
  <2> QED BY <1>2, <2>1
<1>4. ASSUME NEW i \in P, i < N PROVE i + 1 \in P
  <2>1. i \in 0..N /\ Searched(E, s, after[i], i)
    OBVIOUS
  <2>2. PICK k \in 1..N : k = i + 1
    BY <1>2, <1>4, <2>1
  <2>3. k - 1 = i
    BY <2>1, <2>2
  <2>4. after[k] = TakeOut(E, after[i], k)
    BY <1>1, <2>3 DEF Turns
  <2>5. Searched(E, s, TakeOut(E, after[i], k), k)
    BY <2>1, <2>3, TurnKeeps
  <2> QED BY <1>2, <2>2, <2>4, <2>5
<1> HIDE DEF P
<1>5. P = 0..N
  BY <1>2, <1>3, <1>4, BoundedInduction
<1>6. N \in P
  BY <1>2, <1>5
<1> QED BY <1>1, <1>6 DEF P

LEMMA BallsHaveDistance ==
  ASSUME NEW E, NEW s \in Vertex, NEW q, Searched(E, s, q, N),
         \A j \in DOMAIN q.order : j <= N
  PROVE  \A k \in 0..N : \A v \in Ball(E, s, k) : q.dist[v] \in 0..k
<1> DEFINE P == {k \in 0..N : \A v \in Ball(E, s, k) : q.dist[v] \in 0..k}
<1>1. N \in Nat /\ P \in SUBSET (0..N)
  BY VertexFacts
<1>2. 0 \in P
  <2>1. Ball(E, s, 0) = {s} /\ q.dist[s] = 0
    BY BallsUnfold DEF Searched
  <2> QED BY <1>1, <2>1
<1>3. ASSUME NEW k \in P, k < N PROVE k + 1 \in P
  <2>1. k \in 0..N /\ \A v \in Ball(E, s, k) : q.dist[v] \in 0..k
    OBVIOUS
  <2>2. k + 1 \in 0..N /\ Ball(E, s, k + 1) = Further(E, Ball(E, s, k))
    BY <1>3, <2>1, BallNext
  <2>3. ASSUME NEW v \in Ball(E, s, k + 1) PROVE q.dist[v] \in 0..(k + 1)
    <3>1. CASE v \in Ball(E, s, k)
      BY <2>1, <3>1
    <3>2. CASE v \notin Ball(E, s, k)
      <4>1. PICK u \in Ball(E, s, k) : v \in Neighbours(E, u)
        BY <2>2, <3>2 DEF Further
      <4>2. u \in Vertex /\ v \in Vertex
        BY <2>1, <4>1, BallType DEF Neighbours
      <4>3. PICK d \in 0..k : d = q.dist[u]
        BY <2>1
      <4>4. PICK j \in DOMAIN q.order : q.order[j] = u
        BY <2>1, <4>2, <4>3 DEF Searched, Queued
      <4>5. q.dist[v] # -1 /\ q.dist[v] <= d + 1
        BY <4>1, <4>3, <4>4 DEF Searched, Taken
      <4>6. q.dist[v] \in 0..N
        BY <4>2, <4>5 DEF Searched, Sound
      <4> QED BY <2>1, <4>3, <4>5, <4>6
    <3> QED BY <3>1, <3>2
  <2> QED BY <2>2, <2>3
<1> HIDE DEF P
<1>4. P = 0..N
  BY <1>1, <1>2, <1>3, BoundedInduction
<1> QED BY <1>4 DEF P

LEMMA BfsExact ==
  ASSUME NEW E, NEW s \in Vertex
  PROVE  /\ Lists(Component(E, s), Reach(E, s))
         /\ \A v \in Vertex :
              IF v \in Reach(E, s)
              THEN /\ Bfs(E, s).dist[v] \in 0..N
                   /\ Bfs(E, s).dist[v] = Distance(E, s, v)
              ELSE Bfs(E, s).dist[v] = -1
<1> DEFINE q == Bfs(E, s)
<1>1. Searched(E, s, q, N)
  BY BfsSearched
<1> HIDE DEF q
<1>2. N \in Nat /\ N \in 0..N
  BY VertexFacts
<1>3. /\ q.order \in Seq(Vertex) /\ Queued(q) /\ Sound(E, s, q, N) /\ Taken(E, q, N)
      /\ q.dist[s] = 0
  BY <1>1 DEF Searched, Queue
<1> DEFINE R == {v \in Vertex : q.dist[v] # -1}
<1>4. Lists(q.order, R)
  <2>1. \A j \in DOMAIN q.order : q.order[j] \in R
    BY <1>3 DEF Queued
  <2>2. q.order \in Seq(R)
    BY <1>3, <2>1
  <2> QED BY <1>3, <2>2 DEF Lists, Queued
<1>5. \A j \in DOMAIN q.order : j <= N
  <2>1. R \in SUBSET Vertex
    OBVIOUS
  <2> HIDE DEF R
  <2>2. Cardinality(R) \in 0..N
    BY <2>1, VertexFacts
  <2>3. DOMAIN q.order = 1..Len(q.order) /\ Len(q.order) = Cardinality(R)
    BY <1>4, ListLength
  <2> QED BY <1>2, <2>2, <2>3
<1>6. \A v \in R : v \in Ball(E, s, q.dist[v]) /\ q.dist[v] \in 0..N
  BY <1>3 DEF Sound
<1>7. R = Reach(E, s)
  <2>1. Closed(E, R)
    <3> SUFFICES ASSUME NEW u \in R, NEW v \in Neighbours(E, u) PROVE v \in R
      BY DEF Closed
    <3>1. PICK j \in DOMAIN q.order : q.order[j] = u
      BY <1>4 DEF Lists
    <3> QED BY <1>3, <1>5, <3>1 DEF Taken, Neighbours
  <2>2. Reach(E, s) \subseteq R
    BY <1>3, <2>1, ReachLeast
  <2>3. \A k \in 0..N : Ball(E, s, k) \subseteq Reach(E, s)
    BY ReachLeast, BallsWithin
  <2> QED BY <1>6, <2>2, <2>3
<1>8. ASSUME NEW v \in Reach(E, s)
      PROVE  q.dist[v] \in 0..N /\ q.dist[v] = Distance(E, s, v)
  <2>1. PICK d \in 0..N : d = q.dist[v] /\ v \in Ball(E, s, d)
    BY <1>6, <1>7
  <2> DEFINE K == {k \in 0..N : v \in Ball(E, s, k)}
  <2>2. d \in K
    BY <2>1
  <2>3. \A k \in K : k \in Int /\ d <= k
    BY <1>1, <1>5, <2>1, BallsHaveDistance
  <2>4. Distance(E, s, v) = CHOOSE x \in K : \A y \in K : x <= y
    BY DEF Distance, Min
  <2> HIDE DEF K
  <2>5. \A x \in K : (\A y \in K : x <= y) => x = d
    <3> SUFFICES ASSUME NEW x \in K, \A y \in K : x <= y PROVE x = d
      OBVIOUS
    <3>1. x <= d /\ d <= x /\ x \in Int /\ d \in Int
      BY <2>2, <2>3
    <3> QED BY <3>1
  <2>6. Distance(E, s, v) = d
    BY <2>2, <2>3, <2>4, <2>5
  <2> QED BY <2>1, <2>6
<1>9. Lists(Component(E, s), Reach(E, s))
  BY <1>4, <1>7 DEF Component, q
<1>10. \A v \in Vertex \ Reach(E, s) : q.dist[v] = -1
  BY <1>7
<1> QED BY <1>8, <1>9, <1>10 DEF q

LEMMA ComponentSize ==
  ASSUME NEW E, NEW s \in Vertex
  PROVE  /\ Len(Component(E, s)) = Cardinality(Reach(E, s))
         /\ Len(Component(E, s)) \in 1..N
         /\ ToSet(Component(E, s)) = Reach(E, s)
<1>1. Lists(Component(E, s), Reach(E, s))
  BY BfsExact
<1>2. /\ Len(Component(E, s)) = Cardinality(Reach(E, s))
      /\ ToSet(Component(E, s)) = Reach(E, s)
      /\ IsFiniteSet(Reach(E, s))
  BY <1>1, ListLength
<1>3. Cardinality(Reach(E, s)) \in 0..N /\ Reach(E, s) # {}
  BY VertexFacts, ReachLeast
<1>4. Cardinality(Reach(E, s)) # 0
  BY <1>2, <1>3, FS_EmptySet
<1>5. N \in Nat
  BY VertexFacts
<1> QED BY <1>2, <1>3, <1>4, <1>5

\* The component kept is that of some vertex, and none is larger.
IsLargest(E, giant, s) ==
  /\ giant = Component(E, s)
  /\ \A t \in Vertex : Cardinality(Reach(E, t)) <= Cardinality(Reach(E, s))

LEMMA LargestIsLargest ==
  ASSUME NEW E
  PROVE  \E s \in Vertex : IsLargest(E, LargestConnectedComponent(E), s)
<1> DEFINE size(s) == Len(Component(E, s))
           Sizes == {size(s) : s \in Vertex}
           Bests == {s \in Vertex : \A t \in Vertex : size(t) <= size(s)}
<1>1. \A s \in Vertex : size(s) \in Nat /\ size(s) = Cardinality(Reach(E, s))
  BY ComponentSize
<1>2. IsFiniteSet(Sizes) /\ Sizes \in SUBSET Nat /\ Sizes # {}
  <2>1. Sizes \in SUBSET (0..N)
    BY ComponentSize
  <2>2. IsFiniteSet(0..N) /\ N \in Nat
    BY VertexFacts, FS_Interval
  <2>3. size(0) \in Sizes
    BY VertexFacts
  <2> HIDE DEF Sizes, size
  <2>4. IsFiniteSet(Sizes)
    BY <2>1, <2>2, FS_Subset
  <2> QED BY <2>1, <2>2, <2>3, <2>4
<1>3. PICK m \in Sizes : \A k \in Sizes : k <= m
  <2> HIDE DEF Sizes
  <2> QED BY <1>2, GreatestNatural
<1>4. Bests # {} /\ Bests \in SUBSET Nat
  <2>1. PICK s \in Vertex : m = size(s)
    BY <1>3
  <2>2. \A t \in Vertex : size(t) <= size(s)
    BY <1>3, <2>1
  <2> HIDE DEF size
  <2> QED BY <2>1, <2>2, VertexFacts
<1>5. LargestConnectedComponent(E) = Component(E, Min(Bests))
  BY DEF LargestConnectedComponent
<1>6. Min(Bests) \in Bests
  <2>1. Min(Bests) = CHOOSE x \in Bests : \A y \in Bests : x <= y
    BY DEF Min
  <2> HIDE DEF Bests
  <2> QED BY <1>4, <2>1, LeastNatural
<1>7. /\ Min(Bests) \in Vertex
      /\ \A t \in Vertex : size(t) <= size(Min(Bests))
  <2>1. PICK b : b = Min(Bests)
    OBVIOUS
  <2>2. b \in Vertex /\ \A t \in Vertex : size(t) <= size(b)
    BY <1>6, <2>1
  <2> HIDE DEF size, Bests
  <2> QED BY <2>1, <2>2
<1> HIDE DEF Bests, size
<1>8. \A t \in Vertex : Cardinality(Reach(E, t)) <= Cardinality(Reach(E, Min(Bests)))
  BY <1>1, <1>7
<1> QED BY <1>5, <1>7, <1>8 DEF IsLargest

-----------------------------------------------------------------------------
(***************************************************************************)
(* The mesh: connected, with the vertices from 0 on, and as many edges as  *)
(* the component it was made of.                                           *)
(***************************************************************************)
Meshed(n, E) == n \in 1..N /\ Reach(E, 0) = 0..(n - 1)

LEMMA MeshedReach ==
  ASSUME NEW n, NEW E, Meshed(n, E)
  PROVE  /\ n \in Nat \ {0} /\ 0..(n - 1) \subseteq Vertex
         /\ \A s \in 0..(n - 1) : Reach(E, s) = 0..(n - 1)
<1>1. n \in Nat \ {0} /\ 0..(n - 1) \subseteq Vertex
  BY VertexFacts DEF Meshed, Vertex
<1>2. ASSUME NEW s \in 0..(n - 1) PROVE Reach(E, s) = 0..(n - 1)
  <2>1. s \in Reach(E, 0) /\ 0 \in Vertex
    BY VertexFacts DEF Meshed
  <2> QED BY <2>1, ReachMutual DEF Meshed
<1> QED BY <1>1, <1>2

Pairs(n) == {p \in (0..(n - 1)) \X (0..(n - 1)) : p[1] # p[2]}

LEMMA StatsExact ==
  ASSUME NEW n, NEW E, Meshed(n, E)
  PROVE  ComputePathStats(n, E) = Stats([p \in Pairs(n) |-> Distance(E, p[1], p[2])])
<1> DEFINE V == 0..(n - 1)
           dist == [s \in V |-> Bfs(E, s).dist]
           pairs == {p \in V \X V : p[1] # p[2] /\ dist[p[1]][p[2]] >= 0}
<1>1. V \subseteq Vertex /\ \A s \in V : Reach(E, s) = V
  BY MeshedReach
<1>2. \A s \in V : dist[s] = Bfs(E, s).dist
  OBVIOUS
<1>3. ComputePathStats(n, E) = Stats([p \in pairs |-> dist[p[1]][p[2]]])
  BY DEF ComputePathStats
<1>4. Pairs(n) = {p \in V \X V : p[1] # p[2]}
  BY DEF Pairs
<1> HIDE DEF dist, V
<1>5. \A s, t \in V : /\ dist[s][t] \in 0..N /\ dist[s][t] >= 0
                      /\ dist[s][t] = Distance(E, s, t)
  <2> SUFFICES ASSUME NEW s \in V, NEW t \in V
               PROVE  /\ dist[s][t] \in 0..N /\ dist[s][t] >= 0
                      /\ dist[s][t] = Distance(E, s, t)
    OBVIOUS
  <2>1. s \in Vertex /\ t \in Vertex /\ t \in Reach(E, s)
    BY <1>1
  <2>2. Bfs(E, s).dist[t] \in 0..N /\ Bfs(E, s).dist[t] = Distance(E, s, t)
    BY <2>1, BfsExact
  <2> QED BY <1>2, <2>2, VertexFacts
<1>6. pairs = Pairs(n)
  BY <1>4, <1>5
<1>7. \A p \in Pairs(n) : dist[p[1]][p[2]] = Distance(E, p[1], p[2])
  BY <1>4, <1>5
<1>8. [p \in pairs |-> dist[p[1]][p[2]]] = [p \in Pairs(n) |-> Distance(E, p[1], p[2])]
  BY <1>6, <1>7
<1> QED BY <1>3, <1>8

\* An edge joins two vertices.
LEMMA EdgeFacts ==
  ASSUME NEW E \in Graph, NEW e \in E
  PROVE  /\ e \in SUBSET Vertex /\ Cardinality(e) = 2
         /\ \E a, b \in Vertex : a # b /\ e = {a, b}
<1>1. e \in SUBSET Vertex /\ Cardinality(e) = 2
  BY DEF Graph, kSubset
<1>2. IsFiniteSet(e) /\ e # {}
  BY <1>1, VertexFacts, FS_EmptySet
<1>3. PICK a \in e : TRUE
  BY <1>2
<1>4. IsFiniteSet(e \ {a}) /\ Cardinality(e \ {a}) = 1
  <2>1. IsFiniteSet(e \ {a}) /\ Cardinality(e \ {a}) = Cardinality(e) - 1
    BY <1>2, <1>3, FS_RemoveElement
  <2> QED BY <1>1, <2>1
<1>5. PICK b : e \ {a} = {b}
  BY <1>4, FS_Singleton
<1>6. a # b /\ e = {a, b}
  BY <1>3, <1>5
<1> QED BY <1>1, <1>3, <1>5, <1>6

LEMMA NoLoops ==
  ASSUME NEW E \in Graph, NEW a, NEW b, {a, b} \in E
  PROVE  a # b /\ a \in Vertex /\ b \in Vertex
<1>1. PICK c, d \in Vertex : c # d /\ {a, b} = {c, d}
  BY EdgeFacts
<1> QED BY <1>1

\* Renumbering keeps the neighbours: i - 1 and j - 1 are joined if the i-th
\* and the j-th vertex of the component were.
LEMMA RemappedEdges ==
  ASSUME NEW E \in Graph, NEW giant, NEW R \in SUBSET Vertex, Lists(giant, R)
  PROVE  \A x, y \in 0..(Len(giant) - 1) :
           {x, y} \in Remapped(E, giant) <=> {giant[x + 1], giant[y + 1]} \in E
<1>1. PICK n \in Nat : n = Len(giant)
  BY ListLength
<1> SUFFICES ASSUME NEW x \in 0..(n - 1), NEW y \in 0..(n - 1)
             PROVE  {x, y} \in Remapped(E, giant) <=> {giant[x + 1], giant[y + 1]} \in E
  BY <1>1
<1>2. x + 1 \in 1..n /\ y + 1 \in 1..n /\ (x + 1) - 1 = x /\ (y + 1) - 1 = y
  OBVIOUS
<1> DEFINE Q == {q \in (1..n) \X (1..n) : {giant[q[1]], giant[q[2]]} \in E}
<1>3. Remapped(E, giant) = {{p[1] - 1, p[2] - 1} : p \in Q}
  BY <1>1 DEF Remapped
<1>4. ASSUME {giant[x + 1], giant[y + 1]} \in E PROVE {x, y} \in Remapped(E, giant)
  <2>1. PICK p : p = <<x + 1, y + 1>>
    OBVIOUS
  <2>2. p \in Q /\ p[1] - 1 = x /\ p[2] - 1 = y
    BY <1>2, <1>4, <2>1
  <2> HIDE DEF Q
  <2> QED BY <1>3, <2>2
<1>5. ASSUME {x, y} \in Remapped(E, giant) PROVE {giant[x + 1], giant[y + 1]} \in E
  <2>1. PICK p \in Q : {x, y} = {p[1] - 1, p[2] - 1}
    BY <1>3, <1>5
  <2>2. PICK i, j \in 1..n : i = p[1] /\ j = p[2] /\ {giant[i], giant[j]} \in E
    <3>1. p[1] \in 1..n /\ p[2] \in 1..n /\ {giant[p[1]], giant[p[2]]} \in E
      BY <2>1
    <3> QED BY <3>1
  <2>3. {x, y} = {i - 1, j - 1}
    BY <2>1, <2>2
  <2>4. \/ x = i - 1 /\ y = j - 1
        \/ x = j - 1 /\ y = i - 1
    BY <2>3
  <2>5. \/ x + 1 = i /\ y + 1 = j
        \/ x + 1 = j /\ y + 1 = i
    BY <2>4
  <2>6. {giant[i], giant[j]} = {giant[j], giant[i]}
    OBVIOUS
  <2> QED BY <2>2, <2>5, <2>6
<1> QED BY <1>4, <1>5

LEMMA RemappedMeshed ==
  ASSUME NEW E \in Graph, NEW s \in Vertex, NEW giant, Lists(giant, Reach(E, s))
  PROVE  Meshed(Len(giant), Remapped(E, giant))
<1> DEFINE F == Remapped(E, giant)
           R == Reach(E, s)
<1>1. PICK n \in Nat : n = Len(giant)
  BY ListLength
<1>2. R \in SUBSET Vertex /\ s \in R /\ Closed(E, R)
  BY ReachLeast
<1>3. n \in 1..N /\ 0..(n - 1) \subseteq Vertex /\ 0 \in 0..(n - 1)
  <2>1. n = Cardinality(R) /\ IsFiniteSet(R)
    BY <1>1, ListLength
  <2>2. n \in 0..N /\ n # 0
    BY <1>2, <2>1, VertexFacts, FS_EmptySet
  <2> QED BY <2>2, VertexFacts DEF Vertex
<1>4. \A x, y \in 0..(n - 1) : {x, y} \in F <=> {giant[x + 1], giant[y + 1]} \in E
  BY <1>1, <1>2, RemappedEdges
<1>5. /\ \A i \in 1..n : giant[i] \in R
      /\ \A i, j \in 1..n : giant[i] = giant[j] => i = j
      /\ \A v \in R : \E i \in 1..n : giant[i] = v
  <2>1. giant \in Seq(R) /\ DOMAIN giant = 1..n
    BY <1>1, ListLength DEF Lists
  <2> QED BY <2>1 DEF Lists
<1> HIDE DEF F, R
<1>6. \A x \in 0..(n - 1) : x + 1 \in 1..n
  OBVIOUS
<1>7. \A i \in 1..n : i - 1 \in 0..(n - 1) /\ (i - 1) + 1 = i
  OBVIOUS
<1>8. Closed(F, 0..(n - 1))
  <2> SUFFICES ASSUME NEW x \in 0..(n - 1), NEW y \in Vertex, {x, y} \in F
               PROVE  y \in 0..(n - 1)
    BY DEF Closed, Neighbours
  <2>1. PICK p \in {q \in (1..n) \X (1..n) : {giant[q[1]], giant[q[2]]} \in E} :
          {x, y} = {p[1] - 1, p[2] - 1}
    BY <1>1 DEF F, Remapped
  <2>2. p[1] - 1 \in 0..(n - 1) /\ p[2] - 1 \in 0..(n - 1)
    BY <1>7
  <2> QED BY <2>1, <2>2
<1>9. Reach(F, 0) \subseteq 0..(n - 1)
  BY <1>3, <1>8, ReachLeast
\* What the vertices reached from 0 stand for is closed, so all of R.
<1> DEFINE C == {v \in R : \E x \in Reach(F, 0) : x \in 0..(n - 1) /\ giant[x + 1] = v}
<1>10. Closed(E, C)
  <2> SUFFICES ASSUME NEW v \in C, NEW w \in Neighbours(E, v) PROVE w \in C
    BY DEF Closed
  <2>1. PICK x \in 0..(n - 1) : x \in Reach(F, 0) /\ giant[x + 1] = v
    OBVIOUS
  <2>2. w \in R /\ {v, w} \in E
    BY <1>2 DEF Closed, Neighbours
  <2>3. PICK i \in 1..n : giant[i] = w
    BY <1>5, <2>2
  <2>4. PICK y \in 0..(n - 1) : giant[y + 1] = w
    BY <1>7, <2>3
  <2>5. {x, y} \in F
    BY <1>4, <2>1, <2>2, <2>4
  <2>6. y \in Vertex /\ x \in Vertex
    BY <1>3
  <2>7. y \in Neighbours(F, x)
    BY <2>5, <2>6 DEF Neighbours
  <2>8. y \in Reach(F, 0)
    BY <1>3, <2>1, <2>7, ReachLeast DEF Closed
  <2> QED BY <2>2, <2>4, <2>8
<1>11. giant[1] \in C
  <2>1. 1 \in 1..n /\ 0 + 1 = 1 /\ 0 \in Vertex
    BY <1>3
  <2>2. 0 \in Reach(F, 0)
    BY <2>1, ReachLeast
  <2>3. giant[0 + 1] = giant[1] /\ giant[1] \in R
    BY <1>5, <2>1
  <2> QED BY <1>3, <2>2, <2>3
<1>12. R \subseteq C
  <2>1. giant[1] \in Reach(E, s) /\ giant[1] \in C
    BY <1>11 DEF R
  <2> HIDE DEF C
  <2>2. giant[1] \in Vertex /\ Reach(E, giant[1]) = R
    BY <2>1, ReachMutual DEF R
  <2> QED BY <1>10, <2>1, <2>2, ReachLeast
<1>13. 0..(n - 1) \subseteq Reach(F, 0)
  <2> SUFFICES ASSUME NEW y \in 0..(n - 1) PROVE y \in Reach(F, 0)
    OBVIOUS
  <2>1. giant[y + 1] \in C
    BY <1>5, <1>6, <1>12
  <2>2. PICK x \in 0..(n - 1) : x \in Reach(F, 0) /\ giant[x + 1] = giant[y + 1]
    BY <2>1
  <2>3. x + 1 = y + 1
    BY <1>5, <1>6, <2>2
  <2>4. x = y
    BY <2>3
  <2> QED BY <2>2, <2>4
<1>14. Reach(F, 0) = 0..(n - 1)
  BY <1>9, <1>13
<1> QED BY <1>1, <1>3, <1>14 DEF Meshed, F

LEMMA RemappedGraph ==
  ASSUME NEW E \in Graph, NEW giant, NEW R \in SUBSET Vertex, Lists(giant, R)
  PROVE  \A e \in Remapped(E, giant) :
           \E x, y \in 0..(Len(giant) - 1) : /\ e = {x, y} /\ x # y
                                             /\ x \in Vertex /\ y \in Vertex
                                             /\ {giant[x + 1], giant[y + 1]} \in E
<1>1. PICK n \in Nat : n = Len(giant)
  BY ListLength
<1>2. 0..(n - 1) \subseteq Vertex
  <2>1. n = Cardinality(R)
    BY <1>1, ListLength
  <2>2. n \in 0..N
    BY <2>1, VertexFacts
  <2> QED BY <2>2, VertexFacts DEF Vertex
<1> SUFFICES ASSUME NEW e \in Remapped(E, giant)
             PROVE  \E x, y \in 0..(n - 1) : /\ e = {x, y} /\ x # y
                                             /\ x \in Vertex /\ y \in Vertex
                                             /\ {giant[x + 1], giant[y + 1]} \in E
  BY <1>1
<1>3. PICK p \in {q \in (1..n) \X (1..n) : {giant[q[1]], giant[q[2]]} \in E} :
        e = {p[1] - 1, p[2] - 1}
  BY <1>1 DEF Remapped
<1>4. PICK i, j \in 1..n : i = p[1] /\ j = p[2] /\ {giant[i], giant[j]} \in E
  <2>1. p[1] \in 1..n /\ p[2] \in 1..n /\ {giant[p[1]], giant[p[2]]} \in E
    BY <1>3
  <2> QED BY <2>1
<1>5. giant[i] # giant[j]
  BY <1>4, NoLoops
<1>6. PICK x, y \in 0..(n - 1) : x = i - 1 /\ y = j - 1 /\ x + 1 = i /\ y + 1 = j
  OBVIOUS
<1>7. e = {x, y}
  BY <1>3, <1>4, <1>6
<1>8. x # y
  BY <1>5, <1>6
<1> QED BY <1>2, <1>4, <1>6, <1>7, <1>8

LEMMA RemappedCount ==
  ASSUME NEW E \in Graph, NEW giant, NEW R \in SUBSET Vertex, Lists(giant, R)
  PROVE  Cardinality(Remapped(E, giant)) = Cardinality({e \in E : e \subseteq R})
<1> DEFINE F == Remapped(E, giant)
           G == {e \in E : e \subseteq R}
           f == [e \in F |-> {giant[x + 1] : x \in e}]
<1>1. PICK n \in Nat : n = Len(giant)
  BY ListLength
<1>2. /\ \A i \in 1..n : giant[i] \in R
      /\ \A i, j \in 1..n : giant[i] = giant[j] => i = j
      /\ \A v \in R : \E i \in 1..n : giant[i] = v
  <2>1. giant \in Seq(R) /\ DOMAIN giant = 1..n
    BY <1>1, ListLength DEF Lists
  <2> QED BY <2>1 DEF Lists
<1>3. \A e \in F : \E x, y \in 0..(n - 1) : /\ e = {x, y} /\ x # y
                                            /\ x \in Vertex /\ y \in Vertex
                                            /\ {giant[x + 1], giant[y + 1]} \in E
  BY <1>1, RemappedGraph
<1>4. \A x, y \in 0..(n - 1) : {x, y} \in F <=> {giant[x + 1], giant[y + 1]} \in E
  BY <1>1, RemappedEdges
<1>5. \A e \in F : f[e] = {giant[x + 1] : x \in e}
  OBVIOUS
<1>6. f = [e \in F |-> f[e]]
  OBVIOUS
<1> HIDE DEF F, f
<1>7. \A x \in 0..(n - 1) : x + 1 \in 1..n
  OBVIOUS
<1>8. \A i \in 1..n : i - 1 \in 0..(n - 1) /\ (i - 1) + 1 = i
  OBVIOUS
<1>9. ASSUME NEW e \in F PROVE f[e] \in G
  <2>1. PICK x, y \in 0..(n - 1) : e = {x, y} /\ {giant[x + 1], giant[y + 1]} \in E
    BY <1>3
  <2>2. f[e] = {giant[x + 1], giant[y + 1]}
    BY <1>5, <2>1
  <2> QED BY <1>2, <1>7, <2>1, <2>2
<1>10. ASSUME NEW e \in F PROVE e \subseteq 0..(n - 1) /\ e \subseteq Vertex
  <2>1. PICK x, y \in 0..(n - 1) : e = {x, y} /\ x \in Vertex /\ y \in Vertex
    BY <1>3
  <2> QED BY <2>1
<1>11. ASSUME NEW d \in F, NEW e \in F, f[d] \subseteq f[e] PROVE d \subseteq e
  <2> SUFFICES ASSUME NEW x \in d PROVE x \in e
    OBVIOUS
  <2>1. giant[x + 1] \in f[e]
    BY <1>5, <1>11
  <2>2. PICK y \in e : giant[x + 1] = giant[y + 1]
    BY <1>5, <2>1
  <2>3. x \in 0..(n - 1) /\ y \in 0..(n - 1)
    BY <1>10, <2>2
  <2>4. x + 1 = y + 1
    BY <1>2, <1>7, <2>2, <2>3
  <2>5. x = y
    BY <2>3, <2>4
  <2> QED BY <2>2, <2>5
<1>12. \A d, e \in F : f[d] = f[e] => d = e
  BY <1>11
<1>13. ASSUME NEW e \in G PROVE \E d \in F : f[d] = e
  <2>1. PICK a, b \in Vertex : e = {a, b}
    BY EdgeFacts
  <2>2. a \in R /\ b \in R /\ {a, b} \in E
    BY <2>1
  <2>3. PICK i, j \in 1..n : giant[i] = a /\ giant[j] = b
    BY <1>2, <2>2
  <2>4. PICK x, y \in 0..(n - 1) : giant[x + 1] = a /\ giant[y + 1] = b
    BY <1>8, <2>3
  <2>5. {x, y} \in F
    BY <1>4, <2>2, <2>4
  <2>6. f[{x, y}] = {giant[x + 1], giant[y + 1]}
    BY <1>5, <2>5
  <2> QED BY <2>1, <2>4, <2>5, <2>6
<1>14. IsFiniteSet(F)
  <2>1. F \in SUBSET SUBSET Vertex
    BY <1>10
  <2>2. IsFiniteSet(SUBSET Vertex)
    BY VertexFacts, FS_SUBSET
  <2> QED BY <2>1, <2>2, FS_Subset
<1> HIDE DEF G
<1>15. f \in Surjection(F, G) /\ f \in Injection(F, G)
  <2>1. f \in [F -> G]
    BY <1>6, <1>9
  <2> QED BY <1>12, <1>13, <2>1 DEF Surjection, Injection, IsInjective
<1>16. Cardinality(G) = Cardinality(F)
  BY <1>14, <1>15, FS_Surjection
<1> QED BY <1>16 DEF F, G

-----------------------------------------------------------------------------
(***************************************************************************)
(* Build, through its whole loop.                                          *)
(***************************************************************************)
BuildTypes == attempts \in Nat /\ drawn \in BOOLEAN /\ edges \in Graph

\* What Build returns is fixed then, and is this.
Giant(n, E) ==
  \E s \in Vertex :
    /\ n = Cardinality(Reach(edges, s))
    /\ \A t \in Vertex : Cardinality(Reach(edges, t)) <= n
    /\ Cardinality(E) = Cardinality({e \in edges : e \subseteq Reach(edges, s)})
MeshInv ==
  mesh # Unbuilt =>
    /\ ~drawn
    /\ Meshed(mesh.nodes, mesh.edges)
    /\ Giant(mesh.nodes, mesh.edges)
    /\ mesh.stats = ComputePathStats(mesh.nodes, mesh.edges)

BuildStep == Iterate \/ UNCHANGED buildVars

LEMMA BuildTypesStep == BuildTypes /\ BuildStep => BuildTypes'
<1> SUFFICES ASSUME BuildTypes, BuildStep PROVE BuildTypes'
  OBVIOUS
<1>1. CASE UNCHANGED buildVars
  BY <1>1 DEF BuildTypes, buildVars
<1>2. CASE \E E \in Graph : Draw(E)
  BY <1>2 DEF Draw, BuildTypes
<1>3. CASE Checked
  BY <1>3 DEF Checked, BuildTypes
<1>4. CASE FallBack
  BY <1>4 DEF FallBack, BuildTypes
<1>5. RetryDisconnected \/ RetryBottleneck \/ Accept => Checked
  BY DEF RetryDisconnected, RetryBottleneck, Accept, Analyzed
<1> QED BY <1>1, <1>2, <1>3, <1>4, <1>5 DEF BuildStep, Iterate

LEMMA EdgesInside ==
  ASSUME NEW E \in Graph
  PROVE  {e \in E : e \subseteq Vertex} = E
BY EdgeFacts

\* A component with all vertices, or one that has been renumbered.
LEMMA WholeMesh ==
  ASSUME edges \in Graph, Len(LargestConnectedComponent(edges)) = N
  PROVE  Meshed(N, edges) /\ Giant(N, edges)
<1>1. PICK s \in Vertex : IsLargest(edges, LargestConnectedComponent(edges), s)
  BY LargestIsLargest
<1>2. Cardinality(Reach(edges, s)) = N
  BY <1>1, ComponentSize DEF IsLargest
<1>3. Reach(edges, s) = Vertex
  <2>1. Reach(edges, s) \in SUBSET Vertex
    BY ReachLeast
  <2> QED BY <1>2, <2>1, VertexFacts, FS_Subset
<1>4. Reach(edges, 0) = Vertex
  BY <1>3, VertexFacts, ReachMutual
<1>5. Meshed(N, edges)
  BY <1>4, VertexFacts DEF Meshed, Vertex
<1>6. Giant(N, edges)
  <2>1. {e \in edges : e \subseteq Reach(edges, s)} = edges
    BY <1>3, EdgesInside
  <2>2. \A t \in Vertex : Cardinality(Reach(edges, t)) <= N
    BY <1>1, <1>2 DEF IsLargest
  <2> QED BY <1>2, <2>1, <2>2 DEF Giant
<1> QED BY <1>5, <1>6

LEMMA PartOfMesh ==
  ASSUME edges \in Graph
  PROVE  LET giant == LargestConnectedComponent(edges)
         IN  /\ Len(giant) \in 1..N
             /\ Meshed(Len(giant), Remapped(edges, giant))
             /\ Giant(Len(giant), Remapped(edges, giant))
<1> DEFINE giant == LargestConnectedComponent(edges)
<1>1. PICK s \in Vertex : IsLargest(edges, giant, s)
  BY LargestIsLargest
<1> HIDE DEF giant
<1>2. giant = Component(edges, s)
  BY <1>1 DEF IsLargest
<1>3. Lists(giant, Reach(edges, s)) /\ Reach(edges, s) \in SUBSET Vertex
  BY <1>2, BfsExact, ReachLeast
<1>4. Len(giant) = Cardinality(Reach(edges, s)) /\ Len(giant) \in 1..N
  BY <1>2, ComponentSize
<1>5. Meshed(Len(giant), Remapped(edges, giant))
  BY <1>3, RemappedMeshed
<1>6. Cardinality(Remapped(edges, giant)) =
        Cardinality({e \in edges : e \subseteq Reach(edges, s)})
  BY <1>3, RemappedCount
<1>7. Giant(Len(giant), Remapped(edges, giant))
  BY <1>1, <1>4, <1>6 DEF Giant, IsLargest
<1> QED BY <1>4, <1>5, <1>7 DEF giant

LEMMA MeshStep == BuildTypes /\ MeshInv /\ BuildStep => MeshInv'
<1> SUFFICES ASSUME BuildTypes, MeshInv, BuildStep, mesh' # Unbuilt
             PROVE  /\ ~drawn'
                    /\ Meshed(mesh'.nodes, mesh'.edges)
                    /\ Giant(mesh.nodes, mesh.edges)'
                    /\ mesh'.stats = ComputePathStats(mesh'.nodes, mesh'.edges)
  BY DEF MeshInv
<1>1. CASE UNCHANGED buildVars
  BY <1>1 DEF buildVars, MeshInv, Giant
<1>2. CASE \E E \in Graph : Draw(E)
  BY <1>2 DEF Draw
<1>3. CASE RetryDisconnected
  BY <1>3 DEF RetryDisconnected, Checked, MeshInv
<1>4. CASE RetryBottleneck
  BY <1>4 DEF RetryBottleneck, Analyzed, Checked, MeshInv
<1>5. CASE Accept
  <2>1. edges' = edges /\ ~drawn' /\ mesh' = Result(N, edges, artCount', 0) /\ Connected
    BY <1>5 DEF Accept, Analyzed, Checked
  <2>2. /\ mesh'.nodes = N /\ mesh'.edges = edges
        /\ mesh'.stats = ComputePathStats(N, edges)
    BY <2>1 DEF Result
  <2>3. Meshed(N, edges) /\ Giant(N, edges)
    BY <2>1, WholeMesh DEF Connected, BuildTypes
  <2> QED BY <2>1, <2>2, <2>3 DEF Giant
<1>6. CASE FallBack
  <2> DEFINE giant == LargestConnectedComponent(edges)
             E == IF N - Len(giant) > 0 THEN Remapped(edges, giant) ELSE edges
  <2>1. /\ edges' = edges /\ ~drawn'
        /\ mesh' = Result(Len(giant), E, artCount, N - Len(giant))
    BY <1>6 DEF FallBack, BuildTypes
  <2>2. /\ mesh'.nodes = Len(giant) /\ mesh'.edges = E
        /\ mesh'.stats = ComputePathStats(Len(giant), E)
    BY <2>1 DEF Result
  <2>3. /\ Len(giant) \in 1..N
        /\ Meshed(Len(giant), Remapped(edges, giant))
        /\ Giant(Len(giant), Remapped(edges, giant))
    BY PartOfMesh DEF BuildTypes
  <2>4. Len(giant) = N => Meshed(N, edges) /\ Giant(N, edges)
    BY WholeMesh DEF BuildTypes
  <2>5. Meshed(Len(giant), E) /\ Giant(Len(giant), E)
    <3> HIDE DEF giant
    <3>1. N - Len(giant) > 0 \/ Len(giant) = N
      BY <2>3, VertexFacts
    <3>2. CASE N - Len(giant) > 0
      BY <2>3, <3>2
    <3>3. CASE Len(giant) = N
      <4>1. ~(N - Len(giant) > 0)
        BY <3>3, VertexFacts
      <4> QED BY <2>4, <3>3, <4>1
    <3> QED BY <3>1, <3>2, <3>3
  <2> HIDE DEF giant, E
  <2> QED BY <2>1, <2>2, <2>5 DEF Giant
<1> QED BY <1>1, <1>2, <1>3, <1>4, <1>5, <1>6 DEF BuildStep, Iterate

LEMMA MeshSays ==
  BuildTypes /\ MeshInv => BuiltMeshIsGiantComponent /\ PathStatsExact
<1> SUFFICES ASSUME BuildTypes, MeshInv, mesh # Unbuilt
             PROVE  BuiltMeshIsGiantComponent /\ PathStatsExact
  BY DEF BuiltMeshIsGiantComponent, PathStatsExact
<1>1. /\ Meshed(mesh.nodes, mesh.edges)
      /\ Giant(mesh.nodes, mesh.edges)
      /\ mesh.stats = ComputePathStats(mesh.nodes, mesh.edges)
  BY DEF MeshInv
<1>2. BuiltMeshIsGiantComponent
  <2>1. 0 \in 0..(mesh.nodes - 1)
    BY <1>1 DEF Meshed
  <2>2. Reach(mesh.edges, 0) = 0..(mesh.nodes - 1)
    BY <1>1 DEF Meshed
  <2> QED BY <1>1, <2>1, <2>2 DEF BuiltMeshIsGiantComponent, Giant
<1>3. PathStatsExact
  <2> DEFINE d == [p \in Pairs(mesh.nodes) |-> Distance(mesh.edges, p[1], p[2])]
  <2>1. mesh.stats = Stats(d)
    BY <1>1, StatsExact
  <2>2. Stats(d) = [diameter    |-> Max({0} \cup {d[p] : p \in Pairs(mesh.nodes)}),
                    distanceSum |-> MapThenSumSet(LAMBDA p : d[p], Pairs(mesh.nodes)),
                    pairCount   |-> Cardinality(Pairs(mesh.nodes))]
    BY DEF Stats
  <2> QED BY <2>1, <2>2 DEF PathStatsExact, Pairs
<1> QED BY <1>2, <1>3

-----------------------------------------------------------------------------
(***************************************************************************)
(* The reader of configurations, from line to line.                        *)
(***************************************************************************)
LineShapes(lines) ==
  /\ lines \in Seq(Lines)
  /\ \A i \in DOMAIN lines :
       \/ lines[i].skipped = TRUE
       \/ lines[i].skipped = FALSE /\ lines[i].indented \in BOOLEAN

LEMMA FilesShaped ==
  ASSUME NEW lines \in BoundedSeq(Lines, MaxLines)
  PROVE  LineShapes(lines)
<1>1. PICK m \in 0..MaxLines : lines \in [1..m -> Lines]
  BY DEF BoundedSeq, SeqOf
<1>2. m \in Nat
  BY LinesAssumption
<1>3. lines \in Seq(Lines) /\ \A i \in DOMAIN lines : lines[i] \in Lines
  BY <1>1, <1>2
<1>4. ASSUME NEW line \in Lines
      PROVE  \/ line.skipped = TRUE
             \/ line.skipped = FALSE /\ line.indented \in BOOLEAN
  <2>1. CASE line = Skipped
    BY <2>1 DEF Skipped
  <2>2. CASE line # Skipped
    <3>1. line = Line(line.indented, line.key, line.value) /\ line.indented \in BOOLEAN
      BY <2>2, LinesAssumption
    <3>2. PICK a, b, c : line = Line(a, b, c)
      BY <3>1
    <3>3. line.skipped = FALSE
      BY <3>2 DEF Line
    <3> QED BY <3>1, <3>3
  <2> QED BY <2>1, <2>2
<1> QED BY <1>3, <1>4 DEF LineShapes

\* A line that is not indented is the head of those below it.
IsHead(line) == ~line.skipped /\ ~line.indented
HeadsAbove(lines, i) == {j \in 1..(i - 1) : IsHead(lines[j])}

Nearest(H) == CHOOSE j \in H : \A k \in H : k <= j

LEMMA SectionForm ==
  ASSUME NEW lines, NEW i
  PROVE  SectionOf(lines, i) =
           IF HeadsAbove(lines, i) = {} THEN <<>>
           ELSE IF lines[Nearest(HeadsAbove(lines, i))].value = Empty
                THEN lines[Nearest(HeadsAbove(lines, i))].key ELSE <<>>
BY DEF SectionOf, HeadsAbove, IsHead, Nearest

LEMMA SectionStays ==
  ASSUME NEW lines, NEW i \in Nat \ {0}, ~IsHead(lines[i])
  PROVE  SectionOf(lines, i + 1) = SectionOf(lines, i)
<1>1. \A j : j \in 1..((i + 1) - 1) <=> j \in 1..(i - 1) \/ j = i
  OBVIOUS
<1>2. HeadsAbove(lines, i + 1) = HeadsAbove(lines, i)
  BY <1>1 DEF HeadsAbove
<1> QED BY <1>2, SectionForm

LEMMA SectionOpens ==
  ASSUME NEW lines, NEW i \in Nat \ {0}, IsHead(lines[i])
  PROVE  SectionOf(lines, i + 1) = IF lines[i].value = Empty THEN lines[i].key ELSE <<>>
<1> DEFINE H == HeadsAbove(lines, i + 1)
<1>0. SectionOf(lines, i + 1) =
        IF H = {} THEN <<>>
        ELSE IF lines[Nearest(H)].value = Empty THEN lines[Nearest(H)].key ELSE <<>>
  BY SectionForm
<1>1. i \in H /\ \A k \in H : k \in Nat /\ k <= i
  BY DEF HeadsAbove
<1> HIDE DEF H
<1>2. Nearest(H) = i
  <2>1. \A j \in H : (\A k \in H : k <= j) => j = i
    BY <1>1
  <2> QED BY <1>1, <2>1 DEF Nearest
<1>3. H # {}
  BY <1>1
<1> QED BY <1>0, <1>2, <1>3

\* What the first lines assign: no key but one of theirs has a value, and the
\* last of them to assign a key gives it its value.
IsMap(f) == f = [k \in DOMAIN f |-> f[k]]
Assigning(lines, i) == {j \in 1..i : Assigns(lines, j)}
IsLast(lines, i, j) ==
  /\ j \in Assigning(lines, i)
  /\ \A k \in Assigning(lines, i) : AssignedKey(lines, k) = AssignedKey(lines, j) => k <= j
ReadUpTo(lines, i, st) ==
  /\ st.section = SectionOf(lines, i + 1)
  /\ IsMap(st.values)
  /\ DOMAIN st.values = {AssignedKey(lines, j) : j \in Assigning(lines, i)}
  /\ \A j : IsLast(lines, i, j) => st.values[AssignedKey(lines, j)] = lines[j].value

LEMMA AssignFacts ==
  ASSUME NEW values, NEW key, NEW value
  PROVE  /\ DOMAIN Assign(values, key, value) = (DOMAIN values) \cup {key}
         /\ Assign(values, key, value)[key] = value
         /\ \A k \in DOMAIN values : k # key => Assign(values, key, value)[k] = values[k]
         /\ IsMap(Assign(values, key, value))
BY DEF Assign, IsMap

\* A line that assigns nothing leaves what the lines above it assigned.
LEMMA NothingAssigned ==
  ASSUME NEW lines, NEW i \in Nat \ {0}, ~Assigns(lines, i)
  PROVE  Assigning(lines, i) = Assigning(lines, i - 1)
<1>1. \A j : j \in 1..i <=> j \in 1..(i - 1) \/ j = i
  OBVIOUS
<1> QED BY <1>1 DEF Assigning

LEMMA KeyAssigned ==
  ASSUME NEW lines, NEW i \in Nat \ {0}, Assigns(lines, i), NEW st, NEW new,
         ReadUpTo(lines, i - 1, st), new.section = SectionOf(lines, i + 1),
         new.values = Assign(st.values, AssignedKey(lines, i), lines[i].value)
  PROVE  ReadUpTo(lines, i, new)
<1> DEFINE key(j) == AssignedKey(lines, j)
<1>1. \A j : j \in 1..i <=> j \in 1..(i - 1) \/ j = i
  OBVIOUS
<1>2. Assigning(lines, i) = Assigning(lines, i - 1) \cup {i}
  BY <1>1 DEF Assigning
<1>3. DOMAIN st.values = {key(j) : j \in Assigning(lines, i - 1)}
  BY DEF ReadUpTo
<1>4. PICK vs : vs = st.values
  OBVIOUS
<1>5. PICK ws : ws = new.values
  OBVIOUS
<1>6. ws = Assign(vs, key(i), lines[i].value)
  BY <1>4, <1>5
<1> HIDE DEF key
<1>7. /\ DOMAIN ws = (DOMAIN vs) \cup {key(i)}
      /\ ws[key(i)] = lines[i].value
      /\ \A k \in DOMAIN vs : k # key(i) => ws[k] = vs[k]
      /\ IsMap(ws)
  <2>1. PICK k0, v0 : k0 = key(i) /\ v0 = lines[i].value
    OBVIOUS
  <2>2. ws = Assign(vs, k0, v0)
    BY <1>6, <2>1
  <2>3. /\ DOMAIN ws = (DOMAIN vs) \cup {k0}
        /\ ws[k0] = v0
        /\ \A k \in DOMAIN vs : k # k0 => ws[k] = vs[k]
        /\ IsMap(ws)
    BY <2>2 DEF Assign, IsMap
  <2> QED BY <2>1, <2>3
<1>8. DOMAIN ws = {key(j) : j \in Assigning(lines, i)}
  BY <1>2, <1>3, <1>4, <1>7
<1>9. ASSUME NEW j, IsLast(lines, i, j) PROVE ws[key(j)] = lines[j].value
  <2>1. i \in Assigning(lines, i) /\ j \in Assigning(lines, i)
    BY <1>2, <1>9 DEF IsLast
  <2>2. CASE j = i
    BY <1>7, <2>2
  <2>3. CASE j # i
    <3>1. j \in Assigning(lines, i - 1) /\ j \in 1..(i - 1)
      BY <1>2, <2>1, <2>3 DEF Assigning
    <3>2. key(i) # key(j)
      <4>1. key(i) = key(j) => i <= j
        BY <1>9, <2>1 DEF IsLast, key
      <4> QED BY <3>1, <4>1
    <3>3. IsLast(lines, i - 1, j)
      BY <1>2, <1>9, <3>1 DEF IsLast
    <3>4. vs[key(j)] = lines[j].value
      BY <1>4, <3>3 DEF ReadUpTo, key
    <3>5. key(j) \in DOMAIN vs
      BY <1>3, <1>4, <3>1
    <3> QED BY <1>7, <3>2, <3>4, <3>5
  <2> QED BY <2>2, <2>3
<1> QED BY <1>5, <1>7, <1>8, <1>9 DEF ReadUpTo, key

LEMMA LineRead ==
  ASSUME NEW lines, LineShapes(lines), NEW i \in DOMAIN lines, NEW st,
         st = [section |-> st.section, values |-> st.values], ReadUpTo(lines, i - 1, st)
  PROVE  ReadUpTo(lines, i, ReadLine(st, lines[i]))
<1>1. i \in Nat \ {0} /\ (i - 1) + 1 = i
  BY DEF LineShapes
<1>2. st.section = SectionOf(lines, i)
  BY <1>1 DEF ReadUpTo
<1> DEFINE line == lines[i]
<1>3. CASE line.skipped = TRUE
  <2>1. ReadLine(st, line) = st
    BY <1>3 DEF ReadLine
  <2>2. ~IsHead(line) /\ ~Assigns(lines, i)
    BY <1>3 DEF IsHead, Assigns
  <2>3. SectionOf(lines, i + 1) = SectionOf(lines, i) /\ Assigning(lines, i) = Assigning(lines, i - 1)
    BY <1>1, <2>2, SectionStays, NothingAssigned
  <2> QED BY <1>1, <2>1, <2>3 DEF ReadUpTo, IsLast
<1>4. CASE line.skipped = FALSE /\ line.indented = TRUE
  <2>1. ReadLine(st, line) = [st EXCEPT !.values = Assign(@, st.section \o line.key, line.value)]
    BY <1>4 DEF ReadLine
  <2>2. ~IsHead(line) /\ Assigns(lines, i) /\ AssignedKey(lines, i) = st.section \o line.key
    BY <1>2, <1>4 DEF IsHead, Assigns, AssignedKey
  <2>3. SectionOf(lines, i + 1) = SectionOf(lines, i)
    BY <1>1, <2>2, SectionStays
  <2>4. PICK new : new = ReadLine(st, line)
    OBVIOUS
  <2>5. /\ new.section = st.section
        /\ new.values = Assign(st.values, AssignedKey(lines, i), line.value)
    BY <2>1, <2>2, <2>4
  <2>6. ReadUpTo(lines, i, new)
    BY <1>1, <1>2, <2>2, <2>3, <2>5, KeyAssigned
  <2> QED BY <2>4, <2>6
<1>5. CASE line.skipped = FALSE /\ line.indented = FALSE /\ line.value = Empty
  <2>1. ReadLine(st, line) = [st EXCEPT !.section = line.key]
    BY <1>5 DEF ReadLine
  <2>2. IsHead(line) /\ ~Assigns(lines, i)
    BY <1>5 DEF IsHead, Assigns
  <2>3. SectionOf(lines, i + 1) = line.key /\ Assigning(lines, i) = Assigning(lines, i - 1)
    BY <1>1, <1>5, <2>2, SectionOpens, NothingAssigned
  <2>4. PICK new : new = ReadLine(st, line)
    OBVIOUS
  <2>5. new.section = line.key /\ new.values = st.values
    BY <2>1, <2>4
  <2>6. ReadUpTo(lines, i, new)
    BY <1>1, <2>3, <2>5 DEF ReadUpTo, IsLast
  <2> QED BY <2>4, <2>6
<1>6. CASE line.skipped = FALSE /\ line.indented = FALSE /\ line.value # Empty
  <2>1. ReadLine(st, line) = [section |-> <<>>, values |-> Assign(st.values, line.key, line.value)]
    BY <1>6 DEF ReadLine
  <2>2. IsHead(line) /\ Assigns(lines, i) /\ AssignedKey(lines, i) = line.key
    BY <1>6 DEF IsHead, Assigns, AssignedKey
  <2>3. SectionOf(lines, i + 1) = <<>>
    BY <1>1, <1>6, <2>2, SectionOpens
  <2>4. PICK new : new = ReadLine(st, line)
    OBVIOUS
  <2>5. /\ new.section = <<>>
        /\ new.values = Assign(st.values, AssignedKey(lines, i), line.value)
    BY <2>1, <2>2, <2>4
  <2>6. ReadUpTo(lines, i, new)
    BY <1>1, <2>2, <2>3, <2>5, KeyAssigned
  <2> QED BY <2>4, <2>6
<1>7. \/ line.skipped = TRUE
      \/ line.skipped = FALSE /\ line.indented \in BOOLEAN
  BY DEF LineShapes
<1> QED BY <1>3, <1>4, <1>5, <1>6, <1>7

LEMMA NothingRead ==
  ASSUME NEW lines
  PROVE  ReadUpTo(lines, 0, [section |-> <<>>, values |-> <<>>])
<1>1. 1..(1 - 1) = {} /\ 1..0 = {} /\ 0 + 1 = 1
  OBVIOUS
<1>2. HeadsAbove(lines, 1) = {} /\ Assigning(lines, 0) = {}
  BY <1>1 DEF HeadsAbove, Assigning
<1>3. SectionOf(lines, 1) = <<>>
  BY <1>2, SectionForm
<1>4. IsMap(<<>>) /\ DOMAIN <<>> = {}
  BY DEF IsMap
<1> QED BY <1>1, <1>2, <1>3, <1>4 DEF ReadUpTo, IsLast

\* What is kept while lines are read.
Sections(lines) == {<<>>} \cup {lines[i].key : i \in DOMAIN lines}
KeysOf(lines) ==
  {lines[i].key : i \in DOMAIN lines}
    \cup {p[1] \o lines[p[2]].key : p \in Sections(lines) \X DOMAIN lines}
Maps(K, V) == UNION {[D -> V] : D \in SUBSET K}
Kept(lines) ==
  [section : Sections(lines),
   values  : Maps(KeysOf(lines), {lines[i].value : i \in DOMAIN lines})]

LEMMA AssignKept ==
  ASSUME NEW K, NEW V, NEW f \in Maps(K, V), NEW k \in K, NEW v \in V
  PROVE  Assign(f, k, v) \in Maps(K, V)
<1>1. PICK D \in SUBSET K : f \in [D -> V]
  BY DEF Maps
<1>2. Assign(f, k, v) \in [D \cup {k} -> V]
  BY <1>1 DEF Assign
<1>3. D \cup {k} \in SUBSET K
  OBVIOUS
<1> QED BY <1>2, <1>3 DEF Maps

LEMMA LineKept ==
  ASSUME NEW lines, LineShapes(lines), NEW i \in DOMAIN lines, NEW st \in Kept(lines)
  PROVE  ReadLine(st, lines[i]) \in Kept(lines)
<1> DEFINE line == lines[i]
           V == {lines[j].value : j \in DOMAIN lines}
<1>1. /\ line.key \in Sections(lines) /\ line.key \in KeysOf(lines)
      /\ line.value \in V /\ <<>> \in Sections(lines)
  BY DEF Sections, KeysOf
<1>2. st.section \in Sections(lines) /\ st.values \in Maps(KeysOf(lines), V)
  BY DEF Kept
<1>3. st.section \o line.key \in KeysOf(lines)
  <2>1. PICK p : p = <<st.section, i>>
    OBVIOUS
  <2>2. p \in Sections(lines) \X DOMAIN lines /\ p[1] = st.section /\ p[2] = i
    BY <1>2, <2>1
  <2> QED BY <2>2 DEF KeysOf
<1> HIDE DEF V
<1>4. /\ Assign(st.values, st.section \o line.key, line.value) \in Maps(KeysOf(lines), V)
      /\ Assign(st.values, line.key, line.value) \in Maps(KeysOf(lines), V)
  BY <1>1, <1>2, <1>3, AssignKept
<1>5. Kept(lines) = [section : Sections(lines), values : Maps(KeysOf(lines), V)]
  BY DEF Kept, V
<1>6. \/ line.skipped = TRUE
      \/ line.skipped = FALSE /\ line.indented = TRUE
      \/ line.skipped = FALSE /\ line.indented = FALSE /\ line.value = Empty
      \/ line.skipped = FALSE /\ line.indented = FALSE /\ line.value # Empty
  BY DEF LineShapes
<1>7. CASE line.skipped = TRUE
  BY <1>7 DEF ReadLine
<1>8. CASE line.skipped = FALSE /\ line.indented = TRUE
  <2>1. ReadLine(st, line) = [st EXCEPT !.values = Assign(@, st.section \o line.key, line.value)]
    BY <1>8 DEF ReadLine
  <2> QED BY <1>4, <1>5, <2>1
<1>9. CASE line.skipped = FALSE /\ line.indented = FALSE /\ line.value = Empty
  <2>1. ReadLine(st, line) = [st EXCEPT !.section = line.key]
    BY <1>9 DEF ReadLine
  <2> QED BY <1>1, <1>5, <2>1
<1>10. CASE line.skipped = FALSE /\ line.indented = FALSE /\ line.value # Empty
  <2>1. ReadLine(st, line) = [section |-> <<>>, values |-> Assign(st.values, line.key, line.value)]
    BY <1>10 DEF ReadLine
  <2> QED BY <1>1, <1>4, <1>5, <2>1
<1> QED BY <1>6, <1>7, <1>8, <1>9, <1>10

LEMMA FileRead ==
  ASSUME NEW lines, LineShapes(lines)
  PROVE  \E st : Load(lines) = st.values /\ ReadUpTo(lines, Len(lines), st)
<1> DEFINE D == DOMAIN lines
           start == [section |-> <<>>, values |-> <<>>]
           Loop(h) == [s \in SUBSET D |->
                         IF s = {} THEN start
                         ELSE LET x == Max(s) IN ReadLine(h[s \ {x}], lines[x])]
           result == CHOOSE h : h = Loop(h)
<1>1. Load(lines) = result[D].values
  BY DEF Load, FoldLeft, MapThenFoldSet
<1>2. D = 1..Len(lines) /\ Len(lines) \in Nat
  BY DEF LineShapes
<1>3. IsFiniteSet(D)
  BY <1>2, FS_Interval
<1>4. ASSUME NEW s \in SUBSET D, s # {} PROVE Max(s) \in s
  <2>1. IsFiniteSet(s)
    BY <1>3, FS_Subset
  <2>2. s \in SUBSET Nat
    BY <1>2
  <2>3. PICK m \in s : \A k \in s : k <= m
    BY <1>4, <2>1, <2>2, GreatestNatural
  <2>4. \A k \in s : m >= k
    BY <2>2, <2>3
  <2> QED BY <2>4 DEF Max
<1>5. start \in Kept(lines)
  <2> DEFINE M == Maps(KeysOf(lines), {lines[i].value : i \in DOMAIN lines})
  <2>1. <<>> \in [{} -> {lines[i].value : i \in DOMAIN lines}] /\ {} \in SUBSET KeysOf(lines)
    OBVIOUS
  <2>2. <<>> \in M
    BY <2>1 DEF Maps
  <2>3. <<>> \in Sections(lines)
    BY DEF Sections
  <2>4. Kept(lines) = [section : Sections(lines), values : M]
    BY DEF Kept
  <2> HIDE DEF M
  <2> QED BY <2>2, <2>3, <2>4
<1> HIDE DEF start
<1>6. \A i \in D : \A st \in Kept(lines) : ReadLine(st, lines[i]) \in Kept(lines)
  BY LineKept
<1>7. PICK h \in [SUBSET D -> Kept(lines)] : h = Loop(h)
  <2> DEFINE step == [i \in D |-> [m \in Kept(lines) |-> ReadLine(m, lines[i])]]
             pick == [s \in SUBSET D |-> Max(s)]
  <2>1. step \in [D -> [Kept(lines) -> Kept(lines)]]
    BY <1>6
  <2>2. Picks(pick, D)
    BY <1>4 DEF Picks
  <2>3. ASSUME NEW i \in D, NEW m \in Kept(lines) PROVE step[i][m] = ReadLine(m, lines[i])
    OBVIOUS
  <2>4. \A s \in SUBSET D : pick[s] = Max(s)
    OBVIOUS
  <2> HIDE DEF step, pick, D
  <2>5. PICK h \in [SUBSET D -> Kept(lines)] : Folded(h, D, start, step, pick)
    BY <1>3, <1>5, <2>1, <2>2, FoldHasValue
  <2>6. ASSUME NEW s \in SUBSET D
        PROVE  h[s] = IF s = {} THEN start ELSE ReadLine(h[s \ {Max(s)}], lines[Max(s)])
    <3>1. CASE s = {}
      BY <2>5, <3>1 DEF Folded
    <3>2. CASE s # {}
      <4>1. PICK x \in s : x = Max(s)
        BY <1>4, <3>2
      <4>2. h[s \ {x}] \in Kept(lines) /\ x \in D
        OBVIOUS
      <4>3. h[s] = step[x][h[s \ {x}]]
        BY <2>4, <2>5, <3>2, <4>1 DEF Folded
      <4> QED BY <2>3, <3>2, <4>1, <4>2, <4>3
    <3> QED BY <3>1, <3>2
  <2>7. h = Loop(h)
    BY <2>6
  <2> QED BY <2>7
<1>8. result = Loop(result)
  BY <1>7
<1>9. \A s \in SUBSET D :
        result[s] = IF s = {} THEN start ELSE ReadLine(result[s \ {Max(s)}], lines[Max(s)])
  BY <1>8
<1> HIDE DEF result, D
<1> DEFINE Good(n) == result[1..n] \in Kept(lines) /\ ReadUpTo(lines, n, result[1..n])
           P == {n \in Nat : n <= Len(lines) => Good(n)}
<1>10. 0 \in P
  <2>1. 1..0 = {}
    OBVIOUS
  <2>2. result[1..0] = start
    BY <1>9, <2>1
  <2> QED BY <1>5, <2>2, NothingRead DEF start
<1>11. ASSUME NEW n \in P PROVE n + 1 \in P
  <2> SUFFICES ASSUME n + 1 <= Len(lines) PROVE Good(n + 1)
    OBVIOUS
  <2>1. PICK i \in D : i = n + 1 /\ i - 1 = n
    BY <1>2
  <2>2. Good(n)
    BY <1>2
  <2>3. /\ 1..i \in SUBSET D /\ 1..i # {} /\ (1..i) \ {i} = 1..n
        /\ \A k \in 1..i : k <= i /\ k \in Int
    BY <1>2, <2>1
  <2>4. Max(1..i) = i
    <3>1. Max(1..i) \in 1..i
      BY <1>4, <2>3
    <3>2. i \in 1..i /\ \A k \in 1..i : i >= k
      BY <1>2, <2>1
    <3>3. \A m \in 1..i : (\A k \in 1..i : m >= k) => m = i
      BY <1>2, <2>1
    <3> QED BY <3>2, <3>3 DEF Max
  <2>5. PICK st : st = result[1..n]
    OBVIOUS
  <2>6. result[1..i] = ReadLine(st, lines[i])
    BY <1>9, <2>3, <2>4, <2>5
  <2>7. st \in Kept(lines) /\ ReadUpTo(lines, i - 1, st)
    BY <2>1, <2>2, <2>5
  <2>8. st = [section |-> st.section, values |-> st.values]
    BY <2>7 DEF Kept
  <2>9. ReadUpTo(lines, i, ReadLine(st, lines[i]))
    BY <2>7, <2>8, LineRead DEF D
  <2>10. ReadLine(st, lines[i]) \in Kept(lines)
    BY <1>6, <2>7
  <2> QED BY <2>1, <2>6, <2>9, <2>10
<1>12. Len(lines) \in P
  <2>1. P \in SUBSET Nat
    OBVIOUS
  <2> HIDE DEF P
  <2>2. P = Nat
    BY <1>10, <1>11, <2>1, Induction
  <2> QED BY <1>2, <2>2
<1>13. ReadUpTo(lines, Len(lines), result[D])
  BY <1>2, <1>12
<1> QED BY <1>1, <1>13

\* What a key was assigned last, whatever the lines.
LEMMA ConfigRead ==
  ASSUME NEW lines, LineShapes(lines)
  PROVE  Load(lines) = LastAssignment(lines)
<1> DEFINE key(j) == AssignedKey(lines, j)
           A == Assigning(lines, Len(lines))
           LastOf(k) == CHOOSE i \in A : key(i) = k /\ \A j \in A : key(j) = k => j <= i
<1>1. PICK st : Load(lines) = st.values /\ ReadUpTo(lines, Len(lines), st)
  BY FileRead
<1>2. DOMAIN lines = 1..Len(lines) /\ Len(lines) \in Nat
  BY DEF LineShapes
<1>3. A = {i \in DOMAIN lines : Assigns(lines, i)}
  BY <1>2 DEF Assigning
<1>4. LastAssignment(lines) = [k \in {key(i) : i \in A} |-> lines[LastOf(k)].value]
  BY <1>3 DEF LastAssignment
<1>5. A \in SUBSET Nat /\ IsFiniteSet(A)
  <2>1. IsFiniteSet(1..Len(lines))
    BY <1>2, FS_Interval
  <2>2. A \subseteq 1..Len(lines)
    BY DEF Assigning
  <2>3. IsFiniteSet(A)
    BY <2>1, <2>2, FS_Subset
  <2>4. A \subseteq Nat
    BY <1>2, <2>2
  <2> QED BY <2>3, <2>4
<1>6. PICK vs : vs = st.values
  OBVIOUS
<1>7. /\ vs = [k \in DOMAIN vs |-> vs[k]]
      /\ DOMAIN vs = {key(i) : i \in A}
      /\ \A j : IsLast(lines, Len(lines), j) => vs[key(j)] = lines[j].value
  BY <1>1, <1>6 DEF ReadUpTo, IsMap
<1> HIDE DEF key, A
<1>8. ASSUME NEW k \in {key(i) : i \in A} PROVE vs[k] = lines[LastOf(k)].value
  <2> DEFINE T == {i \in A : key(i) = k}
  <2>1. T \in SUBSET Nat /\ T # {}
    BY <1>5
  <2>2. IsFiniteSet(T)
    <3>1. T \subseteq A
      OBVIOUS
    <3> QED BY <1>5, <3>1, FS_Subset
  <2>3. PICK m \in T : \A i \in T : i <= m
    <3> HIDE DEF T
    <3> QED BY <2>1, <2>2, GreatestNatural
  <2>4. LastOf(k) \in A /\ key(LastOf(k)) = k /\ \A j \in A : key(j) = k => j <= LastOf(k)
    BY <2>3
  <2> HIDE DEF LastOf
  <2>5. PICK i : i = LastOf(k)
    OBVIOUS
  <2>6. IsLast(lines, Len(lines), i) /\ key(i) = k
    BY <2>4, <2>5 DEF IsLast, A, key
  <2> QED BY <1>7, <2>5, <2>6
<1> HIDE DEF LastOf
<1>9. vs = [k \in {key(i) : i \in A} |-> lines[LastOf(k)].value]
  BY <1>7, <1>8
<1> QED BY <1>1, <1>4, <1>6, <1>9


-----------------------------------------------------------------------------
(***************************************************************************)
(* main, from reading the configuration to running the simulator.          *)
(***************************************************************************)
\* The phases that follow the opening of each log, and of the mesh.
AfterFirstLogs == {"build", "map", "observer", "reid", "running"}
AfterMesh == {"map", "observer", "reid", "running"}

\* A main that has not returned has every log open that it should have by
\* then, and its mesh once that was built; the file is there to be read.
MainInv ==
  /\ phase = "load" => file \in BoundedSeq(Lines, MaxLines)
  /\ opened \subseteq Logs
  /\ phase \in AfterFirstLogs => {"oracle", "observed"} \subseteq opened
  /\ phase \in {"observer", "reid", "running"} => "topology" \in opened
  /\ phase \in {"reid", "running"} => "traceback" \in opened
  /\ phase = "running" => "reid" \in opened
  /\ phase \in AfterMesh => mesh # Unbuilt
  /\ phase \in {"load", "probe", "open"} => mesh = Unbuilt

LEMMA MainStarts == StartInit => MainInv
BY DEF StartInit, Init, MainInv, AfterFirstLogs, AfterMesh

LEMMA MainKept == MainInv /\ [StartNext]_startVars => MainInv'
<1> SUFFICES ASSUME MainInv, [StartNext]_startVars PROVE MainInv'
  OBVIOUS
<1> USE DEF MainInv, AfterFirstLogs, AfterMesh
<1>1. CASE LoadFails
  BY <1>1 DEF LoadFails, Exit, vars, buildVars, Unbuilt
<1>2. CASE LoadConfig
  BY <1>2 DEF LoadConfig, Advance, buildVars, Unbuilt
<1>3. CASE ProbeFails
  BY <1>3 DEF ProbeFails, Exit, vars, buildVars, Unbuilt
<1>4. CASE ProbeWritable
  BY <1>4 DEF ProbeWritable, Advance, vars, buildVars, Unbuilt
<1>5. CASE OpenLogs
  <2>1. PICK ok \in SUBSET {"oracle", "observed"} : opened' = opened \cup ok
    BY <1>5 DEF OpenLogs, Opens
  <2>2. opened' \subseteq Logs
    BY <2>1 DEF Logs
  <2>3. mesh' = mesh
    BY <1>5 DEF OpenLogs, vars, buildVars
  <2>4. \/ phase = "open" /\ phase' = "build" /\ {"oracle", "observed"} \subseteq opened'
        \/ phase' = "exited"
    BY <1>5 DEF OpenLogs, Advance, Exit, FirstLogsOpen
  <2> QED BY <2>2, <2>3, <2>4 DEF Unbuilt
<1>6. CASE BuildMesh
  BY <1>6 DEF BuildMesh
<1>7. CASE MeshBuilt
  BY <1>7 DEF MeshBuilt, Advance, vars, buildVars, Unbuilt
<1>8. ASSUME NEW at, NEW log \in Logs, NEW to, OpenLog(at, log, to)
      PROVE  /\ opened \subseteq opened' /\ opened' \subseteq Logs /\ mesh' = mesh
             /\ phase = at
             /\ (phase' = to /\ log \in opened') \/ phase' = "exited"
  <2>1. PICK ok \in SUBSET {log} : opened' = opened \cup ok
    BY <1>8 DEF OpenLog, Opens
  <2>2. opened \subseteq opened' /\ opened' \subseteq Logs
    BY <2>1
  <2>3. mesh' = mesh
    BY <1>8 DEF OpenLog, vars, buildVars
  <2>4. phase = at /\ ((phase' = to /\ log \in opened') \/ phase' = "exited")
    BY <1>8 DEF OpenLog, Advance, Exit
  <2> QED BY <2>2, <2>3, <2>4
<1>9. {"topology", "traceback", "reid"} \subseteq Logs
  BY DEF Logs
<1>10. CASE OpenLog("map", "topology", "observer")
  BY <1>8, <1>9, <1>10 DEF Unbuilt
<1>11. CASE OpenLog("observer", "traceback", "reid")
  BY <1>8, <1>9, <1>11 DEF Unbuilt
<1>12. CASE OpenLog("reid", "reid", "running")
  BY <1>8, <1>9, <1>12 DEF Unbuilt
<1>13. CASE UNCHANGED startVars
  BY <1>13 DEF startVars, vars, buildVars, Unbuilt
<1> QED BY <1>1, <1>2, <1>3, <1>4, <1>5, <1>6, <1>7, <1>10, <1>11, <1>12, <1>13
        DEF StartNext

LEMMA MainBuilds == [StartNext]_startVars => BuildStep
<1> SUFFICES ASSUME [StartNext]_startVars PROVE BuildStep
  OBVIOUS
<1>1. CASE BuildMesh
  BY <1>1 DEF BuildMesh, Next, BuildStep
<1>2. CASE ~BuildMesh
  <2>1. UNCHANGED buildVars
    BY <1>2 DEF StartNext, startVars, vars, LoadFails, LoadConfig, ProbeFails, ProbeWritable,
                OpenLogs, MeshBuilt, OpenLog
  <2> QED BY <2>1 DEF BuildStep
<1> QED BY <1>1, <1>2

\* Whatever the sections, repetitions and stray lines of a configuration,
\* main reads out of it the last value each key was given.
THEOREM ConfigAsWritten == StartSpec => []ConfigIsLastAssignment
<1>1. MainInv => ConfigIsLastAssignment
  <2> SUFFICES ASSUME MainInv, phase = "load" PROVE Load(file) = LastAssignment(file)
    BY DEF ConfigIsLastAssignment
  <2>1. PICK lines \in BoundedSeq(Lines, MaxLines) : lines = file
    BY DEF MainInv
  <2>2. Load(lines) = LastAssignment(lines)
    BY FilesShaped, ConfigRead
  <2> QED BY <2>1, <2>2
<1> QED BY <1>1, MainStarts, MainKept, PTL DEF StartSpec

\* The simulator runs only with all five logs open and a mesh built.
THEOREM RunsLogged == StartSpec => []RunsWithEveryLog
<1>1. MainInv => RunsWithEveryLog
  BY DEF MainInv, RunsWithEveryLog, Logs, AfterMesh, AfterFirstLogs
<1> QED BY <1>1, MainStarts, MainKept, PTL DEF StartSpec


LEMMA MeshStarts == StartInit => BuildTypes /\ MeshInv
<1> SUFFICES ASSUME StartInit PROVE BuildTypes /\ MeshInv
  OBVIOUS
<1>1. attempts = 0 /\ drawn = FALSE /\ edges = {} /\ mesh = Unbuilt
  BY DEF StartInit, Init
<1>2. edges \in Graph
  BY <1>1 DEF Graph
<1> QED BY <1>1, <1>2 DEF BuildTypes, MeshInv

LEMMA MeshKept == BuildTypes /\ MeshInv /\ [StartNext]_startVars => BuildTypes' /\ MeshInv'
BY MainBuilds, BuildTypesStep, MeshStep

\* Whatever the draws, their number and the size of the network: the mesh the
\* simulation runs on is the whole of the last draw or its largest component,
\* renumbered without losing or adding an edge, and the victim is in it.
THEOREM MeshIsGiantComponent == StartSpec => []BuiltMeshIsGiantComponent
BY MeshStarts, MeshKept, MeshSays, PTL DEF StartSpec

\* The breadth-first searches find the shortest paths of that mesh: its
\* diameter and the mean length of its paths are what the statistics say.
THEOREM PathStatsOfMesh == StartSpec => []PathStatsExact
BY MeshStarts, MeshKept, MeshSays, PTL DEF StartSpec

-----------------------------------------------------------------------------
(***************************************************************************)
(* The articulation-point search.  Types first, and what its recursive     *)
(* functions stand for.                                                    *)
(***************************************************************************)
Loop == [children : Nat, st : Arrays]

LEMMA LowerFacts ==
  ASSUME NEW st \in Arrays, NEW u \in Vertex, NEW value \in Int
  PROVE  LET r == Lower(st, u, value)
         IN  /\ r \in Arrays
             /\ r.disc = st.disc /\ r.timer = st.timer /\ r.isArt = st.isArt
             /\ \A v \in Vertex : v # u => r.low[v] = st.low[v]
             /\ \A d \in Int : r.low[u] < d <=> st.low[u] < d \/ value < d
<1> DEFINE r == Lower(st, u, value)
<1>1. PICK low \in [Vertex -> Int] : low = st.low
  BY DEF Arrays
<1>2. PICK least \in Int : least = IF value < low[u] THEN value ELSE low[u]
  OBVIOUS
<1>3. r = [st EXCEPT !.low = [low EXCEPT ![u] = least]]
  BY <1>1, <1>2 DEF Lower
<1>4. [low EXCEPT ![u] = least] \in [Vertex -> Int]
  OBVIOUS
<1>5. r \in Arrays
  BY <1>3, <1>4 DEF Arrays
<1>6. /\ r.disc = st.disc /\ r.timer = st.timer /\ r.isArt = st.isArt
      /\ r.low = [low EXCEPT ![u] = least]
  BY <1>3 DEF Arrays
<1> HIDE DEF r
<1>7. \A v \in Vertex : v # u => r.low[v] = st.low[v]
  BY <1>1, <1>6
<1>8. r.low[u] = least
  BY <1>6
<1>9. \A d \in Int : least < d <=> low[u] < d \/ value < d
  BY <1>2
<1> QED BY <1>1, <1>5, <1>6, <1>7, <1>8, <1>9 DEF r

LEMMA EnterFacts ==
  ASSUME NEW c \in Call
  PROVE  LET r == Enter(c)
         IN  /\ r \in Arrays
             /\ r.isArt = c.st.isArt /\ r.timer = c.st.timer + 1
             /\ r.disc[c.u] = c.st.timer /\ r.low[c.u] = c.st.timer
             /\ \A v \in Vertex : v # c.u => /\ r.disc[v] = c.st.disc[v]
                                            /\ r.low[v] = c.st.low[v]
<1> DEFINE r == Enter(c)
<1>1. PICK st \in Arrays, u \in Vertex : st = c.st /\ u = c.u
  BY DEF Call
<1>2. PICK disc \in [Vertex -> Int], low \in [Vertex -> Int], timer \in Int :
        disc = st.disc /\ low = st.low /\ timer = st.timer
  BY DEF Arrays
<1>3. r = [st EXCEPT !.disc = [disc EXCEPT ![u] = timer], !.low = [low EXCEPT ![u] = timer],
                     !.timer = timer + 1]
  BY <1>1, <1>2 DEF Enter, Arrays
<1>4. /\ [disc EXCEPT ![u] = timer] \in [Vertex -> Int]
      /\ [low EXCEPT ![u] = timer] \in [Vertex -> Int]
  OBVIOUS
<1>5. r \in Arrays
  <2>1. st.isArt \in SUBSET Vertex /\ timer + 1 \in Int
    BY DEF Arrays
  <2>2. r = [disc |-> [disc EXCEPT ![u] = timer], low |-> [low EXCEPT ![u] = timer],
             timer |-> timer + 1, isArt |-> st.isArt]
    BY <1>3 DEF Arrays
  <2> HIDE DEF r
  <2> QED BY <1>4, <2>1, <2>2 DEF Arrays
<1>6. /\ r.disc = [disc EXCEPT ![u] = timer] /\ r.low = [low EXCEPT ![u] = timer]
      /\ r.timer = timer + 1 /\ r.isArt = st.isArt
  BY <1>3 DEF Arrays
<1> HIDE DEF r
<1> QED BY <1>1, <1>2, <1>5, <1>6 DEF r

\* A turn of the loop, by what it finds.
AfterChild(c, acc, v, below) ==
  LET lowered == Lower(below, c.u, below.low[v])
  IN  [children |-> acc.children + 1,
       st |-> IF Articulates(c, lowered, v, acc.children + 1)
              THEN [lowered EXCEPT !.isArt = @ \cup {c.u}] ELSE lowered]
AfterSeen(c, acc, v) == [acc EXCEPT !.st = Lower(acc.st, c.u, acc.st.disc[v])]

LEMMA VisitChild ==
  ASSUME NEW Dfs, NEW c, NEW acc, NEW v, acc.st.disc[v] = -1
  PROVE  Visit(Dfs, c, acc, v) =
           AfterChild(c, acc, v, Dfs[[u |-> v, parent |-> c.u, st |-> acc.st]])
BY DEF Visit, AfterChild

LEMMA VisitSeen ==
  ASSUME NEW Dfs, NEW c, NEW acc \in Loop, NEW v, acc.st.disc[v] # -1
  PROVE  Visit(Dfs, c, acc, v) = IF v # c.parent THEN AfterSeen(c, acc, v) ELSE acc
BY DEF Visit, AfterSeen, Loop

LEMMA VisitType ==
  ASSUME NEW Dfs \in [Call -> Arrays], NEW c \in Call, NEW acc \in Loop, NEW v \in Vertex
  PROVE  Visit(Dfs, c, acc, v) \in Loop
<1> DEFINE r == Visit(Dfs, c, acc, v)
           call == [u |-> v, parent |-> c.u, st |-> acc.st]
           below == Dfs[call]
           lowered == Lower(below, c.u, below.low[v])
<1>1. c.u \in Vertex /\ acc.st \in Arrays /\ acc.children \in Nat
  BY DEF Call, Loop
<1>2. CASE acc.st.disc[v] = -1
  <2>1. call \in Call
    BY <1>1 DEF Call
  <2>2. below \in Arrays
    BY <2>1
  <2> HIDE DEF call, below
  <2>3. below.low[v] \in Int
    BY <2>2 DEF Arrays
  <2>4. lowered \in Arrays
    BY <1>1, <2>2, <2>3, LowerFacts
  <2>5. r = [children |-> acc.children + 1,
             st |-> IF Articulates(c, lowered, v, acc.children + 1)
                    THEN [lowered EXCEPT !.isArt = @ \cup {c.u}] ELSE lowered]
    <3>1. r = AfterChild(c, acc, v, below)
      BY <1>2, VisitChild DEF below, call
    <3> QED BY <3>1 DEF AfterChild
  <2> HIDE DEF lowered
  <2>6. [lowered EXCEPT !.isArt = @ \cup {c.u}] \in Arrays
    BY <1>1, <2>4 DEF Arrays
  <2>7. PICK st \in Arrays : r = [children |-> acc.children + 1, st |-> st]
    BY <2>4, <2>5, <2>6
  <2> QED BY <1>1, <2>7 DEF Loop
<1>3. CASE acc.st.disc[v] # -1 /\ v # c.parent
  <2>1. r = [acc EXCEPT !.st = Lower(acc.st, c.u, acc.st.disc[v])]
    BY <1>3, VisitSeen DEF AfterSeen
  <2>2. acc.st.disc[v] \in Int
    BY <1>1 DEF Arrays
  <2>3. Lower(acc.st, c.u, acc.st.disc[v]) \in Arrays
    BY <1>1, <2>2, LowerFacts
  <2> QED BY <2>1, <2>3 DEF Loop
<1>4. CASE acc.st.disc[v] # -1 /\ v = c.parent
  BY <1>4, VisitSeen
<1> QED BY <1>2, <1>3, <1>4

\* The turns of a call's loop over the neighbours adj.
LoopStart(c) == [children |-> 0, st |-> Enter(c)]
LoopTurns(Dfs, c, adj, after) ==
  /\ after[0] = LoopStart(c)
  /\ \A i \in 1..Len(adj) : after[i] = Visit(Dfs, c, after[i - 1], adj[i])

LEMMA NeighbourList ==
  ASSUME NEW E, NEW u
  PROVE  /\ Lists(Ascending(Neighbours(E, u)), Neighbours(E, u))
         /\ Len(Ascending(Neighbours(E, u))) \in Nat
         /\ DOMAIN Ascending(Neighbours(E, u)) = 1..Len(Ascending(Neighbours(E, u)))
         /\ \A i \in 1..Len(Ascending(Neighbours(E, u))) :
              Ascending(Neighbours(E, u))[i] \in Neighbours(E, u)
         /\ Neighbours(E, u) \subseteq Vertex
<1>1. PICK S \in SUBSET Vertex : S = Neighbours(E, u)
  BY DEF Neighbours
<1>2. PICK s : s = Ascending(S)
  OBVIOUS
<1>3. Lists(s, S)
  BY <1>2, AscendingLists
<1>4. Len(s) \in Nat /\ DOMAIN s = 1..Len(s)
  BY <1>3, ListLength
<1>5. s \in Seq(S)
  BY <1>3 DEF Lists
<1> QED BY <1>1, <1>2, <1>3, <1>4, <1>5

LEMMA CalledUnfolds ==
  ASSUME NEW E, NEW Dfs \in [Call -> Arrays], NEW c \in Call
  PROVE  LET adj == Ascending(Neighbours(E, c.u))
         IN  \E after \in [0..Len(adj) -> Loop] :
               LoopTurns(Dfs, c, adj, after) /\ Called(E, Dfs, c) = after[Len(adj)].st
<1> DEFINE adj == Ascending(Neighbours(E, c.u))
           m == Len(adj)
           Is(f) == f = [i \in 0..m |-> IF i = 0 THEN LoopStart(c)
                                        ELSE Visit(Dfs, c, f[i - 1], adj[i])]
           after == CHOOSE f : Is(f)
<1>1. Called(E, Dfs, c) = after[m].st
  BY DEF Called, LoopStart
<1>2. m \in Nat /\ \A i \in 1..m : adj[i] \in Vertex
  BY NeighbourList
<1> HIDE DEF adj, m
<1>3. LoopStart(c) \in Loop
  BY EnterFacts DEF LoopStart, Loop
<1>4. PICK b \in [0..m -> Loop] : Is(b)
  <2> DEFINE step == [i \in 1..m |-> [acc \in Loop |-> Visit(Dfs, c, acc, adj[i])]]
  <2>1. step \in [1..m -> [Loop -> Loop]]
    BY <1>2, VisitType
  <2>2. \A i \in 1..m : \A acc \in Loop : step[i][acc] = Visit(Dfs, c, acc, adj[i])
    OBVIOUS
  <2> HIDE DEF step
  <2>3. PICK b \in [0..m -> Loop] : Stepped(b, m, LoopStart(c), step)
    BY <1>2, <1>3, <2>1, Recursion
  <2>4. ASSUME NEW i \in 0..m
        PROVE  b[i] = IF i = 0 THEN LoopStart(c) ELSE Visit(Dfs, c, b[i - 1], adj[i])
    <3>1. CASE i = 0
      BY <2>3, <3>1 DEF Stepped
    <3>2. CASE i # 0
      <4>1. i \in 1..m /\ i - 1 \in 0..m
        BY <1>2, <3>2
      <4> QED BY <2>2, <2>3, <3>2, <4>1 DEF Stepped
    <3> QED BY <3>1, <3>2
  <2>5. b = [i \in 0..m |-> b[i]]
    OBVIOUS
  <2>6. Is(b)
    BY <2>4, <2>5
  <2> QED BY <2>6
<1>5. Is(after)
  <2> HIDE DEF Is
  <2> QED BY <1>4
<1> HIDE DEF after
<1>6. /\ after = [i \in 0..m |-> after[i]]
      /\ \A i \in 0..m : after[i] = IF i = 0 THEN LoopStart(c)
                                    ELSE Visit(Dfs, c, after[i - 1], adj[i])
  BY <1>5
<1> HIDE DEF Is
<1>7. 0 \in 0..m /\ \A i \in 1..m : i \in 0..m /\ i # 0
  BY <1>2
<1>8. after[0] = LoopStart(c) /\ \A i \in 1..m : after[i] = Visit(Dfs, c, after[i - 1], adj[i])
  BY <1>6, <1>7
<1>9. \A i \in 0..m : after[i] \in Loop
  <2>1. \A i \in 1..m : after[i - 1] \in Loop => after[i] \in Loop
    BY <1>2, <1>8, VisitType
  <2>2. after[0] \in Loop
    BY <1>3, <1>8
  <2> QED BY <1>2, <2>1, <2>2, StaysIn
<1>10. after \in [0..m -> Loop]
  BY <1>6, <1>9
<1>11. LoopTurns(Dfs, c, adj, after)
  BY <1>8 DEF LoopTurns, m
<1> QED BY <1>1, <1>10, <1>11 DEF adj, m

LEMMA CalledType ==
  ASSUME NEW E, NEW Dfs \in [Call -> Arrays], NEW c \in Call
  PROVE  Called(E, Dfs, c) \in Arrays
<1> DEFINE m == Len(Ascending(Neighbours(E, c.u)))
<1>1. m \in Nat
  BY NeighbourList
<1>2. PICK after \in [0..m -> Loop] : Called(E, Dfs, c) = after[m].st
  BY CalledUnfolds
<1> HIDE DEF m
<1>3. after[m] \in Loop
  BY <1>1
<1> QED BY <1>2, <1>3 DEF Loop

\* The search nested to each depth.
Nothing == [c \in Call |-> c.st]
Nested(E, dfs) ==
  /\ dfs[0] = Nothing
  /\ \A depth \in 1..N : dfs[depth] = [c \in Call |-> Called(E, dfs[depth - 1], c)]

LEMMA DfsUnfolds ==
  ASSUME NEW E
  PROVE  \E dfs \in [0..N -> [Call -> Arrays]] :
           Nested(E, dfs) /\ ArticulationDfs(E) = dfs[N]
<1> DEFINE X == [Call -> Arrays]
           Is(f) == f = [depth \in 0..N |->
                           [c \in Call |-> IF depth = 0 THEN c.st ELSE Called(E, f[depth - 1], c)]]
           dfs == CHOOSE f : Is(f)
           Deeper(f) == [c \in Call |-> Called(E, f, c)]
<1>1. ArticulationDfs(E) = dfs[N]
  BY DEF ArticulationDfs
<1>2. N \in Nat
  BY VertexFacts
<1>3. Nothing \in X
  BY DEF Nothing, Call
<1>4. \A f \in X : Deeper(f) \in X
  BY CalledType
<1>5. PICK b \in [0..N -> X] : Is(b)
  <2> DEFINE step == [depth \in 1..N |-> [f \in X |-> Deeper(f)]]
  <2>1. step \in [1..N -> [X -> X]]
    BY <1>4
  <2>2. \A depth \in 1..N : \A f \in X : step[depth][f] = Deeper(f)
    OBVIOUS
  <2> HIDE DEF step, X, Deeper
  <2>3. PICK b \in [0..N -> X] : Stepped(b, N, Nothing, step)
    BY <1>2, <1>3, <2>1, Recursion
  <2>4. ASSUME NEW depth \in 0..N
        PROVE  b[depth] = [c \in Call |-> IF depth = 0 THEN c.st ELSE Called(E, b[depth - 1], c)]
    <3>1. CASE depth = 0
      BY <2>3, <3>1 DEF Stepped, Nothing
    <3>2. CASE depth # 0
      <4>1. depth \in 1..N /\ depth - 1 \in 0..N
        BY <1>2, <3>2
      <4>2. b[depth] = Deeper(b[depth - 1])
        BY <2>2, <2>3, <3>2, <4>1 DEF Stepped
      <4> QED BY <3>2, <4>2 DEF Deeper
    <3> QED BY <3>1, <3>2
  <2>5. b = [depth \in 0..N |-> b[depth]]
    OBVIOUS
  <2>6. Is(b)
    BY <2>4, <2>5
  <2> QED BY <2>6
<1>6. Is(dfs)
  <2> HIDE DEF Is
  <2> QED BY <1>5
<1> HIDE DEF dfs
<1>7. /\ dfs = [depth \in 0..N |-> dfs[depth]]
      /\ \A depth \in 0..N :
           dfs[depth] = [c \in Call |-> IF depth = 0 THEN c.st ELSE Called(E, dfs[depth - 1], c)]
  BY <1>6
<1> HIDE DEF Is
<1>8. 0 \in 0..N /\ \A depth \in 1..N : depth \in 0..N /\ depth # 0
  BY <1>2
<1>9. dfs[0] = Nothing
  BY <1>7, <1>8 DEF Nothing
<1>10. \A depth \in 1..N : dfs[depth] = Deeper(dfs[depth - 1])
  <2> SUFFICES ASSUME NEW depth \in 1..N PROVE dfs[depth] = Deeper(dfs[depth - 1])
    OBVIOUS
  <2>1. dfs[depth] = [c \in Call |-> IF depth = 0 THEN c.st ELSE Called(E, dfs[depth - 1], c)]
    BY <1>7, <1>8
  <2>2. depth # 0
    BY <1>8
  <2> QED BY <2>1, <2>2
<1>11. \A depth \in 0..N : dfs[depth] \in X
  <2> HIDE DEF X, Deeper
  <2>1. \A depth \in 1..N : dfs[depth - 1] \in X => dfs[depth] \in X
    BY <1>4, <1>10
  <2>2. dfs[0] \in X
    BY <1>3, <1>9
  <2> QED BY <1>2, <2>1, <2>2, StaysIn
<1>12. dfs \in [0..N -> X]
  BY <1>7, <1>11
<1> QED BY <1>1, <1>9, <1>10, <1>12 DEF Nested

-----------------------------------------------------------------------------
(***************************************************************************)
(* What a call of the search establishes.  C is sealed by x if whatever    *)
(* leaves C arrives at x; then the removal of x cuts C off.                *)
(***************************************************************************)
Seen(st) == {v \in Vertex : st.disc[v] # -1}

Sealed(E, x, C) == \A y \in C : Neighbours(E, y) \subseteq C \cup {x}

\* x cuts a part of W off from everything else.
CutsOff(E, W, x) == \E C \in SUBSET (W \ {x}) : C # {} /\ Sealed(E, x, C)

\* x separates W: it cuts a part off, and some of W is not in that part.
Separates(E, W, x) ==
  \E C \in SUBSET (W \ {x}) : C # {} /\ C # W \ {x} /\ Sealed(E, x, C)

\* The whole of W is reached from v without leaving W.
Spans(E, W, v) ==
  \A C \in SUBSET W : v \in C /\ (\A y \in C : Neighbours(E, y) \cap W \subseteq C) => C = W

\* An edge leads from W to a vertex discovered before time d.
Reaches(E, W, st, d) ==
  \E x \in W : \E w \in Seen(st) : w \in Neighbours(E, x) /\ st.disc[w] < d

Stamped(st) ==
  /\ st \in Arrays /\ st.timer \in Nat
  /\ \A v \in Vertex : st.disc[v] = -1 \/ st.disc[v] \in 0..(st.timer - 1)
  /\ st.isArt \subseteq Seen(st)

\* r is st but for the vertices in New.
Frame(st, r, New) ==
  \A v \in Vertex \ New : /\ r.disc[v] = st.disc[v]
                          /\ r.low[v] = st.low[v]
                          /\ v \in r.isArt <=> v \in st.isArt

\* The calls a search of a connected graph makes.
Fit(E, c) ==
  /\ c \in Call
  /\ Stamped(c.st)
  /\ c.u \notin Seen(c.st)
  /\ c.parent = NoParent => Seen(c.st) = {}
  /\ c.parent # NoParent => c.parent \in Seen(c.st) /\ c.parent \in Neighbours(E, c.u)

\* The call c returns r, having discovered New.
Discovers(E, c, r, New) ==
  /\ Stamped(r) /\ c.st.timer < r.timer
  /\ New \in SUBSET (Vertex \ Seen(c.st)) /\ c.u \in New
  /\ Seen(r) = Seen(c.st) \cup New
  /\ Frame(c.st, r, New)
  /\ r.disc[c.u] = c.st.timer
  /\ \A x \in New : r.disc[x] >= c.st.timer
  /\ \A x \in New : Neighbours(E, x) \subseteq New \cup Seen(c.st)
  /\ Spans(E, New, c.u)
  /\ c.parent # NoParent =>
       /\ \A d \in Int : d <= c.st.disc[c.parent] =>
                           (r.low[c.u] < d <=> Reaches(E, New, c.st, d))
       /\ \A x \in New : x \in r.isArt <=> CutsOff(E, New, x)
  /\ c.parent = NoParent => \A x \in New : x \in r.isArt <=> Separates(E, New, x)

\* What a child of u discovered: W, from a neighbour of u on.
Branch(E, c, st, W) ==
  /\ \E v \in W : v \in Neighbours(E, c.u) /\ Spans(E, W, v)
  /\ \A x \in W : Neighbours(E, x) \subseteq W \cup Seen(c.st) \cup {c.u}
  /\ \A x \in W : st.disc[x] > c.st.timer
  /\ \A x \in W : x \in st.isArt <=> CutsOff(E, W, x)

Grown(c, F, st) ==
  /\ Stamped(st) /\ c.st.timer < st.timer
  /\ F \subseteq SUBSET (Vertex \ (Seen(c.st) \cup {c.u}))
  /\ Seen(st) = Seen(c.st) \cup {c.u} \cup UNION F
  /\ \A V, W \in F : V # W => V \cap W = {}
  /\ Frame(c.st, st, {c.u} \cup UNION F)
  /\ st.disc[c.u] = c.st.timer

LowIs(E, c, F, st, A) ==
  c.parent # NoParent =>
    \A d \in Int : d <= c.st.disc[c.parent] =>
      (st.low[c.u] < d <=> \/ \E w \in A \cap Seen(c.st) : c.st.disc[w] < d
                           \/ \E W \in F : Reaches(E, W, c.st, d))

OwnIs(E, c, F, acc) ==
  c.u \in acc.st.isArt <=>
    IF c.parent = NoParent THEN acc.children > 1 ELSE \E W \in F : Sealed(E, c.u, W)

\* A call's loop has been through the neighbours A, and F is what each child
\* discovered.
Looped(E, c, F, acc, A) ==
  /\ acc \in Loop
  /\ IsFiniteSet(F) /\ acc.children = Cardinality(F)
  /\ Grown(c, F, acc.st)
  /\ A \subseteq Seen(acc.st)
  /\ \A W \in F : Branch(E, c, acc.st, W)
  /\ LowIs(E, c, F, acc.st, A)
  /\ OwnIs(E, c, F, acc)

Child(c, acc, v) == [u |-> v, parent |-> c.u, st |-> acc.st]

LEMMA FitFacts ==
  ASSUME NEW E, NEW c, Fit(E, c)
  PROVE  /\ c.u \in Vertex /\ c.u \notin Seen(c.st) /\ c.st.timer \in Nat
         /\ \A w \in Seen(c.st) : w \in Vertex /\ c.st.disc[w] \in 0..(c.st.timer - 1)
         /\ c.st.disc \in [Vertex -> Int] /\ c.st.low \in [Vertex -> Int]
         /\ c.st.isArt \subseteq Seen(c.st)
         /\ c.parent # NoParent => /\ c.parent \in Seen(c.st)
                                   /\ c.st.disc[c.parent] \in 0..(c.st.timer - 1)
<1>1. c.u \in Vertex /\ c.u \notin Seen(c.st) /\ Stamped(c.st)
  BY DEF Fit, Call
<1>2. \A w \in Seen(c.st) : w \in Vertex /\ c.st.disc[w] \in 0..(c.st.timer - 1)
  BY <1>1 DEF Stamped, Seen
<1>3. c.st.disc \in [Vertex -> Int] /\ c.st.low \in [Vertex -> Int]
  BY <1>1 DEF Stamped, Arrays
<1>4. c.parent # NoParent => c.parent \in Seen(c.st)
  BY DEF Fit
<1> QED BY <1>1, <1>2, <1>3, <1>4 DEF Stamped

LEMMA LoopStarts ==
  ASSUME NEW E, NEW c, Fit(E, c)
  PROVE  Looped(E, c, {}, LoopStart(c), {})
<1>1. PICK r : r = Enter(c)
  OBVIOUS
<1>2. c \in Call
  BY DEF Fit
<1>3. /\ r \in Arrays
      /\ r.isArt = c.st.isArt /\ r.timer = c.st.timer + 1
      /\ r.disc[c.u] = c.st.timer /\ r.low[c.u] = c.st.timer
      /\ \A v \in Vertex : v # c.u => r.disc[v] = c.st.disc[v] /\ r.low[v] = c.st.low[v]
  BY <1>1, <1>2, EnterFacts
<1>4. /\ c.u \in Vertex /\ c.u \notin Seen(c.st) /\ c.st.timer \in Nat
      /\ \A w \in Seen(c.st) : w \in Vertex /\ c.st.disc[w] \in 0..(c.st.timer - 1)
      /\ c.st.isArt \subseteq Seen(c.st)
      /\ c.parent # NoParent => c.st.disc[c.parent] \in 0..(c.st.timer - 1)
  BY FitFacts
<1>5. Seen(r) = Seen(c.st) \cup {c.u}
  BY <1>3, <1>4 DEF Seen
<1>6. Stamped(r)
  <2>1. \A v \in Vertex : r.disc[v] = -1 \/ r.disc[v] \in 0..(r.timer - 1)
    <3> SUFFICES ASSUME NEW v \in Vertex, r.disc[v] # -1
                 PROVE  r.disc[v] \in 0..(r.timer - 1)
      OBVIOUS
    <3>1. CASE v = c.u
      BY <1>3, <1>4, <3>1
    <3>2. CASE v # c.u
      <4>1. v \in Seen(c.st) /\ r.disc[v] = c.st.disc[v]
        BY <1>3, <3>2 DEF Seen
      <4> QED BY <1>3, <1>4, <4>1
    <3> QED BY <3>1, <3>2
  <2> QED BY <1>3, <1>4, <1>5, <2>1 DEF Stamped
<1>7. Grown(c, {}, r)
  <2>1. Frame(c.st, r, {c.u} \cup UNION {})
    BY <1>3 DEF Frame
  <2> QED BY <1>3, <1>4, <1>5, <1>6, <2>1 DEF Grown
<1>8. LowIs(E, c, {}, r, {})
  BY <1>3, <1>4 DEF LowIs
<1>9. PICK acc : acc = LoopStart(c)
  OBVIOUS
<1>10. acc.children = 0 /\ acc.st = r /\ acc \in Loop
  BY <1>1, <1>3, <1>9 DEF LoopStart, Loop
<1>11. OwnIs(E, c, {}, acc)
  BY <1>3, <1>4, <1>10 DEF OwnIs
<1>12. IsFiniteSet({}) /\ Cardinality({}) = 0
  BY FS_EmptySet
<1> QED BY <1>7, <1>8, <1>9, <1>10, <1>11, <1>12 DEF Looped

LEMMA ChildFits ==
  ASSUME NEW E, NEW c, Fit(E, c), NEW F, NEW acc, NEW A, Looped(E, c, F, acc, A),
         NEW v \in Neighbours(E, c.u), acc.st.disc[v] = -1
  PROVE  Fit(E, Child(c, acc, v))
<1>1. c.u \in Vertex /\ v \in Vertex
  BY FitFacts DEF Neighbours
<1>2. PICK cc : cc = Child(c, acc, v)
  OBVIOUS
<1>3. cc.u = v /\ cc.parent = c.u /\ cc.st = acc.st
  BY <1>2 DEF Child
<1>4. Stamped(acc.st) /\ acc \in Loop /\ c.u \in Seen(acc.st)
  BY DEF Looped, Grown
<1>5. cc \in Call
  BY <1>1, <1>2, <1>4 DEF Child, Call, Loop
<1>6. c.u \in Neighbours(E, v)
  BY <1>1, NeighboursMutual
<1>7. v \notin Seen(acc.st)
  BY DEF Seen
<1>8. c.u # NoParent
  BY <1>1, VertexFacts DEF NoParent
<1>9. Fit(E, cc)
  BY <1>3, <1>4, <1>5, <1>6, <1>7, <1>8 DEF Fit
<1> QED BY <1>2, <1>9

\* The arrays after the call of a child.
LEMMA ChildForm ==
  ASSUME NEW c \in Call, NEW acc \in Loop, NEW v \in Vertex, v # c.u, NEW below \in Arrays
  PROVE  LET r == AfterChild(c, acc, v, below)
         IN  /\ r \in Loop /\ r.children = acc.children + 1
             /\ r.st.disc = below.disc /\ r.st.timer = below.timer
             /\ \A w \in Vertex : w # c.u => r.st.low[w] = below.low[w]
             /\ \A w \in Vertex : w # c.u => (w \in r.st.isArt <=> w \in below.isArt)
             /\ \A d \in Int : r.st.low[c.u] < d <=> below.low[c.u] < d \/ below.low[v] < d
             /\ c.u \in r.st.isArt <=>
                  \/ c.u \in below.isArt
                  \/ IF c.parent = NoParent THEN acc.children + 1 > 1
                     ELSE below.low[v] >= below.disc[c.u]
<1> DEFINE r == AfterChild(c, acc, v, below)
           low == Lower(below, c.u, below.low[v])
<1>1. c.u \in Vertex /\ acc.children \in Nat
  BY DEF Call, Loop
<1>2. below.low[v] \in Int
  BY DEF Arrays
<1>3. /\ low \in Arrays
      /\ low.disc = below.disc /\ low.timer = below.timer /\ low.isArt = below.isArt
      /\ \A w \in Vertex : w # c.u => low.low[w] = below.low[w]
      /\ \A d \in Int : low.low[c.u] < d <=> below.low[c.u] < d \/ below.low[v] < d
  BY <1>1, <1>2, LowerFacts
<1>4. r = [children |-> acc.children + 1,
           st |-> IF Articulates(c, low, v, acc.children + 1)
                  THEN [low EXCEPT !.isArt = @ \cup {c.u}] ELSE low]
  BY DEF AfterChild
<1> HIDE DEF low, r
<1>5. PICK st : st = r.st
  OBVIOUS
<1>6. st = IF Articulates(c, low, v, acc.children + 1)
           THEN [low EXCEPT !.isArt = @ \cup {c.u}] ELSE low
  BY <1>4, <1>5
<1>7. /\ st \in Arrays /\ st.disc = low.disc /\ st.low = low.low /\ st.timer = low.timer
      /\ st.isArt = IF Articulates(c, low, v, acc.children + 1)
                    THEN low.isArt \cup {c.u} ELSE low.isArt
  BY <1>1, <1>3, <1>6 DEF Arrays
<1>8. Articulates(c, low, v, acc.children + 1) <=>
        IF c.parent = NoParent THEN acc.children + 1 > 1 ELSE below.low[v] >= below.disc[c.u]
  BY <1>3 DEF Articulates
<1>9. r \in Loop /\ r.children = acc.children + 1
  BY <1>1, <1>4, <1>5, <1>7 DEF Loop
<1> QED BY <1>3, <1>5, <1>7, <1>8, <1>9 DEF r

LEMMA ChildTurn ==
  ASSUME NEW E, NEW c, Fit(E, c), NEW F, NEW acc, NEW A, Looped(E, c, F, acc, A),
         NEW v \in Neighbours(E, c.u), acc.st.disc[v] = -1,
         NEW below, NEW W, Discovers(E, Child(c, acc, v), below, W)
  PROVE  Looped(E, c, F \cup {W}, AfterChild(c, acc, v, below), A \cup {v})
<1> DEFINE D == Seen(c.st)
           time == c.st.timer
           G == F \cup {W}
<1>1. /\ c.u \in Vertex /\ c.u \notin D /\ time \in Nat
      /\ \A w \in D : w \in Vertex /\ c.st.disc[w] \in 0..(time - 1)
      /\ c.st.disc \in [Vertex -> Int] /\ c.st.low \in [Vertex -> Int]
      /\ c.st.isArt \subseteq D
      /\ c.parent # NoParent => c.parent \in D /\ c.st.disc[c.parent] \in 0..(time - 1)
  BY FitFacts
<1>2. PICK mid : mid = acc.st
  OBVIOUS
<1>3. PICK r : r = AfterChild(c, acc, v, below)
  OBVIOUS
<1>4. /\ acc \in Loop /\ acc.children \in Nat
      /\ IsFiniteSet(F) /\ acc.children = Cardinality(F)
      /\ Grown(c, F, mid)
      /\ A \subseteq Seen(mid)
      /\ \A V \in F : Branch(E, c, mid, V)
      /\ LowIs(E, c, F, mid, A)
      /\ OwnIs(E, c, F, acc)
  BY <1>2 DEF Looped, Loop
<1>5. /\ Stamped(mid) /\ time < mid.timer /\ mid.timer \in Nat
      /\ F \subseteq SUBSET (Vertex \ (D \cup {c.u}))
      /\ Seen(mid) = D \cup {c.u} \cup UNION F
      /\ \A U, V \in F : U # V => U \cap V = {}
      /\ Frame(c.st, mid, {c.u} \cup UNION F)
      /\ mid.disc[c.u] = time
  BY <1>4 DEF Grown, Stamped
\* What the child returns.
<1>6. PICK cc : cc = Child(c, acc, v)
  OBVIOUS
<1>7. cc.u = v /\ cc.parent = c.u /\ cc.st = mid /\ c.u # NoParent
  BY <1>1, <1>2, <1>6, VertexFacts DEF Child, NoParent
<1>8. /\ Stamped(below) /\ mid.timer < below.timer /\ below.timer \in Nat /\ below \in Arrays
      /\ W \in SUBSET (Vertex \ Seen(mid)) /\ v \in W
      /\ Seen(below) = Seen(mid) \cup W
      /\ Frame(mid, below, W)
      /\ \A x \in W : below.disc[x] >= mid.timer
      /\ \A x \in W : Neighbours(E, x) \subseteq W \cup Seen(mid)
      /\ Spans(E, W, v)
      /\ \A d \in Int : d <= mid.disc[c.u] => (below.low[v] < d <=> Reaches(E, W, mid, d))
      /\ \A x \in W : x \in below.isArt <=> CutsOff(E, W, x)
  BY <1>6, <1>7 DEF Discovers, Stamped
<1>9. c.u \notin W /\ v # c.u /\ v \in Vertex /\ c \in Call
  BY <1>5, <1>8 DEF Fit
<1>10. /\ r \in Loop /\ r.children = acc.children + 1
       /\ r.st.disc = below.disc /\ r.st.timer = below.timer
       /\ \A w \in Vertex : w # c.u => r.st.low[w] = below.low[w]
       /\ \A w \in Vertex : w # c.u => (w \in r.st.isArt <=> w \in below.isArt)
       /\ \A d \in Int : r.st.low[c.u] < d <=> below.low[c.u] < d \/ below.low[v] < d
       /\ c.u \in r.st.isArt <=>
            \/ c.u \in below.isArt
            \/ IF c.parent = NoParent THEN acc.children + 1 > 1
               ELSE below.low[v] >= below.disc[c.u]
  BY <1>3, <1>4, <1>8, <1>9, ChildForm
<1>11. PICK st : st = r.st
  OBVIOUS
<1>30. st.disc = below.disc /\ st.timer = below.timer
  BY <1>10, <1>11
<1>31. \A w \in Vertex : w # c.u => st.low[w] = below.low[w]
  BY <1>10, <1>11
<1>32. \A w \in Vertex : w # c.u => (w \in st.isArt <=> w \in below.isArt)
  BY <1>10, <1>11
\* The sets.
<1>12. W \notin F /\ \A V \in F : V \cap W = {}
  BY <1>5, <1>8
<1>13. /\ G \subseteq SUBSET (Vertex \ (D \cup {c.u}))
       /\ Seen(mid) \cup W = D \cup {c.u} \cup UNION G
       /\ \A U, V \in G : U # V => U \cap V = {}
  <2>1. W \subseteq Vertex \ (D \cup {c.u})
    BY <1>5, <1>8
  <2>2. UNION G = (UNION F) \cup W
    OBVIOUS
  <2> QED BY <1>5, <1>12, <2>1, <2>2
<1>14. IsFiniteSet(G) /\ r.children = Cardinality(G)
  BY <1>4, <1>10, <1>12, FS_AddElement
<1>15. Seen(st) = D \cup {c.u} \cup UNION G
  BY <1>8, <1>10, <1>11, <1>13 DEF Seen
<1>16. \A w \in Vertex \ W : /\ below.disc[w] = mid.disc[w]
                             /\ below.low[w] = mid.low[w]
                             /\ w \in below.isArt <=> w \in mid.isArt
  BY <1>8 DEF Frame
<1>17. Stamped(st)
  <2>1. st \in Arrays /\ st.timer \in Nat
    BY <1>8, <1>10, <1>11 DEF Loop
  <2>2. \A w \in Vertex : st.disc[w] = -1 \/ st.disc[w] \in 0..(st.timer - 1)
    BY <1>8, <1>10, <1>11 DEF Stamped
  <2>3. st.isArt \subseteq Seen(st)
    <3>1. below.isArt \subseteq Seen(below) /\ Seen(below) = Seen(st) /\ c.u \in Seen(st)
      BY <1>8, <1>13, <1>15 DEF Stamped
    <3>2. st.isArt \subseteq Vertex
      BY <2>1 DEF Arrays
    <3> QED BY <1>32, <3>1, <3>2
  <2> QED BY <2>1, <2>2, <2>3 DEF Stamped
<1>18. Grown(c, G, st)
  <2>1. Frame(c.st, st, {c.u} \cup UNION G)
    <3> SUFFICES ASSUME NEW w \in Vertex \ ({c.u} \cup UNION G)
                 PROVE  /\ st.disc[w] = c.st.disc[w] /\ st.low[w] = c.st.low[w]
                        /\ w \in st.isArt <=> w \in c.st.isArt
      BY DEF Frame
    <3>1. w \in Vertex \ W /\ w \in Vertex \ ({c.u} \cup UNION F) /\ w # c.u
      OBVIOUS
    <3> QED BY <1>5, <1>16, <1>30, <1>31, <1>32, <3>1 DEF Frame
  <2>2. time < st.timer
    BY <1>1, <1>5, <1>8, <1>10, <1>11
  <2>3. st.disc[c.u] = time
    BY <1>1, <1>5, <1>9, <1>10, <1>11, <1>16
  <2> QED BY <1>13, <1>15, <1>17, <2>1, <2>2, <2>3 DEF Grown
<1>19. A \cup {v} \subseteq Seen(st)
  BY <1>4, <1>8, <1>13, <1>15
\* No edge between two children's sets.
<1>20. ASSUME NEW x \in W PROVE Neighbours(E, x) \subseteq W \cup D \cup {c.u}
  <2> SUFFICES ASSUME NEW y \in Neighbours(E, x), y \in UNION F PROVE FALSE
    BY <1>5, <1>8
  <2>1. PICK V \in F : y \in V
    OBVIOUS
  <2>2. x \in Vertex /\ y \in Vertex
    BY <1>8 DEF Neighbours
  <2>3. x \in Neighbours(E, y)
    BY <2>2, NeighboursMutual
  <2>4. Neighbours(E, y) \subseteq V \cup D \cup {c.u}
    BY <1>4, <2>1 DEF Branch
  <2> QED BY <1>5, <1>8, <2>1, <2>3, <2>4
<1>21. ASSUME NEW V \in G PROVE Branch(E, c, st, V)
  <2>1. CASE V = W
    <3>1. v \in W /\ v \in Neighbours(E, c.u) /\ Spans(E, W, v)
      BY <1>8
    <3>2. \A x \in W : st.disc[x] > time
      <4> SUFFICES ASSUME NEW x \in W PROVE st.disc[x] > time
        OBVIOUS
      <4>1. PICK n \in Int : n = below.disc[x]
        BY <1>8 DEF Arrays
      <4>2. n >= mid.timer
        BY <1>8, <4>1
      <4> QED BY <1>1, <1>5, <1>10, <1>11, <4>1, <4>2
    <3>3. \A x \in W : x \in st.isArt <=> CutsOff(E, W, x)
      BY <1>8, <1>9, <1>32
    <3> QED BY <1>20, <2>1, <3>1, <3>2, <3>3 DEF Branch
  <2>2. CASE V \in F
    <3>1. Branch(E, c, mid, V)
      BY <1>4, <2>2
    <3>2. ASSUME NEW x \in V
          PROVE  st.disc[x] = mid.disc[x] /\ (x \in st.isArt <=> x \in mid.isArt)
      <4>1. x \in Vertex \ W /\ x # c.u
        BY <1>5, <1>12, <2>2
      <4> QED BY <1>16, <1>30, <1>32, <4>1
    <3> QED BY <3>1, <3>2 DEF Branch
  <2> QED BY <2>1, <2>2
\* What the new branch says about u and its lowest edge.
<1>22. ASSUME NEW d \in Int, d <= time
       PROVE  below.low[v] < d <=> Reaches(E, W, c.st, d)
  <2>1. below.low[v] < d <=> Reaches(E, W, mid, d)
    BY <1>5, <1>8, <1>22
  <2>2. ASSUME NEW w \in D
        PROVE  w \in Seen(mid) /\ mid.disc[w] = c.st.disc[w]
    <3>1. w \in Vertex \ ({c.u} \cup UNION F)
      BY <1>1, <1>5
    <3> QED BY <1>5, <3>1 DEF Frame
  <2>3. ASSUME NEW w \in Seen(mid), mid.disc[w] < d
        PROVE  w \in D
    <3>1. CASE w = c.u
      BY <1>1, <1>5, <1>22, <2>3, <3>1
    <3>2. CASE w \in UNION F
      <4>1. PICK V \in F : w \in V
        BY <3>2
      <4>2. PICK n \in Int : n = mid.disc[w]
        BY <1>5 DEF Stamped, Arrays, Seen
      <4>3. n > time
        BY <1>4, <4>1, <4>2 DEF Branch
      <4> QED BY <1>1, <1>22, <2>3, <4>2, <4>3
    <3> QED BY <1>5, <3>1, <3>2
  <2> QED BY <2>1, <2>2, <2>3 DEF Reaches
<1>23. c.parent # NoParent => (below.low[v] >= below.disc[c.u] <=> Sealed(E, c.u, W))
  <2>1. below.disc[c.u] = time
    BY <1>1, <1>5, <1>9, <1>16
  <2>2. PICK l \in Int : l = below.low[v]
    BY <1>8, <1>9 DEF Arrays
  <2>3. l < time <=> Reaches(E, W, c.st, time)
    BY <1>1, <1>22, <2>2
  <2>4. Reaches(E, W, c.st, time) <=> ~Sealed(E, c.u, W)
    <3>1. ASSUME Reaches(E, W, c.st, time), Sealed(E, c.u, W) PROVE FALSE
      <4>1. PICK x \in W : \E w \in D : w \in Neighbours(E, x)
        BY <3>1 DEF Reaches
      <4>2. PICK w \in D : w \in Neighbours(E, x)
        BY <4>1
      <4>3. w \in W \cup {c.u}
        BY <3>1, <4>2 DEF Sealed
      <4> QED BY <1>1, <1>5, <1>8, <4>2, <4>3
    <3>2. ASSUME ~Reaches(E, W, c.st, time) PROVE Sealed(E, c.u, W)
      <4> SUFFICES ASSUME NEW x \in W, NEW y \in Neighbours(E, x), y \notin W \cup {c.u}
                   PROVE  FALSE
        BY DEF Sealed
      <4>1. y \in D
        BY <1>20
      <4>2. c.st.disc[y] < time
        BY <1>1, <4>1
      <4> QED BY <3>2, <4>1, <4>2 DEF Reaches
    <3> QED BY <3>1, <3>2
  <2> QED BY <1>1, <2>1, <2>2, <2>3, <2>4
<1>24. LowIs(E, c, G, st, A \cup {v})
  <2> SUFFICES ASSUME c.parent # NoParent, NEW d \in Int, d <= c.st.disc[c.parent]
               PROVE  st.low[c.u] < d <=> \/ \E w \in (A \cup {v}) \cap D : c.st.disc[w] < d
                                          \/ \E V \in G : Reaches(E, V, c.st, d)
    BY DEF LowIs
  <2>1. d <= time
    BY <1>1
  <2>2. st.low[c.u] < d <=> mid.low[c.u] < d \/ Reaches(E, W, c.st, d)
    <3>1. below.low[c.u] = mid.low[c.u]
      BY <1>1, <1>9, <1>16
    <3>2. st.low[c.u] < d <=> below.low[c.u] < d \/ below.low[v] < d
      BY <1>10, <1>11
    <3> QED BY <1>22, <2>1, <3>1, <3>2
  <2>3. mid.low[c.u] < d <=> \/ \E w \in A \cap D : c.st.disc[w] < d
                             \/ \E V \in F : Reaches(E, V, c.st, d)
    BY <1>4 DEF LowIs
  <2>4. (A \cup {v}) \cap D = A \cap D
    BY <1>5, <1>8
  <2> QED BY <2>2, <2>3, <2>4
<1>25. OwnIs(E, c, G, r)
  <2>1. c.u \in below.isArt <=> c.u \in mid.isArt
    BY <1>1, <1>9, <1>16
  <2>2. c.u \in mid.isArt <=> IF c.parent = NoParent THEN acc.children > 1
                              ELSE \E V \in F : Sealed(E, c.u, V)
    BY <1>2, <1>4 DEF OwnIs
  <2>3. CASE c.parent = NoParent
    <3>1. c.u \in r.st.isArt <=> acc.children > 1 \/ acc.children + 1 > 1
      BY <1>10, <2>1, <2>2, <2>3
    <3> QED BY <1>4, <1>10, <2>3, <3>1 DEF OwnIs
  <2>4. CASE c.parent # NoParent
    <3>1. c.u \in r.st.isArt <=> (\E V \in F : Sealed(E, c.u, V)) \/ Sealed(E, c.u, W)
      BY <1>10, <1>23, <2>1, <2>2, <2>4
    <3> QED BY <2>4, <3>1 DEF OwnIs
  <2> QED BY <2>3, <2>4
<1> QED BY <1>3, <1>10, <1>11, <1>14, <1>18, <1>19, <1>21, <1>24, <1>25 DEF Looped

LEMMA SeenTurn ==
  ASSUME NEW E, NEW c, Fit(E, c), NEW F, NEW acc, NEW A, Looped(E, c, F, acc, A),
         NEW v \in Neighbours(E, c.u), acc.st.disc[v] # -1,
         NEW r, r = IF v # c.parent THEN AfterSeen(c, acc, v) ELSE acc
  PROVE  Looped(E, c, F, r, A \cup {v})
<1> DEFINE D == Seen(c.st)
           time == c.st.timer
<1>1. /\ c.u \in Vertex /\ c.u \notin D /\ time \in Nat
      /\ \A w \in D : w \in Vertex /\ c.st.disc[w] \in 0..(time - 1)
      /\ c.parent # NoParent => c.parent \in D /\ c.st.disc[c.parent] \in 0..(time - 1)
  BY FitFacts
<1>2. PICK mid : mid = acc.st
  OBVIOUS
<1>3. PICK st : st = r.st
  OBVIOUS
<1>4. /\ acc \in Loop /\ mid \in Arrays
      /\ IsFiniteSet(F) /\ acc.children = Cardinality(F)
      /\ Grown(c, F, mid)
      /\ A \subseteq Seen(mid)
      /\ \A V \in F : Branch(E, c, mid, V)
      /\ LowIs(E, c, F, mid, A)
      /\ OwnIs(E, c, F, acc)
  BY <1>2 DEF Looped, Loop
<1>5. /\ Stamped(mid) /\ time < mid.timer /\ mid.timer \in Nat
      /\ F \subseteq SUBSET (Vertex \ (D \cup {c.u}))
      /\ Seen(mid) = D \cup {c.u} \cup UNION F
      /\ \A U, V \in F : U # V => U \cap V = {}
      /\ Frame(c.st, mid, {c.u} \cup UNION F)
      /\ mid.disc[c.u] = time
  BY <1>4 DEF Grown, Stamped
<1>6. v \in Vertex /\ v \in Seen(mid)
  BY <1>2 DEF Neighbours, Seen
<1>7. PICK at \in Int : at = mid.disc[v]
  BY <1>4, <1>6 DEF Arrays
<1>8. /\ r \in Loop /\ r.children = acc.children
      /\ st \in Arrays
      /\ st.disc = mid.disc /\ st.timer = mid.timer /\ st.isArt = mid.isArt
      /\ \A w \in Vertex : w # c.u => st.low[w] = mid.low[w]
      /\ \A d \in Int : st.low[c.u] < d <=> mid.low[c.u] < d \/ (v # c.parent /\ at < d)
  <2>1. CASE v = c.parent
    BY <1>2, <1>3, <1>4, <2>1
  <2>2. CASE v # c.parent
    <3>1. PICK low : low = Lower(mid, c.u, at)
      OBVIOUS
    <3>2. /\ low \in Arrays
          /\ low.disc = mid.disc /\ low.timer = mid.timer /\ low.isArt = mid.isArt
          /\ \A w \in Vertex : w # c.u => low.low[w] = mid.low[w]
          /\ \A d \in Int : low.low[c.u] < d <=> mid.low[c.u] < d \/ at < d
      <4>1. mid \in Arrays /\ c.u \in Vertex
        BY <1>1, <1>4
      <4> QED BY <1>7, <3>1, <4>1, LowerFacts
    <3>3. r = [acc EXCEPT !.st = low]
      BY <1>2, <1>7, <2>2, <3>1 DEF AfterSeen
    <3>4. r \in Loop /\ r.children = acc.children /\ r.st = low
      BY <1>4, <3>2, <3>3 DEF Loop
    <3> QED BY <1>3, <2>2, <3>2, <3>4
  <2> QED BY <2>1, <2>2
<1>9. Seen(st) = Seen(mid)
  BY <1>8 DEF Seen
<1>10. Grown(c, F, st)
  <2>1. Stamped(st)
    BY <1>5, <1>8, <1>9 DEF Stamped
  <2>2. Frame(c.st, st, {c.u} \cup UNION F)
    BY <1>5, <1>8 DEF Frame
  <2> QED BY <1>5, <1>8, <1>9, <2>1, <2>2 DEF Grown
<1>11. A \cup {v} \subseteq Seen(st)
  BY <1>4, <1>6, <1>9
<1>12. ASSUME NEW V \in F PROVE Branch(E, c, st, V)
  BY <1>4, <1>8 DEF Branch
<1>13. OwnIs(E, c, F, r)
  BY <1>2, <1>3, <1>4, <1>8 DEF OwnIs
<1>14. LowIs(E, c, F, st, A \cup {v})
  <2> SUFFICES ASSUME c.parent # NoParent, NEW d \in Int, d <= c.st.disc[c.parent]
               PROVE  st.low[c.u] < d <=> \/ \E w \in (A \cup {v}) \cap D : c.st.disc[w] < d
                                          \/ \E V \in F : Reaches(E, V, c.st, d)
    BY DEF LowIs
  <2>1. mid.low[c.u] < d <=> \/ \E w \in A \cap D : c.st.disc[w] < d
                             \/ \E V \in F : Reaches(E, V, c.st, d)
    BY <1>4 DEF LowIs
  <2>2. st.low[c.u] < d <=> mid.low[c.u] < d \/ (v # c.parent /\ at < d)
    BY <1>8
  <2>3. (v # c.parent /\ at < d) <=> v \in D /\ c.st.disc[v] < d
    <3>1. CASE v \in D
      <4>1. v \in Vertex \ ({c.u} \cup UNION F)
        BY <1>1, <1>5, <3>1
      <4>2. at = c.st.disc[v]
        BY <1>5, <1>7, <4>1 DEF Frame
      <4>3. v = c.parent => ~(c.st.disc[v] < d)
        BY <1>1
      <4> QED BY <3>1, <4>2, <4>3
    <3>2. CASE v = c.u
      <4>1. ~(at < d)
        BY <1>1, <1>5, <1>7, <3>2
      <4> QED BY <1>1, <3>2, <4>1
    <3>3. CASE v \in UNION F
      <4>1. PICK V \in F : v \in V
        BY <3>3
      <4>2. at > time
        BY <1>4, <1>7, <4>1 DEF Branch
      <4>3. ~(at < d) /\ v \notin D
        BY <1>1, <1>5, <1>7, <4>1, <4>2
      <4> QED BY <4>3
    <3> QED BY <1>5, <1>6, <3>1, <3>2, <3>3
  <2> QED BY <2>1, <2>2, <2>3
<1> QED BY <1>3, <1>4, <1>8, <1>10, <1>11, <1>12, <1>13, <1>14 DEF Looped

\* The children of a call that is not a search's first: what a vertex cuts off
\* of all that was discovered is what it cuts off of its branch.
LEMMA LoopEnds ==
  ASSUME NEW E, NEW c, Fit(E, c), NEW F, NEW acc, Looped(E, c, F, acc, Neighbours(E, c.u))
  PROVE  Discovers(E, c, acc.st, {c.u} \cup UNION F)
<1> DEFINE D == Seen(c.st)
           time == c.st.timer
           New == {c.u} \cup UNION F
<1>1. /\ c.u \in Vertex /\ c.u \notin D /\ time \in Nat
      /\ \A w \in D : w \in Vertex /\ c.st.disc[w] \in 0..(time - 1)
      /\ c.parent # NoParent => c.parent \in D /\ c.st.disc[c.parent] \in 0..(time - 1)
  BY FitFacts
<1>2. PICK st : st = acc.st
  OBVIOUS
<1>3. /\ acc \in Loop /\ st \in Arrays
      /\ IsFiniteSet(F) /\ acc.children = Cardinality(F)
      /\ Grown(c, F, st)
      /\ Neighbours(E, c.u) \subseteq Seen(st)
      /\ \A V \in F : Branch(E, c, st, V)
      /\ LowIs(E, c, F, st, Neighbours(E, c.u))
      /\ OwnIs(E, c, F, acc)
  BY <1>2 DEF Looped, Loop
<1>4. /\ Stamped(st) /\ time < st.timer /\ st.timer \in Nat
      /\ F \subseteq SUBSET (Vertex \ (D \cup {c.u}))
      /\ Seen(st) = D \cup {c.u} \cup UNION F
      /\ \A U, V \in F : U # V => U \cap V = {}
      /\ Frame(c.st, st, New)
      /\ st.disc[c.u] = time
  BY <1>3 DEF Grown, Stamped
<1>5. New \in SUBSET (Vertex \ D) /\ c.u \in New /\ Seen(st) = D \cup New
  BY <1>1, <1>4
<1>6. \A x \in New : st.disc[x] >= time
  <2> SUFFICES ASSUME NEW x \in UNION F PROVE st.disc[x] >= time
    BY <1>1, <1>4
  <2>1. PICK V \in F : x \in V
    OBVIOUS
  <2>2. PICK n \in Int : n = st.disc[x]
    BY <1>3, <1>4 DEF Arrays
  <2>3. n > time
    BY <1>3, <2>1, <2>2 DEF Branch
  <2> QED BY <1>1, <2>2, <2>3
<1>7. \A x \in New : Neighbours(E, x) \subseteq New \cup D
  <2>1. Neighbours(E, c.u) \subseteq New \cup D
    BY <1>3, <1>5
  <2>2. ASSUME NEW V \in F, NEW x \in V PROVE Neighbours(E, x) \subseteq New \cup D
    <3>1. Neighbours(E, x) \subseteq V \cup D \cup {c.u}
      BY <1>3 DEF Branch
    <3> QED BY <3>1
  <2> QED BY <2>1, <2>2
\* A set closed within New that meets a branch holds all of it.
<1>8. ASSUME NEW V \in F, NEW C \in SUBSET Vertex, NEW x, C \cap V # {}, x \notin V,
             \A y \in C \cap V : Neighbours(E, y) \subseteq C \cup {x}
      PROVE  V \subseteq C
  <2>1. PICK v \in V : Spans(E, V, v)
    BY <1>3 DEF Branch
  <2>2. V \subseteq Vertex
    BY <1>4
  <2>3. CASE v \in C
    <3>1. C \cap V \in SUBSET V /\ v \in C \cap V
      BY <2>3
    <3>2. \A y \in C \cap V : Neighbours(E, y) \cap V \subseteq C \cap V
      BY <1>8
    <3>3. C \cap V = V
      BY <2>1, <3>1, <3>2 DEF Spans
    <3> QED BY <3>3
  <2>4. CASE v \notin C
    <3>1. V \ C \in SUBSET V /\ v \in V \ C
      BY <2>4
    <3>2. ASSUME NEW y \in V \ C PROVE Neighbours(E, y) \cap V \subseteq V \ C
      <4> SUFFICES ASSUME NEW z \in Neighbours(E, y), z \in V, z \in C PROVE FALSE
        OBVIOUS
      <4>1. y \in Neighbours(E, z)
        BY <2>2, NeighboursMutual
      <4>2. y \in C \cup {x}
        BY <1>8, <4>1
      <4> QED BY <1>8, <3>2, <4>2
    <3>3. V \ C = V
      BY <2>1, <3>1, <3>2 DEF Spans
    <3> QED BY <1>8, <3>3
  <2> QED BY <2>3, <2>4
<1>9. ASSUME NEW V \in F
      PROVE  /\ V # {} /\ c.u \notin V /\ V \cap D = {} /\ V \subseteq Vertex
             /\ \E v \in V : v \in Vertex /\ v \in Neighbours(E, c.u) /\ c.u \in Neighbours(E, v)
  <2>1. PICK v \in V : v \in Neighbours(E, c.u)
    BY <1>3 DEF Branch
  <2>2. v \in Vertex
    BY <1>4
  <2>3. c.u \in Neighbours(E, v)
    BY <1>1, <2>1, <2>2, NeighboursMutual
  <2> QED BY <1>4, <2>1, <2>2, <2>3
<1>10. Spans(E, New, c.u)
  <2> SUFFICES ASSUME NEW C \in SUBSET New, c.u \in C,
                      \A y \in C : Neighbours(E, y) \cap New \subseteq C
               PROVE  New \subseteq C
    BY DEF Spans
  <2> SUFFICES ASSUME NEW V \in F PROVE V \subseteq C
    OBVIOUS
  <2>1. PICK v \in V : v \in Neighbours(E, c.u) /\ Spans(E, V, v)
    BY <1>3 DEF Branch
  <2>2. v \in C
    BY <2>1
  <2>3. C \cap V \in SUBSET V /\ v \in C \cap V
    BY <2>2
  <2>4. \A y \in C \cap V : Neighbours(E, y) \cap V \subseteq C \cap V
    OBVIOUS
  <2>5. C \cap V = V
    BY <2>1, <2>3, <2>4 DEF Spans
  <2> QED BY <2>5
\* Of a branch.
<1>11. ASSUME NEW V \in F, NEW x \in V PROVE x \in st.isArt <=> CutsOff(E, V, x)
  BY <1>3 DEF Branch
<1>12. ASSUME c.parent # NoParent, NEW d \in Int, d <= c.st.disc[c.parent]
       PROVE  st.low[c.u] < d <=> Reaches(E, New, c.st, d)
  <2>1. st.low[c.u] < d <=> \/ \E w \in Neighbours(E, c.u) \cap D : c.st.disc[w] < d
                            \/ \E V \in F : Reaches(E, V, c.st, d)
    BY <1>3, <1>12 DEF LowIs
  <2> QED BY <2>1 DEF Reaches
<1>13. ASSUME c.parent # NoParent, NEW x \in New PROVE x \in st.isArt <=> CutsOff(E, New, x)
  <2>1. c.parent \in D /\ c.parent \in Neighbours(E, c.u) /\ c.parent \notin New
    BY <1>5, <1>13 DEF Fit
  <2>2. CASE x = c.u
    <3>1. x \in st.isArt <=> \E V \in F : Sealed(E, x, V)
      BY <1>2, <1>3, <1>13, <2>2 DEF OwnIs
    <3>2. ASSUME NEW V \in F, Sealed(E, x, V) PROVE CutsOff(E, New, x)
      <4>1. V \in SUBSET (New \ {x}) /\ V # {}
        BY <1>9, <2>2
      <4> QED BY <3>2, <4>1 DEF CutsOff
    <3>3. ASSUME NEW C \in SUBSET (New \ {x}), C # {}, Sealed(E, x, C)
          PROVE  \E V \in F : Sealed(E, x, V)
      <4>1. PICK V \in F : C \cap V # {}
        BY <2>2, <3>3
      <4>2. C \in SUBSET Vertex
        BY <1>5
      <4>3. \A y \in C : Neighbours(E, y) \subseteq C \cup {x}
        BY <3>3 DEF Sealed
      <4>4. x \notin V
        BY <1>9, <2>2
      <4>5. V \subseteq C
        BY <1>8, <4>1, <4>2, <4>3, <4>4
      <4>6. ASSUME NEW y \in V PROVE Neighbours(E, y) \subseteq V \cup {x}
        <5>1. Neighbours(E, y) \subseteq V \cup D \cup {c.u}
          BY <1>3 DEF Branch
        <5>2. Neighbours(E, y) \subseteq C \cup {x}
          BY <4>3, <4>5
        <5> QED BY <1>5, <2>2, <5>1, <5>2
      <4> QED BY <4>6 DEF Sealed
    <3> QED BY <3>1, <3>2, <3>3 DEF CutsOff
  <2>3. CASE x # c.u
    <3>1. PICK V \in F : x \in V
      BY <2>3
    <3>2. ASSUME CutsOff(E, V, x) PROVE CutsOff(E, New, x)
      BY <3>1, <3>2 DEF CutsOff
    <3>3. ASSUME NEW C \in SUBSET (New \ {x}), C # {}, Sealed(E, x, C)
          PROVE  CutsOff(E, V, x)
      <4>1. C \in SUBSET Vertex
        BY <1>5
      <4>2. \A y \in C : Neighbours(E, y) \subseteq C \cup {x}
        BY <3>3 DEF Sealed
      <4>3. c.u \notin C
        BY <2>1, <3>1, <4>2
      <4>4. ASSUME NEW U \in F, U # V, C \cap U # {} PROVE FALSE
        <5>1. x \notin U
          BY <1>4, <3>1, <4>4
        <5>2. U \subseteq C
          BY <1>8, <4>1, <4>2, <4>4, <5>1
        <5>3. c.u \in C \cup {x}
          BY <1>9, <4>2, <5>2
        <5> QED BY <2>3, <4>3, <5>3
      <4>5. C \subseteq V
        BY <4>3, <4>4
      <4> QED BY <3>3, <4>5 DEF CutsOff
    <3> QED BY <1>11, <3>1, <3>2, <3>3 DEF CutsOff
  <2> QED BY <2>2, <2>3
\* A search's first call has discovered everything there was.
<1>14. ASSUME c.parent = NoParent PROVE D = {} /\ \A x \in New : Neighbours(E, x) \subseteq New
  BY <1>7, <1>14 DEF Fit
<1>15. ASSUME c.parent = NoParent, NEW x \in New PROVE x \in st.isArt <=> Separates(E, New, x)
  <2>1. CASE x = c.u
    <3>1. x \in st.isArt <=> Cardinality(F) > 1
      BY <1>2, <1>3, <1>15, <2>1 DEF OwnIs
    <3>2. Cardinality(F) > 1 <=> \E U, V \in F : U # V
      <4>1. ASSUME \A U, V \in F : U = V PROVE ~(Cardinality(F) > 1)
        <5>1. F = {} \/ \E V : F = {V}
          BY <4>1
        <5>2. Cardinality(F) = 0 \/ Cardinality(F) = 1
          BY <5>1, FS_EmptySet, FS_Singleton
        <5> QED BY <5>2
      <4>2. ASSUME NEW U \in F, NEW V \in F, U # V PROVE Cardinality(F) > 1
        <5>1. {U, V} \subseteq F
          OBVIOUS
        <5>2. Cardinality({U, V}) = 2
          <6>1. IsFiniteSet({U}) /\ Cardinality({U}) = 1
            BY FS_Singleton
          <6>2. Cardinality({U} \cup {V}) = 2
            BY <4>2, <6>1, FS_AddElement
          <6>3. {U} \cup {V} = {U, V}
            OBVIOUS
          <6> QED BY <6>2, <6>3
        <5>3. Cardinality({U, V}) <= Cardinality(F)
          BY <1>3, <5>1, FS_Subset
        <5>4. Cardinality(F) \in Nat
          BY <1>3, FS_CardinalityType
        <5> QED BY <5>2, <5>3, <5>4
      <4> QED BY <4>1, <4>2
    <3>3. ASSUME NEW U \in F, NEW V \in F, U # V PROVE Separates(E, New, x)
      <4>1. U \in SUBSET (New \ {x}) /\ U # {} /\ U # New \ {x}
        BY <1>4, <1>9, <2>1, <3>3
      <4>2. \A y \in U : Neighbours(E, y) \subseteq U \cup D \cup {c.u}
        BY <1>3 DEF Branch
      <4>3. Sealed(E, x, U)
        BY <1>14, <1>15, <2>1, <4>2 DEF Sealed
      <4> QED BY <4>1, <4>3 DEF Separates
    <3>4. ASSUME NEW C \in SUBSET (New \ {x}), C # {}, C # New \ {x}, Sealed(E, x, C)
          PROVE  \E U, V \in F : U # V
      <4>1. PICK U \in F : C \cap U # {}
        BY <2>1, <3>4
      <4>2. C \in SUBSET Vertex
        BY <1>5
      <4>3. \A y \in C : Neighbours(E, y) \subseteq C \cup {x}
        BY <3>4 DEF Sealed
      <4>4. x \notin U
        BY <1>9, <2>1
      <4>5. U \subseteq C
        BY <1>8, <4>1, <4>2, <4>3, <4>4
      <4>6. PICK y \in New \ {x} : y \notin C
        BY <3>4
      <4>7. PICK V \in F : y \in V
        BY <2>1
      <4> QED BY <4>5, <4>6, <4>7
    <3> QED BY <3>1, <3>2, <3>3, <3>4 DEF Separates
  <2>2. CASE x # c.u
    <3>1. PICK V \in F : x \in V
      BY <2>2
    <3>2. ASSUME NEW C \in SUBSET (V \ {x}), C # {}, Sealed(E, x, C)
          PROVE  Separates(E, New, x)
      <4>1. C \in SUBSET (New \ {x}) /\ C # New \ {x}
        BY <1>9, <2>2, <3>1
      <4> QED BY <3>2, <4>1 DEF Separates
    <3>3. ASSUME NEW C \in SUBSET (New \ {x}), C # {}, c.u \notin C, Sealed(E, x, C)
          PROVE  CutsOff(E, V, x)
      <4>1. C \in SUBSET Vertex
        BY <1>5
      <4>2. \A y \in C : Neighbours(E, y) \subseteq C \cup {x}
        BY <3>3 DEF Sealed
      <4>3. ASSUME NEW U \in F, U # V, C \cap U # {} PROVE FALSE
        <5>1. x \notin U
          BY <1>4, <3>1, <4>3
        <5>2. U \subseteq C
          BY <1>8, <4>1, <4>2, <4>3, <5>1
        <5>3. c.u \in C \cup {x}
          BY <1>9, <4>2, <5>2
        <5> QED BY <2>2, <3>3, <5>3
      <4>4. C \subseteq V
        BY <3>3, <4>3
      <4> QED BY <3>3, <4>4 DEF CutsOff
    <3>4. ASSUME NEW C \in SUBSET (New \ {x}), C # {}, C # New \ {x}, Sealed(E, x, C)
          PROVE  CutsOff(E, V, x)
      <4>1. CASE c.u \notin C
        BY <3>3, <3>4, <4>1
      <4>2. CASE c.u \in C
        <5> DEFINE B == (New \ {x}) \ C
        <5>1. B \in SUBSET (New \ {x}) /\ B # {} /\ c.u \notin B
          BY <3>4, <4>2
        <5>2. Sealed(E, x, B)
          <6> SUFFICES ASSUME NEW y \in B, NEW z \in Neighbours(E, y), z \notin B \cup {x}
                       PROVE  FALSE
            BY DEF Sealed
          <6>1. y \in New /\ z \in New /\ z \in C
            BY <1>14, <1>15
          <6>2. y \in Vertex /\ z \in Vertex
            BY <1>5, <6>1
          <6>3. y \in Neighbours(E, z)
            BY <6>2, NeighboursMutual
          <6>4. y \in C \cup {x}
            BY <3>4, <6>1, <6>3 DEF Sealed
          <6> QED BY <6>4
        <5> HIDE DEF B
        <5> QED BY <3>3, <5>1, <5>2
      <4> QED BY <4>1, <4>2
    <3> QED BY <1>11, <3>1, <3>2, <3>4 DEF Separates, CutsOff
  <2> QED BY <2>1, <2>2
<1>16. Discovers(E, c, st, New)
  <2> HIDE DEF New
  <2> QED BY <1>4, <1>5, <1>6, <1>7, <1>10, <1>12, <1>13, <1>15 DEF Discovers
<1> QED BY <1>2, <1>16

\* The search discovers what it should of calls that leave at most d vertices
\* to be discovered.
Left(st) == Vertex \ Seen(st)
Contract(E, Dfs, d) ==
  \A c \in Call : Fit(E, c) /\ Cardinality(Left(c.st)) <= d =>
                    \E New : Discovers(E, c, Dfs[c], New)

LEMMA LeftShrinks ==
  ASSUME NEW c, NEW F, NEW st, Grown(c, F, st), NEW d \in Nat,
         c.u \in Vertex, c.u \notin Seen(c.st), Cardinality(Left(c.st)) <= d + 1
  PROVE  Cardinality(Left(st)) <= d
<1> DEFINE Before == Left(c.st)
<1>1. Before \in SUBSET Vertex /\ c.u \in Before
  BY DEF Left
<1>2. Left(st) \in SUBSET (Before \ {c.u})
  BY DEF Left, Grown
<1> HIDE DEF Before
<1>3. IsFiniteSet(Before) /\ Cardinality(Before) \in Nat
  BY <1>1, VertexFacts
<1>4. IsFiniteSet(Before \ {c.u}) /\ Cardinality(Before \ {c.u}) = Cardinality(Before) - 1
  BY <1>1, <1>3, FS_RemoveElement
<1>5. Cardinality(Left(st)) <= Cardinality(Before \ {c.u}) /\ IsFiniteSet(Left(st))
  BY <1>2, <1>4, FS_Subset
<1>6. Cardinality(Left(st)) \in Nat /\ Cardinality(Before) <= d + 1
  BY <1>5, FS_CardinalityType DEF Before
<1> QED BY <1>3, <1>4, <1>5, <1>6

LEMMA CallKeepsContract ==
  ASSUME NEW E, NEW Dfs \in [Call -> Arrays], NEW d \in Nat, Contract(E, Dfs, d),
         NEW c, Fit(E, c), Cardinality(Left(c.st)) <= d + 1
  PROVE  \E New : Discovers(E, c, Called(E, Dfs, c), New)
<1> DEFINE adj == Ascending(Neighbours(E, c.u))
           m == Len(adj)
           Through(i) == {adj[j] : j \in 1..i}
<1>1. c \in Call /\ c.u \in Vertex /\ c.u \notin Seen(c.st)
  BY FitFacts DEF Fit
<1>2. /\ Lists(adj, Neighbours(E, c.u)) /\ m \in Nat
      /\ \A i \in 1..m : adj[i] \in Neighbours(E, c.u)
      /\ Neighbours(E, c.u) \subseteq Vertex
      /\ DOMAIN adj = 1..m
  BY NeighbourList
<1>3. PICK after \in [0..m -> Loop] :
        LoopTurns(Dfs, c, adj, after) /\ Called(E, Dfs, c) = after[m].st
  BY <1>1, CalledUnfolds
<1>4. Through(m) = Neighbours(E, c.u)
  <2>1. PICK s, S, n : s = adj /\ S = Neighbours(E, c.u) /\ n = m
    OBVIOUS
  <2>2. Lists(s, S) /\ (\A i \in 1..n : s[i] \in S) /\ DOMAIN s = 1..n
    BY <1>2, <2>1
  <2>3. {s[j] : j \in 1..n} = S
    BY <2>2 DEF Lists
  <2> QED BY <2>1, <2>3
<1> HIDE DEF adj, m
<1> DEFINE P == {i \in 0..m : \E F : Looped(E, c, F, after[i], Through(i))}
<1>5. 0 \in P
  <2>1. Through(0) = {} /\ after[0] = LoopStart(c) /\ 0 \in 0..m
    BY <1>2, <1>3 DEF LoopTurns, m
  <2> HIDE DEF Through
  <2> QED BY <2>1, LoopStarts
<1>6. ASSUME NEW i \in P, i < m PROVE i + 1 \in P
  <2>1. PICK F : Looped(E, c, F, after[i], Through(i))
    OBVIOUS
  <2>2. i + 1 \in 1..m /\ i \in 0..m /\ i + 1 \in 0..m /\ (i + 1) - 1 = i
    BY <1>2, <1>6
  <2>3. PICK v : v = adj[i + 1]
    OBVIOUS
  <2>4. v \in Neighbours(E, c.u) /\ v \in Vertex
    BY <1>2, <2>2, <2>3
  <2>5. Through(i + 1) = Through(i) \cup {v}
    <3>1. \A j : j \in 1..(i + 1) <=> j \in 1..i \/ j = i + 1
      BY <2>2
    <3> QED BY <3>1, <2>3
  <2>6. PICK acc, r : acc = after[i] /\ r = after[i + 1] /\ acc \in Loop
    BY <2>2
  <2>7. r = Visit(Dfs, c, acc, v)
    BY <1>3, <2>2, <2>3, <2>6 DEF LoopTurns, m
  <2> HIDE DEF Through, P
  <2>8. PICK A : A = Through(i) /\ Looped(E, c, F, acc, A)
    BY <2>1, <2>6
  <2>9. CASE acc.st.disc[v] = -1
    <3>1. PICK cc : cc = Child(c, acc, v)
      OBVIOUS
    <3>2. Fit(E, cc)
      BY <2>4, <2>8, <2>9, <3>1, ChildFits
    <3>3. cc \in Call /\ cc.st = acc.st
      BY <3>1, <3>2 DEF Child, Fit
    <3>4. Cardinality(Left(cc.st)) <= d
      <4>1. Grown(c, F, cc.st)
        BY <2>8, <3>3 DEF Looped
      <4> QED BY <1>1, <4>1, LeftShrinks
    <3>5. PICK W : Discovers(E, cc, Dfs[cc], W)
      BY <3>2, <3>3, <3>4 DEF Contract
    <3>6. r = AfterChild(c, acc, v, Dfs[cc])
      BY <2>7, <2>9, <3>1, VisitChild DEF Child
    <3>7. Looped(E, c, F \cup {W}, r, A \cup {v})
      BY <2>4, <2>8, <2>9, <3>1, <3>5, <3>6, ChildTurn
    <3> QED BY <2>2, <2>5, <2>6, <2>8, <3>7 DEF P
  <2>10. CASE acc.st.disc[v] # -1
    <3>1. r = IF v # c.parent THEN AfterSeen(c, acc, v) ELSE acc
      BY <2>6, <2>7, <2>10, VisitSeen
    <3>2. Looped(E, c, F, r, A \cup {v})
      BY <2>4, <2>8, <2>10, <3>1, SeenTurn
    <3> QED BY <2>2, <2>5, <2>6, <2>8, <3>2 DEF P
  <2> QED BY <2>9, <2>10
<1>7. P = 0..m
  <2>1. m \in Nat /\ P \in SUBSET (0..m)
    BY <1>2 DEF m
  <2> HIDE DEF P
  <2> QED BY <1>5, <1>6, <2>1, BoundedInduction
<1>8. PICK F : Looped(E, c, F, after[m], Neighbours(E, c.u))
  <2>1. m \in 0..m
    BY <1>2 DEF m
  <2> QED BY <1>4, <1>7, <2>1 DEF m
<1>9. Discovers(E, c, after[m].st, {c.u} \cup UNION F)
  BY <1>8, LoopEnds
<1> QED BY <1>3, <1>9 DEF m

LEMMA SearchMeetsContract ==
  ASSUME NEW E
  PROVE  /\ ArticulationDfs(E) \in [Call -> Arrays]
         /\ Contract(E, ArticulationDfs(E), N)
<1>1. PICK dfs \in [0..N -> [Call -> Arrays]] : Nested(E, dfs) /\ ArticulationDfs(E) = dfs[N]
  BY DfsUnfolds
<1> DEFINE P == {d \in 0..N : Contract(E, dfs[d], d)}
<1>2. N \in Nat /\ P \in SUBSET (0..N)
  BY VertexFacts
<1>3. 0 \in P
  <2> SUFFICES ASSUME NEW c \in Call, Fit(E, c), Cardinality(Left(c.st)) <= 0 PROVE FALSE
    BY <1>2 DEF Contract
  <2>1. c.u \in Left(c.st) /\ Left(c.st) \in SUBSET Vertex
    BY FitFacts DEF Left
  <2>2. IsFiniteSet(Left(c.st)) /\ Cardinality(Left(c.st)) = 0
    BY <2>1, VertexFacts
  <2> QED BY <2>1, <2>2, FS_EmptySet
<1>4. ASSUME NEW d \in P, d < N PROVE d + 1 \in P
  <2>1. d + 1 \in 1..N /\ d \in 0..N /\ d + 1 \in 0..N /\ (d + 1) - 1 = d /\ d \in Nat
    BY <1>2, <1>4
  <2>2. PICK Dfs \in [Call -> Arrays] : Dfs = dfs[d] /\ Contract(E, Dfs, d)
    BY <2>1
  <2>3. dfs[d + 1] = [c \in Call |-> Called(E, Dfs, c)]
    BY <1>1, <2>1, <2>2 DEF Nested
  <2>4. ASSUME NEW c \in Call, Fit(E, c), Cardinality(Left(c.st)) <= d + 1
        PROVE  \E New : Discovers(E, c, dfs[d + 1][c], New)
    <3>1. \E New : Discovers(E, c, Called(E, Dfs, c), New)
      BY <2>1, <2>2, <2>4, CallKeepsContract
    <3>2. dfs[d + 1][c] = Called(E, Dfs, c)
      BY <2>3
    <3> QED BY <3>1, <3>2
  <2> QED BY <2>1, <2>4 DEF Contract
<1>5. P = 0..N
  <2> HIDE DEF P
  <2> QED BY <1>2, <1>3, <1>4, BoundedInduction
<1>6. N \in P
  BY <1>2, <1>5
<1> QED BY <1>1, <1>2, <1>6

-----------------------------------------------------------------------------
\* The searches from each vertex in turn.
RootCall(n, st) == [u |-> n - 1, parent |-> NoParent, st |-> st]
FromVertex(E, n, st) ==
  IF st.disc[n - 1] # -1 THEN st ELSE ArticulationDfs(E)[RootCall(n, st)]
Searches(E, from) ==
  /\ from[0] = Undiscovered
  /\ \A n \in 1..N : from[n] = FromVertex(E, n, from[n - 1])

LEMMA FromVertexType ==
  ASSUME NEW E, NEW n \in 1..N, NEW st \in Arrays
  PROVE  RootCall(n, st) \in Call /\ FromVertex(E, n, st) \in Arrays
<1>1. n - 1 \in Vertex
  BY VertexFacts DEF Vertex
<1>2. RootCall(n, st) \in Call
  BY <1>1 DEF RootCall, Call
<1> QED BY <1>2, SearchMeetsContract DEF FromVertex

LEMMA UndiscoveredFacts ==
  Undiscovered \in Arrays /\ Stamped(Undiscovered) /\ Seen(Undiscovered) = {}
<1>1. Undiscovered \in Arrays
  BY DEF Undiscovered, Arrays
<1>2. \A v \in Vertex : Undiscovered.disc[v] = -1
  BY DEF Undiscovered
<1>3. Undiscovered.timer = 0 /\ Undiscovered.isArt = {}
  BY DEF Undiscovered
<1> QED BY <1>1, <1>2, <1>3 DEF Stamped, Seen

LEMMA PointsUnfold ==
  ASSUME NEW E
  PROVE  \E from \in [0..N -> Arrays] :
           Searches(E, from) /\ ArticulationPoints(E) = from[N].isArt
<1> DEFINE Is(f) == f = [n \in 0..N |->
                           IF n = 0 THEN Undiscovered
                           ELSE IF f[n - 1].disc[n - 1] # -1 THEN f[n - 1]
                           ELSE ArticulationDfs(E)[[u |-> n - 1, parent |-> NoParent, st |-> f[n - 1]]]]
           from == CHOOSE f : Is(f)
<1>1. ArticulationPoints(E) = from[N].isArt
  BY DEF ArticulationPoints
<1>2. N \in Nat
  BY VertexFacts
<1>3. PICK b \in [0..N -> Arrays] : Is(b)
  <2> DEFINE step == [n \in 1..N |-> [st \in Arrays |-> FromVertex(E, n, st)]]
  <2>1. step \in [1..N -> [Arrays -> Arrays]]
    BY FromVertexType
  <2>2. \A n \in 1..N : \A st \in Arrays : step[n][st] = FromVertex(E, n, st)
    OBVIOUS
  <2> HIDE DEF step
  <2>3. PICK b \in [0..N -> Arrays] : Stepped(b, N, Undiscovered, step)
    BY <1>2, <2>1, UndiscoveredFacts, Recursion
  <2>4. ASSUME NEW n \in 0..N
        PROVE  b[n] = IF n = 0 THEN Undiscovered
                      ELSE IF b[n - 1].disc[n - 1] # -1 THEN b[n - 1]
                      ELSE ArticulationDfs(E)[[u |-> n - 1, parent |-> NoParent, st |-> b[n - 1]]]
    <3>1. CASE n = 0
      BY <2>3, <3>1 DEF Stepped
    <3>2. CASE n # 0
      <4>1. n \in 1..N /\ n - 1 \in 0..N
        BY <1>2, <3>2
      <4>2. b[n] = FromVertex(E, n, b[n - 1])
        BY <2>2, <2>3, <4>1 DEF Stepped
      <4> QED BY <3>2, <4>2 DEF FromVertex, RootCall
    <3> QED BY <3>1, <3>2
  <2>5. b = [n \in 0..N |-> b[n]]
    OBVIOUS
  <2>6. Is(b)
    BY <2>4, <2>5
  <2> QED BY <2>6
<1>4. Is(from)
  <2> HIDE DEF Is
  <2> QED BY <1>3
<1> HIDE DEF from
<1>5. /\ from = [n \in 0..N |-> from[n]]
      /\ \A n \in 0..N :
           from[n] = IF n = 0 THEN Undiscovered
                     ELSE IF from[n - 1].disc[n - 1] # -1 THEN from[n - 1]
                     ELSE ArticulationDfs(E)[[u |-> n - 1, parent |-> NoParent, st |-> from[n - 1]]]
  BY <1>4
<1> HIDE DEF Is
<1>6. 0 \in 0..N /\ \A n \in 1..N : n \in 0..N /\ n # 0
  BY <1>2
<1>7. from[0] = Undiscovered
  BY <1>5, <1>6
<1>8. \A n \in 1..N : from[n] = FromVertex(E, n, from[n - 1])
  BY <1>5, <1>6 DEF FromVertex, RootCall
<1>9. \A n \in 0..N : from[n] \in Arrays
  <2>1. \A n \in 1..N : from[n - 1] \in Arrays => from[n] \in Arrays
    BY <1>8, FromVertexType
  <2>2. from[0] \in Arrays
    BY <1>7, UndiscoveredFacts
  <2> QED BY <1>2, <2>1, <2>2, StaysIn
<1>10. from \in [0..N -> Arrays]
  BY <1>5, <1>9
<1> QED BY <1>1, <1>7, <1>8, <1>10 DEF Searches

\* A search that starts in a connected graph discovers all of it.
LEMMA PointsFound ==
  ASSUME NEW E, Reach(E, 0) = Vertex
  PROVE  ArticulationPoints(E) = {v \in Vertex : Separates(E, Vertex, v)}
<1>1. PICK from \in [0..N -> Arrays] :
        Searches(E, from) /\ ArticulationPoints(E) = from[N].isArt
  BY PointsUnfold
<1>2. N \in Nat /\ N >= 1 /\ 0 \in Vertex
  BY VertexFacts
<1>3. PICK c \in Call : c = RootCall(1, Undiscovered)
  <2>1. 1 \in 1..N
    BY <1>2
  <2> QED BY <2>1, UndiscoveredFacts, FromVertexType
<1>4. c.u = 0 /\ c.parent = NoParent /\ c.st = Undiscovered
  BY <1>3 DEF RootCall
<1>5. Fit(E, c)
  BY <1>4, UndiscoveredFacts DEF Fit
<1>6. Cardinality(Left(c.st)) <= N
  BY <1>2, VertexFacts DEF Left
<1>7. PICK r \in Arrays : r = ArticulationDfs(E)[c]
  BY SearchMeetsContract
<1>8. PICK New : Discovers(E, c, r, New)
  BY <1>5, <1>6, <1>7, SearchMeetsContract DEF Contract
<1>9. /\ New \in SUBSET Vertex /\ 0 \in New /\ Seen(r) = New /\ r.isArt \subseteq Seen(r)
      /\ \A x \in New : Neighbours(E, x) \subseteq New
      /\ \A x \in New : x \in r.isArt <=> Separates(E, New, x)
  BY <1>4, <1>8, UndiscoveredFacts DEF Discovers, Stamped
<1>10. New = Vertex
  <2>1. Closed(E, New)
    BY <1>9 DEF Closed
  <2> QED BY <1>2, <1>9, <2>1, ReachLeast
<1>11. r.isArt = {v \in Vertex : Separates(E, Vertex, v)}
  BY <1>9, <1>10
<1>12. from[1] = r
  <2>1. 1 \in 1..N /\ 1 - 1 = 0 /\ Undiscovered.disc[0] = -1
    BY <1>2 DEF Undiscovered
  <2> QED BY <1>1, <1>3, <1>7, <2>1 DEF Searches, FromVertex
<1> DEFINE P == {n \in 0..(N - 1) : from[n + 1] = r}
<1>13. 0 \in P
  BY <1>2, <1>12
<1>14. ASSUME NEW n \in P, n < N - 1 PROVE n + 1 \in P
  <2>1. (n + 1) + 1 \in 1..N /\ ((n + 1) + 1) - 1 = n + 1 /\ n + 1 \in 0..(N - 1)
    BY <1>2, <1>14
  <2>2. from[n + 1] = r /\ n + 1 \in Vertex
    BY <2>1 DEF Vertex
  <2>3. r.disc[n + 1] # -1
    BY <1>9, <1>10, <2>2 DEF Seen
  <2>4. from[(n + 1) + 1] = r
    BY <1>1, <2>1, <2>2, <2>3 DEF Searches, FromVertex
  <2> QED BY <2>1, <2>4
<1>15. P = 0..(N - 1)
  <2>1. N - 1 \in Nat /\ P \in SUBSET (0..(N - 1))
    BY <1>2
  <2> HIDE DEF P
  <2> QED BY <1>13, <1>14, <2>1, BoundedInduction
<1>16. from[N] = r
  <2>1. N - 1 \in 0..(N - 1) /\ (N - 1) + 1 = N
    BY <1>2
  <2>2. N - 1 \in P
    BY <1>15, <2>1
  <2> QED BY <2>1, <2>2
<1> QED BY <1>1, <1>11, <1>16

-----------------------------------------------------------------------------
(***************************************************************************)
(* What the analysis makes of the search: the parts that the removal of a  *)
(* vertex leaves, their number and the second of their sizes.              *)
(***************************************************************************)
Parts(E, v) == {Reach(Without(E, v), s) : s \in Vertex \ {v}}
ArtOf(E) == {v \in Vertex : Cardinality(Parts(E, v)) > 1}
SizesOf(P) == {Cardinality(C) : C \in P}
SecondOf(P) ==
  IF \E C, D \in P : /\ C # D
                     /\ Cardinality(C) = Max(SizesOf(P))
                     /\ Cardinality(D) = Max(SizesOf(P))
  THEN Max(SizesOf(P)) ELSE Max(SizesOf(P) \ {Max(SizesOf(P))})
Exact(E, count, worst) ==
  /\ count = Cardinality(ArtOf(E))
  /\ worst = Max({0} \cup {SecondOf(Parts(E, v)) : v \in ArtOf(E)})

LEMMA WithoutNeighbours ==
  ASSUME NEW E, NEW v, NEW y, y # v
  PROVE  Neighbours(Without(E, v), y) = Neighbours(E, y) \ {v}
<1>1. ASSUME NEW w PROVE {y, w} \in Without(E, v) <=> {y, w} \in E /\ w # v
  BY DEF Without
<1> QED BY <1>1 DEF Neighbours

\* A part is closed but for the edges to the vertex that is removed.
LEMMA PartSealed ==
  ASSUME NEW E, NEW v \in Vertex, NEW s \in Vertex \ {v}
  PROVE  LET C == Reach(Without(E, v), s)
         IN  C \in SUBSET (Vertex \ {v}) /\ s \in C /\ Sealed(E, v, C)
<1> DEFINE C == Reach(Without(E, v), s)
           W == Vertex \ {v}
<1>1. C \in SUBSET Vertex /\ s \in C /\ Closed(Without(E, v), C)
  BY ReachLeast
<1>2. Closed(Without(E, v), W)
  <2> SUFFICES ASSUME NEW y \in W PROVE Neighbours(Without(E, v), y) \subseteq W
    BY DEF Closed
  <2>1. Neighbours(Without(E, v), y) = Neighbours(E, y) \ {v}
    BY WithoutNeighbours
  <2> QED BY <2>1 DEF Neighbours
<1>3. C \subseteq W
  BY <1>2, ReachLeast
<1> HIDE DEF C
<1>4. Sealed(E, v, C)
  <2> SUFFICES ASSUME NEW y \in C PROVE Neighbours(E, y) \subseteq C \cup {v}
    BY DEF Sealed
  <2>1. y # v
    BY <1>3
  <2>2. Neighbours(Without(E, v), y) = Neighbours(E, y) \ {v}
    BY <2>1, WithoutNeighbours
  <2>3. Neighbours(Without(E, v), y) \subseteq C
    BY <1>1 DEF Closed
  <2> QED BY <2>2, <2>3
<1> QED BY <1>1, <1>3, <1>4 DEF C

LEMMA SealedHoldsParts ==
  ASSUME NEW E, NEW v \in Vertex, NEW C \in SUBSET (Vertex \ {v}), Sealed(E, v, C), NEW s \in C
  PROVE  Reach(Without(E, v), s) \subseteq C
<1>1. Closed(Without(E, v), C)
  <2> SUFFICES ASSUME NEW y \in C PROVE Neighbours(Without(E, v), y) \subseteq C
    BY DEF Closed
  <2>1. Neighbours(Without(E, v), y) = Neighbours(E, y) \ {v}
    BY WithoutNeighbours
  <2> QED BY <2>1 DEF Sealed
<1> QED BY <1>1, ReachLeast

LEMMA PartsFinite ==
  ASSUME NEW E, NEW v \in Vertex
  PROVE  /\ Parts(E, v) \in SUBSET SUBSET Vertex
         /\ IsFiniteSet(Parts(E, v)) /\ Cardinality(Parts(E, v)) \in Nat
         /\ Cardinality(Parts(E, v)) > 1 <=> \E C, D \in Parts(E, v) : C # D
<1> DEFINE P == Parts(E, v)
<1>1. P \in SUBSET SUBSET Vertex
  BY PartSealed DEF Parts
<1>2. IsFiniteSet(SUBSET Vertex)
  BY VertexFacts, FS_SUBSET
<1>3. IsFiniteSet(P)
  BY <1>1, <1>2, FS_Subset
<1>4. Cardinality(P) \in Nat
  BY <1>3, FS_CardinalityType
<1> HIDE DEF P
<1>5. ASSUME NEW C \in P, NEW D \in P, C # D PROVE Cardinality(P) > 1
  <2>1. P # {} /\ ~ \E x : P = {x}
    BY <1>5
  <2>2. Cardinality(P) # 0 /\ Cardinality(P) # 1
    BY <1>3, <2>1, FS_EmptySet, FS_Singleton
  <2> QED BY <1>4, <2>2
<1>6. ASSUME ~ \E C, D \in P : C # D PROVE ~(Cardinality(P) > 1)
  <2>1. P = {} \/ \E x : P = {x}
    BY <1>6
  <2>2. Cardinality(P) = 0 \/ Cardinality(P) = 1
    BY <2>1, <1>3, FS_EmptySet, FS_Singleton
  <2> QED BY <2>2
<1> QED BY <1>1, <1>3, <1>4, <1>5, <1>6 DEF P

\* A vertex separates the rest if its removal leaves more than one part.
LEMMA SeparatesParts ==
  ASSUME NEW E, NEW v \in Vertex
  PROVE  Separates(E, Vertex, v) <=> Cardinality(Parts(E, v)) > 1
<1> DEFINE W == Vertex \ {v}
           R(s) == Reach(Without(E, v), s)
<1>1. ASSUME NEW C \in SUBSET W, C # {}, C # W, Sealed(E, v, C)
      PROVE  \E P, Q \in Parts(E, v) : P # Q
  <2>1. PICK s \in C, t \in W : t \notin C
    BY <1>1
  <2>2. R(s) \subseteq C
    BY <1>1, SealedHoldsParts
  <2>3. t \in R(t)
    BY PartSealed
  <2>4. R(s) \in Parts(E, v) /\ R(t) \in Parts(E, v)
    BY DEF Parts
  <2> QED BY <2>1, <2>2, <2>3, <2>4
<1>2. ASSUME NEW P \in Parts(E, v), NEW Q \in Parts(E, v), P # Q
      PROVE  Separates(E, Vertex, v)
  <2>1. PICK s \in W, t \in W : P = R(s) /\ Q = R(t)
    BY DEF Parts
  <2>2. P \in SUBSET W /\ s \in P /\ Sealed(E, v, P)
    BY <2>1, PartSealed
  <2>3. P # W
    <3> SUFFICES ASSUME P = W PROVE FALSE
      OBVIOUS
    <3>1. t \in R(s) /\ s \in Vertex
      BY <2>1
    <3>2. R(t) = R(s)
      BY <3>1, ReachMutual
    <3> QED BY <1>2, <2>1, <3>2
  <2> QED BY <2>2, <2>3 DEF Separates
<1> QED BY <1>1, <1>2, PartsFinite DEF Separates

LEMMA GreatestOf ==
  ASSUME NEW S \in SUBSET Nat, IsFiniteSet(S), S # {}
  PROVE  Max(S) \in S /\ \A k \in S : k <= Max(S)
<1>1. \E m \in S : \A k \in S : k <= m
  BY GreatestNatural
<1>2. \E m \in S : \A k \in S : m >= k
  BY <1>1
<1>3. Max(S) \in S /\ \A k \in S : Max(S) >= k
  BY <1>2 DEF Max
<1> QED BY <1>3

LEMMA GreatestIs ==
  ASSUME NEW S \in SUBSET Nat, NEW m \in S, \A k \in S : k <= m
  PROVE  Max(S) = m
<1>1. \A k \in S : m >= k
  OBVIOUS
<1>2. PICK g \in S : g = Max(S) /\ \A k \in S : g >= k
  BY <1>1 DEF Max
<1>3. g \in Nat /\ m \in Nat /\ g >= m /\ g <= m
  BY <1>2
<1> QED BY <1>2, <1>3

LEMMA SizesFacts ==
  ASSUME NEW P \in SUBSET SUBSET Vertex
  PROVE  /\ SizesOf(P) \in SUBSET (0..N) /\ SizesOf(P) \in SUBSET Nat
         /\ \A S \in SUBSET SizesOf(P) : IsFiniteSet(S) /\ S \in SUBSET Nat
<1>1. SizesOf(P) \in SUBSET (0..N)
  BY VertexFacts DEF SizesOf
<1>2. IsFiniteSet(0..N)
  BY VertexFacts, FS_Interval
<1>3. \A S \in SUBSET SizesOf(P) : S \in SUBSET (0..N)
  BY <1>1
<1>4. \A S \in SUBSET SizesOf(P) : IsFiniteSet(S)
  BY <1>2, <1>3, FS_Subset
<1> QED BY <1>1, <1>4

\* With a largest part set aside, the largest that is left has the second size.
LEMMA SecondLargest ==
  ASSUME NEW P \in SUBSET SUBSET Vertex, NEW first \in P,
         \A D \in P : Cardinality(D) <= Cardinality(first), P # {first}
  PROVE  /\ Max({0} \cup SizesOf(P \ {first})) = SecondOf(P)
         /\ SecondOf(P) \in 0..N
<1> DEFINE rest == SizesOf(P \ {first})
           m == Cardinality(first)
<1>1. /\ SizesOf(P) \in SUBSET (0..N) /\ SizesOf(P) \in SUBSET Nat
      /\ \A S \in SUBSET SizesOf(P) : IsFiniteSet(S) /\ S \in SUBSET Nat
  BY SizesFacts
<1>2. m \in SizesOf(P) /\ \A k \in SizesOf(P) : k <= m
  BY DEF SizesOf
<1>3. Max(SizesOf(P)) = m
  BY <1>1, <1>2, GreatestIs
<1>4. rest \in SUBSET SizesOf(P) /\ rest # {}
  <2>1. PICK C \in P : C # first
    OBVIOUS
  <2>2. Cardinality(C) \in rest
    BY <2>1 DEF SizesOf
  <2> QED BY <2>2 DEF SizesOf
<1>5. IsFiniteSet(rest) /\ rest \in SUBSET Nat /\ rest \in SUBSET (0..N)
  BY <1>1, <1>4
<1>6. Max({0} \cup rest) = Max(rest) /\ Max(rest) \in rest
  <2>1. Max(rest) \in rest /\ \A k \in rest : k <= Max(rest)
    BY <1>4, <1>5, GreatestOf
  <2> HIDE DEF rest
  <2>2. Max(rest) \in {0} \cup rest /\ {0} \cup rest \in SUBSET Nat
    BY <1>5, <2>1
  <2>3. \A k \in {0} \cup rest : k <= Max(rest)
    <3>1. Max(rest) \in Nat
      BY <1>5, <2>1
    <3>2. 0 <= Max(rest)
      BY <3>1
    <3> QED BY <2>1, <3>2
  <2> QED BY <2>1, <2>2, <2>3, GreatestIs
<1>7. CASE \E C, D \in P : C # D /\ Cardinality(C) = m /\ Cardinality(D) = m
  <2>1. SecondOf(P) = m
    BY <1>3, <1>7 DEF SecondOf
  <2>2. m \in rest
    <3>1. PICK C \in P : C # first /\ Cardinality(C) = m
      BY <1>7
    <3> QED BY <3>1 DEF SizesOf
  <2>3. \A k \in rest : k <= m
    BY <1>2, <1>4
  <2>4. Max(rest) = m
    <3> HIDE DEF rest, m
    <3> QED BY <1>5, <2>2, <2>3, GreatestIs
  <2> QED BY <1>5, <1>6, <2>1, <2>4
<1>8. CASE ~ \E C, D \in P : C # D /\ Cardinality(C) = m /\ Cardinality(D) = m
  <2>1. SecondOf(P) = Max(SizesOf(P) \ {m})
    BY <1>3, <1>8 DEF SecondOf
  <2>2. rest = SizesOf(P) \ {m}
    BY <1>8 DEF SizesOf
  <2> QED BY <1>5, <1>6, <2>1, <2>2
<1> QED BY <1>7, <1>8

LEMMA SecondFound ==
  ASSUME NEW E, NEW v \in Vertex, Cardinality(Parts(E, v)) > 1
  PROVE  SecondComponent(E, v) = SecondOf(Parts(E, v)) /\ SecondOf(Parts(E, v)) \in 0..N
<1> DEFINE left == {ToSet(Component(Without(E, v), s)) : s \in Vertex \ {v}}
           first == CHOOSE C \in left : \A D \in left : Cardinality(D) <= Cardinality(C)
<1>1. left = Parts(E, v)
  <2>1. \A s \in Vertex \ {v} : ToSet(Component(Without(E, v), s)) = Reach(Without(E, v), s)
    BY ComponentSize
  <2> QED BY <2>1 DEF Parts
<1>2. SecondComponent(E, v) = Max({0} \cup SizesOf(left \ {first}))
  BY DEF SecondComponent, SizesOf
<1>3. left \in SUBSET SUBSET Vertex /\ \E C, D \in left : C # D
  BY <1>1, PartsFinite
<1> HIDE DEF left
<1>4. first \in left /\ \A D \in left : Cardinality(D) <= Cardinality(first)
  <2>1. SizesOf(left) \in SUBSET Nat /\ IsFiniteSet(SizesOf(left))
    BY <1>3, SizesFacts
  <2>2. SizesOf(left) # {}
    BY <1>3 DEF SizesOf
  <2>3. PICK m \in SizesOf(left) : \A k \in SizesOf(left) : k <= m
    BY <2>1, <2>2, GreatestNatural
  <2>4. \E C \in left : \A D \in left : Cardinality(D) <= Cardinality(C)
    BY <2>3 DEF SizesOf
  <2> QED BY <2>4
<1>5. left # {first}
  BY <1>3
<1> HIDE DEF first
<1>6. Max({0} \cup SizesOf(left \ {first})) = SecondOf(left) /\ SecondOf(left) \in 0..N
  BY <1>3, <1>4, <1>5, SecondLargest
<1> QED BY <1>1, <1>2, <1>6

\* Of a connected graph, the analysis is exact.
LEMMA AnalysisExact ==
  ASSUME NEW E, Reach(E, 0) = Vertex
  PROVE  Exact(E, AnalyzeArticulation(E).artCount, AnalyzeArticulation(E).worstSecond)
<1> DEFINE art == ArticulationPoints(E)
<1>1. art = ArtOf(E)
  BY PointsFound, SeparatesParts DEF ArtOf
<1>2. \A v \in ArtOf(E) : SecondComponent(E, v) = SecondOf(Parts(E, v))
  BY SecondFound DEF ArtOf
<1>3. {SecondComponent(E, v) : v \in art} = {SecondOf(Parts(E, v)) : v \in ArtOf(E)}
  BY <1>1, <1>2
<1>4. /\ AnalyzeArticulation(E).artCount = Cardinality(art)
      /\ AnalyzeArticulation(E).worstSecond = Max({0} \cup {SecondComponent(E, v) : v \in art})
  BY DEF AnalyzeArticulation
<1> QED BY <1>1, <1>3, <1>4 DEF Exact

-----------------------------------------------------------------------------
(***************************************************************************)
(* The analysis through Build's loop.                                      *)
(***************************************************************************)
\* What was analysed is the last connected draw: a mesh that lost vertices
\* comes from a later one.
AnalysisInv ==
  /\ ~drawn /\ Reach(edges, 0) = Vertex => Exact(edges, artCount, worstSecond)
  /\ \/ artCount = 0 /\ worstSecond = 0
     \/ ~WithinLimit(worstSecond)
     \/ mesh # Unbuilt /\ mesh.dropped = 0
  /\ mesh # Unbuilt /\ mesh.dropped = 0 => Reach(edges, 0) = Vertex
  /\ mesh # Unbuilt /\ mesh.regenAttempts < maxRegenAttempts =>
       /\ mesh.edges = edges
       /\ Reach(edges, 0) = Vertex
       /\ WithinLimit(worstSecond)

\* The limit is read before anything is built.
LimitedStep ==
  \/ Iterate /\ UNCHANGED maxRegenAttempts
  \/ UNCHANGED buildVars /\ (mesh # Unbuilt => UNCHANGED maxRegenAttempts)

LEMMA ConnectedReach == Connected <=> Reach(edges, 0) = Vertex
<1> DEFINE giant == LargestConnectedComponent(edges)
<1>1. PICK s \in Vertex : IsLargest(edges, giant, s)
  BY LargestIsLargest
<1>2. Len(giant) = Cardinality(Reach(edges, s)) /\ Reach(edges, s) \in SUBSET Vertex
  BY <1>1, ComponentSize, ReachLeast DEF IsLargest
<1>3. ASSUME Connected PROVE Reach(edges, 0) = Vertex
  <2>1. Cardinality(Reach(edges, s)) = N
    BY <1>2, <1>3 DEF Connected
  <2>2. Reach(edges, s) = Vertex
    BY <1>2, <2>1, VertexFacts, FS_Subset
  <2> QED BY <2>2, VertexFacts, ReachMutual
<1>4. ASSUME Reach(edges, 0) = Vertex PROVE Connected
  <2>1. Reach(edges, s) = Vertex
    BY <1>4, VertexFacts, ReachMutual
  <2> QED BY <1>2, <2>1, VertexFacts DEF Connected
<1> QED BY <1>3, <1>4

LEMMA NothingToSeparate == edges = {} /\ Reach(edges, 0) = Vertex => Exact(edges, 0, 0)
<1> SUFFICES ASSUME edges = {}, Reach(edges, 0) = Vertex PROVE Exact(edges, 0, 0)
  OBVIOUS
<1>1. Closed(edges, {0})
  BY DEF Closed, Neighbours
<1>2. Vertex = {0}
  BY <1>1, VertexFacts, ReachLeast
<1>3. Parts(edges, 0) = {}
  BY <1>2 DEF Parts
<1>4. ArtOf(edges) = {}
  BY <1>2, <1>3, FS_EmptySet DEF ArtOf
<1>5. {SecondOf(Parts(edges, v)) : v \in ArtOf(edges)} = {}
  BY <1>4
<1>6. Max({0} \cup {}) = 0
  BY GreatestIs
<1>7. Cardinality(ArtOf(edges)) = 0
  BY <1>4, FS_EmptySet
<1> QED BY <1>5, <1>6, <1>7 DEF Exact

LEMMA ResultBuilt ==
  ASSUME NEW n, n # 0, NEW E, NEW art, NEW dropped
  PROVE  /\ Result(n, E, art, dropped) # Unbuilt
         /\ Result(n, E, art, dropped).dropped = dropped
         /\ Result(n, E, art, dropped).edges = E
         /\ Result(n, E, art, dropped).regenAttempts = attempts
<1>1. Result(n, E, art, dropped).nodes = n /\ Unbuilt.nodes = 0
  BY DEF Result, Unbuilt
<1> QED BY <1>1 DEF Result

LEMMA AnalysisStep ==
  BuildTypes /\ MeshInv /\ AnalysisInv /\ LimitedStep => AnalysisInv'
<1> SUFFICES ASSUME BuildTypes, MeshInv, AnalysisInv, LimitedStep PROVE AnalysisInv'
  OBVIOUS
<1>1. CASE UNCHANGED buildVars /\ (mesh # Unbuilt => UNCHANGED maxRegenAttempts)
  <2>1. /\ drawn' = drawn /\ edges' = edges /\ artCount' = artCount
        /\ worstSecond' = worstSecond /\ mesh' = mesh
    BY <1>1 DEF buildVars
  <2>2. mesh # Unbuilt => maxRegenAttempts' = maxRegenAttempts
    BY <1>1
  <2> QED BY <2>1, <2>2 DEF AnalysisInv, WithinLimit
<1>2. CASE \E E \in Graph : Draw(E)
  <2>1. drawn' /\ artCount' = artCount /\ worstSecond' = worstSecond /\ mesh = Unbuilt /\ mesh' = Unbuilt
    BY <1>2 DEF Draw
  <2> QED BY <2>1 DEF AnalysisInv, WithinLimit
<1>3. CASE RetryDisconnected
  <2>1. /\ edges' = edges /\ artCount' = artCount /\ worstSecond' = worstSecond
        /\ mesh = Unbuilt /\ mesh' = Unbuilt
    BY <1>3 DEF RetryDisconnected, Checked, MeshInv
  <2>2. Reach(edges, 0) # Vertex
    BY <1>3, ConnectedReach DEF RetryDisconnected
  <2> QED BY <2>1, <2>2 DEF AnalysisInv, WithinLimit
<1>4. ASSUME Analyzed
      PROVE  /\ edges' = edges /\ mesh = Unbuilt /\ Reach(edges, 0) = Vertex
             /\ Exact(edges, artCount', worstSecond')
  <2>1. edges' = edges /\ mesh = Unbuilt
    BY <1>4 DEF Analyzed, Checked, MeshInv
  <2>2. Reach(edges, 0) = Vertex
    BY <1>4, ConnectedReach DEF Analyzed
  <2>3. /\ artCount' = AnalyzeArticulation(edges).artCount
        /\ worstSecond' = AnalyzeArticulation(edges).worstSecond
    BY <1>4 DEF Analyzed
  <2> QED BY <2>1, <2>2, <2>3, AnalysisExact
<1>5. CASE RetryBottleneck
  <2>1. Analyzed /\ ~WithinLimit(worstSecond') /\ mesh' = mesh
    BY <1>5 DEF RetryBottleneck
  <2> QED BY <1>4, <2>1 DEF AnalysisInv, WithinLimit
<1>6. CASE Accept
  <2>1. Analyzed /\ WithinLimit(worstSecond') /\ mesh' = Result(N, edges, artCount', 0)
    BY <1>6 DEF Accept
  <2>2. mesh' # Unbuilt /\ mesh'.dropped = 0 /\ mesh'.edges = edges
    BY <2>1, VertexFacts, ResultBuilt
  <2> QED BY <1>4, <2>1, <2>2 DEF AnalysisInv, WithinLimit
<1>7. CASE FallBack /\ UNCHANGED maxRegenAttempts
  <2> DEFINE giant == LargestConnectedComponent(edges)
             E == IF N - Len(giant) > 0 THEN Remapped(edges, giant) ELSE edges
  <2>1. /\ edges' = edges /\ drawn' = drawn /\ artCount' = artCount /\ worstSecond' = worstSecond
        /\ mesh = Unbuilt /\ mesh' = Result(Len(giant), E, artCount, N - Len(giant))
        /\ attempts = maxRegenAttempts
    BY <1>7 DEF FallBack
  <2>2. Len(giant) \in 1..N
    BY PartOfMesh DEF BuildTypes
  <2> HIDE DEF giant, E
  <2>3. mesh'.dropped = N - Len(giant) /\ mesh'.regenAttempts = attempts
    BY <2>1, <2>2, ResultBuilt
  <2>4. N - Len(giant) = 0 => Len(giant) = N
    BY <2>2, VertexFacts
  <2>5. mesh'.dropped = 0 => Reach(edges, 0) = Vertex
    BY <2>3, <2>4, ConnectedReach DEF Connected, giant
  <2>6. maxRegenAttempts' = maxRegenAttempts
    BY <1>7
  <2>7. ~(mesh'.regenAttempts < maxRegenAttempts')
    BY <2>1, <2>3, <2>6 DEF BuildTypes
  <2> QED BY <2>1, <2>5, <2>7 DEF AnalysisInv, WithinLimit
<1> QED BY <1>1, <1>2, <1>3, <1>5, <1>6, <1>7 DEF LimitedStep, Iterate

LEMMA LimitStep == MainInv /\ [StartNext]_startVars => LimitedStep
<1> SUFFICES ASSUME MainInv, [StartNext]_startVars PROVE LimitedStep
  OBVIOUS
<1>1. CASE LoadConfig
  BY <1>1 DEF LoadConfig, Advance, MainInv, LimitedStep
<1>2. CASE BuildMesh
  BY <1>2 DEF BuildMesh, Next, LimitedStep
<1>3. CASE ~LoadConfig /\ ~BuildMesh
  <2>1. UNCHANGED vars
    BY <1>3 DEF StartNext, startVars, LoadFails, ProbeFails, ProbeWritable,
                OpenLogs, MeshBuilt, OpenLog
  <2> QED BY <2>1 DEF vars, LimitedStep
<1> QED BY <1>1, <1>2, <1>3

LEMMA AnalysisSays == BuildTypes /\ MeshInv /\ AnalysisInv => ArticulationExact
<1> SUFFICES ASSUME BuildTypes, MeshInv, AnalysisInv PROVE ArticulationExact
  OBVIOUS
<1>1. ASSUME mesh # Unbuilt, mesh.dropped > 0
      PROVE  (artCount = 0 /\ worstSecond = 0) \/ ~WithinLimit(worstSecond)
  BY <1>1 DEF AnalysisInv
<1>2. ASSUME mesh # Unbuilt, mesh.dropped = 0
      PROVE  Exact(edges, artCount, worstSecond)
  BY <1>2 DEF AnalysisInv, MeshInv
<1> QED BY <1>1, <1>2 DEF ArticulationExact, Exact, ArtOf, SecondOf, SizesOf, Parts

\* Two parts that are both larger than k leave a second size larger than k.
LEMMA SecondAtLeast ==
  ASSUME NEW P \in SUBSET SUBSET Vertex, NEW C \in P, NEW D \in P, C # D
  PROVE  \E B \in {C, D} : Cardinality(B) <= SecondOf(P)
<1> DEFINE m == Max(SizesOf(P))
           rest == SizesOf(P) \ {m}
<1>1. /\ SizesOf(P) \in SUBSET (0..N) /\ SizesOf(P) \in SUBSET Nat /\ IsFiniteSet(SizesOf(P))
      /\ rest \in SUBSET Nat /\ IsFiniteSet(rest)
  BY SizesFacts
<1>2. Cardinality(C) \in SizesOf(P) /\ Cardinality(D) \in SizesOf(P)
  BY DEF SizesOf
<1>3. \A k \in SizesOf(P) : k <= m
  BY <1>1, <1>2, GreatestOf
<1>4. CASE \E A, B \in P : A # B /\ Cardinality(A) = m /\ Cardinality(B) = m
  BY <1>2, <1>3, <1>4 DEF SecondOf
<1>5. CASE ~ \E A, B \in P : A # B /\ Cardinality(A) = m /\ Cardinality(B) = m
  <2>1. SecondOf(P) = Max(rest)
    BY <1>5 DEF SecondOf
  <2>2. PICK B \in {C, D} : Cardinality(B) # m
    BY <1>5
  <2>3. Cardinality(B) \in rest
    BY <1>2, <2>2
  <2>4. Cardinality(B) <= Max(rest)
    <3> HIDE DEF rest
    <3> QED BY <1>1, <2>3, GreatestOf
  <2> QED BY <2>1, <2>4
<1> QED BY <1>4, <1>5

LEMMA SecondWithinWorst ==
  ASSUME NEW E, NEW count, NEW worst, Exact(E, count, worst), NEW v \in ArtOf(E)
  PROVE  SecondOf(Parts(E, v)) \in Nat /\ worst \in Nat /\ SecondOf(Parts(E, v)) <= worst
<1> DEFINE S == {0} \cup {SecondOf(Parts(E, x)) : x \in ArtOf(E)}
<1>1. \A x \in ArtOf(E) : SecondOf(Parts(E, x)) \in 0..N
  BY SecondFound DEF ArtOf
<1>2. N \in Nat
  BY VertexFacts
<1>3. S \in SUBSET (0..N) /\ S \in SUBSET Nat
  BY <1>1, <1>2
<1>4. worst = Max(S) /\ SecondOf(Parts(E, v)) \in S /\ S # {}
  BY DEF Exact
<1> HIDE DEF S
<1>5. IsFiniteSet(S)
  <2>1. IsFiniteSet(0..N)
    BY <1>2, FS_Interval
  <2> QED BY <1>3, <2>1, FS_Subset
<1>6. Max(S) \in S /\ \A k \in S : k <= Max(S)
  BY <1>3, <1>4, <1>5, GreatestOf
<1> QED BY <1>3, <1>4, <1>6

LEMMA LimitSays ==
  ASSUME NEW k \in Nat, NEW worst \in Nat, k <= worst, WithinLimit(worst)
  PROVE  ~(100 * k > BottleneckPercent * N)
<1>1. PICK p \in Nat : p = BottleneckPercent * N
  BY MeshAssumption
<1>2. worst <= p \div 100
  BY <1>1 DEF WithinLimit
<1>3. 100 * k <= p
  BY <1>2
<1> QED BY <1>1, <1>3

LEMMA BottleneckSays == BuildTypes /\ MeshInv /\ AnalysisInv => NoBottleneckUnlessExhausted
<1> SUFFICES ASSUME BuildTypes, MeshInv, AnalysisInv,
                    mesh # Unbuilt, mesh.regenAttempts < maxRegenAttempts,
                    NEW v \in Vertex, Strands(N, mesh.edges, v)
             PROVE  FALSE
  BY DEF NoBottleneckUnlessExhausted
<1>1. /\ mesh.edges = edges /\ WithinLimit(worstSecond)
      /\ Exact(edges, artCount, worstSecond)
  BY DEF AnalysisInv, MeshInv
<1>2. PICK s \in Vertex \ {v}, t \in Vertex \ {v} :
        /\ t \notin Reach(Without(edges, v), s)
        /\ 100 * Cardinality(Reach(Without(edges, v), s)) > BottleneckPercent * N
        /\ 100 * Cardinality(Reach(Without(edges, v), t)) > BottleneckPercent * N
  BY <1>1 DEF Strands, Vertex
<1>3. PICK near, far : /\ near = Reach(Without(edges, v), s)
                       /\ far = Reach(Without(edges, v), t)
  OBVIOUS
<1>4. near \in Parts(edges, v) /\ far \in Parts(edges, v)
  BY <1>3 DEF Parts
<1>5. near # far
  BY <1>2, <1>3, PartSealed
<1>6. v \in ArtOf(edges)
  BY <1>4, <1>5, PartsFinite DEF ArtOf
<1>7. PICK B \in {near, far} : Cardinality(B) <= SecondOf(Parts(edges, v))
  BY <1>4, <1>5, PartsFinite, SecondAtLeast
<1>8. Cardinality(B) \in Nat
  BY <1>4, PartsFinite, VertexFacts
<1>9. worstSecond \in Nat /\ Cardinality(B) <= worstSecond
  BY <1>1, <1>6, <1>7, <1>8, SecondWithinWorst
<1>10. ~(100 * Cardinality(B) > BottleneckPercent * N)
  BY <1>1, <1>8, <1>9, LimitSays
<1> QED BY <1>2, <1>3, <1>7, <1>10

LEMMA AnalysisStarts == StartInit => AnalysisInv
<1> SUFFICES ASSUME StartInit PROVE AnalysisInv
  OBVIOUS
<1>1. edges = {} /\ artCount = 0 /\ worstSecond = 0 /\ mesh = Unbuilt
  BY DEF StartInit, Init
<1> QED BY <1>1, NothingToSeparate DEF AnalysisInv

LEMMA AnalysisKept ==
  MainInv /\ BuildTypes /\ MeshInv /\ AnalysisInv /\ [StartNext]_startVars => AnalysisInv'
BY LimitStep, AnalysisStep

LEMMA AnalysisHolds == StartSpec => [](BuildTypes /\ MeshInv /\ AnalysisInv)
BY MainStarts, MainKept, MeshStarts, MeshKept, AnalysisStarts, AnalysisKept, PTL DEF StartSpec

\* Whatever is drawn: what the depth-first search says of the network that was
\* built is what removing each vertex in turn says, its number of articulation
\* points and the largest second part alike, and what it says of a network
\* that lost vertices is left over from a draw that was refused.
THEOREM ArticulationFound == StartSpec => []ArticulationExact
BY AnalysisHolds, AnalysisSays, PTL

\* A network accepted before the attempts ran out has no vertex that strands
\* more than the permitted share of it.
THEOREM BottlenecksRefused == StartSpec => []NoBottleneckUnlessExhausted
BY AnalysisHolds, BottleneckSays, PTL

=============================================================================
