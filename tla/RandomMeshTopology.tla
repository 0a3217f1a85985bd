------------------------- MODULE RandomMeshTopology -------------------------
(***************************************************************************)
(* The mesh builder (contrib/livetrace/model/random-mesh-topology.cc).     *)
(*                                                                         *)
(* Build draws random graphs until one is connected and no articulation    *)
(* point splits off a large second component; when the attempts run out it *)
(* keeps the giant component of the last draw, renumbered from 0.          *)
(*                                                                         *)
(* Data abstraction: a draw is any set of edges (the edge probability is   *)
(* left open).  Edges are generated in lexicographic order, so every       *)
(* adjacency list is ascending and an edge set determines every traversal. *)
(***************************************************************************)
EXTENDS Integers, Sequences, FiniteSets, FiniteSetsExt, SequencesExt

CONSTANTS
  N,                  \* m_n
  RegenLimits,        \* the values m_maxRegenAttempts may have
  BottleneckPercent   \* kBottleneckFraction, in percent

ASSUME MeshAssumption ==
  /\ N \in Nat \ {0}
  /\ RegenLimits \subseteq Nat \ {0}
  /\ BottleneckPercent \in 0..100

VARIABLES
  maxRegenAttempts,  \* m_maxRegenAttempts
  attempts,      \* draws made
  drawn,         \* the last draw has not been checked yet
  edges,         \* the last draw
  artCount,      \* AnalyzeArticulation's outputs, for the last draw it ran on
  worstSecond,
  mesh           \* the BuildResult, or Unbuilt

buildVars == <<attempts, drawn, edges, artCount, worstSecond, mesh>>
vars == <<maxRegenAttempts, buildVars>>

Vertex == 0..(N - 1)
Graph == SUBSET kSubset(2, Vertex)
Unbuilt == [nodes |-> 0]

-----------------------------------------------------------------------------
Neighbours(E, u) == {v \in Vertex : {u, v} \in E}

\* The members of a set of vertices, each at the place the number of lesser
\* ones gives it.
Ascending(S) ==
  [i \in 1..Cardinality(S) |-> CHOOSE v \in S : Cardinality({w \in S : w < v}) = i - 1]

(***************************************************************************)
(* Breadth-first search.  What was queued stays in order, so that the      *)
(* queue's front in turn i of the loop is order[i]; no more than N turns   *)
(* take anything out.  The three traversals of the source differ only in   *)
(* what they read off the result.                                          *)
(***************************************************************************)
TakeOut(E, q, i) ==
  LET u   == q.order[i]
      new == {v \in Neighbours(E, u) : q.dist[v] = -1}
  IN  IF i > Len(q.order) THEN q
      ELSE [order |-> q.order \o Ascending(new),
            dist  |-> [v \in Vertex |-> IF v \in new THEN q.dist[u] + 1 ELSE q.dist[v]]]

Bfs(E, s) ==
  LET after[i \in 0..N] ==
        IF i = 0 THEN [order |-> <<s>>, dist |-> [v \in Vertex |-> IF v = s THEN 0 ELSE -1]]
        ELSE TakeOut(E, after[i - 1], i)
  IN  after[N]

Component(E, s) == Bfs(E, s).order

\* Mutant: the component of vertex 0 is taken.
LargestConnectedComponent_First(E) == Component(E, 0)

\* Of the components of maximal size, the one met first.
LargestConnectedComponent(E) ==
  LET size(s) == Len(Component(E, s))
      best    == Min({s \in Vertex : \A t \in Vertex : size(t) <= size(s)})
  IN  Component(E, best)

-----------------------------------------------------------------------------
(***************************************************************************)
(* Tarjan's articulation-point search.  A call hands on the arrays shared  *)
(* by all calls; its own loop counts the children beside them.             *)
(***************************************************************************)
NoParent == -1

Arrays == [disc : [Vertex -> Int], low : [Vertex -> Int], timer : Int, isArt : SUBSET Vertex]
Call == [u : Vertex, parent : Vertex \cup {NoParent}, st : Arrays]

Enter(c) ==
  [c.st EXCEPT !.disc[c.u] = c.st.timer, !.low[c.u] = c.st.timer, !.timer = @ + 1]

\* Mutant: the root is treated like any other vertex.
Articulates_NoRootCase(c, st, v, children) == st.low[v] >= st.disc[c.u]

Articulates(c, st, v, children) ==
  IF c.parent = NoParent THEN children > 1 ELSE st.low[v] >= st.disc[c.u]

Lower(st, u, value) ==
  [st EXCEPT !.low[u] = IF value < @ THEN value ELSE @]

\* One turn of a call's loop, for the neighbour v; Dfs is the search.
Visit(Dfs, c, acc, v) ==
  LET below    == Dfs[[u |-> v, parent |-> c.u, st |-> acc.st]]
      lowered  == Lower(below, c.u, below.low[v])
      children == acc.children + 1
  IN  IF acc.st.disc[v] = -1 THEN
        [children |-> children,
         st |-> IF Articulates(c, lowered, v, children)
                THEN [lowered EXCEPT !.isArt = @ \cup {c.u}] ELSE lowered]
      ELSE IF v # c.parent THEN [acc EXCEPT !.st = Lower(@, c.u, @.disc[v])]
      ELSE acc

\* A call: the loop over the neighbours.
Called(E, Dfs, c) ==
  LET adj == Ascending(Neighbours(E, c.u))
      after[i \in 0..Len(adj)] ==
        IF i = 0 THEN [children |-> 0, st |-> Enter(c)]
        ELSE Visit(Dfs, c, after[i - 1], adj[i])
  IN  after[Len(adj)].st

\* The search with calls nested up to N deep.  Each is for a vertex not
\* discovered before, so that no call is nested deeper.
ArticulationDfs(E) ==
  LET dfs[depth \in 0..N] ==
        [c \in Call |-> IF depth = 0 THEN c.st ELSE Called(E, dfs[depth - 1], c)]
  IN  dfs[N]

Undiscovered ==
  [disc |-> [v \in Vertex |-> -1], low |-> [v \in Vertex |-> -1], timer |-> 0, isArt |-> {}]

\* A search from every vertex that none before has discovered.
ArticulationPoints(E) ==
  LET from[n \in 0..N] ==
        IF n = 0 THEN Undiscovered
        ELSE IF from[n - 1].disc[n - 1] # -1 THEN from[n - 1]
        ELSE ArticulationDfs(E)[[u |-> n - 1, parent |-> NoParent, st |-> from[n - 1]]]
  IN  from[N].isArt

Without(E, v) == {e \in E : v \notin e}

\* Size of the second-largest component left when v is removed.
SecondComponent(E, v) ==
  LET left  == {ToSet(Component(Without(E, v), s)) : s \in Vertex \ {v}}
      first == CHOOSE C \in left : \A D \in left : Cardinality(D) <= Cardinality(C)
  IN  Max({0} \cup {Cardinality(C) : C \in left \ {first}})

AnalyzeArticulation(E) ==
  LET art == ArticulationPoints(E)
  IN  [artCount |-> Cardinality(art),
       worstSecond |-> Max({0} \cup {SecondComponent(E, v) : v \in art})]

\* Of a distance for each pair.
Stats(d) ==
  [diameter    |-> Max({0} \cup {d[p] : p \in DOMAIN d}),
   distanceSum |-> MapThenSumSet(LAMBDA p : d[p], DOMAIN d),
   pairCount   |-> Cardinality(DOMAIN d)]

\* Mutant: a vertex is paired with itself.
ComputePathStats_WithSelf(n, E) ==
  LET dist  == [s \in 0..(n - 1) |-> Bfs(E, s).dist]
      pairs == {p \in (0..(n - 1)) \X (0..(n - 1)) : dist[p[1]][p[2]] >= 0}
  IN  Stats([p \in pairs |-> dist[p[1]][p[2]]])

\* The mean path length is distanceSum / pairCount.
ComputePathStats(n, E) ==
  LET dist  == [s \in 0..(n - 1) |-> Bfs(E, s).dist]
      pairs == {p \in (0..(n - 1)) \X (0..(n - 1)) :
                  p[1] # p[2] /\ dist[p[1]][p[2]] >= 0}
  IN  Stats([p \in pairs |-> dist[p[1]][p[2]]])

-----------------------------------------------------------------------------
(***************************************************************************)
(* Build: an iteration of its loop draws (GenerateEdges), then checks.      *)
(***************************************************************************)
Init ==
  /\ maxRegenAttempts \in RegenLimits
  /\ attempts = 0
  /\ drawn = FALSE
  /\ edges = {}
  /\ artCount = 0
  /\ worstSecond = 0
  /\ mesh = Unbuilt

Draw(E) ==
  /\ mesh = Unbuilt
  /\ ~drawn
  /\ attempts < maxRegenAttempts
  /\ attempts' = attempts + 1
  /\ drawn' = TRUE
  /\ edges' = E
  /\ UNCHANGED <<artCount, worstSecond, mesh>>

\* Mutant: the limit counts the vertex that is removed as well.
WithinLimit_OneMore(second) == second <= (BottleneckPercent * N) \div 100 + 1
WithinLimit(second) == second <= (BottleneckPercent * N) \div 100

Result(n, E, art, dropped) ==
  [nodes |-> n, edges |-> E, regenAttempts |-> attempts, dropped |-> dropped,
   articulationPointCount |-> art, victimNodeId |-> 0, stats |-> ComputePathStats(n, E)]

Checked == drawn /\ drawn' = FALSE /\ UNCHANGED <<attempts, edges>>
Connected == Len(LargestConnectedComponent(edges)) = N

RetryDisconnected ==
  /\ Checked
  /\ ~Connected
  /\ UNCHANGED <<artCount, worstSecond, mesh>>

Analyzed ==
  /\ Checked
  /\ Connected
  /\ LET found == AnalyzeArticulation(edges)
     IN  artCount' = found.artCount /\ worstSecond' = found.worstSecond

RetryBottleneck ==
  /\ Analyzed
  /\ ~WithinLimit(worstSecond')
  /\ UNCHANGED mesh

Accept ==
  /\ Analyzed
  /\ WithinLimit(worstSecond')
  /\ mesh' = Result(N, edges, artCount', 0)

\* Mutant: the edges keep their old endpoints.
Remapped_Identity(E, giant) == {e \in E : e \subseteq ToSet(giant)}

\* remap sends the i-th vertex of the giant component to i.
Remapped(E, giant) ==
  {{p[1] - 1, p[2] - 1} : p \in {q \in (1..Len(giant)) \X (1..Len(giant)) :
                                   {giant[q[1]], giant[q[2]]} \in E}}

FallBack ==
  /\ mesh = Unbuilt
  /\ ~drawn
  /\ attempts = maxRegenAttempts
  /\ UNCHANGED <<attempts, drawn, edges, artCount, worstSecond>>
  /\ LET giant   == LargestConnectedComponent(edges)
         dropped == N - Len(giant)
     IN  mesh' = Result(Len(giant), IF dropped > 0 THEN Remapped(edges, giant) ELSE edges,
                        artCount, dropped)

Iterate ==
  \/ \E E \in Graph : Draw(E)
  \/ RetryDisconnected
  \/ RetryBottleneck
  \/ Accept
  \/ FallBack

Next == Iterate /\ UNCHANGED maxRegenAttempts

Spec == Init /\ [][Next]_vars

-----------------------------------------------------------------------------
(***************************************************************************)
(* Reference definitions, by reachability alone.                           *)
(***************************************************************************)
\* The vertices at most k edges away from s.
Balls(E, s) ==
  LET ball[k \in 0..N] == IF k = 0 THEN {s}
                          ELSE ball[k - 1] \cup UNION {Neighbours(E, u) : u \in ball[k - 1]}
  IN  ball
Ball(E, s, k) == Balls(E, s)[k]
Reach(E, s) == Ball(E, s, N)
Distance(E, s, t) == Min({k \in 0..N : t \in Ball(E, s, k)})

(***************************************************************************)
(* Properties.                                                             *)
(***************************************************************************)

\* What the depth-first search says of a connected draw is what removing
\* each vertex in turn says: the articulation points are the vertices whose
\* removal separates the rest, and worstSecond is the largest second
\* component such a removal leaves.  A mesh kept from a disconnected last draw
\* has no analysis of its own: its count is that of an earlier draw, one that
\* was refused for its bottleneck, or nothing when no draw was connected.
ArticulationExact ==
  /\ mesh # Unbuilt /\ mesh.dropped > 0 =>
       (artCount = 0 /\ worstSecond = 0) \/ ~WithinLimit(worstSecond)
  /\ mesh # Unbuilt /\ mesh.dropped = 0 =>
    LET parts(v) == {Reach(Without(edges, v), s) : s \in Vertex \ {v}}
        art      == {v \in Vertex : Cardinality(parts(v)) > 1}
        second(v) == LET sizes == {Cardinality(P) : P \in parts(v)}
                     IN  IF \E P, Q \in parts(v) : /\ P # Q
                                                   /\ Cardinality(P) = Max(sizes)
                                                   /\ Cardinality(Q) = Max(sizes)
                         THEN Max(sizes) ELSE Max(sizes \ {Max(sizes)})
    IN  /\ artCount = Cardinality(art)
        /\ worstSecond = Max({0} \cup {second(v) : v \in art})

\* Whatever was drawn, the mesh the simulation runs on is connected and
\* contains the victim; and it has as many edges as the largest component of
\* the last draw, so the renumbering lost none and invented none.
BuiltMeshIsGiantComponent ==
  mesh # Unbuilt =>
    /\ 0 \in 0..(mesh.nodes - 1)
    /\ Reach(mesh.edges, 0) = 0..(mesh.nodes - 1)
    /\ \E s \in Vertex :
         /\ mesh.nodes = Cardinality(Reach(edges, s))
         /\ \A t \in Vertex : Cardinality(Reach(edges, t)) <= mesh.nodes
         /\ Cardinality(mesh.edges) = Cardinality({e \in edges : e \subseteq Reach(edges, s)})

\* The diameter, and the sum and count behind the mean path length, are
\* those of shortest paths in the mesh that was built.
PathStatsExact ==
  mesh # Unbuilt =>
    LET V     == 0..(mesh.nodes - 1)
        pairs == {p \in V \X V : p[1] # p[2]}
        d     == [p \in pairs |-> Distance(mesh.edges, p[1], p[2])]
    IN  mesh.stats = [diameter    |-> Max({0} \cup {d[p] : p \in pairs}),
                      distanceSum |-> MapThenSumSet(LAMBDA p : d[p], pairs),
                      pairCount   |-> Cardinality(pairs)]

\* Removing v leaves two components of more than the permitted share.
Strands(n, E, v) ==
  \E s, t \in (0..(n - 1)) \ {v} :
    LET near == Reach(Without(E, v), s)
        far  == Reach(Without(E, v), t)
    IN  /\ t \notin near
        /\ 100 * Cardinality(near) > BottleneckPercent * n
        /\ 100 * Cardinality(far) > BottleneckPercent * n

\* A mesh accepted before the attempts ran out has no vertex whose removal
\* strands more than the permitted share of the network behind it.
NoBottleneckUnlessExhausted ==
  mesh # Unbuilt /\ mesh.regenAttempts < maxRegenAttempts =>
    ~ \E v \in Vertex : Strands(N, mesh.edges, v)

\* Expected to be violated.  README.md:194-196: generation guarantees that no
\* single articulation point cuts off a large part of the network.
NoBottleneck ==
  mesh # Unbuilt => ~ \E v \in 0..(mesh.nodes - 1) : Strands(mesh.nodes, mesh.edges, v)
=============================================================================
