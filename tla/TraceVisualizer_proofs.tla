----------------------- MODULE TraceVisualizer_proofs -----------------------
(***************************************************************************)
(* Proofs about the visualizer, for every set of nodes, every number of    *)
(* traces in flight and every set of relays looked up.                     *)
(***************************************************************************)
EXTENDS TraceVisualizer, NaturalNumbers

-----------------------------------------------------------------------------
(***************************************************************************)
(* The recursive function of the reset loop has a value: it is glued from  *)
(* the finite runs of the loop, which agree where they overlap.            *)
(***************************************************************************)
Begin == [color |-> color, holder |-> mostRecentPastOrigin]
Visit(viz, n) == IF n \in pendingReset THEN ResetNode(viz, n) ELSE viz

\* f is a run of the loop over the nodes below n.
Run(f, n) ==
  /\ f[0] = Begin
  /\ \A i \in 1..n : f[i] = Visit(f[i - 1], i - 1)

LEMMA RunsAgree ==
  ASSUME NEW f, NEW g, NEW n \in Nat, Run(f, n), Run(g, n)
  PROVE  f[n] = g[n]
<1> DEFINE P == {i \in Nat : i <= n => f[i] = g[i]}
<1>1. P \in SUBSET Nat /\ 0 \in P
  BY DEF Run
<1>2. ASSUME NEW i \in P PROVE i + 1 \in P
  <2>1. CASE i + 1 <= n
    <3>1. i \in Nat /\ f[i] = g[i] /\ i + 1 \in 1..n
      BY <1>2, <2>1
    <3>2. f[i + 1] = Visit(f[(i + 1) - 1], (i + 1) - 1)
      BY <3>1 DEF Run
    <3>3. g[i + 1] = Visit(g[(i + 1) - 1], (i + 1) - 1)
      BY <3>1 DEF Run
    <3>4. (i + 1) - 1 = i
      BY <3>1
    <3> QED BY <3>1, <3>2, <3>3, <3>4
  <2>2. CASE ~(i + 1 <= n)
    BY <1>2, <2>2
  <2> QED BY <2>1, <2>2
<1> HIDE DEF P
<1>3. P = Nat
  BY <1>1, <1>2, Induction
<1>4. n \in P
  BY <1>3
<1> QED BY <1>4 DEF P

LEMMA RunExists ==
  ASSUME NEW n \in Nat
  PROVE  \E f : Run(f, n)
<1> DEFINE P == {i \in Nat : \E f : Run(f, i)}
<1>1. P \in SUBSET Nat
  OBVIOUS
<1>2. 0 \in P
  <2> DEFINE f == [i \in {0} |-> Begin]
  <2>1. Run(f, 0)
    BY DEF Run
  <2> QED BY <2>1
<1>3. ASSUME NEW m \in P PROVE m + 1 \in P
  <2>1. PICK g : Run(g, m)
    BY <1>3
  <2> DEFINE h == [i \in 0..(m + 1) |-> IF i = m + 1 THEN Visit(g[m], m) ELSE g[i]]
  <2>2. m \in Nat
    OBVIOUS
  <2>3. h[0] = Begin
    BY <2>1, <2>2 DEF Run
  <2>4. ASSUME NEW i \in 1..(m + 1)
        PROVE  h[i] = Visit(h[i - 1], i - 1)
    <3>1. CASE i = m + 1
      <4>1. i - 1 = m /\ h[i] = Visit(g[m], m) /\ h[m] = g[m]
        BY <2>2, <3>1
      <4> QED BY <4>1
    <3>2. CASE i # m + 1
      <4>1. i \in 1..m /\ i - 1 \in 0..m
        BY <2>2, <3>2
      <4>2. g[i] = Visit(g[i - 1], i - 1)
        BY <2>1, <4>1 DEF Run
      <4>3. h[i] = g[i] /\ h[i - 1] = g[i - 1]
        BY <2>2, <4>1
      <4> QED BY <4>2, <4>3
    <3> QED BY <3>1, <3>2
  <2> HIDE DEF h
  <2>5. Run(h, m + 1)
    BY <2>3, <2>4 DEF Run
  <2> QED BY <2>2, <2>5
<1> HIDE DEF P
<1>4. P = Nat
  BY <1>1, <1>2, <1>3, Induction
<1> QED BY <1>4 DEF P

\* What the loop computes: nothing before the first node, then a visit each.
LEMMA LoopUnfolds ==
  /\ ResetLoop[0] = Begin
  /\ \A n \in Nat : ResetLoop[n + 1] = Visit(ResetLoop[n], n)
<1> DEFINE F == [n \in Nat |-> (CHOOSE f : Run(f, n))[n]]
<1>1. F[0] = Begin
  <2>1. Run(CHOOSE f : Run(f, 0), 0)
    BY RunExists
  <2> QED BY <2>1 DEF Run
<1>2. ASSUME NEW n \in Nat PROVE F[n + 1] = Visit(F[n], n)
  <2>1. PICK g : g = CHOOSE f : Run(f, n)
    OBVIOUS
  <2>2. PICK h : h = CHOOSE f : Run(f, n + 1)
    OBVIOUS
  <2>3. Run(g, n)
    BY <2>1, RunExists
  <2>4. Run(h, n + 1)
    BY <2>2, RunExists
  <2>5. Run(h, n)
    BY <2>4 DEF Run
  <2>6. h[n] = g[n]
    BY <2>3, <2>5, RunsAgree
  <2>7. h[n + 1] = Visit(h[(n + 1) - 1], (n + 1) - 1)
    BY <2>4 DEF Run
  <2>8. F[n] = g[n] /\ F[n + 1] = h[n + 1]
    BY <2>1, <2>2
  <2> QED BY <2>6, <2>7, <2>8
<1> HIDE DEF F
<1>3. \A n \in Nat : n # 0 => F[n] = Visit(F[n - 1], n - 1)
  <2> TAKE n \in Nat
  <2>1. CASE n = 0
    BY <2>1
  <2>2. CASE n # 0
    <3>1. n - 1 \in Nat /\ (n - 1) + 1 = n
      BY <2>2
    <3> QED BY <1>2, <3>1
  <2> QED BY <2>1, <2>2
<1> DEFINE Body(f) ==
      [n \in Nat |->
         IF n = 0 THEN [color |-> color, holder |-> mostRecentPastOrigin]
         ELSE IF n - 1 \in pendingReset THEN ResetNode(f[n - 1], n - 1)
         ELSE f[n - 1]]
<1>4. F = Body(F)
  <2>1. F = [n \in Nat |-> F[n]]
    BY DEF F
  <2>2. \A n \in Nat : F[n] = Body(F)[n]
    BY <1>1, <1>3 DEF Begin, Visit
  <2> QED BY <2>1, <2>2
<1>5. ResetLoop = CHOOSE f : f = Body(f)
  BY DEF ResetLoop
<1>6. ResetLoop = Body(ResetLoop)
  BY <1>4, <1>5
<1>7. ResetLoop[0] = Begin
  BY <1>6 DEF Begin
<1>8. ASSUME NEW n \in Nat PROVE ResetLoop[n + 1] = Visit(ResetLoop[n], n)
  <2>1. n + 1 \in Nat /\ n + 1 # 0 /\ (n + 1) - 1 = n
    OBVIOUS
  <2> QED BY <1>6, <2>1 DEF Visit
<1> QED BY <1>7, <1>8

-----------------------------------------------------------------------------
(***************************************************************************)
(* The reset.  Between two visits of the loop the colours are typed and    *)
(* the marker is the holder's; a visited node shows at most light purple.  *)
(***************************************************************************)
Viz == [color : [Nodes -> VizColor], holder : (Nodes \ {Victim}) \cup {None}]

Marked(viz) ==
  /\ \A n \in Nodes : viz.color[n] = kPastOrigin => viz.holder = n
  /\ viz.holder # None => viz.color[viz.holder] >= kPastOrigin

Sound(viz) ==
  /\ viz \in Viz
  /\ viz.color[Victim] = kGrey
  /\ Marked(viz)

\* Nothing shows a colour of the current path but pending nodes not below n.
Settled(viz, n) ==
  \A m \in Nodes :
    viz.color[m] > kPastOrigin => m \in pendingReset /\ m >= n

\* A visit settles its node and lights no other.
LEMMA VisitIsSound ==
  ASSUME NEW viz, Sound(viz), NEW n \in Nodes
  PROVE  /\ Sound(ResetNode(viz, n))
         /\ \A m \in Nodes \ {n} : ResetNode(viz, n).color[m] <= viz.color[m]
         /\ ResetNode(viz, n).color[n] <= kPastOrigin
<1> USE DEF kGrey, kPastOrigin, kPaleRed, kRed, kLatestOrigin
<1>1. /\ viz.color \in [Nodes -> VizColor]
      /\ viz.holder \in (Nodes \ {Victim}) \cup {None}
      /\ viz = [color |-> viz.color, holder |-> viz.holder]
      /\ \A m \in Nodes : viz.color[m] \in 0..4
  BY DEF Sound, Viz, VizColor
<1>2. Victim \in Nodes /\ None \notin Nodes
  BY NodesAssumption
<1>3. CASE n = Victim
  <2>1. ResetNode(viz, n) = viz
    BY <1>3 DEF ResetNode
  <2> QED BY <1>1, <1>3, <2>1 DEF Sound
<1>4. CASE n # Victim /\ viz.color[n] = kLatestOrigin
  <2> DEFINE cols == [m \in Nodes |-> CASE m = n -> kPastOrigin
                                        [] m # n /\ m = viz.holder -> kGrey
                                        [] OTHER -> viz.color[m]]
  <2>1. ResetNode(viz, n) = [color |-> cols, holder |-> n]
    BY <1>4 DEF ResetNode
  <2>2. /\ cols \in [Nodes -> VizColor]
        /\ cols[n] = kPastOrigin
        /\ \A m \in Nodes \ {n} : cols[m] = IF m = viz.holder THEN kGrey ELSE viz.color[m]
    BY <1>1 DEF VizColor
  <2> HIDE DEF cols
  <2>3. cols[Victim] = kGrey
    BY <1>2, <1>4, <2>2 DEF Sound
  <2>4. Marked([color |-> cols, holder |-> n])
    BY <1>1, <2>2 DEF Sound, Marked
  <2>5. [color |-> cols, holder |-> n] \in Viz
    BY <1>4, <2>2 DEF Viz
  <2>6. ASSUME NEW m \in Nodes \ {n} PROVE cols[m] <= viz.color[m]
    <3>1. viz.color[m] \in 0..4 /\ cols[m] \in {0, viz.color[m]}
      BY <1>1, <2>2
    <3> QED BY <3>1
  <2> QED BY <2>1, <2>2, <2>3, <2>4, <2>5, <2>6 DEF Sound
<1>5. CASE n # Victim /\ viz.color[n] \in {kRed, kPaleRed}
  <2> DEFINE c == IF viz.holder = n THEN kPastOrigin ELSE kGrey
             cols == [viz.color EXCEPT ![n] = c]
  <2>1. ResetNode(viz, n) = [viz EXCEPT !.color[n] = c]
    BY <1>5 DEF ResetNode
  <2>2. [viz EXCEPT !.color[n] = c] = [color |-> cols, holder |-> viz.holder]
    BY <1>1
  <2>3. /\ cols \in [Nodes -> VizColor]
        /\ cols[n] = c
        /\ \A m \in Nodes \ {n} : cols[m] = viz.color[m]
    BY <1>1 DEF VizColor
  <2> HIDE DEF cols
  <2>4. cols[Victim] = kGrey
    BY <1>2, <1>5, <2>3 DEF Sound
  <2>5. Marked([color |-> cols, holder |-> viz.holder])
    BY <1>1, <1>2, <2>3 DEF Sound, Marked
  <2>6. [color |-> cols, holder |-> viz.holder] \in Viz
    BY <1>1, <2>3 DEF Viz
  <2>7. ASSUME NEW m \in Nodes \ {n} PROVE cols[m] <= viz.color[m]
    <3>1. viz.color[m] \in 0..4 /\ cols[m] = viz.color[m]
      BY <1>1, <2>3
    <3> QED BY <3>1
  <2> QED BY <2>1, <2>2, <2>3, <2>4, <2>5, <2>6, <2>7 DEF Sound
<1>6. CASE n # Victim /\ viz.color[n] \notin {kRed, kPaleRed, kLatestOrigin}
  <2>1. ResetNode(viz, n) = viz
    BY <1>6 DEF ResetNode
  <2>2. viz.color[n] <= kPastOrigin
    BY <1>1, <1>6
  <2> QED BY <1>1, <2>1, <2>2
<1> QED BY <1>3, <1>4, <1>5, <1>6

\* The whole loop: sound to the end, and everything settled.
LEMMA LoopIsSound ==
  ASSUME Sound(Begin), pendingReset \subseteq Nodes, HighlightsArePending
  PROVE  \A n \in Nat : Sound(ResetLoop[n]) /\ Settled(ResetLoop[n], n)
<1> DEFINE P == {n \in Nat : Sound(ResetLoop[n]) /\ Settled(ResetLoop[n], n)}
<1>1. \A m \in Nodes : m \in Nat
  BY NodesAssumption
<1>2. P \in SUBSET Nat
  OBVIOUS
<1>3. 0 \in P
  <2>1. ResetLoop[0] = Begin /\ Begin.color = color
    BY LoopUnfolds DEF Begin
  <2>2. Settled(Begin, 0)
    BY <1>1, <2>1 DEF Settled, HighlightsArePending
  <2> QED BY <2>1, <2>2
<1>4. ASSUME NEW n \in P PROVE n + 1 \in P
  <2>1. PICK v : v = ResetLoop[n]
    OBVIOUS
  <2>2. n \in Nat /\ Sound(v) /\ Settled(v, n)
    BY <2>1
  <2>3. ResetLoop[n + 1] = Visit(v, n)
    BY <2>1, <2>2, LoopUnfolds
  <2>4. CASE n \in pendingReset
    <3>1. PICK w : w = ResetNode(v, n)
      OBVIOUS
    <3>2. /\ Sound(w)
          /\ \A m \in Nodes \ {n} : w.color[m] <= v.color[m]
          /\ w.color[n] <= kPastOrigin
      BY <2>2, <2>4, <3>1, VisitIsSound
    <3>3. /\ \A m \in Nodes : v.color[m] \in 0..4
          /\ \A m \in Nodes : w.color[m] \in 0..4
      BY <2>2, <3>2
         DEF Sound, Viz, VizColor, kGrey, kLatestOrigin
    <3>4. Settled(w, n + 1)
      BY <1>1, <2>2, <3>2, <3>3 DEF Settled, kPastOrigin
    <3>5. ResetLoop[n + 1] = w
      BY <2>3, <2>4, <3>1 DEF Visit
    <3> QED BY <2>2, <3>2, <3>4, <3>5
  <2>5. CASE n \notin pendingReset
    <3>1. ResetLoop[n + 1] = v
      BY <2>3, <2>5 DEF Visit
    <3>2. Settled(v, n + 1)
      BY <1>1, <2>2, <2>5 DEF Settled
    <3> QED BY <2>2, <3>1, <3>2
  <2> QED BY <2>4, <2>5
<1> HIDE DEF P
<1>5. P = Nat
  BY <1>2, <1>3, <1>4, Induction
<1> QED BY <1>5 DEF P

-----------------------------------------------------------------------------
(***************************************************************************)
(* Painting only upgrades, and only to colours of the current path.        *)
(***************************************************************************)
Painted(old, new, n, c, relays) ==
  /\ new \in [Nodes -> VizColor]
  /\ new[Victim] = kGrey
  /\ new[n] >= c
  /\ \A m \in Nodes : new[m] = old[m] \/ (new[m] > old[m] /\ new[m] > kPastOrigin)
  /\ \A m \in Nodes : new[m] # old[m] =>
       (m = n /\ new[m] = c) \/ (m \in relays /\ new[m] = kPaleRed)

LEMMA PaintUpgrades ==
  ASSUME NEW old \in [Nodes -> VizColor], old[Victim] = kGrey,
         NEW n \in Nodes \ {Victim}, NEW c \in {kPaleRed, kRed, kLatestOrigin}
  PROVE  Painted(old, Paint(old, n, c), n, c, {})
<1> USE DEF VizColor, kGrey, kPastOrigin, kPaleRed, kRed, kLatestOrigin
<1>1. old[n] \in 0..4 /\ c \in 0..4 /\ Victim \in Nodes /\ \A m \in Nodes : old[m] \in 0..4
  BY NodesAssumption
<1>2. CASE c <= old[n]
  <2>1. Paint(old, n, c) = old
    BY <1>2 DEF Paint
  <2> QED BY <1>1, <1>2, <2>1 DEF Painted
<1>3. CASE ~(c <= old[n])
  <2>1. Paint(old, n, c) = [old EXCEPT ![n] = c]
    BY <1>3 DEF Paint
  <2>2. c > old[n]
    BY <1>1, <1>3
  <2> QED BY <1>1, <2>1, <2>2 DEF Painted
<1> QED BY <1>2, <1>3

LEMMA RelaysUpgrade ==
  ASSUME NEW old \in [Nodes -> VizColor], NEW mid, NEW relays \in SUBSET Nodes,
         NEW n \in Nodes \ {Victim}, NEW c \in {kPaleRed, kRed, kLatestOrigin},
         Painted(old, mid, n, c, {})
  PROVE  Painted(old, PaintPhysicalRelays(mid, relays), n, c, relays)
<1> USE DEF VizColor, kGrey, kPastOrigin, kPaleRed, kRed, kLatestOrigin
<1> DEFINE new == PaintPhysicalRelays(mid, relays)
<1>1. /\ mid \in [Nodes -> VizColor] /\ Victim \in Nodes
      /\ \A m \in Nodes : mid[m] \in 0..4 /\ old[m] \in 0..4
      /\ c \in 0..4
  BY NodesAssumption DEF Painted
<1>2. ASSUME NEW m \in Nodes
      PROVE  new[m] = IF m \in relays /\ m # Victim /\ kPaleRed > mid[m]
                      THEN kPaleRed ELSE mid[m]
  <2>1. new[m] = IF m \in relays THEN Paint(mid, m, kPaleRed)[m] ELSE mid[m]
    BY DEF PaintPhysicalRelays
  <2>2. Paint(mid, m, kPaleRed)[m]
          = IF m = Victim \/ kPaleRed <= mid[m] THEN mid[m] ELSE kPaleRed
    BY <1>1 DEF Paint
  <2>3. kPaleRed > mid[m] <=> ~(kPaleRed <= mid[m])
    BY <1>1
  <2> QED BY <2>1, <2>2, <2>3
<1>3. new = [m \in Nodes |-> new[m]]
  BY DEF PaintPhysicalRelays
<1> HIDE DEF new
<1>4. new \in [Nodes -> VizColor]
  BY <1>1, <1>2, <1>3
<1>5. new[Victim] = kGrey
  BY <1>1, <1>2 DEF Painted
<1>6. new[n] >= c
  BY <1>1, <1>2 DEF Painted
<1>7. ASSUME NEW m \in Nodes
      PROVE  /\ new[m] = old[m] \/ (new[m] > old[m] /\ new[m] > kPastOrigin)
             /\ new[m] # old[m] =>
                  (m = n /\ new[m] = c) \/ (m \in relays /\ new[m] = kPaleRed)
  <2>1. \/ mid[m] = old[m]
        \/ mid[m] > old[m] /\ mid[m] > kPastOrigin /\ m = n /\ mid[m] = c
    BY DEF Painted
  <2> QED BY <1>1, <1>2, <2>1
<1> QED BY <1>4, <1>5, <1>6, <1>7 DEF Painted, new

LEMMA PaintStep ==
  ASSUME color \in [Nodes -> VizColor], color[Victim] = kGrey,
         NEW n \in Nodes \ {Victim}, NEW c \in {kPaleRed, kRed, kLatestOrigin},
         NEW relays \in SUBSET Nodes,
         color' = PaintPhysicalRelays(Paint(color, n, c), relays)
  PROVE  Painted(color, color', n, c, relays)
BY PaintUpgrades, RelaysUpgrade

-----------------------------------------------------------------------------
(***************************************************************************)
(* The inductive invariant.                                                *)
(***************************************************************************)
Walk == (SUBSET (Nodes \ {Victim})) \cup {None}

Lit ==
  /\ Sound(Begin)
  /\ pendingReset \subseteq Nodes
  /\ HighlightsArePending
  /\ walk \in [Slots -> Walk]
  /\ newest \in Slots \cup {None}
  /\ NewestTraceStaysLit

\* A report paints; a trace confirms n, completes, or both nothing else.
LEMMA ReportStep ==
  ASSUME Lit, NEW n \in Nodes \ {Victim}, NEW c \in {kRed, kLatestOrigin},
         NEW relays \in SUBSET Nodes,
         color' = PaintPhysicalRelays(Paint(color, n, c), relays),
         pendingReset' = PendingAfter(n, relays),
         mostRecentPastOrigin' = mostRecentPastOrigin,
         newest' = newest,
         NEW s \in Slots, walk[s] # None,
         \/ walk' = [walk EXCEPT ![s] = walk[s] \cup {n}]
         \/ walk' = [walk EXCEPT ![s] = None]
  PROVE  Lit' /\ \A m \in Nodes : color'[m] >= color[m]
<1> USE DEF VizColor, kGrey, kPastOrigin, kPaleRed, kRed, kLatestOrigin
<1>1. /\ color \in [Nodes -> VizColor] /\ color[Victim] = kGrey
      /\ mostRecentPastOrigin \in (Nodes \ {Victim}) \cup {None}
      /\ None \notin Nodes
  BY NodesAssumption DEF Lit, Sound, Viz, Begin
<1>2. Painted(color, color', n, c, relays)
  BY <1>1, PaintStep
<1>3. \A m \in Nodes : color[m] \in 0..4 /\ color'[m] \in 0..4
  BY <1>1, <1>2 DEF Painted
<1>4. \A m \in Nodes : color'[m] >= color[m]
  BY <1>2, <1>3 DEF Painted
<1>5. Sound(Begin)'
  <2>1. Begin' \in Viz /\ color'[Victim] = kGrey
    BY <1>1, <1>2 DEF Begin, Viz, Painted
  <2>2. \A m \in Nodes : color'[m] = kPastOrigin => mostRecentPastOrigin = m
    BY <1>2, <1>3 DEF Painted, Lit, Sound, Marked, Begin
  <2>3. mostRecentPastOrigin # None => color'[mostRecentPastOrigin] >= kPastOrigin
    BY <1>1, <1>3, <1>4 DEF Lit, Sound, Marked, Begin
  <2> QED BY <2>1, <2>2, <2>3 DEF Sound, Marked, Begin
<1>6. pendingReset' \subseteq Nodes /\ pendingReset \cup {n} \cup relays = pendingReset'
  BY DEF Lit, PendingAfter
<1>7. HighlightsArePending'
  BY <1>2, <1>3, <1>6 DEF HighlightsArePending, Painted, Lit
<1>8. walk' \in [Slots -> Walk]
  BY DEF Lit, Walk
<1>9. NewestTraceStaysLit'
  <2> SUFFICES ASSUME newest # None, walk'[newest] # None, NEW m \in walk'[newest]
               PROVE  color'[m] >= kRed
    BY DEF NewestTraceStaysLit
  <2>1. newest \in Slots
    BY DEF Lit
  <2>2. m \in Nodes
    BY <1>8, <2>1 DEF Walk
  <2>3. color'[n] >= kRed
    BY <1>2, <1>3 DEF Painted
  <2>4. CASE m = n
    BY <2>3, <2>4
  <2>5. CASE m # n
    <3>1. walk[newest] # None /\ m \in walk[newest]
      BY <2>1, <2>5 DEF Lit
    <3>2. color[m] >= kRed
      BY <3>1 DEF Lit, NewestTraceStaysLit
    <3> QED BY <1>3, <1>4, <2>2, <3>2
  <2> QED BY <2>4, <2>5
<1> QED BY <1>4, <1>5, <1>6, <1>7, <1>8, <1>9 DEF Lit

\* A reset leaves nothing highlighted.
LEMMA ResetStep ==
  ASSUME Lit, NEW s \in Slots, TraceStarted(s)
  PROVE  Lit' /\ \A m \in Nodes : color'[m] <= kPastOrigin
<1> USE DEF VizColor, kGrey, kPastOrigin, kPaleRed, kRed, kLatestOrigin
<1>1. PICK v : v = ResetLoop[LastNode + 1]
  OBVIOUS
<1>2. LastNode + 1 \in Nat /\ \A m \in Nodes : m \in Nat /\ m < LastNode + 1
  BY NodesAssumption
<1>3. Sound(v) /\ Settled(v, LastNode + 1)
  BY <1>1, <1>2, LoopIsSound DEF Lit
<1>4. /\ color' = v.color /\ mostRecentPastOrigin' = v.holder /\ pendingReset' = {}
      /\ walk' = [walk EXCEPT ![s] = {}] /\ newest' = s
  BY <1>1 DEF TraceStarted, OnTraceStarted
<1>5. \A m \in Nodes : color'[m] \in 0..4 /\ ~(color'[m] > kPastOrigin)
  BY <1>2, <1>3, <1>4 DEF Settled, Sound, Viz
<1>6. \A m \in Nodes : color'[m] <= kPastOrigin
  BY <1>5
<1>7. Sound(Begin)'
  <2>1. v = [color |-> v.color, holder |-> v.holder]
    BY <1>3 DEF Sound, Viz
  <2>2. Begin' = v
    BY <1>4, <2>1 DEF Begin
  <2>3. Sound(Begin)' <=> Sound(Begin')
    BY DEF Sound, Marked
  <2> QED BY <1>3, <2>2, <2>3
<1>8. HighlightsArePending'
  BY <1>5 DEF HighlightsArePending
<1>9. walk' \in [Slots -> Walk] /\ walk'[s] = {}
  BY <1>4 DEF Lit, Walk
<1>10. NewestTraceStaysLit'
  BY <1>4, <1>9 DEF NewestTraceStaysLit
<1> QED BY <1>4, <1>6, <1>7, <1>8, <1>9, <1>10 DEF Lit

\* Every step either keeps or upgrades all colours or is a reset.
LEMMA Steps ==
  ASSUME Lit, [Next]_vars
  PROVE  /\ Lit'
         /\ \/ \A m \in Nodes : color'[m] >= color[m]
            \/ \A m \in Nodes : color'[m] <= kPastOrigin
<1>1. \A m \in Nodes : color[m] \in 0..4
  BY DEF Lit, Sound, Viz, Begin, VizColor, kGrey, kLatestOrigin
<1>2. ASSUME UNCHANGED color PROVE \A m \in Nodes : color'[m] >= color[m]
  BY <1>1, <1>2
<1>3. CASE UNCHANGED vars
  <2>1. Lit'
    BY <1>3 DEF vars, Lit, Sound, Marked, Begin, HighlightsArePending, NewestTraceStaysLit
  <2> QED BY <1>2, <1>3, <2>1 DEF vars
<1>4. ASSUME NEW s \in Slots, TraceStarted(s)
      PROVE  Lit' /\ \A m \in Nodes : color'[m] <= kPastOrigin
  BY <1>4, ResetStep
<1>5. ASSUME NEW s \in Slots, NoGuess(s)
      PROVE  Lit' /\ UNCHANGED color
  <2>1. /\ UNCHANGED <<color, pendingReset, mostRecentPastOrigin, newest>>
        /\ walk' = [walk EXCEPT ![s] = None]
    BY <1>5 DEF NoGuess, vizVars
  <2>2. Sound(Begin)' /\ HighlightsArePending' /\ walk' \in [Slots -> Walk]
    BY <2>1 DEF Lit, Sound, Marked, Begin, HighlightsArePending, Walk
  <2>3. NewestTraceStaysLit'
    <3>1. newest \in Slots \cup {None}
      BY DEF Lit
    <3>2. newest # None /\ walk'[newest] # None => walk'[newest] = walk[newest]
      BY <2>1, <3>1 DEF Lit
    <3> QED BY <2>1, <3>2 DEF NewestTraceStaysLit, Lit
  <2> QED BY <2>1, <2>2, <2>3 DEF Lit
<1>6. ASSUME NEW s \in Slots, NEW n \in Nodes, NEW relays \in SUBSET Nodes,
             HopConfirmed(s, n, relays)
      PROVE  Lit' /\ \A m \in Nodes : color'[m] >= color[m]
  BY <1>6, ReportStep DEF HopConfirmed, OnHopConfirmed, Unvisited
<1>7. ASSUME NEW s \in Slots, NEW n \in Nodes, NEW relays \in SUBSET Nodes,
             OriginGuessed(s, n, relays)
      PROVE  Lit' /\ \A m \in Nodes : color'[m] >= color[m]
  BY <1>7, ReportStep DEF OriginGuessed, OnTraceComplete, Unvisited
<1> QED BY <1>2, <1>3, <1>4, <1>5, <1>6, <1>7 DEF Next

LEMMA LitAlways == Spec => []Lit
<1>1. Init => Lit
  <2> SUFFICES ASSUME Init PROVE Lit
    OBVIOUS
  <2> USE NodesAssumption DEF VizColor, kGrey, kPastOrigin, kPaleRed, kRed, kLatestOrigin
  <2>1. Begin \in Viz /\ Begin.color[Victim] = kGrey /\ Begin.holder = None
    BY DEF Init, Begin, Viz
  <2>2. \A m \in Nodes : color[m] = 0
    BY DEF Init
  <2>3. Sound(Begin)
    BY <2>1, <2>2 DEF Sound, Marked, Begin
  <2>4. HighlightsArePending
    BY <2>2 DEF HighlightsArePending
  <2> QED BY <2>3, <2>4 DEF Init, Lit, Walk, NewestTraceStaysLit
<1>2. Lit /\ [Next]_vars => Lit'
  BY Steps
<1> QED BY <1>1, <1>2, PTL DEF Spec

-----------------------------------------------------------------------------
\* Colours are the class's own, and the victim keeps the one it started with.
THEOREM TypeCorrect == Spec => []TypeOK
<1>1. Lit => TypeOK
  BY DEF Lit, Sound, Viz, Begin, Walk, TypeOK
<1> QED BY <1>1, LitAlways, PTL

\* At most one node shows light purple, the recorded holder, whose marker no
\* sequence of paints and resets loses.
THEOREM MarkerCorrect == Spec => []MarkerIsHolders
<1>1. Lit => MarkerIsHolders
  BY DEF Lit, Sound, Marked, Begin, MarkerIsHolders
<1> QED BY <1>1, LitAlways, PTL

\* Every highlighted node is queued for the next trace's reset.
THEOREM HighlightsCorrect == Spec => []HighlightsArePending
<1>1. Lit => HighlightsArePending
  BY DEF Lit
<1> QED BY <1>1, LitAlways, PTL

\* The trace started last keeps every node it confirmed lit, however many
\* older traces report meanwhile.
THEOREM NewestCorrect == Spec => []NewestTraceStaysLit
<1>1. Lit => NewestTraceStaysLit
  BY DEF Lit
<1> QED BY <1>1, LitAlways, PTL

\* A node loses a colour only in a reset, which leaves none highlighted.
THEOREM DimsCorrect == Spec => OnlyResetDims
<1>1. Lit /\ Lit' /\ [Next]_vars =>
        [(\E n \in Nodes : color'[n] < color[n])
           => \A n \in Nodes : color'[n] <= kPastOrigin]_vars
  <2> SUFFICES ASSUME Lit, Lit', [Next]_vars, NEW n \in Nodes, color'[n] < color[n]
               PROVE  \A m \in Nodes : color'[m] <= kPastOrigin
    OBVIOUS
  <2>1. color[n] \in 0..4 /\ color'[n] \in 0..4
    BY DEF Lit, Sound, Viz, Begin, VizColor, kGrey, kLatestOrigin
  <2>2. ~(color'[n] >= color[n])
    BY <2>1
  <2> QED BY <2>2, Steps
<1> QED BY <1>1, LitAlways, PTL DEF Spec, OnlyResetDims

-----------------------------------------------------------------------------
(***************************************************************************)
(* Where the marks of an origin come from: a node comes to show one, or to *)
(* hold the marker, only in the step of a trace that guesses it.           *)
(***************************************************************************)
MarkedIn(viz, n) == viz.color[n] \in {kLatestOrigin, kPastOrigin} \/ viz.holder = n
OriginMarked(n) == MarkedIn(Begin, n)

\* Resetting a node marks no other, and the node itself only if it was marked.
LEMMA VisitMarksNone ==
  ASSUME NEW viz, Sound(viz), NEW n \in Nodes, NEW m \in Nodes,
         MarkedIn(ResetNode(viz, n), m)
  PROVE  MarkedIn(viz, m)
<1> USE DEF kGrey, kPastOrigin, kPaleRed, kRed, kLatestOrigin
<1>1. /\ viz.color \in [Nodes -> VizColor]
      /\ viz = [color |-> viz.color, holder |-> viz.holder]
  BY DEF Sound, Viz
<1>2. CASE n # Victim /\ viz.color[n] = kLatestOrigin
  <2> DEFINE cols == [k \in Nodes |-> CASE k = n -> kPastOrigin
                                        [] k # n /\ k = viz.holder -> kGrey
                                        [] OTHER -> viz.color[k]]
  <2>1. ResetNode(viz, n) = [color |-> cols, holder |-> n]
    BY <1>2 DEF ResetNode
  <2>2. m = n \/ cols[m] = kGrey \/ cols[m] = viz.color[m]
    OBVIOUS
  <2> HIDE DEF cols
  <2>3. MarkedIn(ResetNode(viz, n), m) <=> (cols[m] \in {kLatestOrigin, kPastOrigin} \/ n = m)
    BY <2>1 DEF MarkedIn
  <2> QED BY <1>2, <2>2, <2>3 DEF MarkedIn
<1>3. CASE n # Victim /\ viz.color[n] \in {kRed, kPaleRed}
  <2> DEFINE c == IF viz.holder = n THEN kPastOrigin ELSE kGrey
             cols == [viz.color EXCEPT ![n] = c]
  <2>1. ResetNode(viz, n) = [viz EXCEPT !.color[n] = c]
    BY <1>3 DEF ResetNode
  <2>2. [viz EXCEPT !.color[n] = c] = [color |-> cols, holder |-> viz.holder]
    BY <1>1
  <2>3. cols[n] = c /\ \A k \in Nodes \ {n} : cols[k] = viz.color[k]
    BY <1>1
  <2> HIDE DEF cols
  <2>4. MarkedIn(ResetNode(viz, n), m)
          <=> (cols[m] \in {kLatestOrigin, kPastOrigin} \/ viz.holder = m)
    BY <2>1, <2>2 DEF MarkedIn
  <2> QED BY <2>3, <2>4 DEF MarkedIn
<1>4. CASE ~(n # Victim /\ viz.color[n] \in {kRed, kPaleRed, kLatestOrigin})
  BY <1>4 DEF ResetNode
<1> QED BY <1>2, <1>3, <1>4

LEMMA LoopMarksNone ==
  ASSUME Sound(Begin), pendingReset \subseteq Nodes, HighlightsArePending,
         NEW m \in Nodes
  PROVE  \A n \in Nat : MarkedIn(ResetLoop[n], m) => OriginMarked(m)
<1> DEFINE P == {n \in Nat : MarkedIn(ResetLoop[n], m) => OriginMarked(m)}
<1>1. 0 \in P
  BY LoopUnfolds DEF OriginMarked
<1>2. ASSUME NEW n \in P PROVE n + 1 \in P
  <2>1. PICK v : v = ResetLoop[n]
    OBVIOUS
  <2>2. n \in Nat /\ Sound(v) /\ (MarkedIn(v, m) => OriginMarked(m))
    BY <2>1, LoopIsSound
  <2>3. ResetLoop[n + 1] = Visit(v, n)
    BY <2>1, <2>2, LoopUnfolds
  <2>4. MarkedIn(Visit(v, n), m) => MarkedIn(v, m)
    BY <2>2, VisitMarksNone DEF Visit
  <2> QED BY <2>2, <2>3, <2>4
<1> HIDE DEF P
<1>3. P \in SUBSET Nat
  BY DEF P
<1>4. P = Nat
  BY <1>1, <1>2, <1>3, Induction
<1> QED BY <1>4 DEF P

\* A node comes to be marked as an origin, present or past, in no step but one
\* in which a trace guesses it: not by being a relay or a confirmed hop, not by
\* a reset, and not by a marker that resurfaces on the wrong node.
MarksAreGuesses ==
  [][\A n \in Nodes : OriginMarked(n)' => OriginMarked(n) \/ guess' = n]_vars

\* Whatever OnTraceStarted, OnHopConfirmed and OnTraceComplete are called with,
\* a node is marked as an origin only by the report that guesses it.
THEOREM MarksCorrect == Spec => MarksAreGuesses
<1> DEFINE Step == \A n \in Nodes : OriginMarked(n)' => OriginMarked(n) \/ guess' = n
<1>1. Lit /\ [Next]_vars => [Step]_vars
  <2> SUFFICES ASSUME Lit, Next, NEW n \in Nodes, OriginMarked(n)'
               PROVE  OriginMarked(n) \/ guess' = n
    OBVIOUS
  <2> USE DEF kGrey, kPastOrigin, kPaleRed, kRed, kLatestOrigin
  <2>1. /\ color \in [Nodes -> VizColor] /\ color[Victim] = kGrey
        /\ color'[n] \in {kLatestOrigin, kPastOrigin} \/ mostRecentPastOrigin' = n
    BY DEF Lit, Sound, Viz, Begin, OriginMarked, MarkedIn
  <2>2. ASSUME NEW s \in Slots, TraceStarted(s) PROVE OriginMarked(n)
    <3>1. PICK v : v = ResetLoop[LastNode + 1]
      OBVIOUS
    <3>2. color' = v.color /\ mostRecentPastOrigin' = v.holder
      BY <2>2, <3>1 DEF TraceStarted, OnTraceStarted
    <3>3. MarkedIn(v, n)
      BY <2>1, <3>2 DEF MarkedIn
    <3> QED BY <3>1, <3>3, LoopMarksNone, NodesAssumption DEF Lit
  <2>3. ASSUME NEW s \in Slots, NoGuess(s) PROVE OriginMarked(n)
    BY <2>1, <2>3 DEF NoGuess, vizVars, OriginMarked, MarkedIn, Begin
  <2>4. ASSUME NEW s \in Slots, NEW k \in Nodes, NEW relays \in SUBSET Nodes,
               HopConfirmed(s, k, relays)
        PROVE  OriginMarked(n)
    <3>1. k \in Nodes \ {Victim} /\ mostRecentPastOrigin' = mostRecentPastOrigin
      BY <2>4 DEF HopConfirmed, OnHopConfirmed, Unvisited
    <3>2. Painted(color, color', k, kRed, relays)
      BY <2>1, <2>4, <3>1, PaintStep DEF HopConfirmed, OnHopConfirmed
    <3>3. color'[n] = color[n] \/ color'[n] \in {kRed, kPaleRed}
      BY <3>2 DEF Painted
    <3> QED BY <2>1, <3>1, <3>3 DEF OriginMarked, MarkedIn, Begin
  <2>5. ASSUME NEW s \in Slots, NEW k \in Nodes, NEW relays \in SUBSET Nodes,
               OriginGuessed(s, k, relays)
        PROVE  OriginMarked(n) \/ guess' = n
    <3>1. /\ k \in Nodes \ {Victim} /\ mostRecentPastOrigin' = mostRecentPastOrigin
          /\ guess' = k
      BY <2>5 DEF OriginGuessed, OnTraceComplete, Unvisited
    <3>2. Painted(color, color', k, kLatestOrigin, relays)
      BY <2>1, <2>5, <3>1, PaintStep DEF OriginGuessed, OnTraceComplete
    <3>3. color'[n] = color[n] \/ color'[n] = kPaleRed \/ n = k
      BY <3>2 DEF Painted
    <3> QED BY <2>1, <3>1, <3>3 DEF OriginMarked, MarkedIn, Begin
  <2> QED BY <2>2, <2>3, <2>4, <2>5 DEF Next
<1> QED BY <1>1, LitAlways, PTL DEF Spec, MarksAreGuesses
=============================================================================
