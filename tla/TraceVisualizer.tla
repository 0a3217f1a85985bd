-------------------------- MODULE TraceVisualizer --------------------------
(***************************************************************************)
(* The NetAnim colouring driven by the traceback engine's callbacks        *)
(* (class TraceVisualizer in scratch/livetrace-sim.cc), with the set of    *)
(* physical relays a flow's packets crossed (PhysicalRouteIndex) an        *)
(* arbitrary set of nodes at every lookup: it grows with every forwarded   *)
(* packet and the visualizer only reads it.                                *)
(*                                                                         *)
(* The environment is the engine: at most one trace in flight in each of   *)
(* Slots, confirming fresh nodes one at a time and then completing.        *)
(***************************************************************************)
EXTENDS Naturals

CONSTANTS
  Nodes,     \* node ids, the order in which std::set iterates
  LastNode,  \* the greatest of them
  Victim,    \* m_victimNodeId
  Slots,     \* bound: the traces that can be in flight at a time
  None       \* an empty std::optional, an unused slot

ASSUME NodesAssumption ==
  /\ LastNode \in Nat
  /\ Nodes \subseteq 0..LastNode
  /\ Victim \in Nodes
  /\ None \notin Nodes

VARIABLES
  color,                 \* m_state
  pendingReset,          \* m_pendingReset
  mostRecentPastOrigin,  \* m_mostRecentPastOrigin
  walk,                  \* environment: nodes each trace in flight confirmed
  newest,                \* environment: slot of the trace started last
  guess,                 \* history: origin guessed by the newest trace
  precedingGuess         \* history: origin guessed by the one before it

vizVars == <<color, pendingReset, mostRecentPastOrigin>>
vars == <<color, pendingReset, mostRecentPastOrigin, walk, newest, guess,
          precedingGuess>>

kGrey == 0
kPastOrigin == 1
kPaleRed == 2
kRed == 3
kLatestOrigin == 4
VizColor == kGrey..kLatestOrigin

Init ==
  /\ color = [n \in Nodes |-> kGrey]
  /\ pendingReset = {}
  /\ mostRecentPastOrigin = None
  /\ walk = [s \in Slots |-> None]
  /\ newest = None
  /\ guess = None
  /\ precedingGuess = None

-----------------------------------------------------------------------------
(***************************************************************************)
(* Painting only upgrades, and never touches the victim.                   *)
(***************************************************************************)
\* Mutant: the newest colour always wins.
Paint_Overwrites(state, n, c) ==
  IF n = Victim THEN state ELSE [state EXCEPT ![n] = c]
Paint(state, n, c) ==
  IF n = Victim \/ c <= state[n] THEN state ELSE [state EXCEPT ![n] = c]

\* PaintPhysicalRelays: the relays are painted in some order; painting one
\* node does not look at another.
PaintPhysicalRelays(state, relays) ==
  [n \in Nodes |-> IF n \in relays THEN Paint(state, n, kPaleRed)[n] ELSE state[n]]

\* Mutant: only the hop itself, not the relays under it, is queued for reset.
PendingAfter_HopOnly(n, relays) == pendingReset \cup {n}
PendingAfter(n, relays) == pendingReset \cup {n} \cup relays

OnHopConfirmed(n, relays) ==
  /\ color' = PaintPhysicalRelays(Paint(color, n, kRed), relays)
  /\ pendingReset' = PendingAfter(n, relays)
  /\ UNCHANGED mostRecentPastOrigin

OnTraceComplete(originGuess, relays) ==
  /\ color' = PaintPhysicalRelays(Paint(color, originGuess, kLatestOrigin), relays)
  /\ pendingReset' = PendingAfter(originGuess, relays)
  /\ UNCHANGED mostRecentPastOrigin

-----------------------------------------------------------------------------
(***************************************************************************)
(* ResetNode on the colours and the light-purple holder, and the loop of   *)
(* OnTraceStarted that applies it to the pending nodes in ascending order. *)
(***************************************************************************)
\* Mutant: a red holder of the light-purple marker settles to grey.
ResetNode_DropsMarker(viz, n) ==
  CASE n = Victim -> viz
    [] viz.color[n] = kLatestOrigin ->
         [color |-> [m \in Nodes |->
                       CASE m = n -> kPastOrigin
                         [] m # n /\ m = viz.holder -> kGrey
                         [] OTHER -> viz.color[m]],
          holder |-> n]
    [] viz.color[n] \in {kRed, kPaleRed} -> [viz EXCEPT !.color[n] = kGrey]
    [] OTHER -> viz

ResetNode(viz, n) ==
  CASE n = Victim -> viz
    [] n # Victim /\ viz.color[n] = kLatestOrigin ->
         [color |-> [m \in Nodes |->
                       CASE m = n -> kPastOrigin
                         [] m # n /\ m = viz.holder -> kGrey
                         [] OTHER -> viz.color[m]],
          holder |-> n]
    [] n # Victim /\ viz.color[n] \in {kRed, kPaleRed} ->
         [viz EXCEPT !.color[n] = IF viz.holder = n THEN kPastOrigin ELSE kGrey]
    [] OTHER -> viz

\* The colours and the holder when the pending nodes below n have been visited.
ResetLoop[n \in Nat] ==
  IF n = 0 THEN [color |-> color, holder |-> mostRecentPastOrigin]
  ELSE IF n - 1 \in pendingReset THEN ResetNode(ResetLoop[n - 1], n - 1)
  ELSE ResetLoop[n - 1]

OnTraceStarted ==
  LET viz == ResetLoop[LastNode + 1]
  IN  /\ color' = viz.color
      /\ mostRecentPastOrigin' = viz.holder
      /\ pendingReset' = {}

-----------------------------------------------------------------------------
(***************************************************************************)
(* The engine's calls.  A trace confirms nodes it has not visited and      *)
(* guesses an origin it has not visited; only "no_match_above_threshold"   *)
(* makes a guess, any other stop reason leaves the colours alone.          *)
(***************************************************************************)
Unvisited(s) == Nodes \ (walk[s] \cup {Victim})

TraceStarted(s) ==
  /\ walk[s] = None
  /\ OnTraceStarted
  /\ walk' = [walk EXCEPT ![s] = {}]
  /\ newest' = s
  /\ precedingGuess' = guess
  /\ guess' = None

HopConfirmed(s, n, relays) ==
  /\ walk[s] # None
  /\ n \in Unvisited(s)
  /\ OnHopConfirmed(n, relays)
  /\ walk' = [walk EXCEPT ![s] = @ \cup {n}]
  /\ UNCHANGED <<newest, guess, precedingGuess>>

OriginGuessed(s, n, relays) ==
  /\ walk[s] # None
  /\ n \in Unvisited(s)
  /\ OnTraceComplete(n, relays)
  /\ walk' = [walk EXCEPT ![s] = None]
  /\ guess' = n
  /\ UNCHANGED <<newest, precedingGuess>>

NoGuess(s) ==
  /\ walk[s] # None
  /\ walk' = [walk EXCEPT ![s] = None]
  /\ UNCHANGED <<vizVars, newest, guess, precedingGuess>>

Next ==
  \E s \in Slots :
    \/ TraceStarted(s)
    \/ NoGuess(s)
    \/ \E n \in Nodes, relays \in SUBSET Nodes :
         HopConfirmed(s, n, relays) \/ OriginGuessed(s, n, relays)

Spec == Init /\ [][Next]_vars

-----------------------------------------------------------------------------
(***************************************************************************)
(* Properties.                                                             *)
(***************************************************************************)

\* Types; the victim's colour is never among those the class assigns.
TypeOK ==
  /\ color \in [Nodes -> VizColor]
  /\ color[Victim] = kGrey
  /\ pendingReset \subseteq Nodes
  /\ mostRecentPastOrigin \in (Nodes \ {Victim}) \cup {None}
  /\ walk \in [Slots -> (SUBSET (Nodes \ {Victim})) \cup {None}]

\* At most one node shows light purple, and it is the recorded holder, also
\* after two overlapping traces left two purple nodes for one reset; and its
\* marker is never lost: whatever has been painted over it, the holder still
\* shows light purple or a colour of the current path.
MarkerIsHolders ==
  /\ \A n \in Nodes : color[n] = kPastOrigin => mostRecentPastOrigin = n
  /\ mostRecentPastOrigin # None => color[mostRecentPastOrigin] >= kPastOrigin

\* Nothing stays lit for good: every highlighted node is queued for the
\* reset the next trace performs.
HighlightsArePending ==
  \A n \in Nodes : color[n] > kPastOrigin => n \in pendingReset

\* The trace started last keeps every node it confirmed at least red while
\* it is in flight, whatever older traces report meanwhile.
NewestTraceStaysLit ==
  newest # None /\ walk[newest] # None =>
    \A n \in walk[newest] : color[n] >= kRed

\* A node loses a colour only in the reset of a new trace, which leaves no
\* node highlighted.
OnlyResetDims ==
  [][(\E n \in Nodes : color'[n] < color[n])
       => \A n \in Nodes : color'[n] <= kPastOrigin]_vars

\* README.md:149-153: light purple marks the origin estimated by the
\* immediately preceding burst, and no older one is kept.
PastOriginIsPrecedingBursts ==
  \A n \in Nodes : color[n] = kPastOrigin => precedingGuess = n
=============================================================================
