--------------------------- MODULE TraceListeners ---------------------------
(***************************************************************************)
(* The traceback engine together with the visualizer that main hangs on    *)
(* its three callbacks (scratch/livetrace-sim.cc): each call is part of    *)
(* the event that makes it.  The re-identification engine is called for    *)
(* every completed trace and changes nothing here.                         *)
(*                                                                         *)
(* The relays under a flow are those that forwarded its packets.  Routes   *)
(* are static and a flow is asked for only after a packet of it has        *)
(* arrived, so that the index has all of them, or none for the             *)
(* background's flows, which it leaves out.                                *)
(***************************************************************************)
EXTENDS TracebackObserver

CONSTANTS
  Route,     \* the nodes that forward a flow's packets
  LastNode,  \* of TraceVisualizer
  None       \* an empty std::optional

ASSUME ListenersAssumption ==
  /\ Route \in [Flows -> SUBSET Nodes]
  /\ LastNode \in Nat
  /\ Nodes \subseteq 0..LastNode
  /\ None \notin Nodes
  /\ \A S \in SUBSET Nodes : S # None

VARIABLES
  color,                 \* m_state
  pendingReset,          \* m_pendingReset
  mostRecentPastOrigin,  \* m_mostRecentPastOrigin
  guess,                 \* history: as in TraceVisualizer
  precedingGuess

listenerVars == <<color, pendingReset, mostRecentPastOrigin, guess, precedingGuess>>
allVars == <<vars, listenerVars>>

\* What the visualizer's environment knows of a trace, named by the flow it
\* started from: the nodes confirmed, until it completes.
VictimFlows == {f \in Flows : DstNode[f] = Victim}
InFlight(f) == {p \in pending : p.hop0 = f}
ConfirmedNodes(p) == {p.chain[i] : i \in 2..Len(p.chain)}

Viz == INSTANCE TraceVisualizer WITH
  Slots <- VictimFlows,
  walk <- [f \in VictimFlows |->
             IF InFlight(f) = {} THEN None
             ELSE UNION {ConfirmedNodes(p) : p \in InFlight(f)}],
  newest <- IF nextTraceId = 0 THEN None ELSE TraceOf(nextTraceId - 1).hop0

ListenersInit ==
  /\ Init
  /\ color = [n \in Nodes |-> Viz!kGrey]
  /\ pendingReset = {}
  /\ mostRecentPastOrigin = None
  /\ guess = None
  /\ precedingGuess = None

\* Mutant: every flow of a trace counts as a new trace.
TraceStarted_Always(f) == DstNode[f] = Victim
\* m_traceStarted is called once for a flow.
TraceStarted(f) == StartsTrace(f)

ReceiveAndNotify(f) ==
  /\ Receive(f)
  /\ \/ /\ TraceStarted(f)
        /\ Viz!OnTraceStarted
        /\ precedingGuess' = guess
        /\ guess' = None
     \/ /\ ~TraceStarted(f)
        /\ UNCHANGED listenerVars

MatchedAndNotify(p, match) ==
  /\ Matched(p, match)
  /\ Viz!OnHopConfirmed(Peer(p), Route[p.confirmed])
  /\ UNCHANGED <<guess, precedingGuess>>

\* Mutant: the guess is the node confirmed last.
OriginGuess_Confirmed(p) == p.chain[Len(p.chain)]
\* chain.back()
OriginGuess(p) == Peer(p)

\* The trail ends at a node: that is the origin the visualizer marks.
NoMatchAndNotify(p) ==
  /\ NoMatch(p)
  /\ Viz!OnTraceComplete(OriginGuess(p), Route[p.confirmed])
  /\ guess' = OriginGuess(p)
  /\ UNCHANGED precedingGuess

\* Any other end of a trace leaves the colours alone.
GiveUpAndNotify(p) ==
  /\ GiveUp(p)
  /\ UNCHANGED listenerVars

AttemptAndNotify(p) ==
  \/ \E match \in Flows : MatchedAndNotify(p, match)
  \/ NoMatchAndNotify(p)
  \/ GiveUpAndNotify(p)

TickOnly == Tick /\ UNCHANGED listenerVars

ListenersNext ==
  \/ \E f \in Flows : ReceiveAndNotify(f)
  \/ \E p \in pending : AttemptAndNotify(p)
  \/ TickOnly

\* As for the engine alone: the simulator runs what is queued.
ListenersSpec ==
  /\ ListenersInit
  /\ [][ListenersNext]_allVars
  /\ WF_allVars(TickOnly)
  /\ WF_allVars(\E p \in pending : AttemptAndNotify(p))

-----------------------------------------------------------------------------
(***************************************************************************)
(* Properties.                                                             *)
(***************************************************************************)

\* The engine calls the visualizer as that module takes for granted, however
\* traces overlap, cycle or fail: a trace confirms only nodes it has not
\* visited, never the victim, guesses an origin it has not visited, at most
\* once and as its last call.  So what is shown there holds of the program.
DrivesVisualizer == Viz!Spec

\* A node is marked as an origin, present or past, only because some trace
\* was reported with its trail ending there.
OriginMarksAreReported ==
  \A n \in Nodes :
    color[n] \in {Viz!kLatestOrigin, Viz!kPastOrigin} =>
      \E c \in completed :
        c.reason = "no_match_above_threshold" /\ c.chain[Len(c.chain)] = n
=============================================================================
