----------------------------- MODULE TraceWalk -----------------------------
(***************************************************************************)
(* What the traceback engine promises its listeners, with the simulator's  *)
(* queue, the clock and the log abstracted away: traces are numbered in    *)
(* the order they start, each starts at the victim, grows upstream one     *)
(* fresh node at a time within a hop budget, and is reported exactly once, *)
(* with at most one more node; a reported path never changes again.        *)
(***************************************************************************)
EXTENDS Naturals, Sequences

CONSTANTS Nodes, Victim, MaxHops

VARIABLES
  path,   \* the path of each trace so far, in order of trace id
  open    \* the traces not yet reported

vars == <<path, open>>

Visited(i) == {path[i][j] : j \in 1..Len(path[i])}

Init ==
  /\ path = <<>>
  /\ open = {}

Start ==
  /\ path' = Append(path, <<Victim>>)
  /\ open' = open \cup {Len(path) + 1}

Extend(i) ==
  /\ i \in open
  /\ Len(path[i]) <= MaxHops
  /\ \E n \in Nodes \ Visited(i) :
       path' = [path EXCEPT ![i] = Append(path[i], n)]
  /\ UNCHANGED open

Report(i) ==
  /\ i \in open
  /\ open' = open \ {i}
  /\ \/ UNCHANGED path
     \/ \E n \in Nodes : path' = [path EXCEPT ![i] = Append(path[i], n)]

Next == Start \/ \E i \in 1..Len(path) : Extend(i) \/ Report(i)

Spec == Init /\ [][Next]_vars
=============================================================================
