--------------------------- MODULE ObservationLog --------------------------
(***************************************************************************)
(* The central log of send and receive events                              *)
(* (contrib/livetrace/model/observation-log.cc): one index by node and one *)
(* by flow, each kept sorted by timestamp, and the windowed queries the    *)
(* engines read.  An event's size identifies the packet it is about.       *)
(***************************************************************************)
EXTENDS Integers, SequencesExt

CONSTANTS Nodes, Flows

VARIABLES
  byNode,   \* m_byNode
  byFlow    \* m_byFlow

logVars == <<byNode, byFlow>>

Event(t, node, isRx, flow, size) ==
  [t |-> t, node |-> node, isRx |-> isRx, flow |-> flow, size |-> size]

LogInit ==
  /\ byNode = [n \in Nodes |-> <<>>]
  /\ byFlow = [f \in Flows |-> <<>>]

\* Mutant: a late event is put before the events of its own instant.
InsertSorted_LowerBound(bucket, e) ==
  LET notEarlier == {i \in DOMAIN bucket : bucket[i].t >= e.t}
  IN  InsertAt(bucket, Min(notEarlier \cup {Len(bucket) + 1}), e)

\* Insertion at std::upper_bound: after every event not later than e.
InsertSorted(bucket, e) ==
  LET later == {i \in DOMAIN bucket : bucket[i].t > e.t}
  IN  InsertAt(bucket, Min(later \cup {Len(bucket) + 1}), e)

Inserted(index, key, e) == [index EXCEPT ![key] = InsertSorted(@, e)]

\* Record of one event, then of another.
RecordBoth(first, second) ==
  /\ byNode' = Inserted(Inserted(byNode, first.node, first), second.node, second)
  /\ byFlow' = Inserted(Inserted(byFlow, first.flow, first), second.flow, second)

\* From std::lower_bound of t0 for as long as the timestamp is within t1.
WindowedCopy(sorted, t0, t1) ==
  LET from == Min({i \in DOMAIN sorted : sorted[i].t >= t0} \cup {Len(sorted) + 1})
      beyond == {i \in from..Len(sorted) : sorted[i].t > t1}
  IN  SubSeq(sorted, from, Min(beyond \cup {Len(sorted) + 1}) - 1)

EventsAtNode(n, t0, t1) == WindowedCopy(byNode[n], t0, t1)
EventsForFlow(f, t0, t1) == WindowedCopy(byFlow[f], t0, t1)

\* The distinct flows seen at a node, in the order first seen.
FlowsAtNode(n, t0, t1) ==
  LET AddFlow(flows, e) ==
        IF Contains(flows, e.flow) THEN flows ELSE Append(flows, e.flow)
  IN  FoldLeft(AddFlow, <<>>, EventsAtNode(n, t0, t1))
=============================================================================
