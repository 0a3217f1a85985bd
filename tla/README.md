# A TLA+ model of LiveTrace

LiveTrace simulates periodic attackers that reach a victim through chains of
stepping stones, and a defender that traces each burst back, hop by hop, while
it is still running. Everything runs on one single-threaded ns-3 event queue,
so what makes the system hard is not threads but *order*: attempts of several
traces, forwards of several bursts, starts and stops of applications, closings
of sockets and the end of the run interleave on that queue, and components keep
what they saw (flow keys, last detection times, colours) and use it in later
events.

This directory holds one module per component, TLC configurations that check
them on small instances, and TLAPS proofs about most of them. Paths are relative
to the repository root; `M/` stands for `contrib/livetrace/model/`.

## 1. Inventory

| component | state | operations | talks to | hard part |
|---|---|---|---|---|
| TracebackObserver (`M/traceback-observer.cc`) | flows seen at the victim, next trace id, queued attempts | OnFlowObserved, AttemptTrace | reads log, address index, correlator; calls reid and visualizer | traces interleave; five ways out of an attempt; window checked only at attempts; run ends with attempts queued |
| ObservationLog (`M/observation-log.cc`) | events by node and by flow, sorted | RecordSend, RecordRecv; windowed queries | written by relays, campaigns, background | events out of order, many of one instant |
| TimingCorrelator (`M/timing-correlator.cc`) | none | on/off signals, Pearson score over lags, best upstream flow | reads the log | sentinels, vanishing variance, ties, lag at the window's edge |
| offline correlator (`analysis/correlator.py`) | none | the same, over the persisted log | phase 1 | kept in sync by hand |
| NodeAddressIndex (`M/node-address-index.cc`) | address → node | Register, Lookup | read by the observer | several interfaces per node |
| ReidentificationEngine (`M/reidentification-engine.cc`) | clusters with running estimates | OnTraceComplete | called by the observer | reports arrive out of detection order |
| TraceVisualizer (`scratch/livetrace-sim.cc:93-321`) | colour per node, pending resets, past-origin holder | OnTraceStarted, OnHopConfirmed, OnTraceComplete | called by the observer | written for traces that do not overlap, used with traces that may |
| AttackerCampaign (`M/attacker-campaign.cc`) | relay pool, open sockets, shared port cursor and burst counter | Start, FireBurst, sends, close | creates relay apps, logs to oracle and log | overlapping bursts on shared nodes; closing races sending |
| StepstoneRelayApp (`M/stepstone-relay-app.cc`) | two sockets | Start, Stop, HandleRead, DoForward | log, observer (victim's sink only) | a delayed forward races the stop; unchecked Bind |
| OracleLogger (`M/oracle-logger.cc`) | output file | LogBurst | written by campaigns only | — |
| BackgroundTraffic (`M/background-traffic.cc`) | open sockets, next arrival | FireSession | log | takes ports on every node |
| RandomMeshTopology (`M/random-mesh-topology.cc`) | — | Build | ns-3 set-up | graph algorithms; retry and fallback |
| LiveTraceConfig (`contrib/livetrace/helper/`) | key → text | Load, getters, Override | driver | section carried from line to line |
| Evaluation (`analysis/*.py`) | — | one-to-one assignment, hit, success, label | reads the outputs | bursts and traces matched by time alone |
| driver (`scratch/livetrace-sim.cc`) | — | start-up with its checks, wiring, stop | all | partial failure before the run; drain after the stop time |

What makes each component correct, and what a unit test hardly reaches, is
listed as the hazards of `PROJECT.json`, each with the properties that would
catch it going wrong.

## 2. Modules

| module | models |
|---|---|
| `TraceWalk` | abstract specification: what the engine promises its listeners, numbered walks that grow by fresh nodes and end once |
| `TracebackObserver` | both handlers of the engine and its queue of attempts; implements `TraceWalk` |
| `TraceListeners` (extends `TracebackObserver`) | the engine with the visualizer hung on its callbacks; implements `TraceVisualizer` |
| `TraceVisualizer` | colours under any calls a `TraceWalk` could make, for several open traces |
| `ObservationLog` | the two sorted indexes and their queries |
| `TimingCorrelator` (extends `ObservationLog`) | signals, score, best match, and the Python mirror; the environment records packets in any order of timestamps |
| `ReidentificationEngine` | clusters; detections, and reports in any order |
| `StepstoneRelayApp` | the relay application, the sinks, sockets, ports, addresses and the network between them: the state and events all traffic shares |
| `AttackerCampaign`, `BackgroundTraffic` (extend `StepstoneRelayApp`) | what queues that traffic |
| `StepstoneOverlay` (extends both) | the composition on one event queue and one clock |
| `RandomMeshTopology` | Build and its graph analyses, driven by arbitrary draws |
| `LiveTraceConfig` | the reader of configurations |
| `StartUp` (extends the two) | main up to `Simulator::Run`, with every early return |
| `Evaluation` | assignment, hit, success |
| `LiveTrace` (extends `TracebackObserver`, `Evaluation`) | a whole run: bursts, noise, tracing, judgement at the end |
| `TracebackObserver_proofs`, `TraceVisualizer_proofs`, `ReidentificationEngine_proofs`, `StepstoneOverlay_proofs`, `TimingCorrelator_proofs` | theorems about the module of that name, section 5 |
| `LiveTrace_proofs` | theorems about `LiveTrace` and about `TraceListeners` |
| `StartUp_proofs` | theorems about `StartUp`, and so about the reader and the mesh builder it extends |
| `NaturalNumbers` | the facts those proofs share |

`MC*` modules give the constants of one instance each.

### How state and actions correspond to the code

*The event queue.* An event queued with `Simulator::Schedule` is a record with
its due time in a set (`pending`, `sends`, `forwards`, an application's `stop`,
a socket's `close`). An event runs when it is due, in any order among those of
one instant, and time (`Tick`) passes an instant only when nothing is left to
run in it. At `EndTime`, the driver's `stopTimeS` plus its drain, nothing runs
any more: `Simulator::Stop` was queued before any of the events it overtakes.

*TracebackObserver.* `Receive(f)` is one reception: the log entry and the
synchronous notification of the engine. `AttemptTrace(p)` has one action per
outcome, in the order of the code's returns; in each the path is what the code
passes on, so the peer is appended before window and hop limit are looked at,
and in a cycle it is appended although it is already there. The correlator's
choice is any flow it would score (`Candidates`). Of the log only the last
arrival of a flow is kept: "received since the detection" sees nothing else.

*TraceListeners.* A callback runs inside the event that makes it, so each action
is an action of the engine and one of the visualizer at once. The visualizer's
view of a trace in flight (`walk`, `newest`) is computed from the queue of
attempts, where a trace is named by the flow it started from. The relays under
a flow are constant, since routes are static.

*TraceVisualizer.* The reset loop runs over the pending nodes in ascending
order, as over the code's `std::set`, and threads the holder through the nodes
(`ResetLoop`). `walk`, `newest`, `guess` and `precedingGuess` are not state of
the program: the first two stand for the caller, the others are history.

*Correlator.* Scores are fractions: the square of the Pearson coefficient with
its sign, compared by cross multiplication, so that no rounding hides a tie. The
mirror computes from deviations over the set of recorded events, as the Python
code does, and not from the indexes. A flow may be logged by its sender under
another key than by its receiver. The evaluation does not see what the engine
saw: it reads times rounded to six significant digits (`Written`: the last digit
stands for the more, the later the time is; `Radix` and `Precision` are 10 and
10^5 in the program), and its window begins when the burst was fired, `lead`
before it was detected.

*ReidentificationEngine.* Scores are integers on a common scale; a burst's
fingerprint and its timing score against every cluster are inputs. A report
takes between `TraceMin` and `TraceMax` from detection, which is what lets one
overtake another.

*Overlay.* A relay application exists from the burst on, opens its sockets in an
event of its own (`StartApplication`), stays deaf if its port is taken, and
vanishes in `StopApplication`; a `Forward` whose application has vanished does
nothing. A sender logs under its node's first interface, the receiver sees the
interface of the route (`SentAs`, `OnWire`), and `Lookup` is over the interfaces
the driver registers. The origin records its send whether or not its socket was
open. Listening ports come from the campaign's wrapping cursor, sending ports
from the ephemeral counter of the node, and both may meet. The packet carries
the nodes it passed, `wire` what was really sent and `deaf` the relays without
a port: none is program state, all three are there for properties. The draw of
a relay gives up after 1000 attempts in the code; in the model it stops exactly
when no relay is left.

*RandomMeshTopology.* An iteration of Build's loop is a draw and a check. The
three breadth-first loops of the source are one operator; edge sets stand for
edge lists because edges are generated in lexicographic order. A loop is a
recursive function of the number of its turns, which is bounded by the number of
vertices. The recursive depth-first search is a function from calls to the
arrays they leave, for each depth of nesting (`ArticulationDfs`); that N deep is
enough is part of what section 5 proves.

*LiveTraceConfig and StartUp.* A line is what the code is left with after
stripping comment and blanks: indented or not, a dotted key, a value. `StartUp`
has an action for each step of main that can return early; which logs can be
opened is arbitrary. The number of draws Build may make is read from the file.

*LiveTrace.* A burst is logged and reaches all nodes of its chain in one instant
of the coarse clock (a chain is passed in fractions of a second, an attempt
waits two seconds), except where that fraction decides: the campaign fires up to
and at the stop time, when the victim's sink closes, so a burst of the last
`Transit` may find it closed (`FindsSinkClosed`), and one fired at the stop time
does. Such a burst is in the oracle, and its relays have received it, but no
trace starts (`heard` is the history of those that one started for). A relay
that is deaf because its port was taken is a matter of the overlay and does not
occur here. That a burst has a victim flow of its own is not assumed
blindly: it is `OneVictimFlowPerBurst` of the overlay. A trace cut off by the
end of the run has left the lines of its hops, but none in the
re-identification output; phases 1 to 3 each line bursts up with their own view.

## 3. Runs

| run | question | instance | distinct states |
|---|---|---|---|
| `observer_window` | one outcome per trace, one trace per flow, real and simple paths, time and hop budget, what the end cuts off, refinement of `TraceWalk` | 4 nodes, 7 flows with cycles and an unknown source, 5 arrivals, window of 3 with delay 2: all six outcomes occur, several traces overlap | 3.1 M |
| `observer_hops` | the budget where the hop limit binds, timely traces complete, refinement of `TraceVisualizer`, marks come from reports | the same flows, hop limit 2 inside a longer window, 4 arrivals, the visualizer listening, fairness | 327 k |
| `visualizer_overlap` | colours with two traces in flight | 5 nodes, any relays under a flow; traces symmetric | 113 k |
| `visualizer_marker` (violation) | the marker of "the immediately preceding burst" | one trace at a time | – |
| `reid_overlap` | accounting of clusters under every report order | 3 bursts, 8 instants, two fingerprints, three relay sets | 278 k |
| `reid_estimate` (violation) | "<= 0 means not yet estimated" | the same | – |
| `correlator` | queries exact, online and offline agree, delays tolerated | 4 flows, one logged under another key, every log of 3 packets sent in 5 instants, times of 3 on written to multiples of 3, window of the evaluation up to 1 earlier | 4 k |
| `topology` | configuration read right, no run without its logs, graph analyses, mesh built | every file of 3 lines out of 20, then all graphs on 5 vertices, up to two draws | 46 k |
| `topology_fallback` (violation) | "guarantees that no single articulation point…" | 5 vertices, two draws | – |
| `overlay` | overlapping bursts of two actors, a third too late, background sessions | 4 nodes, two of them with a second interface, schedules that drain and one that outlasts its sockets, a cursor that reaches ephemeral ports and wraps | 1.7 M |
| `live_trace` | every burst answered, assignment stable, success only within budget, evaluators consistent, labels own | three arrivals, bursts of one to three hops and noise; the victim's sink closes 2 before the end, on bursts up to 1 on their way; the end cuts traces off | 161 k |
| `evaluation_reason` (violation) | success only with `no_match_above_threshold` | the same with hop delay 1 | – |

Why the bounds are enough. The traces of the engine share only the log and the
counter, so two or three overlapping traces show what more would; a chain of
three nodes and a return edge show cycles, the limit and the window. Colours
of a node depend on the node, the holder and the pending set: five nodes with
the victim leave four, so that both open traces can have a holder, a relay and
a hop. Five vertices are the least on which a pendant leaf (allowed) and a real
bottleneck (second component of two) differ; the percentage is 20 in place of
the code's 15 so that the limit is one vertex there. Three lines are the least
with a section, a line that closes or keeps it, and a key after that. In the
overlay the cursor's range holds four ports, the last one ephemeral, so that it
wraps and collides within three bursts. Where an argument of this kind is not
enough, section 5 has a proof for every instance.

The same for the correlator's digits: with base 3, a last digit that is worth 3 is
more than a bucket, so that rounding moves events between buckets as well as
within one. Both cases occur: without the premise `Aligned` the agreement is
violated on this instance by rounding alone, and there are windows on which the
premise holds, an event is rounded, and a valid match is made. The integers of
the start-up instance wrap at 4 in place of 2^32, so that a negative limit of
attempts is read as a positive one, as main's cast does.

Bounds that exist for TLC alone are `MaxArrivals`, `MaxPackets`, `MaxBursts`,
`MaxTime`, `Horizon`, `MaxLines` and the size of `Slots`; all other constants
are configuration of the program. `SYMMETRY` is used where the permuted values
are compared for equality only: the slots of the visualizer, and the two relay
nodes of the overlay, which have the same links; neither run has a liveness
property.

`CHECK_DEADLOCK FALSE` is used where the program stops: at the end of the
simulation, when Build returns or main exits, when the bounded log or burst
count is reached.

*Fairness.* Only `FairSpec` of `TracebackObserver`, and its counterpart
`ListenersSpec`, assume any: the simulator keeps taking events off its queue and
moving time on until it is stopped, hence weak fairness of `Tick` and of the
attempts. No packet is obliged to arrive.

## 4. What the violations show

* `evaluate_phase2.py:72` compares paths only, and the engine appends the next
  node before it looks at the window: a trace that *expired* on the true origin
  is counted as a success, which `docs/traceback-algorithm.md:202-204` excludes.
* A trace reported after one detected later gives its cluster a negative
  interval, stored as its period estimate (`M/reidentification-engine.cc:151-156`);
  the field's comment says such a value means "not yet estimated".
* The light-purple marker stays when the next trace names no origin; README
  lines 149-153 say it marks the immediately preceding burst only.
* Build accepts the last draw when its attempts are exhausted, bottleneck or
  not; README lines 194-196 speak of a guarantee.

Also met, and not a run: `docs/traceback-algorithm.md:171` calls the node that
`evaluate_phase1.py` expects `chain[-2]`, the code takes `chain[-3]` (line 59).

## 5. Proofs

Each theorem holds for every value of the constants that satisfies the named
assumptions of the module it is about, which TLC evaluates on every run.

**The engine** (`TracebackObserver_proofs`): for every overlay, set of flows,
window, delay and hop limit.

* `TypeCorrect`, `OneOutcome`, `OneTrace`. A new trace takes an id no trace has,
  since all ids are below `nextTraceId`; a finish moves one id from pending to
  completed; a match replaces an attempt by another of the same id; `seen` is
  kept equal to the flows traces started from.
* `Budget`, `CutOff`. The strengthening is the exact due time (detection +
  accumulation + hops × hop delay) with "no attempt is overdue", which makes an
  attempt run at the instant it is due for.
* `SimplePath`. No queued path is empty, so that appending leaves its first
  node, the victim, in place; the rest is what appending a fresh, or a visited,
  node does to repetition.
* `ObservedHops`. The confirmed flow was received by the last node of the path
  since the detection, and the log is never ahead of the clock, so that another
  arrival only raises `lastRx`.

The engine implements the walk (`Implementation`, in the same module). The
mapped `path` picks for each trace number the queued attempt or the completion
of that number; `OneOutcome` makes the pick unique. A step that starts, ends or
continues a trace maps to `Start`, `Report` or `Extend`, every other step to a
stutter.

**The engine drives the visualizer** (`LiveTrace_proofs`, `Listeners`). A
step of the program is a step of the engine (`EngineInside`), so the engine's
invariants are available. What `TraceVisualizer` takes for granted of its
caller is then: a trace in flight is one queued attempt, named by its flow since
a flow starts one trace (`WalkOf`, `OneWalkChanges`); the peer it confirms or
guesses is unvisited (`FreshIsUnvisited`, from `PathIsSimple`); the newest trace
is the one with the highest number (`LatestOf`). Every step maps to a call of
the visualizer or a stutter, so what is proved of the visualizer holds of the
program (`ColoursOfTheProgram`). `OriginsReported` needs one thing more: `guess`,
the history of what traces guessed, is mapped too, and each guess is the end of a
trail the engine has reported (`MarksCorrect` below gives the rest).

**The visualizer** (`TraceVisualizer_proofs`): `TypeCorrect`, `MarkerCorrect`,
`HighlightsCorrect`, `NewestCorrect`, `DimsCorrect`, for any number of nodes and
traces. The reset loop is a recursive function over the nodes. Its runs of
finite length exist and agree, by induction on the natural numbers, which gives
its unfolding (`LoopUnfolds`); a second induction carries the loop's own
invariant, that what has been passed is grey or light purple and that only the
holder is light purple (`LoopIsSound`). The invariant of the state, `Lit`, joins
the three properties: that highlights are pending is what lets a reset clear
everything, and that is why only the holder is left marked. `MarksCorrect` follows
the marks of an origin through single steps: a reset marks no node that was not
marked (`VisitMarksNone`), where a node counts as marked also while it only holds
the marker, and painting a relay or a hop marks none.

**Re-identification** (`ReidentificationEngine_proofs`): for any number of
bursts, order of reports, period, tolerance and timing scores.

* `TypeCorrect`: `Shape`, with relay sets and averages of the right kind,
  and `Dated`, that no detection, of a burst or of a cluster, is in the future.
* `MembershipCorrect`: `Accounts` says that the summary of a cluster is that of
  the lines filed under it. It needs `ReportedOnce`, since a count grows by one
  only if the new line repeats no trace.
* `AveragesCorrect`: an update loses the remainder of its division and nothing
  else, so the count times the average is the sum over the cluster's lines less
  the remainders lost so far. Up to six members the common scale makes every
  division exact; beyond, the loss is bounded by the updates there were. The
  sums are folds over the set of lines (`SumFoldUnfolds`).
* `EstimateCorrect`: while reports arrive in order a new line is later than
  every other, so the interval, and the estimate made of it, is positive.
* `PeriodicActorStaysOne`: by `Regular`, while all bursts could be one actor's
  the only cluster *mirrors* the last line exactly, and its period is the prior
  whether or not it has been estimated; the next burst then matches in period,
  relays and fingerprint, and these alone carry it to the threshold.

**The overlay** (`StepstoneOverlay_proofs`): for every network, set of actors,
pools, period, chain length, schedule and (finite) sets of delays. The
invariants build on each other:

* `IInv`, about the oracle and the queued bursts, gives `Chains`, from what a
  draw of relays may be (`DrawIsTraceable`), and `Cadence`: the bursts an actor
  has fired are all those due before the one it has queued, which is on its
  cadence and not overdue; that two multiples of the period are a period apart
  (`PeriodApart`) makes the next one complete it.
* `NetTypes` types everything the network holds; `SendsInv` adds that a socket
  is open until its close and a queued send is not overdue, hence
  `SendsAccounted`.
* `Placed`: a packet has passed a beginning of its burst's chain and is addressed
  to the next node of it, by a port given to one relay and no other; a relay that
  hears it is that node's. Each place in the chain has a deadline, the send plus
  the longest link and relay delays so far. This gives `PacketsOnChain`.
* `Wired` carries the same over to what was put on the wire and received, which
  outlives the packets: `SendersNamed`. The address of the interface a packet
  left by resolves to its node because the driver registers all of them.
* `SpeakersApart`: two senders of one node never share a port; with `Wired` it
  gives `FlowsApart`, bursts and flows into the victim one to one, which is what
  the observer's "one trace per flow" rests on.
* `NothingLost`: a packet of a burst that must arrive is still to be sent, in the
  air, waiting in a relay, or received. It holds because the deadlines of
  `Placed` lie before the stop of the relays: `ArrivalWhole`.

The last four hold under `FreshPorts`: the cursor has not gone through its range
of listening ports. After it has, two overlapping bursts may be given one port,
and the second relay is deaf or hears the first burst's packets; the `overlay` run
has a cursor that wraps and shows which properties survive on its instance. That
the condition is no restriction of the program as shipped is a theorem of its own:
`PortsSuffice`, by counting the firing times of all actors, says `FreshPorts` holds
of a whole run if it asks for no more ports than the range has. The shipped
configurations ask for 360 by default and 2520 at most (`scale_sweep`), of 45001.
Before the proof, TLC checked the conjunction of these invariants on an instance
of its own (cursor range enlarged to 15 so that `FreshPorts` holds throughout:
1.6 M states).

**The log and the correlator** (`TimingCorrelator_proofs`): for any number of
packets logged in any order of timestamps, any bucket width, lag budget and
threshold above the score of no correlation (`ThresholdAssumption`).

* `Queries`. Insertion at the first later event keeps an index ordered and adds
  the event (`InsertSortedOrdered`); on an ordered index the window between two
  first positions is exactly the events of the interval (`WindowExact`); `LogInv`
  keeps both indexes equal in content and counts two events a packet.
* `DelaysTolerated`. The fold over the lags returns the greatest score
  (`BestIsGreatest`, with the order of fractions in `AtLeastTransitive`). A
  coefficient of bits only counts: with A, B and C positions set in one signal,
  the other and both, it is at most one (`AtMostOne`), and at the lag that equals
  the delay the overlap makes the signals the same, so A = B = C and the
  coefficient is one (`PerfectAtDelay`). That part of the signal is not flat
  because it still has a transition.
* `MirrorAgrees`. Its premise, `Aligned`, is that every event is in the window of
  the evaluation if and only if it is in the engine's, and then in the same
  bucket; nothing else is supposed of how times were rounded. No event is logged twice (`EachOnceAlways`), so counting
  positions of a query and counting recorded events give the same signals
  (`SignalsAgree`). Deviations are n times their values, so the mirror's sums are
  n times the online ones (`SumOfDeviations`) and the fractions equal, sentinels
  included (`ScoresAgree`), since both windows have the same number of buckets. The scan of the flows at the node keeps the best
  eligible one (`BestMatch`), and the flows scanned include every candidate the
  evaluation takes from the persisted log (`FlowsAtNodeExact`).

**The judgement of a run** (`LiveTrace_proofs`). First the assignment alone, for
any two lists and any tolerance:

* `StableAssignment`: what the claims made so far guarantee is that every pair
  that can no longer be claimed has lost to one that is no farther apart. A wider
  tolerance keeps the pairs claimed within a narrower one, since candidates are
  claimed in order of distance.
* A counting lemma: if every record belongs to a burst of its own that started
  when it was detected, no burst is given another's; a record lost to a burst of
  another instant would leave its own instant with fewer records than bursts
  (`NoInjectionIntoFewer`).

Then the run: `LiveInv` says that trace i - 1 was started by the burst `heard[i]`
of the oracle, another for each trace, that a burst early enough to be heard is
among them, and how long a path is for the hops it took; TLC checked it on the
instance of `live_trace` first. With these, `Stability`, `OwnLabels`,
`BurstsAnswered`, `TracedAreHits` and `SuccessInTime` follow from what the outputs
hold when they are read. `RouteAssumption` says that routes end at the victim,
that each hop's receiver is the next one's sender, and that phase 2 does not match
more narrowly than phase 1.

**Start-up and the mesh** (`StartUp_proofs`): for every configuration of any
length, any number of vertices, every sequence of draws, any share and any limit
on the attempts.

* `ConfigAsWritten`. The reader's state after i lines is, for each key, the last
  of the first i lines that assigns it, and the section opened by the nearest
  head above (`ReadUpTo`, kept by each line in `LineRead`). The fold over the
  lines has a value and can be unfolded line by line (`FileRead`).
* `RunsLogged`: `MainInv` says which logs are open in each phase.
* `MeshIsGiantComponent` and `PathStatsOfMesh` rest on `BfsExact`: a breadth-first
  search lists exactly the vertices that can be reached, each with its distance.
  The loop's invariant, `Searched`, is that distances do not decrease along the
  queue and differ by at most one in what has still to be taken out, that what is
  marked is no nearer than its mark says, and that the neighbours of what was
  taken out are marked. Reaching is defined by balls; that N balls are enough is a
  counting argument (`ReachClosed`). A renumbered component is connected and has
  the edges of the old one (`RemappedMeshed`, `RemappedCount`).
* `ArticulationFound`. *C is sealed by x* if every edge that leaves C leads to x.
  A call of the search that may start (`Fit`: its vertex undiscovered, its parent
  a discovered neighbour) meets a contract (`Discovers`): it discovers a set New
  of vertices that is reached from its own vertex without leaving New, and that
  nothing undiscovered adjoins; it leaves everything else as it was; `low` of its
  vertex tells whether an edge leads from New to before a given time; and a
  vertex of New is marked exactly if it cuts off a part of New. Only for the first
  call of all is it instead *separates*, which is why the code treats the root
  apart. The loop's invariant (`Looped`) keeps the sets that the children
  discovered apart: an edge from one to another would have been followed by the
  first. Hence a child's set is sealed by the vertex exactly if the child's `low`
  does not lie before the vertex's own time (`ChildTurn`), and what any other
  vertex cuts off lies within one child's set or contains the vertex itself
  (`LoopEnds`). The contract holds of the search nested d deep for calls that
  leave at most d vertices to discover (`CallKeepsContract`), by induction on d,
  so that N deep is enough (`SearchMeetsContract`). In a connected graph the search
  from vertex 0 discovers everything (`PointsFound`). A vertex separates the rest
  exactly if its removal leaves two parts (`SeparatesParts`), and with a largest
  part set aside the largest left has the second size (`SecondLargest`). Through
  Build's loop, `AnalysisInv` says that what is stored is exact for the last draw
  if that is connected, and nothing or the result of a refused draw if not.
* `BottlenecksRefused`: two parts beyond the share make the vertex an articulation
  point whose second size is beyond it too (`SecondAtLeast`), and `AnalysisInv` has
  the worst second size within the limit as long as attempts are left.

**`NaturalNumbers`** holds what these proofs share and the library states only
with an operator as a parameter: induction on naturals and on finite subsets,
iteration of a function, counting along injections, and that a fold over the
subsets of a finite set has a value, so that its recursive equation may be used.
This is how the folds and loops of the models (the reset loop, the sums, the best
lag, the scan of flows, the claims, the reader, the graph searches) are reasoned
about without RECURSIVE.

Model-checked only:

* `TimelyTracesComplete`: liveness under fairness and ENABLED are out of the
  prover's reach;
* the properties under `FreshPorts` where the cursor wraps, on the instance of
  `overlay`.

Every other property the passing runs check is stated by a theorem. `DimsCorrect`
is proved only: it follows from the conditions of the painting operations one by
one, and no run spends its time on it.

## 6. Not modelled

* Text: flow keys and addresses as text, JSON, the splitting of a configuration
  line and the getters other than `GetInt`, which differ in the conversion only.
  Of the persisted text only the rounding of times is modelled. Where it, or the
  earlier start of its window, moves an event to another bucket, the evaluation
  may find other scores than the engine; by how much is not bounded here. The
  agreement is about one reference flow: which flow phase 1 takes for it, the
  first that reaches the victim in the burst's window, is not compared with the
  flow the trace started from.
* The draw of a chain's relays gives up after 1000 attempts, each of which picks
  an unused relay with a probability that is positive as long as there is one;
  the model gives up exactly when there is none.
* Deaf relays are in the overlay only. A burst whose relay is deaf does not reach
  the victim and counts as a failure of the tracing in the evaluation, as does
  one that finds the victim's sink closed; `LiveTrace` has the latter.
* ns-3: routing, link rates and queues, beyond a bounded delay that reorders.
  Ephemeral ports are drawn upwards and do not wrap within the bounds.
* Random distributions: every draw is any value of its range.
* Drawing: sizes, labels and positions of nodes, NetAnim.
* Confidence intervals, reports and plots of `analysis/`, phase 4, which calls
  the other evaluators for every network size, and the batch scripts.
* The fingerprint of a burst, and its timing score against a cluster, are inputs
  of the re-identification model rather than computed from the log.

## 7. Plan

The plan of the project has been carried out: the engine with its abstract
specification, its listeners, its data sources and their offline mirror, the
traffic it observes, the mesh and the start-up, the judgement of a run, and
theorems about each part within the prover's reach. What would come next:

1. the re-identification engine as a second listener of `TraceListeners`, with
   fingerprints computed from `ObservationLog`;
2. a bound on how far the offline score can differ from the online one when
   rounding moves events between buckets;
3. the parser of the command line and the conversions of the other getters, to
   follow a parameter from the text to the component that uses it.
