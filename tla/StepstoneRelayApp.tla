------------------------- MODULE StepstoneRelayApp -------------------------
(***************************************************************************)
(* The applications that receive packets, record them and pass them on     *)
(* (contrib/livetrace/model/stepstone-relay-app.cc), the sockets others    *)
(* send through, and the network between them.  What happens is events on  *)
(* the simulator's queue: sends, forwards after a random delay, starts and *)
(* stops of applications, closings of sockets.  Events due at one instant  *)
(* run in any order.                                                       *)
(*                                                                         *)
(* An address is a node and one of its interfaces, a flow key a record of  *)
(* the two endpoints.  A packet is numbered within its job, a burst        *)
(* (positive) or a session of background traffic (negative), and carries   *)
(* the nodes it has passed, which the program does not record.  The UDP    *)
(* layer (ephemeral ports, demultiplexing, the source address of the route *)
(* taken, delivery after a bounded delay) is modelled from its use.        *)
(***************************************************************************)
EXTENDS Integers, Sequences, FiniteSets, FiniteSetsExt, SequencesExt

CONSTANTS
  Nodes,            \* m_nodes
  Victim,           \* m_victimNodeId
  VictimPort,       \* kVictimPort
  BackgroundPort,   \* kBackgroundPort
  Interfaces,       \* number of links of each node
  Outgoing,         \* Outgoing[n][m]: n's interface on the route to m
  kNotFound,        \* NodeAddressIndex::kNotFound
  RelayDelays,      \* the values of m_relayDelay
  LinkDelays,       \* the delays of the network between two nodes
  FirstEphemeral,   \* 49152: where a node starts looking for a free port
  StopTime,         \* stopTimeS
  Drain             \* the simulator stops Drain after StopTime

ASSUME NetworkAssumption ==
  /\ IsFiniteSet(Nodes)
  /\ Victim \in Nodes
  /\ kNotFound \notin Nodes
  /\ Interfaces \in [Nodes -> Nat \ {0}]
  /\ Outgoing \in [Nodes -> [Nodes -> Nat \ {0}]]
  /\ \A n, m \in Nodes : Outgoing[n][m] <= Interfaces[n]
  /\ {VictimPort, BackgroundPort, FirstEphemeral, StopTime, Drain} \subseteq Nat
  /\ VictimPort # BackgroundPort

\* No packet crosses a link in no time.
ASSUME DelayAssumption ==
  /\ IsFiniteSet(RelayDelays) /\ RelayDelays # {} /\ RelayDelays \subseteq Nat
  /\ IsFiniteSet(LinkDelays) /\ LinkDelays # {} /\ LinkDelays \subseteq Nat \ {0}

VARIABLES
  now,        \* Simulator::Now()
  ephemeral,  \* the port each node's UDP layer tries next
  active,     \* m_activeSockets of campaigns and background: open sockets
  relays,     \* the relay applications, queued for start or running
  sends,      \* queued send events
  air,        \* packets in the network
  forwards,   \* queued DoForward events
  logTx,      \* m_obsLog: the sends recorded
  logRx,      \* m_obsLog: the receptions recorded
  wire,       \* history: the packets handed to the network
  deaf        \* history: the relays whose Bind failed

netVars == <<now, ephemeral, active, relays, sends, air, forwards, logTx,
             logRx, wire, deaf>>

EndTime == StopTime + Drain

\* An event queued for t runs now: the simulator stops at EndTime, before
\* anything else due then.
Due(t) == t = now /\ now < EndTime

NetInit ==
  /\ now = 0
  /\ ephemeral = [n \in Nodes |-> FirstEphemeral]
  /\ active = {}
  /\ relays = {}
  /\ sends = {}
  /\ air = {}
  /\ forwards = {}
  /\ logTx = {}
  /\ logRx = {}
  /\ wire = {}
  /\ deaf = {}

-----------------------------------------------------------------------------
(***************************************************************************)
(* Addresses and flow keys.                                                *)
(***************************************************************************)
\* nodeAddresses, GetNodeIpv4Address: the address a node is dialled under.
NodeAddress(n) == <<n, 1>>

\* Mutant: only the address a node is dialled under is registered.
Registered_FirstOnly == {NodeAddress(n) : n \in Nodes}
\* The driver registers every interface of every node.
Registered == UNION {{n} \X (1..Interfaces[n]) : n \in Nodes}

Lookup(address) == IF address \in Registered THEN address[1] ELSE kNotFound

MakeFlowKey(src, sport, dst, dport) ==
  [src |-> src, sport |-> sport, dst |-> dst, dport |-> dport]

\* The key under which a node logs what it sends to an endpoint <<node, port>>.
SentAs(node, sport, to) ==
  MakeFlowKey(NodeAddress(node), sport, NodeAddress(to[1]), to[2])

\* The flow its receiver sees: it comes from the interface it left by.
OnWire(flow) == [flow EXCEPT !.src[2] = Outgoing[flow.src[1]][flow.dst[1]]]

-----------------------------------------------------------------------------
(***************************************************************************)
(* Ports and packets.                                                      *)
(***************************************************************************)
SinkPorts(node) ==
  IF now >= StopTime THEN {}
  ELSE {BackgroundPort} \cup (IF node = Victim THEN {VictimPort} ELSE {})

PortsInUse(node) ==
  {r.port : r \in {x \in relays : x.node = node /\ x.bound}}
    \cup {r.sendPort : r \in {x \in relays : x.node = node /\ x.started}}
    \cup {s.port : s \in {x \in active : x.node = node}}
    \cup SinkPorts(node)

\* An ephemeral Bind: the next port of the node that is free.
EphemeralPort(node, taken) ==
  CHOOSE p \in ephemeral[node]..(ephemeral[node] + Cardinality(taken)) :
    /\ p \notin taken
    /\ \A q \in ephemeral[node]..(p - 1) : q \in taken

Packet(job, n, passed, flow, delay) ==
  [job |-> job, n |-> n, passed |-> passed, flow |-> OnWire(flow), at |-> now + delay]

CloseSocket(s) ==
  /\ Due(s.close)
  /\ active' = active \ {s}
  /\ UNCHANGED <<now, ephemeral, relays, sends, air, forwards, logTx, logRx, wire, deaf>>

\* Send fails silently on a closed socket; the send is recorded regardless.
SendPacket(s) ==
  /\ Due(s.due)
  /\ sends' = sends \ {s}
  /\ logTx' = logTx \cup {<<s.job, s.n, s.flow>>}
  /\ \/ /\ \E a \in active : a.job = s.job
        /\ wire' = wire \cup {<<s.job, s.n, OnWire(s.flow)>>}
        /\ \E d \in LinkDelays :
             air' = air \cup {Packet(s.job, s.n, <<s.flow.src[1]>>, s.flow, d)}
     \/ /\ \A a \in active : a.job # s.job
        /\ UNCHANGED <<wire, air>>
  /\ UNCHANGED <<now, ephemeral, active, relays, forwards, logRx, deaf>>

-----------------------------------------------------------------------------
(***************************************************************************)
(* The application.                                                        *)
(***************************************************************************)
\* Mutant: the relays of a node share one sending socket.
SendPort_Shared(r, taken) ==
  LET others == {x \in relays : x.node = r.node /\ x.started}
  IN  IF others = {} THEN EphemeralPort(r.node, taken)
      ELSE (CHOOSE x \in others : TRUE).sendPort

\* Every relay application sends from a socket, and so a port, of its own.
SendPort(r, taken) == EphemeralPort(r.node, taken)

\* A listening port that is taken leaves the application deaf: the result of
\* Bind is not looked at.
StartApplication(r) ==
  /\ ~r.started
  /\ now < EndTime
  /\ LET bound    == r.port \notin PortsInUse(r.node)
         taken    == PortsInUse(r.node) \cup (IF bound THEN {r.port} ELSE {})
         sendPort == SendPort(r, taken)
     IN  /\ relays' = (relays \ {r}) \cup
              {[r EXCEPT !.started = TRUE, !.bound = bound, !.sendPort = sendPort]}
         /\ ephemeral' = [ephemeral EXCEPT ![r.node] = sendPort + 1]
         /\ deaf' = IF bound THEN deaf ELSE deaf \cup {<<r.job, r.hop, r.port>>}
  /\ UNCHANGED <<now, active, sends, air, forwards, logTx, logRx, wire>>

StopApplication(r) ==
  /\ r.started
  /\ Due(r.stop)
  /\ relays' = relays \ {r}
  /\ UNCHANGED <<now, ephemeral, active, sends, air, forwards, logTx, logRx, wire, deaf>>

Listener(flow) ==
  {r \in relays : r.bound /\ r.node = flow.dst[1] /\ r.port = flow.dport}

\* HandleRead of a relay: record, and queue the forwarding.
HandleRead(p) ==
  /\ Due(p.at)
  /\ air' = air \ {p}
  /\ \E r \in Listener(p.flow), d \in RelayDelays :
       /\ logRx' = logRx \cup {<<p.job, p.n, p.flow>>}
       /\ forwards' = forwards \cup
            {[job |-> p.job, n |-> p.n, passed |-> Append(p.passed, r.node),
              by |-> [job |-> r.job, hop |-> r.hop], due |-> now + d]}
  /\ UNCHANGED <<now, ephemeral, active, relays, sends, logTx, wire, deaf>>

ToSink(flow) == flow.dport \in SinkPorts(flow.dst[1])

\* HandleRead of a terminal application, which runs until StopTime.
SinkRead(p) ==
  /\ Due(p.at)
  /\ ToSink(p.flow)
  /\ air' = air \ {p}
  /\ logRx' = logRx \cup {<<p.job, p.n, p.flow>>}
  /\ UNCHANGED <<now, ephemeral, active, relays, sends, forwards, logTx, wire, deaf>>

\* No application reads from that port (any more).
Undeliverable(p) ==
  /\ Due(p.at)
  /\ Listener(p.flow) = {}
  /\ ~ToSink(p.flow)
  /\ air' = air \ {p}
  /\ UNCHANGED <<now, ephemeral, active, relays, sends, forwards, logTx, logRx, wire, deaf>>

\* The event queued by DoForward; nothing is left of it if the application
\* has stopped meanwhile.
Forward(f) ==
  /\ Due(f.due)
  /\ forwards' = forwards \ {f}
  /\ \/ \E r \in relays, d \in LinkDelays :
          /\ r.job = f.by.job /\ r.hop = f.by.hop
          /\ LET flow == SentAs(r.node, r.sendPort, r.next)
             IN  /\ logTx' = logTx \cup {<<f.job, f.n, flow>>}
                 /\ wire' = wire \cup {<<f.job, f.n, OnWire(flow)>>}
                 /\ air' = air \cup {Packet(f.job, f.n, f.passed, flow, d)}
     \/ /\ \A r \in relays : ~(r.job = f.by.job /\ r.hop = f.by.hop)
        /\ UNCHANGED <<logTx, wire, air>>
  /\ UNCHANGED <<now, ephemeral, active, relays, sends, logRx, deaf>>

NetNext ==
  \/ \E s \in active : CloseSocket(s)
  \/ \E s \in sends : SendPacket(s)
  \/ \E r \in relays : StartApplication(r) \/ StopApplication(r)
  \/ \E p \in air : HandleRead(p) \/ SinkRead(p) \/ Undeliverable(p)
  \/ \E f \in forwards : Forward(f)

\* Nothing of all this is left to run at this instant.
NetQuiet ==
  /\ \A s \in sends : s.due # now
  /\ \A p \in air : p.at # now
  /\ \A f \in forwards : f.due # now
  /\ \A r \in relays : r.started /\ r.stop # now
  /\ \A s \in active : s.close # now
=============================================================================
