------------------------- MODULE BackgroundTraffic -------------------------
(***************************************************************************)
(* Ordinary traffic (contrib/livetrace/model/background-traffic.cc): a     *)
(* terminal application on every node and sessions of a few packets        *)
(* between random nodes, one queueing the next, each from a socket of its  *)
(* own.  Its ephemeral ports are those the bursts draw from as well.       *)
(***************************************************************************)
EXTENDS StepstoneRelayApp

CONSTANTS
  SessionEnds,    \* <<source, destination>> a session may have
  SessionCounts,  \* the number of packets it may have
  SessionGaps,    \* the times between arrivals
  SessionSlack    \* 0.5: how long after its last packet a socket is closed

ASSUME SessionAssumption ==
  /\ \A e \in SessionEnds : e[1] \in Nodes /\ e[2] \in Nodes /\ e[1] # e[2]
  /\ SessionCounts \subseteq Nat \ {0}
  /\ SessionGaps \subseteq Nat \ {0}
  /\ SessionSlack \in Nat

VARIABLES
  nextSession,   \* when the queued FireSession is due, or Never
  sessions       \* number of sessions so far

backgroundVars == <<nextSession, sessions>>

Never == -1

BackgroundInit == nextSession \in SessionGaps \cup {Never} /\ sessions = 0

ScheduleNextArrival == \E gap \in SessionGaps : nextSession' = now + gap

\* One packet per unit of time, the socket open for SessionSlack more.
StartSession(src, dst, count) ==
  LET id   == -(sessions + 1)
      port == EphemeralPort(src, PortsInUse(src))
      flow == SentAs(src, port, <<dst, BackgroundPort>>)
  IN  /\ sessions' = sessions + 1
      /\ ephemeral' = [ephemeral EXCEPT ![src] = port + 1]
      /\ active' = active \cup
           {[job |-> id, node |-> src, port |-> port, close |-> now + count + SessionSlack]}
      /\ sends' = sends \cup
           {[job |-> id, n |-> n, due |-> now + n - 1, flow |-> flow] : n \in 1..count}

FireSession ==
  /\ Due(nextSession)
  /\ now <= StopTime
  /\ \E ends \in SessionEnds, count \in SessionCounts : StartSession(ends[1], ends[2], count)
  /\ ScheduleNextArrival
  /\ UNCHANGED <<now, relays, air, forwards, logTx, logRx, wire, deaf>>

SessionTooLate ==
  /\ Due(nextSession)
  /\ now > StopTime
  /\ nextSession' = Never
  /\ UNCHANGED <<netVars, sessions>>
=============================================================================
