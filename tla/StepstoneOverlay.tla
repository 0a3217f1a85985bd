-------------------------- MODULE StepstoneOverlay --------------------------
(***************************************************************************)
(* The traffic the traceback engine observes: attackers' bursts through    *)
(* chains of relay applications and the background's sessions, on the same *)
(* nodes, the same ports and one event queue.  A start, stop or close can  *)
(* fall before or after the traffic it matters to, and bursts of several   *)
(* actors overlap on the same nodes.                                       *)
(***************************************************************************)
EXTENDS AttackerCampaign, BackgroundTraffic

vars == <<netVars, campaignVars, backgroundVars>>

Init == NetInit /\ CampaignInit /\ BackgroundInit

\* Virtual time moves on once nothing is left to run at this instant.
Tick ==
  /\ now < EndTime
  /\ NetQuiet
  /\ \A a \in Actors : nextBurst[a] # now
  /\ nextSession # now
  /\ now' = now + 1
  /\ UNCHANGED <<ephemeral, active, relays, sends, air, forwards, logTx, logRx, wire, deaf>>
  /\ UNCHANGED <<campaignVars, backgroundVars>>

CampaignNext == \E a \in Actors : FireBurst(a) \/ FireTooLate(a)

BackgroundNext == FireSession \/ SessionTooLate

Next ==
  \/ CampaignNext /\ UNCHANGED backgroundVars
  \/ BackgroundNext /\ UNCHANGED campaignVars
  \/ NetNext /\ UNCHANGED <<campaignVars, backgroundVars>>
  \/ Tick

Spec == Init /\ [][Next]_vars

-----------------------------------------------------------------------------
(***************************************************************************)
(* Properties.                                                             *)
(***************************************************************************)
\* Of a burst, not of a session.
IsBurst(job) == job > 0

\* The nodes a packet has passed are a prefix of its own burst's chain as
\* the oracle logged it: overlapping bursts never take each other's packets,
\* although they share nodes and draw their ports from one cursor; and
\* a relay never takes background traffic.
PacketsFollowOracle ==
  \A p \in air \cup forwards :
    IF IsBurst(p.job) THEN IsPrefix(p.passed, oracle[p.job].chain)
    ELSE p \in air /\ Len(p.passed) = 1

Simple(s) == \A i, j \in DOMAIN s : i # j => s[i] # s[j]

\* The ground truth is a path the traceback can in principle recover: it
\* visits no node twice, ends at the victim, and its relays come from the
\* actor's own pool, as many as the configured length and the pool allow.
OracleChainsAreTraceable ==
  \A i \in DOMAIN oracle :
    LET burst == oracle[i]
        k     == Len(burst.chain) - 2
    IN  /\ Simple(burst.chain)
        /\ Last(burst.chain) = Victim
        /\ \A h \in 2..(k + 1) : burst.chain[h] \in RelayPool[burst.actor]
        /\ k <= ChainLenCap
        /\ k >= Min({ChainLenMin, Cardinality(RelayPool[burst.actor] \ {burst.chain[1]})})

\* What a node logs as sent and what it hands to the network agree up to the
\* interface the packet leaves by, although the result of Send is not looked
\* at: they part only in bursts whose schedule outlasts their sockets.
SendsLoggedAreSent ==
  LET LoggedAs(x) == <<x[1], x[2], [x[3] EXCEPT !.src = NodeAddress(x[3].src[1])]>>
      accounted   == {LoggedAs(x) : x \in wire}
  IN  /\ accounted \subseteq logTx
      /\ \A x \in logTx \ accounted : IsBurst(x[1]) /\ ~Ample(oracle[x[1]].schedule)

\* A burst with an ample schedule that was over before the victim's sink
\* stopped and had no deaf relay arrived whole: however its packets were
\* delayed and reordered, none met a relay not yet started or already stopped.
\* And a relay is left without its port only where the cursor has run into
\* the range other sockets draw their ports from: below it, no two overlapping
\* bursts are given the same port of a node.
BurstsArriveWhole ==
  /\ \A d \in deaf : d[3] >= FirstEphemeral
  /\ \A i \in DOMAIN oracle :
       LET burst   == oracle[i]
           arrived == {x \in logRx : x[1] = i /\ x[3].dst[1] = Victim /\ x[3].dport = VictimPort}
       IN  /\ Ample(burst.schedule)
           /\ CloseAt(burst.start) <= StopTime
           /\ CloseAt(burst.start) < now
           /\ \A d \in deaf : d[1] # i
           => {x[2] : x \in arrived} = DOMAIN burst.schedule

\* Distinct bursts reach the victim's service in distinct flows, and one burst
\* in one flow, so that the flows the observer starts traces for are the
\* bursts, and none is a session.
OneVictimFlowPerBurst ==
  LET atVictim == {x \in logRx : x[3].dst[1] = Victim /\ x[3].dport = VictimPort}
  IN  \A x, y \in atVictim : IsBurst(x[1]) /\ (x[1] = y[1] <=> x[3] = y[3])

\* Whatever interface a packet comes by, the source address its receiver logs
\* is known to the address index, as the previous node of the burst's chain:
\* the lookup on which the traceback steps upstream.
ReceptionsNameTheirSender ==
  \A x \in logRx :
    IsBurst(x[1]) =>
      LET chain == oracle[x[1]].chain
      IN  \E h \in 2..Len(chain) :
            chain[h] = x[3].dst[1] /\ chain[h - 1] = Lookup(x[3].src)

\* Each actor's bursts are one period apart from its phase on, and once the
\* run has passed its stop time none that was due by then is missing.
CadenceKept ==
  \A a \in Actors :
    LET starts == {oracle[i].start : i \in {j \in DOMAIN oracle : oracle[j].actor = a}}
        due    == {t \in Phase[a]..StopTime : (t - Phase[a]) % PeriodS = 0}
    IN  /\ starts \subseteq due
        /\ now > StopTime => starts = due
=============================================================================
