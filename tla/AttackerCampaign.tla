-------------------------- MODULE AttackerCampaign --------------------------
(***************************************************************************)
(* The attackers (contrib/livetrace/model/attacker-campaign.cc): each      *)
(* fires a burst every period through a fresh chain of relay applications  *)
(* to the victim's sink.  The port cursor and the burst counter are shared *)
(* by all of them.                                                         *)
(***************************************************************************)
EXTENDS StepstoneRelayApp

CONSTANTS
  Actors,           \* the campaigns
  PoolPercent,      \* m_cfg.relayPoolFraction, in percent
  RelayPool,        \* m_relayPool of each actor
  Phase,            \* m_cfg.phaseOffsetS of each actor
  PeriodS,          \* m_cfg.periodS
  BurstS,           \* m_cfg.burstS
  StopSlack,        \* stopSlack
  ChainLenMin,      \* m_cfg.chainLenMin
  ChainLenCap,      \* m_cfg.chainLenAbsoluteCap
  ScaledDiameter,   \* lround(chainLengthFactor * diameter)
  PacketsPerBurst,  \* m_cfg.packetsPerBurst
  SubBurstPicks,    \* 5..8: subBurstCountPick
  MinPerSub,        \* 3: least number of packets in a sub-burst
  IdleGaps,         \* idleGapPick, in packet intervals
  FirstRelayPort,   \* 20000: where the port cursor starts
  LastRelayPort     \* 65000: where it wraps

\* The constructor takes a share of the nodes but the victim, at least one; a
\* share that is not positive means all of them.
PoolSize ==
  LET candidates == Cardinality(Nodes \ {Victim})
      percent    == IF PoolPercent > 0 THEN PoolPercent ELSE 100
  IN  Min({candidates, Max({1, (candidates * percent) \div 100})})

ASSUME CampaignAssumption ==
  /\ RelayPool \in [Actors -> SUBSET (Nodes \ {Victim})]
  /\ \A a \in Actors : Cardinality(RelayPool[a]) = PoolSize
  /\ Phase \in [Actors -> Nat]
  /\ {PeriodS, BurstS, StopSlack} \subseteq Nat \ {0}
  /\ {ChainLenMin, ChainLenCap, ScaledDiameter} \subseteq Nat
  /\ PacketsPerBurst \in Nat /\ MinPerSub \in Nat \ {0}
  /\ SubBurstPicks \subseteq Nat \ {0} /\ IdleGaps \subseteq Nat
  /\ {FirstRelayPort, LastRelayPort} \subseteq Nat
  /\ FirstRelayPort <= LastRelayPort

\* The services of every node and of the victim are below the relays' ports.
ASSUME PortAssumption ==
  \A p \in FirstRelayPort..LastRelayPort : p # VictimPort /\ p # BackgroundPort

\* std::clamp has a defined result only for ordered bounds.
ASSUME ClampAssumption == ChainLenMin <= ChainLenCap

VARIABLES
  nextBurst,      \* when each actor's queued FireBurst is due, or Idle
  nextRelayPort,  \* g_nextRelayPort
  oracle          \* the oracle log, one record per burst (with its send
                  \* schedule, which is not logged); g_nextBurstId

campaignVars == <<nextBurst, nextRelayPort, oracle>>

Idle == -1

\* Mutant: the socket is closed when the burst is due to end.
CloseAt_NoSlack(t) == t + BurstS
\* When the origin's socket is closed and its relays stop.
CloseAt(t) == t + BurstS + StopSlack

CampaignInit ==
  /\ nextBurst = Phase
  /\ nextRelayPort = FirstRelayPort
  /\ oracle = <<>>

-----------------------------------------------------------------------------
(***************************************************************************)
(* When the packets of a burst are sent, counted from its start.           *)
(***************************************************************************)
SubBurstCounts == {Min({pick, Max({1, PacketsPerBurst})}) : pick \in SubBurstPicks}

\* Sub-bursts are of equal size, the first one taking the remainder.  Packets
\* follow one another at once, except that after each sub-burst but the last
\* there is a gap.
SendSchedule(count, gaps) ==
  LET per       == Max({MinPerSub, PacketsPerBurst \div count})
      remainder == Max({0, PacketsPerBurst - per * count})
      GapAfter(n) ==
        IF \E s \in DOMAIN gaps : n = remainder + s * per
        THEN gaps[(n - remainder) \div per] ELSE 0
      at[n \in 1..(remainder + count * per)] ==
        IF n = 1 THEN 0 ELSE at[n - 1] + 1 + GapAfter(n - 1)
  IN  at

SendSchedules ==
  UNION {{SendSchedule(count, gaps) : gaps \in [1..(count - 1) -> IdleGaps]} :
           count \in SubBurstCounts}

\* A send schedule that leaves the burst time to drain: its last packet can
\* pass the longest chain before the relays and the origin's socket close.
\* The default configuration's schedules do; nothing in the code ensures it.
Ample(schedule) ==
  Last(schedule) + ChainLenCap * Max(RelayDelays) + (ChainLenCap + 1) * Max(LinkDelays)
    < BurstS + StopSlack

-----------------------------------------------------------------------------
(***************************************************************************)
(* FireBurst.                                                              *)
(***************************************************************************)
ComputeChainLengthTarget ==
  Min({Max({ChainLenMin, ScaledDiameter}), ChainLenCap})

\* The lengths the jitter can yield, for a pool of the given size.
RelayCounts(size) ==
  {Min({size, Max({ChainLenMin, Min({ComputeChainLengthTarget + j, ChainLenCap})})}) :
     j \in -1..1}

\* Mutant: the origin may be drawn as one of its own relays.
RelayChoices_WithOrigin(actor, origin) ==
  UNION {{s \in [1..k -> RelayPool[actor]] : IsInjective(s)} :
           k \in RelayCounts(Cardinality(RelayPool[actor]))}

\* The relays drawn: distinct members of the pool other than the origin.  The
\* draw is cut short when no such member is left.
RelayChoices(actor, origin) ==
  LET pool == RelayPool[actor]
      free == pool \ {origin}
  IN  UNION {{s \in [1..Min({k, Cardinality(free)}) -> free] : IsInjective(s)} :
               k \in RelayCounts(Cardinality(pool))}

\* Mutant: the cursor does not wrap.
PortAfter_NoWrap(port, i) == port + i

\* The cursor i allocations after it stood at port.
PortAfter(port, i) ==
  FirstRelayPort + ((port - FirstRelayPort + i) % (LastRelayPort - FirstRelayPort + 1))

\* Mutant: every burst takes its ports from the start of the range.
HopPort_Restarted(i) == PortAfter(FirstRelayPort, i - 1)

\* The port allocated to the i-th relay of the burst fired now.
HopPort(i) == PortAfter(nextRelayPort, i - 1)

\* Where the node at position i of the chain sends to; the first relay is at
\* position 2.
NextHop(chain, i) ==
  IF i + 1 = Len(chain) THEN <<Victim, VictimPort>> ELSE <<chain[i + 1], HopPort(i)>>

\* Mutant: the applications stop without waiting for the burst to drain.
StopAt_NoSlack(t) == t + BurstS
StopAt(t) == CloseAt(t)

\* Mutant: a burst due exactly at the end is not scheduled.
NextBurst_Strict(t) == IF t + PeriodS < StopTime THEN t + PeriodS ELSE Idle
NextBurst(t) == IF t + PeriodS <= StopTime THEN t + PeriodS ELSE Idle

StartBurst(actor, origin, chain, schedule) ==
  LET id   == Len(oracle) + 1
      port == EphemeralPort(origin, PortsInUse(origin))
      flow == SentAs(origin, port, NextHop(chain, 1))
  IN  /\ nextRelayPort' = PortAfter(nextRelayPort, Len(chain) - 2)
      /\ relays' = relays \cup
           {[job |-> id, hop |-> i, node |-> chain[i], port |-> HopPort(i - 1),
             next |-> NextHop(chain, i), stop |-> StopAt(now), started |-> FALSE,
             bound |-> FALSE, sendPort |-> 0] : i \in 2..(Len(chain) - 1)}
      /\ ephemeral' = [ephemeral EXCEPT ![origin] = port + 1]
      /\ active' = active \cup
           {[job |-> id, node |-> origin, port |-> port, close |-> CloseAt(now)]}
      /\ sends' = sends \cup
           {[job |-> id, n |-> n, due |-> now + schedule[n], flow |-> flow] :
              n \in DOMAIN schedule}
      /\ oracle' = Append(oracle, [actor |-> actor, start |-> now, chain |-> chain,
                                     schedule |-> schedule])
      /\ nextBurst' = [nextBurst EXCEPT ![actor] = NextBurst(now)]

FireBurst(actor) ==
  /\ Due(nextBurst[actor])
  /\ now <= StopTime
  /\ \E origin \in Nodes \ {Victim}, schedule \in SendSchedules :
       \E drawn \in RelayChoices(actor, origin) :
         StartBurst(actor, origin, <<origin>> \o drawn \o <<Victim>>, schedule)
  /\ UNCHANGED <<now, air, forwards, logTx, logRx, wire, deaf>>

\* The first FireBurst is queued whatever its phase; past the end it returns.
FireTooLate(actor) ==
  /\ Due(nextBurst[actor])
  /\ now > StopTime
  /\ nextBurst' = [nextBurst EXCEPT ![actor] = Idle]
  /\ UNCHANGED <<netVars, nextRelayPort, oracle>>
=============================================================================
