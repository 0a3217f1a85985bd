---------------------- MODULE StepstoneOverlay_proofs ----------------------
(***************************************************************************)
(* Proofs about the attackers' bursts and the traffic they make, for every *)
(* network, set of actors, relay pool, period and chain length: the chains *)
(* the oracle logs and the times at which bursts are fired; what senders   *)
(* log; and, until the port cursor has gone through its range, the way of  *)
(* every packet along its chain, what its receivers see and its arrival.   *)
(*                                                                         *)
(* The invariants build on each other: IInv (the bursts and their cadence) *)
(* and NetTypes hold of every run, and so does SendsInv (sockets and       *)
(* sends); Placed (packets on their chains), Wired (what was on the wire), *)
(* SpeakersApart (senders and their ports) and NothingLost (where every    *)
(* packet is) hold as long as FreshPorts does.                             *)
(***************************************************************************)
EXTENDS StepstoneOverlay, NaturalNumbers

-----------------------------------------------------------------------------
(***************************************************************************)
(* Arithmetic.                                                             *)
(***************************************************************************)
LEMMA MinOfTwo ==
  ASSUME NEW x \in Int, NEW y \in Int
  PROVE  /\ Min({x, y}) \in {x, y}
         /\ Min({x, y}) <= x /\ Min({x, y}) <= y
<1>1. \E m \in {x, y} : \A k \in {x, y} : m <= k
  OBVIOUS
<1> QED BY <1>1 DEF Min

LEMMA MaxOfTwo ==
  ASSUME NEW x \in Int, NEW y \in Int
  PROVE  /\ Max({x, y}) \in {x, y}
         /\ Max({x, y}) >= x /\ Max({x, y}) >= y
<1>1. \E m \in {x, y} : \A k \in {x, y} : m >= k
  OBVIOUS
<1> QED BY <1>1 DEF Max

\* Two multiples of a period are a period apart.
LEMMA PeriodApart ==
  ASSUME NEW p \in Nat \ {0}, NEW x \in Nat, NEW y \in Nat,
         x % p = 0, y % p = 0, x < y
  PROVE  x + p <= y
<1>1. x = p * (x \div p) /\ y = p * (y \div p)
  OBVIOUS
<1>2. x \div p \in Int /\ y \div p \in Int
  OBVIOUS
<1> DEFINE i == x \div p
           j == y \div p
<1>3. x = p * i /\ y = p * j /\ i \in Int /\ j \in Int
  BY <1>1, <1>2
<1> HIDE DEF i, j
<1>4. i < j
  BY <1>3
<1>5. p * (i + 1) <= p * j
  BY <1>3, <1>4
<1>6. p * (i + 1) = p * i + p
  BY <1>3
<1> QED BY <1>3, <1>5, <1>6

LEMMA NextMultiple ==
  ASSUME NEW p \in Nat \ {0}, NEW x \in Nat, x % p = 0
  PROVE  (x + p) % p = 0
<1> DEFINE i == x \div p
           q == (x + p) \div p
           r == (x + p) % p
<1>1. x = p * i /\ x + p = p * q + r
  OBVIOUS
<1>2. i \in Int /\ q \in Int /\ r \in 0..(p - 1)
  OBVIOUS
<1> HIDE DEF i, q, r
<1>3. p * (i + 1) = p * i + p
  BY <1>2
<1>4. p * (i + 1) = p * q + r
  BY <1>1, <1>3
<1>5. CASE q >= i + 2
  <2>1. p * q >= p * (i + 2)
    BY <1>2, <1>5
  <2>2. p * (i + 2) = p * (i + 1) + p
    BY <1>2
  <2> QED BY <1>2, <1>4, <2>1, <2>2
<1>6. CASE q = i + 1
  BY <1>2, <1>4, <1>6 DEF r
<1>7. CASE q <= i
  <2>1. p * q <= p * i
    BY <1>2, <1>7
  <2> QED BY <1>2, <1>3, <1>4, <2>1
<1>8. CASE q > i + 1 /\ ~(q >= i + 2)
  BY <1>2, <1>8
<1> QED BY <1>2, <1>5, <1>6, <1>7, <1>8

-----------------------------------------------------------------------------
(***************************************************************************)
(* Send schedules.                                                         *)
(***************************************************************************)
LEMMA DivideMultiple ==
  ASSUME NEW s \in Nat, NEW p \in Nat \ {0}
  PROVE  (s * p) \div p = s
<1> DEFINE q == (s * p) \div p
           r == (s * p) % p
<1>1. s * p \in Nat
  OBVIOUS
<1>2. q \in Nat /\ r \in 0..(p - 1) /\ s * p = p * q + r
  <2> DEFINE m == s * p
  <2>1. m \in Nat /\ q = m \div p /\ r = m % p
    BY <1>1
  <2> HIDE DEF m, q, r
  <2>2. m = p * (m \div p) + (m % p) /\ m \div p \in Nat /\ m % p \in 0..(p - 1)
    BY <2>1
  <2> QED BY <2>1, <2>2 DEF m
<1> HIDE DEF q, r
<1>3. s * p = p * s
  OBVIOUS
<1>4. CASE q >= s + 1
  <2>1. p * q >= p * (s + 1)
    BY <1>2, <1>4
  <2>2. p * (s + 1) = p * s + p
    OBVIOUS
  <2> QED BY <1>2, <1>3, <2>1, <2>2
<1>5. CASE q <= s - 1
  <2>1. p * q <= p * (s - 1)
    BY <1>2, <1>5
  <2>2. p * (s - 1) = p * s - p
    OBVIOUS
  <2> QED BY <1>2, <1>3, <2>1, <2>2
<1> QED BY <1>2, <1>4, <1>5 DEF q

\* Every burst has a packet to send, and sends its last one last.
LEMMA ScheduleShape ==
  ASSUME NEW schedule \in SendSchedules
  PROVE  /\ schedule \in Seq(Nat) /\ Len(schedule) >= 1
         /\ \A n \in DOMAIN schedule : schedule[n] <= Last(schedule)
<1>1. PICK count \in SubBurstCounts : \E gaps \in [1..(count - 1) -> IdleGaps] :
        schedule = SendSchedule(count, gaps)
  BY DEF SendSchedules
<1>2. PICK gaps \in [1..(count - 1) -> IdleGaps] : schedule = SendSchedule(count, gaps)
  BY <1>1
<1>3. PacketsPerBurst \in Nat /\ MinPerSub \in Nat \ {0}
      /\ SubBurstPicks \subseteq Nat \ {0} /\ IdleGaps \subseteq Nat
  BY CampaignAssumption
<1>4. count \in Nat \ {0}
  <2>1. PICK pick \in SubBurstPicks : count = Min({pick, Max({1, PacketsPerBurst})})
    BY <1>1 DEF SubBurstCounts
  <2> DEFINE m == Max({1, PacketsPerBurst})
  <2>2. 1 \in Int /\ PacketsPerBurst \in Int
    BY <1>3
  <2>3. m \in {1, PacketsPerBurst} /\ m >= 1
    BY <2>2, MaxOfTwo
  <2>4. count = Min({pick, m})
    BY <2>1 DEF m
  <2> HIDE DEF m
  <2>5. m \in Nat \ {0} /\ pick \in Nat \ {0} /\ m \in Int /\ pick \in Int
    BY <1>3, <2>2, <2>3
  <2>6. count \in {pick, m}
    BY <2>4, <2>5, MinOfTwo
  <2> QED BY <2>5, <2>6
<1> DEFINE per == Max({MinPerSub, PacketsPerBurst \div count})
           remainder == Max({0, PacketsPerBurst - per * count})
           total == remainder + count * per
           GapAfter(n) == IF \E s \in DOMAIN gaps : n = remainder + s * per
                          THEN gaps[(n - remainder) \div per] ELSE 0
           Body(g) == [n \in 1..total |->
                         IF n = 1 THEN 0 ELSE g[n - 1] + 1 + GapAfter(n - 1)]
<1>5. per \in Nat \ {0}
  <2>1. PacketsPerBurst \div count \in Int /\ MinPerSub \in Int
    BY <1>3, <1>4
  <2>2. per \in {MinPerSub, PacketsPerBurst \div count} /\ per >= MinPerSub
    BY <2>1, MaxOfTwo
  <2> HIDE DEF per
  <2> QED BY <1>3, <2>1, <2>2
<1>6. remainder \in Nat
  <2> HIDE DEF per
  <2>1. PacketsPerBurst - per * count \in Int /\ 0 \in Int
    BY <1>3, <1>4, <1>5
  <2>2. remainder \in {0, PacketsPerBurst - per * count} /\ remainder >= 0
    BY <2>1, MaxOfTwo
  <2> HIDE DEF remainder
  <2> QED BY <2>1, <2>2
<1>7. schedule = CHOOSE g : g = Body(g)
  BY <1>2 DEF SendSchedule
<1> HIDE DEF per, remainder
<1>8. total \in Nat \ {0}
  <2>1. count * per >= 1
    BY <1>4, <1>5
  <2>2. count * per \in Int
    BY <1>4, <1>5
  <2> QED BY <1>6, <2>1, <2>2
<1> HIDE DEF total
<1>9. ASSUME NEW n \in Int PROVE GapAfter(n) \in Nat
  <2>1. CASE \E s \in DOMAIN gaps : n = remainder + s * per
    <3>1. PICK s \in DOMAIN gaps : n = remainder + s * per
      BY <2>1
    <3>2. s \in 1..(count - 1) /\ s \in Nat
      BY <1>4, <3>1
    <3>3. s * per \in Nat
      BY <1>5, <3>2
    <3>4. n - remainder = s * per
      BY <1>6, <3>1, <3>3
    <3>5. (n - remainder) \div per = s
      BY <1>5, <3>2, <3>4, DivideMultiple
    <3>6. GapAfter(n) = gaps[s]
      BY <2>1, <3>5
    <3> QED BY <1>3, <3>2, <3>6
  <2>2. CASE ~ \E s \in DOMAIN gaps : n = remainder + s * per
    BY <2>2
  <2> QED BY <2>1, <2>2
<1> HIDE DEF GapAfter
<1> DEFINE step == [i \in Nat |-> [v \in Nat |-> v + 1 + GapAfter(i - 1)]]
<1>10. step \in [Nat -> [Nat -> Nat]]
  <2>1. ASSUME NEW i \in Nat PROVE GapAfter(i - 1) \in Nat
    <3>1. i - 1 \in Int
      OBVIOUS
    <3> QED BY <1>9, <3>1
  <2> QED BY <2>1
<1>11. PICK f \in [1..total -> Nat] : Iterated(f, total, 0, step)
  <2> HIDE DEF step
  <2>1. total \in Nat /\ 0 \in Nat
    BY <1>8
  <2> QED BY <1>10, <2>1, Iteration
<1>12. f = Body(f)
  <2>1. ASSUME NEW i \in 1..total
        PROVE  f[i] = IF i = 1 THEN 0 ELSE f[i - 1] + 1 + GapAfter(i - 1)
    <3>1. CASE i = 1
      BY <1>11, <3>1 DEF Iterated
    <3>2. CASE i # 1
      <4>1. i - 1 \in 1..total /\ i \in Nat
        BY <1>8, <3>2
      <4>2. f[i - 1] \in Nat
        BY <4>1
      <4>3. step[i][f[i - 1]] = f[i - 1] + 1 + GapAfter(i - 1)
        BY <4>1, <4>2
      <4> HIDE DEF step
      <4> QED BY <1>11, <3>2, <4>3 DEF Iterated
    <3> QED BY <3>1, <3>2
  <2> QED BY <2>1
<1> HIDE DEF step
<1>13. schedule = Body(schedule)
  <2> HIDE DEF Body
  <2> QED BY <1>7, <1>12
<1>14. /\ DOMAIN schedule = 1..total
       /\ schedule[1] = 0
       /\ \A i \in 2..total : schedule[i] = schedule[i - 1] + 1 + GapAfter(i - 1)
  <2>1. \A i \in 1..total :
          schedule[i] = IF i = 1 THEN 0 ELSE schedule[i - 1] + 1 + GapAfter(i - 1)
    BY <1>13
  <2>2. DOMAIN schedule = 1..total
    BY <1>13
  <2> QED BY <1>8, <2>1, <2>2
<1> HIDE DEF Body
<1> DEFINE P == {m \in Nat : m + 1 <= total => schedule[m + 1] \in Nat}
<1>15. P = Nat
  <2>1. 0 \in P
    BY <1>14
  <2>2. ASSUME NEW m \in P PROVE m + 1 \in P
    <3> SUFFICES ASSUME m + 2 <= total PROVE schedule[m + 2] \in Nat
      BY <1>8
    <3>1. schedule[m + 1] \in Nat /\ m + 2 \in 2..total /\ GapAfter(m + 1) \in Nat
      BY <1>8, <1>9
    <3>2. schedule[m + 2] = schedule[m + 1] + 1 + GapAfter(m + 1)
      BY <1>14, <3>1
    <3> QED BY <3>1, <3>2
  <2> HIDE DEF P
  <2>3. P \in SUBSET Nat
    BY DEF P
  <2> QED BY <2>1, <2>2, <2>3, Induction
<1>16. \A n \in 1..total : schedule[n] \in Nat
  <2> SUFFICES ASSUME NEW n \in 1..total PROVE schedule[n] \in Nat
    OBVIOUS
  <2>1. n - 1 \in Nat /\ (n - 1) + 1 = n /\ n <= total
    BY <1>8
  <2>2. n - 1 \in P
    BY <1>15, <2>1
  <2> QED BY <2>1, <2>2
<1>17. schedule \in [1..total -> Nat]
  <2>1. schedule = [n \in 1..total |-> schedule[n]]
    BY <1>13 DEF Body
  <2> QED BY <1>16, <2>1
<1>18. schedule \in Seq(Nat) /\ Len(schedule) = total
  BY <1>8, <1>17
<1> DEFINE Q == {k \in Nat : \A n \in 1..total : n + k <= total => schedule[n] <= schedule[n + k]}
<1>19. Q = Nat
  <2>1. 0 \in Q
    BY <1>8, <1>16
  <2>2. ASSUME NEW k \in Q PROVE k + 1 \in Q
    <3> SUFFICES ASSUME NEW n \in 1..total, n + (k + 1) <= total
                 PROVE  schedule[n] <= schedule[n + (k + 1)]
      BY <1>8
    <3>1. n + k \in 1..total /\ n + (k + 1) \in 2..total /\ (n + (k + 1)) - 1 = n + k
          /\ n + k \in Int
      BY <1>8
    <3>2. schedule[n] <= schedule[n + k]
      BY <1>8, <3>1
    <3>3. schedule[n + (k + 1)] = schedule[n + k] + 1 + GapAfter(n + k)
      BY <1>14, <3>1
    <3>4. schedule[n] \in Nat /\ schedule[n + k] \in Nat /\ GapAfter(n + k) \in Nat
      BY <1>9, <1>16, <3>1
    <3> QED BY <3>2, <3>3, <3>4
  <2> HIDE DEF Q
  <2>3. Q \in SUBSET Nat
    BY DEF Q
  <2> QED BY <2>1, <2>2, <2>3, Induction
<1>20. ASSUME NEW n \in 1..total PROVE schedule[n] <= schedule[total]
  <2>1. total - n \in Nat /\ n + (total - n) = total
    BY <1>8
  <2>2. total - n \in Q
    BY <1>19, <2>1
  <2> QED BY <1>8, <2>1, <2>2
<1>21. Last(schedule) = schedule[total]
  BY <1>18 DEF Last
<1> QED BY <1>8, <1>14, <1>18, <1>20, <1>21

-----------------------------------------------------------------------------
(***************************************************************************)
(* The chains.                                                             *)
(***************************************************************************)
\* The number of relays drawn for a chain is bounded by the configured
\* lengths, and falls short of the least only where the pool does.
LEMMA RelayCountBounds ==
  ASSUME NEW size \in Nat, NEW k \in RelayCounts(size)
  PROVE  /\ k \in Nat
         /\ k <= ChainLenCap /\ k <= size
         /\ k >= Min({ChainLenMin, size})
<1>1. ChainLenMin \in Nat /\ ChainLenCap \in Nat /\ ScaledDiameter \in Nat
  BY CampaignAssumption
<1> DEFINE wanted == Max({ChainLenMin, ScaledDiameter})
           target == Min({wanted, ChainLenCap})
<1>2. wanted \in Nat
  <2>1. ChainLenMin \in Int /\ ScaledDiameter \in Int
    BY <1>1
  <2>2. wanted \in {ChainLenMin, ScaledDiameter}
    BY <2>1, MaxOfTwo
  <2> QED BY <1>1, <2>2
<1> HIDE DEF wanted
<1>3. target \in Nat
  <2>1. wanted \in Int /\ ChainLenCap \in Int
    BY <1>1, <1>2
  <2>2. target \in {wanted, ChainLenCap}
    BY <2>1, MinOfTwo
  <2> QED BY <1>1, <1>2, <2>2
<1>4. target = ComputeChainLengthTarget
  BY DEF target, wanted, ComputeChainLengthTarget
<1> HIDE DEF target
<1>5. PICK j \in -1..1 : k = Min({size, Max({ChainLenMin, Min({target + j, ChainLenCap})})})
  BY <1>4 DEF RelayCounts
<1> DEFINE low  == Min({target + j, ChainLenCap})
           high == Max({ChainLenMin, low})
<1>6. low \in Int /\ low <= ChainLenCap
  <2>1. target + j \in Int /\ ChainLenCap \in Int
    BY <1>1, <1>3, <1>5
  <2>2. low \in {target + j, ChainLenCap} /\ low <= ChainLenCap
    BY <2>1, MinOfTwo
  <2> QED BY <2>1, <2>2
<1> HIDE DEF low
<1>7. high \in Nat /\ high <= ChainLenCap /\ high >= ChainLenMin
  <2>1. ChainLenMin \in Int
    BY <1>1
  <2>2. high \in {ChainLenMin, low} /\ high >= ChainLenMin /\ high >= low
    BY <1>6, <2>1, MaxOfTwo
  <2> QED BY <1>1, <1>6, <2>2, ClampAssumption
<1>8. k = Min({size, high})
  BY <1>5 DEF high, low
<1> HIDE DEF high
<1>9. k \in {size, high} /\ k <= size /\ k <= high
  <2>1. size \in Int /\ high \in Int
    BY <1>7
  <2> QED BY <1>8, <2>1, MinOfTwo
<1>10. Min({ChainLenMin, size}) <= ChainLenMin /\ Min({ChainLenMin, size}) <= size
       /\ Min({ChainLenMin, size}) \in {ChainLenMin, size}
  BY <1>1, MinOfTwo
<1> QED BY <1>1, <1>7, <1>9, <1>10

\* What a chain of the oracle has to be.
Traceable(burst) ==
  LET k == Len(burst.chain) - 2
  IN  /\ Simple(burst.chain)
      /\ Last(burst.chain) = Victim
      /\ \A h \in 2..(k + 1) : burst.chain[h] \in RelayPool[burst.actor]
      /\ k <= ChainLenCap
      /\ k >= Min({ChainLenMin, Cardinality(RelayPool[burst.actor] \ {burst.chain[1]})})

LEMMA DrawIsTraceable ==
  ASSUME NEW actor \in Actors, NEW origin \in Nodes \ {Victim},
         NEW drawn \in RelayChoices(actor, origin), NEW start, NEW schedule
  PROVE  LET chain == <<origin>> \o drawn \o <<Victim>>
         IN  /\ chain \in Seq(Nodes) /\ Len(chain) >= 2 /\ chain[1] = origin
             /\ Traceable([actor |-> actor, start |-> start, chain |-> chain,
                           schedule |-> schedule])
<1> DEFINE pool == RelayPool[actor]
           free == pool \ {origin}
           chain == <<origin>> \o drawn \o <<Victim>>
<1>1. pool \subseteq Nodes \ {Victim} /\ Victim \in Nodes
  BY CampaignAssumption, NetworkAssumption
<1>2. /\ IsFiniteSet(pool) /\ IsFiniteSet(free)
      /\ Cardinality(pool) \in Nat /\ Cardinality(free) \in Nat
      /\ Cardinality(free) <= Cardinality(pool)
  <2>1. IsFiniteSet(pool)
    BY <1>1, NetworkAssumption, FS_Subset
  <2>2. IsFiniteSet(free) /\ Cardinality(free) <= Cardinality(pool)
    BY <2>1, FS_Subset
  <2> QED BY <2>1, <2>2, FS_CardinalityType
<1>3. PICK k \in RelayCounts(Cardinality(pool)) :
        /\ drawn \in [1..Min({k, Cardinality(free)}) -> free]
        /\ IsInjective(drawn)
  BY DEF RelayChoices
<1> DEFINE len == Min({k, Cardinality(free)})
<1>4. k \in Nat /\ k <= ChainLenCap /\ k >= Min({ChainLenMin, Cardinality(pool)})
  BY <1>2, RelayCountBounds
<1>5. len \in {k, Cardinality(free)} /\ len <= k /\ len <= Cardinality(free) /\ len \in Nat
  <2>1. k \in Int /\ Cardinality(free) \in Int
    BY <1>2, <1>4
  <2>2. len \in {k, Cardinality(free)} /\ len <= k /\ len <= Cardinality(free)
    BY <2>1, MinOfTwo
  <2> QED BY <1>2, <1>4, <2>2
<1>6. len >= Min({ChainLenMin, Cardinality(free)})
  <2>1. ChainLenMin \in Nat
    BY CampaignAssumption
  <2>2. /\ Min({ChainLenMin, Cardinality(free)}) <= ChainLenMin
        /\ Min({ChainLenMin, Cardinality(free)}) <= Cardinality(free)
        /\ Min({ChainLenMin, Cardinality(free)}) \in Int
    BY <1>2, <2>1, MinOfTwo
  <2>3. Min({ChainLenMin, Cardinality(pool)}) \in {ChainLenMin, Cardinality(pool)}
    <3>1. ChainLenMin \in Int /\ Cardinality(pool) \in Int
      BY <1>2, <2>1
    <3> QED BY <3>1, MinOfTwo
  <2> HIDE DEF len, free, pool
  <2> QED BY <1>2, <1>4, <1>5, <2>1, <2>2, <2>3
<1>7. drawn \in [1..len -> free]
  BY <1>3
<1> HIDE DEF len
<1>8. drawn \in Seq(Nodes) /\ Len(drawn) = len
  BY <1>1, <1>5, <1>7
<1>9. /\ chain \in Seq(Nodes)
      /\ Len(chain) = len + 2
      /\ chain[1] = origin
      /\ chain[len + 2] = Victim
      /\ \A h \in 2..(len + 1) : chain[h] = drawn[h - 1]
  <2> DEFINE front == <<origin>> \o drawn
  <2>1. front \in Seq(Nodes) /\ Len(front) = len + 1
    BY <1>5, <1>8
  <2>2. front[1] = origin /\ \A h \in 2..(len + 1) : front[h] = drawn[h - 1]
    BY <1>5, <1>8
  <2> HIDE DEF front
  <2>3. chain = front \o <<Victim>>
    BY DEF front
  <2>4. /\ chain \in Seq(Nodes) /\ Len(chain) = len + 2
        /\ chain[len + 2] = Victim
        /\ \A h \in 1..(len + 1) : chain[h] = front[h]
    <3> HIDE DEF chain
    <3> QED BY <1>1, <1>5, <2>1, <2>3
  <2> HIDE DEF chain
  <2> QED BY <1>5, <2>2, <2>4
<1>10. \A h \in 2..(len + 1) : chain[h] \in free
  <2> HIDE DEF chain, free
  <2> QED BY <1>5, <1>7, <1>9
<1>11. Simple(chain)
  <2> SUFFICES ASSUME NEW i \in 1..(len + 2), NEW j \in 1..(len + 2), i < j
               PROVE  chain[i] # chain[j]
    BY <1>5, <1>9 DEF Simple
  <2> HIDE DEF chain
  <2>1. CASE i = 1 /\ j = len + 2
    BY <1>9, <2>1
  <2>2. CASE i = 1 /\ j <= len + 1
    BY <1>5, <1>9, <1>10, <2>2
  <2>3. CASE i > 1 /\ j = len + 2
    BY <1>1, <1>5, <1>9, <1>10, <2>3
  <2>4. CASE i > 1 /\ j <= len + 1
    <3>1. i - 1 \in 1..len /\ j - 1 \in 1..len /\ i - 1 # j - 1
      BY <1>5, <2>4
    <3>2. drawn[i - 1] # drawn[j - 1]
      BY <1>3, <1>7, <3>1 DEF IsInjective
    <3> QED BY <1>5, <1>9, <2>4, <3>2
  <2> QED BY <1>5, <2>1, <2>2, <2>3, <2>4
<1>12. Last(chain) = Victim
  BY <1>9 DEF Last
<1> HIDE DEF chain
<1>13. Len(chain) - 2 = len
  BY <1>5, <1>9
<1>14. Traceable([actor |-> actor, start |-> start, chain |-> chain, schedule |-> schedule])
  <2>1. len <= ChainLenCap
    BY <1>4, <1>5, CampaignAssumption
  <2> HIDE DEF free
  <2>2. free = RelayPool[actor] \ {chain[1]}
    BY <1>9 DEF free
  <2>3. \A h \in 2..(len + 1) : chain[h] \in RelayPool[actor]
    BY <1>10 DEF free
  <2> QED BY <1>6, <1>11, <1>12, <1>13, <2>1, <2>2, <2>3 DEF Traceable
<1> QED BY <1>5, <1>9, <1>14 DEF chain

-----------------------------------------------------------------------------
(***************************************************************************)
(* The inductive invariant.  The bursts an actor has fired are all those   *)
(* that were due before the one it has queued, and that one is on its      *)
(* cadence and not overdue; with none queued, none is missing.             *)
(***************************************************************************)
Burst == [actor : Actors, start : Nat, chain : Seq(Nodes), schedule : SendSchedules]

Starts(a) == {oracle[i].start : i \in {j \in DOMAIN oracle : oracle[j].actor = a}}
FiringTimes(a) == {t \in Phase[a]..StopTime : (t - Phase[a]) % PeriodS = 0}

NoneQueued(a) == nextBurst[a] = Idle /\ Starts(a) = FiringTimes(a)

Queued(a) ==
  /\ nextBurst[a] \in Nat
  /\ now <= nextBurst[a]
  /\ Phase[a] <= nextBurst[a]
  /\ (nextBurst[a] - Phase[a]) % PeriodS = 0
  /\ Starts(a) = {t \in FiringTimes(a) : t < nextBurst[a]}

IInv ==
  /\ now \in Nat
  /\ nextBurst \in [Actors -> Nat \cup {Idle}]
  /\ oracle \in Seq(Burst)
  /\ \A i \in DOMAIN oracle : Len(oracle[i].chain) >= 2 /\ Traceable(oracle[i])
  /\ \A a \in Actors : NoneQueued(a) \/ Queued(a)

LEMMA TimesTyped ==
  /\ Phase \in [Actors -> Nat] /\ PeriodS \in Nat \ {0} /\ StopTime \in Nat
  /\ Idle = -1
BY CampaignAssumption, NetworkAssumption DEF Idle

LEMMA InitIInv == Init => IInv
<1> SUFFICES ASSUME Init PROVE IInv
  OBVIOUS
<1> USE TimesTyped
<1>1. now = 0 /\ nextBurst = Phase /\ oracle = <<>>
  BY DEF Init, NetInit, CampaignInit
<1>2. ASSUME NEW a \in Actors PROVE Queued(a)
  <2>1. Phase[a] \in Nat
    OBVIOUS
  <2>2. Starts(a) = {}
    BY <1>1 DEF Starts
  <2>3. {t \in FiringTimes(a) : t < Phase[a]} = {}
    BY <2>1 DEF FiringTimes
  <2>4. Phase[a] - Phase[a] = 0 /\ 0 % PeriodS = 0
    BY <2>1
  <2> QED BY <1>1, <2>1, <2>2, <2>3, <2>4 DEF Queued
<1> QED BY <1>1, <1>2 DEF IInv

\* The bursts of an actor are those already there, and the one fired now.
LEMMA StartsOfAppend ==
  ASSUME IInv, NEW b, oracle' = Append(oracle, b), NEW a \in Actors
  PROVE  Starts(a)' = Starts(a) \cup (IF b.actor = a THEN {b.start} ELSE {})
<1>1. oracle \in Seq(Burst) /\ Len(oracle) \in Nat
  BY DEF IInv
<1>2. DOMAIN oracle' = (DOMAIN oracle) \cup {Len(oracle) + 1}
  BY <1>1
<1>3. \A i \in DOMAIN oracle : oracle'[i] = oracle[i]
  BY <1>1
<1>4. oracle'[Len(oracle) + 1] = b
  BY <1>1
<1> QED BY <1>2, <1>3, <1>4 DEF Starts

\* A burst fired when it is due keeps its actor's cadence.
LEMMA CadenceStep ==
  ASSUME NEW a \in Actors, NEW t \in Nat, NEW S, NEW next,
         t <= StopTime, Phase[a] <= t, (t - Phase[a]) % PeriodS = 0,
         S = {u \in FiringTimes(a) : u < t},
         next = NextBurst(t)
  PROVE  \/ next = Idle /\ S \cup {t} = FiringTimes(a)
         \/ /\ next \in Nat /\ t <= next /\ Phase[a] <= next
            /\ (next - Phase[a]) % PeriodS = 0
            /\ S \cup {t} = {u \in FiringTimes(a) : u < next}
<1> USE TimesTyped
<1> DEFINE F == FiringTimes(a)
<1>1. Phase[a] \in Nat /\ t - Phase[a] \in Nat /\ t \in F
  BY DEF FiringTimes
<1>2. ASSUME NEW u \in F, u > t PROVE t + PeriodS <= u
  <2>1. u - Phase[a] \in Nat /\ (u - Phase[a]) % PeriodS = 0 /\ u \in Nat
    BY <1>1, <1>2 DEF FiringTimes
  <2>2. (t - Phase[a]) + PeriodS <= u - Phase[a]
    BY <1>1, <1>2, <2>1, PeriodApart
  <2> QED BY <1>1, <2>1, <2>2
<1>3. \A u \in F : u \in Nat /\ u <= StopTime
  BY <1>1 DEF FiringTimes
<1> HIDE DEF F
<1>4. S = {u \in F : u < t} /\ t \in Nat /\ F = FiringTimes(a)
  BY DEF F
<1>5. CASE t + PeriodS <= StopTime
  <2>1. next = t + PeriodS
    BY <1>5 DEF NextBurst
  <2>2. ((t - Phase[a]) + PeriodS) % PeriodS = 0
    BY <1>1, NextMultiple
  <2>3. (t - Phase[a]) + PeriodS = next - Phase[a]
    BY <1>1, <2>1
  <2>4. S \cup {t} = {u \in F : u < next}
    <3>1. ASSUME NEW u \in F PROVE u < next <=> (u < t \/ u = t)
      <4>1. u \in Nat /\ (u > t => t + PeriodS <= u)
        BY <1>2, <1>3
      <4> QED BY <1>4, <2>1, <4>1
    <3> QED BY <1>1, <1>4, <3>1
  <2> QED BY <1>1, <1>4, <2>1, <2>2, <2>3, <2>4
<1>6. CASE ~(t + PeriodS <= StopTime)
  <2>1. next = Idle
    BY <1>6 DEF NextBurst
  <2>2. S \cup {t} = F
    <3>1. ASSUME NEW u \in F PROVE u < t \/ u = t
      <4>1. u \in Nat /\ u <= StopTime /\ (u > t => t + PeriodS <= u)
        BY <1>2, <1>3
      <4> QED BY <1>6, <1>4, <4>1
    <3> QED BY <1>1, <1>4, <3>1
  <2> QED BY <1>4, <2>1, <2>2
<1> QED BY <1>5, <1>6

LEMMA FireBurstIInv ==
  ASSUME IInv, NEW a \in Actors, FireBurst(a)
  PROVE  IInv'
<1> USE TimesTyped
<1>1. PICK origin \in Nodes \ {Victim}, schedule \in SendSchedules :
        \E drawn \in RelayChoices(a, origin) :
          StartBurst(a, origin, <<origin>> \o drawn \o <<Victim>>, schedule)
  BY DEF FireBurst
<1>2. PICK drawn \in RelayChoices(a, origin) :
        StartBurst(a, origin, <<origin>> \o drawn \o <<Victim>>, schedule)
  BY <1>1
<1> DEFINE chain == <<origin>> \o drawn \o <<Victim>>
           b == [actor |-> a, start |-> now, chain |-> chain, schedule |-> schedule]
<1>3. now \in Nat /\ nextBurst[a] = now /\ now <= StopTime /\ now' = now
  BY DEF FireBurst, Due, IInv
<1>4. chain \in Seq(Nodes) /\ Len(chain) >= 2 /\ Traceable(b)
  BY DrawIsTraceable
<1>5. oracle' = Append(oracle, b) /\ nextBurst' = [nextBurst EXCEPT ![a] = NextBurst(now)]
  BY <1>2 DEF StartBurst
<1>6. b \in Burst /\ b.actor = a /\ b.start = now
  BY <1>3, <1>4 DEF Burst
<1> HIDE DEF b, chain
<1>7. oracle \in Seq(Burst) /\ nextBurst \in [Actors -> Nat \cup {Idle}]
  BY DEF IInv
<1>8. oracle' \in Seq(Burst)
  BY <1>5, <1>6, <1>7
<1>9. \A i \in DOMAIN oracle' : Len(oracle'[i].chain) >= 2 /\ Traceable(oracle'[i])
  <2>1. \A i \in DOMAIN oracle : Len(oracle[i].chain) >= 2 /\ Traceable(oracle[i])
    BY DEF IInv
  <2>2. Len(b.chain) >= 2
    BY <1>4 DEF b
  <2>3. \A i \in DOMAIN oracle' : oracle'[i] = b \/ (i \in DOMAIN oracle /\ oracle'[i] = oracle[i])
    BY <1>5, <1>6, <1>7
  <2> QED BY <1>4, <2>1, <2>2, <2>3
<1>10. NextBurst(now) \in Nat \cup {Idle}
  BY <1>3 DEF NextBurst
<1>11. nextBurst' \in [Actors -> Nat \cup {Idle}]
  BY <1>5, <1>7, <1>10
<1>12. ASSUME NEW c \in Actors, c # a PROVE (NoneQueued(c) \/ Queued(c))'
  <2>1. nextBurst'[c] = nextBurst[c]
    BY <1>5, <1>7, <1>12
  <2>2. Starts(c)' = Starts(c)
    BY <1>5, <1>6, <1>12, StartsOfAppend
  <2>3. NoneQueued(c) \/ Queued(c)
    BY DEF IInv
  <2>4. FiringTimes(c)' = FiringTimes(c)
    BY DEF FiringTimes
  <2> QED BY <1>3, <2>1, <2>2, <2>3, <2>4 DEF NoneQueued, Queued
<1>13. (NoneQueued(a) \/ Queued(a))'
  <2>1. Queued(a)
    BY <1>3 DEF IInv, NoneQueued
  <2>2. nextBurst'[a] = NextBurst(now)
    BY <1>5, <1>7
  <2>3. Starts(a)' = Starts(a) \cup {now}
    BY <1>5, <1>6, StartsOfAppend
  <2>4. \/ NextBurst(now) = Idle /\ Starts(a) \cup {now} = FiringTimes(a)
        \/ /\ NextBurst(now) \in Nat /\ now <= NextBurst(now) /\ Phase[a] <= NextBurst(now)
           /\ (NextBurst(now) - Phase[a]) % PeriodS = 0
           /\ Starts(a) \cup {now} = {u \in FiringTimes(a) : u < NextBurst(now)}
    BY <1>3, <2>1, CadenceStep DEF Queued
  <2>5. FiringTimes(a)' = FiringTimes(a)
    BY DEF FiringTimes
  <2> QED BY <1>3, <2>2, <2>3, <2>4, <2>5 DEF NoneQueued, Queued
<1> QED BY <1>3, <1>8, <1>9, <1>11, <1>12, <1>13 DEF IInv

\* Past the stop time, a burst still queued is none that was due by then.
LEMMA FireTooLateIInv ==
  ASSUME IInv, NEW a \in Actors, FireTooLate(a)
  PROVE  IInv'
<1> USE TimesTyped
<1>1. /\ now \in Nat /\ nextBurst[a] = now /\ now > StopTime
      /\ now' = now /\ oracle' = oracle
      /\ nextBurst' = [nextBurst EXCEPT ![a] = Idle]
      /\ nextBurst \in [Actors -> Nat \cup {Idle}]
  BY DEF FireTooLate, Due, IInv, netVars
<1>2. \A c \in Actors : Starts(c)' = Starts(c) /\ FiringTimes(c)' = FiringTimes(c)
  BY <1>1 DEF Starts, FiringTimes
<1>3. NoneQueued(a)'
  <2>1. Starts(a) = {t \in FiringTimes(a) : t < now}
    BY <1>1 DEF IInv, NoneQueued, Queued
  <2>2. \A t \in FiringTimes(a) : t < now
    BY <1>1 DEF FiringTimes
  <2> QED BY <1>1, <1>2, <2>1, <2>2 DEF NoneQueued
<1>4. ASSUME NEW c \in Actors, c # a PROVE (NoneQueued(c) \/ Queued(c))'
  BY <1>1, <1>2, <1>4 DEF IInv, NoneQueued, Queued
<1>5. nextBurst' \in [Actors -> Nat \cup {Idle}]
  BY <1>1
<1>6. \A i \in DOMAIN oracle' : Len(oracle'[i].chain) >= 2 /\ Traceable(oracle'[i])
  BY <1>1 DEF IInv
<1> QED BY <1>1, <1>3, <1>4, <1>5, <1>6 DEF IInv

\* Time moves on only past instants at which no burst is due.
LEMMA TickIInv ==
  ASSUME IInv, Tick
  PROVE  IInv'
<1> USE TimesTyped
<1>1. /\ now \in Nat /\ now' = now + 1
      /\ \A a \in Actors : nextBurst[a] # now
      /\ nextBurst' = nextBurst /\ oracle' = oracle
  BY DEF IInv, Tick, campaignVars
<1>2. ASSUME NEW a \in Actors PROVE (NoneQueued(a) \/ Queued(a))'
  <2>1. Starts(a)' = Starts(a) /\ FiringTimes(a)' = FiringTimes(a)
    BY <1>1 DEF Starts, FiringTimes
  <2>2. nextBurst[a] # now
    BY <1>1
  <2>3. NoneQueued(a) \/ Queued(a)
    BY DEF IInv
  <2> QED BY <1>1, <2>1, <2>2, <2>3 DEF NoneQueued, Queued
<1>3. \A i \in DOMAIN oracle' : Len(oracle'[i].chain) >= 2 /\ Traceable(oracle'[i])
  BY <1>1 DEF IInv
<1> QED BY <1>1, <1>2, <1>3 DEF IInv

\* No other event queues, fires or logs a burst, or moves the time.
LEMMA ElsewhereIInv ==
  ASSUME IInv, now' = now, UNCHANGED campaignVars
  PROVE  IInv'
<1>1. nextBurst' = nextBurst /\ oracle' = oracle
  BY DEF campaignVars
<1>2. \A a \in Actors : Starts(a)' = Starts(a) /\ FiringTimes(a)' = FiringTimes(a)
  BY <1>1 DEF Starts, FiringTimes
<1>3. \A a \in Actors : (NoneQueued(a) \/ Queued(a))'
  BY <1>1, <1>2 DEF IInv, NoneQueued, Queued
<1>4. \A i \in DOMAIN oracle' : Len(oracle'[i].chain) >= 2 /\ Traceable(oracle'[i])
  BY <1>1 DEF IInv
<1> QED BY <1>1, <1>3, <1>4 DEF IInv

LEMMA NextIInv == IInv /\ [Next]_vars => IInv'
<1> SUFFICES ASSUME IInv, [Next]_vars PROVE IInv'
  OBVIOUS
<1>1. CASE CampaignNext
  BY <1>1, FireBurstIInv, FireTooLateIInv DEF CampaignNext
<1>2. CASE BackgroundNext /\ UNCHANGED campaignVars
  <2>1. now' = now
    BY <1>2 DEF BackgroundNext, FireSession, SessionTooLate, netVars
  <2> QED BY <1>2, <2>1, ElsewhereIInv
<1>3. CASE NetNext /\ UNCHANGED campaignVars
  <2>1. now' = now
    BY <1>3 DEF NetNext, CloseSocket, SendPacket, StartApplication, StopApplication,
                HandleRead, SinkRead, Undeliverable, Forward
  <2> QED BY <1>3, <2>1, ElsewhereIInv
<1>4. CASE Tick
  BY <1>4, TickIInv
<1>5. CASE UNCHANGED vars
  BY <1>5, ElsewhereIInv DEF vars, netVars
<1> QED BY <1>1, <1>2, <1>3, <1>4, <1>5 DEF Next

LEMMA IInvAlways == Spec => []IInv
<1>1. Init => IInv
  BY InitIInv
<1>2. IInv /\ [Next]_vars => IInv'
  BY NextIInv
<1> QED BY <1>1, <1>2, PTL DEF Spec

-----------------------------------------------------------------------------
\* Every chain in the oracle visits no node twice, ends at the victim, and
\* has as many relays of the actor's own pool as were configured or, where
\* the pool does not have them, as it has.
THEOREM Chains == Spec => []OracleChainsAreTraceable
<1>1. IInv => OracleChainsAreTraceable
  BY DEF IInv, OracleChainsAreTraceable, Traceable
<1> QED BY <1>1, IInvAlways, PTL

\* Bursts are fired one period apart, from each actor's phase on, and none
\* that was due by the stop time is missing after it.
THEOREM Cadence == Spec => []CadenceKept
<1>1. IInv => CadenceKept
  <2> SUFFICES ASSUME IInv, NEW a \in Actors
               PROVE  /\ Starts(a) \subseteq FiringTimes(a)
                      /\ now > StopTime => Starts(a) = FiringTimes(a)
    BY DEF CadenceKept, Starts, FiringTimes
  <2> USE TimesTyped
  <2>1. CASE NoneQueued(a)
    BY <2>1 DEF NoneQueued
  <2>2. CASE Queued(a)
    <3>1. \A t \in FiringTimes(a) : t \in Nat /\ t <= StopTime
      BY DEF FiringTimes
    <3>2. Starts(a) = {t \in FiringTimes(a) : t < nextBurst[a]}
      BY <2>2 DEF Queued
    <3>3. now \in Nat /\ nextBurst[a] \in Nat /\ now <= nextBurst[a]
      BY <2>2 DEF Queued, IInv
    <3> QED BY <3>1, <3>2, <3>3
  <2> QED BY <2>1, <2>2 DEF IInv
<1> QED BY <1>1, IInvAlways, PTL

LEMMA MaxIsGreatest ==
  ASSUME NEW S \in SUBSET Nat, IsFiniteSet(S), S # {}
  PROVE  Max(S) \in S /\ \A k \in S : k <= Max(S)
<1>1. \E m \in S : \A k \in S : k <= m
  BY GreatestNatural
<1>2. \E m \in S : \A k \in S : m >= k
  BY <1>1
<1> QED BY <1>2 DEF Max

-----------------------------------------------------------------------------
(***************************************************************************)
(* Ports.                                                                  *)
(***************************************************************************)
Ephemeral == {p \in Nat : FirstEphemeral <= p}

LEMMA EphemeralFree ==
  ASSUME NEW node \in Nodes, NEW taken, IsFiniteSet(taken), ephemeral \in [Nodes -> Nat]
  PROVE  /\ EphemeralPort(node, taken) \in Nat
         /\ EphemeralPort(node, taken) >= ephemeral[node]
         /\ EphemeralPort(node, taken) \notin taken
<1> DEFINE e == ephemeral[node]
           c == Cardinality(taken)
           range == e..(e + c)
           free == range \ taken
<1>1. e \in Nat /\ c \in Nat
  BY FS_CardinalityType
<1> HIDE DEF e, c
<1>2. IsFiniteSet(range) /\ Cardinality(range) = c + 1
  <2>1. e \in Int /\ e + c \in Int /\ e <= e + c /\ (e + c) - e + 1 = c + 1
    BY <1>1
  <2>2. IsFiniteSet(e..(e + c)) /\ Cardinality(e..(e + c)) = IF e > e + c THEN 0 ELSE (e + c) - e + 1
    BY <2>1, FS_Interval
  <2> QED BY <1>1, <2>1, <2>2
<1>3. free # {}
  <2> SUFFICES ASSUME range \subseteq taken PROVE FALSE
    OBVIOUS
  <2>1. Cardinality(range) <= c
    BY FS_Subset DEF c
  <2> QED BY <1>1, <1>2, <2>1
<1>4. free \in SUBSET Nat
  BY <1>1
<1> HIDE DEF free
<1>5. PICK p \in free : \A q \in free : p <= q
  BY <1>3, <1>4, LeastNatural
<1>6. p \in range /\ p \notin taken
  BY <1>5 DEF free
<1>7. ASSUME NEW q \in e..(p - 1) PROVE q \in taken
  <2>1. q \in range /\ q < p /\ q \in Nat /\ p \in Nat
    BY <1>1, <1>6
  <2> QED BY <1>5, <2>1 DEF free
<1>8. \E x \in range : x \notin taken /\ \A q \in e..(x - 1) : q \in taken
  BY <1>6, <1>7
<1>9. /\ EphemeralPort(node, taken) \in range
      /\ EphemeralPort(node, taken) \notin taken
  BY <1>8 DEF EphemeralPort, e, c
<1> QED BY <1>1, <1>9 DEF e

\* A socket is of a burst (positive) or of a session.
Socket == [job : Int, node : Nodes, port : Ephemeral, close : Nat]
Relay ==
  [job : Nat \ {0}, hop : Nat, node : Nodes, port : Nat, next : Nodes \X Nat,
   stop : Nat, started : BOOLEAN, bound : BOOLEAN, sendPort : Nat]

LEMMA PortsInUseFinite ==
  ASSUME NEW node \in Nodes, IsFiniteSet(active), IsFiniteSet(relays)
  PROVE  IsFiniteSet(PortsInUse(node))
<1> DEFINE A == {x \in relays : x.node = node /\ x.bound}
           B == {x \in relays : x.node = node /\ x.started}
           C == {x \in active : x.node = node}
           Ports(S) == {x.port : x \in S}
           SendPorts(S) == {x.sendPort : x \in S}
<1>1. ASSUME NEW S, IsFiniteSet(S) PROVE IsFiniteSet(Ports(S)) /\ IsFiniteSet(SendPorts(S))
  <2>1. [x \in S |-> x.port] \in Surjection(S, Ports(S))
    BY DEF Surjection
  <2>2. [x \in S |-> x.sendPort] \in Surjection(S, SendPorts(S))
    BY DEF Surjection
  <2> HIDE DEF Ports, SendPorts
  <2>3. IsFiniteSet(Ports(S))
    BY <1>1, <2>1, FS_Surjection
  <2>4. IsFiniteSet(SendPorts(S))
    BY <1>1, <2>2, FS_Surjection
  <2> QED BY <2>3, <2>4
<1>2. IsFiniteSet(A) /\ IsFiniteSet(B) /\ IsFiniteSet(C)
  BY FS_Subset
<1>3. IsFiniteSet(SinkPorts(node))
  <2>1. IsFiniteSet({}) /\ \A p : IsFiniteSet({p})
    BY FS_EmptySet, FS_Singleton
  <2>2. \A p, q : IsFiniteSet({p} \cup {q}) /\ IsFiniteSet({p} \cup {})
    BY <2>1, FS_Union
  <2> QED BY <2>1, <2>2 DEF SinkPorts
<1>4. PortsInUse(node) = ((Ports(A) \cup SendPorts(B)) \cup Ports(C)) \cup SinkPorts(node)
  BY DEF PortsInUse
<1> HIDE DEF A, B, C, Ports, SendPorts
<1>5. IsFiniteSet(Ports(A)) /\ IsFiniteSet(SendPorts(B)) /\ IsFiniteSet(Ports(C))
  BY <1>1, <1>2
<1>6. IsFiniteSet(Ports(A) \cup SendPorts(B))
  BY <1>5, FS_Union
<1>7. IsFiniteSet((Ports(A) \cup SendPorts(B)) \cup Ports(C))
  BY <1>5, <1>6, FS_Union
<1> QED BY <1>3, <1>4, <1>7, FS_Union

-----------------------------------------------------------------------------
(***************************************************************************)
(* Records and types.                                                      *)
(***************************************************************************)
FlowKey == [src : Nodes \X Nat, sport : Nat, dst : Nodes \X Nat, dport : Nat]
Sending == [job : Int, n : Nat, due : Nat, flow : FlowKey]
Flying == [job : Int, n : Nat, passed : Seq(Nodes), flow : FlowKey, at : Nat]
Forwarding ==
  [job : Int, n : Nat, passed : Seq(Nodes), by : [job : Nat \ {0}, hop : Nat], due : Nat]
Record == Int \X Nat \X FlowKey

\* The types of what the traffic is made of; no socket or relay is given a
\* port below the ephemeral range to send from.
NetTypes ==
  /\ ephemeral \in [Nodes -> Ephemeral]
  /\ nextRelayPort \in FirstRelayPort..LastRelayPort
  /\ sessions \in Nat
  /\ active \subseteq Socket /\ IsFiniteSet(active)
  /\ relays \subseteq Relay /\ IsFiniteSet(relays)
  /\ \A r \in relays : r.started => r.sendPort \in Ephemeral
  /\ sends \subseteq Sending
  /\ air \subseteq Flying
  /\ forwards \subseteq Forwarding
  /\ logTx \subseteq Record /\ logRx \subseteq Record /\ wire \subseteq Record

LEMMA NumbersTyped ==
  /\ FirstRelayPort \in Nat /\ LastRelayPort \in Nat /\ FirstRelayPort <= LastRelayPort
  /\ FirstEphemeral \in Nat /\ StopTime \in Nat /\ Drain \in Nat /\ ChainLenCap \in Nat
  /\ VictimPort \in Nat /\ BackgroundPort \in Nat /\ BurstS \in Nat \ {0} /\ StopSlack \in Nat \ {0}
  /\ Victim \in Nodes /\ SessionSlack \in Nat
BY CampaignAssumption, NetworkAssumption, SessionAssumption

\* A key names two nodes by the address they are dialled under; on the wire
\* only the interface of its source differs.
LEMMA SentAsTyped ==
  ASSUME NEW node \in Nodes, NEW sport \in Nat, NEW to \in Nodes \X Nat
  PROVE  LET flow == SentAs(node, sport, to)
         IN  /\ flow \in FlowKey
             /\ flow.src = NodeAddress(node) /\ flow.src[1] = node
             /\ flow.sport = sport
             /\ flow.dst = NodeAddress(to[1]) /\ flow.dst[1] = to[1]
             /\ flow.dport = to[2]
BY DEF SentAs, MakeFlowKey, NodeAddress, FlowKey

LEMMA OnWireTyped ==
  ASSUME NEW flow \in FlowKey
  PROVE  LET seen == OnWire(flow)
         IN  /\ seen \in FlowKey
             /\ seen.src = <<flow.src[1], Outgoing[flow.src[1]][flow.dst[1]]>>
             /\ seen.sport = flow.sport /\ seen.dst = flow.dst /\ seen.dport = flow.dport
             /\ flow.src = NodeAddress(flow.src[1]) =>
                  [seen EXCEPT !.src = NodeAddress(seen.src[1])] = flow
<1>1. /\ flow.src \in Nodes \X Nat /\ flow.sport \in Nat
      /\ flow.dst \in Nodes \X Nat /\ flow.dport \in Nat
      /\ flow = [src |-> flow.src, sport |-> flow.sport, dst |-> flow.dst, dport |-> flow.dport]
  BY DEF FlowKey
<1>2. PICK n \in Nodes, i \in Nat : flow.src = <<n, i>>
  BY <1>1
<1> DEFINE out == Outgoing[flow.src[1]][flow.dst[1]]
<1>3. out \in Nat
  <2>1. flow.src[1] \in Nodes /\ flow.dst[1] \in Nodes
    BY <1>1
  <2> QED BY <2>1, NetworkAssumption
<1> HIDE DEF out
<1>4. OnWire(flow) = [flow EXCEPT !.src = [flow.src EXCEPT ![2] = out]]
  BY <1>1 DEF OnWire, out
<1>5. [flow.src EXCEPT ![2] = out] = <<n, out>>
  BY <1>2
<1>6. OnWire(flow) = [src |-> <<n, out>>, sport |-> flow.sport, dst |-> flow.dst, dport |-> flow.dport]
  BY <1>1, <1>4, <1>5
<1>7. flow.src[1] = n
  BY <1>2
<1> QED BY <1>1, <1>3, <1>6, <1>7 DEF FlowKey, NodeAddress, out

-----------------------------------------------------------------------------
(***************************************************************************)
(* What firing a burst comes to.                                           *)
(***************************************************************************)
LEMMA PortInRange ==
  ASSUME NEW port \in FirstRelayPort..LastRelayPort, NEW i \in Nat
  PROVE  /\ PortAfter(port, i) \in FirstRelayPort..LastRelayPort
         /\ port + i <= LastRelayPort => PortAfter(port, i) = port + i
<1> DEFINE k == port - FirstRelayPort + i
           m == LastRelayPort - FirstRelayPort + 1
<1>1. k \in Nat /\ m \in Nat \ {0}
  BY NumbersTyped
<1>2. k % m \in 0..(m - 1) /\ (k < m => k % m = k)
  <2> HIDE DEF k, m
  <2> QED BY <1>1
<1>3. PortAfter(port, i) = FirstRelayPort + (k % m)
  BY DEF PortAfter
<1> DEFINE j == k % m
<1>4. j \in 0..(m - 1) /\ (k < m => j = k) /\ PortAfter(port, i) = FirstRelayPort + j
  BY <1>2, <1>3
<1> HIDE DEF j
<1> QED BY <1>4, NumbersTyped

\* The relay application queued for the i-th node of the chain fired now.
Enlisted(chain, i) ==
  [job |-> Len(oracle) + 1, hop |-> i, node |-> chain[i], port |-> HopPort(i - 1),
   next |-> NextHop(chain, i), stop |-> CloseAt(now), started |-> FALSE,
   bound |-> FALSE, sendPort |-> 0]

\* FireBurst with its draw made and the choice of its port abstracted: a free
\* one, not below the next the node would try.
Fired(actor, chain, schedule, port) ==
  /\ chain \in Seq(Nodes) /\ Len(chain) \in 2..(ChainLenCap + 2)
  /\ Simple(chain) /\ chain[Len(chain)] = Victim
  /\ schedule \in SendSchedules
  /\ port \in Ephemeral /\ port >= ephemeral[chain[1]] /\ port \notin PortsInUse(chain[1])
  /\ nextBurst[actor] = now
  /\ oracle' = Append(oracle, [actor |-> actor, start |-> now, chain |-> chain,
                               schedule |-> schedule])
  /\ nextRelayPort' = PortAfter(nextRelayPort, Len(chain) - 2)
  /\ relays' = relays \cup {Enlisted(chain, i) : i \in 2..(Len(chain) - 1)}
  /\ ephemeral' = [ephemeral EXCEPT ![chain[1]] = port + 1]
  /\ active' = active \cup
       {[job |-> Len(oracle) + 1, node |-> chain[1], port |-> port, close |-> CloseAt(now)]}
  /\ sends' = sends \cup
       {[job |-> Len(oracle) + 1, n |-> n, due |-> now + schedule[n],
         flow |-> SentAs(chain[1], port, NextHop(chain, 1))] : n \in DOMAIN schedule}
  /\ UNCHANGED <<now, air, forwards, logTx, logRx, wire, deaf, nextSession, sessions>>

LEMMA FireBurstFires ==
  ASSUME IInv, NetTypes, NEW actor \in Actors, FireBurst(actor), UNCHANGED backgroundVars
  PROVE  \E chain, schedule, port : Fired(actor, chain, schedule, port)
<1>1. PICK origin \in Nodes \ {Victim}, schedule \in SendSchedules :
        \E drawn \in RelayChoices(actor, origin) :
          StartBurst(actor, origin, <<origin>> \o drawn \o <<Victim>>, schedule)
  BY DEF FireBurst
<1>2. PICK drawn \in RelayChoices(actor, origin) :
        StartBurst(actor, origin, <<origin>> \o drawn \o <<Victim>>, schedule)
  BY <1>1
<1> DEFINE chain == <<origin>> \o drawn \o <<Victim>>
           burst == [actor |-> actor, start |-> now, chain |-> chain, schedule |-> schedule]
           port == EphemeralPort(origin, PortsInUse(origin))
<1>3. /\ chain \in Seq(Nodes) /\ Len(chain) >= 2 /\ chain[1] = origin
      /\ Traceable(burst)
  BY DrawIsTraceable
<1>5. port \in Ephemeral /\ port >= ephemeral[origin] /\ port \notin PortsInUse(origin)
  <2>1. IsFiniteSet(PortsInUse(origin))
    BY PortsInUseFinite DEF NetTypes
  <2>2. ephemeral \in [Nodes -> Nat] /\ ephemeral[origin] \in Ephemeral
    BY DEF NetTypes, Ephemeral
  <2>3. port \in Nat /\ port >= ephemeral[origin] /\ port \notin PortsInUse(origin)
    BY <2>1, <2>2, EphemeralFree
  <2> HIDE DEF port
  <2> QED BY <2>2, <2>3, NumbersTyped DEF Ephemeral
<1> HIDE DEF port
<1>6. StartBurst(actor, chain[1], chain, schedule) /\ port = EphemeralPort(chain[1], PortsInUse(chain[1]))
  BY <1>2, <1>3 DEF port
<1> HIDE DEF chain
<1>4. Len(chain) \in 2..(ChainLenCap + 2) /\ Simple(chain) /\ chain[Len(chain)] = Victim
  BY <1>3, NumbersTyped DEF Traceable, Last
<1>7. Fired(actor, chain, schedule, port)
  <2>1. \A i \in 2..(Len(chain) - 1) :
          [job |-> Len(oracle) + 1, hop |-> i, node |-> chain[i], port |-> HopPort(i - 1),
           next |-> NextHop(chain, i), stop |-> StopAt(now), started |-> FALSE,
           bound |-> FALSE, sendPort |-> 0] = Enlisted(chain, i)
    BY DEF Enlisted, StopAt
  <2>2. nextBurst[actor] = now
    BY DEF FireBurst, Due
  <2>3. UNCHANGED <<now, air, forwards, logTx, logRx, wire, deaf, nextSession, sessions>>
    BY DEF FireBurst, backgroundVars
  <2>4. /\ oracle' = Append(oracle, [actor |-> actor, start |-> now, chain |-> chain,
                                     schedule |-> schedule])
        /\ nextRelayPort' = PortAfter(nextRelayPort, Len(chain) - 2)
        /\ ephemeral' = [ephemeral EXCEPT ![chain[1]] = port + 1]
        /\ active' = active \cup
             {[job |-> Len(oracle) + 1, node |-> chain[1], port |-> port, close |-> CloseAt(now)]}
        /\ sends' = sends \cup
             {[job |-> Len(oracle) + 1, n |-> n, due |-> now + schedule[n],
               flow |-> SentAs(chain[1], port, NextHop(chain, 1))] : n \in DOMAIN schedule}
    BY <1>6 DEF StartBurst
  <2>5. relays' = relays \cup {Enlisted(chain, i) : i \in 2..(Len(chain) - 1)}
    BY <1>6, <2>1 DEF StartBurst
  <2> QED BY <1>3, <1>4, <1>5, <2>2, <2>3, <2>4, <2>5 DEF Fired
<1> QED BY <1>7

\* A relay passes on to the next node of the chain, the last one to the victim.
LEMMA HopsTyped ==
  ASSUME NetTypes, NEW actor, NEW chain, NEW schedule, NEW port,
         Fired(actor, chain, schedule, port)
  PROVE  /\ \A i \in 1..(Len(chain) - 1) : NextHop(chain, i) \in Nodes \X Nat
         /\ \A i \in 1..(Len(chain) - 2) : HopPort(i) \in FirstRelayPort..LastRelayPort
<1>1. /\ chain \in Seq(Nodes) /\ Len(chain) \in 2..(ChainLenCap + 2)
      /\ nextRelayPort \in FirstRelayPort..LastRelayPort
  BY DEF Fired, NetTypes
<1>2. ASSUME NEW i \in 1..(Len(chain) - 2) PROVE HopPort(i) \in FirstRelayPort..LastRelayPort
  <2>1. i - 1 \in Nat
    BY <1>1
  <2> QED BY <1>1, <2>1, PortInRange DEF HopPort
<1>3. ASSUME NEW i \in 1..(Len(chain) - 1) PROVE NextHop(chain, i) \in Nodes \X Nat
  <2>1. CASE i + 1 = Len(chain)
    BY <2>1, NumbersTyped DEF NextHop
  <2>2. CASE i + 1 # Len(chain)
    <3>1. i \in 1..(Len(chain) - 2) /\ chain[i + 1] \in Nodes
      BY <1>1, <2>2, NumbersTyped
    <3>2. HopPort(i) \in Nat
      BY <1>2, <3>1, NumbersTyped
    <3> QED BY <2>2, <3>1, <3>2 DEF NextHop
  <2> QED BY <2>1, <2>2
<1> QED BY <1>2, <1>3

LEMMA EnlistedTyped ==
  ASSUME IInv, NetTypes, NEW actor, NEW chain, NEW schedule, NEW port,
         Fired(actor, chain, schedule, port), NEW i \in 2..(Len(chain) - 1)
  PROVE  Enlisted(chain, i) \in Relay
<1>1. chain[i] \in Nodes /\ i \in Nat /\ i - 1 \in 1..(Len(chain) - 2) /\ i \in 1..(Len(chain) - 1)
  BY NumbersTyped DEF Fired
<1>2. NextHop(chain, i) \in Nodes \X Nat /\ HopPort(i - 1) \in Nat
  BY <1>1, HopsTyped, NumbersTyped
<1>3. Len(oracle) + 1 \in Nat \ {0} /\ CloseAt(now) \in Nat
  BY NumbersTyped DEF IInv, CloseAt
<1> QED BY <1>1, <1>2, <1>3 DEF Enlisted, Relay

LEMMA FiredTypes ==
  ASSUME IInv, NetTypes, NEW actor, NEW chain, NEW schedule, NEW port,
         Fired(actor, chain, schedule, port)
  PROVE  NetTypes'
<1>1. /\ oracle \in Seq(Burst) /\ Len(oracle) + 1 \in Int /\ CloseAt(now) \in Nat /\ now \in Nat
  BY NumbersTyped DEF IInv, CloseAt
<1>2. /\ chain \in Seq(Nodes) /\ Len(chain) \in 2..(ChainLenCap + 2)
      /\ schedule \in SendSchedules /\ port \in Ephemeral
  BY DEF Fired
<1>3. chain[1] \in Nodes
  BY <1>2, NumbersTyped
<1>4. ephemeral' \in [Nodes -> Ephemeral]
  <2>1. port + 1 \in Ephemeral
    BY <1>2, NumbersTyped DEF Ephemeral
  <2>2. ephemeral \in [Nodes -> Ephemeral] /\ ephemeral' = [ephemeral EXCEPT ![chain[1]] = port + 1]
    BY DEF NetTypes, Fired
  <2> QED BY <1>3, <2>1, <2>2
<1>5. nextRelayPort' \in FirstRelayPort..LastRelayPort
  <2>1. Len(chain) - 2 \in Nat /\ nextRelayPort \in FirstRelayPort..LastRelayPort
    BY <1>2, NumbersTyped DEF NetTypes
  <2>2. nextRelayPort' = PortAfter(nextRelayPort, Len(chain) - 2)
    BY DEF Fired
  <2> QED BY <2>1, <2>2, PortInRange
<1>6. active' \subseteq Socket /\ IsFiniteSet(active')
  <2> DEFINE a == [job |-> Len(oracle) + 1, node |-> chain[1], port |-> port, close |-> CloseAt(now)]
  <2>1. a \in Socket
    BY <1>1, <1>2, <1>3 DEF Socket
  <2>2. active' = active \cup {a} /\ active \subseteq Socket /\ IsFiniteSet(active)
    BY DEF Fired, NetTypes
  <2> HIDE DEF a
  <2> QED BY <2>1, <2>2, FS_AddElement
<1>7. relays' \subseteq Relay /\ IsFiniteSet(relays') /\ \A r \in relays' : r.started => r.sendPort \in Ephemeral
  <2> DEFINE hops == 2..(Len(chain) - 1)
             R == {Enlisted(chain, i) : i \in hops}
  <2>1. relays' = relays \cup R
    BY DEF Fired
  <2>2. R \subseteq Relay
    BY EnlistedTyped
  <2>3. \A r \in R : ~r.started
    BY DEF Enlisted
  <2>4. IsFiniteSet(R)
    <3>1. [i \in hops |-> Enlisted(chain, i)] \in Surjection(hops, R)
      BY DEF Surjection
    <3>2. IsFiniteSet(hops)
      BY <1>2, FS_Interval
    <3> HIDE DEF R
    <3> QED BY <3>1, <3>2, FS_Surjection
  <2> HIDE DEF R
  <2>5. IsFiniteSet(relays \cup R)
    BY <2>4, FS_Union DEF NetTypes
  <2> QED BY <2>1, <2>2, <2>3, <2>5 DEF NetTypes
<1>8. sends' \subseteq Sending
  <2> DEFINE flow == SentAs(chain[1], port, NextHop(chain, 1))
             send(n) == [job |-> Len(oracle) + 1, n |-> n, due |-> now + schedule[n], flow |-> flow]
  <2>1. flow \in FlowKey
    <3>1. NextHop(chain, 1) \in Nodes \X Nat
      BY <1>2, HopsTyped, NumbersTyped
    <3>2. port \in Nat
      BY <1>2 DEF Ephemeral
    <3> QED BY <1>3, <3>1, <3>2, SentAsTyped
  <2> HIDE DEF flow
  <2>2. ASSUME NEW n \in DOMAIN schedule PROVE send(n) \in Sending
    <3>1. n \in Nat /\ schedule[n] \in Nat
      BY <1>2, ScheduleShape
    <3>2. now + schedule[n] \in Nat
      BY <1>1, <3>1
    <3> QED BY <1>1, <2>1, <3>1, <3>2 DEF Sending
  <2>3. sends' = sends \cup {send(n) : n \in DOMAIN schedule}
    BY DEF Fired, flow
  <2> HIDE DEF send
  <2> QED BY <2>2, <2>3 DEF NetTypes
<1>9. /\ sessions' = sessions /\ air' = air /\ forwards' = forwards
      /\ logTx' = logTx /\ logRx' = logRx /\ wire' = wire
  BY DEF Fired
<1> QED BY <1>4, <1>5, <1>6, <1>7, <1>8, <1>9 DEF NetTypes

-----------------------------------------------------------------------------
(***************************************************************************)
(* What opening a session and starting a relay come to.                    *)
(***************************************************************************)
Opened(src, dst, count, port) ==
  /\ src \in Nodes /\ dst \in Nodes /\ count \in Nat \ {0}
  /\ port \in Ephemeral /\ port >= ephemeral[src]
  /\ sessions' = sessions + 1
  /\ ephemeral' = [ephemeral EXCEPT ![src] = port + 1]
  /\ active' = active \cup {[job |-> -(sessions + 1), node |-> src, port |-> port,
                             close |-> now + count + SessionSlack]}
  /\ sends' = sends \cup
       {[job |-> -(sessions + 1), n |-> n, due |-> now + n - 1,
         flow |-> SentAs(src, port, <<dst, BackgroundPort>>)] : n \in 1..count}
  /\ UNCHANGED <<now, relays, air, forwards, logTx, logRx, wire, deaf>>
  /\ UNCHANGED campaignVars

LEMMA FreePort ==
  ASSUME NetTypes, NEW node \in Nodes, NEW taken, IsFiniteSet(taken)
  PROVE  /\ EphemeralPort(node, taken) \in Ephemeral
         /\ EphemeralPort(node, taken) >= ephemeral[node]
         /\ EphemeralPort(node, taken) \notin taken
<1> DEFINE port == EphemeralPort(node, taken)
<1>1. ephemeral \in [Nodes -> Nat] /\ ephemeral[node] \in Ephemeral
  BY DEF NetTypes, Ephemeral
<1>2. port \in Nat /\ port >= ephemeral[node] /\ port \notin taken
  BY <1>1, EphemeralFree
<1> HIDE DEF port
<1>3. port \in Ephemeral
  BY <1>1, <1>2, NumbersTyped DEF Ephemeral
<1> QED BY <1>2, <1>3 DEF port

LEMMA FireSessionOpens ==
  ASSUME NetTypes, FireSession, UNCHANGED campaignVars
  PROVE  \E src, dst, count, port : Opened(src, dst, count, port)
<1>1. PICK ends \in SessionEnds, count \in SessionCounts : StartSession(ends[1], ends[2], count)
  BY DEF FireSession
<1> DEFINE src == ends[1]
           dst == ends[2]
           port == EphemeralPort(src, PortsInUse(src))
<1>2. src \in Nodes /\ dst \in Nodes /\ count \in Nat \ {0}
  BY SessionAssumption
<1>3. port \in Ephemeral /\ port >= ephemeral[src]
  <2>1. IsFiniteSet(PortsInUse(src))
    BY <1>2, PortsInUseFinite DEF NetTypes
  <2> QED BY <1>2, <2>1, FreePort
<1>4. Opened(src, dst, count, port)
  <2> HIDE DEF port
  <2>1. UNCHANGED <<now, relays, air, forwards, logTx, logRx, wire, deaf>>
    BY DEF FireSession
  <2> QED BY <1>1, <1>2, <1>3, <2>1 DEF StartSession, Opened, port
<1> QED BY <1>4

LEMMA OpenedTypes ==
  ASSUME IInv, NetTypes, NEW src, NEW dst, NEW count, NEW port, Opened(src, dst, count, port)
  PROVE  NetTypes'
<1>1. /\ src \in Nodes /\ dst \in Nodes /\ count \in Nat \ {0} /\ port \in Ephemeral
      /\ port \in Nat /\ now \in Nat /\ sessions \in Nat
  BY DEF Opened, IInv, NetTypes, Ephemeral
<1>2. ephemeral' \in [Nodes -> Ephemeral]
  <2>1. port + 1 \in Ephemeral
    BY <1>1, NumbersTyped DEF Ephemeral
  <2>2. ephemeral \in [Nodes -> Ephemeral] /\ ephemeral' = [ephemeral EXCEPT ![src] = port + 1]
    BY DEF NetTypes, Opened
  <2> QED BY <1>1, <2>1, <2>2
<1>3. active' \subseteq Socket /\ IsFiniteSet(active')
  <2> DEFINE a == [job |-> -(sessions + 1), node |-> src, port |-> port,
                   close |-> now + count + SessionSlack]
  <2>1. a \in Socket
    BY <1>1, NumbersTyped DEF Socket
  <2>2. active' = active \cup {a} /\ active \subseteq Socket /\ IsFiniteSet(active)
    BY DEF Opened, NetTypes
  <2> HIDE DEF a
  <2> QED BY <2>1, <2>2, FS_AddElement
<1>4. sends' \subseteq Sending
  <2> DEFINE flow == SentAs(src, port, <<dst, BackgroundPort>>)
             send(n) == [job |-> -(sessions + 1), n |-> n, due |-> now + n - 1, flow |-> flow]
  <2>1. flow \in FlowKey
    <3>1. <<dst, BackgroundPort>> \in Nodes \X Nat
      BY <1>1, NumbersTyped
    <3> QED BY <1>1, <3>1, SentAsTyped
  <2> HIDE DEF flow
  <2>2. ASSUME NEW n \in 1..count PROVE send(n) \in Sending
    BY <1>1, <2>1 DEF Sending
  <2>3. sends' = sends \cup {send(n) : n \in 1..count}
    BY DEF Opened, flow
  <2> HIDE DEF send
  <2> QED BY <2>2, <2>3 DEF NetTypes
<1>5. /\ sessions' \in Nat /\ nextRelayPort' = nextRelayPort /\ relays' = relays /\ air' = air
      /\ forwards' = forwards /\ logTx' = logTx /\ logRx' = logRx /\ wire' = wire
  BY <1>1 DEF Opened, campaignVars
<1> QED BY <1>2, <1>3, <1>4, <1>5 DEF NetTypes

LaunchedAs(r, bound, port) == [r EXCEPT !.started = TRUE, !.bound = bound, !.sendPort = port]

Launched(r, bound, port) ==
  /\ r \in relays /\ ~r.started
  /\ bound = (r.port \notin PortsInUse(r.node))
  /\ port \in Ephemeral /\ port >= ephemeral[r.node]
  /\ relays' = (relays \ {r}) \cup {LaunchedAs(r, bound, port)}
  /\ ephemeral' = [ephemeral EXCEPT ![r.node] = port + 1]
  /\ deaf' = IF bound THEN deaf ELSE deaf \cup {<<r.job, r.hop, r.port>>}
  /\ UNCHANGED <<now, active, sends, air, forwards, logTx, logRx, wire>>
  /\ UNCHANGED <<nextRelayPort, oracle, sessions>>

LEMMA StartApplicationLaunches ==
  ASSUME NetTypes, NEW r \in relays, StartApplication(r), UNCHANGED <<campaignVars, backgroundVars>>
  PROVE  \E bound \in BOOLEAN : \E port : Launched(r, bound, port)
<1> DEFINE bound == r.port \notin PortsInUse(r.node)
           taken == PortsInUse(r.node) \cup (IF bound THEN {r.port} ELSE {})
           port == EphemeralPort(r.node, taken)
<1>1. r.node \in Nodes
  BY DEF NetTypes, Relay
<1>2. IsFiniteSet(taken)
  <2>1. IsFiniteSet(PortsInUse(r.node))
    BY <1>1, PortsInUseFinite DEF NetTypes
  <2>2. IsFiniteSet({}) /\ IsFiniteSet({r.port})
    BY FS_EmptySet, FS_Singleton
  <2> QED BY <2>1, <2>2, FS_Union
<1>3. port \in Ephemeral /\ port >= ephemeral[r.node]
  BY <1>1, <1>2, FreePort
<1>4. /\ ~r.started
      /\ relays' = (relays \ {r}) \cup {LaunchedAs(r, bound, port)}
      /\ ephemeral' = [ephemeral EXCEPT ![r.node] = port + 1]
      /\ deaf' = IF bound THEN deaf ELSE deaf \cup {<<r.job, r.hop, r.port>>}
      /\ UNCHANGED <<now, active, sends, air, forwards, logTx, logRx, wire>>
  BY DEF StartApplication, SendPort, LaunchedAs
<1>5. UNCHANGED <<nextRelayPort, oracle, sessions>>
  BY DEF campaignVars, backgroundVars
<1> HIDE DEF port, taken
<1>6. Launched(r, bound, port)
  BY <1>3, <1>4, <1>5 DEF Launched
<1> QED BY <1>6

LEMMA LaunchedTyped ==
  ASSUME NetTypes, NEW r, NEW bound \in BOOLEAN, NEW port, Launched(r, bound, port)
  PROVE  LET q == LaunchedAs(r, bound, port)
         IN  /\ q \in Relay
             /\ q.job = r.job /\ q.hop = r.hop /\ q.node = r.node /\ q.port = r.port
             /\ q.next = r.next /\ q.stop = r.stop
             /\ q.started /\ (q.bound <=> bound) /\ q.sendPort = port
BY DEF NetTypes, Launched, LaunchedAs, Relay, Ephemeral

LEMMA LaunchedTypes ==
  ASSUME NetTypes, NEW r, NEW bound \in BOOLEAN, NEW port, Launched(r, bound, port)
  PROVE  NetTypes'
<1> DEFINE q == LaunchedAs(r, bound, port)
<1>1. q \in Relay /\ q.sendPort = port /\ port \in Ephemeral
  <2>1. q \in Relay /\ q.sendPort = port
    BY LaunchedTyped
  <2> QED BY <2>1 DEF Launched
<1>2. relays' = (relays \ {r}) \cup {q}
  BY DEF Launched
<1> HIDE DEF q
<1>3. relays \subseteq Relay /\ IsFiniteSet(relays) /\ r \in Relay
  BY DEF NetTypes, Launched
<1>4. IsFiniteSet(relays')
  BY <1>2, <1>3, FS_AddElement, FS_RemoveElement
<1>5. relays' \subseteq Relay /\ \A x \in relays' : x.started => x.sendPort \in Ephemeral
  BY <1>1, <1>2, <1>3 DEF NetTypes
<1>6. ephemeral' \in [Nodes -> Ephemeral]
  <2>1. port + 1 \in Ephemeral /\ r.node \in Nodes
    BY <1>1, <1>3, NumbersTyped DEF Ephemeral, Relay
  <2>2. ephemeral \in [Nodes -> Ephemeral] /\ ephemeral' = [ephemeral EXCEPT ![r.node] = port + 1]
    BY DEF NetTypes, Launched
  <2> QED BY <2>1, <2>2
<1> QED BY <1>4, <1>5, <1>6 DEF NetTypes, Launched

-----------------------------------------------------------------------------
(***************************************************************************)
(* Types.                                                                  *)
(***************************************************************************)
LEMMA DelaysTyped ==
  /\ RelayDelays \subseteq Nat
  /\ LinkDelays \subseteq Nat \ {0}
BY DelayAssumption

\* A packet that leaves under a key.
LEMMA LaunchedPacket ==
  ASSUME now \in Nat, NEW job \in Int, NEW n \in Nat, NEW passed \in Seq(Nodes),
         NEW flow \in FlowKey, NEW d \in LinkDelays
  PROVE  LET p == Packet(job, n, passed, flow, d)
         IN  /\ p \in Flying
             /\ p.job = job /\ p.n = n /\ p.passed = passed /\ p.flow = OnWire(flow)
             /\ p.at = now + d
             /\ <<job, n, OnWire(flow)>> \in Record
<1>1. OnWire(flow) \in FlowKey
  BY OnWireTyped
<1>2. now + d \in Nat
  BY DelaysTyped
<1> QED BY <1>1, <1>2 DEF Packet, Flying, Record

LEMMA SendPacketTypes ==
  ASSUME IInv, NetTypes, NEW s \in sends, SendPacket(s), UNCHANGED <<campaignVars, backgroundVars>>
  PROVE  NetTypes'
<1>1. /\ s.job \in Int /\ s.n \in Nat /\ s.flow \in FlowKey /\ <<s.flow.src[1]>> \in Seq(Nodes)
  BY DEF NetTypes, Sending, FlowKey
<1>2. <<s.job, s.n, s.flow>> \in Record
  BY <1>1 DEF Record
<1>3. wire' \subseteq Record /\ air' \subseteq Flying
  <2>1. now \in Nat
    BY DEF IInv
  <2>2. CASE UNCHANGED <<wire, air>>
    BY <2>2 DEF NetTypes
  <2>3. ASSUME NEW d \in LinkDelays,
               wire' = wire \cup {<<s.job, s.n, OnWire(s.flow)>>},
               air' = air \cup {Packet(s.job, s.n, <<s.flow.src[1]>>, s.flow, d)}
        PROVE  wire' \subseteq Record /\ air' \subseteq Flying
    <3>1. /\ Packet(s.job, s.n, <<s.flow.src[1]>>, s.flow, d) \in Flying
          /\ <<s.job, s.n, OnWire(s.flow)>> \in Record
      <4>1. PICK job \in Int, n \in Nat, passed \in Seq(Nodes), flow \in FlowKey :
              job = s.job /\ n = s.n /\ passed = <<s.flow.src[1]>> /\ flow = s.flow
        BY <1>1
      <4>2. /\ Packet(job, n, passed, flow, d) \in Flying
            /\ <<job, n, OnWire(flow)>> \in Record
        BY <2>1, LaunchedPacket
      <4> QED BY <4>1, <4>2
    <3> QED BY <2>3, <3>1 DEF NetTypes
  <2> QED BY <2>2, <2>3 DEF SendPacket
<1>4. /\ sends' \subseteq Sending /\ logTx' \subseteq Record
      /\ UNCHANGED <<ephemeral, active, relays, forwards, logRx, sessions, nextRelayPort>>
  BY <1>2 DEF NetTypes, SendPacket, campaignVars, backgroundVars
<1> QED BY <1>3, <1>4 DEF NetTypes

LEMMA HandleReadTypes ==
  ASSUME IInv, NetTypes, NEW p \in air, HandleRead(p), UNCHANGED <<campaignVars, backgroundVars>>
  PROVE  NetTypes'
<1>1. PICK r \in Listener(p.flow), d \in RelayDelays :
        /\ logRx' = logRx \cup {<<p.job, p.n, p.flow>>}
        /\ forwards' = forwards \cup
             {[job |-> p.job, n |-> p.n, passed |-> Append(p.passed, r.node),
               by |-> [job |-> r.job, hop |-> r.hop], due |-> now + d]}
  BY DEF HandleRead
<1>2. p \in Flying /\ r \in Relay /\ now \in Nat /\ d \in Nat
  BY DelaysTyped DEF NetTypes, Listener, IInv
<1>3. <<p.job, p.n, p.flow>> \in Record
  BY <1>2 DEF Flying, Record
<1>4. [job |-> p.job, n |-> p.n, passed |-> Append(p.passed, r.node),
       by |-> [job |-> r.job, hop |-> r.hop], due |-> now + d] \in Forwarding
  BY <1>2 DEF Flying, Relay, Forwarding
<1>5. air' \subseteq air /\ UNCHANGED <<ephemeral, active, relays, sends, logTx, wire, sessions, nextRelayPort>>
  BY DEF HandleRead, campaignVars, backgroundVars
<1> QED BY <1>1, <1>3, <1>4, <1>5 DEF NetTypes

LEMMA ArrivalTypes ==
  ASSUME NetTypes, NEW p \in air, SinkRead(p) \/ Undeliverable(p),
         UNCHANGED <<campaignVars, backgroundVars>>
  PROVE  NetTypes'
<1>1. <<p.job, p.n, p.flow>> \in Record
  BY DEF NetTypes, Flying, Record
<1>2. /\ air' \subseteq air /\ logRx' \subseteq logRx \cup {<<p.job, p.n, p.flow>>}
      /\ UNCHANGED <<ephemeral, active, relays, sends, forwards, logTx, wire, sessions, nextRelayPort>>
  BY DEF SinkRead, Undeliverable, campaignVars, backgroundVars
<1> QED BY <1>1, <1>2 DEF NetTypes

LEMMA ForwardTypes ==
  ASSUME IInv, NetTypes, NEW f \in forwards, Forward(f), UNCHANGED <<campaignVars, backgroundVars>>
  PROVE  NetTypes'
<1>1. f.job \in Int /\ f.n \in Nat /\ f.passed \in Seq(Nodes) /\ now \in Nat
  BY DEF NetTypes, Forwarding, IInv
<1>2. ASSUME NEW r \in relays, NEW d \in LinkDelays,
             LET flow == SentAs(r.node, r.sendPort, r.next)
             IN  /\ logTx' = logTx \cup {<<f.job, f.n, flow>>}
                 /\ wire' = wire \cup {<<f.job, f.n, OnWire(flow)>>}
                 /\ air' = air \cup {Packet(f.job, f.n, f.passed, flow, d)}
      PROVE  logTx' \subseteq Record /\ wire' \subseteq Record /\ air' \subseteq Flying
  <2> DEFINE flow == SentAs(r.node, r.sendPort, r.next)
  <2>1. r.node \in Nodes /\ r.sendPort \in Nat /\ r.next \in Nodes \X Nat
    BY DEF NetTypes, Relay
  <2>2. flow \in FlowKey
    BY <2>1, SentAsTyped
  <2> HIDE DEF flow
  <2>3. /\ Packet(f.job, f.n, f.passed, flow, d) \in Flying
        /\ <<f.job, f.n, OnWire(flow)>> \in Record /\ <<f.job, f.n, flow>> \in Record
    BY <1>1, <2>2, LaunchedPacket DEF Record
  <2> QED BY <1>2, <2>3 DEF NetTypes, flow
<1>3. logTx' \subseteq Record /\ wire' \subseteq Record /\ air' \subseteq Flying
  BY <1>2 DEF Forward, NetTypes
<1>4. forwards' \subseteq forwards
      /\ UNCHANGED <<ephemeral, active, relays, sends, logRx, sessions, nextRelayPort>>
  BY DEF Forward, campaignVars, backgroundVars
<1> QED BY <1>3, <1>4 DEF NetTypes

LEMMA NetNextTypes ==
  ASSUME IInv, NetTypes, NetNext, UNCHANGED <<campaignVars, backgroundVars>>
  PROVE  NetTypes'
<1>1. ASSUME NEW s \in active, CloseSocket(s) PROVE NetTypes'
  <2>1. active' \subseteq active /\ UNCHANGED <<ephemeral, relays, sends, air, forwards, logTx,
                                               logRx, wire, sessions, nextRelayPort>>
    BY <1>1 DEF CloseSocket, campaignVars, backgroundVars
  <2>2. IsFiniteSet(active')
    BY <2>1, FS_Subset DEF NetTypes
  <2> QED BY <2>1, <2>2 DEF NetTypes
<1>2. ASSUME NEW r \in relays, StopApplication(r) PROVE NetTypes'
  <2>1. relays' \subseteq relays /\ UNCHANGED <<ephemeral, active, sends, air, forwards, logTx,
                                               logRx, wire, sessions, nextRelayPort>>
    BY <1>2 DEF StopApplication, campaignVars, backgroundVars
  <2>2. IsFiniteSet(relays')
    BY <2>1, FS_Subset DEF NetTypes
  <2> QED BY <2>1, <2>2 DEF NetTypes
<1>3. ASSUME NEW r \in relays, StartApplication(r) PROVE NetTypes'
  BY <1>3, StartApplicationLaunches, LaunchedTypes
<1>4. ASSUME NEW s \in sends, SendPacket(s) PROVE NetTypes'
  BY <1>4, SendPacketTypes
<1>5. ASSUME NEW p \in air, HandleRead(p) PROVE NetTypes'
  BY <1>5, HandleReadTypes
<1>6. ASSUME NEW p \in air, SinkRead(p) \/ Undeliverable(p) PROVE NetTypes'
  BY <1>6, ArrivalTypes
<1>7. ASSUME NEW f \in forwards, Forward(f) PROVE NetTypes'
  BY <1>7, ForwardTypes
<1> QED BY <1>1, <1>2, <1>3, <1>4, <1>5, <1>6, <1>7 DEF NetNext

LEMMA InitTypes == Init => NetTypes
<1> SUFFICES ASSUME Init PROVE NetTypes
  OBVIOUS
<1>1. FirstRelayPort \in FirstRelayPort..LastRelayPort /\ FirstEphemeral \in Ephemeral
  BY NumbersTyped DEF Ephemeral
<1> QED BY <1>1, FS_EmptySet DEF Init, NetInit, CampaignInit, BackgroundInit, NetTypes

LEMMA NextTypes == IInv /\ NetTypes /\ [Next]_vars => NetTypes'
<1> SUFFICES ASSUME IInv, NetTypes, [Next]_vars PROVE NetTypes'
  OBVIOUS
<1>1. CASE CampaignNext /\ UNCHANGED backgroundVars
  <2>1. ASSUME NEW a \in Actors, FireBurst(a) PROVE NetTypes'
    BY <1>1, <2>1, FireBurstFires, FiredTypes
  <2>2. ASSUME NEW a \in Actors, FireTooLate(a) PROVE NetTypes'
    BY <1>1, <2>2 DEF FireTooLate, netVars, backgroundVars, NetTypes
  <2> QED BY <1>1, <2>1, <2>2 DEF CampaignNext
<1>2. CASE BackgroundNext /\ UNCHANGED campaignVars
  <2>1. CASE FireSession
    BY <1>2, <2>1, FireSessionOpens, OpenedTypes
  <2>2. CASE SessionTooLate
    BY <1>2, <2>2 DEF SessionTooLate, netVars, campaignVars, NetTypes
  <2> QED BY <1>2, <2>1, <2>2 DEF BackgroundNext
<1>3. CASE NetNext /\ UNCHANGED <<campaignVars, backgroundVars>>
  BY <1>3, NetNextTypes
<1>4. CASE Tick
  BY <1>4 DEF Tick, campaignVars, backgroundVars, NetTypes
<1>5. CASE UNCHANGED vars
  BY <1>5 DEF vars, netVars, campaignVars, backgroundVars, NetTypes
<1> QED BY <1>1, <1>2, <1>3, <1>4, <1>5 DEF Next

LEMMA TypesAlways == Spec => [](IInv /\ NetTypes)
<1>1. IInv /\ NetTypes /\ [Next]_vars => NetTypes'
  BY NextTypes
<1> QED BY <1>1, IInvAlways, InitTypes, PTL DEF Spec

-----------------------------------------------------------------------------
(***************************************************************************)
(* The steps, as the invariants tell them apart.                           *)
(***************************************************************************)
\* Nothing is fired, opened or allocated.
Quietly == UNCHANGED <<nextRelayPort, oracle, sessions>>

\* A step fires a burst, opens a session, starts or stops a relay, moves a
\* packet on, lets time pass, or does nothing to the traffic.
LEMMA NextCases ==
  ASSUME IInv, NetTypes, [Next]_vars
  PROVE  \/ \E actor, chain, schedule, port : Fired(actor, chain, schedule, port)
         \/ \E src, dst, count, port : Opened(src, dst, count, port)
         \/ \E r \in relays, bound \in BOOLEAN : \E port : Launched(r, bound, port)
         \/ (\E r \in relays : StopApplication(r)) /\ Quietly
         \/ (\E s \in active : CloseSocket(s)) /\ Quietly
         \/ (\E s \in sends : SendPacket(s)) /\ Quietly
         \/ (\E p \in air : HandleRead(p) \/ SinkRead(p) \/ Undeliverable(p)) /\ Quietly
         \/ (\E f \in forwards : Forward(f)) /\ Quietly
         \/ Tick
         \/ UNCHANGED netVars /\ Quietly
<1>1. CASE CampaignNext /\ UNCHANGED backgroundVars
  <2>1. ASSUME NEW a \in Actors, FireBurst(a)
        PROVE  \E actor, chain, schedule, port : Fired(actor, chain, schedule, port)
    BY <1>1, <2>1, FireBurstFires
  <2>2. ASSUME NEW a \in Actors, FireTooLate(a) PROVE UNCHANGED netVars /\ Quietly
    BY <1>1, <2>2 DEF FireTooLate, backgroundVars, Quietly
  <2> QED BY <1>1, <2>1, <2>2 DEF CampaignNext
<1>2. CASE BackgroundNext /\ UNCHANGED campaignVars
  <2>1. ASSUME FireSession
        PROVE  \E src, dst, count, port : Opened(src, dst, count, port)
    BY <1>2, <2>1, FireSessionOpens
  <2>2. ASSUME SessionTooLate PROVE UNCHANGED netVars /\ Quietly
    BY <1>2, <2>2 DEF SessionTooLate, campaignVars, Quietly
  <2> QED BY <1>2, <2>1, <2>2 DEF BackgroundNext
<1>3. CASE NetNext /\ UNCHANGED <<campaignVars, backgroundVars>>
  <2>1. Quietly
    BY <1>3 DEF Quietly, campaignVars, backgroundVars
  <2>2. ASSUME NEW r \in relays, StartApplication(r)
        PROVE  \E bound \in BOOLEAN : \E port : Launched(r, bound, port)
    BY <1>3, <2>2, StartApplicationLaunches
  <2> QED BY <1>3, <2>1, <2>2 DEF NetNext
<1>4. CASE Tick
  BY <1>4
<1>5. CASE UNCHANGED vars
  BY <1>5 DEF vars, campaignVars, backgroundVars, Quietly
<1> QED BY <1>1, <1>2, <1>3, <1>4, <1>5 DEF Next

\* What Tick leaves alone, and that nothing was due.
LEMMA TickWaits ==
  ASSUME Tick
  PROVE  /\ now' = now + 1
         /\ UNCHANGED <<ephemeral, active, relays, sends, air, forwards, logTx, logRx, wire, deaf>>
         /\ Quietly
         /\ NetQuiet
BY DEF Tick, Quietly, campaignVars, backgroundVars

LEMMA FiredOracle ==
  ASSUME IInv, NEW actor, NEW chain, NEW schedule, NEW port, Fired(actor, chain, schedule, port)
  PROVE  LET id == Len(oracle) + 1
         IN  /\ id \in Nat \ {0} /\ id \notin DOMAIN oracle /\ Len(oracle') = id
             /\ DOMAIN oracle = 1..Len(oracle) /\ DOMAIN oracle' = DOMAIN oracle \cup {id}
             /\ \A i \in DOMAIN oracle : oracle'[i] = oracle[i]
             /\ oracle'[id] = [actor |-> actor, start |-> now, chain |-> chain,
                               schedule |-> schedule]
BY DEF IInv, Fired

LEMMA BurstTyped ==
  ASSUME IInv, NEW i \in DOMAIN oracle
  PROVE  /\ i \in Nat \ {0} /\ i <= Len(oracle)
         /\ oracle[i].start \in Nat /\ CloseAt(oracle[i].start) \in Nat
         /\ oracle[i].schedule \in SendSchedules
         /\ oracle[i].schedule \in Seq(Nat) /\ Len(oracle[i].schedule) >= 1
         /\ oracle[i].chain \in Seq(Nodes)
         /\ Len(oracle[i].chain) \in 2..(ChainLenCap + 2)
         /\ Simple(oracle[i].chain)
         /\ oracle[i].chain[Len(oracle[i].chain)] = Victim
<1>1. oracle \in Seq(Burst) /\ Len(oracle[i].chain) >= 2 /\ Traceable(oracle[i])
  BY DEF IInv
<1>2. oracle[i] \in Burst /\ i \in Nat \ {0} /\ i <= Len(oracle)
  BY <1>1
<1>3. /\ oracle[i].start \in Nat /\ oracle[i].chain \in Seq(Nodes)
      /\ oracle[i].schedule \in SendSchedules
  BY <1>2 DEF Burst
<1>4. CloseAt(oracle[i].start) \in Nat
  BY <1>3, NumbersTyped DEF CloseAt
<1>5. Len(oracle[i].chain) \in 2..(ChainLenCap + 2)
  BY <1>1, <1>3, NumbersTyped DEF Traceable
<1>6. Simple(oracle[i].chain) /\ oracle[i].chain[Len(oracle[i].chain)] = Victim
  BY <1>1, <1>3 DEF Traceable, Last
<1> QED BY <1>2, <1>3, <1>4, <1>5, <1>6, ScheduleShape

-----------------------------------------------------------------------------
(***************************************************************************)
(* Sockets and sends.  A socket is open until it is due to close, and one  *)
(* of every burst until then; a send still queued is due within the life   *)
(* of its socket, which for a burst only an ample schedule ensures.        *)
(***************************************************************************)
JobsKnown ==
  /\ \A x \in sends \cup air \cup forwards : IsBurst(x.job) => x.job \in DOMAIN oracle
  /\ \A x \in logTx : IsBurst(x[1]) => x[1] \in DOMAIN oracle

SocketsOpen ==
  /\ \A a \in active :
       /\ now <= a.close
       /\ IsBurst(a.job) => /\ a.job \in DOMAIN oracle
                            /\ a.close = CloseAt(oracle[a.job].start)
  /\ \A i \in DOMAIN oracle :
       now < CloseAt(oracle[i].start) => \E a \in active : a.job = i

SendAhead(s) ==
  /\ now <= s.due
  /\ s.flow.src = NodeAddress(s.flow.src[1])
  /\ s.flow.dst = NodeAddress(s.flow.dst[1])
  /\ IF IsBurst(s.job)
     THEN /\ s.job \in DOMAIN oracle
          /\ s.n \in DOMAIN oracle[s.job].schedule
          /\ s.due = oracle[s.job].start + oracle[s.job].schedule[s.n]
     ELSE /\ s.flow.dport = BackgroundPort
          /\ \E a \in active : a.job = s.job /\ s.due < a.close

\* What its sender logs of a packet handed to the network.
LoggedAs(x) == <<x[1], x[2], [x[3] EXCEPT !.src = NodeAddress(x[3].src[1])]>>

SendsLogged ==
  /\ \A x \in wire : LoggedAs(x) \in logTx
  /\ \A x \in logTx :
       \/ \E y \in wire : x = LoggedAs(y)
       \/ IsBurst(x[1]) /\ ~Ample(oracle[x[1]].schedule)

SendsInv == JobsKnown /\ SocketsOpen /\ (\A s \in sends : SendAhead(s)) /\ SendsLogged

LEMMA FiredSends ==
  ASSUME IInv, NetTypes, SendsInv, NEW actor, NEW chain, NEW schedule, NEW port,
         Fired(actor, chain, schedule, port)
  PROVE  SendsInv'
<1> DEFINE id == Len(oracle) + 1
           flow == SentAs(chain[1], port, NextHop(chain, 1))
           socket == [job |-> id, node |-> chain[1], port |-> port, close |-> CloseAt(now)]
           send(n) == [job |-> id, n |-> n, due |-> now + schedule[n], flow |-> flow]
<1>1. /\ id \in Nat \ {0} /\ id \notin DOMAIN oracle
      /\ DOMAIN oracle' = DOMAIN oracle \cup {id}
      /\ \A i \in DOMAIN oracle : oracle'[i] = oracle[i]
      /\ oracle'[id].start = now /\ oracle'[id].schedule = schedule
  <2>1. oracle'[id] = [actor |-> actor, start |-> now, chain |-> chain, schedule |-> schedule]
    BY FiredOracle
  <2>2. /\ id \in Nat \ {0} /\ id \notin DOMAIN oracle
        /\ DOMAIN oracle' = DOMAIN oracle \cup {id}
        /\ \A i \in DOMAIN oracle : oracle'[i] = oracle[i]
    BY FiredOracle
  <2> HIDE DEF id
  <2> QED BY <2>1, <2>2
<1>2. /\ UNCHANGED <<now, air, forwards, logTx, wire>>
      /\ active' = active \cup {socket}
      /\ sends' = sends \cup {send(n) : n \in DOMAIN schedule}
  BY DEF Fired
<1>3. now \in Nat /\ CloseAt(now) \in Nat /\ now <= CloseAt(now)
  BY NumbersTyped DEF IInv, CloseAt
<1>4. flow.src = NodeAddress(flow.src[1]) /\ flow.dst = NodeAddress(flow.dst[1])
  <2>1. chain[1] \in Nodes /\ port \in Nat /\ 1 \in 1..(Len(chain) - 1)
    BY NumbersTyped DEF Fired, Ephemeral
  <2>2. NextHop(chain, 1) \in Nodes \X Nat
    BY <2>1, HopsTyped
  <2> QED BY <2>1, <2>2, SentAsTyped
<1>5. socket.job = id /\ socket.close = CloseAt(now)
  OBVIOUS
<1>6. \A n \in DOMAIN schedule :
        /\ send(n).job = id /\ send(n).n = n /\ send(n).due = now + schedule[n]
        /\ send(n).flow = flow /\ schedule[n] \in Nat
  BY ScheduleShape DEF Fired
<1> HIDE DEF id, flow, socket, send
<1>7. JobsKnown'
  BY <1>1, <1>2, <1>6 DEF SendsInv, JobsKnown
<1>8. SocketsOpen'
  <2>1. \A a \in active' : now' <= a.close
    BY <1>2, <1>3, <1>5 DEF SendsInv, SocketsOpen
  <2>2. \A a \in active' : IsBurst(a.job) => /\ a.job \in DOMAIN oracle'
                                            /\ a.close = CloseAt(oracle'[a.job].start)
    BY <1>1, <1>2, <1>5 DEF SendsInv, SocketsOpen
  <2>3. \A i \in DOMAIN oracle' : now' < CloseAt(oracle'[i].start) => \E a \in active' : a.job = i
    BY <1>1, <1>2, <1>5 DEF SendsInv, SocketsOpen
  <2> QED BY <2>1, <2>2, <2>3 DEF SocketsOpen
<1>9. ASSUME NEW s \in sends' PROVE SendAhead(s)'
  <2>1. CASE s \in sends
    <3>1. SendAhead(s)
      BY <2>1 DEF SendsInv
    <3> QED BY <1>1, <1>2, <3>1 DEF SendAhead
  <2>2. CASE s \notin sends
    <3>1. PICK n \in DOMAIN schedule : s = send(n)
      BY <1>2, <2>2
    <3>2. s.job = id /\ s.n = n /\ s.due = now + schedule[n] /\ s.flow = flow /\ schedule[n] \in Nat
      BY <1>6, <3>1
    <3>3. IsBurst(id)
      BY <1>1 DEF IsBurst
    <3>4. now' = now /\ now <= s.due
      BY <1>2, <1>3, <3>2
    <3> QED BY <1>1, <1>4, <3>2, <3>3, <3>4 DEF SendAhead
  <2> QED BY <2>1, <2>2
<1>10. SendsLogged'
  BY <1>1, <1>2 DEF SendsInv, SendsLogged, JobsKnown
<1> QED BY <1>7, <1>8, <1>9, <1>10 DEF SendsInv

LEMMA OpenedSends ==
  ASSUME IInv, NetTypes, SendsInv, NEW src, NEW dst, NEW count, NEW port,
         Opened(src, dst, count, port)
  PROVE  SendsInv'
<1> DEFINE id == -(sessions + 1)
           flow == SentAs(src, port, <<dst, BackgroundPort>>)
           socket == [job |-> id, node |-> src, port |-> port, close |-> now + count + SessionSlack]
           send(n) == [job |-> id, n |-> n, due |-> now + n - 1, flow |-> flow]
<1>1. id \in Int /\ ~IsBurst(id)
  BY DEF NetTypes, IsBurst
<1>2. /\ UNCHANGED <<now, oracle, air, forwards, logTx, wire>>
      /\ active' = active \cup {socket}
      /\ sends' = sends \cup {send(n) : n \in 1..count}
  BY DEF Opened, campaignVars
<1>3. now \in Nat /\ count \in Nat \ {0} /\ now <= now + count + SessionSlack
  BY NumbersTyped DEF IInv, Opened
<1>4. /\ flow.src = NodeAddress(flow.src[1]) /\ flow.dst = NodeAddress(flow.dst[1])
      /\ flow.dport = BackgroundPort
  <2>1. src \in Nodes /\ port \in Nat /\ <<dst, BackgroundPort>> \in Nodes \X Nat
    BY NumbersTyped DEF Opened, Ephemeral
  <2> QED BY <2>1, SentAsTyped
<1>5. socket.job = id /\ socket.close = now + count + SessionSlack
  OBVIOUS
<1>6. \A n \in 1..count :
        /\ send(n).job = id /\ send(n).due = now + n - 1 /\ send(n).flow = flow
        /\ now <= send(n).due /\ send(n).due < now + count + SessionSlack
  BY <1>3, NumbersTyped
<1> HIDE DEF id, flow, socket, send
<1>7. JobsKnown'
  BY <1>1, <1>2, <1>6 DEF SendsInv, JobsKnown
<1>8. SocketsOpen'
  BY <1>1, <1>2, <1>3, <1>5 DEF SendsInv, SocketsOpen
<1>9. ASSUME NEW s \in sends' PROVE SendAhead(s)'
  <2>1. CASE s \in sends
    <3>1. SendAhead(s)
      BY <2>1 DEF SendsInv
    <3> QED BY <1>2, <3>1 DEF SendAhead
  <2>2. CASE s \notin sends
    <3>1. PICK n \in 1..count : s = send(n)
      BY <1>2, <2>2
    <3> QED BY <1>1, <1>2, <1>4, <1>5, <1>6, <3>1 DEF SendAhead
  <2> QED BY <2>1, <2>2
<1>10. SendsLogged'
  BY <1>2 DEF SendsInv, SendsLogged
<1> QED BY <1>7, <1>8, <1>9, <1>10 DEF SendsInv

LEMMA LoggedAsSent ==
  ASSUME NEW job, NEW n, NEW flow \in FlowKey, flow.src = NodeAddress(flow.src[1])
  PROVE  LoggedAs(<<job, n, OnWire(flow)>>) = <<job, n, flow>>
<1>1. [OnWire(flow) EXCEPT !.src = NodeAddress(OnWire(flow).src[1])] = flow
  BY OnWireTyped
<1> QED BY <1>1 DEF LoggedAs

LEMMA AmpleBeforeClose ==
  ASSUME NEW schedule \in SendSchedules, NEW n \in DOMAIN schedule, Ample(schedule)
  PROVE  schedule[n] < BurstS + StopSlack
<1>1. Max(RelayDelays) \in Nat /\ Max(LinkDelays) \in Nat
  BY MaxIsGreatest, DelayAssumption
<1>2. /\ ChainLenCap * Max(RelayDelays) \in Nat
      /\ (ChainLenCap + 1) * Max(LinkDelays) \in Nat
  BY <1>1, NumbersTyped
<1>3. schedule[n] \in Nat /\ schedule[n] <= Last(schedule)
  BY ScheduleShape
<1>4. Last(schedule) \in Nat
  BY ScheduleShape DEF Last
<1> DEFINE x == ChainLenCap * Max(RelayDelays)
           y == (ChainLenCap + 1) * Max(LinkDelays)
<1>5. Last(schedule) + x + y < BurstS + StopSlack /\ x \in Nat /\ y \in Nat
  BY <1>2 DEF Ample
<1> HIDE DEF x, y
<1> QED BY <1>3, <1>4, <1>5, NumbersTyped

\* Steps that neither open nor close a socket, nor send.
LEMMA SendsKept ==
  ASSUME SendsInv, UNCHANGED <<now, oracle, active, sends, logTx, wire>>,
         \A x \in air' \cup forwards' : \E y \in air \cup forwards : x.job = y.job
  PROVE  SendsInv'
<1>1. JobsKnown'
  BY DEF SendsInv, JobsKnown
<1>2. SocketsOpen' /\ SendsLogged'
  BY DEF SendsInv, SocketsOpen, SendsLogged
<1>3. \A s \in sends' : SendAhead(s)'
  BY DEF SendsInv, SendAhead
<1> QED BY <1>1, <1>2, <1>3 DEF SendsInv

LEMMA TickSends ==
  ASSUME IInv, NetTypes, SendsInv, Tick
  PROVE  SendsInv'
<1>1. /\ now' = now + 1
      /\ UNCHANGED <<oracle, active, sends, air, forwards, logTx, wire>>
      /\ \A s \in sends : s.due # now
      /\ \A a \in active : a.close # now
  BY TickWaits DEF Quietly, NetQuiet
<1>2. now \in Nat /\ (\A s \in sends : s.due \in Nat) /\ (\A a \in active : a.close \in Nat)
  BY DEF IInv, NetTypes, Sending, Socket
<1>3. JobsKnown' /\ SendsLogged'
  BY <1>1 DEF SendsInv, JobsKnown, SendsLogged
<1>4. SocketsOpen'
  <2>1. \A a \in active' : now' <= a.close
    BY <1>1, <1>2 DEF SendsInv, SocketsOpen
  <2>2. \A i \in DOMAIN oracle : CloseAt(oracle[i].start) \in Nat
    BY BurstTyped
  <2>3. \A i \in DOMAIN oracle : now' < CloseAt(oracle[i].start) => now < CloseAt(oracle[i].start)
    BY <1>1, <1>2, <2>2
  <2> QED BY <1>1, <2>1, <2>3 DEF SendsInv, SocketsOpen
<1>5. ASSUME NEW s \in sends' PROVE SendAhead(s)'
  <2>1. s \in sends /\ SendAhead(s)
    BY <1>1 DEF SendsInv
  <2>2. now' <= s.due
    BY <1>1, <1>2, <2>1 DEF SendAhead
  <2> QED BY <1>1, <2>1, <2>2 DEF SendAhead
<1> QED BY <1>3, <1>4, <1>5 DEF SendsInv

LEMMA CloseSocketSends ==
  ASSUME IInv, NetTypes, SendsInv, NEW c \in active, CloseSocket(c), Quietly
  PROVE  SendsInv'
<1>1. /\ active' = active \ {c} /\ c.close = now
      /\ UNCHANGED <<now, oracle, sends, air, forwards, logTx, wire>>
  BY DEF CloseSocket, Due, Quietly
<1>2. now \in Nat /\ (\A s \in sends : s.due \in Nat) /\ (\A a \in active : a.close \in Nat)
      /\ \A i \in DOMAIN oracle : CloseAt(oracle[i].start) \in Nat /\ IsBurst(i)
  BY BurstTyped DEF IInv, NetTypes, Sending, Socket, IsBurst
<1>3. JobsKnown' /\ SendsLogged'
  BY <1>1 DEF SendsInv, JobsKnown, SendsLogged
<1>4. SocketsOpen'
  <2>1. ASSUME NEW i \in DOMAIN oracle, now < CloseAt(oracle[i].start)
        PROVE  \E a \in active' : a.job = i
    <3>1. PICK a \in active : a.job = i
      BY <2>1 DEF SendsInv, SocketsOpen
    <3>2. a.close = CloseAt(oracle[i].start)
      BY <1>2, <3>1 DEF SendsInv, SocketsOpen
    <3>3. a # c
      BY <1>1, <1>2, <2>1, <3>2
    <3> QED BY <1>1, <3>1, <3>3
  <2> QED BY <1>1, <2>1 DEF SendsInv, SocketsOpen
<1>5. ASSUME NEW s \in sends' PROVE SendAhead(s)'
  <2>1. s \in sends /\ SendAhead(s)
    BY <1>1 DEF SendsInv
  <2>2. ASSUME NEW a \in active, s.due < a.close PROVE a \in active'
    <3>1. now <= s.due
      BY <2>1 DEF SendAhead
    <3> QED BY <1>1, <1>2, <2>1, <2>2, <3>1
  <2> QED BY <1>1, <2>1, <2>2 DEF SendAhead
<1> QED BY <1>3, <1>4, <1>5 DEF SendsInv

\* A packet whose socket is closed by then is of a burst with too little time.
LEMMA SentOnOpenSocket ==
  ASSUME IInv, NetTypes, SendsInv, NEW s \in sends, s.due = now,
         IsBurst(s.job) => Ample(oracle[s.job].schedule)
  PROVE  \E a \in active : a.job = s.job
<1>1. SendAhead(s)
  BY DEF SendsInv
<1>2. CASE IsBurst(s.job)
  <2> DEFINE burst == oracle[s.job]
  <2>1. /\ s.job \in DOMAIN oracle /\ s.n \in DOMAIN burst.schedule
        /\ now = burst.start + burst.schedule[s.n]
    BY <1>1, <1>2 DEF SendAhead
  <2>2. burst.start \in Nat /\ burst.schedule \in SendSchedules /\ burst.schedule[s.n] \in Nat
    BY <2>1, BurstTyped, ScheduleShape
  <2>3. burst.schedule[s.n] < BurstS + StopSlack
    BY <1>2, <2>1, <2>2, AmpleBeforeClose
  <2>4. now < CloseAt(burst.start)
    BY <2>1, <2>2, <2>3, NumbersTyped DEF CloseAt
  <2> QED BY <2>1, <2>4 DEF SendsInv, SocketsOpen
<1>3. CASE ~IsBurst(s.job)
  BY <1>1, <1>3 DEF SendAhead
<1> QED BY <1>2, <1>3

LEMMA SendPacketSends ==
  ASSUME IInv, NetTypes, SendsInv, NEW s \in sends, SendPacket(s), Quietly
  PROVE  SendsInv'
<1>1. /\ sends' = sends \ {s} /\ s.due = now
      /\ logTx' = logTx \cup {<<s.job, s.n, s.flow>>}
      /\ UNCHANGED <<now, oracle, active, forwards>>
  BY DEF SendPacket, Due, Quietly
<1>2. SendAhead(s) /\ s.flow \in FlowKey /\ s.job \in Int /\ s.n \in Nat
  BY DEF SendsInv, NetTypes, Sending
<1>3. SocketsOpen' /\ \A x \in sends' : SendAhead(x)'
  BY <1>1 DEF SendsInv, SocketsOpen, SendAhead
<1>4. s.job \in DOMAIN oracle \/ ~IsBurst(s.job)
  BY DEF SendsInv, JobsKnown
<1>5. CASE (\E a \in active : a.job = s.job)
  <2>1. PICK d \in LinkDelays :
          /\ wire' = wire \cup {<<s.job, s.n, OnWire(s.flow)>>}
          /\ air' = air \cup {Packet(s.job, s.n, <<s.flow.src[1]>>, s.flow, d)}
    BY <1>5 DEF SendPacket
  <2>2. Packet(s.job, s.n, <<s.flow.src[1]>>, s.flow, d).job = s.job
    BY DEF Packet
  <2>3. JobsKnown'
    BY <1>1, <1>4, <2>1, <2>2 DEF SendsInv, JobsKnown
  <2>4. LoggedAs(<<s.job, s.n, OnWire(s.flow)>>) = <<s.job, s.n, s.flow>>
    BY <1>2, LoggedAsSent DEF SendAhead
  <2>5. SendsLogged'
    BY <1>1, <2>1, <2>4 DEF SendsInv, SendsLogged
  <2> QED BY <1>3, <2>3, <2>5 DEF SendsInv
<1>6. CASE ~(\E a \in active : a.job = s.job)
  <2>1. UNCHANGED <<wire, air>>
    BY <1>6 DEF SendPacket
  <2>2. JobsKnown'
    BY <1>1, <1>4, <2>1 DEF SendsInv, JobsKnown
  <2>3. IsBurst(s.job) /\ ~Ample(oracle[s.job].schedule)
    BY <1>1, <1>6, SentOnOpenSocket
  <2>4. SendsLogged'
    BY <1>1, <2>1, <2>3 DEF SendsInv, SendsLogged
  <2> QED BY <1>3, <2>2, <2>4 DEF SendsInv
<1> QED BY <1>5, <1>6

LEMMA ForwardSends ==
  ASSUME IInv, NetTypes, SendsInv, NEW f \in forwards, Forward(f), Quietly
  PROVE  SendsInv'
<1>1. forwards' = forwards \ {f} /\ UNCHANGED <<now, oracle, active, sends>>
  BY DEF Forward, Quietly
<1>2. SocketsOpen' /\ \A x \in sends' : SendAhead(x)'
  BY <1>1 DEF SendsInv, SocketsOpen, SendAhead
<1>3. f.job \in DOMAIN oracle \/ ~IsBurst(f.job)
  BY DEF SendsInv, JobsKnown
<1>4. CASE UNCHANGED <<logTx, wire, air>>
  BY <1>1, <1>2, <1>4 DEF SendsInv, JobsKnown, SendsLogged
<1>5. ASSUME NEW r \in relays, NEW d \in LinkDelays,
             LET flow == SentAs(r.node, r.sendPort, r.next)
             IN  /\ logTx' = logTx \cup {<<f.job, f.n, flow>>}
                 /\ wire' = wire \cup {<<f.job, f.n, OnWire(flow)>>}
                 /\ air' = air \cup {Packet(f.job, f.n, f.passed, flow, d)}
      PROVE  SendsInv'
  <2> DEFINE flow == SentAs(r.node, r.sendPort, r.next)
  <2>1. r.node \in Nodes /\ r.sendPort \in Nat /\ r.next \in Nodes \X Nat
    BY DEF NetTypes, Relay
  <2>2. flow \in FlowKey /\ flow.src = NodeAddress(flow.src[1])
    BY <2>1, SentAsTyped
  <2>3. /\ logTx' = logTx \cup {<<f.job, f.n, flow>>}
        /\ wire' = wire \cup {<<f.job, f.n, OnWire(flow)>>}
        /\ air' = air \cup {Packet(f.job, f.n, f.passed, flow, d)}
    BY <1>5
  <2> HIDE DEF flow
  <2>4. Packet(f.job, f.n, f.passed, flow, d).job = f.job
    BY DEF Packet
  <2>5. JobsKnown'
    BY <1>1, <1>3, <2>3, <2>4 DEF SendsInv, JobsKnown
  <2>6. LoggedAs(<<f.job, f.n, OnWire(flow)>>) = <<f.job, f.n, flow>>
    BY <2>2, LoggedAsSent
  <2>7. SendsLogged'
    BY <1>1, <2>3, <2>6 DEF SendsInv, SendsLogged
  <2> QED BY <1>2, <2>5, <2>7 DEF SendsInv
<1> QED BY <1>4, <1>5 DEF Forward

LEMMA NextSends == IInv /\ NetTypes /\ SendsInv /\ [Next]_vars => SendsInv'
<1> SUFFICES ASSUME IInv, NetTypes, SendsInv, [Next]_vars PROVE SendsInv'
  OBVIOUS
<1>1. ASSUME NEW r \in relays, NEW bound, NEW port, Launched(r, bound, port) PROVE SendsInv'
  BY <1>1, SendsKept DEF Launched
<1>2. ASSUME NEW r \in relays, StopApplication(r), Quietly PROVE SendsInv'
  BY <1>2, SendsKept DEF StopApplication, Quietly
<1>3. ASSUME NEW p \in air, HandleRead(p), Quietly PROVE SendsInv'
  BY <1>3, SendsKept DEF HandleRead, Quietly
<1>4. ASSUME NEW p \in air, SinkRead(p) \/ Undeliverable(p), Quietly PROVE SendsInv'
  BY <1>4, SendsKept DEF SinkRead, Undeliverable, Quietly
<1>5. ASSUME UNCHANGED netVars, Quietly PROVE SendsInv'
  BY <1>5, SendsKept DEF netVars, Quietly
<1> QED BY <1>1, <1>2, <1>3, <1>4, <1>5, NextCases, FiredSends, OpenedSends, CloseSocketSends,
           SendPacketSends, ForwardSends, TickSends

LEMMA InitSends == Init => SendsInv
<1> SUFFICES ASSUME Init PROVE SendsInv
  OBVIOUS
<1>1. sends = {} /\ air = {} /\ forwards = {} /\ logTx = {} /\ wire = {} /\ active = {} /\ oracle = <<>>
  BY DEF Init, NetInit, CampaignInit
<1> QED BY <1>1 DEF SendsInv, JobsKnown, SocketsOpen, SendsLogged

LEMMA SendsAlways == Spec => [](IInv /\ NetTypes /\ SendsInv)
<1>1. IInv /\ NetTypes /\ SendsInv /\ [Next]_vars => SendsInv'
  BY NextSends
<1> QED BY <1>1, TypesAlways, InitSends, PTL DEF Spec

\* Whatever the schedules, every packet handed to the network is one its
\* sender logged, and a send is logged without one only in a burst whose
\* schedule outlasts its socket.
THEOREM SendsAccounted == Spec => []SendsLoggedAreSent
<1>1. SendsInv => SendsLoggedAreSent
  BY DEF SendsInv, SendsLogged, SendsLoggedAreSent, LoggedAs
<1> QED BY <1>1, SendsAlways, PTL

-----------------------------------------------------------------------------
(***************************************************************************)
(* Chains in the traffic.  Until the port cursor has gone through its      *)
(* range no port is given to two relays, and then the port a packet is     *)
(* addressed to names the burst and the place in its chain.                *)
(***************************************************************************)
\* The bursts fired so far cannot have taken all the ports of the range.
FreshPorts == Len(oracle) * ChainLenCap <= LastRelayPort - FirstRelayPort

\* The endpoint where the i-th node of a burst's chain listens: the service of
\* the victim, or a port that one relay was given and no other.
LeadsTo(to, job, i) ==
  LET chain == oracle[job].chain
  IN  /\ i \in 2..Len(chain)
      /\ to[1] = chain[i]
      /\ IF i = Len(chain) THEN to[2] = VictimPort
         ELSE /\ to[2] \in FirstRelayPort..(nextRelayPort - 1)
              /\ \A r \in relays : r.port = to[2] <=> (r.job = job /\ r.hop = i)

RelayPlaced(r) ==
  LET burst == oracle[r.job]
  IN  /\ r.job \in DOMAIN oracle
      /\ r.hop \in 2..(Len(burst.chain) - 1)
      /\ LeadsTo(<<r.node, r.port>>, r.job, r.hop)
      /\ LeadsTo(r.next, r.job, r.hop + 1)
      /\ r.stop = CloseAt(burst.start) /\ now <= r.stop
      /\ ~r.started => ~r.bound /\ burst.start = now
      /\ r.started /\ ~r.bound => <<r.job, r.hop, r.port>> \in deaf

\* Until it stops, there is one relay for each place in a chain.
RelaysPlaced ==
  /\ nextRelayPort <= FirstRelayPort + Len(oracle) * ChainLenCap
  /\ \A r \in relays : RelayPlaced(r)
  /\ \A r, q \in relays : r.job = q.job /\ r.hop = q.hop => r = q
  /\ \A i \in DOMAIN oracle :
       now < CloseAt(oracle[i].start) =>
         \A h \in 2..(Len(oracle[i].chain) - 1) : \E r \in relays : r.job = i /\ r.hop = h
  /\ \A d \in deaf : d[3] >= FirstEphemeral

\* The first h nodes of a burst's chain.
Passed(passed, job, h) ==
  /\ Len(passed) = h
  /\ h \in 1..Len(oracle[job].chain)
  /\ \A k \in 1..h : passed[k] = oracle[job].chain[k]

\* The latest a packet can be after so many relays and so many links.
Deadline(job, n, h, k) ==
  oracle[job].start + oracle[job].schedule[n] + h * Max(RelayDelays) + k * Max(LinkDelays)

SendPlaced(s) ==
  IsBurst(s.job) => /\ s.flow.src[1] = oracle[s.job].chain[1]
                    /\ LeadsTo(<<s.flow.dst[1], s.flow.dport>>, s.job, 2)

PacketPlaced(p) ==
  LET h == Len(p.passed)
  IN  /\ now <= p.at
      /\ p.flow.dst = NodeAddress(p.flow.dst[1])
      /\ IF IsBurst(p.job)
         THEN /\ p.job \in DOMAIN oracle
              /\ p.n \in DOMAIN oracle[p.job].schedule
              /\ Passed(p.passed, p.job, h)
              /\ LeadsTo(<<p.flow.dst[1], p.flow.dport>>, p.job, h + 1)
              /\ oracle[p.job].start < p.at
              /\ p.at <= Deadline(p.job, p.n, h - 1, h)
         ELSE h = 1 /\ p.flow.dport = BackgroundPort

ForwardPlaced(f) ==
  LET h == Len(f.passed)
  IN  /\ f.job \in DOMAIN oracle
      /\ f.n \in DOMAIN oracle[f.job].schedule
      /\ Passed(f.passed, f.job, h)
      /\ h \in 2..(Len(oracle[f.job].chain) - 1)
      /\ f.by = [job |-> f.job, hop |-> h]
      /\ \A r \in relays : r.job = f.job /\ r.hop = h => r.started
      /\ now <= f.due
      /\ oracle[f.job].start < f.due
      /\ f.due <= Deadline(f.job, f.n, h - 1, h - 1)

Placed ==
  /\ RelaysPlaced
  /\ \A s \in sends : SendPlaced(s)
  /\ \A p \in air : PacketPlaced(p)
  /\ \A f \in forwards : ForwardPlaced(f)

LEMMA FreshFired ==
  ASSUME IInv, NetTypes, RelaysPlaced, NEW actor, NEW chain, NEW schedule, NEW port,
         Fired(actor, chain, schedule, port), FreshPorts'
  PROVE  /\ nextRelayPort' = nextRelayPort + (Len(chain) - 2)
         /\ nextRelayPort' <= FirstRelayPort + Len(oracle') * ChainLenCap
         /\ \A i \in 1..(Len(chain) - 2) : HopPort(i) = nextRelayPort + i - 1
<1> DEFINE len == Len(oracle)
           used == len * ChainLenCap
<1>1. /\ nextRelayPort \in FirstRelayPort..LastRelayPort
      /\ Len(chain) \in 2..(ChainLenCap + 2) /\ len \in Nat /\ used \in Nat
      /\ Len(oracle') = len + 1
  BY NumbersTyped DEF NetTypes, Fired, IInv
<1>2. Len(oracle') * ChainLenCap = used + ChainLenCap
  BY <1>1, NumbersTyped
<1>3. used + ChainLenCap <= LastRelayPort - FirstRelayPort
  BY <1>2 DEF FreshPorts
<1>4. nextRelayPort <= FirstRelayPort + used
  BY DEF RelaysPlaced
<1> HIDE DEF used, len
<1>5. Len(chain) - 2 \in Nat /\ nextRelayPort + (Len(chain) - 2) <= LastRelayPort
  BY <1>1, <1>3, <1>4, NumbersTyped
<1>6. nextRelayPort' = nextRelayPort + (Len(chain) - 2)
  <2>1. nextRelayPort' = PortAfter(nextRelayPort, Len(chain) - 2)
    BY DEF Fired
  <2> QED BY <1>1, <1>5, <2>1, PortInRange
<1>7. ASSUME NEW i \in 1..(Len(chain) - 2) PROVE HopPort(i) = nextRelayPort + i - 1
  <2>1. i - 1 \in Nat /\ nextRelayPort + (i - 1) <= LastRelayPort
    BY <1>1, <1>5, NumbersTyped
  <2>2. PortAfter(nextRelayPort, i - 1) = nextRelayPort + (i - 1)
    BY <1>1, <2>1, PortInRange
  <2> QED BY <1>1, <2>2, NumbersTyped DEF HopPort
<1>8. nextRelayPort' <= FirstRelayPort + Len(oracle') * ChainLenCap
  BY <1>1, <1>2, <1>3, <1>4, <1>6, NumbersTyped
<1> QED BY <1>6, <1>7, <1>8

LEMMA FreshBefore ==
  ASSUME IInv, NEW actor, NEW chain, NEW schedule, NEW port,
         Fired(actor, chain, schedule, port), FreshPorts'
  PROVE  FreshPorts
<1> DEFINE len == Len(oracle)
           used == len * ChainLenCap
<1>1. len \in Nat /\ used \in Nat /\ Len(oracle') = len + 1
  BY NumbersTyped DEF Fired, IInv
<1>2. Len(oracle') * ChainLenCap = used + ChainLenCap
  BY <1>1, NumbersTyped
<1> HIDE DEF used
<1>3. used <= LastRelayPort - FirstRelayPort
  BY <1>1, <1>2, NumbersTyped DEF FreshPorts
<1> QED BY <1>3 DEF FreshPorts, used

\* An endpoint goes on leading where it leads: no relay is ever given the port
\* of another.
LEMMA LeadsKept ==
  ASSUME UNCHANGED <<oracle, nextRelayPort>>,
         \A r \in relays' : \E q \in relays : r.port = q.port /\ r.job = q.job /\ r.hop = q.hop
  PROVE  \A to, job, i : LeadsTo(to, job, i) => LeadsTo(to, job, i)'
BY DEF LeadsTo

LEMMA LeadsKeptFired ==
  ASSUME IInv, NetTypes, RelaysPlaced, NEW actor, NEW chain, NEW schedule, NEW port,
         Fired(actor, chain, schedule, port), FreshPorts'
  PROVE  \A to, job, i : LeadsTo(to, job, i) /\ job \in DOMAIN oracle => LeadsTo(to, job, i)'
<1> SUFFICES ASSUME NEW to, NEW job \in DOMAIN oracle, NEW i, LeadsTo(to, job, i)
             PROVE  LeadsTo(to, job, i)'
  OBVIOUS
<1>1. oracle'[job] = oracle[job] /\ job # Len(oracle) + 1
  BY FiredOracle
<1>2. /\ nextRelayPort \in FirstRelayPort..LastRelayPort
      /\ Len(chain) \in 2..(ChainLenCap + 2)
  BY DEF NetTypes, Fired
<1>3. CASE i = Len(oracle[job].chain)
  BY <1>1, <1>3 DEF LeadsTo
<1>4. CASE i # Len(oracle[job].chain)
  <2>1. to[2] \in FirstRelayPort..(nextRelayPort - 1)
        /\ \A r \in relays : r.port = to[2] <=> (r.job = job /\ r.hop = i)
    BY <1>4 DEF LeadsTo
  <2>2. to[2] \in FirstRelayPort..(nextRelayPort' - 1)
    BY <1>2, <2>1, FreshFired, NumbersTyped
  <2>3. ASSUME NEW k \in 2..(Len(chain) - 1)
        PROVE  Enlisted(chain, k).port # to[2] /\ Enlisted(chain, k).job # job
    <3>1. k - 1 \in 1..(Len(chain) - 2)
      BY <1>2, NumbersTyped
    <3>2. HopPort(k - 1) = nextRelayPort + (k - 1) - 1
      BY <3>1, FreshFired
    <3>3. HopPort(k - 1) # to[2]
      BY <1>2, <2>1, <3>1, <3>2, NumbersTyped
    <3> QED BY <1>1, <3>3 DEF Enlisted
  <2>4. relays' = relays \cup {Enlisted(chain, k) : k \in 2..(Len(chain) - 1)}
    BY DEF Fired
  <2>5. \A r \in relays' : r.port = to[2] <=> (r.job = job /\ r.hop = i)
    BY <2>1, <2>3, <2>4
  <2> QED BY <1>1, <1>4, <2>2, <2>5 DEF LeadsTo
<1> QED BY <1>3, <1>4

\* Every node of the chain fired but the first has an endpoint that leads to it.
LEMMA LeadsOfFired ==
  ASSUME IInv, NetTypes, RelaysPlaced, NEW actor, NEW chain, NEW schedule, NEW port,
         Fired(actor, chain, schedule, port), FreshPorts', NEW i \in 2..Len(chain),
         NEW to, to = NextHop(chain, i - 1), NEW id, id = Len(oracle) + 1
  PROVE  /\ LeadsTo(to, id, i)'
         /\ i < Len(chain) => to = <<chain[i], HopPort(i - 1)>>
<1>1. oracle'[id].chain = chain
  <2>1. oracle'[id] = [actor |-> actor, start |-> now, chain |-> chain, schedule |-> schedule]
    BY FiredOracle
  <2> QED BY <2>1
<1>2. /\ nextRelayPort \in FirstRelayPort..LastRelayPort
      /\ Len(chain) \in 2..(ChainLenCap + 2) /\ chain[Len(chain)] = Victim
      /\ Len(chain) \in Nat /\ i \in Nat
  BY NumbersTyped DEF NetTypes, Fired
<1>3. CASE i = Len(chain)
  <2>1. to = <<Victim, VictimPort>>
    BY <1>2, <1>3 DEF NextHop
  <2>2. LeadsTo(to, id, i)'
    BY <1>1, <1>2, <1>3, <2>1 DEF LeadsTo
  <2> QED BY <1>3, <2>2
<1>4. CASE i < Len(chain)
  <2>1. to = <<chain[i], HopPort(i - 1)>>
    BY <1>2, <1>4 DEF NextHop
  <2>2. \A k \in 2..(Len(chain) - 1) : HopPort(k - 1) = nextRelayPort + (k - 2)
    <3>1. \A k \in 2..(Len(chain) - 1) :
            k - 1 \in 1..(Len(chain) - 2) /\ nextRelayPort + (k - 1) - 1 = nextRelayPort + (k - 2)
      BY <1>2, NumbersTyped
    <3> QED BY <3>1, FreshFired
  <2>3. i \in 2..(Len(chain) - 1) /\ nextRelayPort' = nextRelayPort + (Len(chain) - 2)
    BY <1>2, <1>4, FreshFired
  <2>4. HopPort(i - 1) \in FirstRelayPort..(nextRelayPort' - 1)
    BY <1>2, <2>2, <2>3, NumbersTyped
  <2>5. ASSUME NEW r \in relays PROVE r.port # HopPort(i - 1) /\ r.job # id
    <3>1. RelayPlaced(r)
      BY DEF RelaysPlaced
    <3>2. r.job \in DOMAIN oracle /\ r.hop \in 2..(Len(oracle[r.job].chain) - 1)
      BY <3>1 DEF RelayPlaced
    <3>3. r.hop # Len(oracle[r.job].chain)
      <4>1. Len(oracle[r.job].chain) \in 2..(ChainLenCap + 2)
        BY <3>2, BurstTyped
      <4> QED BY <3>2, <4>1, NumbersTyped
    <3>4. r.port \in FirstRelayPort..(nextRelayPort - 1)
      BY <3>1, <3>3 DEF RelayPlaced, LeadsTo
    <3>5. r.port # HopPort(i - 1)
      BY <1>2, <2>2, <2>3, <3>4, NumbersTyped
    <3>6. id \notin DOMAIN oracle
      BY FiredOracle
    <3> QED BY <3>2, <3>5, <3>6
  <2>6. ASSUME NEW k \in 2..(Len(chain) - 1)
        PROVE  /\ Enlisted(chain, k).port = HopPort(i - 1) <=> k = i
               /\ Enlisted(chain, k).job = id /\ Enlisted(chain, k).hop = k
    <3>1. HopPort(k - 1) = HopPort(i - 1) <=> k = i
      BY <1>2, <2>2, <2>3, NumbersTyped
    <3> QED BY <3>1 DEF Enlisted
  <2>7. relays' = relays \cup {Enlisted(chain, k) : k \in 2..(Len(chain) - 1)}
    BY DEF Fired
  <2>8. \A r \in relays' : r.port = HopPort(i - 1) <=> (r.job = id /\ r.hop = i)
    BY <2>5, <2>6, <2>7
  <2>9. LeadsTo(to, id, i)'
    BY <1>1, <1>2, <1>4, <2>1, <2>4, <2>8 DEF LeadsTo
  <2> QED BY <2>1, <2>9
<1> QED BY <1>2, <1>3, <1>4

\* What is logged of bursts stays, and where endpoints lead.
Steady ==
  /\ \A i \in DOMAIN oracle : i \in DOMAIN oracle' /\ oracle'[i] = oracle[i]
  /\ \A to, job, i : LeadsTo(to, job, i) /\ job \in DOMAIN oracle => LeadsTo(to, job, i)'

LEMMA SteadyElsewhere ==
  ASSUME UNCHANGED <<oracle, nextRelayPort>>,
         \A r \in relays' : \E q \in relays : r.port = q.port /\ r.job = q.job /\ r.hop = q.hop
  PROVE  Steady
BY LeadsKept DEF Steady

LEMMA SteadyFired ==
  ASSUME IInv, NetTypes, RelaysPlaced, NEW actor, NEW chain, NEW schedule, NEW port,
         Fired(actor, chain, schedule, port), FreshPorts'
  PROVE  Steady
<1>1. \A i \in DOMAIN oracle : i \in DOMAIN oracle' /\ oracle'[i] = oracle[i]
  BY FiredOracle
<1> QED BY <1>1, LeadsKeptFired DEF Steady

LEMMA RelayKept ==
  ASSUME NEW r, RelayPlaced(r), Steady, now' <= r.stop, ~r.started => now' = now, deaf \subseteq deaf'
  PROVE  RelayPlaced(r)'
<1> DEFINE here == <<r.node, r.port>>
<1>1. /\ r.job \in DOMAIN oracle'
      /\ oracle'[r.job] = oracle[r.job]
      /\ LeadsTo(here, r.job, r.hop)'
      /\ LeadsTo(r.next, r.job, r.hop + 1)'
  BY DEF RelayPlaced, Steady
<1> QED BY <1>1 DEF RelayPlaced

LEMMA SendKept ==
  ASSUME NEW s, SendPlaced(s), Steady, IsBurst(s.job) => s.job \in DOMAIN oracle
  PROVE  SendPlaced(s)'
<1> DEFINE to == <<s.flow.dst[1], s.flow.dport>>
<1>1. CASE IsBurst(s.job)
  <2>1. oracle'[s.job] = oracle[s.job] /\ LeadsTo(to, s.job, 2)'
    BY <1>1 DEF SendPlaced, Steady
  <2> QED BY <1>1, <2>1 DEF SendPlaced
<1>2. CASE ~IsBurst(s.job)
  BY <1>2 DEF SendPlaced
<1> QED BY <1>1, <1>2

LEMMA PacketKept ==
  ASSUME NEW p, PacketPlaced(p), Steady, now' <= p.at
  PROVE  PacketPlaced(p)'
<1> DEFINE to == <<p.flow.dst[1], p.flow.dport>>
           h == Len(p.passed)
<1>1. CASE IsBurst(p.job)
  <2>1. /\ p.job \in DOMAIN oracle'
        /\ oracle'[p.job] = oracle[p.job]
        /\ LeadsTo(to, p.job, h + 1)'
    BY <1>1 DEF PacketPlaced, Steady
  <2>2. Passed(p.passed, p.job, h)' /\ Deadline(p.job, p.n, h - 1, h)' = Deadline(p.job, p.n, h - 1, h)
    BY <1>1, <2>1 DEF PacketPlaced, Passed, Deadline
  <2> QED BY <1>1, <2>1, <2>2 DEF PacketPlaced
<1>2. CASE ~IsBurst(p.job)
  BY <1>2 DEF PacketPlaced
<1> QED BY <1>1, <1>2

LEMMA ForwardKept ==
  ASSUME NEW f, ForwardPlaced(f), Steady, now' <= f.due,
         \A r \in relays' : r.job = f.job /\ r.hop = Len(f.passed) => r.started
  PROVE  ForwardPlaced(f)'
<1> DEFINE h == Len(f.passed)
<1>1. f.job \in DOMAIN oracle' /\ oracle'[f.job] = oracle[f.job]
  BY DEF ForwardPlaced, Steady
<1>2. Passed(f.passed, f.job, h)'
      /\ Deadline(f.job, f.n, h - 1, h - 1)' = Deadline(f.job, f.n, h - 1, h - 1)
  BY <1>1 DEF ForwardPlaced, Passed, Deadline
<1> QED BY <1>1, <1>2 DEF ForwardPlaced

\* Steps that leave time, the relays and the oracle alone, and only move packets.
LEMMA PlacedKept ==
  ASSUME IInv, SendsInv, Placed,
         UNCHANGED <<now, oracle, nextRelayPort, relays, deaf>>,
         \A s \in sends' : s \in sends \/ ~IsBurst(s.job),
         \A p \in air' : p \in air \/ PacketPlaced(p),
         \A f \in forwards' : f \in forwards \/ ForwardPlaced(f)
  PROVE  Placed'
<1>1. Steady
  BY SteadyElsewhere
<1>2. RelaysPlaced'
  <2>1. \A r \in relays : RelayPlaced(r)'
    <3> SUFFICES ASSUME NEW r \in relays PROVE RelayPlaced(r)'
      OBVIOUS
    <3>1. RelayPlaced(r) /\ now' <= r.stop /\ (~r.started => now' = now) /\ deaf \subseteq deaf'
      BY DEF Placed, RelaysPlaced, RelayPlaced
    <3> QED BY <1>1, <3>1, RelayKept
  <2> QED BY <2>1 DEF Placed, RelaysPlaced
<1>3. \A s \in sends' : SendPlaced(s)'
  <2> SUFFICES ASSUME NEW s \in sends' PROVE SendPlaced(s)'
    OBVIOUS
  <2>1. SendPlaced(s) /\ (IsBurst(s.job) => s.job \in DOMAIN oracle)
    BY DEF Placed, SendsInv, JobsKnown, SendPlaced
  <2> QED BY <1>1, <2>1, SendKept
<1>4. \A p \in air' : PacketPlaced(p)'
  <2> SUFFICES ASSUME NEW p \in air' PROVE PacketPlaced(p)'
    OBVIOUS
  <2>1. PacketPlaced(p)
    BY DEF Placed
  <2>2. now' <= p.at
    BY <2>1 DEF PacketPlaced
  <2> QED BY <1>1, <2>1, <2>2, PacketKept
<1>5. \A f \in forwards' : ForwardPlaced(f)'
  <2> SUFFICES ASSUME NEW f \in forwards' PROVE ForwardPlaced(f)'
    OBVIOUS
  <2>1. ForwardPlaced(f)
    BY DEF Placed
  <2>2. now' <= f.due /\ \A r \in relays' : r.job = f.job /\ r.hop = Len(f.passed) => r.started
    BY <2>1 DEF ForwardPlaced
  <2> QED BY <1>1, <2>1, <2>2, ForwardKept
<1> QED BY <1>2, <1>3, <1>4, <1>5 DEF Placed

LEMMA FiredPlaced ==
  ASSUME IInv, NetTypes, SendsInv, Placed, NEW actor, NEW chain, NEW schedule, NEW port,
         Fired(actor, chain, schedule, port), FreshPorts'
  PROVE  Placed'
<1> DEFINE id == Len(oracle) + 1
           hops == 2..(Len(chain) - 1)
<1>1. RelaysPlaced /\ Steady
  BY SteadyFired DEF Placed
<1>2. /\ UNCHANGED <<now, air, forwards, deaf>>
      /\ relays' = relays \cup {Enlisted(chain, i) : i \in hops}
      /\ Len(chain) \in 2..(ChainLenCap + 2) /\ now \in Nat
  BY DEF Fired, IInv
<1>3. /\ id \notin DOMAIN oracle /\ DOMAIN oracle' = DOMAIN oracle \cup {id}
      /\ \A i \in DOMAIN oracle : oracle'[i] = oracle[i]
  BY FiredOracle
<1>4. oracle'[id].start = now /\ oracle'[id].chain = chain
  <2>1. oracle'[id] = [actor |-> actor, start |-> now, chain |-> chain, schedule |-> schedule]
    BY FiredOracle
  <2> QED BY <2>1
<1>5. \A r \in relays : RelayPlaced(r)' /\ r.job # id
  <2> SUFFICES ASSUME NEW r \in relays PROVE RelayPlaced(r)' /\ r.job # id
    OBVIOUS
  <2>1. RelayPlaced(r)
    BY <1>1 DEF RelaysPlaced
  <2>2. now' <= r.stop /\ (~r.started => now' = now) /\ deaf \subseteq deaf' /\ r.job \in DOMAIN oracle
    BY <1>2, <2>1 DEF RelayPlaced
  <2>3. RelayPlaced(r)'
    BY <1>1, <2>1, <2>2, RelayKept
  <2> QED BY <1>3, <2>2, <2>3
<1>6. ASSUME NEW k \in hops, NEW r, r = Enlisted(chain, k)
      PROVE  RelayPlaced(r)' /\ r.job = id /\ r.hop = k /\ ~r.started
  <2>1. /\ r.job = id /\ r.hop = k /\ r.node = chain[k] /\ r.port = HopPort(k - 1)
        /\ r.next = NextHop(chain, k) /\ r.stop = CloseAt(now)
        /\ ~r.started /\ ~r.bound
    BY <1>6 DEF Enlisted
  <2>2. k \in 2..Len(chain) /\ k < Len(chain) /\ k + 1 \in 2..Len(chain) /\ (k + 1) - 1 = k
    BY <1>2, <1>6, NumbersTyped
  <2>3. LeadsTo(<<r.node, r.port>>, r.job, r.hop)'
    <3>1. PICK to : to = NextHop(chain, k - 1)
      OBVIOUS
    <3>2. LeadsTo(to, r.job, k)' /\ to = <<chain[k], HopPort(k - 1)>>
      BY <1>1, <2>1, <2>2, <3>1, LeadsOfFired
    <3> QED BY <2>1, <3>2
  <2>4. LeadsTo(r.next, r.job, r.hop + 1)'
    <3>1. r.next = NextHop(chain, (k + 1) - 1)
      BY <2>1, <2>2
    <3>2. LeadsTo(r.next, r.job, k + 1)'
      BY <1>1, <2>1, <2>2, <3>1, LeadsOfFired
    <3> QED BY <2>1, <3>2
  <2>5. now' <= CloseAt(now)
    BY <1>2, NumbersTyped DEF CloseAt
  <2> HIDE DEF id, hops
  <2>6. RelayPlaced(r)'
    BY <1>2, <1>3, <1>4, <1>6, <2>1, <2>3, <2>4, <2>5 DEF RelayPlaced, hops
  <2> QED BY <2>1, <2>6
<1>7. RelaysPlaced'
  <2> HIDE DEF id, hops
  <2>1. \A r \in relays' : r \in relays \/ \E k \in hops : r = Enlisted(chain, k)
    BY <1>2
  <2>2. \A r \in relays' : RelayPlaced(r)'
    BY <1>5, <1>6, <2>1
  <2>3. \A r, q \in relays' : r.job = q.job /\ r.hop = q.hop => r = q
    <3> SUFFICES ASSUME NEW r \in relays', NEW q \in relays', r.job = q.job, r.hop = q.hop
                 PROVE  r = q
      OBVIOUS
    <3>1. CASE r \in relays /\ q \in relays
      BY <1>1, <3>1 DEF RelaysPlaced
    <3>2. CASE r \notin relays /\ q \notin relays
      BY <1>6, <2>1, <3>2
    <3>3. CASE r \in relays /\ q \notin relays
      BY <1>5, <1>6, <2>1, <3>3
    <3>4. CASE r \notin relays /\ q \in relays
      BY <1>5, <1>6, <2>1, <3>4
    <3> QED BY <3>1, <3>2, <3>3, <3>4
  <2>4. ASSUME NEW i \in DOMAIN oracle', now' < CloseAt(oracle'[i].start),
               NEW h \in 2..(Len(oracle'[i].chain) - 1)
        PROVE  \E r \in relays' : r.job = i /\ r.hop = h
    <3>1. CASE i = id
      <4>1. h \in hops
        BY <1>4, <2>4, <3>1 DEF hops
      <4> QED BY <1>2, <1>6, <3>1, <4>1
    <3>2. CASE i # id
      <4>1. i \in DOMAIN oracle /\ oracle'[i] = oracle[i]
        BY <1>3, <3>2
      <4> QED BY <1>1, <1>2, <2>4, <4>1 DEF RelaysPlaced
    <3> QED BY <3>1, <3>2
  <2>5. nextRelayPort' <= FirstRelayPort + Len(oracle') * ChainLenCap
    BY <1>1, FreshFired
  <2>6. \A d \in deaf' : d[3] >= FirstEphemeral
    BY <1>1, <1>2 DEF RelaysPlaced
  <2> QED BY <2>2, <2>3, <2>4, <2>5, <2>6 DEF RelaysPlaced
<1>8. ASSUME NEW s \in sends' PROVE SendPlaced(s)'
  <2>1. CASE s \in sends
    <3>1. SendPlaced(s) /\ (IsBurst(s.job) => s.job \in DOMAIN oracle)
      BY <2>1 DEF Placed, SendsInv, JobsKnown
    <3> QED BY <1>1, <3>1, SendKept
  <2>2. CASE s \notin sends
    <3> DEFINE to == NextHop(chain, 1)
    <3>1. PICK n \in DOMAIN schedule :
            s = [job |-> id, n |-> n, due |-> now + schedule[n], flow |-> SentAs(chain[1], port, to)]
      BY <2>2 DEF Fired
    <3>2. s.job = id /\ s.flow = SentAs(chain[1], port, to)
      BY <3>1
    <3>3. to \in Nodes \X Nat /\ chain[1] \in Nodes /\ port \in Nat /\ 2 \in 2..Len(chain)
      <4>1. 1 \in 1..(Len(chain) - 1) /\ 2 \in 2..Len(chain)
        BY <1>2, NumbersTyped
      <4>2. chain[1] \in Nodes /\ port \in Nat
        BY <1>2, NumbersTyped DEF Fired, Ephemeral
      <4> QED BY <4>1, <4>2, HopsTyped
    <3>4. s.flow.src[1] = chain[1] /\ <<s.flow.dst[1], s.flow.dport>> = to
      <4>1. s.flow.src[1] = chain[1] /\ s.flow.dst[1] = to[1] /\ s.flow.dport = to[2]
        BY <3>2, <3>3, SentAsTyped
      <4>2. to = <<to[1], to[2]>>
        BY <3>3
      <4> HIDE DEF to
      <4> QED BY <4>1, <4>2
    <3>5. PICK x : x = to
      OBVIOUS
    <3>6. x = NextHop(chain, 2 - 1) /\ s.job = Len(oracle) + 1
      BY <3>2, <3>5
    <3>7. LeadsTo(x, s.job, 2)'
      BY <1>1, <3>3, <3>6, LeadsOfFired
    <3> HIDE DEF to, id
    <3>8. <<s.flow.dst[1], s.flow.dport>> = x
      BY <3>4, <3>5
    <3>9. s.flow.src[1] = oracle'[s.job].chain[1] 
      BY <1>4, <3>2, <3>4
    <3> QED BY <3>7, <3>8, <3>9 DEF SendPlaced
  <2> QED BY <2>1, <2>2
<1>9. ASSUME NEW p \in air' PROVE PacketPlaced(p)'
  <2>1. PacketPlaced(p)
    BY <1>2 DEF Placed
  <2>2. now' <= p.at
    BY <1>2, <2>1 DEF PacketPlaced
  <2> QED BY <1>1, <2>1, <2>2, PacketKept
<1>10. ASSUME NEW f \in forwards' PROVE ForwardPlaced(f)'
  <2>1. ForwardPlaced(f)
    BY <1>2 DEF Placed
  <2>2. now' <= f.due
    BY <1>2, <2>1 DEF ForwardPlaced
  <2>3. ASSUME NEW r \in relays', r.job = f.job, r.hop = Len(f.passed) PROVE r.started
    <3>1. f.job \in DOMAIN oracle
      BY <2>1 DEF ForwardPlaced
    <3>2. r \in relays
      BY <1>2, <1>3, <1>6, <2>3, <3>1
    <3> QED BY <2>1, <2>3, <3>2 DEF ForwardPlaced
  <2> QED BY <1>1, <2>1, <2>2, <2>3, ForwardKept
<1> QED BY <1>7, <1>8, <1>9, <1>10 DEF Placed

LEMMA DeadlineSteps ==
  ASSUME IInv, NEW job \in DOMAIN oracle, NEW n \in DOMAIN oracle[job].schedule,
         NEW h \in Nat, NEW k \in Nat
  PROVE  /\ Deadline(job, n, h, k) \in Nat
         /\ Deadline(job, n, h + 1, k) = Deadline(job, n, h, k) + Max(RelayDelays)
         /\ Deadline(job, n, h, k + 1) = Deadline(job, n, h, k) + Max(LinkDelays)
<1> DEFINE R == Max(RelayDelays)
           L == Max(LinkDelays)
           base == oracle[job].start + oracle[job].schedule[n]
<1>1. R \in Nat /\ L \in Nat
  BY MaxIsGreatest, DelayAssumption
<1>2. base \in Nat
  <2>1. oracle[job].start \in Nat /\ oracle[job].schedule \in Seq(Nat)
    BY BurstTyped
  <2>2. oracle[job].schedule[n] \in Nat
    BY <2>1
  <2> QED BY <2>1, <2>2
<1>3. /\ h * R \in Nat /\ k * L \in Nat
      /\ (h + 1) * R = h * R + R /\ (k + 1) * L = k * L + L
  BY <1>1
<1>4. \A x, y : Deadline(job, n, x, y) = base + x * R + y * L
  BY DEF Deadline
<1> HIDE DEF base, R, L
<1>5. /\ Deadline(job, n, h, k) = base + h * R + k * L
      /\ Deadline(job, n, h + 1, k) = base + (h * R + R) + k * L
      /\ Deadline(job, n, h, k + 1) = base + h * R + (k * L + L)
  BY <1>3, <1>4
<1>6. \A u, v \in Nat : /\ base + u + v \in Nat
                        /\ base + (u + R) + v = (base + u + v) + R
                        /\ base + u + (v + L) = (base + u + v) + L
  BY <1>1, <1>2
<1> QED BY <1>3, <1>5, <1>6 DEF R, L

LEMMA DelaysBounded ==
  /\ Max(RelayDelays) \in Nat /\ Max(LinkDelays) \in Nat
  /\ \A d \in RelayDelays : d \in Nat /\ d <= Max(RelayDelays)
  /\ \A d \in LinkDelays : d \in Nat /\ d > 0 /\ d <= Max(LinkDelays)
<1>1. Max(RelayDelays) \in Nat /\ \A d \in RelayDelays : d <= Max(RelayDelays)
  BY MaxIsGreatest, DelayAssumption
<1>2. Max(LinkDelays) \in Nat /\ \A d \in LinkDelays : d <= Max(LinkDelays)
  BY MaxIsGreatest, DelayAssumption
<1> QED BY <1>1, <1>2, DelayAssumption

\* A burst with an ample schedule has passed its chain before it is closed.
LEMMA DeadlineBeforeClose ==
  ASSUME IInv, NEW job \in DOMAIN oracle, NEW n \in DOMAIN oracle[job].schedule,
         Ample(oracle[job].schedule), NEW h \in Nat, NEW k \in Nat,
         h <= ChainLenCap, k <= ChainLenCap + 1
  PROVE  Deadline(job, n, h, k) < CloseAt(oracle[job].start)
<1> DEFINE R == Max(RelayDelays)
           L == Max(LinkDelays)
           schedule == oracle[job].schedule
           start == oracle[job].start
<1>1. R \in Nat /\ L \in Nat
  BY DelaysBounded
<1>2. /\ h * R \in Nat /\ k * L \in Nat /\ ChainLenCap * R \in Nat /\ (ChainLenCap + 1) * L \in Nat
      /\ h * R <= ChainLenCap * R /\ k * L <= (ChainLenCap + 1) * L
  BY <1>1, NumbersTyped
<1>3. start \in Nat /\ schedule \in SendSchedules
  BY BurstTyped
<1>4. schedule[n] \in Nat /\ Last(schedule) \in Nat /\ schedule[n] <= Last(schedule)
  BY <1>3, ScheduleShape DEF Last
<1>5. Last(schedule) + ChainLenCap * R + (ChainLenCap + 1) * L < BurstS + StopSlack
  BY DEF Ample
<1>6. Deadline(job, n, h, k) = start + schedule[n] + h * R + k * L
  BY DEF Deadline
<1>7. CloseAt(start) = start + BurstS + StopSlack
  BY DEF CloseAt
<1> DEFINE hR == h * R
           kL == k * L
           cR == ChainLenCap * R
           cL == (ChainLenCap + 1) * L
<1>8. hR \in Nat /\ kL \in Nat /\ cR \in Nat /\ cL \in Nat /\ hR <= cR /\ kL <= cL
  BY <1>2
<1>9. Last(schedule) + cR + cL < BurstS + StopSlack /\ Deadline(job, n, h, k) = start + schedule[n] + hR + kL
  BY <1>5, <1>6
<1> HIDE DEF hR, kL, cR, cL
<1>10. start + schedule[n] + hR + kL < start + BurstS + StopSlack
  <2> HIDE DEF start, schedule
  <2> QED BY <1>3, <1>4, <1>8, <1>9, NumbersTyped
<1> QED BY <1>7, <1>9, <1>10

LEMMA OpenedPlaced ==
  ASSUME IInv, NetTypes, SendsInv, Placed, NEW src, NEW dst, NEW count, NEW port,
         Opened(src, dst, count, port)
  PROVE  Placed'
<1>1. ~IsBurst(-(sessions + 1))
  BY DEF NetTypes, IsBurst
<1>2. /\ UNCHANGED <<now, oracle, nextRelayPort, relays, deaf, air, forwards>>
      /\ \A s \in sends' : s \in sends \/ s.job = -(sessions + 1)
  BY DEF Opened, campaignVars
<1> QED BY <1>1, <1>2, PlacedKept

LEMMA TickPlaced ==
  ASSUME IInv, NetTypes, SendsInv, Placed, Tick
  PROVE  Placed'
<1>1. /\ now' = now + 1
      /\ UNCHANGED <<oracle, nextRelayPort, relays, deaf, sends, air, forwards>>
      /\ \A p \in air : p.at # now
      /\ \A f \in forwards : f.due # now
      /\ \A r \in relays : r.started /\ r.stop # now
  BY TickWaits DEF Quietly, NetQuiet
<1>2. /\ now \in Nat
      /\ \A p \in air : p.at \in Nat
      /\ \A f \in forwards : f.due \in Nat
      /\ \A r \in relays : r.stop \in Nat
  BY DEF IInv, NetTypes, Flying, Forwarding, Relay
<1>3. Steady
  BY <1>1, SteadyElsewhere
<1>4. RelaysPlaced'
  <2>1. \A r \in relays : RelayPlaced(r)'
    <3> SUFFICES ASSUME NEW r \in relays PROVE RelayPlaced(r)'
      OBVIOUS
    <3>1. RelayPlaced(r) /\ now <= r.stop
      BY DEF Placed, RelaysPlaced, RelayPlaced
    <3>2. now' <= r.stop /\ r.started /\ deaf \subseteq deaf'
      BY <1>1, <1>2, <3>1
    <3> QED BY <1>3, <3>1, <3>2, RelayKept
  <2>2. ASSUME NEW i \in DOMAIN oracle, now' < CloseAt(oracle[i].start)
        PROVE  now < CloseAt(oracle[i].start)
    <3>1. CloseAt(oracle[i].start) \in Nat
      BY BurstTyped
    <3> QED BY <1>1, <1>2, <2>2, <3>1
  <2>3. RelaysPlaced
    BY DEF Placed
  <2> QED BY <1>1, <2>1, <2>2, <2>3 DEF RelaysPlaced
<1>5. \A s \in sends' : SendPlaced(s)'
  <2> SUFFICES ASSUME NEW s \in sends' PROVE SendPlaced(s)'
    OBVIOUS
  <2>1. SendPlaced(s) /\ (IsBurst(s.job) => s.job \in DOMAIN oracle)
    BY <1>1 DEF Placed, SendsInv, JobsKnown
  <2> QED BY <1>3, <2>1, SendKept
<1>6. \A p \in air' : PacketPlaced(p)'
  <2> SUFFICES ASSUME NEW p \in air' PROVE PacketPlaced(p)'
    OBVIOUS
  <2>1. PacketPlaced(p) /\ now <= p.at
    BY <1>1 DEF Placed, PacketPlaced
  <2>2. now' <= p.at
    BY <1>1, <1>2, <2>1
  <2> QED BY <1>3, <2>1, <2>2, PacketKept
<1>7. \A f \in forwards' : ForwardPlaced(f)'
  <2> SUFFICES ASSUME NEW f \in forwards' PROVE ForwardPlaced(f)'
    OBVIOUS
  <2>1. ForwardPlaced(f) /\ now <= f.due
    BY <1>1 DEF Placed, ForwardPlaced
  <2>2. now' <= f.due /\ \A r \in relays' : r.started
    BY <1>1, <1>2, <2>1
  <2> QED BY <1>3, <2>1, <2>2, ForwardKept
<1> QED BY <1>4, <1>5, <1>6, <1>7 DEF Placed

LEMMA StopApplicationPlaced ==
  ASSUME IInv, NetTypes, SendsInv, Placed, NEW r \in relays, StopApplication(r), Quietly
  PROVE  Placed'
<1>1. /\ relays' = relays \ {r} /\ r.stop = now
      /\ UNCHANGED <<now, oracle, nextRelayPort, deaf, sends, air, forwards>>
  BY DEF StopApplication, Due, Quietly
<1>2. Steady
  BY <1>1, SteadyElsewhere
<1>3. RelaysPlaced'
  <2>1. RelaysPlaced /\ RelayPlaced(r)
    BY DEF Placed, RelaysPlaced
  <2>2. \A q \in relays' : RelayPlaced(q)'
    <3> SUFFICES ASSUME NEW q \in relays' PROVE RelayPlaced(q)'
      OBVIOUS
    <3>1. RelayPlaced(q) /\ now' <= q.stop /\ now' = now /\ deaf \subseteq deaf'
      BY <1>1, <2>1 DEF RelaysPlaced, RelayPlaced
    <3> QED BY <1>2, <3>1, RelayKept
  <2>3. ASSUME NEW i \in DOMAIN oracle, now < CloseAt(oracle[i].start),
               NEW h \in 2..(Len(oracle[i].chain) - 1)
        PROVE  \E q \in relays' : q.job = i /\ q.hop = h
    <3>1. PICK q \in relays : q.job = i /\ q.hop = h
      BY <2>1, <2>3 DEF RelaysPlaced
    <3>2. CASE q = r
      <4>1. now = CloseAt(oracle[i].start) /\ now \in Nat
        BY <1>1, <2>1, <3>1, <3>2 DEF RelayPlaced, IInv
      <4> QED BY <2>3, <4>1
    <3>3. CASE q # r
      BY <1>1, <3>1, <3>3
    <3> QED BY <3>2, <3>3
  <2>4. \A x, q \in relays' : x.job = q.job /\ x.hop = q.hop => x = q
    BY <1>1, <2>1 DEF RelaysPlaced
  <2> QED BY <1>1, <2>1, <2>2, <2>3, <2>4 DEF RelaysPlaced
<1>4. \A s \in sends' : SendPlaced(s)'
  <2> SUFFICES ASSUME NEW s \in sends' PROVE SendPlaced(s)'
    OBVIOUS
  <2>1. SendPlaced(s) /\ (IsBurst(s.job) => s.job \in DOMAIN oracle)
    BY <1>1 DEF Placed, SendsInv, JobsKnown
  <2> QED BY <1>2, <2>1, SendKept
<1>5. \A p \in air' : PacketPlaced(p)'
  <2> SUFFICES ASSUME NEW p \in air' PROVE PacketPlaced(p)'
    OBVIOUS
  <2>1. PacketPlaced(p) /\ now' <= p.at
    BY <1>1 DEF Placed, PacketPlaced
  <2> QED BY <1>2, <2>1, PacketKept
<1>6. \A f \in forwards' : ForwardPlaced(f)'
  <2> SUFFICES ASSUME NEW f \in forwards' PROVE ForwardPlaced(f)'
    OBVIOUS
  <2>1. ForwardPlaced(f)
    BY <1>1 DEF Placed
  <2>2. now' <= f.due /\ \A q \in relays' : q.job = f.job /\ q.hop = Len(f.passed) => q.started
    BY <1>1, <2>1 DEF ForwardPlaced
  <2> QED BY <1>2, <2>1, <2>2, ForwardKept
<1> QED BY <1>3, <1>4, <1>5, <1>6 DEF Placed

\* A relay's port is its own, and no service's.
LEMMA RelayPort ==
  ASSUME IInv, NetTypes, RelaysPlaced, NEW r \in relays
  PROVE  /\ r.port # VictimPort /\ r.port # BackgroundPort
         /\ \A q \in relays : q.port = r.port => q = r
<1>1. RelayPlaced(r)
  BY DEF RelaysPlaced
<1>2. r.job \in DOMAIN oracle /\ r.hop \in 2..(Len(oracle[r.job].chain) - 1)
  BY <1>1 DEF RelayPlaced
<1>3. Len(oracle[r.job].chain) \in 2..(ChainLenCap + 2)
  BY <1>2, BurstTyped
<1>4. r.hop # Len(oracle[r.job].chain)
  BY <1>2, <1>3, NumbersTyped
<1>5. /\ r.port \in FirstRelayPort..(nextRelayPort - 1)
      /\ \A q \in relays : q.port = r.port <=> (q.job = r.job /\ q.hop = r.hop)
  BY <1>1, <1>4 DEF RelayPlaced, LeadsTo
<1>6. r.port \in FirstRelayPort..LastRelayPort
  BY <1>5, NumbersTyped DEF NetTypes
<1> QED BY <1>5, <1>6, PortAssumption DEF RelaysPlaced

LEMMA LaunchedPlaced ==
  ASSUME IInv, NetTypes, SendsInv, Placed, NEW r, NEW bound \in BOOLEAN, NEW port,
         Launched(r, bound, port)
  PROVE  Placed'
<1>1. PICK q : q = LaunchedAs(r, bound, port)
  OBVIOUS
<1>2. /\ q.job = r.job /\ q.hop = r.hop /\ q.node = r.node /\ q.port = r.port
      /\ q.next = r.next /\ q.stop = r.stop /\ q.started /\ (q.bound <=> bound)
  BY <1>1, LaunchedTyped
<1>3. /\ r \in relays /\ ~r.started
      /\ relays' = (relays \ {r}) \cup {q}
      /\ deaf' = IF bound THEN deaf ELSE deaf \cup {<<r.job, r.hop, r.port>>}
      /\ UNCHANGED <<now, oracle, nextRelayPort, sends, air, forwards>>
  BY <1>1 DEF Launched
<1>4. RelaysPlaced /\ RelayPlaced(r)
  BY <1>3 DEF Placed, RelaysPlaced
<1>5. Steady
  <2>1. \A x \in relays' : \E y \in relays : x.port = y.port /\ x.job = y.job /\ x.hop = y.hop
    BY <1>2, <1>3
  <2> QED BY <1>3, <2>1, SteadyElsewhere
<1>6. \A x \in relays' : RelayPlaced(x)'
  <2>1. ASSUME NEW x \in relays, x # r PROVE RelayPlaced(x)'
    <3>1. RelayPlaced(x) /\ now' <= x.stop /\ now' = now /\ deaf \subseteq deaf'
      BY <1>3, <1>4 DEF RelaysPlaced, RelayPlaced
    <3> QED BY <1>5, <3>1, RelayKept
  <2>2. RelayPlaced(q)'
    <3>1. RelayPlaced(r)'
      <4>1. now' <= r.stop /\ now' = now /\ deaf \subseteq deaf'
        BY <1>3, <1>4 DEF RelayPlaced
      <4> QED BY <1>4, <1>5, <4>1, RelayKept
    <3>2. ~q.bound => <<q.job, q.hop, q.port>> \in deaf'
      BY <1>2, <1>3
    <3> QED BY <1>2, <3>1, <3>2 DEF RelayPlaced
  <2> QED BY <1>3, <2>1, <2>2
<1>7. \A d \in deaf' : d[3] >= FirstEphemeral
  <2> SUFFICES ASSUME ~bound PROVE r.port >= FirstEphemeral
    BY <1>3, <1>4 DEF RelaysPlaced
  <2>1. r.port \in PortsInUse(r.node)
    BY DEF Launched
  <2>2. r.port \notin SinkPorts(r.node)
    BY <1>3, <1>4, RelayPort DEF SinkPorts
  <2>3. \A x \in relays : x.port = r.port => ~x.bound
    BY <1>3, <1>4, RelayPort DEF RelayPlaced
  <2>4. \/ \E x \in relays : x.started /\ r.port = x.sendPort
        \/ \E x \in active : r.port = x.port
    BY <2>1, <2>2, <2>3 DEF PortsInUse
  <2> QED BY <2>4 DEF NetTypes, Socket, Ephemeral
<1>8. RelaysPlaced'
  <2>1. \A x, y \in relays' : x.job = y.job /\ x.hop = y.hop => x = y
    BY <1>2, <1>3, <1>4 DEF RelaysPlaced
  <2>2. ASSUME NEW i, NEW h, \E x \in relays : x.job = i /\ x.hop = h
        PROVE  \E x \in relays' : x.job = i /\ x.hop = h
    BY <1>2, <1>3, <2>2
  <2>3. ASSUME NEW i \in DOMAIN oracle', now' < CloseAt(oracle'[i].start),
               NEW h \in 2..(Len(oracle'[i].chain) - 1)
        PROVE  \E x \in relays' : x.job = i /\ x.hop = h
    <3>1. i \in DOMAIN oracle /\ now < CloseAt(oracle[i].start)
          /\ h \in 2..(Len(oracle[i].chain) - 1)
      BY <1>3, <2>3
    <3>2. \E x \in relays : x.job = i /\ x.hop = h
      BY <1>4, <3>1 DEF RelaysPlaced
    <3> QED BY <2>2, <3>2
  <2>4. nextRelayPort' <= FirstRelayPort + Len(oracle') * ChainLenCap
    BY <1>3, <1>4 DEF RelaysPlaced
  <2> QED BY <1>6, <1>7, <2>1, <2>3, <2>4 DEF RelaysPlaced
<1>9. \A s \in sends' : SendPlaced(s)'
  <2> SUFFICES ASSUME NEW s \in sends' PROVE SendPlaced(s)'
    OBVIOUS
  <2>1. SendPlaced(s) /\ (IsBurst(s.job) => s.job \in DOMAIN oracle)
    BY <1>3 DEF Placed, SendsInv, JobsKnown
  <2> QED BY <1>5, <2>1, SendKept
<1>10. \A p \in air' : PacketPlaced(p)'
  <2> SUFFICES ASSUME NEW p \in air' PROVE PacketPlaced(p)'
    OBVIOUS
  <2>1. PacketPlaced(p) /\ now' <= p.at
    BY <1>3 DEF Placed, PacketPlaced
  <2> QED BY <1>5, <2>1, PacketKept
<1>11. \A f \in forwards' : ForwardPlaced(f)'
  <2> SUFFICES ASSUME NEW f \in forwards' PROVE ForwardPlaced(f)'
    OBVIOUS
  <2>1. ForwardPlaced(f)
    BY <1>3 DEF Placed
  <2>2. now' <= f.due /\ \A x \in relays' : x.job = f.job /\ x.hop = Len(f.passed) => x.started
    BY <1>2, <1>3, <2>1 DEF ForwardPlaced
  <2> QED BY <1>5, <2>1, <2>2, ForwardKept
<1> QED BY <1>8, <1>9, <1>10, <1>11 DEF Placed

\* A packet of a burst is addressed to the next node of its chain, and the
\* relay that hears it is the one that was enlisted for that place.
LEMMA HeardByOwnRelay ==
  ASSUME IInv, NetTypes, RelaysPlaced, NEW p \in air, PacketPlaced(p), NEW r \in Listener(p.flow)
  PROVE  /\ IsBurst(p.job)
         /\ r \in relays /\ r.job = p.job /\ r.hop = Len(p.passed) + 1
<1>1. r \in relays /\ r.bound /\ r.node = p.flow.dst[1] /\ r.port = p.flow.dport
  BY DEF Listener
<1>2. r.port # VictimPort /\ r.port # BackgroundPort
  BY <1>1, RelayPort
<1>3. IsBurst(p.job)
  BY <1>1, <1>2 DEF PacketPlaced
<1>4. LeadsTo(<<p.flow.dst[1], p.flow.dport>>, p.job, Len(p.passed) + 1)
  BY <1>3 DEF PacketPlaced
<1> QED BY <1>1, <1>2, <1>3, <1>4 DEF LeadsTo

LEMMA PassedOn ==
  ASSUME IInv, NEW job \in DOMAIN oracle, NEW passed \in Seq(Nodes), NEW node \in Nodes,
         Passed(passed, job, Len(passed)), Len(passed) + 1 <= Len(oracle[job].chain),
         node = oracle[job].chain[Len(passed) + 1]
  PROVE  /\ Len(Append(passed, node)) = Len(passed) + 1
         /\ Passed(Append(passed, node), job, Len(passed) + 1)
<1>1. Len(passed) \in Nat /\ oracle[job].chain \in Seq(Nodes)
  BY BurstTyped
<1>2. /\ Len(Append(passed, node)) = Len(passed) + 1
      /\ \A k \in 1..Len(passed) : Append(passed, node)[k] = passed[k]
      /\ Append(passed, node)[Len(passed) + 1] = node
  BY <1>1
<1>3. Len(passed) + 1 \in 1..Len(oracle[job].chain)
  BY <1>1
<1>4. \A k \in 1..(Len(passed) + 1) : k \in 1..Len(passed) \/ k = Len(passed) + 1
  BY <1>1
<1> QED BY <1>2, <1>3, <1>4 DEF Passed

LEMMA HandleReadPlaced ==
  ASSUME IInv, NetTypes, SendsInv, Placed, NEW p \in air, HandleRead(p), Quietly
  PROVE  Placed'
<1>1. PICK r \in Listener(p.flow), d \in RelayDelays :
        forwards' = forwards \cup
             {[job |-> p.job, n |-> p.n, passed |-> Append(p.passed, r.node),
               by |-> [job |-> r.job, hop |-> r.hop], due |-> now + d]}
  BY DEF HandleRead
<1> DEFINE h == Len(p.passed)
           f == [job |-> p.job, n |-> p.n, passed |-> Append(p.passed, r.node),
                 by |-> [job |-> r.job, hop |-> r.hop], due |-> now + d]
<1>2. /\ air' = air \ {p} /\ p.at = now
      /\ UNCHANGED <<now, oracle, nextRelayPort, relays, deaf, sends>>
  BY DEF HandleRead, Due, Quietly
<1>3. RelaysPlaced /\ PacketPlaced(p)
  BY DEF Placed
<1>4. /\ IsBurst(p.job) /\ r \in relays /\ r.job = p.job /\ r.hop = h + 1
      /\ r.bound /\ r.node = p.flow.dst[1]
  BY <1>3, HeardByOwnRelay DEF Listener
<1>5. /\ p.job \in DOMAIN oracle /\ p.n \in DOMAIN oracle[p.job].schedule
      /\ Passed(p.passed, p.job, h)
      /\ LeadsTo(<<p.flow.dst[1], p.flow.dport>>, p.job, h + 1)
      /\ oracle[p.job].start < now
      /\ now <= Deadline(p.job, p.n, h - 1, h)
  BY <1>2, <1>3, <1>4 DEF PacketPlaced
<1>6. RelayPlaced(r)
  BY <1>3, <1>4 DEF RelaysPlaced
<1>7. h + 1 \in 2..(Len(oracle[p.job].chain) - 1) /\ h \in Nat
      /\ Len(oracle[p.job].chain) \in Nat
  BY <1>4, <1>5, <1>6, BurstTyped DEF RelayPlaced, NetTypes, Flying
<1>8. r.node = oracle[p.job].chain[h + 1] /\ r.node \in Nodes /\ p.passed \in Seq(Nodes)
  BY <1>4, <1>5 DEF LeadsTo, NetTypes, Flying, Relay
<1>9. Len(f.passed) = h + 1 /\ Passed(f.passed, p.job, h + 1)
  <2>1. h + 1 <= Len(oracle[p.job].chain)
    BY <1>7
  <2> QED BY <1>5, <1>8, <2>1, PassedOn
<1>10. /\ f.job = p.job /\ f.n = p.n /\ f.due = now + d
       /\ f.by = [job |-> p.job, hop |-> h + 1]
  BY <1>4
<1>11. d \in Nat /\ d <= Max(RelayDelays) /\ Max(RelayDelays) \in Nat /\ now \in Nat
       /\ oracle[p.job].start \in Nat
  BY <1>5, BurstTyped, DelaysBounded DEF IInv
<1>12. now <= f.due /\ oracle[p.job].start < f.due
  BY <1>5, <1>10, <1>11
<1>13. f.due <= Deadline(p.job, p.n, (h + 1) - 1, (h + 1) - 1)
  <2>1. h - 1 \in Nat /\ (h - 1) + 1 = h /\ (h + 1) - 1 = h
    BY <1>7
  <2>2. /\ Deadline(p.job, p.n, h - 1, h) \in Nat
        /\ Deadline(p.job, p.n, (h - 1) + 1, h) = Deadline(p.job, p.n, h - 1, h) + Max(RelayDelays)
    BY <1>5, <1>7, <2>1, DeadlineSteps
  <2>3. Deadline(p.job, p.n, h, h) = Deadline(p.job, p.n, h - 1, h) + Max(RelayDelays)
    BY <2>1, <2>2
  <2>4. now + d <= Deadline(p.job, p.n, h, h)
    BY <1>5, <1>11, <2>2, <2>3
  <2> QED BY <1>10, <2>1, <2>4
<1>14. \A q \in relays : q.job = p.job /\ q.hop = h + 1 => q.started
  <2>1. r.started
    BY <1>4, <1>6 DEF RelayPlaced
  <2> QED BY <1>3, <1>4, <2>1 DEF RelaysPlaced
<1> HIDE DEF f, h
<1>15. ForwardPlaced(f)
  BY <1>5, <1>7, <1>9, <1>10, <1>12, <1>13, <1>14 DEF ForwardPlaced
<1>16. \A x \in forwards' : x \in forwards \/ ForwardPlaced(x)
  BY <1>1, <1>15 DEF f
<1> QED BY <1>2, <1>16, PlacedKept

\* What a step that hands a packet to the network queues.
LEMMA OnItsWay ==
  ASSUME IInv, NetTypes, NEW job \in Int, NEW n \in Nat, NEW passed \in Seq(Nodes),
         NEW flow \in FlowKey, NEW d \in LinkDelays,
         flow.dst = NodeAddress(flow.dst[1]),
         IF IsBurst(job)
         THEN /\ job \in DOMAIN oracle
              /\ n \in DOMAIN oracle[job].schedule
              /\ Len(passed) \in Nat \ {0}
              /\ Passed(passed, job, Len(passed))
              /\ LeadsTo(<<flow.dst[1], flow.dport>>, job, Len(passed) + 1)
              /\ oracle[job].start <= now
              /\ now <= Deadline(job, n, Len(passed) - 1, Len(passed) - 1)
         ELSE Len(passed) = 1 /\ flow.dport = BackgroundPort
  PROVE  PacketPlaced(Packet(job, n, passed, flow, d))
<1> DEFINE h == Len(passed)
<1>0. PICK p : p = Packet(job, n, passed, flow, d)
  OBVIOUS
<1>1. now \in Nat /\ d \in Nat /\ d > 0 /\ d <= Max(LinkDelays) /\ Max(LinkDelays) \in Nat
  BY DelaysBounded DEF IInv
<1>2. p.job = job /\ p.n = n /\ p.passed = passed /\ p.flow = OnWire(flow) /\ p.at = now + d
  BY <1>0 DEF Packet
<1>3. p.flow.dst = flow.dst /\ p.flow.dport = flow.dport
  BY <1>2, OnWireTyped
<1>4. now <= p.at
  BY <1>1, <1>2
<1>5. ASSUME ~IsBurst(job) PROVE PacketPlaced(p)
  BY <1>2, <1>3, <1>4, <1>5 DEF PacketPlaced
<1>6. ASSUME IsBurst(job) PROVE PacketPlaced(p)
  <2>1. /\ job \in DOMAIN oracle /\ n \in DOMAIN oracle[job].schedule
        /\ h \in Nat \ {0} /\ Passed(passed, job, h)
        /\ LeadsTo(<<flow.dst[1], flow.dport>>, job, h + 1)
        /\ oracle[job].start <= now /\ now <= Deadline(job, n, h - 1, h - 1)
    BY <1>6
  <2>2. oracle[job].start \in Nat
    BY <2>1, BurstTyped
  <2>3. oracle[job].start < p.at
    BY <1>1, <1>2, <2>1, <2>2
  <2>4. h - 1 \in Nat /\ (h - 1) + 1 = h
    BY <2>1
  <2>5. /\ Deadline(job, n, h - 1, h - 1) \in Nat
        /\ Deadline(job, n, h - 1, (h - 1) + 1) = Deadline(job, n, h - 1, h - 1) + Max(LinkDelays)
    BY <2>1, <2>4, DeadlineSteps
  <2>6. p.at <= Deadline(job, n, h - 1, h)
    BY <1>1, <1>2, <2>1, <2>4, <2>5
  <2> HIDE DEF h
  <2> QED BY <1>2, <1>3, <1>4, <1>6, <2>1, <2>3, <2>6 DEF PacketPlaced, h
<1> QED BY <1>0, <1>5, <1>6

\* A packet sent is about to reach the second node of its chain.
LEMMA SendPacketPlaced ==
  ASSUME IInv, NetTypes, SendsInv, Placed, NEW s \in sends, SendPacket(s), Quietly
  PROVE  Placed'
<1> DEFINE passed == <<s.flow.src[1]>>
<1>1. /\ sends' = sends \ {s} /\ s.due = now
      /\ UNCHANGED <<now, oracle, nextRelayPort, relays, deaf, forwards>>
  BY DEF SendPacket, Due, Quietly
<1>2. /\ s.job \in Int /\ s.n \in Nat /\ s.flow \in FlowKey
      /\ passed \in Seq(Nodes) /\ Len(passed) = 1 /\ passed[1] = s.flow.src[1]
  BY DEF NetTypes, Sending, FlowKey
<1>3. SendAhead(s) /\ SendPlaced(s)
  BY DEF SendsInv, Placed
<1>4. CASE air' = air
  BY <1>1, <1>4, PlacedKept
<1>5. ASSUME NEW d \in LinkDelays, air' = air \cup {Packet(s.job, s.n, passed, s.flow, d)}
      PROVE  Placed'
  <2>1. ASSUME IsBurst(s.job)
        PROVE  /\ s.job \in DOMAIN oracle
               /\ s.n \in DOMAIN oracle[s.job].schedule
               /\ Passed(passed, s.job, 1)
               /\ LeadsTo(<<s.flow.dst[1], s.flow.dport>>, s.job, 2)
               /\ oracle[s.job].start <= now
               /\ now <= Deadline(s.job, s.n, 0, 0)
    <3>1. /\ s.job \in DOMAIN oracle /\ s.n \in DOMAIN oracle[s.job].schedule
          /\ now = oracle[s.job].start + oracle[s.job].schedule[s.n]
          /\ s.flow.src[1] = oracle[s.job].chain[1]
          /\ LeadsTo(<<s.flow.dst[1], s.flow.dport>>, s.job, 2)
      BY <1>1, <1>3, <2>1 DEF SendAhead, SendPlaced
    <3>2. /\ oracle[s.job].start \in Nat /\ oracle[s.job].schedule \in Seq(Nat)
          /\ Len(oracle[s.job].chain) \in 2..(ChainLenCap + 2)
      BY <3>1, BurstTyped
    <3>3. oracle[s.job].schedule[s.n] \in Nat /\ 1 \in 1..Len(oracle[s.job].chain)
      BY <3>1, <3>2, NumbersTyped
    <3>4. Passed(passed, s.job, 1)
      BY <1>2, <3>1, <3>3 DEF Passed
    <3>5. oracle[s.job].start <= now
      BY <3>1, <3>2, <3>3
    <3>6. Deadline(s.job, s.n, 0, 0) = now
      BY <3>1, <3>2, <3>3, DelaysBounded DEF Deadline
    <3> QED BY <3>1, <3>4, <3>5, <3>6, <1>1 DEF IInv
  <2>2. ASSUME ~IsBurst(s.job) PROVE s.flow.dport = BackgroundPort
    BY <1>3, <2>2 DEF SendAhead
  <2>3. s.flow.dst = NodeAddress(s.flow.dst[1])
    BY <1>3 DEF SendAhead
  <2>4. Len(passed) \in Nat \ {0} /\ Len(passed) - 1 = 0 /\ Len(passed) + 1 = 2
    BY <1>2
  <2> HIDE DEF passed
  <2>5. PacketPlaced(Packet(s.job, s.n, passed, s.flow, d))
    BY <1>2, <2>1, <2>2, <2>3, <2>4, OnItsWay
  <2> QED BY <1>1, <1>5, <2>5, PlacedKept
<1> QED BY <1>4, <1>5 DEF SendPacket

\* A packet forwarded is about to reach the next node of its chain.
LEMMA ForwardPlacedStep ==
  ASSUME IInv, NetTypes, SendsInv, Placed, NEW f \in forwards, Forward(f), Quietly
  PROVE  Placed'
<1>1. forwards' = forwards \ {f} /\ f.due = now
      /\ UNCHANGED <<now, oracle, nextRelayPort, relays, deaf, sends>>
  BY DEF Forward, Due, Quietly
<1>2. RelaysPlaced /\ ForwardPlaced(f) /\ f \in Forwarding
  BY DEF Placed, NetTypes
<1>3. CASE air' = air
  BY <1>1, <1>3, PlacedKept
<1>4. ASSUME NEW r \in relays, NEW d \in LinkDelays, r.job = f.by.job, r.hop = f.by.hop,
             air' = air \cup {Packet(f.job, f.n, f.passed, SentAs(r.node, r.sendPort, r.next), d)}
      PROVE  Placed'
  <2> DEFINE flow == SentAs(r.node, r.sendPort, r.next)
             h == Len(f.passed)
  <2>1. r.node \in Nodes /\ r.sendPort \in Nat /\ r.next \in Nodes \X Nat
    BY DEF NetTypes, Relay
  <2>2. /\ flow \in FlowKey /\ flow.dst = NodeAddress(flow.dst[1])
        /\ flow.dst[1] = r.next[1] /\ flow.dport = r.next[2]
    BY <2>1, SentAsTyped
  <2>3. <<flow.dst[1], flow.dport>> = r.next
    <3>1. r.next = <<r.next[1], r.next[2]>>
      BY <2>1
    <3> HIDE DEF flow
    <3> QED BY <2>2, <3>1
  <2>4. /\ f.job \in Int /\ f.n \in Nat /\ f.passed \in Seq(Nodes)
        /\ f.job \in DOMAIN oracle /\ f.n \in DOMAIN oracle[f.job].schedule
        /\ h \in 2..(Len(oracle[f.job].chain) - 1)
        /\ Passed(f.passed, f.job, h)
        /\ r.job = f.job /\ r.hop = h
        /\ oracle[f.job].start < now
        /\ now <= Deadline(f.job, f.n, h - 1, h - 1)
    BY <1>1, <1>2, <1>4 DEF ForwardPlaced, Forwarding
  <2>5. LeadsTo(r.next, f.job, h + 1)
    <3>1. RelayPlaced(r)
      BY <1>2 DEF RelaysPlaced
    <3> QED BY <2>4, <3>1 DEF RelayPlaced
  <2>6. h \in Nat \ {0} /\ oracle[f.job].start <= now
    <3>1. oracle[f.job].start \in Nat /\ now \in Nat /\ h \in Nat
          /\ Len(oracle[f.job].chain) \in 2..(ChainLenCap + 2)
      BY <2>4, BurstTyped DEF IInv
    <3> QED BY <2>4, <3>1, NumbersTyped
  <2>7. IsBurst(f.job)
    BY <2>4, BurstTyped DEF IsBurst
  <2> HIDE DEF flow
  <2>8. PacketPlaced(Packet(f.job, f.n, f.passed, flow, d))
    BY <2>2, <2>3, <2>4, <2>5, <2>6, <2>7, OnItsWay
  <2>9. air' = air \cup {Packet(f.job, f.n, f.passed, flow, d)}
    BY <1>4 DEF flow
  <2> QED BY <1>1, <2>8, <2>9, PlacedKept
<1> QED BY <1>3, <1>4 DEF Forward

LEMMA NextPlaced ==
  IInv /\ NetTypes /\ SendsInv /\ (FreshPorts => Placed) /\ [Next]_vars => (FreshPorts => Placed)'
<1> SUFFICES ASSUME IInv, NetTypes, SendsInv, FreshPorts => Placed, [Next]_vars, FreshPorts'
             PROVE  Placed'
  OBVIOUS
<1>1. ASSUME NEW actor, NEW chain, NEW schedule, NEW port, Fired(actor, chain, schedule, port)
      PROVE  Placed'
  BY <1>1, FreshBefore, FiredPlaced
<1>2. ASSUME oracle' = oracle PROVE Placed
  BY <1>2 DEF FreshPorts
<1>3. ASSUME NEW src, NEW dst, NEW count, NEW port, Opened(src, dst, count, port) PROVE Placed'
  <2>1. Placed
    BY <1>2, <1>3 DEF Opened, campaignVars
  <2> QED BY <1>3, <2>1, OpenedPlaced
<1>4. ASSUME NEW r \in relays, NEW bound \in BOOLEAN, NEW port, Launched(r, bound, port)
      PROVE  Placed'
  <2>1. Placed
    BY <1>2, <1>4 DEF Launched
  <2> QED BY <1>4, <2>1, LaunchedPlaced
<1>5. CASE Tick
  <2>1. Placed
    BY <1>2, <1>5 DEF Tick, campaignVars
  <2> QED BY <1>5, <2>1, TickPlaced
<1>6. CASE Quietly
  <2>1. Placed
    BY <1>2, <1>6 DEF Quietly
  <2>2. ASSUME NEW s \in active, CloseSocket(s) PROVE Placed'
    BY <1>6, <2>1, <2>2, PlacedKept DEF CloseSocket, Quietly
  <2>3. ASSUME NEW p \in air, SinkRead(p) \/ Undeliverable(p) PROVE Placed'
    BY <1>6, <2>1, <2>3, PlacedKept DEF SinkRead, Undeliverable, Quietly
  <2>4. ASSUME UNCHANGED netVars PROVE Placed'
    BY <1>6, <2>1, <2>4, PlacedKept DEF netVars, Quietly
  <2>5. ASSUME NEW r \in relays, StopApplication(r) PROVE Placed'
    BY <1>6, <2>1, <2>5, StopApplicationPlaced
  <2>6. ASSUME NEW s \in sends, SendPacket(s) PROVE Placed'
    BY <1>6, <2>1, <2>6, SendPacketPlaced
  <2>7. ASSUME NEW p \in air, HandleRead(p) PROVE Placed'
    BY <1>6, <2>1, <2>7, HandleReadPlaced
  <2>8. ASSUME NEW f \in forwards, Forward(f) PROVE Placed'
    BY <1>6, <2>1, <2>8, ForwardPlacedStep
  <2>9. \/ \E s \in active : CloseSocket(s)
        \/ \E p \in air : SinkRead(p) \/ Undeliverable(p) \/ HandleRead(p)
        \/ UNCHANGED netVars
        \/ \E r \in relays : StopApplication(r)
        \/ \E s \in sends : SendPacket(s)
        \/ \E f \in forwards : Forward(f)
        \/ Placed'
    BY <1>1, <1>3, <1>4, <1>5, NextCases
  <2> QED BY <2>2, <2>3, <2>4, <2>5, <2>6, <2>7, <2>8, <2>9
<1> QED BY <1>1, <1>3, <1>4, <1>5, <1>6, NextCases

LEMMA InitPlaced == Init => Placed
<1> SUFFICES ASSUME Init PROVE Placed
  OBVIOUS
<1>1. /\ sends = {} /\ air = {} /\ forwards = {} /\ relays = {} /\ deaf = {}
      /\ oracle = <<>> /\ nextRelayPort = FirstRelayPort
  BY DEF Init, NetInit, CampaignInit
<1>2. nextRelayPort <= FirstRelayPort + Len(oracle) * ChainLenCap
  BY <1>1, NumbersTyped
<1> QED BY <1>1, <1>2 DEF Placed, RelaysPlaced

LEMMA PlacedAlways == Spec => [](IInv /\ NetTypes /\ SendsInv /\ (FreshPorts => Placed))
<1>1. IInv /\ NetTypes /\ SendsInv /\ (FreshPorts => Placed) /\ [Next]_vars => (FreshPorts => Placed)'
  BY NextPlaced
<1>2. Init => (FreshPorts => Placed)
  BY InitPlaced
<1> QED BY <1>1, <1>2, SendsAlways, PTL DEF Spec

\* Until the port cursor has gone through its range, no relay hears another
\* burst's packets or a session's: what a packet has passed is the beginning
\* of its own burst's chain.
THEOREM PacketsOnChain == Spec => [](FreshPorts => PacketsFollowOracle)
<1>1. ASSUME IInv, NetTypes, Placed PROVE PacketsFollowOracle
  <2>1. ASSUME NEW p \in Flying \cup Forwarding, NEW job \in DOMAIN oracle,
               Passed(p.passed, job, Len(p.passed))
        PROVE  IsPrefix(p.passed, oracle[job].chain)
    <3>1. p.passed \in Seq(Nodes) /\ oracle[job].chain \in Seq(Nodes)
      BY <1>1, BurstTyped DEF Flying, Forwarding
    <3> QED BY <2>1, <3>1 DEF Passed, IsPrefix
  <2>2. ASSUME NEW p \in air
        PROVE  IF IsBurst(p.job) THEN IsPrefix(p.passed, oracle[p.job].chain)
               ELSE p \in air /\ Len(p.passed) = 1
    <3>1. PacketPlaced(p) /\ p \in Flying
      BY <1>1 DEF Placed, NetTypes
    <3> QED BY <2>1, <3>1 DEF PacketPlaced
  <2>3. ASSUME NEW f \in forwards
        PROVE  IsBurst(f.job) /\ IsPrefix(f.passed, oracle[f.job].chain)
    <3>1. ForwardPlaced(f) /\ f \in Forwarding
      BY <1>1 DEF Placed, NetTypes
    <3>2. f.job \in DOMAIN oracle
      BY <3>1 DEF ForwardPlaced
    <3>3. IsBurst(f.job)
      BY <1>1, <3>2, BurstTyped DEF IsBurst
    <3> QED BY <2>1, <3>1, <3>3 DEF ForwardPlaced
  <2> QED BY <2>2, <2>3 DEF PacketsFollowOracle
<1> QED BY <1>1, PlacedAlways, PTL

-----------------------------------------------------------------------------
(***************************************************************************)
(* The wire.  A packet of a burst is between two neighbours of its chain,  *)
(* and goes to the service of the victim on the last link only.            *)
(***************************************************************************)
Link(flow, chain, h) ==
  /\ flow.src = <<chain[h - 1], Outgoing[chain[h - 1]][chain[h]]>>
  /\ flow.dst = NodeAddress(chain[h])
  /\ flow.dport = VictimPort <=> h = Len(chain)

OnChain(x) ==
  IF IsBurst(x[1])
  THEN /\ x[1] \in DOMAIN oracle
       /\ x[2] \in DOMAIN oracle[x[1]].schedule
       /\ \E h \in 2..Len(oracle[x[1]].chain) : Link(x[3], oracle[x[1]].chain, h)
  ELSE x[3].dport = BackgroundPort

Wired ==
  /\ logRx \subseteq wire
  /\ \A p \in air : <<p.job, p.n, p.flow>> \in wire
  /\ \A x \in wire : OnChain(x)

LEMMA OnChainKept ==
  ASSUME NEW x, OnChain(x), \A i \in DOMAIN oracle : i \in DOMAIN oracle' /\ oracle'[i] = oracle[i]
  PROVE  OnChain(x)'
BY DEF OnChain

LEMMA OracleKept ==
  ASSUME IInv, NetTypes, [Next]_vars, NEW i \in DOMAIN oracle
  PROVE  i \in DOMAIN oracle' /\ oracle'[i] = oracle[i]
<1>1. ASSUME NEW actor, NEW chain, NEW schedule, NEW port, Fired(actor, chain, schedule, port)
      PROVE  i \in DOMAIN oracle' /\ oracle'[i] = oracle[i]
  BY <1>1, FiredOracle
<1>2. oracle' = oracle \/ \E actor, chain, schedule, port : Fired(actor, chain, schedule, port)
  BY NextCases DEF Opened, Launched, campaignVars, Quietly, Tick
<1> QED BY <1>1, <1>2

\* An endpoint that leads to a node of the chain makes the link to it.
LEMMA LinkOf ==
  ASSUME IInv, NetTypes, NEW flow \in FlowKey, NEW job \in DOMAIN oracle, NEW h,
         flow.dst = NodeAddress(flow.dst[1]),
         LeadsTo(<<flow.dst[1], flow.dport>>, job, h),
         flow.src[1] = oracle[job].chain[h - 1]
  PROVE  Link(OnWire(flow), oracle[job].chain, h) /\ h \in 2..Len(oracle[job].chain)
<1> DEFINE chain == oracle[job].chain
<1>1. h \in 2..Len(chain) /\ flow.dst[1] = chain[h]
  BY DEF LeadsTo
<1>2. /\ OnWire(flow).src = <<flow.src[1], Outgoing[flow.src[1]][flow.dst[1]]>>
      /\ OnWire(flow).dst = flow.dst /\ OnWire(flow).dport = flow.dport
  BY OnWireTyped
<1>3. flow.dport = VictimPort <=> h = Len(chain)
  <2>1. CASE h = Len(chain)
    BY <2>1 DEF LeadsTo
  <2>2. CASE h # Len(chain)
    <3>1. flow.dport \in FirstRelayPort..(nextRelayPort - 1)
      BY <2>2 DEF LeadsTo
    <3>2. flow.dport \in FirstRelayPort..LastRelayPort
      BY <3>1, NumbersTyped DEF NetTypes
    <3> QED BY <2>2, <3>2, PortAssumption
  <2> QED BY <2>1, <2>2
<1> QED BY <1>1, <1>2, <1>3 DEF Link

LEMMA WiredKept ==
  ASSUME Wired, UNCHANGED <<oracle, wire>>,
         \A p \in air' : p \in air, 
         \A x \in logRx' : x \in logRx \/ \E p \in air : x = <<p.job, p.n, p.flow>>
  PROVE  Wired'
<1>1. \A x \in wire' : OnChain(x)'
  BY OnChainKept DEF Wired
<1> QED BY <1>1 DEF Wired

\* A step that hands a packet to the network.
LEMMA WiredMore ==
  ASSUME Wired, oracle' = oracle, logRx' = logRx,
         NEW job, NEW n, NEW passed, NEW flow, NEW d, OnChain(<<job, n, OnWire(flow)>>),
         wire' = wire \cup {<<job, n, OnWire(flow)>>},
         air' = air \cup {Packet(job, n, passed, flow, d)}
  PROVE  Wired'
<1>1. \A x \in wire' : OnChain(x)
  BY DEF Wired
<1>2. \A x \in wire' : OnChain(x)'
  BY <1>1, OnChainKept
<1>3. PICK p : p = Packet(job, n, passed, flow, d)
  OBVIOUS
<1>4. p.job = job /\ p.n = n /\ p.flow = OnWire(flow)
  BY <1>3 DEF Packet
<1> QED BY <1>2, <1>3, <1>4 DEF Wired

LEMMA SendPacketWired ==
  ASSUME IInv, NetTypes, SendsInv, Placed, Wired, NEW s \in sends, SendPacket(s), Quietly
  PROVE  Wired'
<1>1. oracle' = oracle /\ logRx' = logRx
  BY DEF SendPacket, Quietly
<1>2. s.flow \in FlowKey /\ SendAhead(s) /\ SendPlaced(s)
  BY DEF NetTypes, Sending, SendsInv, Placed
<1>3. OnChain(<<s.job, s.n, OnWire(s.flow)>>)
  <2>1. CASE IsBurst(s.job)
    <3>1. /\ s.job \in DOMAIN oracle /\ s.n \in DOMAIN oracle[s.job].schedule
          /\ s.flow.src[1] = oracle[s.job].chain[2 - 1]
          /\ LeadsTo(<<s.flow.dst[1], s.flow.dport>>, s.job, 2)
          /\ s.flow.dst = NodeAddress(s.flow.dst[1])
      BY <1>2, <2>1 DEF SendAhead, SendPlaced
    <3>2. Link(OnWire(s.flow), oracle[s.job].chain, 2) /\ 2 \in 2..Len(oracle[s.job].chain)
      BY <1>2, <3>1, LinkOf
    <3> QED BY <2>1, <3>1, <3>2 DEF OnChain
  <2>2. CASE ~IsBurst(s.job)
    <3>1. OnWire(s.flow).dport = BackgroundPort
      BY <1>2, <2>2, OnWireTyped DEF SendAhead
    <3> QED BY <2>2, <3>1 DEF OnChain
  <2> QED BY <2>1, <2>2
<1>4. CASE UNCHANGED <<wire, air>>
  BY <1>1, <1>4, WiredKept
<1>5. ASSUME NEW d \in LinkDelays,
             wire' = wire \cup {<<s.job, s.n, OnWire(s.flow)>>},
             air' = air \cup {Packet(s.job, s.n, <<s.flow.src[1]>>, s.flow, d)}
      PROVE  Wired'
  BY <1>1, <1>3, <1>5, WiredMore
<1> QED BY <1>4, <1>5 DEF SendPacket

LEMMA ForwardWired ==
  ASSUME IInv, NetTypes, Placed, Wired, NEW f \in forwards, Forward(f), Quietly
  PROVE  Wired'
<1>1. oracle' = oracle /\ logRx' = logRx
  BY DEF Forward, Quietly
<1>2. CASE UNCHANGED <<logTx, wire, air>>
  BY <1>1, <1>2, WiredKept
<1>3. ASSUME NEW r \in relays, NEW d \in LinkDelays, r.job = f.by.job, r.hop = f.by.hop,
             LET flow == SentAs(r.node, r.sendPort, r.next)
             IN  /\ logTx' = logTx \cup {<<f.job, f.n, flow>>}
                 /\ wire' = wire \cup {<<f.job, f.n, OnWire(flow)>>}
                 /\ air' = air \cup {Packet(f.job, f.n, f.passed, flow, d)}
      PROVE  Wired'
  <2> DEFINE flow == SentAs(r.node, r.sendPort, r.next)
             h == Len(f.passed)
  <2>1. r.node \in Nodes /\ r.sendPort \in Nat /\ r.next \in Nodes \X Nat
    BY DEF NetTypes, Relay
  <2>2. /\ flow \in FlowKey /\ flow.dst = NodeAddress(flow.dst[1])
        /\ flow.dst[1] = r.next[1] /\ flow.dport = r.next[2] /\ flow.src[1] = r.node
    BY <2>1, SentAsTyped
  <2>3. <<flow.dst[1], flow.dport>> = r.next
    <3>1. r.next = <<r.next[1], r.next[2]>>
      BY <2>1
    <3> HIDE DEF flow
    <3> QED BY <2>2, <3>1
  <2>4. /\ wire' = wire \cup {<<f.job, f.n, OnWire(flow)>>}
        /\ air' = air \cup {Packet(f.job, f.n, f.passed, flow, d)}
    BY <1>3
  <2> HIDE DEF flow
  <2>5. ForwardPlaced(f) /\ RelayPlaced(r)
    BY DEF Placed, RelaysPlaced
  <2>6. /\ f.job \in DOMAIN oracle /\ f.n \in DOMAIN oracle[f.job].schedule
        /\ r.job = f.job /\ r.hop = h
    BY <1>3, <2>5 DEF ForwardPlaced
  <2>7. LeadsTo(r.next, f.job, h + 1) /\ r.node = oracle[f.job].chain[h]
    BY <2>5, <2>6 DEF RelayPlaced, LeadsTo
  <2>8. (h + 1) - 1 = h
    <3>1. f.passed \in Seq(Nodes)
      BY DEF NetTypes, Forwarding
    <3> QED BY <3>1
  <2>9. flow.src[1] = oracle[f.job].chain[(h + 1) - 1]
    BY <2>2, <2>7, <2>8
  <2>10. Link(OnWire(flow), oracle[f.job].chain, h + 1) /\ h + 1 \in 2..Len(oracle[f.job].chain)
    <3> HIDE DEF h
    <3> QED BY <2>2, <2>3, <2>6, <2>7, <2>9, LinkOf
  <2>11. IsBurst(f.job)
    BY <2>6, BurstTyped DEF IsBurst
  <2>12. OnChain(<<f.job, f.n, OnWire(flow)>>)
    BY <2>6, <2>10, <2>11 DEF OnChain
  <2> QED BY <1>1, <2>4, <2>12, WiredMore
<1> QED BY <1>2, <1>3 DEF Forward

LEMMA NextWired ==
  ASSUME IInv, NetTypes, SendsInv, FreshPorts => Placed /\ Wired, [Next]_vars, FreshPorts'
  PROVE  Wired'
<1>1. ASSUME NEW actor, NEW chain, NEW schedule, NEW port, Fired(actor, chain, schedule, port)
      PROVE  Wired'
  <2>1. Wired
    BY <1>1, FreshBefore
  <2>2. UNCHANGED <<wire, air, logRx>>
    BY <1>1 DEF Fired
  <2>3. \A i \in DOMAIN oracle : i \in DOMAIN oracle' /\ oracle'[i] = oracle[i]
    BY OracleKept
  <2>4. \A x \in wire' : OnChain(x)'
    BY <2>1, <2>2, <2>3, OnChainKept DEF Wired
  <2> QED BY <2>1, <2>2, <2>4 DEF Wired
<1>2. ASSUME oracle' = oracle PROVE Placed /\ Wired
  BY <1>2 DEF FreshPorts
<1>3. ASSUME NEW src, NEW dst, NEW count, NEW port, Opened(src, dst, count, port) PROVE Wired'
  BY <1>2, <1>3, WiredKept DEF Opened, campaignVars
<1>4. ASSUME NEW r \in relays, NEW bound \in BOOLEAN, NEW port, Launched(r, bound, port)
      PROVE  Wired'
  BY <1>2, <1>4, WiredKept DEF Launched
<1>5. CASE Tick
  BY <1>2, <1>5, WiredKept DEF Tick, campaignVars
<1>6. CASE Quietly
  <2>1. Placed /\ Wired
    BY <1>2, <1>6 DEF Quietly
  <2>2. ASSUME NEW s \in active, CloseSocket(s) PROVE Wired'
    BY <1>6, <2>1, <2>2, WiredKept DEF CloseSocket, Quietly
  <2>3. ASSUME NEW p \in air, SinkRead(p) \/ Undeliverable(p) \/ HandleRead(p) PROVE Wired'
    BY <1>6, <2>1, <2>3, WiredKept DEF SinkRead, Undeliverable, HandleRead, Quietly
  <2>4. ASSUME UNCHANGED netVars PROVE Wired'
    BY <1>6, <2>1, <2>4, WiredKept DEF netVars, Quietly
  <2>5. ASSUME NEW r \in relays, StopApplication(r) PROVE Wired'
    BY <1>6, <2>1, <2>5, WiredKept DEF StopApplication, Quietly
  <2>6. ASSUME NEW s \in sends, SendPacket(s) PROVE Wired'
    BY <1>6, <2>1, <2>6, SendPacketWired
  <2>7. ASSUME NEW f \in forwards, Forward(f) PROVE Wired'
    BY <1>6, <2>1, <2>7, ForwardWired
  <2>8. \/ \E s \in active : CloseSocket(s)
        \/ \E p \in air : SinkRead(p) \/ Undeliverable(p) \/ HandleRead(p)
        \/ UNCHANGED netVars
        \/ \E r \in relays : StopApplication(r)
        \/ \E s \in sends : SendPacket(s)
        \/ \E f \in forwards : Forward(f)
        \/ Wired'
    BY <1>1, <1>3, <1>4, <1>5, NextCases
  <2> QED BY <2>2, <2>3, <2>4, <2>5, <2>6, <2>7, <2>8
<1> QED BY <1>1, <1>3, <1>4, <1>5, <1>6, NextCases

LEMMA WiredAlways ==
  Spec => [](IInv /\ NetTypes /\ SendsInv /\ (FreshPorts => Placed /\ Wired))
<1>1. IInv /\ NetTypes /\ SendsInv /\ (FreshPorts => Placed /\ Wired) /\ [Next]_vars
        => (FreshPorts => Placed /\ Wired)'
  <2> SUFFICES ASSUME IInv, NetTypes, SendsInv, FreshPorts => Placed /\ Wired, [Next]_vars, FreshPorts'
               PROVE  Placed' /\ Wired'
    OBVIOUS
  <2> QED BY NextPlaced, NextWired
<1>2. Init => (FreshPorts => Placed /\ Wired)
  BY InitPlaced DEF Init, NetInit, Wired
<1> QED BY <1>1, <1>2, SendsAlways, PTL DEF Spec

LEMMA LookupOutgoing ==
  ASSUME NEW n \in Nodes, NEW m \in Nodes
  PROVE  Lookup(<<n, Outgoing[n][m]>>) = n
<1>1. Outgoing[n][m] \in 1..Interfaces[n]
  BY NetworkAssumption
<1>2. <<n, Outgoing[n][m]>> \in Registered
  BY <1>1 DEF Registered
<1> QED BY <1>2 DEF Lookup

\* Under the same condition, whatever interface a packet comes by, the address
\* index resolves the source its receiver logs to the node before it in the
\* burst's chain, on which the traceback's step upstream rests.
THEOREM SendersNamed == Spec => [](FreshPorts => ReceptionsNameTheirSender)
<1>1. ASSUME IInv, Wired PROVE ReceptionsNameTheirSender
  <2> SUFFICES ASSUME NEW x \in logRx, IsBurst(x[1])
               PROVE  \E h \in 2..Len(oracle[x[1]].chain) :
                        /\ oracle[x[1]].chain[h] = x[3].dst[1]
                        /\ oracle[x[1]].chain[h - 1] = Lookup(x[3].src)
    BY DEF ReceptionsNameTheirSender
  <2> DEFINE chain == oracle[x[1]].chain
  <2>1. x[1] \in DOMAIN oracle
    BY <1>1 DEF Wired, OnChain
  <2>2. PICK h \in 2..Len(chain) : Link(x[3], chain, h)
    BY <1>1 DEF Wired, OnChain
  <2>3. chain[h] \in Nodes /\ chain[h - 1] \in Nodes
    <3>1. chain \in Seq(Nodes)
      BY <1>1, <2>1, BurstTyped
    <3> QED BY <2>2, <3>1
  <2>4. Lookup(x[3].src) = chain[h - 1] /\ x[3].dst[1] = chain[h]
    BY <2>2, <2>3, LookupOutgoing DEF Link, NodeAddress
  <2> QED BY <2>2, <2>4
<1> QED BY <1>1, WiredAlways, PTL

-----------------------------------------------------------------------------
(***************************************************************************)
(* Who speaks: the job, node and port of every socket that has sent or may *)
(* yet send.  No two jobs share a node's port, and no job has two.         *)
(***************************************************************************)
Speakers ==
  {<<s.job, s.flow.src[1], s.flow.sport>> : s \in sends}
    \cup {<<r.job, r.node, r.sendPort>> : r \in {q \in relays : q.started}}
    \cup {<<x[1], x[3].src[1], x[3].sport>> : x \in wire}

SpeakersApart ==
  /\ \A a \in Speakers :
       a[1] <= Len(oracle) /\ -sessions <= a[1] /\ a[3] < ephemeral[a[2]]
  /\ \A a, b \in Speakers : a[2] = b[2] => (a[3] = b[3] <=> a[1] = b[1])
  /\ \A r \in relays, a \in Speakers : ~r.started => ~(a[1] = r.job /\ a[2] = r.node)

LEMMA SpeakersTyped ==
  ASSUME NetTypes
  PROVE  Speakers \subseteq Int \X Nodes \X Nat
BY DEF NetTypes, Speakers, Sending, Relay, Record, FlowKey

\* Steps in which nobody new speaks.
LEMMA SpeakersKept ==
  ASSUME NetTypes, SpeakersApart, Speakers' \subseteq Speakers,
         UNCHANGED <<oracle, sessions, ephemeral>>,
         \A r \in relays' : r \in relays
  PROVE  SpeakersApart'
<1>1. \A a \in Speakers' : a[1] <= Len(oracle') /\ -sessions' <= a[1] /\ a[3] < ephemeral'[a[2]]
  BY DEF SpeakersApart
<1>2. \A a, b \in Speakers' : a[2] = b[2] => (a[3] = b[3] <=> a[1] = b[1])
  BY DEF SpeakersApart
<1>3. \A r \in relays', a \in Speakers' : ~r.started => ~(a[1] = r.job /\ a[2] = r.node)
  BY DEF SpeakersApart
<1> QED BY <1>1, <1>2, <1>3 DEF SpeakersApart

\* Steps in which one speaks for the first time, from the next free port.
LEMMA SpeakersMore ==
  ASSUME IInv, NetTypes, SpeakersApart,
         NEW job \in Int, NEW node \in Nodes, NEW port \in Nat,
         Speakers' \subseteq Speakers \cup {<<job, node, port>>},
         \A a \in Speakers : ~(a[1] = job /\ a[2] = node),
         port >= ephemeral[node],
         ephemeral' = [ephemeral EXCEPT ![node] = port + 1],
         Len(oracle') \in Nat, Len(oracle) <= Len(oracle'), job <= Len(oracle'),
         sessions' \in Nat, sessions <= sessions', -sessions' <= job,
         \A r \in relays', a \in Speakers' : ~r.started => ~(a[1] = r.job /\ a[2] = r.node)
  PROVE  SpeakersApart'
<1> DEFINE new == <<job, node, port>>
<1>1. /\ ephemeral \in [Nodes -> Nat] /\ sessions \in Nat /\ Len(oracle) \in Nat
      /\ ephemeral[node] \in Nat
  BY DEF NetTypes, Ephemeral, IInv
<1>2. ASSUME NEW a \in Speakers
      PROVE  /\ a[1] \in Int /\ a[2] \in Nodes /\ a[3] \in Nat
             /\ a[1] <= Len(oracle) /\ -sessions <= a[1] /\ a[3] < ephemeral[a[2]]
  BY SpeakersTyped DEF SpeakersApart
<1>3. new[1] = job /\ new[2] = node /\ new[3] = port
  OBVIOUS
<1>4. \A a \in Speakers' : a \in Speakers \/ a = new
  OBVIOUS
<1> HIDE DEF new
<1>5. ASSUME NEW a \in Speakers'
      PROVE  a[1] <= Len(oracle') /\ -sessions' <= a[1] /\ a[3] < ephemeral'[a[2]]
  <2>1. CASE a = new
    <3>1. ephemeral'[node] = port + 1
      BY <1>1
    <3>2. a[1] = job /\ a[2] = node /\ a[3] = port /\ port < port + 1
      BY <1>3, <2>1
    <3>3. a[3] < ephemeral'[a[2]]
      BY <3>1, <3>2
    <3> QED BY <3>2, <3>3
  <2>2. CASE a \in Speakers
    <3>1. a[2] \in Nodes /\ a[3] \in Nat /\ a[1] \in Int
          /\ a[1] <= Len(oracle) /\ -sessions <= a[1] /\ a[3] < ephemeral[a[2]]
      BY <1>2, <2>2
    <3>2. a[3] < ephemeral'[a[2]]
      <4>1. CASE a[2] = node
        <5>1. ephemeral'[a[2]] = port + 1
          BY <1>1, <4>1
        <5> QED BY <1>1, <3>1, <4>1, <5>1
      <4>2. CASE a[2] # node
        <5>1. ephemeral'[a[2]] = ephemeral[a[2]]
          BY <1>1, <3>1, <4>2
        <5> QED BY <3>1, <5>1
      <4> QED BY <4>1, <4>2
    <3> QED BY <1>1, <3>1, <3>2
  <2> QED BY <1>4, <2>1, <2>2
<1>6. ASSUME NEW a \in Speakers, a[2] = node PROVE a[3] # port /\ a[1] # job
  <2>1. a[3] \in Nat /\ a[3] < ephemeral[node]
    BY <1>2, <1>6
  <2> QED BY <1>1, <1>6, <2>1
<1>7. \A a, b \in Speakers' : a[2] = b[2] => (a[3] = b[3] <=> a[1] = b[1])
  <2>1. \A a, b \in Speakers : a[2] = b[2] => (a[3] = b[3] <=> a[1] = b[1])
    BY DEF SpeakersApart
  <2> QED BY <1>3, <1>4, <1>6, <2>1
<1> QED BY <1>5, <1>7 DEF SpeakersApart

LEMMA FiredSpeakers ==
  ASSUME IInv, NetTypes, Placed, SpeakersApart, NEW actor, NEW chain, NEW schedule, NEW port,
         Fired(actor, chain, schedule, port)
  PROVE  SpeakersApart'
<1> DEFINE id == Len(oracle) + 1
           flow == SentAs(chain[1], port, NextHop(chain, 1))
<1>1. /\ port \in Nat /\ port >= ephemeral[chain[1]]
      /\ ephemeral' = [ephemeral EXCEPT ![chain[1]] = port + 1]
      /\ UNCHANGED <<wire, sessions>>
      /\ relays' = relays \cup {Enlisted(chain, i) : i \in 2..(Len(chain) - 1)}
      /\ sends' = sends \cup {[job |-> id, n |-> n, due |-> now + schedule[n], flow |-> flow] :
                                n \in DOMAIN schedule}
      /\ chain \in Seq(Nodes) /\ Len(chain) \in 2..(ChainLenCap + 2) /\ Simple(chain)
  BY DEF Fired, Ephemeral
<1>2. id \in Int /\ Len(oracle') = id /\ Len(oracle) \in Nat /\ id \notin DOMAIN oracle
  <2>1. Len(oracle) \in Nat
    BY DEF IInv
  <2>2. Len(oracle') = id /\ id \notin DOMAIN oracle
    BY FiredOracle
  <2> QED BY <2>1, <2>2
<1>3. chain[1] \in Nodes /\ NextHop(chain, 1) \in Nodes \X Nat
  <2>1. 1 \in 1..(Len(chain) - 1)
    BY <1>1, NumbersTyped
  <2> QED BY <1>1, <2>1, HopsTyped
<1>4. flow.src[1] = chain[1] /\ flow.sport = port
  BY <1>1, <1>3, SentAsTyped
<1>5. \A i \in 2..(Len(chain) - 1) :
        /\ ~Enlisted(chain, i).started
        /\ Enlisted(chain, i).job = id /\ Enlisted(chain, i).node = chain[i]
  BY DEF Enlisted
<1> HIDE DEF id, flow
<1>6. Speakers' \subseteq Speakers \cup {<<id, chain[1], port>>}
  <2> SUFFICES ASSUME NEW a \in Speakers' PROVE a \in Speakers \/ a = <<id, chain[1], port>>
    OBVIOUS
  <2>1. CASE \E s \in sends' : a = <<s.job, s.flow.src[1], s.flow.sport>>
    <3>1. PICK s \in sends' : a = <<s.job, s.flow.src[1], s.flow.sport>>
      BY <2>1
    <3>2. CASE s \in sends
      BY <3>1, <3>2 DEF Speakers
    <3>3. CASE s \notin sends
      <4>1. s.job = id /\ s.flow = flow
        BY <1>1, <3>3
      <4> QED BY <1>4, <3>1, <4>1
    <3> QED BY <3>2, <3>3
  <2>2. CASE \E r \in relays' : r.started /\ a = <<r.job, r.node, r.sendPort>>
    BY <1>1, <1>5, <2>2 DEF Speakers
  <2>3. CASE \E x \in wire : a = <<x[1], x[3].src[1], x[3].sport>>
    BY <2>3 DEF Speakers
  <2> QED BY <1>1, <2>1, <2>2, <2>3 DEF Speakers
<1>7. \A a \in Speakers : a[1] # id
  <2>1. \A a \in Speakers : a[1] <= Len(oracle) /\ a[1] \in Int
    BY SpeakersTyped DEF SpeakersApart
  <2> QED BY <1>2, <2>1 DEF id
<1>8. ASSUME NEW r \in relays', NEW a \in Speakers', ~r.started PROVE ~(a[1] = r.job /\ a[2] = r.node)
  <2>1. CASE r \in relays
    <3>1. r.job # id
      BY <1>2, <2>1 DEF Placed, RelaysPlaced, RelayPlaced
    <3> QED BY <1>6, <1>8, <2>1, <3>1 DEF SpeakersApart
  <2>2. CASE r \notin relays
    <3>1. PICK i \in 2..(Len(chain) - 1) : r = Enlisted(chain, i)
      BY <1>1, <2>2
    <3>2. r.job = id /\ r.node = chain[i] /\ chain[i] # chain[1]
      <4>1. 1 \in DOMAIN chain /\ i \in DOMAIN chain /\ i # 1
        BY <1>1, NumbersTyped
      <4> QED BY <1>1, <1>5, <3>1, <4>1 DEF Simple
    <3> QED BY <1>6, <1>7, <3>2
  <2> QED BY <2>1, <2>2
<1>9. sessions' \in Nat /\ sessions <= sessions' /\ -sessions' <= id
      /\ Len(oracle') \in Nat /\ Len(oracle) <= Len(oracle') /\ id <= Len(oracle')
  BY <1>1, <1>2 DEF NetTypes, id
<1> QED BY <1>1, <1>2, <1>3, <1>6, <1>7, <1>8, <1>9, SpeakersMore

LEMMA OpenedSpeakers ==
  ASSUME IInv, NetTypes, Placed, SpeakersApart, NEW src, NEW dst, NEW count, NEW port,
         Opened(src, dst, count, port)
  PROVE  SpeakersApart'
<1> DEFINE id == -(sessions + 1)
           flow == SentAs(src, port, <<dst, BackgroundPort>>)
<1>1. /\ port \in Nat /\ port >= ephemeral[src] /\ src \in Nodes /\ dst \in Nodes
      /\ ephemeral' = [ephemeral EXCEPT ![src] = port + 1]
      /\ UNCHANGED <<wire, oracle, relays>> /\ sessions' = sessions + 1
      /\ sends' = sends \cup {[job |-> id, n |-> n, due |-> now + n - 1, flow |-> flow] :
                                n \in 1..count}
  BY DEF Opened, Ephemeral, campaignVars
<1>2. sessions \in Nat /\ Len(oracle) \in Nat
  BY DEF IInv, NetTypes
<1>3. flow.src[1] = src /\ flow.sport = port
  <2>1. <<dst, BackgroundPort>> \in Nodes \X Nat
    BY <1>1, NumbersTyped
  <2> QED BY <1>1, <2>1, SentAsTyped
<1>4. id \in Int /\ id <= Len(oracle) /\ -sessions' <= id /\ id < -sessions
  BY <1>1, <1>2
<1> HIDE DEF id, flow
<1>5. Speakers' \subseteq Speakers \cup {<<id, src, port>>}
  <2> SUFFICES ASSUME NEW a \in Speakers' PROVE a \in Speakers \/ a = <<id, src, port>>
    OBVIOUS
  <2>1. CASE \E s \in sends' : a = <<s.job, s.flow.src[1], s.flow.sport>>
    <3>1. PICK s \in sends' : a = <<s.job, s.flow.src[1], s.flow.sport>>
      BY <2>1
    <3>2. CASE s \in sends
      BY <3>1, <3>2 DEF Speakers
    <3>3. CASE s \notin sends
      <4>1. s.job = id /\ s.flow = flow
        BY <1>1, <3>3
      <4> QED BY <1>3, <3>1, <4>1
    <3> QED BY <3>2, <3>3
  <2> QED BY <1>1, <2>1 DEF Speakers
<1>6. \A a \in Speakers : a[1] # id
  <2>1. \A a \in Speakers : -sessions <= a[1] /\ a[1] \in Int
    BY SpeakersTyped DEF SpeakersApart
  <2> QED BY <1>2, <1>4, <2>1
<1>7. ASSUME NEW r \in relays', NEW a \in Speakers', ~r.started PROVE ~(a[1] = r.job /\ a[2] = r.node)
  <2>1. r.job # id
    BY <1>1, <1>2, <1>4 DEF NetTypes, Relay
  <2> QED BY <1>1, <1>5, <1>7, <2>1 DEF SpeakersApart
<1>8. sessions' \in Nat /\ sessions <= sessions' /\ Len(oracle') \in Nat
      /\ Len(oracle) <= Len(oracle') /\ id <= Len(oracle')
  BY <1>1, <1>2, <1>4
<1> QED BY <1>1, <1>4, <1>5, <1>6, <1>7, <1>8, SpeakersMore

LEMMA LaunchedSpeakers ==
  ASSUME IInv, NetTypes, Placed, SpeakersApart, NEW r, NEW bound \in BOOLEAN, NEW port,
         Launched(r, bound, port)
  PROVE  SpeakersApart'
<1>1. PICK q : q = LaunchedAs(r, bound, port)
  OBVIOUS
<1>2. q.job = r.job /\ q.node = r.node /\ q.started /\ q.sendPort = port
  BY <1>1, LaunchedTyped
<1>3. /\ port \in Nat /\ port >= ephemeral[r.node] /\ r \in relays /\ ~r.started
      /\ ephemeral' = [ephemeral EXCEPT ![r.node] = port + 1]
      /\ UNCHANGED <<wire, sends, oracle, sessions>>
      /\ relays' = (relays \ {r}) \cup {q}
  BY <1>1 DEF Launched, Ephemeral
<1>4. r.job \in Int /\ r.node \in Nodes /\ sessions \in Nat /\ Len(oracle) \in Nat
  BY <1>3 DEF NetTypes, Relay, IInv
<1>5. r.job \in DOMAIN oracle /\ r.job <= Len(oracle) /\ -sessions <= r.job
  <2>1. r.job \in DOMAIN oracle
    BY <1>3 DEF Placed, RelaysPlaced, RelayPlaced
  <2>2. r.job \in Nat
    BY <1>3 DEF NetTypes, Relay
  <2> QED BY <1>4, <2>1, <2>2 DEF IInv
<1>6. Speakers' \subseteq Speakers \cup {<<r.job, r.node, port>>}
  BY <1>2, <1>3 DEF Speakers
<1>7. \A a \in Speakers : ~(a[1] = r.job /\ a[2] = r.node)
  BY <1>3 DEF SpeakersApart
<1>8. ASSUME NEW x \in relays', NEW a \in Speakers', ~x.started PROVE ~(a[1] = x.job /\ a[2] = x.node)
  <2>1. x \in relays /\ x # r
    BY <1>2, <1>3, <1>8
  <2>2. CASE a \in Speakers
    BY <1>8, <2>1, <2>2 DEF SpeakersApart
  <2>3. CASE a = <<r.job, r.node, port>>
    <3> SUFFICES ASSUME x.job = r.job, x.node = r.node PROVE FALSE
      BY <2>3
    <3>1. RelayPlaced(x) /\ RelayPlaced(r)
      BY <1>3, <2>1 DEF Placed, RelaysPlaced
    <3> DEFINE chain == oracle[r.job].chain
    <3>2. /\ x.hop \in 2..(Len(chain) - 1) /\ r.hop \in 2..(Len(chain) - 1)
          /\ chain[x.hop] = x.node /\ chain[r.hop] = r.node
      BY <3>1 DEF RelayPlaced, LeadsTo
    <3>3. chain \in Seq(Nodes) /\ Simple(chain) /\ Len(chain) \in 2..(ChainLenCap + 2)
      BY <1>5, BurstTyped
    <3>4. x.hop \in DOMAIN chain /\ r.hop \in DOMAIN chain
      BY <3>2, <3>3, NumbersTyped
    <3>5. x.hop = r.hop
      BY <3>2, <3>3, <3>4 DEF Simple
    <3> QED BY <1>3, <2>1, <3>5 DEF Placed, RelaysPlaced
  <2> QED BY <1>6, <2>2, <2>3
<1>9. sessions' \in Nat /\ sessions <= sessions' /\ -sessions' <= r.job /\ Len(oracle') \in Nat
      /\ Len(oracle) <= Len(oracle') /\ r.job <= Len(oracle')
  BY <1>3, <1>4, <1>5
<1> QED BY <1>3, <1>4, <1>6, <1>7, <1>8, <1>9, SpeakersMore

LEMMA SendPacketSpeakers ==
  ASSUME NetTypes, SpeakersApart, NEW s \in sends, SendPacket(s), Quietly
  PROVE  SpeakersApart'
<1>1. sends' \subseteq sends /\ UNCHANGED <<oracle, sessions, ephemeral, relays>>
  BY DEF SendPacket, Quietly
<1>2. s.flow \in FlowKey
  BY DEF NetTypes, Sending
<1>3. OnWire(s.flow).src[1] = s.flow.src[1] /\ OnWire(s.flow).sport = s.flow.sport
  BY <1>2, OnWireTyped
<1>4. \A x \in wire' : x \in wire \/ x = <<s.job, s.n, OnWire(s.flow)>>
  BY DEF SendPacket
<1>5. Speakers' \subseteq Speakers
  BY <1>1, <1>3, <1>4 DEF Speakers
<1> QED BY <1>1, <1>5, SpeakersKept

LEMMA ForwardSpeakers ==
  ASSUME NetTypes, Placed, SpeakersApart, NEW f \in forwards, Forward(f), Quietly
  PROVE  SpeakersApart'
<1>1. UNCHANGED <<oracle, sessions, ephemeral, relays, sends>>
  BY DEF Forward, Quietly
<1>2. ASSUME NEW x \in wire', x \notin wire
      PROVE  \E r \in relays : /\ r.started
                               /\ <<x[1], x[3].src[1], x[3].sport>> = <<r.job, r.node, r.sendPort>>
  <2>1. PICK r \in relays :
          /\ r.job = f.by.job /\ r.hop = f.by.hop
          /\ x = <<f.job, f.n, OnWire(SentAs(r.node, r.sendPort, r.next))>>
    BY <1>2 DEF Forward
  <2> DEFINE flow == SentAs(r.node, r.sendPort, r.next)
  <2>2. r.node \in Nodes /\ r.sendPort \in Nat /\ r.next \in Nodes \X Nat
    BY DEF NetTypes, Relay
  <2>3. flow \in FlowKey /\ flow.src[1] = r.node /\ flow.sport = r.sendPort
    BY <2>2, SentAsTyped
  <2>4. x[1] = f.job /\ x[3] = OnWire(flow)
    BY <2>1
  <2> HIDE DEF flow
  <2>5. x[3].src[1] = r.node /\ x[3].sport = r.sendPort
    BY <2>3, <2>4, OnWireTyped
  <2>6. ForwardPlaced(f)
    BY DEF Placed
  <2>7. f.by.job = f.job
    BY <2>6 DEF ForwardPlaced
  <2>8. r.job = f.job
    BY <2>1, <2>7
  <2>9. f.by.hop = Len(f.passed)
    BY <2>6 DEF ForwardPlaced
  <2>10. r.hop = Len(f.passed)
    BY <2>1, <2>9
  <2>11. r.started
    BY <2>6, <2>8, <2>10 DEF ForwardPlaced
  <2> QED BY <2>4, <2>5, <2>8, <2>11
<1>3. Speakers' \subseteq Speakers
  BY <1>1, <1>2 DEF Speakers
<1> QED BY <1>1, <1>3, SpeakersKept

LEMMA NextSpeakers ==
  ASSUME IInv, NetTypes, FreshPorts => Placed /\ SpeakersApart, [Next]_vars, FreshPorts'
  PROVE  SpeakersApart'
<1>1. ASSUME NEW actor, NEW chain, NEW schedule, NEW port, Fired(actor, chain, schedule, port)
      PROVE  SpeakersApart'
  BY <1>1, FreshBefore, FiredSpeakers
<1>2. ASSUME oracle' = oracle PROVE Placed /\ SpeakersApart
  BY <1>2 DEF FreshPorts
<1>3. ASSUME NEW src, NEW dst, NEW count, NEW port, Opened(src, dst, count, port)
      PROVE  SpeakersApart'
  <2>1. Placed /\ SpeakersApart
    BY <1>2, <1>3 DEF Opened, campaignVars
  <2> QED BY <1>3, <2>1, OpenedSpeakers
<1>4. ASSUME NEW r \in relays, NEW bound \in BOOLEAN, NEW port, Launched(r, bound, port)
      PROVE  SpeakersApart'
  <2>1. Placed /\ SpeakersApart
    BY <1>2, <1>4 DEF Launched
  <2> QED BY <1>4, <2>1, LaunchedSpeakers
<1>5. ASSUME Quietly, UNCHANGED <<sends, wire, ephemeral>>, relays' \subseteq relays
      PROVE  SpeakersApart'
  <2>1. Placed /\ SpeakersApart /\ UNCHANGED <<oracle, sessions>>
    BY <1>2, <1>5 DEF Quietly
  <2>2. Speakers' \subseteq Speakers
    BY <1>5 DEF Speakers
  <2> QED BY <1>5, <2>1, <2>2, SpeakersKept
<1>6. CASE Tick
  BY <1>5, <1>6, TickWaits
<1>7. CASE Quietly
  <2>1. Placed /\ SpeakersApart
    BY <1>2, <1>7 DEF Quietly
  <2>2. ASSUME NEW s \in active, CloseSocket(s) PROVE SpeakersApart'
    BY <1>5, <1>7, <2>2 DEF CloseSocket
  <2>3. ASSUME NEW p \in air, SinkRead(p) \/ Undeliverable(p) \/ HandleRead(p) PROVE SpeakersApart'
    BY <1>5, <1>7, <2>3 DEF SinkRead, Undeliverable, HandleRead
  <2>4. ASSUME UNCHANGED netVars PROVE SpeakersApart'
    BY <1>5, <1>7, <2>4 DEF netVars
  <2>5. ASSUME NEW r \in relays, StopApplication(r) PROVE SpeakersApart'
    BY <1>5, <1>7, <2>5 DEF StopApplication
  <2>6. ASSUME NEW s \in sends, SendPacket(s) PROVE SpeakersApart'
    BY <1>7, <2>1, <2>6, SendPacketSpeakers
  <2>7. ASSUME NEW f \in forwards, Forward(f) PROVE SpeakersApart'
    BY <1>7, <2>1, <2>7, ForwardSpeakers
  <2>8. \/ \E s \in active : CloseSocket(s)
        \/ \E p \in air : SinkRead(p) \/ Undeliverable(p) \/ HandleRead(p)
        \/ UNCHANGED netVars
        \/ \E r \in relays : StopApplication(r)
        \/ \E s \in sends : SendPacket(s)
        \/ \E f \in forwards : Forward(f)
        \/ SpeakersApart'
    BY <1>1, <1>3, <1>4, <1>6, NextCases
  <2> QED BY <2>2, <2>3, <2>4, <2>5, <2>6, <2>7, <2>8
<1> QED BY <1>1, <1>3, <1>4, <1>6, <1>7, NextCases

LEMMA SpeakersAlways ==
  Spec => [](IInv /\ NetTypes /\ (FreshPorts => Placed /\ Wired /\ SpeakersApart))
<1>1. IInv /\ NetTypes /\ (FreshPorts => Placed /\ Wired) /\ (FreshPorts => SpeakersApart) /\ [Next]_vars
        => (FreshPorts => SpeakersApart)'
  <2> SUFFICES ASSUME IInv, NetTypes, FreshPorts => Placed /\ Wired, FreshPorts => SpeakersApart,
                      [Next]_vars, FreshPorts'
               PROVE  SpeakersApart'
    OBVIOUS
  <2> QED BY NextSpeakers
<1>2. Init => (FreshPorts => SpeakersApart)
  BY DEF Init, NetInit, SpeakersApart, Speakers
<1> QED BY <1>1, <1>2, WiredAlways, PTL DEF Spec

\* Under the same condition, bursts and flows into the victim's service
\* correspond one to one, and no session has one: the observer's traces, one
\* to a flow, are one to a burst.
THEOREM FlowsApart == Spec => [](FreshPorts => OneVictimFlowPerBurst)
<1>1. ASSUME IInv, NetTypes, Wired, SpeakersApart PROVE OneVictimFlowPerBurst
  <2>1. ASSUME NEW x \in logRx, x[3].dst[1] = Victim, x[3].dport = VictimPort
        PROVE  /\ x[3] \in FlowKey /\ IsBurst(x[1])
               /\ <<x[1], x[3].src[1], x[3].sport>> \in Speakers
               /\ LET chain == oracle[x[1]].chain
                  IN  Link(x[3], chain, Len(chain))
    <3>1. x \in wire /\ OnChain(x) /\ x[3] \in FlowKey
      BY <1>1 DEF Wired, NetTypes, Record
    <3>2. IsBurst(x[1])
      BY <2>1, <3>1, NetworkAssumption DEF OnChain
    <3>3. \E h \in 2..Len(oracle[x[1]].chain) :
            Link(x[3], oracle[x[1]].chain, h) /\ h = Len(oracle[x[1]].chain)
      BY <2>1, <3>1, <3>2 DEF OnChain, Link
    <3> QED BY <3>1, <3>2, <3>3 DEF Speakers
  <2>2. ASSUME NEW x \in logRx, x[3].dst[1] = Victim, x[3].dport = VictimPort,
               NEW y \in logRx, y[3].dst[1] = Victim, y[3].dport = VictimPort
        PROVE  x[1] = y[1] <=> x[3] = y[3]
    <3> DEFINE a == <<x[1], x[3].src[1], x[3].sport>>
               b == <<y[1], y[3].src[1], y[3].sport>>
    <3>1. a \in Speakers /\ b \in Speakers /\ x[3] \in FlowKey /\ y[3] \in FlowKey
      BY <2>1, <2>2
    <3>2. x[3].src[1] = y[3].src[1] => (x[3].sport = y[3].sport <=> x[1] = y[1])
      <4>1. a[2] = b[2] => (a[3] = b[3] <=> a[1] = b[1])
        <5> HIDE DEF a, b
        <5> QED BY <1>1, <3>1 DEF SpeakersApart
      <4> QED BY <4>1
    <3>3. ASSUME x[1] = y[1] PROVE x[3] = y[3]
      <4> DEFINE chain == oracle[x[1]].chain
      <4>1. Link(x[3], chain, Len(chain)) /\ Link(y[3], chain, Len(chain))
        BY <2>1, <2>2, <3>3
      <4>2. x[3].src = y[3].src /\ x[3].dst = y[3].dst /\ x[3].dport = y[3].dport
        BY <2>2, <4>1 DEF Link
      <4>3. x[3].sport = y[3].sport
        BY <3>2, <3>3, <4>2
      <4> QED BY <3>1, <4>2, <4>3 DEF FlowKey
    <3> QED BY <3>2, <3>3
  <2> QED BY <2>1, <2>2 DEF OneVictimFlowPerBurst
<1> QED BY <1>1, SpeakersAlways, PTL

-----------------------------------------------------------------------------
(***************************************************************************)
(* Arrival.  Of a burst that drains in time and whose relays all have      *)
(* their ports, every packet is queued, on its way, held by a relay or     *)
(* recorded by the victim.                                                 *)
(***************************************************************************)
MustArrive(i) ==
  /\ Ample(oracle[i].schedule)
  /\ CloseAt(oracle[i].start) <= StopTime
  /\ \A d \in deaf : d[1] # i

OfPacket(x, i, n) == x.job = i /\ x.n = n

Accounted(i, n) ==
  \/ \E x \in sends : OfPacket(x, i, n)
  \/ \E x \in air : OfPacket(x, i, n)
  \/ \E x \in forwards : OfPacket(x, i, n)
  \/ \E x \in logRx : /\ x[1] = i /\ x[2] = n
                      /\ x[3].dst[1] = Victim /\ x[3].dport = VictimPort

NothingLost ==
  \A i \in DOMAIN oracle :
    MustArrive(i) => \A n \in DOMAIN oracle[i].schedule : Accounted(i, n)

\* A step that removes one event of a packet and, if the packet must arrive,
\* accounts for it otherwise.
LEMMA LostKept ==
  ASSUME NothingLost, oracle' = oracle, deaf \subseteq deaf', NEW x,
         \A s \in sends : s \in sends' \/ s = x,
         \A p \in air : p \in air' \/ p = x,
         \A f \in forwards : f \in forwards' \/ f = x,
         logRx \subseteq logRx',
         x.job \in DOMAIN oracle /\ MustArrive(x.job) => Accounted(x.job, x.n)'
  PROVE  NothingLost'
<1> SUFFICES ASSUME NEW i \in DOMAIN oracle, MustArrive(i)', NEW n \in DOMAIN oracle[i].schedule
             PROVE  Accounted(i, n)'
  BY DEF NothingLost
<1>1. MustArrive(i)
  BY DEF MustArrive
<1>2. Accounted(i, n)
  BY <1>1 DEF NothingLost
<1>3. CASE OfPacket(x, i, n)
  BY <1>1, <1>3 DEF OfPacket
<1>4. CASE ~OfPacket(x, i, n)
  BY <1>2, <1>4 DEF Accounted
<1> QED BY <1>3, <1>4

\* Steps that remove no event of a packet.
LEMMA NoneLost ==
  ASSUME NothingLost, oracle' = oracle, deaf \subseteq deaf',
         sends \subseteq sends', air \subseteq air', forwards \subseteq forwards',
         logRx \subseteq logRx'
  PROVE  NothingLost'
<1> SUFFICES ASSUME NEW i \in DOMAIN oracle, MustArrive(i)', NEW n \in DOMAIN oracle[i].schedule
             PROVE  Accounted(i, n)'
  BY DEF NothingLost
<1>1. MustArrive(i)
  BY DEF MustArrive
<1> QED BY <1>1 DEF NothingLost, Accounted

\* While a packet that must arrive is under way, its burst is not yet closed.
LEMMA UnderWay ==
  ASSUME IInv, NEW job \in DOMAIN oracle, NEW n \in DOMAIN oracle[job].schedule,
         MustArrive(job), NEW h \in Nat, NEW k \in Nat,
         h <= ChainLenCap, k <= ChainLenCap + 1,
         now <= Deadline(job, n, h, k)
  PROVE  now < CloseAt(oracle[job].start) /\ now < StopTime
<1>1. Deadline(job, n, h, k) < CloseAt(oracle[job].start)
  BY DeadlineBeforeClose DEF MustArrive
<1>2. Deadline(job, n, h, k) \in Nat /\ CloseAt(oracle[job].start) \in Nat
  BY DeadlineSteps, BurstTyped
<1>3. CloseAt(oracle[job].start) <= StopTime
  BY DEF MustArrive
<1> HIDE DEF Deadline
<1> QED BY <1>1, <1>2, <1>3, NumbersTyped DEF IInv

\* Such a packet meets the relay it is addressed to, or the victim's sink.
LEMMA SomebodyReads ==
  ASSUME IInv, NetTypes, Placed, NEW p \in air, p.at = now,
         p.job \in DOMAIN oracle, MustArrive(p.job)
  PROVE  Listener(p.flow) # {} \/ ToSink(p.flow)
<1> DEFINE h == Len(p.passed)
           chain == oracle[p.job].chain
<1>1. IsBurst(p.job) /\ PacketPlaced(p) /\ RelaysPlaced
  BY BurstTyped DEF Placed, IsBurst
<1>2. /\ p.n \in DOMAIN oracle[p.job].schedule
      /\ Passed(p.passed, p.job, h)
      /\ LeadsTo(<<p.flow.dst[1], p.flow.dport>>, p.job, h + 1)
      /\ oracle[p.job].start < now
      /\ now <= Deadline(p.job, p.n, h - 1, h)
  BY <1>1 DEF PacketPlaced
<1>3. Len(chain) \in 2..(ChainLenCap + 2) /\ chain[Len(chain)] = Victim
      /\ oracle[p.job].start \in Nat
  BY BurstTyped
<1>4. h \in Nat \ {0} /\ h + 1 \in 2..Len(chain)
  BY <1>2, <1>3, NumbersTyped DEF Passed, LeadsTo
<1>5. h - 1 \in Nat /\ h - 1 <= ChainLenCap /\ h <= ChainLenCap + 1
  BY <1>3, <1>4, NumbersTyped
<1>6. now < CloseAt(oracle[p.job].start) /\ now < StopTime
  BY <1>2, <1>4, <1>5, UnderWay
<1>7. CASE h + 1 = Len(chain)
  <2>1. p.flow.dst[1] = Victim /\ p.flow.dport = VictimPort
    BY <1>2, <1>3, <1>7 DEF LeadsTo
  <2> QED BY <1>6, <2>1, NumbersTyped DEF ToSink, SinkPorts, IInv
<1>8. CASE h + 1 # Len(chain)
  <2>1. h + 1 \in 2..(Len(chain) - 1)
    BY <1>3, <1>4, <1>8, NumbersTyped
  <2>2. PICK r \in relays : r.job = p.job /\ r.hop = h + 1
    BY <1>1, <1>6, <2>1 DEF RelaysPlaced
  <2>3. RelayPlaced(r)
    BY <1>1 DEF RelaysPlaced
  <2>4. r.started
    BY <1>2, <1>3, <2>2, <2>3 DEF RelayPlaced, IInv
  <2>5. r.bound
    <3>1. ~r.bound => <<r.job, r.hop, r.port>> \in deaf
      BY <2>3, <2>4 DEF RelayPlaced
    <3> QED BY <2>2, <3>1 DEF MustArrive
  <2>6. r.port = p.flow.dport
    BY <1>2, <1>8, <2>2 DEF LeadsTo
  <2>7. r.node = p.flow.dst[1]
    BY <1>2, <2>2, <2>3 DEF RelayPlaced, LeadsTo
  <2> QED BY <2>5, <2>6, <2>7 DEF Listener
<1> QED BY <1>7, <1>8

\* The sink that reads a packet of a burst is the victim's.
LEMMA ReadByVictim ==
  ASSUME IInv, NetTypes, Placed, NEW p \in air, p.job \in DOMAIN oracle, ToSink(p.flow)
  PROVE  p.flow.dst[1] = Victim /\ p.flow.dport = VictimPort
<1> DEFINE h == Len(p.passed)
           chain == oracle[p.job].chain
<1>1. LeadsTo(<<p.flow.dst[1], p.flow.dport>>, p.job, h + 1) /\ chain[Len(chain)] = Victim
  BY BurstTyped DEF Placed, PacketPlaced, IsBurst
<1>2. p.flow.dport = VictimPort \/ p.flow.dport = BackgroundPort
  BY DEF ToSink, SinkPorts
<1>3. h + 1 = Len(chain)
  <2> SUFFICES ASSUME h + 1 # Len(chain) PROVE FALSE
    OBVIOUS
  <2>1. p.flow.dport \in FirstRelayPort..(nextRelayPort - 1)
    BY <1>1 DEF LeadsTo
  <2>2. p.flow.dport \in FirstRelayPort..LastRelayPort
    BY <2>1, NumbersTyped DEF NetTypes
  <2> QED BY <1>2, <2>2, PortAssumption
<1> QED BY <1>1, <1>3 DEF LeadsTo

LEMMA SendPacketLost ==
  ASSUME IInv, NetTypes, SendsInv, Placed, NothingLost, NEW s \in sends, SendPacket(s), Quietly
  PROVE  NothingLost'
<1>1. /\ sends' = sends \ {s} /\ s.due = now /\ air \subseteq air'
      /\ UNCHANGED <<now, oracle, active, deaf, forwards, logRx>>
  BY DEF SendPacket, Due, Quietly
<1>2. ASSUME s.job \in DOMAIN oracle, MustArrive(s.job) PROVE Accounted(s.job, s.n)'
  <2>1. \E a \in active : a.job = s.job
    BY <1>1, <1>2, SentOnOpenSocket DEF MustArrive
  <2>2. PICK d \in LinkDelays, p \in air' :
          p = Packet(s.job, s.n, <<s.flow.src[1]>>, s.flow, d)
    BY <2>1 DEF SendPacket
  <2>3. OfPacket(p, s.job, s.n)
    BY <2>2 DEF Packet, OfPacket
  <2> QED BY <2>2, <2>3 DEF Accounted
<1> QED BY <1>1, <1>2, LostKept

LEMMA HandleReadLost ==
  ASSUME NothingLost, NEW p \in air, HandleRead(p), Quietly
  PROVE  NothingLost'
<1>1. /\ air' = air \ {p} /\ logRx \subseteq logRx' /\ forwards \subseteq forwards'
      /\ UNCHANGED <<oracle, deaf, sends>>
  BY DEF HandleRead, Quietly
<1>2. PICK r \in Listener(p.flow), d \in RelayDelays, f \in forwards' :
        f = [job |-> p.job, n |-> p.n, passed |-> Append(p.passed, r.node),
             by |-> [job |-> r.job, hop |-> r.hop], due |-> now + d]
  BY DEF HandleRead
<1>3. OfPacket(f, p.job, p.n)
  BY <1>2 DEF OfPacket
<1>4. Accounted(p.job, p.n)'
  BY <1>2, <1>3 DEF Accounted
<1> QED BY <1>1, <1>4, LostKept

LEMMA SinkReadLost ==
  ASSUME IInv, NetTypes, Placed, NothingLost, NEW p \in air, SinkRead(p), Quietly
  PROVE  NothingLost'
<1>1. /\ air' = air \ {p} /\ logRx' = logRx \cup {<<p.job, p.n, p.flow>>} /\ ToSink(p.flow)
      /\ UNCHANGED <<oracle, deaf, sends, forwards>>
  BY DEF SinkRead, Quietly
<1>2. ASSUME p.job \in DOMAIN oracle PROVE Accounted(p.job, p.n)'
  <2>1. p.flow.dst[1] = Victim /\ p.flow.dport = VictimPort
    BY <1>1, <1>2, ReadByVictim
  <2>2. PICK x \in logRx' : x = <<p.job, p.n, p.flow>>
    BY <1>1
  <2>3. x[1] = p.job /\ x[2] = p.n /\ x[3] = p.flow
    BY <2>2
  <2> QED BY <2>1, <2>3 DEF Accounted
<1> QED BY <1>1, <1>2, LostKept

LEMMA UndeliverableLost ==
  ASSUME IInv, NetTypes, Placed, NothingLost, NEW p \in air, Undeliverable(p), Quietly
  PROVE  NothingLost'
<1>1. /\ air' = air \ {p} /\ p.at = now
      /\ UNCHANGED <<oracle, deaf, sends, forwards, logRx>>
  BY DEF Undeliverable, Due, Quietly
<1>2. ~(p.job \in DOMAIN oracle /\ MustArrive(p.job))
  BY <1>1, SomebodyReads DEF Undeliverable
<1> QED BY <1>1, <1>2, LostKept

LEMMA ForwardLost ==
  ASSUME IInv, NetTypes, Placed, NothingLost, NEW f \in forwards, Forward(f), Quietly
  PROVE  NothingLost'
<1>1. /\ forwards' = forwards \ {f} /\ f.due = now /\ air \subseteq air'
      /\ UNCHANGED <<now, oracle, deaf, sends, logRx>>
  BY DEF Forward, Due, Quietly
<1>2. ASSUME f.job \in DOMAIN oracle, MustArrive(f.job) PROVE Accounted(f.job, f.n)'
  <2> DEFINE h == Len(f.passed)
             chain == oracle[f.job].chain
  <2>1. ForwardPlaced(f) /\ RelaysPlaced
    BY DEF Placed
  <2>2. /\ f.n \in DOMAIN oracle[f.job].schedule
        /\ h \in 2..(Len(chain) - 1)
        /\ f.by = [job |-> f.job, hop |-> h]
        /\ now <= Deadline(f.job, f.n, h - 1, h - 1)
    BY <1>1, <2>1 DEF ForwardPlaced
  <2>3. Len(chain) \in 2..(ChainLenCap + 2)
    BY <1>2, BurstTyped
  <2>4. h - 1 \in Nat /\ h - 1 <= ChainLenCap /\ h - 1 <= ChainLenCap + 1
    <3>1. PICK l \in Nat, cap \in Nat : l = Len(chain) /\ cap = ChainLenCap
      BY <2>3, NumbersTyped
    <3>2. l <= cap + 2 /\ h \in 2..(l - 1)
      BY <2>2, <2>3, <3>1
    <3> HIDE DEF h, chain
    <3>3. h - 1 \in Nat /\ h - 1 <= cap /\ h - 1 <= cap + 1
      BY <3>1, <3>2
    <3> QED BY <3>1, <3>3
  <2>5. now < CloseAt(oracle[f.job].start)
    <3>1. PICK k \in Nat : k = h - 1 /\ k <= ChainLenCap /\ k <= ChainLenCap + 1
      BY <2>4
    <3>2. now <= Deadline(f.job, f.n, k, k)
      BY <2>2, <3>1
    <3> QED BY <1>2, <2>2, <3>1, <3>2, UnderWay
  <2>6. \E r \in relays : r.job = f.job /\ r.hop = h
    BY <1>2, <2>1, <2>2, <2>5 DEF RelaysPlaced
  <2>7. \E r \in relays : r.job = f.by.job /\ r.hop = f.by.hop
    BY <2>2, <2>6
  <2>8. PICK r \in relays, d \in LinkDelays :
          air' = air \cup {Packet(f.job, f.n, f.passed, SentAs(r.node, r.sendPort, r.next), d)}
    BY <2>7 DEF Forward
  <2>9. PICK p \in air' : p = Packet(f.job, f.n, f.passed, SentAs(r.node, r.sendPort, r.next), d)
    BY <2>8
  <2>10. OfPacket(p, f.job, f.n)
    BY <2>9 DEF Packet, OfPacket
  <2> QED BY <2>10 DEF Accounted
<1> QED BY <1>1, <1>2, LostKept

LEMMA FiredLost ==
  ASSUME IInv, NetTypes, NothingLost, NEW actor, NEW chain, NEW schedule, NEW port,
         Fired(actor, chain, schedule, port)
  PROVE  NothingLost'
<1> DEFINE flow == SentAs(chain[1], port, NextHop(chain, 1))
<1>1. PICK id : /\ id = Len(oracle) + 1
                /\ DOMAIN oracle' = DOMAIN oracle \cup {id}
                /\ \A i \in DOMAIN oracle : oracle'[i] = oracle[i]
                /\ oracle'[id] = [actor |-> actor, start |-> now, chain |-> chain,
                                  schedule |-> schedule]
  BY FiredOracle
<1>2. /\ UNCHANGED <<air, forwards, logRx, deaf>>
      /\ sends' = sends \cup {[job |-> id, n |-> n, due |-> now + schedule[n], flow |-> flow] :
                                n \in DOMAIN schedule}
  BY <1>1 DEF Fired
<1> HIDE DEF flow
<1>3. oracle'[id].schedule = schedule
  BY <1>1
<1>4. ASSUME NEW n \in DOMAIN schedule PROVE Accounted(id, n)'
  <2>1. PICK s \in sends' :
          s = [job |-> id, n |-> n, due |-> now + schedule[n], flow |-> flow]
    BY <1>2
  <2>2. OfPacket(s, id, n)
    BY <2>1 DEF OfPacket
  <2> QED BY <2>2 DEF Accounted
<1>5. ASSUME NEW i \in DOMAIN oracle, MustArrive(i)', NEW n \in DOMAIN oracle[i].schedule
      PROVE  Accounted(i, n)'
  <2>1. MustArrive(i)
    BY <1>1, <1>2, <1>5 DEF MustArrive
  <2>2. Accounted(i, n)
    BY <2>1 DEF NothingLost
  <2> QED BY <1>2, <2>2 DEF Accounted
<1> QED BY <1>1, <1>3, <1>4, <1>5 DEF NothingLost

LEMMA NextLost ==
  ASSUME IInv, NetTypes, SendsInv, FreshPorts => Placed /\ NothingLost, [Next]_vars, FreshPorts'
  PROVE  NothingLost'
<1>1. ASSUME NEW actor, NEW chain, NEW schedule, NEW port, Fired(actor, chain, schedule, port)
      PROVE  NothingLost'
  BY <1>1, FreshBefore, FiredLost
<1>2. ASSUME oracle' = oracle PROVE Placed /\ NothingLost
  BY <1>2 DEF FreshPorts
<1>3. ASSUME NEW src, NEW dst, NEW count, NEW port, Opened(src, dst, count, port)
      PROVE  NothingLost'
  <2>1. /\ sends \subseteq sends' /\ oracle' = oracle
        /\ UNCHANGED <<air, forwards, logRx, deaf>>
    BY <1>3 DEF Opened, campaignVars
  <2> QED BY <1>2, <2>1, NoneLost
<1>4. ASSUME NEW r \in relays, NEW bound \in BOOLEAN, NEW port, Launched(r, bound, port)
      PROVE  NothingLost'
  <2>1. deaf \subseteq deaf' /\ UNCHANGED <<oracle, sends, air, forwards, logRx>>
    BY <1>4 DEF Launched
  <2> QED BY <1>2, <2>1, NoneLost
<1>5. ASSUME oracle' = oracle, UNCHANGED <<sends, air, forwards, logRx, deaf>>
      PROVE  NothingLost'
  BY <1>2, <1>5, NoneLost
<1>6. CASE Tick
  BY <1>5, <1>6, TickWaits DEF Quietly
<1>7. CASE Quietly
  <2>1. Placed /\ NothingLost /\ oracle' = oracle
    BY <1>2, <1>7 DEF Quietly
  <2>2. ASSUME NEW s \in active, CloseSocket(s) PROVE NothingLost'
    BY <1>5, <2>1, <2>2 DEF CloseSocket
  <2>3. ASSUME NEW p \in air, SinkRead(p) PROVE NothingLost'
    BY <1>7, <2>1, <2>3, SinkReadLost
  <2>4. ASSUME NEW p \in air, Undeliverable(p) PROVE NothingLost'
    BY <1>7, <2>1, <2>4, UndeliverableLost
  <2>5. ASSUME NEW p \in air, HandleRead(p) PROVE NothingLost'
    BY <1>7, <2>1, <2>5, HandleReadLost
  <2>6. ASSUME UNCHANGED netVars PROVE NothingLost'
    BY <1>5, <2>1, <2>6 DEF netVars
  <2>7. ASSUME NEW r \in relays, StopApplication(r) PROVE NothingLost'
    BY <1>5, <2>1, <2>7 DEF StopApplication
  <2>8. ASSUME NEW s \in sends, SendPacket(s) PROVE NothingLost'
    BY <1>7, <2>1, <2>8, SendPacketLost
  <2>9. ASSUME NEW f \in forwards, Forward(f) PROVE NothingLost'
    BY <1>7, <2>1, <2>9, ForwardLost
  <2>10. \/ \E s \in active : CloseSocket(s)
         \/ \E p \in air : SinkRead(p) \/ Undeliverable(p) \/ HandleRead(p)
         \/ UNCHANGED netVars
         \/ \E r \in relays : StopApplication(r)
         \/ \E s \in sends : SendPacket(s)
         \/ \E f \in forwards : Forward(f)
         \/ NothingLost'
    BY <1>1, <1>3, <1>4, <1>6, NextCases
  <2> QED BY <2>2, <2>3, <2>4, <2>5, <2>6, <2>7, <2>8, <2>9, <2>10
<1> QED BY <1>1, <1>3, <1>4, <1>6, <1>7, NextCases

LEMMA NothingLostAlways ==
  Spec => [](IInv /\ NetTypes /\ SendsInv /\ (FreshPorts => Placed /\ Wired /\ NothingLost))
<1>1. /\ IInv /\ NetTypes /\ SendsInv
      /\ FreshPorts => Placed /\ Wired
      /\ FreshPorts => NothingLost
      /\ [Next]_vars
      => (FreshPorts => NothingLost)'
  <2> SUFFICES ASSUME IInv, NetTypes, SendsInv, FreshPorts => Placed /\ Wired,
                      FreshPorts => NothingLost, [Next]_vars, FreshPorts'
               PROVE  NothingLost'
    OBVIOUS
  <2> QED BY NextLost
<1>2. Init => (FreshPorts => NothingLost)
  BY DEF Init, CampaignInit, NothingLost
<1> QED BY <1>1, <1>2, WiredAlways, PTL DEF Spec

\* Under the same condition, a burst that drains in time and has no relay
\* without its port arrives whole, and a relay is without its port only where
\* the cursor has come among the ephemeral ports.
THEOREM ArrivalWhole == Spec => [](FreshPorts => BurstsArriveWhole)
<1>1. ASSUME IInv, NetTypes, SendsInv, Placed, Wired, NothingLost PROVE BurstsArriveWhole
  <2>1. \A d \in deaf : d[3] >= FirstEphemeral
    BY <1>1 DEF Placed, RelaysPlaced
  <2>2. ASSUME NEW i \in DOMAIN oracle, MustArrive(i), CloseAt(oracle[i].start) < now,
               NEW n \in DOMAIN oracle[i].schedule
        PROVE  \E x \in logRx : /\ x[1] = i /\ x[2] = n
                                /\ x[3].dst[1] = Victim /\ x[3].dport = VictimPort
    <3>1. IsBurst(i) /\ Len(oracle[i].chain) \in 2..(ChainLenCap + 2)
      BY <1>1, BurstTyped DEF IsBurst
    <3>2. CloseAt(oracle[i].start) \in Nat /\ now \in Nat
      BY <1>1, BurstTyped DEF IInv
    <3>3. \A s \in sends : ~OfPacket(s, i, n)
      <4> SUFFICES ASSUME NEW s \in sends, OfPacket(s, i, n) PROVE FALSE
        OBVIOUS
      <4>1. s.job = i /\ SendAhead(s)
        BY <1>1 DEF OfPacket, SendsInv
      <4>2. now <= s.due /\ s.due = oracle[i].start + oracle[i].schedule[s.n]
            /\ s.n \in DOMAIN oracle[i].schedule
        BY <3>1, <4>1 DEF SendAhead
      <4>3. oracle[i].start \in Nat /\ oracle[i].schedule \in SendSchedules
            /\ oracle[i].schedule[s.n] \in Nat
        BY <1>1, <4>2, BurstTyped, ScheduleShape
      <4>4. oracle[i].schedule[s.n] < BurstS + StopSlack
        BY <2>2, <4>2, <4>3, AmpleBeforeClose DEF MustArrive
      <4>5. CloseAt(oracle[i].start) = oracle[i].start + BurstS + StopSlack
        BY DEF CloseAt
      <4> QED BY <2>2, <3>2, <4>2, <4>3, <4>4, <4>5, NumbersTyped
    <3>4. \A p \in air : ~OfPacket(p, i, n)
      <4> SUFFICES ASSUME NEW p \in air, OfPacket(p, i, n) PROVE FALSE
        OBVIOUS
      <4> DEFINE h == Len(p.passed)
      <4>1. p.job = i /\ PacketPlaced(p)
        BY <1>1 DEF OfPacket, Placed
      <4>2. /\ p.n \in DOMAIN oracle[i].schedule /\ now <= p.at
            /\ Passed(p.passed, i, h) /\ p.at <= Deadline(i, p.n, h - 1, h)
            /\ h + 1 \in 2..Len(oracle[i].chain)
        BY <3>1, <4>1 DEF PacketPlaced, LeadsTo
      <4>3. h \in Nat /\ h - 1 \in Nat /\ h - 1 <= ChainLenCap /\ h <= ChainLenCap + 1
        BY <3>1, <4>2, NumbersTyped DEF Passed
      <4>4. Deadline(i, p.n, h - 1, h) \in Nat /\ p.at \in Nat
        <5>1. \A a, b \in Nat : Deadline(i, p.n, a, b) \in Nat
          BY <1>1, <4>2, DeadlineSteps
        <5> QED BY <1>1, <4>3, <5>1 DEF NetTypes, Flying
      <4>5. now <= Deadline(i, p.n, h - 1, h)
        BY <3>2, <4>2, <4>4
      <4>6. now < CloseAt(oracle[i].start)
        BY <1>1, <2>2, <4>2, <4>3, <4>5, UnderWay
      <4> QED BY <2>2, <3>2, <4>6
    <3>5. \A f \in forwards : ~OfPacket(f, i, n)
      <4> SUFFICES ASSUME NEW f \in forwards, OfPacket(f, i, n) PROVE FALSE
        OBVIOUS
      <4> DEFINE h == Len(f.passed)
      <4>1. f.job = i /\ ForwardPlaced(f)
        BY <1>1 DEF OfPacket, Placed
      <4>2. /\ f.n \in DOMAIN oracle[i].schedule /\ now <= f.due
            /\ f.due <= Deadline(i, f.n, h - 1, h - 1)
            /\ h \in 2..(Len(oracle[i].chain) - 1)
        BY <4>1 DEF ForwardPlaced
      <4>3. h - 1 \in Nat /\ h - 1 <= ChainLenCap /\ h - 1 <= ChainLenCap + 1
        BY <3>1, <4>2, NumbersTyped
      <4>4. Deadline(i, f.n, h - 1, h - 1) \in Nat /\ f.due \in Nat
        <5>1. \A a, b \in Nat : Deadline(i, f.n, a, b) \in Nat
          BY <1>1, <4>2, DeadlineSteps
        <5> QED BY <1>1, <4>3, <5>1 DEF NetTypes, Forwarding
      <4>5. now <= Deadline(i, f.n, h - 1, h - 1)
        BY <3>2, <4>2, <4>4
      <4>6. now < CloseAt(oracle[i].start)
        BY <1>1, <2>2, <4>2, <4>3, <4>5, UnderWay
      <4> QED BY <2>2, <3>2, <4>6
    <3>6. Accounted(i, n)
      BY <1>1, <2>2 DEF NothingLost
    <3> QED BY <3>3, <3>4, <3>5, <3>6 DEF Accounted
  <2>3. ASSUME NEW i \in DOMAIN oracle, NEW x \in logRx, x[1] = i
        PROVE  x[2] \in DOMAIN oracle[i].schedule
    BY <1>1, <2>3, BurstTyped DEF Wired, OnChain, IsBurst
  <2>4. ASSUME NEW i \in DOMAIN oracle, MustArrive(i), CloseAt(oracle[i].start) < now
        PROVE  {x[2] : x \in {y \in logRx : /\ y[1] = i
                                            /\ y[3].dst[1] = Victim /\ y[3].dport = VictimPort}}
                 = DOMAIN oracle[i].schedule
    BY <2>2, <2>3, <2>4
  <2> QED BY <2>1, <2>4 DEF BurstsArriveWhole, MustArrive
<1> QED BY <1>1, NothingLostAlways, PTL

-----------------------------------------------------------------------------
(***************************************************************************)
(* How many ports a run can ask for.  An actor fires at most one burst at  *)
(* each of its firing times.                                               *)
(***************************************************************************)
EnoughPorts ==
  /\ IsFiniteSet(Actors)
  /\ (Cardinality(Actors) * (StopTime \div PeriodS + 1)) * ChainLenCap
       <= LastRelayPort - FirstRelayPort

FiredOnce ==
  \A i, j \in DOMAIN oracle :
    oracle[i].actor = oracle[j].actor /\ oracle[i].start = oracle[j].start => i = j

LEMMA QuotientGrows ==
  ASSUME NEW p \in Nat \ {0}, NEW x \in Nat, NEW y \in Nat, x <= y
  PROVE  x \div p \in Nat /\ y \div p \in Nat /\ x \div p <= y \div p
<1> DEFINE i == x \div p
           j == y \div p
           r == x % p
           s == y % p
<1>1. x = p * i + r /\ y = p * j + s
  OBVIOUS
<1>2. i \in Nat /\ j \in Nat /\ r \in 0..(p - 1) /\ s \in 0..(p - 1)
  OBVIOUS
<1> HIDE DEF i, j, r, s
<1>3. ASSUME j + 1 <= i PROVE FALSE
  <2>1. p * (j + 1) <= p * i /\ p * (j + 1) = p * j + p
    BY <1>2, <1>3
  <2> QED BY <1>1, <1>2, <2>1
<1>4. i <= j
  BY <1>2, <1>3
<1> QED BY <1>2, <1>4 DEF i, j

LEMMA SameMultiple ==
  ASSUME NEW p \in Nat \ {0}, NEW x \in Nat, NEW y \in Nat,
         x % p = 0, y % p = 0, x \div p = y \div p
  PROVE  x = y
<1>1. x = p * (x \div p) /\ y = p * (y \div p)
  OBVIOUS
<1> QED BY <1>1

LEMMA StartsOnCadence ==
  ASSUME IInv, NEW i \in DOMAIN oracle
  PROVE  /\ oracle[i].actor \in Actors
         /\ oracle[i].start \in FiringTimes(oracle[i].actor)
<1>1. oracle[i] \in Burst
  BY DEF IInv
<1>2. oracle[i].actor \in Actors
  BY <1>1 DEF Burst
<1>3. oracle[i].start \in Starts(oracle[i].actor)
  BY DEF Starts
<1> QED BY <1>2, <1>3 DEF IInv, NoneQueued, Queued

LEMMA NextFiredOnce ==
  ASSUME IInv, NetTypes, FiredOnce, [Next]_vars
  PROVE  FiredOnce'
<1>1. CASE oracle' = oracle
  BY <1>1 DEF FiredOnce
<1>2. ASSUME NEW actor, NEW chain, NEW schedule, NEW port, Fired(actor, chain, schedule, port)
      PROVE  FiredOnce'
  <2>1. PICK id : /\ DOMAIN oracle' = DOMAIN oracle \cup {id}
                  /\ \A i \in DOMAIN oracle : oracle'[i] = oracle[i]
                  /\ oracle'[id] = [actor |-> actor, start |-> now, chain |-> chain,
                                    schedule |-> schedule]
    BY <1>2, FiredOracle
  <2>2. ASSUME NEW i \in DOMAIN oracle, oracle[i].actor = actor, oracle[i].start = now
        PROVE  FALSE
    <3>1. actor \in Actors /\ now \in Starts(actor)
      BY <2>2, StartsOnCadence DEF Starts
    <3>2. now \in Nat /\ nextBurst[actor] = now
      BY <1>2 DEF IInv, Fired
    <3>3. Starts(actor) = {t \in FiringTimes(actor) : t < now}
      BY <3>1, <3>2, TimesTyped DEF IInv, NoneQueued, Queued
    <3> QED BY <3>1, <3>2, <3>3
  <2> QED BY <2>1, <2>2 DEF FiredOnce
<1>3. oracle' = oracle \/ \E actor, chain, schedule, port : Fired(actor, chain, schedule, port)
  BY NextCases DEF Opened, Launched, campaignVars, Quietly, Tick
<1> QED BY <1>1, <1>2, <1>3

LEMMA FiredOnceAlways == Spec => [](IInv /\ FiredOnce)
<1>1. IInv /\ NetTypes /\ FiredOnce /\ [Next]_vars => FiredOnce'
  BY NextFiredOnce
<1>2. Init => FiredOnce
  BY DEF Init, CampaignInit, FiredOnce
<1> QED BY <1>1, <1>2, TypesAlways, PTL DEF Spec

\* In a run whose actors cannot ask for more ports than the range has, the
\* cursor never goes through it, and the four theorems above hold throughout.
\* The shipped configurations need a few thousand of the 45001 ports at most.
THEOREM PortsSuffice ==
  ASSUME EnoughPorts
  PROVE  Spec => []FreshPorts
<1>1. ASSUME IInv, FiredOnce PROVE FreshPorts
  <2> DEFINE rounds == StopTime \div PeriodS
             slots == Actors \X (0..rounds)
             slot(i) == <<oracle[i].actor,
                          (oracle[i].start - Phase[oracle[i].actor]) \div PeriodS>>
             f == [i \in DOMAIN oracle |-> slot(i)]
  <2>1. PeriodS \in Nat \ {0} /\ StopTime \in Nat /\ rounds \in Nat
    BY TimesTyped, QuotientGrows
  <2>2. ASSUME NEW i \in DOMAIN oracle
        PROVE  LET a == oracle[i].actor
                   t == oracle[i].start
               IN  /\ a \in Actors /\ Phase[a] \in Nat /\ t \in Nat
                   /\ t - Phase[a] \in Nat /\ t - Phase[a] <= StopTime
                   /\ (t - Phase[a]) % PeriodS = 0
    BY <1>1, <2>1, <2>2, StartsOnCadence, TimesTyped DEF FiringTimes
  <2>3. f \in [DOMAIN oracle -> slots]
    <3>1. ASSUME NEW i \in DOMAIN oracle PROVE slot(i) \in slots
      <4>1. PICK x \in Nat : x = oracle[i].start - Phase[oracle[i].actor] /\ x <= StopTime
        BY <2>2
      <4>2. x \div PeriodS \in Nat /\ x \div PeriodS <= rounds
        BY <2>1, <4>1, QuotientGrows
      <4> QED BY <2>1, <2>2, <4>1, <4>2
    <3> QED BY <3>1
  <2>4. ASSUME NEW i \in DOMAIN oracle, NEW j \in DOMAIN oracle, f[i] = f[j] PROVE i = j
    <3>1. slot(i) = slot(j)
      BY <2>4
    <3>2. /\ oracle[i].actor = oracle[j].actor
          /\ (oracle[i].start - Phase[oracle[i].actor]) \div PeriodS
               = (oracle[j].start - Phase[oracle[i].actor]) \div PeriodS
      BY <3>1
    <3>3. PICK a \in Actors : a = oracle[i].actor
      BY <2>2
    <3>4. PICK x \in Nat : x = oracle[i].start - Phase[a] /\ x % PeriodS = 0
      BY <2>2, <3>3
    <3>5. PICK y \in Nat : y = oracle[j].start - Phase[a] /\ y % PeriodS = 0
      BY <2>2, <3>2, <3>3
    <3>6. x = y
      BY <2>1, <3>2, <3>3, <3>4, <3>5, SameMultiple
    <3>7. oracle[i].start = oracle[j].start
      BY <2>2, <3>2, <3>3, <3>4, <3>5, <3>6
    <3> QED BY <1>1, <3>2, <3>7 DEF FiredOnce
  <2>5. f \in Injection(DOMAIN oracle, slots)
    BY <2>3, <2>4 DEF Injection, IsInjective
  <2>6. /\ IsFiniteSet(slots) /\ Cardinality(Actors) \in Nat
        /\ Cardinality(slots) = Cardinality(Actors) * (rounds + 1)
    <3>1. IsFiniteSet(0..rounds) /\ Cardinality(0..rounds) = rounds + 1
      <4>1. IsFiniteSet(0..rounds)
            /\ Cardinality(0..rounds) = IF 0 > rounds THEN 0 ELSE rounds - 0 + 1
        <5> HIDE DEF rounds
        <5> QED BY <2>1, FS_Interval
      <4> HIDE DEF rounds
      <4> QED BY <2>1, <4>1
    <3>2. IsFiniteSet(Actors) /\ Cardinality(Actors) \in Nat
      BY FS_CardinalityType DEF EnoughPorts
    <3> HIDE DEF rounds
    <3> QED BY <3>1, <3>2, FS_Product
  <2>7. Cardinality(DOMAIN oracle) <= Cardinality(slots)
    <3> HIDE DEF f, slots
    <3> QED BY <2>5, <2>6, FS_Injection
  <2>8. Cardinality(DOMAIN oracle) = Len(oracle) /\ Len(oracle) \in Nat
    <3>1. Len(oracle) \in Nat /\ DOMAIN oracle = 1..Len(oracle)
      BY <1>1 DEF IInv
    <3>2. Cardinality(1..Len(oracle)) = IF 1 > Len(oracle) THEN 0 ELSE Len(oracle) - 1 + 1
      BY <3>1, FS_Interval
    <3> QED BY <3>1, <3>2
  <2> DEFINE most == Cardinality(Actors) * (rounds + 1)
  <2>9. most \in Nat /\ Len(oracle) <= most /\ most * ChainLenCap <= LastRelayPort - FirstRelayPort
    BY <2>1, <2>6, <2>7, <2>8 DEF EnoughPorts
  <2> HIDE DEF most
  <2>10. Len(oracle) * ChainLenCap <= most * ChainLenCap
    BY <2>8, <2>9, NumbersTyped
  <2>11. Len(oracle) * ChainLenCap \in Int /\ most * ChainLenCap \in Int
    BY <2>8, <2>9, NumbersTyped
  <2> QED BY <2>9, <2>10, <2>11, NumbersTyped DEF FreshPorts
<1> QED BY <1>1, FiredOnceAlways, PTL
=============================================================================
