--------------------------- MODULE StandaloneProofs ---------------------------
(***************************************************************************)
(* Proofs about the parts that stand on their own, for every value of      *)
(* their constants.                                                        *)
(*                                                                         *)
(*   Snowflake            ids are unique, and increase                     *)
(*   CircuitBreaker       the state follows the outcomes recorded, and     *)
(*                        nobody is let through before the cool-down       *)
(*   RateLimiter          no window of time sees more requests than the    *)
(*                        burst and the rate permit                        *)
(*   Retry                attempts, answer and waits keep the config       *)
(*   HTTPPollingStrategy  implements LinkContract; its events alternate,   *)
(*                        and a link that is up is polled                  *)
(***************************************************************************)
EXTENDS Snowflake, CircuitBreaker, RateLimiter, Retry, HTTPPollingStrategy, TLAPS

-----------------------------------------------------------------------------
(* Snowflake.  The strengthening says where the ids of a generator come    *)
(* from: each packs the generator's node with a time and a sequence number *)
(* that do not lie ahead of the last ones issued, as long as the clock was *)
(* never set back.  Uniqueness then rests on two facts about Pack: it is   *)
(* increasing in (time, sequence), and it keeps nodes apart.               *)

IssuedBefore(g, t, s) == t < lastTime[g] \/ (t = lastTime[g] /\ s <= sequence[g])

IdsAreAccountedFor ==
    \A g \in Generators : \A id \in issued[g] :
        \E t \in Nat, s \in 0..SequenceSize - 1 :
            /\ id = Pack(t, Node(g), s)
            /\ steady[g] => IssuedBefore(g, t, s) \/ (spinning[g] /\ t = lastTime[g])

ClockIsAhead == \A g \in Generators : steady[g] => lastTime[g] <= clock[g]

SpinningWrapped == \A g \in Generators : spinning[g] => sequence[g] = 0

SnowflakeInv ==
    SnowflakeTypeOK /\ IdsAreAccountedFor /\ ClockIsAhead /\ SpinningWrapped /\ IdsAreUnique

-----------------------------------------------------------------------------
(* Arithmetic of the bit fields                                            *)

LEMMA NodeRange == \A g \in Generators : Node(g) \in 0..NodeSize - 1
BY SnowflakeAssumption DEF Node

LEMMA PackNat ==
    ASSUME NEW t \in Nat, NEW n \in 0..NodeSize - 1, NEW s \in 0..SequenceSize - 1
    PROVE  Pack(t, n, s) \in Nat
<1>1. t * NodeSize + n \in Nat
  BY SnowflakeAssumption
<1>2. \A a, b \in Nat : a * b \in Nat
  OBVIOUS
<1> QED  BY <1>1, <1>2, SnowflakeAssumption DEF Pack

LEMMA Stretch ==
    ASSUME NEW a \in Nat, NEW b \in Nat, NEW size \in Nat, a < b
    PROVE  a * size + size <= b * size
<1>1. PICK d \in Nat : b = a + 1 + d
  <2> WITNESS b - a - 1 \in Nat
  <2> QED  OBVIOUS
<1>2. b * size = a * size + size + d * size
  BY <1>1
<1>3. d * size >= 0 /\ a * size \in Nat /\ d * size \in Nat
  OBVIOUS
<1> QED  BY <1>2, <1>3

(* The upper field decides.                                                *)
LEMMA UpperDecides ==
    ASSUME NEW a \in Nat, NEW b \in Nat, NEW size \in Nat,
           NEW r \in 0..size - 1, NEW q \in 0..size - 1, a < b
    PROVE  a * size + r < b * size + q
<1>1. a * size + size <= b * size
  BY Stretch
<1>2. a * size \in Nat /\ b * size \in Nat
  OBVIOUS
<1> QED  BY <1>1, <1>2

LEMMA PackIncreases ==
    ASSUME NEW t \in Nat, NEW u \in Nat, NEW n \in 0..NodeSize - 1,
           NEW s \in 0..SequenceSize - 1, NEW r \in 0..SequenceSize - 1,
           t < u \/ (t = u /\ s < r)
    PROVE  Pack(t, n, s) < Pack(u, n, r)
<1> DEFINE a == t * NodeSize + n
           b == u * NodeSize + n
<1>1. a \in Nat /\ b \in Nat
  BY SnowflakeAssumption
<1>2. CASE t < u
  <2>1. a < b
    BY <1>2, UpperDecides, SnowflakeAssumption
  <2> HIDE DEF a, b
  <2>2. a * SequenceSize + s < b * SequenceSize + r
    BY <1>1, <2>1, UpperDecides, SnowflakeAssumption
  <2> QED  BY <2>2 DEF Pack, a, b
<1>3. CASE t = u /\ s < r
  <2>1. a * SequenceSize \in Nat
    <3> HIDE DEF a
    <3> QED  BY <1>1, SnowflakeAssumption
  <2>2. Pack(t, n, s) = a * SequenceSize + s /\ Pack(u, n, r) = a * SequenceSize + r
    BY <1>3 DEF Pack
  <2> HIDE DEF a
  <2> QED  BY <1>3, <2>1, <2>2
<1> QED  BY <1>2, <1>3

LEMMA PackKeepsNodesApart ==
    ASSUME NEW t \in Nat, NEW u \in Nat,
           NEW n \in 0..NodeSize - 1, NEW k \in 0..NodeSize - 1,
           NEW s \in 0..SequenceSize - 1, NEW r \in 0..SequenceSize - 1,
           n # k
    PROVE  Pack(t, n, s) # Pack(u, k, r)
<1> DEFINE a == t * NodeSize + n
           b == u * NodeSize + k
<1>1. a \in Nat /\ b \in Nat
  BY SnowflakeAssumption
<1>2. a # b
  <2>1. CASE t < u
    <3>1. a < b
      BY <2>1, UpperDecides, SnowflakeAssumption
    <3> QED  BY <1>1, <3>1
  <2>2. CASE u < t
    <3>1. b < a
      BY <2>2, UpperDecides, SnowflakeAssumption
    <3> QED  BY <1>1, <3>1
  <2>3. CASE t = u
    <3>1. t * NodeSize \in Nat
      BY SnowflakeAssumption
    <3> QED  BY <2>3, <3>1
  <2> QED  BY <2>1, <2>2, <2>3
<1> HIDE DEF a, b
<1>3. a * SequenceSize + s # b * SequenceSize + r
  <2>1. /\ a * SequenceSize + s \in Nat
        /\ b * SequenceSize + r \in Nat
    BY <1>1, SnowflakeAssumption
  <2>2. CASE a < b
    <3>1. a * SequenceSize + s < b * SequenceSize + r
      BY <1>1, <2>2, UpperDecides, SnowflakeAssumption
    <3> QED  BY <2>1, <3>1
  <2>3. CASE b < a
    <3>1. b * SequenceSize + r < a * SequenceSize + s
      BY <1>1, <2>3, UpperDecides, SnowflakeAssumption
    <3> QED  BY <2>1, <3>1
  <2> QED  BY <1>1, <1>2, <2>2, <2>3
<1> QED  BY <1>3 DEF Pack, a, b

-----------------------------------------------------------------------------
(* One call                                                                *)

(* The id that Generate returns with the pair (clock[g], s) is new, when   *)
(* that pair lies ahead of all pairs issued before.                        *)
Ahead(g, s) ==
    \A t \in Nat, r \in 0..SequenceSize - 1 :
        IssuedBefore(g, t, r) \/ (spinning[g] /\ t = lastTime[g])
            => t < clock[g] \/ (t = clock[g] /\ r < s)

LEMMA ClocksAreTimes ==
    ASSUME SnowflakeTypeOK, NEW g \in Generators
    PROVE  clock[g] \in Nat /\ clock[g] \in 0..MaxTime
BY SnowflakeAssumption DEF SnowflakeTypeOK

LEMMA NewIdIsGreater ==
    ASSUME SnowflakeInv, NEW g \in Generators, NEW s \in 0..SequenceSize - 1,
           steady[g] => Ahead(g, s), steady[g], NEW old \in issued[g]
    PROVE  old < Pack(clock[g], Node(g), s)
<1>1. PICK t \in Nat, r \in 0..SequenceSize - 1 :
          /\ old = Pack(t, Node(g), r)
          /\ IssuedBefore(g, t, r) \/ (spinning[g] /\ t = lastTime[g])
  BY DEF SnowflakeInv, IdsAreAccountedFor
<1>2. t < clock[g] \/ (t = clock[g] /\ r < s)
  BY <1>1 DEF Ahead
<1> QED  BY <1>1, <1>2, ClocksAreTimes, NodeRange, PackIncreases DEF SnowflakeInv

LEMMA NewIdIsNew ==
    ASSUME SnowflakeInv, NEW g \in Generators, NEW s \in 0..SequenceSize - 1,
           steady[g] => Ahead(g, s), steady[g], DistinctNodes, NEW h \in Generators
    PROVE  Pack(clock[g], Node(g), s) \notin issued[h]
<1> SUFFICES ASSUME Pack(clock[g], Node(g), s) \in issued[h] PROVE FALSE
  OBVIOUS
<1>1. clock[g] \in Nat /\ Node(g) \in 0..NodeSize - 1 /\ Node(h) \in 0..NodeSize - 1
  BY ClocksAreTimes, NodeRange DEF SnowflakeInv
<1>2. CASE h = g
  <2>1. Pack(clock[g], Node(g), s) < Pack(clock[g], Node(g), s)
    BY <1>2, NewIdIsGreater
  <2>2. Pack(clock[g], Node(g), s) \in Nat
    BY <1>1, PackNat
  <2> QED  BY <2>1, <2>2
<1>3. CASE h # g
  <2>1. PICK t \in Nat, r \in 0..SequenceSize - 1 :
            Pack(clock[g], Node(g), s) = Pack(t, Node(h), r)
    BY DEF SnowflakeInv, IdsAreAccountedFor
  <2>2. Node(g) # Node(h)
    BY <1>3 DEF DistinctNodes
  <2> QED  BY <1>1, <2>1, <2>2, PackKeepsNodesApart
<1> QED  BY <1>2, <1>3

LEMMA ReturnKeepsInv ==
    ASSUME SnowflakeInv, NEW g \in Generators, NEW s \in 0..SequenceSize - 1,
           steady[g] => Ahead(g, s), spinning[g] => s = 0,
           Return(g, s), UNCHANGED <<clock, steady>>,
           spinning' = [spinning EXCEPT ![g] = FALSE]
    PROVE  SnowflakeInv'
<1> DEFINE id == Pack(clock[g], Node(g), s)
<1>0. SnowflakeTypeOK
  BY DEF SnowflakeInv
<1>1. /\ lastTime' = [lastTime EXCEPT ![g] = clock[g]]
      /\ sequence' = [sequence EXCEPT ![g] = s]
      /\ issued' = [issued EXCEPT ![g] = issued[g] \cup {id}]
      /\ duplicate' = (duplicate \/ \E h \in Generators : id \in issued[h])
  BY DEF Return
<1>2. clock[g] \in Nat /\ clock[g] \in 0..MaxTime /\ id \in Nat
  BY <1>0, ClocksAreTimes, NodeRange, PackNat
<1>3. SnowflakeTypeOK'
  <2> HIDE DEF id
  <2>1. issued' \in [Generators -> SUBSET Nat]
    BY <1>0, <1>1, <1>2 DEF SnowflakeTypeOK
  <2>2. lastTime' \in [Generators -> -1..MaxTime]
    BY <1>0, <1>1, <1>2 DEF SnowflakeTypeOK
  <2>3. duplicate' \in BOOLEAN
    BY <1>1
  <2> QED  BY <1>0, <1>1, <2>1, <2>2, <2>3 DEF SnowflakeTypeOK
<1>4. IdsAreAccountedFor'
  <2> SUFFICES ASSUME NEW h \in Generators, NEW i \in issued'[h]
               PROVE  \E t \in Nat, r \in 0..SequenceSize - 1 :
                          /\ i = Pack(t, Node(h), r)
                          /\ steady'[h] => IssuedBefore(h, t, r)'
                                           \/ (spinning'[h] /\ t = lastTime'[h])
    BY DEF IdsAreAccountedFor
  <2>1. CASE h = g /\ i = id
    <3>1. IssuedBefore(g, clock[g], s)'
      BY <1>0, <1>1 DEF IssuedBefore, SnowflakeTypeOK
    <3> QED  BY <1>2, <2>1, <3>1
  <2>2. CASE h = g /\ i # id
    <3>1. i \in issued[g]
      BY <1>0, <1>1, <2>2 DEF SnowflakeTypeOK
    <3>2. PICK t \in Nat, r \in 0..SequenceSize - 1 :
              /\ i = Pack(t, Node(g), r)
              /\ steady[g] => IssuedBefore(g, t, r) \/ (spinning[g] /\ t = lastTime[g])
      BY <3>1 DEF SnowflakeInv, IdsAreAccountedFor
    <3>3. steady[g] => t < clock[g] \/ (t = clock[g] /\ r < s)
      BY <3>2 DEF Ahead
    <3>4. steady'[g] => IssuedBefore(g, t, r)'
      BY <1>0, <1>1, <1>2, <3>3 DEF IssuedBefore, SnowflakeTypeOK
    <3> QED  BY <2>2, <3>2, <3>4
  <2>3. CASE h # g
    <3>1. i \in issued[h]
      BY <1>0, <1>1, <2>3 DEF SnowflakeTypeOK
    <3>2. PICK t \in Nat, r \in 0..SequenceSize - 1 :
              /\ i = Pack(t, Node(h), r)
              /\ steady[h] => IssuedBefore(h, t, r) \/ (spinning[h] /\ t = lastTime[h])
      BY <3>1 DEF SnowflakeInv, IdsAreAccountedFor
    <3>3. /\ lastTime'[h] = lastTime[h] /\ sequence'[h] = sequence[h]
          /\ spinning'[h] = spinning[h] /\ steady'[h] = steady[h]
      BY <1>0, <1>1, <2>3 DEF SnowflakeTypeOK
    <3> QED  BY <3>2, <3>3 DEF IssuedBefore
  <2> QED  BY <2>1, <2>2, <2>3
<1>5. ClockIsAhead'
  BY <1>0, <1>1, <1>2 DEF SnowflakeInv, ClockIsAhead, SnowflakeTypeOK
<1>6. SpinningWrapped'
  BY <1>0, <1>1 DEF SnowflakeInv, SpinningWrapped, SnowflakeTypeOK
<1>7. IdsAreUnique'
  <2> HIDE DEF id
  <2> SUFFICES ASSUME DistinctNodes, \A h \in Generators : steady[h] PROVE ~duplicate'
    BY DEF IdsAreUnique, DistinctNodes
  <2>1. ~duplicate
    BY DEF SnowflakeInv, IdsAreUnique
  <2>2. \A h \in Generators : id \notin issued[h]
    BY NewIdIsNew DEF id
  <2> QED  BY <1>1, <2>1, <2>2
<1> QED  BY <1>3, <1>4, <1>5, <1>6, <1>7 DEF SnowflakeInv

-----------------------------------------------------------------------------
(* The invariant                                                           *)

LEMMA SnowflakeInitInv == SnowflakeInit => SnowflakeInv
<1> SUFFICES ASSUME SnowflakeInit PROVE SnowflakeInv
  OBVIOUS
<1>1. SnowflakeTypeOK
  <2>1. -1 \in -1..MaxTime /\ 0 \in 0..SequenceSize - 1
    BY SnowflakeAssumption
  <2> QED  BY <2>1 DEF SnowflakeInit, SnowflakeTypeOK
<1>2. IdsAreAccountedFor
  BY DEF SnowflakeInit, IdsAreAccountedFor
<1>3. ClockIsAhead
  BY <1>1, ClocksAreTimes DEF SnowflakeInit, ClockIsAhead
<1>4. SpinningWrapped /\ IdsAreUnique
  BY DEF SnowflakeInit, SpinningWrapped, IdsAreUnique
<1> QED  BY <1>1, <1>2, <1>3, <1>4 DEF SnowflakeInv

LEMMA SnowflakeNextInv == SnowflakeInv /\ [SnowflakeNext]_snowflakeVars => SnowflakeInv'
<1> SUFFICES ASSUME SnowflakeInv, [SnowflakeNext]_snowflakeVars PROVE SnowflakeInv'
  OBVIOUS
<1>0. SnowflakeTypeOK /\ ClockIsAhead
  BY DEF SnowflakeInv
<1>1. ASSUME NEW g \in Generators, GenerateFirst(g) PROVE SnowflakeInv'
  <2>1. steady[g] => Ahead(g, 0)
    BY <1>0, <1>1, ClocksAreTimes
       DEF Ahead, IssuedBefore, GenerateFirst, ClockIsAhead, SnowflakeTypeOK
  <2>2. spinning' = [spinning EXCEPT ![g] = FALSE]
    BY <1>0, <1>1 DEF GenerateFirst, SnowflakeTypeOK
  <2>3. 0 \in 0..SequenceSize - 1
    BY SnowflakeAssumption
  <2> QED  BY <1>1, <2>1, <2>2, <2>3, ReturnKeepsInv DEF GenerateFirst
<1>2. ASSUME NEW g \in Generators, GenerateNext(g) PROVE SnowflakeInv'
  <2>1. steady[g] => Ahead(g, sequence[g] + 1)
    BY <1>0, <1>2, ClocksAreTimes, SnowflakeAssumption
       DEF Ahead, IssuedBefore, GenerateNext, SnowflakeTypeOK
  <2>2. spinning' = [spinning EXCEPT ![g] = FALSE]
    BY <1>0, <1>2 DEF GenerateNext, SnowflakeTypeOK
  <2>3. sequence[g] + 1 \in 0..SequenceSize - 1
    BY <1>0, <1>2, SnowflakeAssumption DEF GenerateNext, SnowflakeTypeOK
  <2> QED  BY <1>2, <2>1, <2>2, <2>3, ReturnKeepsInv DEF GenerateNext
<1>3. ASSUME NEW g \in Generators, SpinEnd(g) PROVE SnowflakeInv'
  <2>1. steady[g] => Ahead(g, 0)
    BY <1>0, <1>3, ClocksAreTimes DEF Ahead, IssuedBefore, SpinEnd, SnowflakeTypeOK
  <2>2. 0 \in 0..SequenceSize - 1
    BY SnowflakeAssumption
  <2> QED  BY <1>3, <2>1, <2>2, ReturnKeepsInv DEF SpinEnd
<1>4. ASSUME NEW g \in Generators, GenerateSpin(g) PROVE SnowflakeInv'
  <2>1. /\ spinning' = [spinning EXCEPT ![g] = TRUE]
        /\ sequence' = [sequence EXCEPT ![g] = 0]
        /\ UNCHANGED <<clock, lastTime, issued, duplicate, steady>>
    BY <1>4 DEF GenerateSpin
  <2>2. SnowflakeTypeOK'
    BY <1>0, <2>1, SnowflakeAssumption DEF SnowflakeTypeOK
  <2>3. IdsAreAccountedFor'
    <3> SUFFICES ASSUME NEW h \in Generators, NEW i \in issued[h]
                 PROVE  \E t \in Nat, r \in 0..SequenceSize - 1 :
                            /\ i = Pack(t, Node(h), r)
                            /\ steady[h] => IssuedBefore(h, t, r)'
                                            \/ (spinning'[h] /\ t = lastTime[h])
      BY <2>1 DEF IdsAreAccountedFor
    <3>1. PICK t \in Nat, r \in 0..SequenceSize - 1 :
              /\ i = Pack(t, Node(h), r)
              /\ steady[h] => IssuedBefore(h, t, r) \/ (spinning[h] /\ t = lastTime[h])
      BY DEF SnowflakeInv, IdsAreAccountedFor
    <3>2. steady[h] => IssuedBefore(h, t, r)' \/ (spinning'[h] /\ t = lastTime[h])
      BY <1>0, <2>1, <3>1 DEF IssuedBefore, SnowflakeTypeOK
    <3> QED  BY <3>1, <3>2
  <2>4. ClockIsAhead'
    BY <1>0, <2>1 DEF ClockIsAhead
  <2>5. SpinningWrapped'
    BY <1>0, <2>1 DEF SnowflakeInv, SpinningWrapped, SnowflakeTypeOK
  <2>6. IdsAreUnique'
    BY <2>1 DEF SnowflakeInv, IdsAreUnique
  <2> QED  BY <2>2, <2>3, <2>4, <2>5, <2>6 DEF SnowflakeInv
<1>5. ASSUME NEW g \in Generators, Tick(g) \/ ClockSetBack(g) PROVE SnowflakeInv'
  <2>1. /\ UNCHANGED <<lastTime, sequence, spinning, issued, duplicate>>
        /\ \/ /\ clock' = [clock EXCEPT ![g] = clock[g] + 1]
              /\ clock[g] < MaxTime
              /\ UNCHANGED steady
           \/ /\ clock' = [clock EXCEPT ![g] = clock[g] - 1]
              /\ clock[g] > 0
              /\ steady' = [steady EXCEPT ![g] = FALSE]
    BY <1>5 DEF Tick, ClockSetBack
  <2>2. SnowflakeTypeOK'
    <3>1. clock'[g] \in 0..MaxTime
      BY <1>0, <2>1, SnowflakeAssumption DEF SnowflakeTypeOK
    <3>2. clock' = [clock EXCEPT ![g] = clock'[g]]
      BY <1>0, <2>1 DEF SnowflakeTypeOK
    <3>3. clock' \in [Generators -> 0..MaxTime]
      BY <1>0, <3>1, <3>2 DEF SnowflakeTypeOK
    <3>4. steady' \in [Generators -> BOOLEAN]
      BY <1>0, <2>1 DEF SnowflakeTypeOK
    <3> QED  BY <1>0, <2>1, <3>3, <3>4 DEF SnowflakeTypeOK
  <2>3. \A h \in Generators : steady'[h] => steady[h]
    BY <1>0, <2>1 DEF SnowflakeTypeOK
  <2>4. IdsAreAccountedFor'
    BY <2>1, <2>3 DEF SnowflakeInv, IdsAreAccountedFor, IssuedBefore
  <2>5. ClockIsAhead'
    BY <1>0, <2>1 DEF ClockIsAhead, SnowflakeTypeOK
  <2>6. SpinningWrapped' /\ IdsAreUnique'
    BY <2>1, <2>3 DEF SnowflakeInv, SpinningWrapped, IdsAreUnique
  <2> QED  BY <2>2, <2>4, <2>5, <2>6 DEF SnowflakeInv
<1>6. CASE UNCHANGED snowflakeVars
  BY <1>6 DEF snowflakeVars, SnowflakeInv, SnowflakeTypeOK, IdsAreAccountedFor,
              IssuedBefore, ClockIsAhead, SpinningWrapped, IdsAreUnique
<1> QED  BY <1>1, <1>2, <1>3, <1>4, <1>5, <1>6 DEF SnowflakeNext

LEMMA SnowflakeInvariance == SnowflakeSpec => []SnowflakeInv
BY SnowflakeInitInv, SnowflakeNextInv, PTL DEF SnowflakeSpec

-----------------------------------------------------------------------------
(* Results                                                                 *)

(* Generators whose kept node bits differ never issue the same id twice,   *)
(* for any number of generators, any field sizes and any clocks that are   *)
(* not set back.                                                           *)
THEOREM UniqueIds == SnowflakeSpec => []IdsAreUnique
<1>1. SnowflakeInv => IdsAreUnique
  BY DEF SnowflakeInv
<1> QED  BY <1>1, SnowflakeInvariance, PTL

(* The sequence number never leaves its bit field, so it never disturbs    *)
(* the node and time beside it.                                            *)
THEOREM SnowflakeTypeCorrect == SnowflakeSpec => []SnowflakeTypeOK
<1>1. SnowflakeInv => SnowflakeTypeOK
  BY DEF SnowflakeInv
<1> QED  BY <1>1, SnowflakeInvariance, PTL

(* While its clock is not set back, a generator issues increasing ids.     *)
THEOREM OrderedIds == SnowflakeSpec => IdsAreOrdered
<1>1. SnowflakeInv /\ [SnowflakeNext]_snowflakeVars => [IdsIncrease]_snowflakeVars
  <2> SUFFICES ASSUME SnowflakeInv, SnowflakeNext,
                      NEW g \in Generators, steady[g],
                      NEW new \in issued'[g] \ issued[g], NEW old \in issued[g]
               PROVE  old < new
    BY DEF IdsIncrease, snowflakeVars
  <2>0. SnowflakeTypeOK /\ ClockIsAhead
    BY DEF SnowflakeInv
  <2>1. PICK h \in Generators :
            \/ GenerateFirst(h) \/ GenerateNext(h) \/ GenerateSpin(h) \/ SpinEnd(h)
            \/ Tick(h) \/ ClockSetBack(h)
    BY DEF SnowflakeNext
  <2>2. PICK s \in 0..SequenceSize - 1 : Return(h, s) /\ (steady[h] => Ahead(h, s))
    <3>1. CASE GenerateFirst(h)
      <4>1. Return(h, 0) /\ (steady[h] => Ahead(h, 0))
        BY <2>0, <3>1, ClocksAreTimes
           DEF Ahead, IssuedBefore, GenerateFirst, ClockIsAhead, SnowflakeTypeOK
      <4> QED  BY <4>1, SnowflakeAssumption
    <3>2. CASE GenerateNext(h)
      <4>1. Return(h, sequence[h] + 1) /\ (steady[h] => Ahead(h, sequence[h] + 1))
        BY <2>0, <3>2, ClocksAreTimes, SnowflakeAssumption
           DEF Ahead, IssuedBefore, GenerateNext, SnowflakeTypeOK
      <4>2. sequence[h] + 1 \in 0..SequenceSize - 1
        BY <2>0, <3>2, SnowflakeAssumption DEF GenerateNext, SnowflakeTypeOK
      <4> QED  BY <4>1, <4>2
    <3>3. CASE SpinEnd(h)
      <4>1. Return(h, 0) /\ (steady[h] => Ahead(h, 0))
        BY <2>0, <3>3, ClocksAreTimes DEF Ahead, IssuedBefore, SpinEnd, SnowflakeTypeOK
      <4> QED  BY <4>1, SnowflakeAssumption
    <3>4. CASE GenerateSpin(h) \/ Tick(h) \/ ClockSetBack(h)
      BY <3>4 DEF GenerateSpin, Tick, ClockSetBack
    <3> QED  BY <2>1, <3>1, <3>2, <3>3, <3>4
  <2>3. h = g /\ new = Pack(clock[g], Node(g), s)
    BY <2>0, <2>2 DEF Return, SnowflakeTypeOK
  <2> QED  BY <2>2, <2>3, NewIdIsGreater
<1> QED  BY <1>1, SnowflakeInvariance, PTL DEF SnowflakeSpec, IdsAreOrdered

-----------------------------------------------------------------------------
(* CircuitBreaker.                                                         *)

(* What the breaker keeps of the past is the past: its count the failures  *)
(* in a row, its time the time since the last of them.                     *)
BreakerInv ==
    /\ BreakerTypeOK
    /\ streak = failures
    /\ quiet = elapsed
    /\ circuit = "HalfOpen" => quiet > ResetTimeout

LEMMA CapBounds ==
    ASSUME NEW limit \in Nat, NEW n \in 0..limit
    PROVE  /\ Cap(n + 1, limit) \in 0..limit
           /\ Cap(n + 1, limit) >= n
           /\ Cap(n + 1, limit) = limit <=> n + 1 >= limit
BY DEF Cap

LEMMA BreakerInitInv == BreakerInit => BreakerInv
BY BreakerAssumption DEF BreakerInit, BreakerInv, BreakerTypeOK, LongAgo

LEMMA BreakerNextInv == BreakerInv /\ [BreakerNext]_breakerVars => BreakerInv'
<1> SUFFICES ASSUME BreakerInv, [BreakerNext]_breakerVars
             PROVE  BreakerInv'
  OBVIOUS
<1> USE BreakerAssumption DEF BreakerInv, BreakerTypeOK
<1>1. ASSUME NEW o \in Operations, AllowClosed(o)
      PROVE  BreakerInv'
  BY <1>1 DEF AllowClosed, LetThrough
<1>2. ASSUME NEW o \in Operations, AllowProbe(o)
      PROVE  BreakerInv'
  BY <1>2 DEF AllowProbe, LetThrough
<1>3. ASSUME NEW o \in Operations, Refuse(o)
      PROVE  BreakerInv'
  BY <1>3 DEF Refuse, breakerVars
<1>4. ASSUME NEW o \in Operations, Success(o)
      PROVE  BreakerInv'
  BY <1>4 DEF Success
<1>5. ASSUME NEW o \in Operations, Failure(o)
      PROVE  BreakerInv'
  BY <1>5, CapBounds DEF Failure, LongAgo, Cap
<1>6. CASE TimePasses
  <2>1. elapsed' = Cap(elapsed + 1, LongAgo) /\ quiet' = elapsed'
    BY <1>6 DEF TimePasses
  <2>2. LongAgo \in Nat
    BY DEF LongAgo
  <2>3. elapsed' \in 0..LongAgo /\ elapsed' >= elapsed
    BY <2>1, <2>2, CapBounds
  <2> QED  BY <1>6, <2>1, <2>2, <2>3 DEF TimePasses, LongAgo
<1>7. CASE UNCHANGED breakerVars
  BY <1>7 DEF breakerVars
<1> QED  BY <1>1, <1>2, <1>3, <1>4, <1>5, <1>6, <1>7 DEF BreakerNext, Allow

LEMMA BreakerInvariance == BreakerSpec => []BreakerInv
BY BreakerInitInv, BreakerNextInv, PTL DEF BreakerSpec

-----------------------------------------------------------------------------
(* Results                                                                 *)

(* The count of failures and the state of the breaker go together: it is   *)
(* closed exactly while the count is below the threshold.                  *)
THEOREM BreakerTypeCorrect == BreakerSpec => []BreakerTypeOK
<1>1. BreakerInv => BreakerTypeOK
  BY DEF BreakerInv
<1> QED  BY <1>1, BreakerInvariance, PTL

(* However the calls of any number of operations overlap, the breaker is   *)
(* closed exactly while fewer failures in a row than the threshold were    *)
(* recorded, and half open only after a quiet time.                        *)
THEOREM BreakerClosedByStreak == BreakerSpec => []ClosedByStreak
<1>1. BreakerInv => ClosedByStreak
  BY BreakerAssumption DEF BreakerInv, BreakerTypeOK, ClosedByStreak
<1> QED  BY <1>1, BreakerInvariance, PTL

(* Nobody gets through in the time after the last of too many failures.    *)
THEOREM BreakerCoolsDown == BreakerSpec => CoolDownIsKept
<1>1. BreakerInv /\ [BreakerNext]_breakerVars => [CoolsDown]_breakerVars
  <2> SUFFICES ASSUME BreakerInv, BreakerNext,
                      NEW o \in running', o \notin running
               PROVE  streak < FailureThreshold \/ quiet > ResetTimeout
    BY DEF CoolsDown
  <2> USE BreakerAssumption DEF BreakerInv, BreakerTypeOK
  <2>1. PICK p \in Operations : AllowClosed(p) \/ AllowProbe(p)
    BY DEF BreakerNext, Allow, Refuse, Success, Failure, TimePasses, breakerVars
  <2>2. CASE AllowClosed(p)
    BY <2>2 DEF AllowClosed
  <2>3. CASE AllowProbe(p)
    BY <2>3 DEF AllowProbe
  <2> QED  BY <2>1, <2>2, <2>3
<1> QED  BY <1>1, BreakerInvariance, PTL DEF BreakerSpec, CoolDownIsKept

-----------------------------------------------------------------------------
(* RateLimiter.                                                            *)

(* What was allowed in the window and what could be allowed now are, both  *)
(* together, no more than a full bucket and what has flowed in since the   *)
(* window began.                                                           *)
Balance ==
    span <= Window => Token * admitted + Refilled <= MaxTokens + RefillRate * span

LimiterInv == LimiterTypeOK /\ RateIsKept /\ Balance

(* Multiplication is left to these facts.                                  *)
LEMMA Products ==
    ASSUME NEW m \in Nat, NEW n \in Nat
    PROVE  /\ m * n \in Nat
           /\ n * m = m * n
           /\ m * (n + 1) = m * n + m
           /\ m * 0 = 0
OBVIOUS

LEMMA RefilledBounds ==
    ASSUME LimiterTypeOK
    PROVE  /\ Refilled \in 0..MaxTokens
           /\ Refilled >= tokens
           /\ sinceRefill = 0 => Refilled = tokens
<1>1. sinceRefill * RefillRate \in Nat /\ (sinceRefill = 0 => sinceRefill * RefillRate = 0)
  BY Products, LimiterAssumption DEF LimiterTypeOK
<1> QED  BY <1>1, LimiterAssumption DEF LimiterTypeOK, Refilled

LEMMA LimiterInitInv == LimiterInit => LimiterInv
<1> SUFFICES ASSUME LimiterInit
             PROVE  LimiterInv
  OBVIOUS
<1>1. LimiterTypeOK
  BY LimiterAssumption DEF LimiterInit, LimiterTypeOK
<1>2. Token * admitted = 0 /\ RefillRate * span = 0
  BY Products, LimiterAssumption DEF LimiterInit
<1>3. Refilled = MaxTokens
  BY <1>1, RefilledBounds DEF LimiterInit
<1> QED  BY <1>1, <1>2, <1>3, LimiterAssumption DEF LimiterInit, LimiterInv, RateIsKept, Balance

(* A request that is allowed takes a token from what could be allowed.     *)
LEMMA GrantedKeeps == LimiterInv /\ Granted /\ waiting' \subseteq Waiters => LimiterInv'
<1> SUFFICES ASSUME LimiterInv, Granted, waiting' \subseteq Waiters
             PROVE  LimiterInv'
  OBVIOUS
<1> USE LimiterAssumption DEF LimiterInv
<1>1. Refilled \in 0..MaxTokens /\ Refilled >= Token
  BY RefilledBounds DEF Granted
<1>2. LimiterTypeOK'
  BY <1>1 DEF Granted, LimiterTypeOK
<1>3. Refilled' = Refilled - Token
  <2>1. sinceRefill' * RefillRate = 0
    BY Products DEF Granted
  <2> QED  BY <2>1, <1>1 DEF Granted, Refilled
<1>4. Token * (admitted + 1) = Token * admitted + Token
  BY Products DEF LimiterTypeOK
<1>5. Token * admitted \in Nat /\ RefillRate * span \in Nat
  BY Products DEF LimiterTypeOK
<1>6. RateIsKept' /\ Balance'
  <2>1. CASE span <= Window
    <3>1. admitted' = admitted + 1 /\ span' = span
      BY <2>1 DEF Granted
    <3>2. Token * admitted + Refilled <= MaxTokens + RefillRate * span
      BY <2>1 DEF Balance
    <3> HIDE DEF Refilled
    <3> QED  BY <1>1, <1>3, <1>4, <1>5, <3>1, <3>2 DEF RateIsKept, Balance
  <2>2. CASE ~(span <= Window)
    BY <2>2 DEF Granted, RateIsKept, Balance
  <2> QED  BY <2>1, <2>2
<1> QED  BY <1>2, <1>6

LEMMA DeniedKeeps == LimiterInv /\ Denied /\ waiting' \subseteq Waiters => LimiterInv'
<1> SUFFICES ASSUME LimiterInv, Denied, waiting' \subseteq Waiters
             PROVE  LimiterInv'
  OBVIOUS
<1> USE LimiterAssumption DEF LimiterInv
<1>1. Refilled \in 0..MaxTokens
  BY RefilledBounds
<1>2. LimiterTypeOK'
  BY <1>1 DEF Denied, LimiterTypeOK
<1>3. Refilled' = Refilled
  <2>1. sinceRefill' * RefillRate = 0
    BY Products DEF Denied
  <2> QED  BY <2>1, <1>1 DEF Denied, Refilled
<1> QED  BY <1>2, <1>3 DEF Denied, RateIsKept, Balance

(* A tick adds at most one tick's tokens, and one tick to the window.      *)
LEMMA TickKeeps == LimiterInv /\ LimiterTick => LimiterInv'
<1> SUFFICES ASSUME LimiterInv, LimiterTick
             PROVE  LimiterInv'
  OBVIOUS
<1> USE LimiterAssumption DEF LimiterInv
<1>1. LimiterTypeOK'
  BY DEF LimiterTick, LimiterTypeOK
<1>2. Refilled \in 0..MaxTokens /\ Refilled' \in Int /\ Refilled' <= Refilled + RefillRate
  <2>1. (sinceRefill + 1) * RefillRate = sinceRefill * RefillRate + RefillRate
    <3>1. RefillRate * (sinceRefill + 1) = RefillRate * sinceRefill + RefillRate
      BY Products DEF LimiterTypeOK
    <3> QED  BY <3>1, Products DEF LimiterTypeOK
  <2>2. sinceRefill * RefillRate \in Nat
    BY Products DEF LimiterTypeOK
  <2>3. sinceRefill' \in {sinceRefill, sinceRefill + 1} /\ tokens' = tokens
    BY DEF LimiterTick
  <2>4. sinceRefill' * RefillRate \in Nat
        /\ sinceRefill' * RefillRate <= sinceRefill * RefillRate + RefillRate
    BY <2>1, <2>2, <2>3
  <2>5. Refilled \in 0..MaxTokens
    BY RefilledBounds
  <2>6. tokens \in 0..MaxTokens
    BY DEF LimiterTypeOK
  <2> QED  BY <2>2, <2>3, <2>4, <2>5, <2>6 DEF Refilled
<1>3. RefillRate * (span + 1) = RefillRate * span + RefillRate
  BY Products DEF LimiterTypeOK
<1>4. Token * admitted \in Nat /\ RefillRate * span \in Nat
  BY Products DEF LimiterTypeOK
<1>5. admitted' = admitted
  BY DEF LimiterTick
<1>6. CASE span <= Window
  <2>1. span' = span + 1
    BY <1>6 DEF LimiterTick
  <2>2. Token * admitted + Refilled <= MaxTokens + RefillRate * span
    BY <1>6 DEF Balance
  <2>3. RateIsKept'
    BY <1>2, <1>3, <1>4, <1>5, <2>1, <2>2 DEF RateIsKept
  <2>4. Balance'
    BY <1>2, <1>3, <1>4, <1>5, <2>1, <2>2 DEF Balance
  <2> QED  BY <1>1, <2>3, <2>4
<1>7. CASE ~(span <= Window)
  BY <1>1, <1>5, <1>7 DEF LimiterTick, RateIsKept, Balance
<1> QED  BY <1>6, <1>7

(* What the bucket holds when a window begins is at most a full bucket.    *)
LEMMA ObserveKeeps == LimiterInv /\ Observe => LimiterInv'
<1> SUFFICES ASSUME LimiterInv, Observe
             PROVE  LimiterInv'
  OBVIOUS
<1> USE LimiterAssumption DEF LimiterInv
<1>1. LimiterTypeOK'
  BY DEF Observe, LimiterTypeOK
<1>2. Refilled' = Refilled /\ Refilled \in 0..MaxTokens
  BY RefilledBounds DEF Observe, Refilled
<1>3. Token * admitted' = 0 /\ RefillRate * span' = 0
  BY Products DEF Observe
<1> QED  BY <1>1, <1>2, <1>3 DEF RateIsKept, Balance

LEMMA LimiterNextInv == LimiterInv /\ [LimiterNext]_limiterVars => LimiterInv'
<1> SUFFICES ASSUME LimiterInv, [LimiterNext]_limiterVars
             PROVE  LimiterInv'
  OBVIOUS
<1>0. waiting \subseteq Waiters
  BY DEF LimiterInv, LimiterTypeOK
<1>1. CASE AllowRequest
  BY <1>0, <1>1, GrantedKeeps, DeniedKeeps DEF AllowRequest
<1>2. ASSUME NEW w \in Waiters, WaitBegin(w)
      PROVE  LimiterInv'
  BY <1>2 DEF WaitBegin, LimiterInv, LimiterTypeOK, RateIsKept, Balance, Refilled
<1>3. ASSUME NEW w \in Waiters, WaitEnd(w)
      PROVE  LimiterInv'
  BY <1>0, <1>3, GrantedKeeps DEF WaitEnd
<1>4. ASSUME NEW w \in Waiters, WaitOn(w)
      PROVE  LimiterInv'
  BY <1>0, <1>4, DeniedKeeps DEF WaitOn
<1>5. CASE LimiterTick
  BY <1>5, TickKeeps
<1>6. CASE Observe
  BY <1>6, ObserveKeeps
<1>7. CASE UNCHANGED limiterVars
  BY <1>7 DEF limiterVars, LimiterInv, LimiterTypeOK, RateIsKept, Balance, Refilled
<1> QED  BY <1>1, <1>2, <1>3, <1>4, <1>5, <1>6, <1>7 DEF LimiterNext

LEMMA LimiterInvariance == LimiterSpec => []LimiterInv
BY LimiterInitInv, LimiterNextInv, PTL DEF LimiterSpec

-----------------------------------------------------------------------------
(* The theorems                                                            *)

(* Type correctness of the rate limiter: the bucket never overflows.       *)
THEOREM LimiterTypeCorrect == LimiterSpec => []LimiterTypeOK
BY LimiterInvariance, PTL DEF LimiterInv

(* No window of time sees more requests allowed than burst and rate permit. *)
THEOREM LimiterKeepsRate == LimiterSpec => []RateIsKept
BY LimiterInvariance, PTL DEF LimiterInv

-----------------------------------------------------------------------------
(* Retry.  Attempts are counted one behind the calls while a failed call   *)
(* is slept on.                                                            *)

AttemptsFollow ==
    /\ rpc \in {"check", "call"} => Len(outcomes) = attempt
    /\ rpc = "check" => attempt = 0 \/ attempt <= retry.MaxAttempts
    /\ rpc = "call" => attempt < retry.MaxAttempts
    /\ rpc = "sleep" => Len(outcomes) = attempt + 1 /\ attempt < retry.MaxAttempts
    /\ rpc = "returned" /\ outcomes = <<>> => retry.MaxAttempts <= 0
    /\ lastErr <=> outcomes # <<>> /\ ~outcomes[Len(outcomes)]

RetryInv == RetryTypeOK /\ AttemptsFollow

LEMMA RetryFields ==
    ASSUME RetryTypeOK
    PROVE  /\ retry.MaxAttempts \in Int /\ retry.InitialWait \in 0..MaxDuration
           /\ retry.MaxWait \in 0..MaxDuration /\ retry.Multiplier \in Nat \ {0}
           /\ One \in Nat \ {0} /\ MaxDuration \in Nat /\ MinDuration \in Int
BY RetryAssumption DEF RetryTypeOK, MinDuration

LEMMA RetryInitInv == RetryInit => RetryInv
<1> SUFFICES ASSUME RetryInit PROVE RetryInv
  OBVIOUS
<1>1. /\ retry.MaxAttempts \in Int /\ wait \in MinDuration..MaxDuration
  BY RetryAssumption DEF RetryInit, MinDuration
<1>2. RetryTypeOK
  <2>1. lastErr \in BOOLEAN /\ rpc = "check" /\ retry \in RetryConfigs
    BY DEF RetryInit
  <2>2. /\ slept \in Seq(MinDuration..MaxDuration) /\ outcomes \in Seq(BOOLEAN)
        /\ outcomes = <<>> /\ attempt \in Nat
    BY DEF RetryInit
  <2> QED  BY <1>1, <2>1, <2>2 DEF RetryTypeOK
<1>3. AttemptsFollow
  BY DEF RetryInit, AttemptsFollow
<1> QED  BY <1>2, <1>3 DEF RetryInv

LEMMA RetryNextInv == RetryInv /\ [RetryNext]_retryVars => RetryInv'
<1> SUFFICES ASSUME RetryInv, [RetryNext]_retryVars PROVE RetryInv'
  OBVIOUS
<1> USE RetryFields DEF RetryInv
<1>1. CASE CheckAttempt
  BY <1>1 DEF CheckAttempt, RetryTypeOK, AttemptsFollow
<1>2. ASSUME NEW b \in BOOLEAN, outcomes' = Append(outcomes, b)
      PROVE  /\ outcomes' \in Seq(BOOLEAN) /\ outcomes' # <<>>
             /\ Len(outcomes') = Len(outcomes) + 1 /\ Len(outcomes) \in Nat
             /\ outcomes'[Len(outcomes')] = b
  BY SMTT(30), <1>2 DEF RetryTypeOK
<1>3. CASE CallSucceeds
  <2>1. outcomes' = Append(outcomes, TRUE)
    BY <1>3 DEF CallSucceeds
  <2>2. /\ rpc = "call" /\ lastErr' = FALSE /\ lastErr' \in BOOLEAN
        /\ rpc' = "returned"
        /\ UNCHANGED <<retry, attempt, wait, slept>>
    BY <1>3 DEF CallSucceeds
  <2>3. /\ outcomes' \in Seq(BOOLEAN) /\ outcomes' # <<>> /\ Len(outcomes') = attempt + 1
        /\ attempt < retry.MaxAttempts /\ attempt \in Nat
        /\ outcomes'[Len(outcomes')] <=> ~lastErr'
    BY <1>2, <2>1, <2>2 DEF RetryTypeOK, AttemptsFollow
  <2>4. RetryTypeOK'
    BY <2>2, <2>3 DEF RetryTypeOK
  <2>5. AttemptsFollow'
    BY <2>2, <2>3 DEF AttemptsFollow
  <2> QED  BY <2>4, <2>5
<1>4. CASE CallFails
  <2>1. outcomes' = Append(outcomes, FALSE)
    BY <1>4 DEF CallFails
  <2>2. /\ rpc = "call" /\ lastErr' = TRUE /\ lastErr' \in BOOLEAN
        /\ rpc' = "sleep"
        /\ UNCHANGED <<retry, attempt, wait, slept>>
    BY <1>4 DEF CallFails
  <2>3. /\ outcomes' \in Seq(BOOLEAN) /\ outcomes' # <<>> /\ Len(outcomes') = attempt + 1
        /\ attempt < retry.MaxAttempts /\ attempt \in Nat
        /\ outcomes'[Len(outcomes')] <=> ~lastErr'
    BY <1>2, <2>1, <2>2 DEF RetryTypeOK, AttemptsFollow
  <2>4. RetryTypeOK'
    BY <2>2, <2>3 DEF RetryTypeOK
  <2>5. AttemptsFollow'
    BY <2>2, <2>3 DEF AttemptsFollow
  <2> QED  BY <2>4, <2>5
<1>5. CASE Sleep
  <2>1. wait' \in MinDuration..MaxDuration
    BY SMTT(30), <1>5 DEF Sleep, Durations, MinDuration, RetryTypeOK
  <2>2. slept' \in Seq(MinDuration..MaxDuration)
    BY <1>5 DEF Sleep, RetryTypeOK
  <2> QED  BY <1>5, <2>1, <2>2 DEF Sleep, RetryTypeOK, AttemptsFollow
<1>6. CASE UNCHANGED retryVars
  BY <1>6 DEF retryVars, RetryTypeOK, AttemptsFollow
<1> QED  BY <1>1, <1>3, <1>4, <1>5, <1>6 DEF RetryNext

(* Retry calls its function MaxAttempts times at most, for any config, and *)
(* every wait is a Duration, whatever its product overflows to.            *)
THEOREM RetryTypeCorrect == RetrySpec => []RetryTypeOK
BY RetryInitInv, RetryNextInv, PTL DEF RetrySpec, RetryInv

(* Retry answers nil after a call that succeeded and an error after the    *)
(* last one failed; without a call only if MaxAttempts is below 1.         *)
THEOREM RetryAnswersTruly == RetrySpec => []RetryAnswers
<1>1. RetryInv => RetryAnswers
  BY DEF RetryInv, RetryTypeOK, AttemptsFollow, RetryAnswers
<1> QED  BY <1>1, RetryInitInv, RetryNextInv, PTL DEF RetrySpec

(* The waits.  The provers know nothing of a power with a variable         *)
(* exponent; these are the two equations that define it.                   *)
PowersMultiply == \A b \in Nat \ {0} : b^0 = 1 /\ \A n \in Nat : b^(n + 1) = b^n * b

Backoff(k) == CalculateBackoff(retry.InitialWait, retry.MaxWait, Factor, k)

WaitAt(w, k) ==
    /\ Within(w, k - 1)
    /\ IF k = 1 THEN w = retry.InitialWait
       ELSE /\ w <= retry.MaxWait
            /\ Whole => w = Backoff(k)

WaitsInv ==
    /\ Len(slept) = attempt
    /\ One^attempt \in Nat /\ retry.Multiplier^attempt \in Nat
    /\ Whole => Factor^attempt \in Nat
    /\ NoOverflow => /\ wait \in Nat /\ WaitAt(wait, attempt + 1)
                     /\ \A k \in 1..attempt : WaitAt(slept[k], k)

RetryWaitsInv == PowersMultiply /\ RetryInv /\ WaitsInv

Limited(x, limit) == IF x > limit THEN limit ELSE x

LEMMA BackoffAt ==
    ASSUME NEW i, NEW l, NEW f, NEW a \in Nat
    PROVE  CalculateBackoff(i, l, f, a + 1) = Limited(i * f^a, l)
<1>1. (a + 1) - 1 = a
  OBVIOUS
<1> QED  BY <1>1 DEF CalculateBackoff, Limited

(* A wait within the limit is multiplied and limited again: that is what   *)
(* the formula gives for the next attempt.                                 *)
LEMMA LimitAgain ==
    ASSUME NEW x \in Nat, NEW l \in Nat, NEW f \in Nat \ {0}
    PROVE  Limited(Limited(x, l) * f, l) = Limited(x * f, l)
<1>1. x * f \in Nat /\ l * f \in Nat /\ x * f >= x /\ l * f >= l
  OBVIOUS
<1>2. CASE x > l
  BY <1>1, <1>2 DEF Limited
<1>3. CASE ~(x > l)
  BY <1>3 DEF Limited
<1> QED  BY <1>2, <1>3

(* What truncation leaves is no more than what it was given.               *)
LEMMA TruncateBelow ==
    ASSUME RetryAssumption, NEW x \in Nat
    PROVE  Truncate(x) \in Nat /\ Truncate(x) * One <= x
<1>1. PICK o \in Nat \ {0} : o = One
  BY DEF RetryAssumption
<1>2. x \div o \in Nat /\ (x \div o) * o <= x
  OBVIOUS
<1> QED  BY <1>1, <1>2 DEF Truncate

LEMMA TruncateWhole ==
    ASSUME RetryAssumption, NEW n \in Nat
    PROVE  Truncate(n * One) = n
<1>1. PICK o \in Nat \ {0} : o = One
  BY DEF RetryAssumption
<1>2. n * o \in Nat /\ (n * o) \div o = n
  OBVIOUS
<1> QED  BY <1>1, <1>2 DEF Truncate

LEMMA TimesMonotone ==
    ASSUME NEW a \in Nat, NEW b \in Nat, NEW c \in Nat, a <= b
    PROVE  a * c <= b * c /\ a * c \in Nat
OBVIOUS

LEMMA FactorFacts ==
    ASSUME RetryTypeOK
    PROVE  Factor \in Nat /\ (Whole => Factor \in Nat \ {0})
<1>1. PICK o \in Nat \ {0}, m \in Nat \ {0} : o = One /\ m = retry.Multiplier
  BY RetryFields
<1>2. m \div o \in Nat
  OBVIOUS
<1> QED  BY <1>1, <1>2 DEF Factor, Whole

LEMMA SleepWaits ==
    ASSUME RetryWaitsInv, Sleep
    PROVE  WaitsInv'
<1>1. PICK i \in Nat, l \in Nat, m \in Nat \ {0}, o \in Nat \ {0}, a \in Nat :
        /\ i = retry.InitialWait /\ l = retry.MaxWait /\ m = retry.Multiplier /\ o = One
        /\ a = attempt /\ i <= MaxDuration /\ l <= MaxDuration
  BY RetryFields DEF RetryWaitsInv, RetryInv, RetryTypeOK
<1>2. MaxDuration \in Nat /\ MinDuration \in Int /\ MinDuration <= 0
  BY RetryAssumption DEF MinDuration
<1>3. /\ rpc = "sleep" /\ slept' = Append(slept, wait) /\ attempt' = a + 1 /\ retry' = retry
      /\ \E next \in Durations(wait * m) : wait' = Limited(next, l)
  BY <1>1 DEF Sleep, Limited
<1>4. /\ slept \in Seq(MinDuration..MaxDuration) /\ wait \in MinDuration..MaxDuration
      /\ Len(slept) = a
  BY <1>1 DEF RetryWaitsInv, RetryInv, RetryTypeOK, WaitsInv
<1>5. /\ Len(slept') = a + 1 /\ slept'[a + 1] = wait /\ \A k \in 1..a : slept'[k] = slept[k]
  BY <1>3, <1>4
<1>6. PICK p \in Nat, q \in Nat : p = m^a /\ q = o^a
  BY <1>1 DEF RetryWaitsInv, WaitsInv
<1>7. m^(a + 1) = p * m /\ o^(a + 1) = q * o /\ p * m \in Nat /\ q * o \in Nat
  <2>1. m^(a + 1) = m^a * m /\ o^(a + 1) = o^a * o
    BY DEF RetryWaitsInv, PowersMultiply
  <2>2. p * m \in Nat /\ q * o \in Nat
    OBVIOUS
  <2> QED  BY <1>6, <2>1, <2>2
<1>8. Factor \in Nat /\ (Whole => Factor \in Nat \ {0} /\ m = Factor * o)
  BY <1>1, FactorFacts DEF RetryWaitsInv, RetryInv, Whole
<1>9. /\ (NoOverflow' <=> NoOverflow) /\ (Whole' <=> Whole) /\ Factor' = Factor
      /\ \A w, k : WaitAt(w, k)' <=> WaitAt(w, k)
  BY <1>3 DEF NoOverflow, Whole, Factor, WaitAt, Within, Backoff
<1>10. Whole => Factor^(a + 1) \in Nat
  <2> SUFFICES ASSUME Whole PROVE Factor^(a + 1) \in Nat
    OBVIOUS
  <2>1. PICK f \in Nat \ {0} : f = Factor
    BY <1>8
  <2>2. PICK e \in Nat : e = f^a
    BY <1>1, <2>1 DEF RetryWaitsInv, WaitsInv
  <2>3. f^(a + 1) = e * f
    BY <2>2 DEF RetryWaitsInv, PowersMultiply
  <2> QED  BY <2>1, <2>2, <2>3
<1>11. ASSUME NoOverflow
       PROVE  wait' \in Nat /\ WaitAt(wait', a + 2)
  <2>1. PICK w \in Nat : w = wait
    BY <1>11 DEF RetryWaitsInv, WaitsInv
  <2>2. WaitAt(w, a + 1)
    BY <1>1, <1>11, <2>1 DEF RetryWaitsInv, WaitsInv
  <2>3. (a + 1) - 1 = a /\ (a + 2) - 1 = a + 1 /\ a + 2 # 1 /\ (a + 1 = 1 <=> a = 0)
    OBVIOUS
  <2>4. w * q <= i * p
    BY <1>1, <1>6, <2>2, <2>3 DEF WaitAt, Within
  <2>5. (w <= i /\ a = 0) \/ w <= l
    BY <1>1, <2>2, <2>3 DEF WaitAt
  <2>6. PICK t \in Nat : t = Truncate(w * m) /\ t * o <= w * m
    <3>1. w * m \in Nat
      OBVIOUS
    <3> QED  BY <1>1, <3>1, TruncateBelow, RetryAssumption
  <2>7. t <= MaxDuration
    <3>1. w * m <= MaxDuration * o
      <4>1. i * m <= MaxDuration * o /\ l * m <= MaxDuration * o
        BY <1>1, <1>11 DEF NoOverflow
      <4>2. w * m <= i * m \/ w * m <= l * m
        BY <2>5, TimesMonotone
      <4>3. PICK d \in Nat : d = MaxDuration * o
        BY <1>2
      <4>4. w * m \in Nat /\ i * m \in Nat /\ l * m \in Nat
        OBVIOUS
      <4> QED  BY <4>1, <4>2, <4>3, <4>4
    <3>2. t * o <= MaxDuration * o
      <4>1. t * o \in Nat /\ w * m \in Nat /\ MaxDuration * o \in Nat
        BY <1>2
      <4> QED  BY <2>6, <3>1, <4>1
    <3>3. CASE t > MaxDuration
      <4>1. t * o >= (MaxDuration + 1) * o
        BY <1>2, <3>3, TimesMonotone
      <4>2. (MaxDuration + 1) * o = MaxDuration * o + o
        BY <1>2
      <4> QED  BY <1>2, <3>2, <4>1, <4>2
    <3> QED  BY <1>2, <3>3
  <2>8. wait' = Limited(t, l)
    <3>1. Durations(w * m) = {t}
      BY <1>2, <2>6, <2>7 DEF Durations
    <3> QED  BY <1>3, <2>1, <3>1
  <2>9. wait' \in Nat /\ wait' <= t /\ wait' <= l
    BY <2>8 DEF Limited
  <2>10. wait' * (q * o) <= i * (p * m)
    <3>1. PICK v \in Nat : v = wait' /\ v <= t
      BY <2>9
    <3>2. v * o <= w * m /\ v * o \in Nat /\ w * m \in Nat
      <4>1. v * o <= t * o /\ v * o \in Nat
        BY <3>1, TimesMonotone
      <4>2. t * o \in Nat /\ w * m \in Nat
        OBVIOUS
      <4> QED  BY <2>6, <4>1, <4>2
    <3>3. (v * o) * q <= (w * m) * q
      BY <3>2, TimesMonotone
    <3>4. (w * q) * m <= (i * p) * m
      <4>1. w * q \in Nat /\ i * p \in Nat
        OBVIOUS
      <4> QED  BY <2>4, <4>1, TimesMonotone
    <3>5. (v * o) * q = v * (q * o)
      OBVIOUS
    <3>6. (w * m) * q = (w * q) * m
      OBVIOUS
    <3>7. (i * p) * m = i * (p * m)
      OBVIOUS
    <3>8. (w * m) * q \in Nat /\ (i * p) * m \in Nat /\ (v * o) * q \in Nat
      OBVIOUS
    <3>9. PICK x1 \in Nat, x2 \in Nat, x3 \in Nat :
              x1 = (v * o) * q /\ x2 = (w * m) * q /\ x3 = (i * p) * m
      BY <3>8
    <3>10. x1 <= x2 /\ x2 <= x3
      BY <3>3, <3>4, <3>6, <3>9
    <3>11. x1 <= x3
      BY <3>10
    <3>12. x1 = wait' * (q * o) /\ x3 = i * (p * m)
      BY <3>1, <3>5, <3>7, <3>9
    <3> QED  BY <3>11, <3>12
  <2>11. Within(wait', (a + 2) - 1)
    BY <1>1, <1>7, <2>3, <2>10 DEF Within
  <2>12. ASSUME Whole
         PROVE  wait' = Backoff(a + 2)
    <3>1. PICK f \in Nat \ {0}, e \in Nat : f = Factor /\ e = f^a /\ m = f * o
      BY <1>1, <1>8, <2>12 DEF RetryWaitsInv, WaitsInv
    <3>2. f^(a + 1) = e * f
      BY <3>1 DEF RetryWaitsInv, PowersMultiply
    <3>3. /\ Backoff(a + 1) = Limited(i * e, l)
          /\ Backoff(a + 2) = Limited(i * (e * f), l)
      <4>1. a + 2 = (a + 1) + 1 /\ a + 1 \in Nat
        OBVIOUS
      <4>2. /\ Backoff(a + 1) = CalculateBackoff(i, l, f, a + 1)
            /\ Backoff(a + 2) = CalculateBackoff(i, l, f, (a + 1) + 1)
        BY <1>1, <3>1, <4>1 DEF Backoff
      <4>3. /\ CalculateBackoff(i, l, f, a + 1) = Limited(i * f^a, l)
            /\ CalculateBackoff(i, l, f, (a + 1) + 1) = Limited(i * f^(a + 1), l)
        BY <4>1, BackoffAt
      <4> QED  BY <3>1, <3>2, <4>2, <4>3
    <3>4. t = w * f
      <4>1. w * m = (w * f) * o /\ w * f \in Nat
        BY <3>1
      <4> QED  BY <1>1, <2>6, <4>1, TruncateWhole, RetryAssumption
    <3>5. CASE a = 0
      <4>1. w = i /\ e = 1
        BY <1>1, <2>2, <2>3, <3>1, <3>5 DEF WaitAt, RetryWaitsInv, PowersMultiply
      <4>2. i * (e * f) = w * f
        BY <4>1
      <4> QED  BY <2>8, <3>3, <3>4, <4>2
    <3>6. CASE a # 0
      <4>1. w = Limited(i * e, l)
        BY <2>2, <2>3, <2>12, <3>3, <3>6 DEF WaitAt
      <4>2. PICK x \in Nat : x = i * e
        OBVIOUS
      <4>3. Limited(w * f, l) = Limited(x * f, l)
        BY <4>1, <4>2, LimitAgain
      <4>4. x * f = i * (e * f)
        BY <4>2
      <4> QED  BY <2>8, <3>3, <3>4, <4>3, <4>4
    <3> QED  BY <3>5, <3>6
  <2> QED  BY <1>1, <2>3, <2>9, <2>11, <2>12 DEF WaitAt
<1>12. ASSUME NoOverflow, NEW k \in 1..a + 1
       PROVE  WaitAt(slept'[k], k)
  <2>1. CASE k = a + 1
    BY <1>1, <1>5, <1>12, <2>1 DEF RetryWaitsInv, WaitsInv
  <2>2. CASE k \in 1..a
    BY <1>1, <1>5, <1>12, <2>2 DEF RetryWaitsInv, WaitsInv
  <2> QED  BY <2>1, <2>2
<1>13. (a + 1) + 1 = a + 2
  OBVIOUS
<1>14. One^(a + 1) \in Nat /\ retry.Multiplier^(a + 1) \in Nat
  BY <1>1, <1>7
<1> QED  BY <1>3, <1>5, <1>9, <1>10, <1>11, <1>12, <1>13, <1>14 DEF WaitsInv

(* Retry keeps to its config in attempts and answer however the calls end. *)
(* As long as no product overflows, its waits are never above the formula  *)
(* of calculateBackoff nor, after the first, above MaxWait, for any        *)
(* positive fraction as multiplier; for a whole one they are that formula. *)
THEOREM RetryPlanKept == PowersMultiply /\ RetrySpec => []RetryKeepsPlan
<1>1. PowersMultiply /\ RetryInit => RetryWaitsInv
  <2> SUFFICES ASSUME PowersMultiply, RetryInit PROVE RetryInv /\ WaitsInv
    BY DEF RetryWaitsInv
  <2>1. RetryInv
    BY RetryInitInv
  <2>2. /\ retry.Multiplier \in Nat \ {0} /\ One \in Nat \ {0} /\ retry.InitialWait \in Nat
        /\ Whole => Factor \in Nat \ {0}
    BY <2>1, RetryFields, FactorFacts DEF RetryInv
  <2>3. retry.Multiplier^0 = 1 /\ One^0 = 1 /\ (Whole => Factor^0 = 1)
    BY <2>2 DEF PowersMultiply
  <2>4. attempt = 0 /\ slept = <<>> /\ wait = retry.InitialWait
    BY DEF RetryInit
  <2>5. WaitAt(wait, 0 + 1)
    <3>1. 0 + 1 = 1 /\ (0 + 1) - 1 = 0
      OBVIOUS
    <3> QED  BY <2>2, <2>3, <2>4, <3>1 DEF WaitAt, Within
  <2> QED  BY <2>1, <2>2, <2>3, <2>4, <2>5 DEF WaitsInv
<1>2. RetryWaitsInv /\ [RetryNext]_retryVars => RetryWaitsInv'
  <2> SUFFICES ASSUME RetryWaitsInv, [RetryNext]_retryVars PROVE WaitsInv' /\ RetryInv'
    BY DEF RetryWaitsInv, PowersMultiply
  <2>1. RetryInv'
    BY RetryNextInv DEF RetryWaitsInv
  <2>2. CASE Sleep
    BY <2>1, <2>2, SleepWaits
  <2>3. CASE UNCHANGED <<retry, attempt, wait, slept>>
    <3>1. /\ (NoOverflow' <=> NoOverflow) /\ (Whole' <=> Whole) /\ Factor' = Factor
          /\ \A w, k : WaitAt(w, k)' <=> WaitAt(w, k)
      BY <2>3 DEF NoOverflow, Whole, Factor, WaitAt, Within, Backoff
    <3> QED  BY <2>1, <2>3, <3>1 DEF RetryWaitsInv, WaitsInv
  <2>4. Sleep \/ UNCHANGED <<retry, attempt, wait, slept>>
    BY DEF RetryNext, CheckAttempt, CallSucceeds, CallFails, retryVars
  <2> QED  BY <2>2, <2>3, <2>4
<1>3. RetryWaitsInv => RetryKeepsPlan
  <2> SUFFICES ASSUME RetryWaitsInv PROVE RetryKeepsPlan
    OBVIOUS
  <2>1. RetryTypeOK /\ RetryAnswers
    BY DEF RetryWaitsInv, RetryInv, RetryTypeOK, AttemptsFollow, RetryAnswers
  <2>2. DOMAIN slept = 1..attempt
    BY <2>1 DEF RetryWaitsInv, WaitsInv, RetryTypeOK
  <2>3. WaitsFollowFormula
    <3> SUFFICES ASSUME NoOverflow, NEW k \in DOMAIN slept
                 PROVE  /\ Within(slept[k], k - 1)
                        /\ IF k = 1 THEN slept[k] = retry.InitialWait
                           ELSE /\ slept[k] <= retry.MaxWait
                                /\ Whole => slept[k] = CalculateBackoff(retry.InitialWait,
                                                         retry.MaxWait, Factor, k)
      BY DEF WaitsFollowFormula
    <3>1. WaitAt(slept[k], k)
      BY <2>2 DEF RetryWaitsInv, WaitsInv
    <3> QED  BY <3>1 DEF WaitAt, Backoff
  <2> QED  BY <2>1, <2>3 DEF RetryKeepsPlan
<1> QED  BY <1>1, <1>2, <1>3, PTL DEF RetrySpec

-----------------------------------------------------------------------------
(* HTTPPollingStrategy.  The poll loops follow the connects, the lock      *)
(* follows the calls, and the events follow both: what has been announced  *)
(* last is not announced again.                                            *)

PollLoopsFollow ==
    /\ closeChan = connects
    /\ closed \subseteq 1..connects
    /\ connected => connects \in Pollers /\ connects \notin closed
    /\ \A p \in Pollers : ppc[p] = "idle" <=> p > connects
    /\ \A p \in Pollers : ppc[p] \in {"select", "done"} => pchan[p] \in p..connects
    /\ \A p \in Pollers : ppc[p] = "done" => pchan[p] \in closed

LockFollows ==
    /\ \A t \in Threads : tpc[t] \in {"announce", "report"} => mu = t
    /\ \A t \in Threads : tpc[t] = "announce" => connected
    /\ \A t \in Threads : tpc[t] = "report" => ~connected

(* The last event of its sort that waits in the channel is a kind.         *)
LastIs(kind) ==
    \E i \in DOMAIN eventChan :
        /\ eventChan[i] = kind
        /\ \A j \in DOMAIN eventChan : j > i => eventChan[j] = "message_sent"

(* The link is up as far as the receiver of Events has been told.          *)
Announced ==
    IF connected THEN \A t \in Threads : tpc[t] # "announce"
                 ELSE \E t \in Threads : tpc[t] = "report"

EventsFollow ==
    /\ EventsAlternate
    /\ Announced => ~LastIs("disconnected")
    /\ ~Announced => ~LastIs("connected")

PollingInv == PollingTypeOK /\ PollLoopsFollow /\ LockFollows /\ EventsFollow

LEMMA PollingInitInv == PollingInit => PollingInv
<1> SUFFICES ASSUME PollingInit PROVE PollingInv
  OBVIOUS
<1> USE PollingAssumption DEF PollingInit
<1>1. PollingTypeOK
  <2>1. connected \in BOOLEAN /\ mu \in Threads \cup {Nobody}
    OBVIOUS
  <2>2. /\ closeChan \in 0..MaxConnects /\ closed \subseteq Pollers
        /\ eventChan \in Seq(Events) /\ Len(eventChan) <= EventCap
        /\ connects \in 0..MaxConnects /\ reports \in Nat
    OBVIOUS
  <2>3. /\ tpc \in [Threads -> {"idle", "announce", "report", "sent"}]
        /\ ppc \in [Pollers -> {"idle", "top", "select", "done"}]
        /\ pchan \in [Pollers -> 0..MaxConnects]
    OBVIOUS
  <2> QED  BY <2>1, <2>2, <2>3 DEF PollingTypeOK
<1>2. PollLoopsFollow /\ LockFollows
  BY DEF PollLoopsFollow, LockFollows, Pollers
<1>3. EventsFollow
  BY DEF EventsFollow, EventsAlternate, LastIs
<1> QED  BY <1>1, <1>2, <1>3 DEF PollingInv

(* A call moves on; what it does to the channel is left open here.         *)
LEMMA PollingCallType ==
    ASSUME PollingInv, NEW t \in Threads,
           \/ ConnectStart(t) \/ ConnectAnnounce(t) \/ DisconnectDown(t)
           \/ DisconnectReport(t) \/ SendCheck(t) \/ SendPost(t)
    PROVE  PollingTypeOK'
<1> USE PollingAssumption DEF PollingInv, PollingTypeOK
<1>1. tpc' \in [Threads -> {"idle", "announce", "report", "sent"}]
  BY DEF ConnectStart, ConnectAnnounce, DisconnectDown, DisconnectReport, SendCheck, SendPost,
         Step
<1>2. eventChan' \in Seq(Events) /\ Len(eventChan') <= EventCap
  <2>1. CASE UNCHANGED eventChan
    BY <2>1
  <2>2. CASE Post("connected") \/ Post("disconnected") \/ Post("message_sent")
    <3>1. PICK kind \in Events : Post(kind)
      BY <2>2 DEF Events
    <3> QED  BY <3>1 DEF Post
  <2> QED
    BY <2>1, <2>2
    DEF ConnectStart, ConnectAnnounce, DisconnectDown, DisconnectReport, SendCheck, SendPost
<1>3. connected' \in BOOLEAN /\ mu' \in Threads \cup {Nobody}
  BY DEF ConnectStart, ConnectAnnounce, DisconnectDown, DisconnectReport, SendCheck, SendPost,
         link
<1>4. CASE ConnectStart(t)
  <2>1. connects + 1 \in Pollers /\ connects + 1 \in 0..MaxConnects
    BY <1>4 DEF ConnectStart, Pollers
  <2> QED  BY <1>1, <1>2, <1>3, <1>4, <2>1 DEF ConnectStart
<1>5. CASE DisconnectDown(t)
  <2>1. closeChan \in Pollers
    BY <1>5 DEF DisconnectDown, PollLoopsFollow
  <2> QED  BY <1>1, <1>2, <1>3, <1>5, <2>1 DEF DisconnectDown, loops
<1>6. CASE ConnectAnnounce(t) \/ DisconnectReport(t) \/ SendCheck(t) \/ SendPost(t)
  BY <1>1, <1>2, <1>3, <1>6
  DEF ConnectAnnounce, DisconnectReport, SendCheck, SendPost, link, loops
<1> QED  BY <1>4, <1>5, <1>6

LEMMA PollingCallFollows ==
    ASSUME PollingInv, NEW t \in Threads,
           \/ ConnectStart(t) \/ ConnectAnnounce(t) \/ DisconnectDown(t)
           \/ DisconnectReport(t) \/ SendCheck(t) \/ SendPost(t)
    PROVE  PollLoopsFollow' /\ LockFollows'
<1> USE PollingAssumption DEF PollingInv, PollingTypeOK
<1>1. PollLoopsFollow'
  <2>1. CASE ConnectStart(t)
    BY <2>1 DEF ConnectStart, PollLoopsFollow, Pollers
  <2>2. CASE DisconnectDown(t)
    <3>1. /\ connects \in 1..connects /\ closeChan = connects
          /\ closed' = closed \cup {connects} /\ ~connected'
          /\ UNCHANGED <<connects, closeChan, ppc, pchan>>
      BY <2>2 DEF DisconnectDown, PollLoopsFollow, loops, Pollers
    <3> QED  BY <3>1 DEF PollLoopsFollow
  <2>3. CASE UNCHANGED <<link, loops>>
    BY <2>3 DEF PollLoopsFollow, link, loops
  <2> QED
    BY <2>1, <2>2, <2>3 DEF ConnectAnnounce, DisconnectReport, SendCheck, SendPost
<1>2. LockFollows'
  <2>1. CASE ConnectStart(t) \/ DisconnectDown(t)
    BY <2>1 DEF ConnectStart, DisconnectDown, Step, LockFollows
  <2>2. CASE ConnectAnnounce(t) \/ DisconnectReport(t)
    BY <2>2 DEF ConnectAnnounce, DisconnectReport, Step, LockFollows, link
  <2>3. CASE SendCheck(t) \/ SendPost(t)
    BY <2>3 DEF SendCheck, SendPost, Step, LockFollows, link
  <2> QED  BY <2>1, <2>2, <2>3
<1> QED  BY <1>1, <1>2

(* The channel, when an event is posted to it or taken from it.            *)
LEMMA PostEvents ==
    ASSUME eventChan \in Seq(Events), NEW kind, Post(kind)
    PROVE  /\ Len(eventChan) \in Nat
           /\ DOMAIN eventChan = 1..Len(eventChan)
           /\ DOMAIN eventChan' = 1..(Len(eventChan) + 1)
           /\ \A i \in DOMAIN eventChan : eventChan'[i] = eventChan[i]
           /\ eventChan'[Len(eventChan) + 1] = kind
BY DEF Post

(* Nothing but a message follows the last event of the link.               *)
LEMMA LastAfterPost ==
    ASSUME eventChan \in Seq(Events), NEW kind \in {"connected", "disconnected"}, Post(kind)
    PROVE  \A other \in {"connected", "disconnected"} : LastIs(other)' => other = kind
<1> DEFINE n == Len(eventChan) + 1
<1>1. /\ n \in DOMAIN eventChan' /\ eventChan'[n] = kind
      /\ \A i \in DOMAIN eventChan' : i = n \/ n > i
  BY PostEvents
<1> QED  BY <1>1 DEF LastIs

LEMMA LastAfterMessage ==
    ASSUME eventChan \in Seq(Events), Post("message_sent"),
           NEW kind \in {"connected", "disconnected"}, LastIs(kind)'
    PROVE  LastIs(kind)
<1>1. PICK i \in DOMAIN eventChan' :
          /\ eventChan'[i] = kind
          /\ \A j \in DOMAIN eventChan' : j > i => eventChan'[j] = "message_sent"
  BY DEF LastIs
<1>2. i \in DOMAIN eventChan
  BY <1>1, PostEvents
<1> QED  BY <1>1, <1>2, PostEvents DEF LastIs

(* An event that is not the last one again keeps the events alternating.   *)
LEMMA AlternatePost ==
    ASSUME eventChan \in Seq(Events), EventsAlternate, NEW kind \in Events, Post(kind),
           kind # "message_sent" => ~LastIs(kind)
    PROVE  EventsAlternate'
<1> DEFINE n == Len(eventChan) + 1
<1>1. /\ n \in Nat
      /\ DOMAIN eventChan = 1..(n - 1) /\ DOMAIN eventChan' = 1..n
      /\ \A i \in DOMAIN eventChan : eventChan'[i] = eventChan[i]
      /\ eventChan'[n] = kind
  BY PostEvents
<1> HIDE DEF n
<1>2. SUFFICES ASSUME NEW i \in DOMAIN eventChan', NEW j \in DOMAIN eventChan', i < j,
                      eventChan'[i] = eventChan'[j], eventChan'[i] # "message_sent"
               PROVE  \E k \in i + 1 .. j - 1 : eventChan'[k] \notin {eventChan'[i], "message_sent"}
  BY DEF EventsAlternate
<1>3. i \in DOMAIN eventChan /\ (j \in DOMAIN eventChan \/ j = n)
  BY <1>1, <1>2
<1>4. CASE j \in DOMAIN eventChan
  <2>1. PICK k \in i + 1 .. j - 1 : eventChan[k] \notin {eventChan[i], "message_sent"}
    BY <1>1, <1>2, <1>3, <1>4 DEF EventsAlternate
  <2>2. k \in DOMAIN eventChan
    BY <1>1, <1>3, <1>4
  <2> QED  BY <1>1, <1>3, <2>1, <2>2
<1>5. CASE j = n
  <2>1. eventChan[i] = kind /\ kind # "message_sent"
    BY <1>1, <1>2, <1>3, <1>5
  <2>2. PICK k \in DOMAIN eventChan : k > i /\ eventChan[k] # "message_sent"
    BY <1>3, <2>1 DEF LastIs
  <2>3. k \in i + 1 .. j - 1
    BY <1>1, <1>3, <1>5, <2>2
  <2>4. CASE eventChan[k] # kind
    BY <1>1, <1>3, <2>1, <2>2, <2>3, <2>4
  <2>5. CASE eventChan[k] = kind
    <3>1. PICK m \in i + 1 .. k - 1 : eventChan[m] \notin {eventChan[i], "message_sent"}
      BY <1>1, <1>3, <2>1, <2>2, <2>5 DEF EventsAlternate
    <3>2. m \in DOMAIN eventChan /\ m \in i + 1 .. j - 1
      BY <1>1, <1>3, <2>3
    <3> QED  BY <1>1, <1>3, <3>1, <3>2
  <2> QED  BY <2>4, <2>5
<1> QED  BY <1>3, <1>4, <1>5

LEMMA PollingCallEvents ==
    ASSUME PollingInv, NEW t \in Threads,
           \/ ConnectStart(t) \/ ConnectAnnounce(t) \/ DisconnectDown(t)
           \/ DisconnectReport(t) \/ SendCheck(t) \/ SendPost(t)
    PROVE  EventsFollow'
<1> USE PollingAssumption DEF PollingInv, PollingTypeOK
<1>0. "message_sent" \in Events /\ "connected" \in Events /\ "disconnected" \in Events
  BY DEF Events
<1>1. ASSUME UNCHANGED eventChan, Announced' <=> Announced
      PROVE  EventsFollow'
  BY <1>1 DEF EventsFollow, EventsAlternate, LastIs
<1>2. CASE ConnectStart(t)
  <2>1. ~Announced /\ UNCHANGED eventChan
    BY <1>2 DEF ConnectStart, Announced, LockFollows
  <2>2. ~Announced'
    BY <1>2 DEF ConnectStart, Step, Announced
  <2> QED  BY <1>1, <2>1, <2>2
<1>3. CASE DisconnectDown(t)
  <2>1. Announced /\ UNCHANGED eventChan
    BY <1>3 DEF DisconnectDown, Announced, LockFollows
  <2>2. Announced'
    BY <1>3 DEF DisconnectDown, Step, Announced
  <2> QED  BY <1>1, <2>1, <2>2
<1>4. CASE ConnectAnnounce(t)
  <2>1. ~Announced /\ Post("connected")
    BY <1>4 DEF ConnectAnnounce, Step, Announced, LockFollows
  <2>2. Announced'
    BY <1>4 DEF ConnectAnnounce, Step, Announced, LockFollows, link
  <2>3. EventsAlternate'
    BY <1>0, <2>1, AlternatePost DEF EventsFollow
  <2>4. ~LastIs("disconnected")'
    BY <2>1, LastAfterPost
  <2> QED  BY <2>2, <2>3, <2>4 DEF EventsFollow
<1>5. CASE DisconnectReport(t)
  <2>1. Announced /\ Post("disconnected")
    BY <1>5 DEF DisconnectReport, Step, Announced, LockFollows
  <2>2. ~Announced'
    BY <1>5 DEF DisconnectReport, Step, Announced, LockFollows, link
  <2>3. EventsAlternate'
    BY <1>0, <2>1, AlternatePost DEF EventsFollow
  <2>4. ~LastIs("connected")'
    BY <2>1, LastAfterPost
  <2> QED  BY <2>2, <2>3, <2>4 DEF EventsFollow
<1>6. CASE SendCheck(t)
  <2>1. UNCHANGED eventChan /\ (Announced' <=> Announced)
    BY <1>6 DEF SendCheck, Step, Announced, link
  <2> QED  BY <1>1, <2>1
<1>7. CASE SendPost(t)
  <2>1. Post("message_sent") /\ (Announced' <=> Announced)
    BY <1>7 DEF SendPost, Step, Announced, link
  <2>2. EventsAlternate'
    BY <1>0, <2>1, AlternatePost DEF EventsFollow
  <2>3. /\ LastIs("connected")' => LastIs("connected")
        /\ LastIs("disconnected")' => LastIs("disconnected")
    BY <2>1, LastAfterMessage
  <2> QED  BY <2>1, <2>2, <2>3 DEF EventsFollow
<1> QED  BY <1>2, <1>3, <1>4, <1>5, <1>6, <1>7

LEMMA AlternateTake ==
    ASSUME eventChan \in Seq(Events), EventsAlternate, TakeEvent
    PROVE  EventsAlternate' /\ \A kind \in Events : LastIs(kind)' => LastIs(kind)
<1>1. /\ eventChan # <<>> /\ eventChan' = Tail(eventChan)
  BY DEF TakeEvent
<1>2. /\ Len(eventChan) \in Nat \ {0}
      /\ DOMAIN eventChan = 1..Len(eventChan)
      /\ DOMAIN eventChan' = 1..(Len(eventChan) - 1)
      /\ \A i \in 1..(Len(eventChan) - 1) : eventChan'[i] = eventChan[i + 1]
  BY <1>1
<1>3. \A i \in DOMAIN eventChan' : i \in Nat /\ i + 1 \in DOMAIN eventChan
                                  /\ eventChan'[i] = eventChan[i + 1]
  BY <1>2
<1>4. EventsAlternate'
  <2>1. SUFFICES ASSUME NEW i \in DOMAIN eventChan', NEW j \in DOMAIN eventChan', i < j,
                        eventChan'[i] = eventChan'[j], eventChan'[i] # "message_sent"
                 PROVE  \E k \in i + 1 .. j - 1 :
                            eventChan'[k] \notin {eventChan'[i], "message_sent"}
    BY DEF EventsAlternate
  <2>2. i + 1 < j + 1
    BY <1>3, <2>1
  <2>3. PICK k \in (i + 1) + 1 .. (j + 1) - 1 :
            eventChan[k] \notin {eventChan[i + 1], "message_sent"}
    BY <1>3, <2>1, <2>2 DEF EventsAlternate
  <2>4. k - 1 \in i + 1 .. j - 1 /\ k - 1 \in 1..(Len(eventChan) - 1) /\ (k - 1) + 1 = k
    BY <1>2, <1>3, <2>3
  <2>5. eventChan'[k - 1] = eventChan[k]
    BY <1>2, <2>4
  <2> QED  BY <1>3, <2>3, <2>4, <2>5
<1>5. ASSUME NEW kind \in Events, LastIs(kind)'
      PROVE  LastIs(kind)
  <2>1. PICK i \in DOMAIN eventChan' :
            /\ eventChan'[i] = kind
            /\ \A j \in DOMAIN eventChan' : j > i => eventChan'[j] = "message_sent"
    BY <1>5 DEF LastIs
  <2>2. i \in Nat /\ i + 1 \in DOMAIN eventChan /\ eventChan[i + 1] = kind
    BY <1>3, <2>1
  <2>3. ASSUME NEW j \in DOMAIN eventChan, j > i + 1
        PROVE  eventChan[j] = "message_sent"
    <3>1. j - 1 \in DOMAIN eventChan' /\ j - 1 > i /\ (j - 1) + 1 = j
      BY <1>2, <2>2, <2>3
    <3>2. eventChan'[j - 1] = eventChan[j]
      BY <1>2, <3>1
    <3> QED  BY <2>1, <3>1, <3>2
  <2> QED  BY <2>2, <2>3 DEF LastIs
<1> QED  BY <1>4, <1>5

LEMMA PollingNextInv == PollingInv /\ [PollingNext]_pollingVars => PollingInv'
<1> SUFFICES ASSUME PollingInv, [PollingNext]_pollingVars PROVE PollingInv'
  OBVIOUS
<1>1. ASSUME NEW t \in Threads,
             \/ ConnectStart(t) \/ ConnectAnnounce(t) \/ DisconnectDown(t)
             \/ DisconnectReport(t) \/ SendCheck(t) \/ SendPost(t)
      PROVE  PollingInv'
  BY <1>1, PollingCallType, PollingCallFollows, PollingCallEvents DEF PollingInv
<1>2. ASSUME NEW p \in Pollers, PollTop(p) \/ PollTick(p) \/ PollStop(p)
      PROVE  PollingInv'
  <2>1. PollingTypeOK'
    BY <1>2 DEF PollingInv, PollingTypeOK, PollTop, PollTick, PollStop, link
  <2>2. PollLoopsFollow'
    <3>1. p \in Nat /\ connects \in Nat
      BY PollingAssumption DEF PollingInv, PollingTypeOK, Pollers
    <3>2. CASE PollTop(p)
      BY <3>1, <3>2 DEF PollTop, PollingInv, PollingTypeOK, PollLoopsFollow, link
    <3>3. CASE PollTick(p) \/ PollStop(p)
      <4>1. \E q \in {"top", "done"} :
                /\ ppc[p] = "select" /\ ppc' = [ppc EXCEPT ![p] = q]
                /\ q = "done" => pchan[p] \in closed
        BY <3>3 DEF PollTick, PollStop
      <4>2. UNCHANGED <<connected, closeChan, closed, connects, pchan>>
        BY <3>3 DEF PollTick, PollStop, link
      <4> QED  BY <4>1, <4>2 DEF PollingInv, PollingTypeOK, PollLoopsFollow
    <3> QED  BY <1>2, <3>2, <3>3
  <2>3. LockFollows' /\ EventsFollow'
    BY <1>2
    DEF PollTop, PollTick, PollStop, link, PollingInv, LockFollows, EventsFollow,
        EventsAlternate, LastIs, Announced
  <2> QED  BY <2>1, <2>2, <2>3 DEF PollingInv
<1>3. CASE TakeEvent
  <2>1. PollingTypeOK'
    BY <1>3, PollingAssumption DEF PollingInv, PollingTypeOK, TakeEvent, link, loops
  <2>2. PollLoopsFollow' /\ LockFollows' /\ (Announced' <=> Announced)
    BY <1>3 DEF PollingInv, TakeEvent, PollLoopsFollow, LockFollows, Announced, link, loops
  <2>3. EventsFollow'
    <3>1. EventsAlternate' /\ \A kind \in Events : LastIs(kind)' => LastIs(kind)
      BY <1>3, AlternateTake DEF PollingInv, PollingTypeOK, EventsFollow
    <3>2. "connected" \in Events /\ "disconnected" \in Events
      BY DEF Events
    <3> QED  BY <2>2, <3>1, <3>2 DEF PollingInv, EventsFollow
  <2> QED  BY <2>1, <2>2, <2>3 DEF PollingInv
<1>4. CASE UNCHANGED pollingVars
  BY <1>4
  DEF pollingVars, link, loops, PollingInv, PollingTypeOK, PollLoopsFollow, LockFollows,
      EventsFollow, EventsAlternate, LastIs, Announced
<1> QED  BY <1>1, <1>2, <1>3, <1>4 DEF PollingNext

LEMMA PollingInvariance == PollingSpec => []PollingInv
BY PollingInitInv, PollingNextInv, PTL DEF PollingSpec

(* Whichever goroutines connect, disconnect and send: connected and        *)
(* disconnected alternate on Events(), and a strategy that is up has the   *)
(* poll loop of its last Connect running.                                  *)
THEOREM PollingSaysTruly == PollingSpec => []PollsAsItSays
<1>1. PollingInv => PollsAsItSays
  BY DEF PollingInv, EventsFollow, PollLoopsFollow, PollsAsItSays, PollingTypeOK, LinkIsPolled,
         Pollers
<1> QED  BY <1>1, PollingInvariance, PTL

(* The polling strategy implements the contract of the connection manager: *)
(* a Connect raises the link, a Disconnect drops it and owes the report    *)
(* that it posts with the lock still held.                                 *)
THEOREM PollingKeepsContract == PollingSpec => ImplementsContract
<1> USE DEF Contract!Init, Contract!Next, Contract!vars
<1>1. PollingInit => Contract!Init
  BY DEF PollingInit
<1>2. PollingInv /\ [PollingNext]_pollingVars => [Contract!Next]_Contract!vars
  <2> SUFFICES ASSUME PollingInv, [PollingNext]_pollingVars
               PROVE  [Contract!Next]_Contract!vars
    OBVIOUS
  <2> USE DEF PollingInv, PollingTypeOK, LockFollows
  <2>1. ASSUME NEW t \in Threads, ConnectStart(t)
        PROVE  Contract!Raise
    <3>1. ~(\E u \in Threads : tpc[u] = "report") /\ ~(\E u \in Threads : tpc'[u] = "report")
      BY <2>1, PollingAssumption DEF ConnectStart, Step
    <3> QED  BY <2>1, <3>1 DEF ConnectStart, Contract!Raise
  <2>2. ASSUME NEW t \in Threads, DisconnectDown(t)
        PROVE  Contract!Drop
    <3>1. \E u \in Threads : tpc'[u] = "report"
      BY <2>2 DEF DisconnectDown, Step
    <3> QED  BY <2>2, <3>1 DEF DisconnectDown, Contract!Drop
  <2>3. ASSUME NEW t \in Threads, DisconnectReport(t)
        PROVE  Contract!Report
    <3>1. (\E u \in Threads : tpc[u] = "report") /\ ~(\E u \in Threads : tpc'[u] = "report")
      BY <2>3, PollingAssumption DEF DisconnectReport, Step
    <3> QED  BY <2>3, <3>1 DEF DisconnectReport, Contract!Report, link
  <2>4. ASSUME NEW t \in Threads, ConnectAnnounce(t) \/ SendCheck(t) \/ SendPost(t)
        PROVE  UNCHANGED Contract!vars
    <3>1. (\E u \in Threads : tpc'[u] = "report") <=> (\E u \in Threads : tpc[u] = "report")
      BY <2>4 DEF ConnectAnnounce, SendCheck, SendPost, Step
    <3> QED  BY <2>4, <3>1 DEF ConnectAnnounce, SendCheck, SendPost, link
  <2>5. CASE TakeEvent \/ UNCHANGED pollingVars
             \/ \E p \in Pollers : PollTop(p) \/ PollTick(p) \/ PollStop(p)
    BY <2>5 DEF TakeEvent, PollTop, PollTick, PollStop, pollingVars, link
  <2> QED  BY <2>1, <2>2, <2>3, <2>4, <2>5 DEF PollingNext
<1> QED  BY <1>1, <1>2, PollingInvariance, PTL DEF PollingSpec, ImplementsContract, Contract!Spec

(* So the end of every polling link is reported once.                      *)
THEOREM PollingEndsReported == PollingSpec => []Contract!EveryEndReportedOnce
<1>1. Contract!Spec => []Contract!EveryEndReportedOnce
  BY Contract!EndsAreReported
<1> QED  BY <1>1, PollingKeepsContract, PTL DEF ImplementsContract
=============================================================================
