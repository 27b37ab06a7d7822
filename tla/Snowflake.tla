------------------------------ MODULE Snowflake ------------------------------
(***************************************************************************)
(* utils.Snowflake: generators of message ids, one per node, each used by  *)
(* any number of goroutines.  Generate holds the generator's mutex from    *)
(* beginning to end; it takes one step, unless the sequence of the current *)
(* millisecond is used up and it spins, with the mutex, until the next.    *)
(*                                                                         *)
(* time.Now().UnixMilli() is the wall clock of the node: it may stand      *)
(* still between two calls, jump ahead, or be set back.                    *)
(***************************************************************************)
EXTENDS Integers

CONSTANTS
    Generators,   \* the generators in use
    NodeID,       \* the nodeID each was constructed with
    NodeSize,     \* maxNodeID + 1 (2^10 in the code)
    SequenceSize, \* maxSequence + 1 (2^12 in the code)
    MaxTime,      \* bound: the last millisecond of the clocks
    SetBack       \* whether the clocks may be set back

ASSUME SnowflakeAssumption ==
    /\ NodeID \in [Generators -> Int]
    /\ NodeSize \in Nat \ {0}
    /\ SequenceSize \in Nat \ {0}
    /\ MaxTime \in Nat
    /\ SetBack \in BOOLEAN

VARIABLES
    clock,      \* per generator, what UnixMilli returns, less the epoch
    lastTime,   \* s.lastTime, less the epoch: -1 before the first call
    sequence,   \* s.sequence
    spinning,   \* whether a call is waiting for the next millisecond
    issued,     \* history: per generator, the ids it has returned
    duplicate,  \* history: whether some id was returned twice
    steady      \* history: per generator, its clock was never set back

snowflakeVars == <<clock, lastTime, sequence, spinning, issued, duplicate, steady>>

(* nodeID & maxNodeID, for a nodeID out of range and one in it alike.      *)
Node(g) == NodeID[g] % NodeSize

(* Mistake: the shifts put the time below the sequence number.             *)
Bug_PackTimeLow(t, n, s) == (s * NodeSize + n) * (MaxTime + 1) + t

(* The three bit fields side by side.                                      *)
Pack(t, n, s) == (t * NodeSize + n) * SequenceSize + s

SnowflakeInit ==
    /\ clock \in [Generators -> 0..MaxTime]
    /\ lastTime = [g \in Generators |-> -1]
    /\ sequence = [g \in Generators |-> 0]
    /\ spinning = [g \in Generators |-> FALSE]
    /\ issued = [g \in Generators |-> {}]
    /\ duplicate = FALSE
    /\ steady = [g \in Generators |-> TRUE]

(* Generate returns: at time clock[g], with sequence number s.             *)
Return(g, s) ==
    LET id == Pack(clock[g], Node(g), s) IN
    /\ lastTime' = [lastTime EXCEPT ![g] = clock[g]]
    /\ sequence' = [sequence EXCEPT ![g] = s]
    /\ issued' = [issued EXCEPT ![g] = @ \cup {id}]
    /\ duplicate' = (duplicate \/ \E h \in Generators : id \in issued[h])

(* A millisecond that differs from the last one starts a new sequence.     *)
GenerateFirst(g) ==
    /\ ~spinning[g]
    /\ clock[g] # lastTime[g]
    /\ Return(g, 0)
    /\ UNCHANGED <<clock, spinning, steady>>

(* Mistake: the sequence wraps around without a wait.                      *)
Bug_GenerateNoWait(g) ==
    /\ ~spinning[g]
    /\ clock[g] = lastTime[g]
    /\ Return(g, (sequence[g] + 1) % SequenceSize)
    /\ UNCHANGED <<clock, spinning, steady>>

GenerateNext(g) ==
    /\ ~spinning[g]
    /\ clock[g] = lastTime[g]
    /\ sequence[g] + 1 < SequenceSize
    /\ Return(g, sequence[g] + 1)
    /\ UNCHANGED <<clock, spinning, steady>>

(* The sequence number has wrapped to 0: wait for the next millisecond.    *)
GenerateSpin(g) ==
    /\ ~spinning[g]
    /\ clock[g] = lastTime[g]
    /\ sequence[g] + 1 = SequenceSize
    /\ spinning' = [spinning EXCEPT ![g] = TRUE]
    /\ sequence' = [sequence EXCEPT ![g] = 0]
    /\ UNCHANGED <<clock, lastTime, issued, duplicate, steady>>

SpinEnd(g) ==
    /\ spinning[g]
    /\ clock[g] > lastTime[g]
    /\ Return(g, 0)
    /\ spinning' = [spinning EXCEPT ![g] = FALSE]
    /\ UNCHANGED <<clock, steady>>

Tick(g) ==
    /\ clock[g] < MaxTime
    /\ clock' = [clock EXCEPT ![g] = @ + 1]
    /\ UNCHANGED <<lastTime, sequence, spinning, issued, duplicate, steady>>

ClockSetBack(g) ==
    /\ SetBack
    /\ clock[g] > 0
    /\ clock' = [clock EXCEPT ![g] = @ - 1]
    /\ steady' = [steady EXCEPT ![g] = FALSE]
    /\ UNCHANGED <<lastTime, sequence, spinning, issued, duplicate>>

SnowflakeNext ==
    \E g \in Generators :
        \/ GenerateFirst(g) \/ GenerateNext(g) \/ GenerateSpin(g) \/ SpinEnd(g)
        \/ Tick(g) \/ ClockSetBack(g)

SnowflakeSpec == SnowflakeInit /\ [][SnowflakeNext]_snowflakeVars

-----------------------------------------------------------------------------
(* Properties                                                              *)

(* Every variable holds a value the code can give it; the sequence number  *)
(* fits its bit field.                                                     *)
SnowflakeTypeOK ==
    /\ clock \in [Generators -> 0..MaxTime]
    /\ lastTime \in [Generators -> -1..MaxTime]
    /\ sequence \in [Generators -> 0..SequenceSize - 1]
    /\ spinning \in [Generators -> BOOLEAN]
    /\ issued \in [Generators -> SUBSET Nat]
    /\ duplicate \in BOOLEAN
    /\ steady \in [Generators -> BOOLEAN]

DistinctNodes == \A g, h \in Generators : Node(g) = Node(h) => g = h

(* Generators whose node ids differ in the bits that are kept never issue  *)
(* the same id twice, neither one of them nor two, as long as no clock is  *)
(* set back.  Generate looks at the last millisecond only: after the clock *)
(* has been set back it would issue the same ids again.                    *)
IdsAreUnique == DistinctNodes /\ (\A g \in Generators : steady[g]) => ~duplicate

(* The ids of a generator whose clock was never set back increase, also    *)
(* across the end of a sequence.                                           *)
IdsIncrease ==
    \A g \in Generators : steady[g] =>
        \A new \in issued'[g] \ issued[g], old \in issued[g] : old < new
IdsAreOrdered == [][IdsIncrease]_snowflakeVars
=============================================================================
