---------------------------- MODULE SendPathProofs ----------------------------
(***************************************************************************)
(* Proofs about SendPath, for every number of dials, senders, joiners,     *)
(* messages and every capacity of the queue:                               *)
(*                                                                         *)
(*   SendKeepsStrategy   what the strategy's invariant says holds while    *)
(*                       write loops and joiners share its fields          *)
(*   SendTypeCorrect     SendPathSpec => []SendTypeOK                      *)
(*   AcceptedKept        SendPathSpec => []AcceptedAreKept                 *)
(*   HealthyLinkServed   SendPathSpec => []HealthyLinkHasWriter            *)
(*   SentInOrder         SendPathSpec => []OvertakenInHandOnly             *)
(***************************************************************************)
EXTENDS SendPath, WebSocketStrategyProofs

-----------------------------------------------------------------------------
(* SendPath is not the strategy of WebSocketStrategy with other goroutines *)
(* beside it: a write loop that fails posts on eventChan.  That step, too, *)
(* keeps the strategy's invariant.                                         *)

PostsError ==
    /\ Post("connection_error")
    /\ UNCHANGED <<link, mu, net, reports, messages, rpc, rconn>>

LEMMA StepOfSend == [SendPathNext]_sendPathVars => PostsError \/ [StrategyNext]_strategyVars
<1> SUFFICES ASSUME [SendPathNext]_sendPathVars
             PROVE  PostsError \/ [StrategyNext]_strategyVars
  OBVIOUS
<1>1. CASE Connect
  BY <1>1 DEF Connect, StrategyNext
<1>2. ASSUME NEW w \in Writers, WriteStep(w)
      PROVE  PostsError \/ UNCHANGED strategyVars
  BY <1>2 DEF WriteStep, WriteTop, WriteStop, WriteTake, WriteLoad, WriteMarshalError, WriteEnd,
              WriteError, PostsError
<1>3. CASE \/ \E s \in Senders : SendCheck(s) \/ SendEnqueue(s)
           \/ \E j \in Joiners : JoinBegin(j) \/ JoinEnd(j)
  BY <1>3 DEF SendCheck, SendEnqueue, JoinBegin, JoinEnd
<1>4. CASE UNCHANGED sendPathVars
  BY <1>4 DEF sendPathVars
<1> QED  BY <1>1, <1>2, <1>3, <1>4 DEF SendPathNext, StrategyNext

LEMMA PostsErrorInv == StrategyInv /\ PostsError => StrategyInv'
<1> SUFFICES ASSUME StrategyInv, PostsError PROVE StrategyInv'
  OBVIOUS
<1> USE DEF StrategyInv, StrategyTypeOK, PostsError, link, messages
<1>1. eventChan' \in Seq(EventKinds) /\ Len(eventChan') <= EventCap
  BY PostType DEF EventKinds
<1>2. LinkTypeOK' /\ ChannelTypeOK' /\ LoopTypeOK'
  BY <1>1 DEF LinkTypeOK, ChannelTypeOK, LoopTypeOK
<1>3. FieldsInv' /\ LoopsInv' /\ LocalsInv'
  BY DEF FieldsInv, LoopsInv, LocalsInv
<1> QED  BY <1>2, <1>3

(* Write loops and joiners never break what the strategy relies on.        *)
THEOREM SendKeepsStrategy == SendPathSpec => []StrategyInv
<1>1. SendPathInit => StrategyInv
  BY InitInv DEF SendPathInit
<1>2. StrategyInv /\ [SendPathNext]_sendPathVars => StrategyInv'
  BY StepOfSend, PostsErrorInv, NextInv
<1> QED  BY <1>1, <1>2, PTL DEF SendPathSpec

-----------------------------------------------------------------------------
(* Types, by the goroutines that write the variables.                      *)

QueueTypeOK ==
    /\ sendQueue \in Seq(1..MaxAccepted)
    /\ Len(sendQueue) <= QueueCap
    /\ accepted \in 0..MaxAccepted
    /\ spc \in [Senders -> {"idle", "enqueue"}]

WriterTypeOK ==
    /\ wpc \in [Writers -> WritePoints]
    /\ wchan \in [Writers -> 0..MaxDials]
    /\ wconn \in [Writers -> 0..MaxDials]
    /\ wmsg \in [Writers -> 0..MaxAccepted]

JoinerTypeOK ==
    /\ jpc \in [Joiners -> {"idle", "writing"}]
    /\ jconn \in [Joiners -> 0..MaxDials]

OutcomeTypeOK ==
    /\ wire \in [Readers -> Seq(1..MaxAccepted)]
    /\ dropped \subseteq 1..MaxAccepted

(* The write loops that have begun are those of the dials made; a loop has *)
(* in hand what its point needs, and what it took from the fields is not   *)
(* older than the dial that started it.                                    *)
WritersInv ==
    \A w \in Writers :
        /\ wpc[w] = "idle" <=> w > dials
        /\ wpc[w] = "select" => wchan[w] \in w..dials
        /\ wpc[w] \in {"writing", "marshalError"} => wconn[w] \in w..dials
        /\ wmsg[w] # 0 <=> wpc[w] \in {"taken", "marshalError", "writing"}

SendInv == QueueTypeOK /\ WriterTypeOK /\ JoinerTypeOK /\ OutcomeTypeOK /\ WritersInv

LEMMA SendInvTypes == SendInv => SendTypeOK
BY DEF SendInv, SendTypeOK, QueueTypeOK, WriterTypeOK, JoinerTypeOK, OutcomeTypeOK

LEMMA SendInvInit == SendPathInit => SendInv
<1> SUFFICES ASSUME SendPathInit PROVE SendInv
  OBVIOUS
<1> USE SendAssumption, StrategyAssumption DEF SendPathInit, Writers, Readers
<1>1. QueueTypeOK /\ OutcomeTypeOK
  BY DEF QueueTypeOK, OutcomeTypeOK
<1>2. WriterTypeOK /\ JoinerTypeOK
  BY DEF WriterTypeOK, JoinerTypeOK, WritePoints
<1>3. WritersInv
  BY DEF WritersInv, StrategyInit
<1> QED  BY <1>1, <1>2, <1>3 DEF SendInv

LEMMA SendInvConnect ==
    ASSUME StrategyInv, SendInv, Connect
    PROVE  SendInv'
<1> USE DEF SendInv, Connect, DialOK, senderVars, joinerVars, outcome
<1>1. dials \in Nat /\ dials' = dials + 1 /\ dials' \in Writers
  BY StrategyAssumption DEF StrategyInv, StrategyTypeOK, LinkTypeOK, Readers, Writers
<1>2. QueueTypeOK' /\ JoinerTypeOK' /\ OutcomeTypeOK'
  BY DEF QueueTypeOK, JoinerTypeOK, OutcomeTypeOK
<1>3. WriterTypeOK'
  BY <1>1 DEF WriterTypeOK, WritePoints
<1>4. WritersInv'
  <2> SUFFICES ASSUME NEW w \in Writers
               PROVE  /\ wpc'[w] = "idle" <=> w > dials + 1
                      /\ wpc'[w] = "select" => wchan[w] \in w..(dials + 1)
                      /\ wpc'[w] \in {"writing", "marshalError"} => wconn[w] \in w..(dials + 1)
                      /\ wmsg[w] # 0 <=> wpc'[w] \in {"taken", "marshalError", "writing"}
    BY <1>1 DEF WritersInv
  <2>1. CASE w = dials + 1
    BY <1>1, <2>1 DEF WritersInv, WriterTypeOK
  <2>2. CASE w # dials + 1
    BY <1>1, <2>2 DEF WritersInv, WriterTypeOK, Writers, Readers
  <2> QED  BY <2>1, <2>2
<1> QED  BY <1>2, <1>3, <1>4

LEMMA SendInvSender ==
    ASSUME SendInv, NEW s \in Senders, SendCheck(s) \/ SendEnqueue(s)
    PROVE  SendInv'
<1> USE DEF SendInv, SendCheck, SendEnqueue, strategyVars, link, writerVars, joinerVars, outcome
<1>1. WriterTypeOK' /\ JoinerTypeOK' /\ OutcomeTypeOK' /\ WritersInv'
  BY DEF WriterTypeOK, JoinerTypeOK, OutcomeTypeOK, WritersInv
<1>2. QueueTypeOK'
  <2>1. spc' \in [Senders -> {"idle", "enqueue"}]
    BY DEF QueueTypeOK
  <2>2. CASE UNCHANGED <<sendQueue, accepted>>
    BY <2>1, <2>2 DEF QueueTypeOK
  <2>3. CASE /\ Len(sendQueue) < QueueCap /\ accepted < MaxAccepted
             /\ accepted' = accepted + 1 /\ sendQueue' = Append(sendQueue, accepted + 1)
    <3>1. accepted + 1 \in 1..MaxAccepted
      BY <2>3, SendAssumption DEF QueueTypeOK
    <3>2. sendQueue' \in Seq(1..MaxAccepted) /\ Len(sendQueue') = Len(sendQueue) + 1
      BY <2>3, <3>1 DEF QueueTypeOK
    <3> QED  BY <2>1, <2>3, <3>1, <3>2, SendAssumption DEF QueueTypeOK
  <2> QED  BY <2>2, <2>3
<1> QED  BY <1>1, <1>2

LEMMA SendInvJoiner ==
    ASSUME StrategyInv, SendInv, NEW j \in Joiners, JoinBegin(j) \/ JoinEnd(j)
    PROVE  SendInv'
<1> USE DEF SendInv, JoinBegin, JoinEnd, strategyVars, link, senderVars, writerVars, outcome
<1>1. QueueTypeOK' /\ WriterTypeOK' /\ OutcomeTypeOK' /\ WritersInv'
  BY DEF QueueTypeOK, WriterTypeOK, OutcomeTypeOK, WritersInv
<1>2. JoinerTypeOK'
  BY StrategyAssumption DEF JoinerTypeOK, StrategyInv, StrategyTypeOK, LinkTypeOK
<1> QED  BY <1>1, <1>2

(* A write loop that is not idle belongs to a dial that was made.          *)
LEMMA LoopWasStarted ==
    ASSUME StrategyInv, WritersInv, NEW w \in Writers, wpc[w] # "idle"
    PROVE  w \in 1..dials /\ dials \in Readers /\ conn \in {0, dials} /\ closeChan = dials
BY DEF WritersInv, StrategyInv, StrategyTypeOK, LinkTypeOK, FieldsInv, Writers, Readers

LEMMA SendInvWriter ==
    ASSUME StrategyInv, SendInv, NEW w \in Writers, WriteStep(w)
    PROVE  SendInv'
<1> USE DEF SendInv
<1>0. w \in 1..dials /\ dials \in Readers /\ conn \in {0, dials} /\ closeChan = dials
  BY LoopWasStarted DEF WriteStep, WriteTop, WriteStop, WriteTake, WriteLoad, WriteMarshalError,
                        WriteEnd, WriteError, Go
<1>1. JoinerTypeOK' /\ UNCHANGED dials
  BY DEF WriteStep, WriteTop, WriteStop, WriteTake, WriteLoad, WriteMarshalError, WriteEnd,
         WriteError, JoinerTypeOK, joinerVars, strategyVars, link
<1>2. CASE WriteTop(w) \/ WriteStop(w) \/ WriteError(w)
  <2> USE <1>2 DEF WriteTop, WriteStop, WriteError, Go, senderVars, outcome
  <2>1. QueueTypeOK' /\ OutcomeTypeOK'
    BY DEF QueueTypeOK, OutcomeTypeOK
  <2>2. WriterTypeOK'
    BY <1>0, StrategyAssumption DEF WriterTypeOK, WritePoints, Readers
  <2>3. WritersInv'
    <3>1. CASE WriteTop(w)
      BY <1>0, <1>1, <3>1 DEF WriterTypeOK, WritersInv, Writers, Readers
    <3>2. CASE WriteStop(w) \/ WriteError(w)
      BY <1>0, <1>1, <3>2 DEF WriterTypeOK, WritersInv, Writers, Readers
    <3> QED  BY <3>1, <3>2, <1>2
  <2> QED  BY <1>1, <2>1, <2>2, <2>3
<1>3. CASE WriteTake(w)
  <2> USE <1>3 DEF WriteTake, Go, outcome
  <2>1. Head(sendQueue) \in 1..MaxAccepted /\ Head(sendQueue) # 0
    BY SendAssumption DEF QueueTypeOK
  <2>2. sendQueue' \in Seq(1..MaxAccepted) /\ Len(sendQueue') <= QueueCap
    BY SendAssumption DEF QueueTypeOK
  <2>3. QueueTypeOK' /\ OutcomeTypeOK'
    BY <2>2 DEF QueueTypeOK, OutcomeTypeOK
  <2>4. WriterTypeOK'
    BY <2>1, StrategyAssumption, SendAssumption DEF WriterTypeOK, WritePoints
  <2>5. WritersInv'
    BY <1>0, <1>1, <2>1 DEF WriterTypeOK, WritersInv, Writers, Readers
  <2> QED  BY <1>1, <2>3, <2>4, <2>5
<1>4. CASE WriteLoad(w)
  <2> USE <1>4 DEF WriteLoad, GiveUp, Go, senderVars, outcome
  <2>0. wpc[w] = "taken" /\ wmsg[w] # 0 /\ wmsg[w] \in 1..MaxAccepted
    BY SendAssumption DEF WritersInv, WriterTypeOK
  <2>1. QueueTypeOK' /\ OutcomeTypeOK'
    BY <2>0 DEF QueueTypeOK, OutcomeTypeOK
  <2>2. WriterTypeOK'
    BY <1>0, SendAssumption DEF WriterTypeOK, WritePoints, Readers
  <2>3. WritersInv'
    <3>1. CASE conn = 0
      BY <1>0, <1>1, <2>0, <3>1 DEF WriterTypeOK, WritersInv, Writers, Readers
    <3>2. CASE conn # 0
      <4>1. /\ wconn' = [wconn EXCEPT ![w] = dials] /\ UNCHANGED <<wmsg, wchan>>
            /\ \E p \in {"writing", "marshalError"} : wpc' = [wpc EXCEPT ![w] = p]
        BY <1>0, <3>2
      <4> QED
        BY <1>0, <1>1, <2>0, <4>1 DEF WriterTypeOK, WritersInv, Writers, Readers
    <3> QED  BY <3>1, <3>2
  <2> QED  BY <1>1, <2>1, <2>2, <2>3
<1>5. CASE WriteMarshalError(w)
  <2> USE <1>5 DEF WriteMarshalError, GiveUp, Go, senderVars
  <2>0. wmsg[w] \in 1..MaxAccepted
    BY SendAssumption DEF WritersInv, WriterTypeOK
  <2>1. QueueTypeOK' /\ OutcomeTypeOK'
    BY <2>0 DEF QueueTypeOK, OutcomeTypeOK
  <2>2. WriterTypeOK'
    BY StrategyAssumption, SendAssumption DEF WriterTypeOK, WritePoints
  <2>3. WritersInv'
    BY <1>0, <1>1 DEF WriterTypeOK, WritersInv, Writers, Readers
  <2> QED  BY <1>1, <2>1, <2>2, <2>3
<1>6. CASE WriteEnd(w)
  <2> USE <1>6 DEF WriteEnd, GiveUp, Go, senderVars
  <2>0. /\ wpc[w] = "writing" /\ wmsg[w] \in 1..MaxAccepted
        /\ wconn[w] \in Readers
    BY <1>0, SendAssumption DEF WritersInv, WriterTypeOK, Readers
  <2>1. QueueTypeOK'
    BY DEF QueueTypeOK
  <2>2. OutcomeTypeOK'
    <3>1. CASE UNCHANGED wire /\ dropped' = dropped \cup {wmsg[w]}
      BY <2>0, <3>1 DEF OutcomeTypeOK
    <3>2. CASE /\ wire' = [wire EXCEPT ![wconn[w]] = Append(@, wmsg[w])]
               /\ UNCHANGED dropped
      <4>1. Append(wire[wconn[w]], wmsg[w]) \in Seq(1..MaxAccepted)
        BY <2>0 DEF OutcomeTypeOK
      <4> QED  BY <2>0, <3>2, <4>1 DEF OutcomeTypeOK
    <3> QED  BY <3>1, <3>2
  <2>3. /\ wmsg' = [wmsg EXCEPT ![w] = 0] /\ wconn' = [wconn EXCEPT ![w] = 0]
        /\ UNCHANGED wchan
        /\ \E p \in {"top", "writeError"} : wpc' = [wpc EXCEPT ![w] = p]
    OBVIOUS
  <2>4. WriterTypeOK'
    BY <2>3, StrategyAssumption, SendAssumption DEF WriterTypeOK, WritePoints
  <2>5. WritersInv'
    BY <1>0, <1>1, <2>3 DEF WriterTypeOK, WritersInv, Writers, Readers
  <2> QED  BY <1>1, <2>1, <2>2, <2>4, <2>5
<1> QED  BY <1>2, <1>3, <1>4, <1>5, <1>6 DEF WriteStep

(* The other steps of the strategy leave the dials as they are.            *)
LEMMA DialsAlone ==
    ASSUME \/ ConnectError \/ DisconnectNoop \/ TakeEvent \/ TakeMessage
           \/ \E t \in Threads : DisconnectDown(t) \/ DisconnectReport(t)
           \/ \E r \in Readers : ReadStep(r) \/ NetworkLoss(r)
    PROVE  UNCHANGED dials
BY DEF ConnectError, DisconnectNoop, TakeEvent, TakeMessage, DisconnectDown, DisconnectReport,
       ReadStep, ReadTop, ReadEnvelope, ReadMessage, SendEvent, SendMessage, ReadError, SendError,
       ReadExit, ReportLoss, NetworkLoss, strategyVars, link

LEMMA SendInvNext ==
    ASSUME StrategyInv, SendInv, [SendPathNext]_sendPathVars
    PROVE  SendInv'
<1>1. ASSUME UNCHANGED sendVars, UNCHANGED dials PROVE SendInv'
  BY <1>1 DEF SendInv, sendVars, senderVars, writerVars, joinerVars, outcome, QueueTypeOK,
              WriterTypeOK, JoinerTypeOK, OutcomeTypeOK, WritersInv
<1>2. CASE UNCHANGED sendPathVars
  BY <1>1, <1>2 DEF sendPathVars, strategyVars, link
<1>3. CASE Connect
  BY <1>3, SendInvConnect
<1>4. CASE \/ \E s \in Senders : SendCheck(s) \/ SendEnqueue(s)
           \/ \E w \in Writers : WriteStep(w)
           \/ \E j \in Joiners : JoinBegin(j) \/ JoinEnd(j)
  BY <1>4, SendInvSender, SendInvWriter, SendInvJoiner
<1> QED  BY <1>1, <1>2, <1>3, <1>4, DialsAlone DEF SendPathNext

LEMMA SendInvariance == SendPathSpec => [](StrategyInv /\ SendInv)
<1>1. SendPathInit => SendInv
  BY SendInvInit
<1>2. StrategyInv /\ SendInv /\ [SendPathNext]_sendPathVars => SendInv'
  BY SendInvNext
<1> QED  BY <1>1, <1>2, SendKeepsStrategy, PTL DEF SendPathSpec

(* Type correctness; sendQueue never exceeds its capacity.                 *)
THEOREM SendTypeCorrect == SendPathSpec => []SendTypeOK
BY SendInvariance, SendInvTypes, PTL

-----------------------------------------------------------------------------
(* AcceptedOnce: a message goes from the queue into the hands of one write *)
(* loop, and from there to a connection or to those given up.  One lemma   *)
(* for each way to enter or to leave a place.                              *)

QueueOnce == \A i, k \in DOMAIN sendQueue : sendQueue[i] = sendQueue[k] => i = k
HandsOnce == \A v, w \in Writers : wmsg[v] = wmsg[w] => v = w \/ wmsg[v] = 0
WireOnce ==
    \A b, c \in Readers : \A i \in DOMAIN wire[b], k \in DOMAIN wire[c] :
        wire[b][i] = wire[c][k] => b = c /\ i = k

LEMMA HeldOnceParts == HeldOnce <=> QueueOnce /\ HandsOnce /\ WireOnce
BY DEF HeldOnce, QueueOnce, HandsOnce, WireOnce

LEMMA IntoQueue ==
    ASSUME QueueTypeOK, QueueOnce, NEW n, n \notin Queued,
           sendQueue' = Append(sendQueue, n)
    PROVE  Queued' = Queued \cup {n} /\ QueueOnce'
<1>1. /\ Len(sendQueue) \in Nat
      /\ DOMAIN sendQueue = 1..Len(sendQueue)
      /\ DOMAIN sendQueue' = 1..(Len(sendQueue) + 1)
      /\ \A i \in DOMAIN sendQueue : sendQueue'[i] = sendQueue[i]
      /\ sendQueue'[Len(sendQueue) + 1] = n
  BY DEF QueueTypeOK
<1>2. \A i \in DOMAIN sendQueue' : i \in DOMAIN sendQueue \/ i = Len(sendQueue) + 1
  BY <1>1
<1>3. Queued' = Queued \cup {n}
  BY <1>1, <1>2 DEF Queued
<1>4. QueueOnce'
  BY <1>1, <1>2 DEF QueueOnce, Queued
<1> QED  BY <1>3, <1>4

LEMMA OutOfQueue ==
    ASSUME QueueTypeOK, QueueOnce, sendQueue # <<>>, sendQueue' = Tail(sendQueue)
    PROVE  /\ Head(sendQueue) \in Queued
           /\ Queued' = Queued \ {Head(sendQueue)}
           /\ QueueOnce'
<1>1. /\ Len(sendQueue) \in Nat \ {0}
      /\ DOMAIN sendQueue = 1..Len(sendQueue)
      /\ DOMAIN sendQueue' = 1..(Len(sendQueue) - 1)
      /\ \A i \in DOMAIN sendQueue' : i + 1 \in DOMAIN sendQueue /\ sendQueue'[i] = sendQueue[i + 1]
      /\ Head(sendQueue) = sendQueue[1]
  BY DEF QueueTypeOK
<1>2. \A i \in DOMAIN sendQueue : i = 1 \/ (i - 1 \in DOMAIN sendQueue' /\ (i - 1) + 1 = i)
  BY <1>1
<1>3. Head(sendQueue) \in Queued
  BY <1>1 DEF Queued
<1>4. Queued' \subseteq Queued \ {Head(sendQueue)}
  BY <1>1 DEF Queued, QueueOnce
<1>5. Queued \ {Head(sendQueue)} \subseteq Queued'
  <2> SUFFICES ASSUME NEW i \in DOMAIN sendQueue, sendQueue[i] # Head(sendQueue)
               PROVE  sendQueue[i] \in Queued'
    BY DEF Queued
  <2>1. i - 1 \in DOMAIN sendQueue' /\ sendQueue'[i - 1] = sendQueue[i]
    BY <1>1, <1>2
  <2> QED  BY <2>1 DEF Queued
<1>6. QueueOnce'
  BY <1>1 DEF QueueOnce
<1> QED  BY <1>3, <1>4, <1>5, <1>6

LEMMA IntoHand ==
    ASSUME WriterTypeOK, HandsOnce, NEW w \in Writers, wmsg[w] = 0,
           NEW n, n # 0, n \notin InHand, wmsg' = [wmsg EXCEPT ![w] = n]
    PROVE  InHand' = InHand \cup {n} /\ HandsOnce'
<1>1. /\ wmsg'[w] = n
      /\ \A v \in Writers : v # w => wmsg'[v] = wmsg[v]
  BY DEF WriterTypeOK
<1>2. InHand' = InHand \cup {n}
  BY <1>1 DEF InHand
<1>3. HandsOnce'
  BY <1>1 DEF HandsOnce, InHand
<1> QED  BY <1>2, <1>3

LEMMA OutOfHand ==
    ASSUME WriterTypeOK, HandsOnce, NEW w \in Writers, wmsg[w] # 0,
           wmsg' = [wmsg EXCEPT ![w] = 0]
    PROVE  /\ wmsg[w] \in InHand
           /\ InHand' = InHand \ {wmsg[w]}
           /\ HandsOnce'
<1>1. /\ wmsg'[w] = 0
      /\ \A v \in Writers : v # w => wmsg'[v] = wmsg[v]
  BY DEF WriterTypeOK
<1>2. InHand' = InHand \ {wmsg[w]}
  BY <1>1 DEF InHand, HandsOnce
<1>3. HandsOnce'
  BY <1>1 DEF HandsOnce
<1> QED  BY <1>2, <1>3 DEF InHand

LEMMA IntoWire ==
    ASSUME OutcomeTypeOK, WireOnce, NEW c \in Readers, NEW n, n \notin Written,
           wire' = [wire EXCEPT ![c] = Append(@, n)]
    PROVE  Written' = Written \cup {n} /\ WireOnce'
<1>1. /\ Len(wire[c]) \in Nat
      /\ DOMAIN wire[c] = 1..Len(wire[c])
      /\ DOMAIN wire'[c] = 1..(Len(wire[c]) + 1)
      /\ \A i \in DOMAIN wire[c] : wire'[c][i] = wire[c][i]
      /\ wire'[c][Len(wire[c]) + 1] = n
      /\ \A b \in Readers : b # c => wire'[b] = wire[b]
  BY DEF OutcomeTypeOK
<1>2. \A i \in DOMAIN wire'[c] : i \in DOMAIN wire[c] \/ i = Len(wire[c]) + 1
  BY <1>1
<1>3. Written' = Written \cup {n}
  <2>1. \A b \in Readers : \A i \in DOMAIN wire'[b] : wire'[b][i] \in Written \cup {n}
    BY <1>1, <1>2 DEF Written
  <2>2. \A b \in Readers : \A i \in DOMAIN wire[b] :
             i \in DOMAIN wire'[b] /\ wire'[b][i] = wire[b][i]
    BY <1>1
  <2>3. Written \subseteq Written'
    BY <2>2 DEF Written
  <2>4. n \in Written'
    <3>1. Len(wire[c]) + 1 \in DOMAIN wire'[c]
      BY <1>1
    <3> QED  BY <1>1, <3>1 DEF Written
  <2> QED  BY <2>1, <2>3, <2>4 DEF Written
<1>4. WireOnce'
  <2> SUFFICES ASSUME NEW a \in Readers, NEW b \in Readers,
                      NEW i \in DOMAIN wire'[a], NEW k \in DOMAIN wire'[b],
                      wire'[a][i] = wire'[b][k]
               PROVE  a = b /\ i = k
    BY DEF WireOnce
  <2> DEFINE New(x, j) == x = c /\ j = Len(wire[c]) + 1
  <2>1. /\ New(a, i) \/ (i \in DOMAIN wire[a] /\ wire'[a][i] = wire[a][i])
        /\ New(b, k) \/ (k \in DOMAIN wire[b] /\ wire'[b][k] = wire[b][k])
    BY <1>1, <1>2
  <2>2. CASE New(a, i) /\ New(b, k)
    BY <2>2
  <2>3. CASE ~New(a, i) /\ ~New(b, k)
    BY <2>1, <2>3 DEF WireOnce
  <2>4. CASE New(a, i) /\ ~New(b, k)
    BY <1>1, <2>1, <2>4 DEF Written
  <2>5. CASE ~New(a, i) /\ New(b, k)
    BY <1>1, <2>1, <2>5 DEF Written
  <2> QED  BY <2>2, <2>3, <2>4, <2>5
<1> QED  BY <1>3, <1>4

LEMMA PlacesAlone ==
    ASSUME AcceptedOnce, UNCHANGED <<sendQueue, accepted, wmsg, outcome>>
    PROVE  AcceptedOnce'
BY DEF AcceptedOnce, HeldOnce, Queued, InHand, Written, outcome

LEMMA AcceptedEnqueue ==
    ASSUME SendInv, AcceptedOnce, NEW s \in Senders, SendEnqueue(s)
    PROVE  AcceptedOnce'
<1> USE DEF SendInv
<1>1. CASE UNCHANGED <<sendQueue, accepted>>
  BY <1>1, PlacesAlone DEF SendEnqueue, writerVars
<1>2. CASE accepted' = accepted + 1 /\ sendQueue' = Append(sendQueue, accepted + 1)
  <2>1. accepted \in Nat /\ accepted + 1 \notin 1..accepted
    BY SendAssumption DEF QueueTypeOK
  <2>2. Queued' = Queued \cup {accepted + 1} /\ QueueOnce'
    BY <1>2, <2>1, IntoQueue, HeldOnceParts DEF AcceptedOnce
  <2>3. UNCHANGED <<InHand, Written, dropped>> /\ HandsOnce' /\ WireOnce'
    BY HeldOnceParts
    DEF SendEnqueue, writerVars, outcome, InHand, Written, AcceptedOnce, HandsOnce, WireOnce
  <2>4. 1..accepted' = 1..accepted \cup {accepted + 1}
    BY <1>2, <2>1
  <2>5. HeldOnce'
    BY <2>2, <2>3 DEF HeldOnce, QueueOnce, HandsOnce, WireOnce
  <2> QED  BY <2>1, <2>2, <2>3, <2>4, <2>5 DEF AcceptedOnce
<1> QED  BY <1>1, <1>2 DEF SendEnqueue

LEMMA AcceptedTake ==
    ASSUME SendInv, AcceptedOnce, NEW w \in Writers, WriteTake(w)
    PROVE  AcceptedOnce'
<1> DEFINE n == Head(sendQueue)
<1> USE DEF SendInv, WriteTake
<1>1. n \in Queued /\ Queued' = Queued \ {n} /\ QueueOnce'
  BY OutOfQueue, HeldOnceParts DEF AcceptedOnce
<1>2. n # 0 /\ wmsg[w] = 0
  <2>1. n \in 1..MaxAccepted
    BY SendAssumption DEF QueueTypeOK
  <2>2. wpc[w] = "select"
    BY DEF Go
  <2> QED  BY <2>1, <2>2 DEF WritersInv
<1>3. n \notin InHand
  BY <1>1 DEF AcceptedOnce
<1>4. InHand' = InHand \cup {n} /\ HandsOnce'
  BY <1>2, <1>3, IntoHand, HeldOnceParts DEF AcceptedOnce
<1>5. UNCHANGED <<Written, dropped, accepted>> /\ WireOnce'
  BY HeldOnceParts DEF outcome, Written, AcceptedOnce, WireOnce
<1>6. HeldOnce'
  BY <1>1, <1>4, <1>5 DEF HeldOnce, QueueOnce, HandsOnce, WireOnce
<1> QED  BY <1>1, <1>4, <1>5, <1>6 DEF AcceptedOnce

LEMMA AcceptedGiveUp ==
    ASSUME SendInv, AcceptedOnce, NEW w \in Writers, wmsg[w] # 0, GiveUp(w),
           UNCHANGED <<sendQueue, accepted>>
    PROVE  AcceptedOnce'
<1>1. wmsg[w] \in InHand /\ InHand' = InHand \ {wmsg[w]} /\ HandsOnce'
  BY OutOfHand, HeldOnceParts DEF GiveUp, AcceptedOnce, SendInv
<1>2. /\ UNCHANGED <<Queued, Written, accepted>> /\ QueueOnce' /\ WireOnce'
      /\ dropped' = dropped \cup {wmsg[w]}
  BY HeldOnceParts DEF GiveUp, Queued, Written, AcceptedOnce, QueueOnce, WireOnce
<1>3. HeldOnce'
  BY <1>1, <1>2 DEF HeldOnce, QueueOnce, HandsOnce, WireOnce
<1> QED  BY <1>1, <1>2, <1>3 DEF AcceptedOnce

LEMMA AcceptedWritten ==
    ASSUME SendInv, AcceptedOnce, NEW w \in Writers, wmsg[w] # 0, wconn[w] \in Readers,
           wire' = [wire EXCEPT ![wconn[w]] = Append(@, wmsg[w])],
           wmsg' = [wmsg EXCEPT ![w] = 0],
           UNCHANGED <<sendQueue, accepted, dropped>>
    PROVE  AcceptedOnce'
<1>1. wmsg[w] \in InHand /\ InHand' = InHand \ {wmsg[w]} /\ HandsOnce'
  BY OutOfHand, HeldOnceParts DEF AcceptedOnce, SendInv
<1>2. wmsg[w] \notin Written
  BY <1>1 DEF AcceptedOnce
<1>3. Written' = Written \cup {wmsg[w]} /\ WireOnce'
  BY <1>2, IntoWire, HeldOnceParts DEF AcceptedOnce, SendInv
<1>4. UNCHANGED <<Queued, dropped, accepted>> /\ QueueOnce'
  BY HeldOnceParts DEF Queued, AcceptedOnce, QueueOnce
<1>5. HeldOnce'
  BY <1>1, <1>3, <1>4 DEF HeldOnce, QueueOnce, HandsOnce, WireOnce
<1> QED  BY <1>1, <1>3, <1>4, <1>5 DEF AcceptedOnce

LEMMA AcceptedWriter ==
    ASSUME StrategyInv, SendInv, AcceptedOnce, NEW w \in Writers, WriteStep(w)
    PROVE  AcceptedOnce'
<1> USE DEF Go, senderVars
<1>1. CASE WriteTop(w) \/ WriteStop(w) \/ WriteError(w)
  BY <1>1, PlacesAlone DEF WriteTop, WriteStop, WriteError
<1>2. CASE WriteTake(w)
  BY <1>2, AcceptedTake
<1>3. CASE WriteLoad(w)
  <2>1. wmsg[w] # 0
    BY <1>3 DEF WriteLoad, SendInv, WritersInv
  <2> QED  BY <1>3, <2>1, AcceptedGiveUp, PlacesAlone DEF WriteLoad
<1>4. CASE WriteMarshalError(w)
  <2>1. wmsg[w] # 0
    BY <1>4 DEF WriteMarshalError, SendInv, WritersInv
  <2> QED  BY <1>4, <2>1, AcceptedGiveUp DEF WriteMarshalError
<1>5. CASE WriteEnd(w)
  <2>1. wmsg[w] # 0 /\ wconn[w] \in Readers
    <3>1. wpc[w] = "writing"
      BY <1>5 DEF WriteEnd
    <3>2. w \in 1..dials /\ dials \in 1..MaxDials
      BY <3>1, LoopWasStarted DEF SendInv, Readers
    <3>3. wmsg[w] # 0 /\ wconn[w] \in w..dials
      BY <3>1 DEF SendInv, WritersInv
    <3> QED  BY <3>2, <3>3, StrategyAssumption DEF Readers
  <2> QED  BY <1>5, <2>1, AcceptedGiveUp, AcceptedWritten DEF WriteEnd
<1> QED  BY <1>1, <1>2, <1>3, <1>4, <1>5 DEF WriteStep

LEMMA AcceptedNext ==
    ASSUME StrategyInv, SendInv, AcceptedOnce, [SendPathNext]_sendPathVars
    PROVE  AcceptedOnce'
<1>1. CASE \E w \in Writers : WriteStep(w)
  BY <1>1, AcceptedWriter
<1>2. ASSUME NEW s \in Senders, SendEnqueue(s) PROVE AcceptedOnce'
  BY <1>2, AcceptedEnqueue
<1>3. CASE UNCHANGED <<sendQueue, accepted, wmsg, outcome>>
  BY <1>3, PlacesAlone
<1> QED
  BY <1>1, <1>2, <1>3
  DEF SendPathNext, Connect, SendCheck, JoinBegin, JoinEnd, sendPathVars, sendVars, senderVars,
      writerVars

(* Whatever write loops of earlier links share the queue with the one of   *)
(* the link, no accepted message vanishes or is written twice.             *)
THEOREM AcceptedKept == SendPathSpec => []AcceptedAreKept
<1>1. SendPathInit => AcceptedOnce
  BY DEF SendPathInit, AcceptedOnce, HeldOnce, Queued, InHand, Written
<1>2. StrategyInv /\ SendInv /\ AcceptedOnce /\ [SendPathNext]_sendPathVars => AcceptedOnce'
  BY AcceptedNext
<1>3. SendTypeOK /\ AcceptedOnce => AcceptedAreKept
  BY DEF AcceptedAreKept
<1> QED  BY <1>1, <1>2, <1>3, SendInvariance, SendTypeCorrect, PTL DEF SendPathSpec

-----------------------------------------------------------------------------
(* HealthyLinkHasWriter: the write loop of the last dial entered its       *)
(* select, and loaded its connection, after that dial, so that only the    *)
(* end of this very link can stop it.                                      *)

LastLoopRuns == connected /\ net[dials] = "open" => wpc[dials] \notin {"idle", "done", "writeError"}

LEMMA HealthyWriter ==
    ASSUME StrategyInv, SendInv, LastLoopRuns, NEW w \in Writers, WriteStep(w)
    PROVE  LastLoopRuns'
<1> USE DEF Go
<1>0. wpc[w] # "idle"
  BY DEF WriteStep, WriteTop, WriteStop, WriteTake, WriteLoad, WriteMarshalError, WriteEnd,
         WriteError
<1>1. w \in 1..dials /\ dials \in Readers
  BY <1>0, LoopWasStarted DEF SendInv
<1>2. UNCHANGED <<connected, net, dials>>
  BY DEF WriteStep, WriteTop, WriteStop, WriteTake, WriteLoad, WriteMarshalError, WriteEnd,
         WriteError, strategyVars, link
<1>3. \E p \in WritePoints : wpc' = [wpc EXCEPT ![w] = p]
  BY DEF WriteStep, WriteTop, WriteStop, WriteTake, WriteLoad, WriteMarshalError, WriteEnd,
         WriteError, WritePoints
<1>4. CASE w # dials
  BY <1>1, <1>2, <1>3, <1>4 DEF LastLoopRuns, SendInv, WriterTypeOK, Writers
<1>5. CASE w = dials
  <2>1. CASE WriteStop(w)
    <3>1. wchan[w] = dials
      BY <1>1, <1>5, <2>1 DEF WriteStop, SendInv, WritersInv, Readers
    <3>2. ~connected
      BY <2>1, <3>1 DEF WriteStop, StrategyInv, FieldsInv
    <3> QED  BY <1>2, <3>2 DEF LastLoopRuns
  <2>2. CASE WriteEnd(w)
    <3>1. wconn[w] = dials
      BY <1>1, <1>5, <2>2 DEF WriteEnd, SendInv, WritersInv, Readers
    <3> QED  BY <1>1, <1>2, <1>5, <2>2, <3>1 DEF WriteEnd, LastLoopRuns, SendInv, WriterTypeOK
  <2>3. CASE WriteError(w)
    BY <1>2, <1>5, <2>3 DEF WriteError, LastLoopRuns
  <2>4. CASE WriteTop(w) \/ WriteTake(w) \/ WriteLoad(w) \/ WriteMarshalError(w)
    BY <1>1, <1>5, <2>4
    DEF WriteTop, WriteTake, WriteLoad, WriteMarshalError, LastLoopRuns, SendInv, WriterTypeOK,
        strategyVars, link
  <2> QED  BY <2>1, <2>2, <2>3, <2>4 DEF WriteStep
<1> QED  BY <1>4, <1>5

LEMMA HealthyNext ==
    ASSUME StrategyInv, SendInv, LastLoopRuns, [SendPathNext]_sendPathVars
    PROVE  LastLoopRuns'
<1>1. CASE Connect
  <2>1. dials' \in Writers /\ wpc' = [wpc EXCEPT ![dials'] = "top"]
    BY <1>1, StrategyAssumption
    DEF Connect, DialOK, StrategyInv, StrategyTypeOK, LinkTypeOK, Writers, Readers
  <2> QED  BY <2>1 DEF LastLoopRuns, SendInv, WriterTypeOK
<1>2. CASE \E w \in Writers : WriteStep(w)
  BY <1>2, HealthyWriter
<1>3. ASSUME UNCHANGED <<dials, wpc>>, connected' => connected,
             connected => (net'[dials] = "open" => net[dials] = "open")
      PROVE  LastLoopRuns'
  BY <1>3 DEF LastLoopRuns
<1>4. ASSUME \/ \E t \in Threads : DisconnectDown(t) \/ DisconnectReport(t)
             \/ ConnectError \/ DisconnectNoop \/ TakeEvent \/ TakeMessage
             \/ \E r \in Readers : ReadStep(r),
             UNCHANGED sendVars
      PROVE  LastLoopRuns'
  <2>1. CASE \E t \in Threads : DisconnectDown(t)
    BY <2>1 DEF DisconnectDown, LastLoopRuns
  <2>2. CASE \/ \E t \in Threads : DisconnectReport(t)
             \/ ConnectError \/ DisconnectNoop \/ TakeEvent \/ TakeMessage
    BY <1>3, <1>4, <2>2
    DEF DisconnectReport, ConnectError, DisconnectNoop, TakeEvent, TakeMessage, strategyVars,
        link, sendVars, writerVars
  <2>3. ASSUME NEW r \in Readers, ReadStep(r) PROVE LastLoopRuns'
    <3>1. UNCHANGED dials /\ (connected' => connected)
      BY <2>3
      DEF ReadStep, ReadTop, ReadEnvelope, ReadMessage, SendEvent, SendMessage, ReadError,
          SendError, ReadExit, ReportLoss, link
    <3>2. net'[dials] = "open" => net[dials] = "open"
      <4>1. CASE ReadError(r)
        BY <4>1 DEF ReadError, ReadingFails, StrategyInv, StrategyTypeOK, LinkTypeOK
      <4>2. CASE ~ReadError(r)
        BY <2>3, <4>2
        DEF ReadStep, ReadTop, ReadEnvelope, ReadMessage, SendEvent, SendMessage, SendError,
            ReadExit, ReportLoss
      <4> QED  BY <4>1, <4>2
    <3> QED  BY <1>3, <1>4, <3>1, <3>2 DEF sendVars, writerVars
  <2> QED  BY <1>4, <2>1, <2>2, <2>3
<1>5. ASSUME NEW c \in Readers, NetworkLoss(c), UNCHANGED sendVars
      PROVE  LastLoopRuns'
  <2>1. net'[dials] = "open" => net[dials] = "open"
    BY <1>5 DEF NetworkLoss, StrategyInv, StrategyTypeOK, LinkTypeOK
  <2> QED  BY <1>3, <1>5, <2>1 DEF NetworkLoss, link, sendVars, writerVars
<1>6. CASE UNCHANGED <<strategyVars, wpc>>
  BY <1>6 DEF LastLoopRuns, strategyVars, link
<1> QED
  BY <1>1, <1>2, <1>4, <1>5, <1>6
  DEF SendPathNext, SendCheck, SendEnqueue, JoinBegin, JoinEnd, sendPathVars, sendVars, writerVars

(* However many write loops earlier links have left behind, a healthy link *)
(* has the one of its own dial.                                            *)
THEOREM HealthyLinkServed == SendPathSpec => []HealthyLinkHasWriter
<1>1. SendPathInit => LastLoopRuns
  BY DEF SendPathInit, StrategyInit, LastLoopRuns
<1>2. StrategyInv /\ SendInv /\ LastLoopRuns /\ [SendPathNext]_sendPathVars => LastLoopRuns'
  BY HealthyNext
<1>3. StrategyInv /\ LastLoopRuns => HealthyLinkHasWriter
  BY DEF StrategyInv, FieldsInv, LastLoopRuns, HealthyLinkHasWriter
<1> QED  BY <1>1, <1>2, <1>3, SendInvariance, PTL DEF SendPathSpec

-----------------------------------------------------------------------------
(* The order of messages.  A message is below what is queued from the      *)
(* moment it is taken; with a single write loop, what that has written     *)
(* comes before what it has in hand.                                       *)

QueueSorted == \A i, k \in DOMAIN sendQueue : i < k => sendQueue[i] < sendQueue[k]
TakenBeforeQueue == \A m \in Taken, k \in DOMAIN sendQueue : m < sendQueue[k]

WireSorted == \A c \in Readers : \A i, k \in DOMAIN wire[c] : i < k => wire[c][i] < wire[c][k]
WireBeforeHand ==
    \A c \in Readers : \A i \in DOMAIN wire[c], w \in Writers :
        wmsg[w] # 0 => wire[c][i] < wmsg[w]

FirstLinkInv == dials <= 1 => WireSorted /\ WireBeforeHand

SendOrderInv == QueueSorted /\ TakenBeforeQueue /\ FirstLinkInv

LEMMA SentOrderAlone ==
    ASSUME SendOrderInv, UNCHANGED <<sendQueue, wmsg, wire, dropped>>, dials' <= 1 => dials <= 1
    PROVE  SendOrderInv'
<1>1. Taken' = Taken
  BY DEF Taken, InHand, Written
<1>2. QueueSorted' /\ TakenBeforeQueue'
  BY <1>1 DEF SendOrderInv, QueueSorted, TakenBeforeQueue
<1>3. FirstLinkInv'
  BY DEF SendOrderInv, FirstLinkInv, WireSorted, WireBeforeHand
<1> QED  BY <1>2, <1>3 DEF SendOrderInv

(* The write loop that has a message in hand is the only one.              *)
LEMMA OneHand ==
    ASSUME StrategyInv, SendInv, dials <= 1, NEW v \in Writers, NEW w \in Writers,
           wpc[v] # "idle", wmsg[w] # 0
    PROVE  v = w
<1>1. wpc[w] # "idle"
  BY DEF SendInv, WritersInv
<1>2. v \in 1..dials /\ w \in 1..dials /\ dials \in 1..MaxDials
  BY <1>1, LoopWasStarted DEF SendInv, Readers
<1> QED  BY <1>2, StrategyAssumption

LEMMA SentOrderEnqueue ==
    ASSUME SendInv, AcceptedOnce, SendOrderInv, NEW s \in Senders, SendEnqueue(s)
    PROVE  SendOrderInv'
<1> DEFINE n == accepted + 1
<1>0. UNCHANGED <<dials, wmsg, wire, dropped>>
  BY DEF SendEnqueue, strategyVars, link, writerVars, outcome
<1>1. CASE UNCHANGED sendQueue
  BY <1>0, <1>1, SentOrderAlone
<1>2. CASE sendQueue' = Append(sendQueue, n)
  <2>1. accepted \in Nat /\ \A m \in 1..accepted : m < n
    BY SendAssumption DEF SendInv, QueueTypeOK
  <2>2. /\ DOMAIN sendQueue = 1..Len(sendQueue) /\ Len(sendQueue) \in Nat
        /\ DOMAIN sendQueue' = 1..(Len(sendQueue) + 1)
        /\ \A i \in DOMAIN sendQueue : sendQueue'[i] = sendQueue[i]
        /\ sendQueue'[Len(sendQueue) + 1] = n
    BY <1>2 DEF SendInv, QueueTypeOK
  <2>3. \A k \in DOMAIN sendQueue' : k \in DOMAIN sendQueue \/ k = Len(sendQueue) + 1
    BY <2>2
  <2>4. Taken' = Taken /\ \A m \in Taken : m < n
    BY <1>0, <2>1 DEF Taken, InHand, Written, AcceptedOnce
  <2>5. QueueSorted'
    <3> SUFFICES ASSUME NEW i \in DOMAIN sendQueue', NEW k \in DOMAIN sendQueue', i < k
                 PROVE  sendQueue'[i] < sendQueue'[k]
      BY DEF QueueSorted
    <3>1. i \in DOMAIN sendQueue
      BY <2>2
    <3>2. sendQueue[i] \in 1..accepted
      BY <3>1 DEF AcceptedOnce, Queued
    <3> QED  BY <2>1, <2>2, <2>3, <3>1, <3>2 DEF SendOrderInv, QueueSorted
  <2>6. TakenBeforeQueue'
    BY <2>2, <2>3, <2>4 DEF SendOrderInv, TakenBeforeQueue
  <2>7. FirstLinkInv'
    BY <1>0 DEF SendOrderInv, FirstLinkInv, WireSorted, WireBeforeHand
  <2> QED  BY <2>5, <2>6, <2>7 DEF SendOrderInv
<1> QED  BY <1>1, <1>2 DEF SendEnqueue

LEMMA SentOrderTake ==
    ASSUME StrategyInv, SendInv, SendOrderInv, NEW w \in Writers, WriteTake(w)
    PROVE  SendOrderInv'
<1>0. /\ UNCHANGED <<dials, wire, dropped>> /\ wpc[w] # "idle"
      /\ wmsg' = [wmsg EXCEPT ![w] = Head(sendQueue)]
  BY DEF WriteTake, Go, strategyVars, link, outcome
<1>1. /\ 1 \in DOMAIN sendQueue /\ Head(sendQueue) = sendQueue[1]
      /\ \A i \in DOMAIN sendQueue' : /\ i + 1 \in DOMAIN sendQueue /\ 1 < i + 1 /\ i \in Nat
                                      /\ sendQueue'[i] = sendQueue[i + 1]
  BY DEF WriteTake, SendInv, QueueTypeOK
<1>2. QueueSorted'
  BY <1>1 DEF SendOrderInv, QueueSorted
<1>3. TakenBeforeQueue'
  <2>1. InHand' \subseteq InHand \cup {Head(sendQueue)}
    BY <1>0 DEF InHand, SendInv, WriterTypeOK
  <2>2. Taken' \subseteq Taken \cup {Head(sendQueue)}
    BY <1>0, <2>1 DEF Taken, Written
  <2>3. \A k \in DOMAIN sendQueue' : Head(sendQueue) < sendQueue'[k]
    BY <1>1 DEF SendOrderInv, QueueSorted
  <2>4. \A m \in Taken, k \in DOMAIN sendQueue' : m < sendQueue'[k]
    BY <1>1 DEF SendOrderInv, TakenBeforeQueue
  <2> QED  BY <2>2, <2>3, <2>4 DEF TakenBeforeQueue
<1>4. ASSUME dials <= 1 PROVE WireSorted' /\ WireBeforeHand'
  <2>1. \A v \in Writers : wmsg'[v] # 0 => v = w /\ wmsg'[v] = Head(sendQueue)
    <3> SUFFICES ASSUME NEW v \in Writers, v # w PROVE wmsg'[v] = 0
      BY <1>0 DEF SendInv, WriterTypeOK
    <3>1. wmsg'[v] = wmsg[v]
      BY <1>0 DEF SendInv, WriterTypeOK
    <3> QED  BY <1>0, <1>4, <3>1, OneHand
  <2>2. \A c \in Readers : \A i \in DOMAIN wire[c] : wire[c][i] < Head(sendQueue)
    <3>1. \A c \in Readers : \A i \in DOMAIN wire[c] : wire[c][i] \in Taken
      BY DEF Taken, Written
    <3> QED  BY <1>1, <3>1 DEF SendOrderInv, TakenBeforeQueue
  <2>3. WireSorted'
    BY <1>0, <1>4 DEF SendOrderInv, FirstLinkInv, WireSorted
  <2>4. WireBeforeHand'
    BY <1>0, <2>1, <2>2 DEF WireBeforeHand
  <2> QED  BY <2>3, <2>4
<1> QED  BY <1>0, <1>2, <1>3, <1>4 DEF SendOrderInv, FirstLinkInv

(* A message that leaves a hand, given up or written, was taken before.    *)
LEMMA SentOrderTaken ==
    ASSUME SendOrderInv, UNCHANGED sendQueue, Taken' \subseteq Taken
    PROVE  QueueSorted' /\ TakenBeforeQueue'
BY DEF SendOrderInv, QueueSorted, TakenBeforeQueue

LEMMA SentOrderGiveUp ==
    ASSUME SendInv, SendOrderInv, NEW w \in Writers, wmsg[w] # 0, GiveUp(w),
           UNCHANGED <<dials, sendQueue>>
    PROVE  SendOrderInv'
<1>1. /\ wmsg[w] \in InHand /\ InHand' \subseteq InHand
      /\ Written' = Written
  BY DEF GiveUp, InHand, Written, SendInv, WriterTypeOK
<1>2. Taken' \subseteq Taken
  BY <1>1 DEF GiveUp, Taken
<1>3. FirstLinkInv'
  BY DEF GiveUp, SendInv, WriterTypeOK, SendOrderInv, FirstLinkInv, WireSorted, WireBeforeHand
<1> QED  BY <1>2, <1>3, SentOrderTaken DEF SendOrderInv

LEMMA SentOrderWritten ==
    ASSUME StrategyInv, SendInv, SendOrderInv, NEW w \in Writers, wmsg[w] # 0,
           wconn[w] \in Readers, wire' = [wire EXCEPT ![wconn[w]] = Append(@, wmsg[w])],
           wmsg' = [wmsg EXCEPT ![w] = 0], UNCHANGED <<dials, sendQueue, dropped>>
    PROVE  SendOrderInv'
<1> DEFINE d == wconn[w]
<1>1. /\ DOMAIN wire[d] = 1..Len(wire[d]) /\ Len(wire[d]) \in Nat
      /\ DOMAIN wire'[d] = 1..(Len(wire[d]) + 1)
      /\ \A i \in DOMAIN wire[d] : wire'[d][i] = wire[d][i]
      /\ wire'[d][Len(wire[d]) + 1] = wmsg[w]
      /\ \A b \in Readers : b # d => wire'[b] = wire[b]
  BY DEF SendInv, OutcomeTypeOK
<1>2. Taken' \subseteq Taken
  <2>1. wmsg[w] \in InHand /\ InHand' \subseteq InHand
    BY DEF InHand, SendInv, WriterTypeOK
  <2>2. ASSUME NEW c \in Readers, NEW i \in DOMAIN wire'[c]
        PROVE  wire'[c][i] \in Written \cup {wmsg[w]}
    <3>1. CASE c # d
      BY <1>1, <2>2, <3>1 DEF Written
    <3>2. CASE c = d
      <4>1. i \in DOMAIN wire[d] \/ i = Len(wire[d]) + 1
        BY <1>1, <2>2, <3>2
      <4> QED  BY <1>1, <3>2, <4>1 DEF Written
    <3> QED  BY <3>1, <3>2
  <2>3. Written' \subseteq Written \cup {wmsg[w]}
    BY <2>2 DEF Written
  <2> QED  BY <2>1, <2>3 DEF Taken
<1>3. ASSUME dials <= 1 PROVE WireSorted' /\ WireBeforeHand'
  <2>1. \A v \in Writers : wmsg'[v] = 0
    <3> SUFFICES ASSUME NEW v \in Writers, v # w PROVE wmsg[v] = 0
      BY DEF SendInv, WriterTypeOK
    <3>1. wpc[w] # "idle"
      BY DEF SendInv, WritersInv
    <3> QED  BY <1>3, <3>1, OneHand
  <2>2. \A i \in DOMAIN wire[d] : wire[d][i] < wmsg[w]
    BY <1>3 DEF SendOrderInv, FirstLinkInv, WireBeforeHand
  <2>3. WireSorted'
    <3> SUFFICES ASSUME NEW c \in Readers, NEW i \in DOMAIN wire'[c], NEW k \in DOMAIN wire'[c],
                        i < k
                 PROVE  wire'[c][i] < wire'[c][k]
      BY DEF WireSorted
    <3>1. CASE c # d
      BY <1>1, <1>3, <3>1 DEF SendOrderInv, FirstLinkInv, WireSorted
    <3>2. CASE c = d
      <4>1. i \in DOMAIN wire[d] /\ (k \in DOMAIN wire[d] \/ k = Len(wire[d]) + 1)
        BY <1>1, <3>2
      <4> QED  BY <1>1, <1>3, <2>2, <3>2, <4>1 DEF SendOrderInv, FirstLinkInv, WireSorted
    <3> QED  BY <3>1, <3>2
  <2> QED  BY <2>1, <2>3 DEF WireBeforeHand
<1> QED  BY <1>2, <1>3, SentOrderTaken DEF SendOrderInv, FirstLinkInv

LEMMA SentOrderWriter ==
    ASSUME StrategyInv, SendInv, SendOrderInv, NEW w \in Writers, WriteStep(w)
    PROVE  SendOrderInv'
<1> USE DEF Go, senderVars, strategyVars, link
<1>1. CASE WriteTop(w) \/ WriteStop(w) \/ WriteError(w) \/ (WriteLoad(w) /\ UNCHANGED <<wmsg, outcome>>)
  <2>1. UNCHANGED <<dials, sendQueue, wmsg, wire, dropped>>
    BY <1>1 DEF WriteTop, WriteStop, WriteError, WriteLoad, outcome
  <2> QED  BY <2>1, SentOrderAlone
<1>2. CASE WriteTake(w)
  BY <1>2, SentOrderTake
<1>3. CASE (WriteLoad(w) /\ GiveUp(w)) \/ WriteMarshalError(w)
  <2>1. wmsg[w] # 0
    BY <1>3 DEF WriteLoad, WriteMarshalError, SendInv, WritersInv
  <2> QED  BY <1>3, <2>1, SentOrderGiveUp DEF WriteLoad, WriteMarshalError
<1>4. CASE WriteEnd(w)
  <2>1. wpc[w] = "writing"
    BY <1>4 DEF WriteEnd
  <2>2. w \in 1..dials /\ dials \in 1..MaxDials
    BY <2>1, LoopWasStarted DEF SendInv, Readers
  <2>3. wmsg[w] # 0 /\ wconn[w] \in w..dials
    BY <2>1 DEF SendInv, WritersInv
  <2>4. wconn[w] \in Readers
    BY <2>2, <2>3, StrategyAssumption DEF Readers
  <2> QED  BY <1>4, <2>3, <2>4, SentOrderGiveUp, SentOrderWritten DEF WriteEnd
<1> QED  BY <1>1, <1>2, <1>3, <1>4 DEF WriteStep, WriteLoad

LEMMA SentOrderNext ==
    ASSUME StrategyInv, SendInv, AcceptedOnce, SendOrderInv, [SendPathNext]_sendPathVars
    PROVE  SendOrderInv'
<1>1. ASSUME UNCHANGED <<sendQueue, wmsg, wire, dropped>>, UNCHANGED dials \/ dials' = dials + 1
      PROVE  SendOrderInv'
  <2>1. dials' <= 1 => dials <= 1
    BY <1>1 DEF StrategyInv, StrategyTypeOK, LinkTypeOK
  <2> QED  BY <1>1, <2>1, SentOrderAlone
<1>2. CASE Connect
  BY <1>1, <1>2 DEF Connect, DialOK, senderVars, outcome
<1>3. CASE \E w \in Writers : WriteStep(w)
  BY <1>3, SentOrderWriter
<1>4. CASE \E s \in Senders : SendEnqueue(s)
  BY <1>4, SentOrderEnqueue
<1>5. ASSUME UNCHANGED sendVars, UNCHANGED dials PROVE SendOrderInv'
  BY <1>1, <1>5 DEF sendVars, senderVars, writerVars, outcome
<1>6. CASE \/ \E s \in Senders : SendCheck(s)
           \/ \E j \in Joiners : JoinBegin(j) \/ JoinEnd(j)
  BY <1>1, <1>6 DEF SendCheck, JoinBegin, JoinEnd, strategyVars, link, senderVars, writerVars, outcome
<1>7. CASE UNCHANGED sendPathVars
  BY <1>5, <1>7 DEF sendPathVars, strategyVars, link
<1> QED  BY <1>2, <1>3, <1>4, <1>5, <1>6, <1>7, DialsAlone DEF SendPathNext

(* However many write loops share the queue, a message is overtaken only   *)
(* while one of them has it in hand; before the first reconnection none    *)
(* is.                                                                     *)
THEOREM SentInOrder == SendPathSpec => []OvertakenInHandOnly
<1>1. SendPathInit => AcceptedOnce /\ SendOrderInv
  BY DEF SendPathInit, AcceptedOnce, HeldOnce, Queued, InHand, Written, Taken, SendOrderInv,
         QueueSorted, TakenBeforeQueue, FirstLinkInv, WireSorted, WireBeforeHand
<1>2. StrategyInv /\ SendInv /\ AcceptedOnce /\ SendOrderInv /\ [SendPathNext]_sendPathVars
        => AcceptedOnce' /\ SendOrderInv'
  BY AcceptedNext, SentOrderNext
<1>3. SendOrderInv => OvertakenInHandOnly
  BY DEF SendOrderInv, QueueSorted, TakenBeforeQueue, FirstLinkInv, WireSorted, WireBeforeHand,
         OvertakenInHandOnly
<1> QED  BY <1>1, <1>2, <1>3, SendInvariance, PTL DEF SendPathSpec
=============================================================================
