----------------------- MODULE WebSocketStrategyProofs -----------------------
(***************************************************************************)
(* Proofs about WebSocketStrategy, for every number of dials, capacity,    *)
(* set of callers and traffic:                                             *)
(*                                                                         *)
(*   TypeCorrect           StrategySpec => []StrategyTypeOK                *)
(*   ConnectedConsistent   StrategySpec => []ConnectedIsConsistent         *)
(*   LinkWatched           StrategySpec => []LinkIsWatched                 *)
(*   KeepsContract         StrategySpec => ImplementsContract              *)
(*   NoOrphanSocket        StrategySpec => []OpenSocketIsOwned             *)
(*   SoleReader            StrategySpec => []OneReaderPerLink              *)
(*   InOrder               StrategySpec => []MessagesInOrder               *)
(*                                                                         *)
(* The inductive invariant of the first four is StrategyInv.  They are     *)
(* about the fields of the strategy; what makes them inductive is how they *)
(* tie to the read loops: the field closeChan always holds the channel of  *)
(* the last dial, the loops that were started are those of the dials made, *)
(* and a loop that is about to report holds the lock.                      *)
(***************************************************************************)
EXTENDS WebSocketStrategy, TLAPS

(* The fields follow the dials.                                            *)
FieldsInv ==
    /\ closeChan = dials
    /\ conn \in {0, dials}
    /\ closed \subseteq 1..dials
    /\ connected => /\ dials > 0
                    /\ conn = dials
                    /\ dials \notin closed
                    /\ net[dials] \in {"open", "lost"}

(* The read loops follow the dials and the lock.                           *)
LoopsInv ==
    /\ \A r \in Readers : rpc[r] = "idle" <=> r > dials
    /\ \A r \in Readers : rpc[r] = "report" => mu = r
    /\ connected => mu = Nobody /\ rpc[dials] # "done"

(* What a read loop has in hand is what its point needs.                   *)
LocalsInv ==
    \A r \in Readers :
        /\ rpc[r] \in {"read", "sendMessage"} => rconn[r] \in Readers
        /\ rpc[r] = "sendMessage" => rmsg[r] \in 1..MaxInbound

StrategyInv == StrategyTypeOK /\ FieldsInv /\ LoopsInv /\ LocalsInv

LEMMA InitInv == StrategyInit => StrategyInv
<1> SUFFICES ASSUME StrategyInit PROVE StrategyInv
  OBVIOUS
<1> USE StrategyAssumption DEF StrategyInit
<1>1. LinkTypeOK /\ ChannelTypeOK
  <2>1. LinkTypeOK
    <3>1. connected \in BOOLEAN /\ mu \in Threads \cup Readers \cup {Nobody}
      OBVIOUS
    <3>2. net \in [Readers -> Fates] /\ overtaken \in BOOLEAN
      BY DEF Fates
    <3> QED  BY <3>1, <3>2 DEF LinkTypeOK
  <2>2. ChannelTypeOK
    BY DEF ChannelTypeOK
  <2> QED  BY <2>1, <2>2
<1>2. LoopTypeOK
  BY DEF LoopTypeOK, ReadPoints
<1>3. FieldsInv /\ LoopsInv /\ LocalsInv
  BY DEF FieldsInv, LoopsInv, LocalsInv, Readers
<1> QED  BY <1>1, <1>2, <1>3 DEF StrategyInv, StrategyTypeOK

-----------------------------------------------------------------------------
(* One lemma per group of actions.                                         *)

LEMMA DialInv == StrategyInv /\ DialOK => StrategyInv'
<1> SUFFICES ASSUME StrategyInv, DialOK PROVE StrategyInv'
  OBVIOUS
<1> DEFINE d == dials + 1
<1>1. /\ d \in Readers /\ d \in 0..MaxDials
      /\ dials \in Nat /\ dials' = d
  BY StrategyAssumption DEF StrategyInv, StrategyTypeOK, LinkTypeOK, DialOK, Readers
<1>2. LinkTypeOK'
  <2>1. overtaken' \in BOOLEAN /\ connected' \in BOOLEAN
    BY DEF DialOK
  <2>2. net' \in [Readers -> Fates]
    BY <1>1 DEF StrategyInv, StrategyTypeOK, LinkTypeOK, DialOK, Fates
  <2> QED
    BY <1>1, <2>1, <2>2 DEF StrategyInv, StrategyTypeOK, LinkTypeOK, DialOK
<1>3. ChannelTypeOK' /\ LoopTypeOK'
  BY <1>1 DEF StrategyInv, StrategyTypeOK, ChannelTypeOK, LoopTypeOK, ReadPoints,
              DialOK, events, messages
<1>4. FieldsInv'
  BY <1>1 DEF StrategyInv, StrategyTypeOK, LinkTypeOK, FieldsInv, DialOK
<1>5. LoopsInv'
  BY <1>1 DEF StrategyInv, StrategyTypeOK, LoopTypeOK, LoopsInv, DialOK, Readers
<1>6. LocalsInv'
  BY <1>1 DEF StrategyInv, StrategyTypeOK, LoopTypeOK, LocalsInv, DialOK, messages
<1> QED  BY <1>2, <1>3, <1>4, <1>5, <1>6 DEF StrategyInv, StrategyTypeOK

LEMMA DisconnectDownInv ==
    ASSUME NEW t \in Threads, StrategyInv, DisconnectDown(t)
    PROVE  StrategyInv'
<1> USE DEF StrategyInv, StrategyTypeOK, DisconnectDown
<1>1. dials \in Readers /\ conn = dials /\ conn # 0 /\ closeChan = dials
  BY DEF LinkTypeOK, FieldsInv, Readers
<1>2. LinkTypeOK'
  <2>1. net' = [net EXCEPT ![conn] = "closed"]
    BY <1>1
  <2>2. net' \in [Readers -> Fates]
    BY <2>1 DEF LinkTypeOK, Fates
  <2>3. connected' \in BOOLEAN /\ mu' \in Threads \cup Readers \cup {Nobody}
    OBVIOUS
  <2>4. /\ conn' \in 0..MaxDials
        /\ closeChan' \in 0..MaxDials
        /\ closed' \subseteq Readers
        /\ dials' \in 0..MaxDials
        /\ overtaken' \in BOOLEAN
    BY <1>1, StrategyAssumption DEF LinkTypeOK
  <2> QED  BY <2>2, <2>3, <2>4 DEF LinkTypeOK
<1>3. ChannelTypeOK' /\ LoopTypeOK'
  BY DEF ChannelTypeOK, LoopTypeOK, events, messages
<1>4. FieldsInv'
  BY <1>1 DEF LinkTypeOK, FieldsInv, Readers
<1>5. LoopsInv' /\ LocalsInv'
  BY StrategyAssumption DEF LoopsInv, LocalsInv, messages
<1> QED  BY <1>2, <1>3, <1>4, <1>5

(* Posting an event of a known kind keeps the event channel well typed.    *)
LEMMA PostType ==
    ASSUME ChannelTypeOK, NEW kind \in EventKinds, Post(kind)
    PROVE  eventChan' \in Seq(EventKinds) /\ Len(eventChan') <= EventCap
BY StrategyAssumption DEF ChannelTypeOK, Post

LEMMA DisconnectReportInv ==
    ASSUME NEW t \in Threads, StrategyInv, DisconnectReport(t)
    PROVE  StrategyInv'
<1> USE DEF StrategyInv, StrategyTypeOK, DisconnectReport, PostDown, link, messages
<1>1. eventChan' \in Seq(EventKinds) /\ Len(eventChan') <= EventCap
  BY PostType DEF EventKinds, DownEvents
<1>2. LinkTypeOK' /\ ChannelTypeOK' /\ LoopTypeOK'
  BY <1>1 DEF LinkTypeOK, ChannelTypeOK, LoopTypeOK
<1>3. FieldsInv' /\ LocalsInv'
  BY DEF FieldsInv, LocalsInv
<1>4. LoopsInv'
  BY StrategyAssumption DEF LoopsInv
<1> QED  BY <1>2, <1>3, <1>4

-----------------------------------------------------------------------------
(* The read loop.                                                          *)

LEMMA DialsIsReader == StrategyInv /\ connected => dials \in Readers
BY DEF StrategyInv, StrategyTypeOK, LinkTypeOK, FieldsInv, Readers

LEMMA ReadStepInv ==
    ASSUME NEW r \in Readers, StrategyInv, ReadStep(r)
    PROVE  StrategyInv'
<1> USE DEF StrategyInv, StrategyTypeOK, link, events, messages
<1>1. CASE ReadTop(r)
  <2> USE <1>1 DEF ReadTop
  <2>1. LinkTypeOK' /\ ChannelTypeOK' /\ FieldsInv'
    BY DEF LinkTypeOK, ChannelTypeOK, FieldsInv
  <2>2. LoopTypeOK'
    BY DEF LinkTypeOK, LoopTypeOK, ReadPoints
  <2>3. PICK p \in {"exit", "read"} : rpc' = [rpc EXCEPT ![r] = p]
    OBVIOUS
  <2>4. LoopsInv'
    BY <2>3, DialsIsReader DEF LoopTypeOK, LoopsInv
  <2>5. rpc'[r] = "read" => rconn'[r] \in Readers
    <3>1. conn # 0 => conn \in Readers
      BY DEF LinkTypeOK, Readers
    <3>2. rpc'[r] = "read" => conn # 0 /\ rconn' = [rconn EXCEPT ![r] = conn]
      BY DEF LoopTypeOK
    <3> QED  BY <3>1, <3>2 DEF LoopTypeOK
  <2>6. LocalsInv'
    BY <2>3, <2>5 DEF LoopTypeOK, LocalsInv
  <2> QED  BY <2>1, <2>2, <2>4, <2>6
<1>2. ASSUME NEW kind \in Envelopes, ReadEnvelope(r, kind)
      PROVE  StrategyInv'
  <2> USE <1>2 DEF ReadEnvelope
  <2>1. LinkTypeOK' /\ ChannelTypeOK' /\ FieldsInv'
    BY DEF LinkTypeOK, ChannelTypeOK, FieldsInv
  <2>2. LoopTypeOK' /\ LoopsInv' /\ LocalsInv'
    BY DEF LoopTypeOK, ReadPoints, LoopsInv, LocalsInv
  <2> QED  BY <2>1, <2>2
<1>3. CASE ReadMessage(r)
  <2> USE <1>3 DEF ReadMessage
  <2>1. rconn[r] \in Readers /\ inbox[rconn[r]] + 1 \in 1..MaxInbound
    BY StrategyAssumption DEF LocalsInv, ChannelTypeOK
  <2>2. LinkTypeOK' /\ ChannelTypeOK' /\ FieldsInv'
    BY <2>1 DEF LinkTypeOK, ChannelTypeOK, FieldsInv
  <2>3. LoopTypeOK' /\ LoopsInv' /\ LocalsInv'
    BY <2>1 DEF LoopTypeOK, ReadPoints, LoopsInv, LocalsInv
  <2> QED  BY <2>2, <2>3
<1>4. CASE SendEvent(r)
  <2> USE <1>4 DEF SendEvent
  <2>1. eventChan' \in Seq(EventKinds) /\ Len(eventChan') <= EventCap
    BY PostType DEF EventKinds
  <2>2. LinkTypeOK' /\ ChannelTypeOK' /\ FieldsInv'
    BY <2>1 DEF LinkTypeOK, ChannelTypeOK, FieldsInv
  <2>3. LoopTypeOK' /\ LoopsInv' /\ LocalsInv'
    BY DEF LoopTypeOK, ReadPoints, LoopsInv, LocalsInv
  <2> QED  BY <2>2, <2>3
<1>5. CASE SendMessage(r)
  <2> USE <1>5 DEF SendMessage
  <2>1. [conn |-> rconn[r], seq |-> rmsg[r]] \in Message
    BY DEF LocalsInv, Message
  <2>2. msgChan' \in Seq(Message) /\ Len(msgChan') <= MsgCap
    BY <2>1, StrategyAssumption DEF ChannelTypeOK
  <2>3. LinkTypeOK' /\ ChannelTypeOK' /\ FieldsInv'
    BY <2>2 DEF LinkTypeOK, ChannelTypeOK, FieldsInv
  <2>4. LoopTypeOK' /\ LoopsInv'
    BY StrategyAssumption, DialsIsReader DEF LoopTypeOK, ReadPoints, LoopsInv
  <2>5. LocalsInv'
    BY DEF LoopTypeOK, LocalsInv
  <2> QED  BY <2>3, <2>4, <2>5
<1>6. CASE ReadError(r)
  <2> USE <1>6 DEF ReadError
  <2>0. PICK c \in Readers : /\ c = rconn[r]
                            /\ net' = [net EXCEPT ![c] = IF @ = "open" THEN "lost" ELSE @]
    BY DEF LocalsInv, ReadingFails
  <2>1. LinkTypeOK' /\ ChannelTypeOK' /\ FieldsInv'
    <3>1. net' \in [Readers -> Fates]
      BY <2>0 DEF LinkTypeOK, Fates
    <3>2. FieldsInv'
      BY <2>0 DEF LinkTypeOK, FieldsInv
    <3> QED  BY <3>1, <3>2 DEF LinkTypeOK, ChannelTypeOK
  <2>2. PICK p \in {"exit", "sendError"} : rpc' = [rpc EXCEPT ![r] = p]
    OBVIOUS
  <2>3. LoopTypeOK' /\ LoopsInv' /\ LocalsInv'
    BY <2>2, DialsIsReader DEF LoopTypeOK, ReadPoints, LoopsInv, LocalsInv
  <2> QED  BY <2>1, <2>3
<1>7. CASE SendError(r)
  <2> USE <1>7 DEF SendError
  <2>1. eventChan' \in Seq(EventKinds) /\ Len(eventChan') <= EventCap
    BY PostType DEF EventKinds
  <2>2. LinkTypeOK' /\ ChannelTypeOK' /\ FieldsInv'
    BY <2>1 DEF LinkTypeOK, ChannelTypeOK, FieldsInv
  <2>3. LoopTypeOK' /\ LoopsInv' /\ LocalsInv'
    BY DEF LoopTypeOK, ReadPoints, LoopsInv, LocalsInv
  <2> QED  BY <2>2, <2>3
<1>8. CASE ReadExit(r)
  <2> USE <1>8 DEF ReadExit
  <2>1. LinkTypeOK' /\ FieldsInv'
    <3>1. connected' \in BOOLEAN /\ mu' \in Threads \cup Readers \cup {Nobody}
      BY DEF LinkTypeOK
    <3>2. LinkTypeOK'
      BY <3>1 DEF LinkTypeOK
    <3>3. FieldsInv'
      BY DEF FieldsInv
    <3> QED  BY <3>2, <3>3
  <2>2. ChannelTypeOK'
    BY DEF ChannelTypeOK
  <2>3. LoopTypeOK' /\ LocalsInv'
    BY DEF LoopTypeOK, ReadPoints, LocalsInv
  <2>4. LoopsInv'
    BY StrategyAssumption DEF LoopTypeOK, LoopsInv
  <2> QED  BY <2>1, <2>2, <2>3, <2>4
<1>9. CASE ReportLoss(r)
  <2> USE <1>9 DEF ReportLoss, PostDown
  <2>1. eventChan' \in Seq(EventKinds) /\ Len(eventChan') <= EventCap
    BY PostType DEF EventKinds, DownEvents
  <2>2. LinkTypeOK' /\ ChannelTypeOK' /\ FieldsInv'
    BY <2>1 DEF LinkTypeOK, ChannelTypeOK, FieldsInv
  <2>3. LoopTypeOK' /\ LocalsInv'
    BY DEF LoopTypeOK, ReadPoints, LocalsInv
  <2>4. LoopsInv'
    BY StrategyAssumption DEF LoopTypeOK, LoopsInv
  <2> QED  BY <2>2, <2>3, <2>4
<1> QED
  BY <1>1, <1>2, <1>3, <1>4, <1>5, <1>6, <1>7, <1>8, <1>9 DEF ReadStep

(* The network, and the receiver of the channels.                          *)
LEMMA SurroundingsInv ==
    ASSUME StrategyInv,
           (\E c \in Readers : NetworkLoss(c)) \/ TakeEvent \/ TakeMessage
    PROVE  StrategyInv'
<1> USE DEF StrategyInv, StrategyTypeOK, link, events, messages
<1>1. ASSUME NEW c \in Readers, NetworkLoss(c)
      PROVE  StrategyInv'
  BY SMTT(30), <1>1 DEF NetworkLoss, Fates, LinkTypeOK, ChannelTypeOK, LoopTypeOK, FieldsInv, LoopsInv, LocalsInv
<1>2. CASE TakeEvent
  <2> USE <1>2 DEF TakeEvent
  <2>1. eventChan' \in Seq(EventKinds) /\ Len(eventChan') <= EventCap
    BY StrategyAssumption DEF ChannelTypeOK
  <2> QED
    BY <2>1 DEF LinkTypeOK, ChannelTypeOK, LoopTypeOK, FieldsInv, LoopsInv, LocalsInv
<1>3. CASE TakeMessage
  <2> USE <1>3 DEF TakeMessage
  <2>1. msgChan' \in Seq(Message) /\ Len(msgChan') <= MsgCap
    BY StrategyAssumption DEF ChannelTypeOK
  <2> QED
    BY <2>1 DEF LinkTypeOK, ChannelTypeOK, LoopTypeOK, FieldsInv, LoopsInv, LocalsInv
<1> QED  BY <1>1, <1>2, <1>3

LEMMA StutterInv == StrategyInv /\ UNCHANGED strategyVars => StrategyInv'
BY DEF StrategyInv, StrategyTypeOK, strategyVars, link, events, messages,
       LinkTypeOK, ChannelTypeOK, LoopTypeOK, FieldsInv, LoopsInv, LocalsInv

LEMMA NextInv == StrategyInv /\ [StrategyNext]_strategyVars => StrategyInv'
<1> SUFFICES ASSUME StrategyInv, [StrategyNext]_strategyVars PROVE StrategyInv'
  OBVIOUS
<1>1. CASE DialOK
  BY <1>1, DialInv
<1>2. CASE ConnectError \/ DisconnectNoop \/ UNCHANGED strategyVars
  BY <1>2, StutterInv DEF ConnectError, DisconnectNoop
<1>3. CASE \E t \in Threads : DisconnectDown(t) \/ DisconnectReport(t)
  BY <1>3, DisconnectDownInv, DisconnectReportInv
<1>4. CASE \E r \in Readers : ReadStep(r)
  BY <1>4, ReadStepInv
<1>5. CASE (\E c \in Readers : NetworkLoss(c)) \/ TakeEvent \/ TakeMessage
  BY <1>5, SurroundingsInv
<1> QED  BY <1>1, <1>2, <1>3, <1>4, <1>5 DEF StrategyNext

(* The inductive invariant holds in every reachable state.                 *)
THEOREM Invariance == StrategySpec => []StrategyInv
BY InitInv, NextInv, PTL DEF StrategySpec

-----------------------------------------------------------------------------
(* The results.                                                            *)

(* Type correctness: eventChan and msgChan never exceed their capacities.  *)
THEOREM TypeCorrect == StrategySpec => []StrategyTypeOK
<1>1. StrategyInv => StrategyTypeOK
  BY DEF StrategyInv
<1> QED  BY <1>1, Invariance, PTL

(* Disconnect never closes a close channel twice.                          *)
THEOREM ConnectedConsistent == StrategySpec => []ConnectedIsConsistent
<1>1. StrategyInv => ConnectedIsConsistent
  BY DEF StrategyInv, FieldsInv, ConnectedIsConsistent, Unclosed
<1> QED  BY <1>1, Invariance, PTL

(* Whatever calls, losses and frames interleave, a connected strategy has  *)
(* a read loop left that will notice the end of its connection.            *)
THEOREM LinkWatched == StrategySpec => []LinkIsWatched
<1>1. StrategyInv => LinkIsWatched
  BY DialsIsReader DEF StrategyInv, StrategyTypeOK, LinkTypeOK, LoopsInv, LinkIsWatched, Readers
<1> QED  BY <1>1, Invariance, PTL

(* WebSocketStrategy implements LinkContract: initial states map to        *)
(* initial states, steps to steps or to stuttering.                        *)
THEOREM KeepsContract == StrategySpec => ImplementsContract
<1>1. StrategyInit => Contract!Init
  BY DEF StrategyInit, Contract!Init
<1>2. StrategyInv /\ [StrategyNext]_strategyVars => [Contract!Next]_Contract!vars
  <2> SUFFICES ASSUME StrategyInv, [StrategyNext]_strategyVars
               PROVE  [Contract!Next]_Contract!vars
    OBVIOUS
  <2> USE DEF Contract!vars, link, events
  <2>1. ASSUME UNCHANGED <<connected, mu, dials, reports>>
        PROVE  UNCHANGED Contract!vars
    BY <2>1
  <2>2. CASE DialOK
    BY <2>2 DEF DialOK, Contract!Next, Contract!Raise
  <2>3. ASSUME NEW t \in Threads, DisconnectDown(t)
        PROVE  Contract!Drop
    BY <2>3, StrategyAssumption DEF DisconnectDown, Contract!Drop
  <2>4. ASSUME NEW t \in Threads, DisconnectReport(t)
        PROVE  Contract!Report
    BY <2>4, StrategyAssumption DEF DisconnectReport, PostDown, Contract!Report
  <2>5. ASSUME NEW r \in Readers, ReadStep(r)
        PROVE  [Contract!Next]_Contract!vars
    <3>1. CASE ReadExit(r)
      BY <3>1, <2>1, StrategyAssumption
      DEF ReadExit, Contract!Next, Contract!Drop
    <3>2. CASE ReportLoss(r)
      BY <3>2, StrategyAssumption
      DEF StrategyInv, LoopsInv, ReportLoss, PostDown, Contract!Next, Contract!Report
    <3>3. CASE ~ReadExit(r) /\ ~ReportLoss(r)
      BY <3>3, <2>1, <2>5
      DEF ReadStep, ReadTop, ReadEnvelope, ReadMessage, SendEvent, SendMessage, ReadError, SendError
    <3> QED  BY <3>1, <3>2, <3>3
  <2>6. CASE ConnectError \/ DisconnectNoop \/ TakeEvent \/ TakeMessage
             \/ (\E c \in Readers : NetworkLoss(c)) \/ UNCHANGED strategyVars
    BY <2>1, <2>6
    DEF ConnectError, DisconnectNoop, TakeEvent, TakeMessage, NetworkLoss, strategyVars
  <2> QED
    BY <2>2, <2>3, <2>4, <2>5, <2>6 DEF StrategyNext, Contract!Next
<1> QED
  BY <1>1, <1>2, Invariance, PTL DEF StrategySpec, ImplementsContract, Contract!Spec

(* So the manager hears of the end of every link exactly once: the links   *)
(* made are those reported, and the one that is up or owes its report.     *)
THEOREM EndsAreReported == StrategySpec => []Contract!EveryEndReportedOnce
<1>1. Contract!Spec => []Contract!EveryEndReportedOnce
  BY Contract!EndsAreReported
<1> QED  BY <1>1, KeepsContract, PTL DEF ImplementsContract

-----------------------------------------------------------------------------
(* As long as no Connect met the read loop of a link that Disconnect took  *)
(* down.  The strengthening says that the loops of earlier dials have      *)
(* finished, and that a loop finishes only when its own connection is lost *)
(* or was closed.                                                          *)

LoopsInOrder ==
    /\ \A r \in Readers : r < dials => rpc[r] = "done"
    /\ conn = IF dials \in closed THEN 0 ELSE dials
    /\ dials \in closed => ~connected
    /\ ~connected /\ mu = Nobody /\ dials > 0 /\ dials \notin closed => rpc[dials] = "done"
    /\ mu \in Readers => mu = dials /\ rpc[dials] = "report" /\ dials \notin closed
    /\ mu \in Threads => dials \in closed

LoopsOnOwnLink ==
    \A r \in Readers :
        /\ rpc[r] \in {"read", "sendMessage"} => rconn[r] = r
        /\ r \in closed => net[r] = "closed"
        /\ r \notin closed /\ rpc[r] \in {"sendError", "exit", "report", "done"} =>
               net[r] = "lost"
        /\ r > dials => net[r] = "none"

SoleInv == StrategyInv /\ LoopsInOrder /\ LoopsOnOwnLink

LEMMA SoleInit == StrategyInit => LoopsInOrder /\ LoopsOnOwnLink
BY StrategyAssumption DEF StrategyInit, LoopsInOrder, LoopsOnOwnLink, Readers

(* A read loop that can take a step is that of the last dial.              *)
LEMMA OnlyLastLoopRuns ==
    ASSUME SoleInv, NEW r \in Readers, rpc[r] \notin {"idle", "done"}
    PROVE  r = dials
BY DEF SoleInv, LoopsInOrder, StrategyInv, StrategyTypeOK, LinkTypeOK, LoopsInv, Readers

LEMMA SoleDial ==
    ASSUME SoleInv, DialOK, ~overtaken'
    PROVE  LoopsInOrder' /\ LoopsOnOwnLink'
<1> USE DEF SoleInv, StrategyInv, StrategyTypeOK
<1>1. /\ dials \in Nat /\ dials' = dials + 1 /\ dials' \in Readers
      /\ connected' = TRUE /\ mu' = Nobody /\ conn' = dials' /\ closed' = closed
      /\ net' = [net EXCEPT ![dials'] = "open"] /\ rpc' = [rpc EXCEPT ![dials'] = "top"]
      /\ rconn' = rconn
  BY StrategyAssumption DEF LinkTypeOK, Readers, DialOK
<1>2. \A r \in closed : rpc[r] = "done"
  BY DEF DialOK, StaleLoops
<1>3. \A r \in Readers : r < dials + 1 => rpc[r] = "done"
  BY <1>1, <1>2 DEF LoopsInOrder, Readers, DialOK
<1>4. dials' \notin closed
  BY <1>1 DEF FieldsInv
<1>5. LoopsInOrder'
  BY <1>1, <1>3, <1>4, StrategyAssumption DEF LoopsInOrder, LoopTypeOK, Readers
<1>6. LoopsOnOwnLink'
  BY <1>1, <1>3, <1>4 DEF LoopsOnOwnLink, LoopTypeOK, LinkTypeOK, Readers
<1> QED  BY <1>5, <1>6

LEMMA SoleDisconnect ==
    ASSUME SoleInv, NEW t \in Threads, DisconnectDown(t)
    PROVE  LoopsInOrder' /\ LoopsOnOwnLink'
<1> USE DEF SoleInv, StrategyInv, StrategyTypeOK
<1>1. dials \in Readers /\ t \notin Readers /\ t # Nobody
  BY DialsIsReader, StrategyAssumption DEF DisconnectDown
<1>2. /\ closed' = closed \cup {dials} /\ connected' = FALSE /\ conn' = 0 /\ mu' = t
      /\ net' = [net EXCEPT ![dials] = "closed"]
      /\ UNCHANGED <<dials, rpc, rconn>>
  BY <1>1 DEF DisconnectDown, FieldsInv, LinkTypeOK, Readers
<1>3. LoopsInOrder'
  BY <1>1, <1>2 DEF LoopsInOrder
<1>4. LoopsOnOwnLink'
  BY <1>1, <1>2 DEF LoopsOnOwnLink, LinkTypeOK, Readers
<1> QED  BY <1>3, <1>4

LEMMA SoleReadStep ==
    ASSUME SoleInv, NEW r \in Readers, ReadStep(r)
    PROVE  LoopsInOrder' /\ LoopsOnOwnLink'
<1> USE DEF SoleInv, StrategyInv, StrategyTypeOK, link
<1>0. /\ r = dials /\ r # 0 /\ closeChan = r
      /\ conn = IF r \in closed THEN 0 ELSE r
  <2>1. rpc[r] \notin {"idle", "done"}
    BY DEF ReadStep, ReadTop, ReadEnvelope, ReadMessage, SendEvent, SendMessage,
           ReadError, SendError, ReadExit, ReportLoss
  <2>2. r = dials /\ r # 0
    BY <2>1, OnlyLastLoopRuns DEF Readers
  <2>3. closeChan = dials
    BY DEF FieldsInv
  <2>4. conn = IF dials \in closed THEN 0 ELSE dials
    BY DEF LoopsInOrder
  <2> QED  BY <2>2, <2>3, <2>4
<1>1. CASE ReadTop(r)
  <2>1. UNCHANGED <<connected, conn, closed, dials, mu, net>> /\ rpc[r] = "top"
    BY <1>1 DEF ReadTop
  <2>2. CASE r \in closed
    <3>1. rpc' = [rpc EXCEPT ![r] = "exit"] /\ UNCHANGED rconn
      BY <1>0, <1>1, <2>2 DEF ReadTop
    <3> QED
      BY <1>0, <2>1, <2>2, <3>1 DEF LoopsInOrder, LoopsOnOwnLink, LoopTypeOK
  <2>3. CASE r \notin closed
    <3>1. rpc' = [rpc EXCEPT ![r] = "read"] /\ rconn' = [rconn EXCEPT ![r] = r]
      BY <1>0, <1>1, <2>3 DEF ReadTop
    <3> QED
      BY <1>0, <2>1, <2>3, <3>1 DEF LoopsInOrder, LoopsOnOwnLink, LoopTypeOK
  <2> QED  BY <2>2, <2>3
<1>2. ASSUME NEW kind \in Envelopes, ReadEnvelope(r, kind)
      PROVE  LoopsInOrder' /\ LoopsOnOwnLink'
  BY <1>0, <1>2 DEF ReadEnvelope, LoopsInOrder, LoopsOnOwnLink, LoopTypeOK
<1>3. CASE ReadMessage(r)
  BY <1>0, <1>3 DEF ReadMessage, LoopsInOrder, LoopsOnOwnLink, LoopTypeOK
<1>4. CASE SendEvent(r)
  BY <1>0, <1>4 DEF SendEvent, LoopsInOrder, LoopsOnOwnLink, LoopTypeOK
<1>5. CASE SendMessage(r)
  BY <1>0, <1>5 DEF SendMessage, LoopsInOrder, LoopsOnOwnLink, LoopTypeOK
<1>6. CASE ReadError(r)
  <2>1. /\ rpc[r] = "read" /\ rconn[r] = r
        /\ net' = [net EXCEPT ![r] = IF @ = "open" THEN "lost" ELSE @]
        /\ UNCHANGED <<connected, conn, closed, dials, mu, rconn>>
    BY <1>6 DEF ReadError, ReadingFails, LoopsOnOwnLink
  <2>2. PICK p \in {"exit", "sendError"} : rpc' = [rpc EXCEPT ![r] = p]
    BY <1>6 DEF ReadError
  <2>3. r \notin closed => net'[r] = "lost"
    <3> SUFFICES ASSUME r \notin closed PROVE net'[r] = "lost"
      OBVIOUS
    <3>1. mu \in Threads \cup Readers \cup {Nobody}
      BY DEF LinkTypeOK
    <3>2. connected
      BY <1>0, <2>1, <3>1 DEF LoopsInOrder, Readers
    <3>3. net[r] \in {"open", "lost"}
      BY <1>0, <3>2 DEF FieldsInv
    <3> QED  BY <2>1, <3>3 DEF LinkTypeOK
  <2>4. LoopsInOrder'
    BY <1>0, <2>1, <2>2 DEF LoopsInOrder, LoopTypeOK
  <2>5. LoopsOnOwnLink'
    BY <1>0, <2>1, <2>2, <2>3 DEF LoopsOnOwnLink, LoopTypeOK, LinkTypeOK
  <2> QED  BY <2>4, <2>5
<1>7. CASE SendError(r)
  BY <1>0, <1>7 DEF SendError, LoopsInOrder, LoopsOnOwnLink, LoopTypeOK
<1>8. CASE ReadExit(r)
  <2>1. mu = Nobody /\ rpc[r] = "exit" /\ UNCHANGED <<conn, closed, dials, net, rconn>>
    BY <1>8 DEF ReadExit
  <2>2. CASE connected
    <3>1. ~connected' /\ mu' = r /\ rpc' = [rpc EXCEPT ![r] = "report"]
      BY <1>8, <2>2 DEF ReadExit
    <3>2. r # Nobody /\ r \notin Threads /\ r \notin closed
      BY <1>0, <2>2, StrategyAssumption DEF LoopsInOrder
    <3>3. LoopsInOrder'
      BY <1>0, <2>1, <3>1, <3>2 DEF LoopsInOrder, LoopTypeOK, Readers
    <3>4. LoopsOnOwnLink'
      BY <1>0, <2>1, <3>1 DEF LoopsOnOwnLink, LoopTypeOK
    <3> QED  BY <3>3, <3>4
  <2>3. CASE ~connected
    <3>1. UNCHANGED <<connected, mu>> /\ rpc' = [rpc EXCEPT ![r] = "done"]
      BY <1>8, <2>3 DEF ReadExit
    <3>2. LoopsInOrder'
      BY <1>0, <2>1, <2>3, <3>1, StrategyAssumption DEF LoopsInOrder, LoopTypeOK, Readers
    <3>3. LoopsOnOwnLink'
      BY <1>0, <2>1, <3>1 DEF LoopsOnOwnLink, LoopTypeOK
    <3> QED  BY <3>2, <3>3
  <2> QED  BY <2>2, <2>3
<1>9. CASE ReportLoss(r)
  BY <1>0, <1>9, StrategyAssumption DEF ReportLoss, PostDown, LoopsInOrder, LoopsOnOwnLink,
     LoopTypeOK
<1> QED
  BY <1>1, <1>2, <1>3, <1>4, <1>5, <1>6, <1>7, <1>8, <1>9 DEF ReadStep

LEMMA SoleNext ==
    ASSUME SoleInv, [StrategyNext]_strategyVars, ~overtaken'
    PROVE  SoleInv'
<1> SUFFICES LoopsInOrder' /\ LoopsOnOwnLink'
  BY NextInv DEF SoleInv
<1>1. CASE DialOK
  BY <1>1, SoleDial
<1>2. CASE \E r \in Readers : ReadStep(r)
  BY <1>2, SoleReadStep
<1>3. ASSUME NEW c \in Readers, NetworkLoss(c)
      PROVE  LoopsInOrder' /\ LoopsOnOwnLink'
  BY <1>3 DEF NetworkLoss, SoleInv, StrategyInv, StrategyTypeOK, LinkTypeOK,
              LoopsInOrder, LoopsOnOwnLink, link
<1>4. ASSUME NEW t \in Threads, DisconnectDown(t)
      PROVE  LoopsInOrder' /\ LoopsOnOwnLink'
  BY <1>4, SoleDisconnect
<1>5. ASSUME NEW t \in Threads, DisconnectReport(t)
      PROVE  LoopsInOrder' /\ LoopsOnOwnLink'
  BY <1>5, StrategyAssumption DEF DisconnectReport, PostDown, link, SoleInv,
     LoopsInOrder, LoopsOnOwnLink
<1>6. CASE ConnectError \/ DisconnectNoop \/ TakeEvent \/ TakeMessage \/ UNCHANGED strategyVars
  BY <1>6 DEF ConnectError, DisconnectNoop, TakeEvent, TakeMessage, strategyVars, link,
              SoleInv, LoopsInOrder, LoopsOnOwnLink
<1> QED  BY <1>1, <1>2, <1>3, <1>4, <1>5, <1>6 DEF StrategyNext

(* What is overtaken stays so.                                             *)
LEMMA OvertakenStays == [StrategyNext]_strategyVars => (overtaken => overtaken')
<1> SUFFICES ASSUME [StrategyNext]_strategyVars PROVE (overtaken => overtaken')
  OBVIOUS
<1>1. ASSUME NEW r \in Readers, ReadStep(r) PROVE (overtaken => overtaken')
  BY <1>1 DEF ReadStep, ReadTop, ReadEnvelope, ReadMessage, SendEvent, SendMessage,
              ReadError, SendError, ReadExit, ReportLoss, link
<1>2. ASSUME NEW t \in Threads, DisconnectDown(t) \/ DisconnectReport(t)
      PROVE  (overtaken => overtaken')
  BY <1>2 DEF DisconnectDown, DisconnectReport, link
<1>3. ASSUME NEW c \in Readers, NetworkLoss(c) PROVE (overtaken => overtaken')
  BY <1>3 DEF NetworkLoss, link
<1>4. CASE DialOK \/ ConnectError \/ DisconnectNoop \/ TakeEvent \/ TakeMessage
           \/ UNCHANGED strategyVars
  BY <1>4 DEF DialOK, ConnectError, DisconnectNoop, TakeEvent, TakeMessage,
              strategyVars, link
<1> QED  BY <1>1, <1>2, <1>3, <1>4 DEF StrategyNext

UnlessOvertaken == StrategyInv /\ (~overtaken => SoleInv)

LEMMA SoleInvariance == StrategySpec => []UnlessOvertaken
<1>1. StrategyInit => UnlessOvertaken
  BY InitInv, SoleInit DEF UnlessOvertaken, SoleInv
<1>2. UnlessOvertaken /\ [StrategyNext]_strategyVars => UnlessOvertaken'
  BY NextInv, SoleNext, OvertakenStays DEF UnlessOvertaken
<1> QED  BY <1>1, <1>2, PTL DEF StrategySpec

(* As long as no link was overtaken, a socket that nobody has closed is    *)
(* the one the strategy holds, or it can no longer be read and its loop    *)
(* has reported the loss or is about to: nothing else is left behind.      *)
THEOREM NoOrphanSocket == StrategySpec => []OpenSocketIsOwned
<1>1. ASSUME SoleInv, NEW c \in Readers, Unclosed(c)
      PROVE  \/ connected /\ conn = c
             \/ net[c] = "lost" /\ rpc[c] \in {"report", "done"}
  <2> USE <1>1 DEF SoleInv, StrategyInv, StrategyTypeOK, LinkTypeOK, LoopsOnOwnLink
  <2>1. c \notin closed /\ c <= dials
    BY DEF Unclosed, Readers
  <2>2. CASE c < dials
    BY <1>1, <2>1, <2>2 DEF LoopsInOrder
  <2>3. CASE c = dials
    <3>1. connected => conn = c
      BY <2>3 DEF FieldsInv
    <3>2. ~connected => rpc[c] \in {"report", "done"}
      BY <2>1, <2>3, StrategyAssumption DEF LoopsInOrder, Readers
    <3> QED  BY <2>1, <3>1, <3>2
  <2> QED  BY <2>1, <2>2, <2>3 DEF Readers
<1>2. UnlessOvertaken => OpenSocketIsOwned
  BY <1>1 DEF UnlessOvertaken, OpenSocketIsOwned
<1> QED  BY <1>2, SoleInvariance, PTL

(* As long as no link was overtaken, a connection is read by the loop its  *)
(* dial started.                                                           *)
THEOREM SoleReader == StrategySpec => []OneReaderPerLink
<1>1. UnlessOvertaken => OneReaderPerLink
  BY DEF UnlessOvertaken, SoleInv, LoopsOnOwnLink, OneReaderPerLink
<1> QED  BY <1>1, SoleInvariance, PTL

-----------------------------------------------------------------------------
(* The order of messages, as long as no link was overtaken.                *)

(* A message in the hands of a read loop is the last one read off its      *)
(* connection, and newer than those of that connection in msgChan.         *)
MessageInHand ==
    \A r \in Readers : rmsg[r] # 0 =>
        /\ rpc[r] = "sendMessage"
        /\ rmsg[r] = inbox[r]
        /\ \A i \in DOMAIN msgChan : msgChan[i].conn = r => msgChan[i].seq < rmsg[r]

QueuedWereRead ==
    \A i \in DOMAIN msgChan :
        /\ msgChan[i].conn <= dials
        /\ msgChan[i].seq <= inbox[msgChan[i].conn]

QueueOrdered ==
    \A i, j \in DOMAIN msgChan : i < j => ReadBefore(msgChan[i], msgChan[j])

OrderInv == MessageInHand /\ QueuedWereRead /\ QueueOrdered

LEMMA OrderUndisturbed ==
    ASSUME OrderInv, UNCHANGED <<inbox, rmsg, msgChan, dials>>,
           \A r \in Readers : rpc[r] = "sendMessage" => rpc'[r] = "sendMessage"
    PROVE  OrderInv'
BY DEF OrderInv, MessageInHand, QueuedWereRead, QueueOrdered, ReadBefore

(* What the type invariant says of the messages waiting in msgChan.        *)
LEMMA WaitingMessages ==
    ASSUME StrategyTypeOK, NEW i \in DOMAIN msgChan
    PROVE  /\ msgChan[i].conn \in Readers /\ msgChan[i].conn \in Nat
           /\ msgChan[i].seq \in Nat
<1>1. msgChan[i] \in Message
  BY DEF StrategyTypeOK, ChannelTypeOK
<1> QED  BY <1>1, StrategyAssumption DEF Message, Readers

LEMMA OrderRead ==
    ASSUME SoleInv, OrderInv, NEW r \in Readers, ReadMessage(r)
    PROVE  OrderInv'
<1>0. StrategyTypeOK
  BY DEF SoleInv, StrategyInv
<1>1. r = dials /\ rconn[r] = r
  BY OnlyLastLoopRuns DEF ReadMessage, SoleInv, LoopsOnOwnLink
<1>2. /\ inbox' = [inbox EXCEPT ![r] = inbox[r] + 1]
      /\ rmsg' = [rmsg EXCEPT ![r] = inbox[r] + 1]
      /\ rpc' = [rpc EXCEPT ![r] = "sendMessage"]
      /\ UNCHANGED <<msgChan, dials>>
  BY <1>1 DEF ReadMessage, link
<1>3. /\ inbox \in [Readers -> Nat] /\ rmsg \in [Readers -> Nat]
      /\ DOMAIN rpc = Readers /\ dials \in Nat
  BY <1>0, StrategyAssumption DEF StrategyTypeOK, LinkTypeOK, ChannelTypeOK, LoopTypeOK
<1>4. \A i \in DOMAIN msgChan : /\ msgChan[i].conn \in Readers
                                /\ msgChan[i].seq \in Nat
                                /\ msgChan[i].conn <= dials
                                /\ msgChan[i].seq <= inbox[msgChan[i].conn]
  BY <1>0, WaitingMessages DEF OrderInv, QueuedWereRead
<1>5. QueuedWereRead'
  BY <1>2, <1>3, <1>4 DEF QueuedWereRead
<1>6. MessageInHand'
  <2> SUFFICES ASSUME NEW s \in Readers, rmsg'[s] # 0
               PROVE  /\ rpc'[s] = "sendMessage"
                      /\ rmsg'[s] = inbox'[s]
                      /\ \A i \in DOMAIN msgChan : msgChan[i].conn = s =>
                                                     msgChan[i].seq < rmsg'[s]
    BY <1>2 DEF MessageInHand
  <2>1. CASE s = r
    BY <1>2, <1>3, <1>4, <2>1
  <2>2. CASE s # r
    BY <1>2, <1>3, <2>2 DEF OrderInv, MessageInHand
  <2> QED  BY <2>1, <2>2
<1>7. QueueOrdered'
  BY <1>2 DEF OrderInv, QueueOrdered, ReadBefore
<1> QED  BY <1>5, <1>6, <1>7 DEF OrderInv

LEMMA OrderSend ==
    ASSUME SoleInv, OrderInv, NEW r \in Readers, SendMessage(r)
    PROVE  OrderInv'
<1> DEFINE m == [conn |-> r, seq |-> rmsg[r]]
<1>0. StrategyTypeOK /\ LocalsInv
  BY DEF SoleInv, StrategyInv
<1>1. r = dials /\ rconn[r] = r /\ dials \in Nat
  BY <1>0, OnlyLastLoopRuns DEF SendMessage, SoleInv, LoopsOnOwnLink, StrategyTypeOK, LinkTypeOK
<1>2. /\ msgChan' = Append(msgChan, m)
      /\ rmsg' = [rmsg EXCEPT ![r] = 0]
      /\ rpc' = [rpc EXCEPT ![r] = "top"]
      /\ UNCHANGED <<inbox, dials>>
  BY <1>1 DEF SendMessage, link
<1>3. /\ msgChan \in Seq(Message) /\ DOMAIN rmsg = Readers
      /\ inbox \in [Readers -> Nat]
  BY <1>0, StrategyAssumption DEF StrategyTypeOK, ChannelTypeOK, LoopTypeOK
<1>4. rmsg[r] # 0 /\ rmsg[r] = inbox[r] /\ rmsg[r] \in Nat
  BY <1>0, <1>3, StrategyAssumption DEF SendMessage, LocalsInv, OrderInv, MessageInHand
<1>5. \A i \in DOMAIN msgChan : ReadBefore(msgChan[i], m)
  <2> SUFFICES ASSUME NEW i \in DOMAIN msgChan PROVE ReadBefore(msgChan[i], m)
    OBVIOUS
  <2>1. msgChan[i].conn \in Nat /\ msgChan[i].conn <= r
    BY <1>0, <1>1, WaitingMessages DEF OrderInv, QueuedWereRead
  <2>2. msgChan[i].conn = r => msgChan[i].seq < rmsg[r]
    BY <1>4 DEF OrderInv, MessageInHand
  <2> QED  BY <1>1, <2>1, <2>2 DEF ReadBefore
<1>6. /\ Len(msgChan) \in Nat
      /\ DOMAIN msgChan' = 1..(Len(msgChan) + 1)
      /\ DOMAIN msgChan = 1..Len(msgChan)
      /\ \A i \in DOMAIN msgChan : msgChan'[i] = msgChan[i]
      /\ msgChan'[Len(msgChan) + 1] = m
  BY <1>2, <1>3
<1>7. QueueOrdered'
  <2> SUFFICES ASSUME NEW i \in DOMAIN msgChan', NEW j \in DOMAIN msgChan', i < j
               PROVE  ReadBefore(msgChan'[i], msgChan'[j])
    BY DEF QueueOrdered, ReadBefore
  <2>1. i \in DOMAIN msgChan
    BY <1>6
  <2>2. j \in DOMAIN msgChan \/ j = Len(msgChan) + 1
    BY <1>6
  <2> QED  BY <1>5, <1>6, <2>1, <2>2 DEF OrderInv, QueueOrdered
<1>8. QueuedWereRead'
  <2> SUFFICES ASSUME NEW i \in DOMAIN msgChan'
               PROVE  /\ msgChan'[i].conn <= dials
                      /\ msgChan'[i].seq <= inbox[msgChan'[i].conn]
    BY <1>2 DEF QueuedWereRead
  <2>1. CASE i \in DOMAIN msgChan
    BY <1>6, <2>1 DEF OrderInv, QueuedWereRead
  <2>2. CASE i = Len(msgChan) + 1
    <3>1. msgChan'[i].conn = r /\ msgChan'[i].seq = inbox[r]
      BY <1>4, <1>6, <2>2
    <3> QED  BY <1>1, <1>3, <3>1
  <2> QED  BY <1>6, <2>1, <2>2
<1>9. MessageInHand'
  <2> SUFFICES ASSUME NEW s \in Readers, rmsg'[s] # 0 PROVE FALSE
    BY DEF MessageInHand
  <2>1. s # r /\ rmsg[s] # 0
    BY <1>2, <1>3
  <2>2. rpc[s] = "sendMessage"
    BY <2>1 DEF OrderInv, MessageInHand
  <2> QED  BY <1>1, <2>1, <2>2, OnlyLastLoopRuns
<1> QED  BY <1>7, <1>8, <1>9 DEF OrderInv

LEMMA OrderTake ==
    ASSUME SoleInv, OrderInv, TakeMessage
    PROVE  OrderInv'
<1> USE DEF SoleInv, StrategyInv, StrategyTypeOK, ChannelTypeOK, link, events
<1>1. /\ msgChan' = Tail(msgChan)
      /\ UNCHANGED <<inbox, rmsg, rpc, dials>>
  BY DEF TakeMessage
<1>2. /\ \A i \in DOMAIN msgChan' : i \in Nat /\ i + 1 \in DOMAIN msgChan
                                  /\ msgChan'[i] = msgChan[i + 1]
  BY <1>1 DEF TakeMessage
<1>3. QueueOrdered'
  BY <1>2 DEF OrderInv, QueueOrdered
<1>4. QueuedWereRead'
  BY <1>1, <1>2 DEF OrderInv, QueuedWereRead
<1>5. MessageInHand'
  BY <1>1, <1>2 DEF OrderInv, MessageInHand
<1> QED  BY <1>3, <1>4, <1>5 DEF OrderInv

LEMMA OrderNext ==
    ASSUME SoleInv, OrderInv, [StrategyNext]_strategyVars, ~overtaken'
    PROVE  OrderInv'
<1> USE DEF link, messages, events
<1>1. CASE DialOK
  <2>1. /\ dials' = dials + 1 /\ dials \in Nat
        /\ rpc' = [rpc EXCEPT ![dials + 1] = "top"]
        /\ dials + 1 \in Readers
        /\ UNCHANGED <<inbox, rmsg, msgChan>>
    BY <1>1, StrategyAssumption DEF DialOK, SoleInv, StrategyInv, StrategyTypeOK, LinkTypeOK,
       Readers
  <2>2. rpc[dials + 1] # "sendMessage"
    BY <2>1, OnlyLastLoopRuns
  <2>3. MessageInHand'
    BY <2>1, <2>2 DEF OrderInv, MessageInHand, SoleInv, StrategyInv, StrategyTypeOK, LoopTypeOK
  <2>4. \A i \in DOMAIN msgChan : msgChan[i].conn \in Nat
    BY WaitingMessages DEF SoleInv, StrategyInv
  <2>5. QueuedWereRead'
    BY <2>1, <2>4 DEF OrderInv, QueuedWereRead
  <2>6. QueueOrdered'
    BY <2>1 DEF OrderInv, QueueOrdered, ReadBefore
  <2> QED  BY <2>3, <2>5, <2>6 DEF OrderInv
<1>2. ASSUME NEW r \in Readers, ReadStep(r) PROVE OrderInv'
  <2>1. CASE ReadMessage(r)
    BY <2>1, OrderRead
  <2>2. CASE SendMessage(r)
    BY <2>2, OrderSend
  <2>3. CASE ~ReadMessage(r) /\ ~SendMessage(r)
    <3>1. /\ UNCHANGED <<inbox, rmsg, msgChan, dials>>
          /\ rpc[r] # "sendMessage"
          /\ \E p \in ReadPoints : rpc' = [rpc EXCEPT ![r] = p]
      BY <1>2, <2>3 DEF ReadStep, ReadTop, ReadEnvelope, SendEvent, ReadError, SendError,
                        ReadExit, ReportLoss, ReadPoints
    <3> QED
      BY <3>1, OrderUndisturbed DEF SoleInv, StrategyInv, StrategyTypeOK, LoopTypeOK
  <2> QED  BY <2>1, <2>2, <2>3
<1>3. ASSUME NEW c \in Readers, NetworkLoss(c) PROVE OrderInv'
  BY <1>3, OrderUndisturbed DEF NetworkLoss
<1>4. CASE TakeMessage
  BY <1>4, OrderTake
<1>5. ASSUME NEW t \in Threads, DisconnectDown(t) \/ DisconnectReport(t) PROVE OrderInv'
  BY <1>5, OrderUndisturbed DEF DisconnectDown, DisconnectReport
<1>6. CASE ConnectError \/ DisconnectNoop \/ TakeEvent \/ UNCHANGED strategyVars
  BY <1>6, OrderUndisturbed DEF ConnectError, DisconnectNoop, TakeEvent, strategyVars
<1> QED  BY <1>1, <1>2, <1>3, <1>4, <1>5, <1>6 DEF StrategyNext

(* As long as no link was overtaken, messages stand in msgChan in the      *)
(* order in which they were read, each once, whatever connections were     *)
(* lost or taken down on the way.                                          *)
THEOREM InOrder == StrategySpec => []MessagesInOrder
<1> DEFINE Inv == ~overtaken => OrderInv
<1>1. StrategyInit => Inv
  BY DEF StrategyInit, OrderInv, MessageInHand, QueuedWereRead, QueueOrdered
<1>2. UnlessOvertaken /\ Inv /\ [StrategyNext]_strategyVars => Inv'
  BY OrderNext, OvertakenStays DEF UnlessOvertaken
<1>3. UnlessOvertaken /\ Inv => MessagesInOrder
  <2> SUFFICES ASSUME SoleInv, OrderInv PROVE MessagesInOrder
    BY DEF UnlessOvertaken, MessagesInOrder
  <2>1. ASSUME NEW r \in Readers, rmsg[r] # 0, NEW i \in DOMAIN msgChan
        PROVE  ReadBefore(msgChan[i], [conn |-> rconn[r], seq |-> rmsg[r]])
    <3>1. r = dials /\ rconn[r] = r
      BY <2>1, OnlyLastLoopRuns DEF OrderInv, MessageInHand, SoleInv, LoopsOnOwnLink
    <3>2. msgChan[i].conn \in Nat /\ msgChan[i].conn <= r /\ r \in Nat
      BY <3>1, WaitingMessages DEF OrderInv, QueuedWereRead, SoleInv, StrategyInv, Readers
    <3>3. msgChan[i].conn = r => msgChan[i].seq < rmsg[r]
      BY <2>1 DEF OrderInv, MessageInHand
    <3> QED  BY <3>1, <3>2, <3>3 DEF ReadBefore
  <2> QED  BY <2>1 DEF MessagesInOrder, OrderInv, QueueOrdered
<1> QED  BY <1>1, <1>2, <1>3, SoleInvariance, PTL DEF StrategySpec
=============================================================================
