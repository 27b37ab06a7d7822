----------------------- MODULE ConnectionManagerProofs -----------------------
(***************************************************************************)
(* Proofs about ConnectionManager, for every number of callers, calls,     *)
(* dials, reconnection attempts and every capacity of the channels:        *)
(*                                                                         *)
(*   DrivesStrategy      the manager is a client of the strategy: what is  *)
(*                       proved in WebSocketStrategyProofs holds under it  *)
(*   ManagerTypeCorrect  Spec => []ManagerTypeOK                           *)
(*   PendingOwned        Spec => []PendingStateHasOwner                    *)
(*   LiveLinkServed      Spec => []LiveLinkIsServed                        *)
(*   OneOutage           Spec => []OneOutageAtATime                        *)
(*   LiveLinkVisible     Spec => []LiveLinkIsVisible                       *)
(*   ClosedReleased      Spec => []ClosedIsReleased                        *)
(***************************************************************************)
EXTENDS ConnectionManager, WebSocketStrategyProofs

(* Every step of the manager is a step of the strategy or leaves it alone. *)
LEMMA StepOfStrategy == [Next]_vars => [StrategyNext]_strategyVars
<1> SUFFICES ASSUME [Next]_vars PROVE [StrategyNext]_strategyVars
  OBVIOUS
<1>1. ASSUME NEW t \in Threads, ConnectBegin(t) \/ DisconnectBegin(t) \/ CloseBegin(t) \/ Call(t)
      PROVE  [StrategyNext]_strategyVars
  BY <1>1 DEF ConnectBegin, DisconnectBegin, CloseBegin, Call, ConnectDial, ConnectFailed,
              ConnectUp, ConnectSpawn, DisconnectStrategy, DisconnectFinish, CloseStrategy,
              CloseReport, CloseFinish, CloseExpired, StrategyNext
<1>2. CASE ForwardMessages \/ ForwardEvents
  BY <1>2 DEF ForwardMessages, ForwardEvents, ForwardMessage, ForwardMessagesStop, ForwardEvent,
              ForwardEventsStop, HandleConnectionLost, StrategyNext
<1>3. CASE Reconnect
  BY <1>3 DEF Reconnect, ReconnectCheck, ReconnectWait, ReconnectDial, ReconnectUp, StrategyNext
<1>4. CASE \E r \in Readers : (ReadStep(r) \/ NetworkLoss(r)) /\ UNCHANGED managerVars
  BY <1>4 DEF StrategyNext
<1>5. CASE UNCHANGED vars
  BY <1>5 DEF vars
<1> QED  BY <1>1, <1>2, <1>3, <1>4, <1>5 DEF Next

(* The manager drives the strategy as its specification allows, so that    *)
(* the strategy keeps its contract and its invariants under it.            *)
THEOREM DrivesStrategy == Spec => StrategySpec
<1>1. ManagerInit => StrategyInit
  BY DEF ManagerInit
<1> QED  BY <1>1, StepOfStrategy, PTL DEF Spec, StrategySpec

-----------------------------------------------------------------------------
(* The manager's own variables, by group, so that a step is checked on the *)
(* groups it touches.                                                      *)

LifecycleTypeOK ==
    /\ state \in States
    /\ reconnectCount \in 0..MaxReconnects
    /\ closing \in BOOLEAN
    /\ done \in BOOLEAN

CallTypeOK ==
    /\ cpc \in [Threads -> CallPoints]
    /\ budget \in [Operations -> Nat]

GoroutineTypeOK ==
    /\ fwd \in [ForwardPoints -> Nat]
    /\ mfwd \in Nat
    /\ redial \in [RedialPoints -> Nat]

LEMMA TypeGroups ==
    ManagerTypeOK <=> StrategyTypeOK /\ LifecycleTypeOK /\ CallTypeOK /\ GoroutineTypeOK
BY DEF ManagerTypeOK, LifecycleTypeOK, CallTypeOK, GoroutineTypeOK

LEMMA MoveType ==
    /\ \A f \in [ForwardPoints -> Nat] :
         /\ Enter(f, "select") \in [ForwardPoints -> Nat]
         /\ f["select"] > 0 => Leave(f, "select") \in [ForwardPoints -> Nat]
         /\ f["select"] > 0 => Move(f, "select", "lost") \in [ForwardPoints -> Nat]
         /\ f["lost"] > 0 => Move(f, "lost", "select") \in [ForwardPoints -> Nat]
    /\ \A f \in [RedialPoints -> Nat] :
         /\ Enter(f, "check") \in [RedialPoints -> Nat]
         /\ \A p \in RedialPoints : f[p] > 0 => Leave(f, p) \in [RedialPoints -> Nat]
         /\ \A p, q \in RedialPoints : f[p] > 0 => Move(f, p, q) \in [RedialPoints -> Nat]
BY DEF Enter, Leave, Move, ForwardPoints, RedialPoints

TypeGroupsOK == LifecycleTypeOK /\ CallTypeOK /\ GoroutineTypeOK

LEMMA ManagerTypeInit == ManagerInit => TypeGroupsOK
<1> SUFFICES ASSUME ManagerInit PROVE TypeGroupsOK
  OBVIOUS
<1> USE ManagerAssumption DEF ManagerInit
<1>1. LifecycleTypeOK
  <2>1. closing \in BOOLEAN /\ done \in BOOLEAN
    OBVIOUS
  <2>2. state \in States /\ reconnectCount \in 0..MaxReconnects
    BY DEF States
  <2> QED  BY <2>1, <2>2 DEF LifecycleTypeOK
<1>2. CallTypeOK /\ GoroutineTypeOK
  BY DEF CallTypeOK, GoroutineTypeOK, CallPoints
<1> QED  BY <1>1, <1>2 DEF TypeGroupsOK

LEMMA BeginType ==
    ASSUME TypeGroupsOK, NEW t \in Threads,
           ConnectBegin(t) \/ DisconnectBegin(t) \/ CloseBegin(t)
    PROVE  TypeGroupsOK'
<1> USE DEF TypeGroupsOK, goroutines
<1>1. \E op \in Operations, p \in CallPoints : Begin(t, op, p)
  BY DEF ConnectBegin, DisconnectBegin, CloseBegin, Operations, CallPoints
<1>2. CallTypeOK'
  BY <1>1 DEF CallTypeOK, Begin, Step, Leave
<1>3. LifecycleTypeOK' /\ GoroutineTypeOK'
  BY DEF ConnectBegin, DisconnectBegin, CloseBegin, LifecycleTypeOK, GoroutineTypeOK, States
<1> QED  BY <1>2, <1>3

LEMMA CallType ==
    ASSUME TypeGroupsOK, NEW t \in Threads, Call(t)
    PROVE  TypeGroupsOK'
<1> USE DEF TypeGroupsOK, goroutines
<1>1. /\ UNCHANGED budget
      /\ \E p, q \in CallPoints : Step(t, p, q)
  BY DEF Call, ConnectDial, ConnectFailed, ConnectUp, ConnectSpawn, DisconnectStrategy,
         DisconnectFinish, CloseStrategy, CloseReport, CloseFinish, CloseExpired, CallPoints
<1>2. CallTypeOK'
  BY <1>1 DEF CallTypeOK, Step
<1>3. LifecycleTypeOK'
  <2>1. CASE ConnectFailed(t) \/ ConnectUp(t)
    BY <2>1, ManagerAssumption DEF ConnectFailed, ConnectUp, LifecycleTypeOK, States
  <2>2. CASE CloseFinish(t)
    BY <2>2 DEF CloseFinish, LifecycleTypeOK
  <2>3. CASE UNCHANGED <<state, reconnectCount, closing, done>>
    BY <2>3 DEF LifecycleTypeOK
  <2> QED
    BY <2>1, <2>2, <2>3
    DEF Call, ConnectDial, ConnectSpawn, DisconnectStrategy, DisconnectFinish, CloseStrategy,
        CloseReport, CloseExpired
<1>4. GoroutineTypeOK'
  BY MoveType
  DEF Call, ConnectDial, ConnectFailed, ConnectUp, ConnectSpawn, DisconnectStrategy,
      DisconnectFinish, CloseStrategy, CloseReport, CloseFinish, CloseExpired, GoroutineTypeOK
<1> QED  BY <1>2, <1>3, <1>4

LEMMA ForwardType ==
    ASSUME TypeGroupsOK, ForwardMessages \/ ForwardEvents
    PROVE  TypeGroupsOK'
<1> USE DEF TypeGroupsOK, goroutines, managerVars
<1>1. CallTypeOK'
  BY DEF ForwardMessages, ForwardEvents, ForwardMessage, ForwardMessagesStop, ForwardEvent,
         ForwardEventsStop, HandleConnectionLost, CallTypeOK
<1>2. LifecycleTypeOK'
  BY DEF ForwardMessages, ForwardEvents, ForwardMessage, ForwardMessagesStop, ForwardEvent,
         ForwardEventsStop, HandleConnectionLost, LifecycleTypeOK, States
<1>3. GoroutineTypeOK'
  BY MoveType
  DEF ForwardMessages, ForwardEvents, ForwardMessage, ForwardMessagesStop, ForwardEvent,
      ForwardEventsStop, HandleConnectionLost, GoroutineTypeOK
<1> QED  BY <1>1, <1>2, <1>3

LEMMA ReconnectType ==
    ASSUME TypeGroupsOK, Reconnect
    PROVE  TypeGroupsOK'
<1> USE DEF TypeGroupsOK
<1>1. CallTypeOK'
  BY DEF Reconnect, ReconnectCheck, ReconnectWait, ReconnectDial, ReconnectUp, CallTypeOK
<1>2. LifecycleTypeOK'
  BY ManagerAssumption
  DEF Reconnect, ReconnectCheck, ReconnectWait, ReconnectDial, ReconnectUp, LifecycleTypeOK, States
<1>3. GoroutineTypeOK'
  BY MoveType
  DEF Reconnect, ReconnectCheck, ReconnectWait, ReconnectDial, ReconnectUp, GoroutineTypeOK,
      RedialPoints
<1> QED  BY <1>1, <1>2, <1>3

LEMMA ManagerTypeNext == TypeGroupsOK /\ [Next]_vars => TypeGroupsOK'
<1> SUFFICES ASSUME TypeGroupsOK, [Next]_vars PROVE TypeGroupsOK'
  OBVIOUS
<1>1. CASE UNCHANGED managerVars
  BY <1>1 DEF managerVars, goroutines, TypeGroupsOK, LifecycleTypeOK, CallTypeOK, GoroutineTypeOK
<1>2. CASE \E t \in Threads : ConnectBegin(t) \/ DisconnectBegin(t) \/ CloseBegin(t) \/ Call(t)
  BY <1>2, BeginType, CallType
<1>3. CASE ForwardMessages \/ ForwardEvents
  BY <1>3, ForwardType
<1>4. CASE Reconnect
  BY <1>4, ReconnectType
<1> QED  BY <1>1, <1>2, <1>3, <1>4 DEF Next, vars

LEMMA ManagerTypeInvariance == Spec => []TypeGroupsOK
BY ManagerTypeInit, ManagerTypeNext, PTL DEF Spec

(* Type correctness of the manager over the strategy: the count of         *)
(* reconnection attempts never passes MaxReconnects.                       *)
THEOREM ManagerTypeCorrect == Spec => []ManagerTypeOK
<1>1. StrategyTypeOK /\ TypeGroupsOK => ManagerTypeOK
  BY TypeGroups DEF TypeGroupsOK
<1> QED  BY <1>1, ManagerTypeInvariance, DrivesStrategy, TypeCorrect, PTL

-----------------------------------------------------------------------------
(* PendingStateHasOwner is inductive as it stands, given the types.        *)

LEMMA PendingNext ==
    ASSUME TypeGroupsOK, PendingStateHasOwner, [Next]_vars
    PROVE  PendingStateHasOwner'
<1> USE DEF TypeGroupsOK, goroutines
<1>1. ASSUME UNCHANGED <<state, closing, cpc, redial>>
      PROVE  PendingStateHasOwner'
  BY <1>1 DEF PendingStateHasOwner, Redialers
<1>2. ASSUME NEW t \in Threads, ConnectBegin(t) \/ DisconnectBegin(t) \/ CloseBegin(t)
      PROVE  PendingStateHasOwner'
  BY <1>2
  DEF ConnectBegin, DisconnectBegin, CloseBegin, Begin, Step, CallTypeOK, PendingStateHasOwner
<1>3. ASSUME NEW t \in Threads, Call(t)
      PROVE  PendingStateHasOwner'
  <2>1. CASE ConnectFailed(t) \/ ConnectUp(t)
    BY <2>1 DEF ConnectFailed, ConnectUp, PendingStateHasOwner
  <2>2. CASE ConnectDial(t)
    <3>1. state = "Connecting" => \E u \in Threads : cpc'[u] \in {"dial", "failed", "up"}
      BY <2>2 DEF ConnectDial, Step, CallTypeOK, PendingStateHasOwner
    <3> QED  BY <2>2, <3>1 DEF ConnectDial, PendingStateHasOwner, Redialers
  <2>3. ASSUME ~ConnectFailed(t), ~ConnectUp(t), ~ConnectDial(t)
        PROVE  PendingStateHasOwner'
    <3>1. /\ UNCHANGED <<state, closing, redial>>
          /\ \E p \in CallPoints \ {"dial", "failed", "up"}, q \in CallPoints : Step(t, p, q)
      BY <1>3, <2>3
      DEF Call, ConnectSpawn, DisconnectStrategy, DisconnectFinish, CloseStrategy, CloseReport,
          CloseFinish, CloseExpired, CallPoints
    <3> QED  BY <3>1 DEF Step, CallTypeOK, PendingStateHasOwner, Redialers
  <2> QED  BY <2>1, <2>2, <2>3
<1>4. CASE HandleConnectionLost
  BY <1>4
  DEF HandleConnectionLost, PendingStateHasOwner, Redialers, GoroutineTypeOK, Enter, RedialPoints
<1>5. CASE ForwardMessages \/ ForwardEvent \/ ForwardEventsStop
  BY <1>1, <1>5
  DEF ForwardMessages, ForwardMessage, ForwardMessagesStop, ForwardEvent, ForwardEventsStop,
      managerVars
<1>6. CASE Reconnect
  BY <1>6
  DEF Reconnect, ReconnectCheck, ReconnectWait, ReconnectDial, ReconnectUp,
      PendingStateHasOwner, Redialers, GoroutineTypeOK, Enter, Leave, Move, RedialPoints
<1>7. CASE UNCHANGED managerVars
  BY <1>1, <1>7 DEF managerVars
<1> QED  BY <1>2, <1>3, <1>4, <1>5, <1>6, <1>7 DEF Next, ForwardEvents, vars

(* No interleaving of calls, losses and reconnections strands the manager  *)
(* in Connecting or Reconnecting.                                          *)
THEOREM PendingOwned == Spec => []PendingStateHasOwner
<1>1. ManagerInit => PendingStateHasOwner
  BY DEF ManagerInit, PendingStateHasOwner
<1>2. TypeGroupsOK /\ PendingStateHasOwner /\ [Next]_vars => PendingStateHasOwner'
  BY PendingNext
<1> QED  BY <1>1, <1>2, ManagerTypeInvariance, PTL DEF Spec

-----------------------------------------------------------------------------
(* LiveLinkIsServed needs to know that the two kinds of forwarders come in *)
(* pairs, and that wherever a down event is handled or a reconnect         *)
(* goroutine is at work, forwarders are there already.                     *)

ForwardersInv ==
    ~closing => /\ mfwd = Forwarders
                /\ Redialers + redial["up"] > 0 => Forwarders > 0

LEMMA ServedNext ==
    ASSUME TypeGroupsOK, ForwardersInv, LiveLinkIsServed, [Next]_vars
    PROVE  ForwardersInv' /\ LiveLinkIsServed'
<1> USE DEF TypeGroupsOK, goroutines, Forwarders
<1>1. ASSUME UNCHANGED <<connected, closing, cpc, fwd, mfwd, redial>>
      PROVE  ForwardersInv' /\ LiveLinkIsServed'
  BY <1>1 DEF ForwardersInv, LiveLinkIsServed, Redialers
<1>2. ASSUME NEW t \in Threads, ConnectBegin(t) \/ DisconnectBegin(t) \/ CloseBegin(t)
      PROVE  ForwardersInv' /\ LiveLinkIsServed'
  <2>1. /\ UNCHANGED <<connected, fwd, mfwd, redial>>
        /\ closing' = FALSE => closing = FALSE
        /\ \E p \in CallPoints : Step(t, "idle", p)
    BY <1>2
    DEF ConnectBegin, DisconnectBegin, CloseBegin, Begin, strategyVars, link, CallPoints,
        LifecycleTypeOK
  <2> QED
    BY <1>2, <2>1
    DEF ConnectBegin, DisconnectBegin, CloseBegin, ForwardersInv, LiveLinkIsServed, Redialers,
        Step, CallTypeOK
<1>3. ASSUME NEW t \in Threads, Call(t)
      PROVE  ForwardersInv' /\ LiveLinkIsServed'
  <2>1. CASE ConnectSpawn(t)
    <3>1. ~closing => mfwd' = Forwarders' /\ Forwarders' > 0
      BY <2>1 DEF ConnectSpawn, ForwardersInv, GoroutineTypeOK, Enter, ForwardPoints
    <3> QED  BY <2>1, <3>1 DEF ConnectSpawn, ForwardersInv, LiveLinkIsServed, GoroutineTypeOK
  <2>2. CASE ConnectDial(t)
    <3>1. CASE Step(t, "dial", "up")
      <4>1. \E u \in Threads : cpc'[u] \in {"up", "spawn"}
        BY <3>1 DEF Step, CallTypeOK
      <4> QED
        BY <2>2, <4>1 DEF ConnectDial, ForwardersInv, LiveLinkIsServed, Redialers
    <3>2. CASE Step(t, "dial", "failed") /\ ConnectError
      BY <2>2, <3>2
      DEF ConnectDial, ConnectError, strategyVars, link, Step, CallTypeOK, ForwardersInv,
          LiveLinkIsServed, Redialers
    <3> QED  BY <2>2, <3>1, <3>2 DEF ConnectDial
  <2>3. CASE ConnectUp(t)
    BY <2>3
    DEF ConnectUp, strategyVars, link, Step, CallTypeOK, ForwardersInv, LiveLinkIsServed, Redialers
  <2>4. ASSUME ~ConnectSpawn(t), ~ConnectDial(t), ~ConnectUp(t)
        PROVE  ForwardersInv' /\ LiveLinkIsServed'
    <3>1. /\ UNCHANGED <<closing, fwd, mfwd, redial>>
          /\ connected' => connected
          /\ \E p \in CallPoints \ {"up", "spawn"}, q \in CallPoints : Step(t, p, q)
      BY <1>3, <2>4
      DEF Call, ConnectFailed, DisconnectStrategy, DisconnectFinish, CloseStrategy, CloseReport,
          CloseFinish, CloseExpired, DisconnectNoop, DisconnectDown, DisconnectReport,
          strategyVars, link, CallPoints
    <3> QED  BY <3>1 DEF Step, CallTypeOK, ForwardersInv, LiveLinkIsServed, Redialers
  <2> QED  BY <2>1, <2>2, <2>3, <2>4
<1>4. CASE ForwardMessages \/ ForwardEvents
  <2> USE DEF ForwardMessages, ForwardMessage, ForwardMessagesStop, ForwardEvents, ForwardEvent,
              ForwardEventsStop, HandleConnectionLost
  <2>1. ~closing => /\ mfwd' = mfwd
                    /\ Forwarders' = Forwarders
                    /\ redial' = redial \/ Forwarders > 0
    BY <1>4
    DEF managerVars, GoroutineTypeOK, Enter, Leave, Move, ForwardPoints
  <2>2. UNCHANGED <<closing, cpc>> /\ UNCHANGED connected
    BY <1>4 DEF managerVars, TakeMessage, TakeEvent, strategyVars, link
  <2> QED  BY <2>1, <2>2 DEF ForwardersInv, LiveLinkIsServed, Redialers
<1>5. CASE Reconnect
  <2>1. /\ UNCHANGED <<closing, cpc, fwd, mfwd>>
        /\ Redialers + redial["up"] > 0
    BY <1>5
    DEF Reconnect, ReconnectCheck, ReconnectWait, ReconnectDial, ReconnectUp, Redialers,
        GoroutineTypeOK, RedialPoints
  <2> QED  BY <2>1 DEF ForwardersInv, LiveLinkIsServed
<1>6. ASSUME NEW r \in Readers, ReadStep(r) \/ NetworkLoss(r), UNCHANGED managerVars
      PROVE  ForwardersInv' /\ LiveLinkIsServed'
  <2>1. connected' => connected
    BY <1>6
    DEF ReadStep, ReadTop, ReadEnvelope, ReadMessage, SendEvent, SendMessage, ReadError,
        SendError, ReadExit, ReportLoss, NetworkLoss, link
  <2> QED  BY <1>6, <2>1 DEF managerVars, ForwardersInv, LiveLinkIsServed, Redialers
<1>7. CASE UNCHANGED vars
  BY <1>1, <1>7 DEF vars, strategyVars, link, managerVars
<1> QED  BY <1>2, <1>3, <1>4, <1>5, <1>6, <1>7 DEF Next

(* As long as the manager is not closed, no live link is without the       *)
(* goroutines that deliver its messages and hear of its loss.              *)
THEOREM LiveLinkServed == Spec => []LiveLinkIsServed
<1>1. ManagerInit => ForwardersInv /\ LiveLinkIsServed
  BY DEF ManagerInit, StrategyInit, ForwardersInv, LiveLinkIsServed, Forwarders, Redialers,
         ForwardPoints, RedialPoints
<1>2. TypeGroupsOK /\ ForwardersInv /\ LiveLinkIsServed /\ [Next]_vars
        => ForwardersInv' /\ LiveLinkIsServed'
  BY ServedNext
<1> QED  BY <1>1, <1>2, ManagerTypeInvariance, PTL DEF Spec

-----------------------------------------------------------------------------
(* OneOutageAtATime.  The link, the report that its end owes, the event in *)
(* the channel, the forwarder that handles it, the reconnect goroutine and *)
(* the first Connect hand one token on to each other.                      *)

OneDownQueued ==
    \A i, j \in DOMAIN eventChan :
        eventChan[i] \in DownEvents /\ eventChan[j] \in DownEvents => i = j

LinkOutages == AsCount(connected) + AsCount(mu # Nobody) + AsCount(DownQueued)

LEMMA AsCountValue == AsCount(TRUE) = 1 /\ AsCount(FALSE) = 0
BY DEF AsCount

LEMMA LinkOutagesNat == LinkOutages \in 0..3
<1>1. /\ AsCount(connected) \in 0..1 /\ AsCount(mu # Nobody) \in 0..1
      /\ AsCount(DownQueued) \in 0..1
  BY DEF AsCount
<1> QED  BY <1>1 DEF LinkOutages

(* An event that is posted: the last of the channel from now on.           *)
LEMMA PostQueued ==
    ASSUME ChannelTypeOK, NEW kind, Post(kind)
    PROVE  /\ DownQueued' <=> DownQueued \/ kind \in DownEvents
           /\ OneDownQueued /\ (DownQueued => kind \notin DownEvents) => OneDownQueued'
<1>1. /\ Len(eventChan) \in Nat
      /\ DOMAIN eventChan = 1..Len(eventChan)
      /\ DOMAIN eventChan' = 1..(Len(eventChan) + 1)
      /\ \A i \in DOMAIN eventChan : eventChan'[i] = eventChan[i]
      /\ eventChan'[Len(eventChan) + 1] = kind
  BY DEF ChannelTypeOK, Post
<1>2. \A i \in DOMAIN eventChan' : i \in DOMAIN eventChan \/ i = Len(eventChan) + 1
  BY <1>1
<1>3. DownQueued' <=> DownQueued \/ kind \in DownEvents
  <2>1. DownQueued => DownQueued'
    BY <1>1 DEF DownQueued
  <2>2. kind \in DownEvents => DownQueued'
    BY <1>1 DEF DownQueued
  <2>3. DownQueued' => DownQueued \/ kind \in DownEvents
    BY <1>1, <1>2 DEF DownQueued
  <2> QED  BY <2>1, <2>2, <2>3
<1>4. OneDownQueued /\ (DownQueued => kind \notin DownEvents) => OneDownQueued'
  BY <1>1, <1>2 DEF DownQueued, OneDownQueued
<1> QED  BY <1>3, <1>4

(* An event that is taken: the first of the channel.                       *)
LEMMA TakeQueued ==
    ASSUME ChannelTypeOK, OneDownQueued, TakeEvent
    PROVE  /\ OneDownQueued'
           /\ Head(eventChan) \in DownEvents => DownQueued /\ ~DownQueued'
           /\ Head(eventChan) \notin DownEvents => (DownQueued' <=> DownQueued)
<1>1. /\ eventChan \in Seq(EventKinds) /\ eventChan # <<>> /\ eventChan' = Tail(eventChan)
  BY DEF ChannelTypeOK, TakeEvent
<1>2. /\ Len(eventChan) \in Nat \ {0}
      /\ DOMAIN eventChan = 1..Len(eventChan)
      /\ DOMAIN eventChan' = 1..(Len(eventChan) - 1)
      /\ \A i \in 1..(Len(eventChan) - 1) : eventChan'[i] = eventChan[i + 1]
      /\ Head(eventChan) = eventChan[1]
  BY <1>1
<1>3. 1 \in DOMAIN eventChan /\ Head(eventChan) = eventChan[1]
  BY <1>2
<1>4. \A i \in DOMAIN eventChan' : /\ i + 1 \in DOMAIN eventChan /\ i + 1 # 1 /\ i \in Nat
                                  /\ eventChan'[i] = eventChan[i + 1]
  BY <1>2
<1>5. \A i \in DOMAIN eventChan : i # 1 => /\ i - 1 \in 1..(Len(eventChan) - 1)
                                         /\ (i - 1) + 1 = i
  BY <1>2
<1>6. \A i \in DOMAIN eventChan : i # 1 => /\ i - 1 \in DOMAIN eventChan'
                                         /\ eventChan'[i - 1] = eventChan[i]
  BY <1>2, <1>5
<1>7. OneDownQueued'
  BY <1>4 DEF OneDownQueued
<1>8. Head(eventChan) \in DownEvents => DownQueued /\ ~DownQueued'
  BY <1>3, <1>4 DEF OneDownQueued, DownQueued
<1>9. Head(eventChan) \notin DownEvents => (DownQueued' <=> DownQueued)
  <2> SUFFICES ASSUME eventChan[1] \notin DownEvents PROVE DownQueued' <=> DownQueued
    BY <1>3
  <2>1. DownQueued => DownQueued'
    BY <1>6 DEF DownQueued
  <2>2. DownQueued' => DownQueued
    BY <1>4 DEF DownQueued
  <2> QED  BY <2>1, <2>2
<1> QED  BY <1>7, <1>8, <1>9

(* The strategy alone keeps its token; a dial makes one.                   *)
LEMMA LinkTokenKept ==
    ASSUME StrategyInv, OneDownQueued, LinkOutages <= 1,
           \/ ConnectError \/ DisconnectNoop \/ TakeMessage
           \/ \E t \in Threads : DisconnectDown(t) \/ DisconnectReport(t)
           \/ \E r \in Readers : ReadStep(r) \/ NetworkLoss(r)
    PROVE  LinkOutages' = LinkOutages /\ OneDownQueued'
<1> USE AsCountValue DEF link
<1>0. StrategyTypeOK /\ connected \in BOOLEAN /\ ChannelTypeOK
  BY DEF StrategyInv, StrategyTypeOK, LinkTypeOK
<1>1. ASSUME UNCHANGED <<connected, mu, eventChan>>
      PROVE  LinkOutages' = LinkOutages /\ OneDownQueued'
  BY <1>1 DEF LinkOutages, DownQueued, OneDownQueued
<1>2. ASSUME UNCHANGED <<connected, mu>>, NEW kind, kind \notin DownEvents, Post(kind)
      PROVE  LinkOutages' = LinkOutages /\ OneDownQueued'
  <2>1. (DownQueued' <=> DownQueued) /\ OneDownQueued'
    BY <1>0, <1>2, PostQueued DEF DownQueued
  <2> QED  BY <1>2, <2>1 DEF LinkOutages, AsCount
<1>3. ASSUME mu # Nobody, mu' = Nobody, UNCHANGED connected, NEW kind \in DownEvents, Post(kind)
      PROVE  LinkOutages' = LinkOutages /\ OneDownQueued'
  <2>1. AsCount(mu # Nobody) = 1 /\ AsCount(mu' # Nobody) = 0
    BY <1>3 DEF AsCount
  <2>2. AsCount(connected) \in 0..1 /\ AsCount(DownQueued) \in 0..1
    BY DEF AsCount
  <2>3. ~DownQueued
    BY <2>1, <2>2 DEF LinkOutages, AsCount
  <2>4. DownQueued' /\ OneDownQueued'
    BY <1>0, <1>3, <2>3, PostQueued
  <2> QED  BY <1>3, <2>3, <2>4 DEF LinkOutages, AsCount
<1>4. ASSUME connected, ~connected', mu = Nobody, mu' # Nobody, UNCHANGED eventChan
      PROVE  LinkOutages' = LinkOutages /\ OneDownQueued'
  BY <1>4 DEF LinkOutages, AsCount, DownQueued, OneDownQueued
<1>5. CASE ConnectError \/ DisconnectNoop \/ TakeMessage \/ \E c \in Readers : NetworkLoss(c)
  BY <1>1, <1>5 DEF ConnectError, DisconnectNoop, TakeMessage, NetworkLoss, strategyVars, events
<1>6. ASSUME NEW t \in Threads, DisconnectDown(t)
      PROVE  LinkOutages' = LinkOutages /\ OneDownQueued'
  BY <1>4, <1>6, StrategyAssumption DEF DisconnectDown, events
<1>7. ASSUME NEW t \in Threads, DisconnectReport(t)
      PROVE  LinkOutages' = LinkOutages /\ OneDownQueued'
  BY <1>3, <1>7, StrategyAssumption DEF DisconnectReport, PostDown, DownEvents
<1>8. ASSUME NEW r \in Readers, ReadStep(r)
      PROVE  LinkOutages' = LinkOutages /\ OneDownQueued'
  <2>1. CASE ReadTop(r) \/ (\E kind \in Envelopes : ReadEnvelope(r, kind)) \/ ReadMessage(r)
             \/ SendMessage(r) \/ ReadError(r)
    BY <1>1, <2>1 DEF ReadTop, ReadEnvelope, ReadMessage, SendMessage, ReadError, events
  <2>2. CASE SendEvent(r) \/ SendError(r)
    BY <1>2, <2>2 DEF SendEvent, SendError, DownEvents
  <2>3. CASE ReadExit(r)
    BY <1>1, <1>4, <2>3, StrategyAssumption DEF ReadExit, events
  <2>4. CASE ReportLoss(r)
    <3>1. mu # Nobody
      BY <2>4, StrategyAssumption DEF ReportLoss, StrategyInv, LoopsInv
    <3> QED  BY <1>3, <2>4, <3>1 DEF ReportLoss, PostDown, DownEvents
  <2> QED  BY <1>8, <2>1, <2>2, <2>3, <2>4 DEF ReadStep
<1> QED  BY <1>5, <1>6, <1>7, <1>8

LEMMA LinkTokenMade ==
    ASSUME OneDownQueued, DialOK
    PROVE  /\ ~connected /\ LinkOutages' = LinkOutages + 1
           /\ OneDownQueued'
<1>1. /\ ~connected /\ connected' /\ UNCHANGED <<mu, eventChan>>
  BY DEF DialOK, events
<1>2. (DownQueued' <=> DownQueued) /\ OneDownQueued'
  BY <1>1 DEF DownQueued, OneDownQueued
<1> QED  BY <1>1, <1>2 DEF LinkOutages, AsCount

LEMMA LinkTokenTaken ==
    ASSUME StrategyInv, OneDownQueued, TakeEvent
    PROVE  /\ OneDownQueued'
           /\ Head(eventChan) \in DownEvents => LinkOutages' = LinkOutages - 1
           /\ Head(eventChan) \notin DownEvents => LinkOutages' = LinkOutages
<1>1. ChannelTypeOK /\ UNCHANGED <<connected, mu>>
  BY DEF StrategyInv, StrategyTypeOK, TakeEvent, link
<1>2. OneDownQueued'
  BY <1>1, TakeQueued
<1>3. Head(eventChan) \in DownEvents => LinkOutages' = LinkOutages - 1
  BY <1>1, TakeQueued DEF LinkOutages, AsCount
<1>4. Head(eventChan) \notin DownEvents => LinkOutages' = LinkOutages
  BY <1>1, TakeQueued DEF LinkOutages, AsCount
<1> QED  BY <1>2, <1>3, <1>4

(* The whole token, a Connect that is dialling, and the invariant.         *)
Outages == LinkOutages + fwd["lost"] + Redialers
Dialling(t) == cpc[t] \in {"dial", "failed"}

OutageInv ==
    /\ budget["connect"] <= Calls["connect"]
    /\ budget["disconnect"] <= Calls["disconnect"]
    /\ OneSession =>
        /\ OneDownQueued
        /\ Outages <= 1
        /\ \A t \in Threads : Dialling(t) => Outages = 0 /\ budget["connect"] < Calls["connect"]
        /\ \A t, u \in Threads : Dialling(t) /\ Dialling(u) => t = u
        /\ budget["connect"] = Calls["connect"] => Outages = 0
        /\ \A t \in Threads : cpc[t] \notin {"disconnect", "report"}

LEMMA OutagesNat ==
    ASSUME TypeGroupsOK
    PROVE  /\ fwd["lost"] \in Nat /\ Redialers \in Nat /\ LinkOutages \in Nat
           /\ \A p \in RedialPoints : redial[p] \in Nat
           /\ budget["connect"] \in Nat /\ budget["disconnect"] \in Nat
           /\ Calls["connect"] \in Nat /\ Calls["disconnect"] \in Nat
<1>1. fwd["lost"] \in Nat /\ Redialers \in Nat /\ \A p \in RedialPoints : redial[p] \in Nat
  BY DEF TypeGroupsOK, GoroutineTypeOK, Redialers, ForwardPoints, RedialPoints
<1>2. LinkOutages \in Nat
  BY LinkOutagesNat
<1>3. /\ budget["connect"] \in Nat /\ budget["disconnect"] \in Nat
      /\ Calls["connect"] \in Nat /\ Calls["disconnect"] \in Nat
  BY ManagerAssumption DEF TypeGroupsOK, CallTypeOK, Operations
<1> QED  BY <1>1, <1>2, <1>3

(* A step that brings no new token and no new dial.                        *)
LEMMA OutageKept ==
    ASSUME TypeGroupsOK, TypeGroupsOK', OutageInv,
           UNCHANGED <<budget["connect"], budget["disconnect"]>>,
           OneSession => OneDownQueued' /\ Outages' <= Outages,
           OneSession => \A t \in Threads : Dialling(t)' => Dialling(t),
           OneSession => \A t \in Threads : cpc'[t] \notin {"disconnect", "report"}
    PROVE  OutageInv'
<1>1. Outages \in Nat /\ Outages' \in Nat
  <2>1. Outages \in Nat
    BY OutagesNat DEF Outages
  <2>2. fwd'["lost"] \in Nat /\ Redialers' \in Nat /\ LinkOutages' \in Nat
    <3>1. fwd'["lost"] \in Nat /\ Redialers' \in Nat
      BY DEF TypeGroupsOK, GoroutineTypeOK, Redialers, ForwardPoints, RedialPoints
    <3>2. LinkOutages' \in Nat
      BY DEF LinkOutages, AsCount
    <3> QED  BY <3>1, <3>2
  <2>3. Outages' \in Nat
    BY <2>2 DEF Outages
  <2> QED  BY <2>1, <2>3
<1>2. OneSession' <=> OneSession
  BY DEF OneSession
<1> QED  BY <1>1, <1>2 DEF OutageInv

LEMMA OutageBegin ==
    ASSUME TypeGroupsOK, TypeGroupsOK', OutageInv, NEW t \in Threads,
           ConnectBegin(t) \/ DisconnectBegin(t) \/ CloseBegin(t)
    PROVE  OutageInv'
<1> USE OutagesNat DEF goroutines
<1>0. UNCHANGED <<LinkOutages, OneDownQueued, fwd, redial, Redialers, Outages>>
  BY DEF ConnectBegin, DisconnectBegin, CloseBegin, strategyVars, link, events, LinkOutages,
         DownQueued, OneDownQueued, Redialers, Outages
<1>1. CASE ConnectBegin(t)
  <2>1. /\ cpc' = [cpc EXCEPT ![t] = "dial"] /\ cpc[t] = "idle"
        /\ budget'["connect"] = budget["connect"] - 1 /\ budget["connect"] > 0
        /\ budget'["disconnect"] = budget["disconnect"]
    BY <1>1 DEF ConnectBegin, Begin, Step, Leave, TypeGroupsOK, CallTypeOK, Operations
  <2>2. /\ budget'["connect"] <= Calls["connect"]
        /\ budget'["disconnect"] <= Calls["disconnect"]
    BY <2>1 DEF OutageInv
  <2>3. ASSUME OneSession'
        PROVE  OneSession /\ budget["connect"] = Calls["connect"] /\ Outages = 0
    BY <2>1, <2>3 DEF OneSession, OutageInv
  <2>4. /\ \A u \in Threads : u # t => cpc'[u] = cpc[u]
        /\ cpc'[t] = "dial"
    BY <2>1 DEF TypeGroupsOK, CallTypeOK
  <2>5. ASSUME OneSession', NEW u \in Threads, Dialling(u)'
        PROVE  u = t
    BY <2>3, <2>4, <2>5 DEF OutageInv, Dialling
  <2>6. ASSUME OneSession'
        PROVE  /\ OneDownQueued' /\ Outages' = 0
               /\ budget'["connect"] < Calls["connect"]
               /\ \A u \in Threads : cpc'[u] \notin {"disconnect", "report"}
    BY <1>0, <2>1, <2>3, <2>4, <2>6 DEF OutageInv
  <2> QED  BY <2>2, <2>5, <2>6 DEF OutageInv
<1>2. CASE DisconnectBegin(t)
  <2>1. /\ budget'["connect"] = budget["connect"]
        /\ budget'["disconnect"] = budget["disconnect"] - 1
    BY <1>2 DEF DisconnectBegin, Begin, Leave, TypeGroupsOK, CallTypeOK, Operations
  <2>2. ~OneSession'
    BY <2>1 DEF OneSession, OutageInv
  <2> QED  BY <2>1, <2>2 DEF OutageInv
<1>3. CASE CloseBegin(t)
  <2>1. /\ cpc' = [cpc EXCEPT ![t] = "close"]
        /\ UNCHANGED <<budget["connect"], budget["disconnect"]>>
    BY <1>3 DEF CloseBegin, Begin, Step, Leave, TypeGroupsOK, CallTypeOK, Operations
  <2>2. Outages' <= Outages
    BY <1>0 DEF Outages
  <2>3. \A u \in Threads : Dialling(u)' => Dialling(u)
    BY <2>1 DEF Dialling, TypeGroupsOK, CallTypeOK
  <2>4. OneSession => \A u \in Threads : cpc'[u] \notin {"disconnect", "report"}
    BY <2>1 DEF OutageInv, TypeGroupsOK, CallTypeOK
  <2> QED  BY <1>0, <2>1, <2>2, <2>3, <2>4, OutageKept DEF OutageInv
<1> QED  BY <1>1, <1>2, <1>3

LEMMA OutageCall ==
    ASSUME TypeGroupsOK, TypeGroupsOK', StrategyInv, OutageInv, NEW t \in Threads, Call(t)
    PROVE  OutageInv'
<1> USE OutagesNat DEF goroutines
<1>0. /\ UNCHANGED <<budget, redial, fwd["lost"], Redialers>>
      /\ UNCHANGED <<budget["connect"], budget["disconnect"]>>
      /\ \E p, q \in CallPoints : Step(t, p, q) /\ q \notin {"dial", "disconnect"}
                                  /\ (q = "report" => p = "disconnect")
                                  /\ (q = "failed" => p = "dial")
  BY DEF Call, ConnectDial, ConnectFailed, ConnectUp, ConnectSpawn, DisconnectStrategy,
         DisconnectFinish, CloseStrategy, CloseReport, CloseFinish, CloseExpired, CallPoints,
         Enter, TypeGroupsOK, GoroutineTypeOK, ForwardPoints, Redialers
<1>1. \A u \in Threads : Dialling(u)' => Dialling(u)
  BY <1>0 DEF Step, Dialling, TypeGroupsOK, CallTypeOK
<1>2. OneSession => \A u \in Threads : cpc'[u] \notin {"disconnect", "report"}
  BY <1>0 DEF Step, OutageInv, TypeGroupsOK, CallTypeOK
<1>3. CASE ConnectDial(t) /\ DialOK
  <2>1. /\ Step(t, "dial", "up")
    BY <1>3 DEF ConnectDial, DialOK, ConnectError, strategyVars, link
  <2>2. OneSession' <=> OneSession
    BY <1>0 DEF OneSession
  <2>3. ASSUME OneSession
        PROVE  /\ OneDownQueued' /\ Outages' = 1
               /\ \A u \in Threads : ~Dialling(u)'
               /\ budget["connect"] < Calls["connect"]
    <3>1. Dialling(t) /\ Outages = 0 /\ OneDownQueued /\ budget["connect"] < Calls["connect"]
      BY <2>1, <2>3 DEF Step, Dialling, OutageInv
    <3>2. OneDownQueued' /\ LinkOutages' = LinkOutages + 1
      BY <1>3, <3>1, LinkTokenMade
    <3>3. \A u \in Threads : ~Dialling(u)'
      BY <1>1, <2>1, <2>3, <3>1 DEF OutageInv, Step, Dialling, TypeGroupsOK, CallTypeOK
    <3>4. Outages' = 1
      BY <1>0, <3>1, <3>2 DEF Outages
    <3> QED  BY <3>1, <3>2, <3>3, <3>4
  <2> QED  BY <1>0, <1>2, <2>2, <2>3 DEF OutageInv
<1>4. ASSUME \/ UNCHANGED strategyVars
             \/ ConnectError \/ DisconnectNoop \/ DisconnectDown(t) \/ DisconnectReport(t)
      PROVE  OutageInv'
  <2>1. ASSUME OneSession
        PROVE  OneDownQueued' /\ Outages' <= Outages
    <3>1. OneDownQueued /\ LinkOutages <= 1
      BY <2>1 DEF OutageInv, Outages
    <3>2. OneDownQueued' /\ LinkOutages' = LinkOutages
      <4>1. CASE UNCHANGED strategyVars
        BY <3>1, <4>1 DEF strategyVars, link, events, LinkOutages, DownQueued, OneDownQueued
      <4>2. CASE ConnectError \/ DisconnectNoop \/ DisconnectDown(t) \/ DisconnectReport(t)
        BY <3>1, <4>2, LinkTokenKept
      <4> QED  BY <1>4, <4>1, <4>2
    <3> QED  BY <1>0, <3>2 DEF Outages
  <2> QED  BY <1>0, <1>1, <1>2, <2>1, OutageKept
<1> QED
  BY <1>3, <1>4
  DEF Call, ConnectDial, ConnectFailed, ConnectUp, ConnectSpawn, DisconnectStrategy,
      DisconnectFinish, CloseStrategy, CloseReport, CloseFinish, CloseExpired

(* The goroutines leave the calls alone.                                   *)
LEMMA OutageKeptAside ==
    ASSUME TypeGroupsOK, TypeGroupsOK', OutageInv, UNCHANGED <<cpc, budget>>,
           OneSession => OneDownQueued' /\ Outages' <= Outages
    PROVE  OutageInv'
<1>1. /\ UNCHANGED <<budget["connect"], budget["disconnect"]>>
      /\ \A t \in Threads : Dialling(t)' => Dialling(t)
      /\ OneSession => \A t \in Threads : cpc'[t] \notin {"disconnect", "report"}
  BY DEF Dialling, OutageInv
<1> QED  BY <1>1, OutageKept

LEMMA OutageForward ==
    ASSUME TypeGroupsOK, TypeGroupsOK', StrategyInv, OutageInv, ForwardMessages \/ ForwardEvents
    PROVE  OutageInv'
<1> USE OutagesNat DEF goroutines
<1>1. ASSUME OneSession
      PROVE  OneDownQueued' /\ Outages' <= Outages
  <2>0. OneDownQueued /\ LinkOutages <= 1
    BY <1>1 DEF OutageInv, Outages
  <2>1. CASE ForwardMessages \/ ForwardEventsStop
    <3>1. UNCHANGED <<fwd["lost"], Redialers>>
      BY <2>1
      DEF ForwardMessages, ForwardMessage, ForwardMessagesStop, ForwardEventsStop, managerVars,
          Redialers, Leave, TypeGroupsOK, GoroutineTypeOK, ForwardPoints
    <3>2. TakeMessage \/ UNCHANGED strategyVars
      BY <2>1 DEF ForwardMessages, ForwardMessage, ForwardMessagesStop, ForwardEventsStop
    <3>3. OneDownQueued' /\ LinkOutages' = LinkOutages
      BY <2>0, <3>2, LinkTokenKept
      DEF strategyVars, link, events, LinkOutages, DownQueued, OneDownQueued
    <3> QED  BY <3>1, <3>3 DEF Outages
  <2>2. CASE ForwardEvent
    <3>1. /\ UNCHANGED Redialers
          /\ Head(eventChan) \in DownEvents => fwd'["lost"] = fwd["lost"] + 1
          /\ Head(eventChan) \notin DownEvents => fwd'["lost"] = fwd["lost"]
      BY <2>2
      DEF ForwardEvent, Redialers, Enter, Leave, Move, TypeGroupsOK, GoroutineTypeOK, ForwardPoints
    <3>2. TakeEvent
      BY <2>2 DEF ForwardEvent
    <3> QED  BY <2>0, <3>1, <3>2, LinkTokenTaken DEF Outages
  <2>3. CASE HandleConnectionLost
    <3>1. OneDownQueued' /\ LinkOutages' = LinkOutages
      BY <2>0, <2>3
      DEF HandleConnectionLost, strategyVars, link, events, LinkOutages, DownQueued, OneDownQueued
    <3>2. /\ fwd'["lost"] = fwd["lost"] - 1
          /\ Redialers' = Redialers \/ Redialers' = Redialers + 1
      BY <2>3
      DEF HandleConnectionLost, Redialers, Enter, Leave, Move, TypeGroupsOK, GoroutineTypeOK,
          ForwardPoints, RedialPoints
    <3> QED  BY <3>1, <3>2 DEF Outages
  <2> QED  BY <2>1, <2>2, <2>3 DEF ForwardEvents
<1>2. UNCHANGED <<cpc, budget>>
  BY DEF ForwardMessages, ForwardEvents, ForwardMessage, ForwardMessagesStop, ForwardEvent,
         ForwardEventsStop, HandleConnectionLost, managerVars
<1> QED  BY <1>1, <1>2, OutageKeptAside

LEMMA OutageReconnect ==
    ASSUME TypeGroupsOK, TypeGroupsOK', StrategyInv, OutageInv, Reconnect
    PROVE  OutageInv'
<1> USE OutagesNat
<1>1. UNCHANGED <<cpc, budget, fwd>>
  BY DEF Reconnect, ReconnectCheck, ReconnectWait, ReconnectDial, ReconnectUp
<1>2. ASSUME OneSession
      PROVE  OneDownQueued' /\ Outages' <= Outages
  <2>0. OneDownQueued
    BY <1>2 DEF OutageInv
  <2>1. CASE ReconnectDial /\ DialOK
    <3>1. OneDownQueued' /\ LinkOutages' = LinkOutages + 1
      BY <2>0, <2>1, LinkTokenMade
    <3>2. redial' = Move(redial, "dial", "up")
      BY <2>1 DEF ReconnectDial, DialOK, ConnectError, strategyVars, link
    <3>3. Redialers' = Redialers - 1
      BY <3>2
      DEF Redialers, Enter, Leave, Move, TypeGroupsOK, GoroutineTypeOK, RedialPoints
    <3> QED  BY <1>1, <3>1, <3>3 DEF Outages
  <2>2. CASE UNCHANGED strategyVars
    <3>1. OneDownQueued' /\ LinkOutages' = LinkOutages
      BY <2>0, <2>2 DEF strategyVars, link, events, LinkOutages, DownQueued, OneDownQueued
    <3>2. Redialers' <= Redialers
      <4>1. CASE ReconnectCheck \/ ReconnectWait \/ ReconnectUp
        BY <4>1
        DEF ReconnectCheck, ReconnectWait, ReconnectUp, Redialers, Enter, Leave, Move,
            TypeGroupsOK, GoroutineTypeOK, RedialPoints
      <4>2. CASE ReconnectDial
        BY <2>2, <4>2
        DEF ReconnectDial, DialOK, strategyVars, link, Redialers, Enter, Leave, Move,
            TypeGroupsOK, GoroutineTypeOK, RedialPoints
      <4> QED  BY <4>1, <4>2 DEF Reconnect
    <3>3. Redialers' \in Nat
      BY DEF Redialers, TypeGroupsOK, GoroutineTypeOK, RedialPoints
    <3> QED  BY <1>1, <3>1, <3>2, <3>3 DEF Outages
  <2> QED
    BY <2>1, <2>2
    DEF Reconnect, ReconnectCheck, ReconnectWait, ReconnectDial, ReconnectUp, ConnectError
<1> QED  BY <1>1, <1>2, OutageKeptAside

LEMMA OutageNext ==
    ASSUME TypeGroupsOK, TypeGroupsOK', StrategyInv, OutageInv, [Next]_vars
    PROVE  OutageInv'
<1> USE OutagesNat
<1>1. ASSUME NEW r \in Readers, ReadStep(r) \/ NetworkLoss(r), UNCHANGED managerVars
      PROVE  OutageInv'
  <2>1. ASSUME OneSession
        PROVE  OneDownQueued' /\ Outages' <= Outages
    <3>1. OneDownQueued /\ LinkOutages <= 1
      BY <2>1 DEF OutageInv, Outages
    <3>2. OneDownQueued' /\ LinkOutages' = LinkOutages
      BY <1>1, <3>1, LinkTokenKept
    <3> QED  BY <1>1, <3>2 DEF managerVars, goroutines, Redialers, Outages
  <2> QED  BY <1>1, <2>1, OutageKeptAside DEF managerVars
<1>2. CASE UNCHANGED vars
  <2>1. /\ UNCHANGED <<cpc, budget, fwd, redial>>
        /\ UNCHANGED <<connected, mu, eventChan>>
    BY <1>2 DEF vars, strategyVars, managerVars, goroutines, link, events
  <2>2. UNCHANGED <<LinkOutages, OneDownQueued, Outages>>
    BY <2>1 DEF LinkOutages, DownQueued, OneDownQueued, Redialers, Outages
  <2>3. Outages \in Nat
    BY DEF Outages
  <2> QED  BY <2>1, <2>2, <2>3, OutageKeptAside DEF OutageInv
<1> QED
  BY <1>1, <1>2, OutageBegin, OutageCall, OutageForward, OutageReconnect DEF Next

LEMMA OutageInvariance == Spec => [](StrategyInv /\ TypeGroupsOK /\ OutageInv)
<1>1. ManagerInit => OutageInv
  <2> SUFFICES ASSUME ManagerInit PROVE OutageInv
    OBVIOUS
  <2>1. LinkOutages = 0 /\ OneDownQueued /\ Redialers = 0 /\ fwd["lost"] = 0
    BY StrategyAssumption
    DEF ManagerInit, StrategyInit, LinkOutages, AsCount, DownQueued, OneDownQueued, Redialers,
        ForwardPoints, RedialPoints
  <2>2. Calls["connect"] \in Nat /\ Calls["disconnect"] \in Nat /\ budget = Calls
    BY ManagerAssumption DEF ManagerInit, Operations
  <2>3. \A t \in Threads : cpc[t] = "idle"
    BY DEF ManagerInit
  <2> QED  BY <2>1, <2>2, <2>3 DEF OutageInv, Outages, Dialling
<1>2. TypeGroupsOK /\ TypeGroupsOK' /\ StrategyInv /\ OutageInv /\ [Next]_vars => OutageInv'
  BY OutageNext
<1> QED
  BY <1>1, <1>2, ManagerTypeInvariance, DrivesStrategy, Invariance, PTL DEF Spec

(* Within one session no redial meets a live link or another redial: there *)
(* is one outage at a time, whatever the order in which losses are         *)
(* reported, queued, handled and repaired.                                 *)
THEOREM OneOutage == Spec => []OneOutageAtATime
<1>1. OutageInv => OneOutageAtATime
  BY DEF OutageInv, OneOutageAtATime, OneDownQueued, Outages, LinkOutages
<1> QED  BY <1>1, OutageInvariance, PTL

-----------------------------------------------------------------------------
(* LiveLinkIsVisible.  Within one session a link that is live shows, or    *)
(* the goroutine that dialled it is about to say so: whoever writes        *)
(* another state holds the token, so that the link is not live.            *)

VisibleInv ==
    OneSession /\ connected /\ ~closing =>
        state = "Connected" \/ redial["up"] > 0 \/ \E t \in Threads : cpc[t] = "up"

LEMMA LiveLinkHoldsToken ==
    ASSUME TypeGroupsOK, OutageInv, OneSession, connected
    PROVE  /\ fwd["lost"] = 0 /\ Redialers = 0
           /\ \A t \in Threads : ~Dialling(t)
           /\ budget["connect"] < Calls["connect"]
<1> USE OutagesNat
<1>1. LinkOutages >= 1
  BY DEF LinkOutages, AsCount
<1> QED  BY <1>1 DEF OutageInv, Outages

LEMMA VisibleNext ==
    ASSUME TypeGroupsOK, OutageInv, VisibleInv, [Next]_vars
    PROVE  VisibleInv'
<1> USE OutagesNat DEF goroutines
<1>1. ASSUME connected' => connected, OneSession' => OneSession, closing => closing',
             UNCHANGED <<state, redial>>,
             \A t \in Threads : cpc[t] = "up" => cpc'[t] = "up"
      PROVE  VisibleInv'
  BY <1>1 DEF VisibleInv
<1>2. ASSUME NEW t \in Threads, ConnectBegin(t) \/ DisconnectBegin(t) \/ CloseBegin(t)
      PROVE  VisibleInv'
  <2>1. CASE ConnectBegin(t)
    <3>1. /\ budget'["connect"] = budget["connect"] - 1
          /\ budget'["disconnect"] = budget["disconnect"]
          /\ UNCHANGED connected
      BY <2>1
      DEF ConnectBegin, Begin, Leave, TypeGroupsOK, CallTypeOK, Operations, strategyVars, link
    <3>2. OneSession' => OneSession /\ budget["connect"] = Calls["connect"]
      BY <3>1 DEF OneSession, OutageInv
    <3>3. ~(OneSession' /\ connected')
      BY <3>1, <3>2, LiveLinkHoldsToken
    <3> QED  BY <3>3 DEF VisibleInv
  <2>2. CASE DisconnectBegin(t)
    <3>1. budget'["disconnect"] = budget["disconnect"] - 1
      BY <2>2 DEF DisconnectBegin, Begin, Leave, TypeGroupsOK, CallTypeOK, Operations
    <3> QED  BY <3>1 DEF OneSession, OutageInv, VisibleInv
  <2>3. CASE CloseBegin(t)
    BY <2>3 DEF CloseBegin, VisibleInv
  <2> QED  BY <1>2, <2>1, <2>2, <2>3
<1>3. ASSUME NEW t \in Threads, Call(t)
      PROVE  VisibleInv'
  <2>0. OneSession' <=> OneSession
    BY <1>3
    DEF Call, ConnectDial, ConnectFailed, ConnectUp, ConnectSpawn, DisconnectStrategy,
        DisconnectFinish, CloseStrategy, CloseReport, CloseFinish, CloseExpired, OneSession
  <2>1. CASE ConnectUp(t)
    BY <2>1 DEF ConnectUp, VisibleInv
  <2>2. CASE ConnectFailed(t)
    <3>1. Dialling(t) /\ UNCHANGED connected
      BY <2>2 DEF ConnectFailed, Step, Dialling, strategyVars, link
    <3> QED  BY <2>0, <3>1, LiveLinkHoldsToken DEF VisibleInv
  <2>3. CASE ConnectDial(t)
    <3>1. CASE Step(t, "dial", "up")
      <4>1. cpc'[t] = "up"
        BY <3>1 DEF Step, TypeGroupsOK, CallTypeOK
      <4> QED  BY <4>1 DEF VisibleInv
    <3>2. CASE Step(t, "dial", "failed") /\ ConnectError
      <4>1. /\ UNCHANGED <<connected, state, redial, closing>>
            /\ \A u \in Threads : cpc[u] = "up" => cpc'[u] = "up"
        BY <2>3, <3>2
        DEF ConnectDial, ConnectError, strategyVars, link, Step, TypeGroupsOK, CallTypeOK
      <4> QED  BY <1>1, <2>0, <4>1
    <3> QED  BY <2>3, <3>1, <3>2 DEF ConnectDial
  <2>4. ASSUME ~ConnectUp(t), ~ConnectFailed(t), ~ConnectDial(t)
        PROVE  VisibleInv'
    <3>1. /\ UNCHANGED <<state, redial, closing>>
          /\ connected' => connected
          /\ \E p \in CallPoints \ {"up"}, q \in CallPoints : Step(t, p, q)
      BY <1>3, <2>4
      DEF Call, ConnectSpawn, DisconnectStrategy, DisconnectFinish, CloseStrategy, CloseReport,
          CloseFinish, CloseExpired, DisconnectNoop, DisconnectDown, DisconnectReport,
          strategyVars, link, CallPoints
    <3>2. \A u \in Threads : cpc[u] = "up" => cpc'[u] = "up"
      BY <3>1 DEF Step, TypeGroupsOK, CallTypeOK
    <3> QED  BY <1>1, <2>0, <3>1, <3>2
  <2> QED  BY <2>1, <2>2, <2>3, <2>4
<1>4. CASE HandleConnectionLost
  <2>1. fwd["lost"] > 0 /\ UNCHANGED connected /\ (OneSession' <=> OneSession)
    BY <1>4 DEF HandleConnectionLost, strategyVars, link, OneSession
  <2> QED  BY <2>1, LiveLinkHoldsToken DEF VisibleInv
<1>5. CASE ForwardMessages \/ ForwardEvent \/ ForwardEventsStop
  <2>1. UNCHANGED <<connected, state, redial, closing, cpc, budget>>
    BY <1>5
    DEF ForwardMessages, ForwardMessage, ForwardMessagesStop, ForwardEvent, ForwardEventsStop,
        TakeMessage, TakeEvent, strategyVars, link, managerVars
  <2> QED  BY <1>1, <2>1 DEF OneSession
<1>6. CASE Reconnect
  <2>0. (OneSession' <=> OneSession) /\ UNCHANGED <<closing, cpc>>
    BY <1>6 DEF Reconnect, ReconnectCheck, ReconnectWait, ReconnectDial, ReconnectUp, OneSession
  <2>1. CASE ReconnectUp
    BY <2>1 DEF ReconnectUp, VisibleInv
  <2>2. CASE redial["check"] + redial["wait"] + redial["dial"] > 0 /\ UNCHANGED connected
    BY <2>0, <2>2, LiveLinkHoldsToken DEF Redialers, VisibleInv
  <2>3. CASE ReconnectDial /\ redial' = Move(redial, "dial", "up")
    <3>1. redial'["up"] > 0
      BY <2>3 DEF Enter, Leave, Move, TypeGroupsOK, GoroutineTypeOK, RedialPoints
    <3> QED  BY <3>1 DEF VisibleInv
  <2> QED
    BY <1>6, <2>1, <2>2, <2>3
    DEF Reconnect, ReconnectCheck, ReconnectWait, ReconnectDial, ConnectError, strategyVars,
        link, TypeGroupsOK, GoroutineTypeOK, RedialPoints
<1>7. ASSUME NEW r \in Readers, ReadStep(r) \/ NetworkLoss(r), UNCHANGED managerVars
      PROVE  VisibleInv'
  <2>1. connected' => connected
    BY <1>7
    DEF ReadStep, ReadTop, ReadEnvelope, ReadMessage, SendEvent, SendMessage, ReadError,
        SendError, ReadExit, ReportLoss, NetworkLoss, link
  <2> QED  BY <1>1, <1>7, <2>1 DEF managerVars, OneSession
<1>8. CASE UNCHANGED vars
  BY <1>1, <1>8 DEF vars, strategyVars, link, managerVars, OneSession
<1> QED  BY <1>2, <1>3, <1>4, <1>5, <1>6, <1>7, <1>8 DEF Next, ForwardEvents

(* At rest a live link shows, within one session: no order of calls,       *)
(* losses and reconnections leaves the client with a link it denies.       *)
THEOREM LiveLinkVisible == Spec => []LiveLinkIsVisible
<1>1. ManagerInit => VisibleInv
  BY DEF ManagerInit, StrategyInit, VisibleInv
<1>2. TypeGroupsOK /\ VisibleInv => LiveLinkIsVisible
  BY DEF VisibleInv, LiveLinkIsVisible, AtRest, RedialPoints
<1>3. TypeGroupsOK /\ OutageInv /\ VisibleInv /\ [Next]_vars => VisibleInv'
  BY VisibleNext
<1> QED  BY <1>1, <1>2, <1>3, OutageInvariance, PTL DEF Spec

-----------------------------------------------------------------------------
(* ClosedIsReleased.  A manager that is Closed over a live link is in the  *)
(* middle of Close, or somebody who dialled is about to overwrite Closed.  *)

ReleasedInv ==
    state = "Closed" /\ connected =>
        redial["up"] > 0 \/ \E t \in Threads : cpc[t] \in {"close", "up"}

LEMMA ReleasedNext ==
    ASSUME TypeGroupsOK, ReleasedInv, [Next]_vars
    PROVE  ReleasedInv'
<1> USE DEF goroutines
<1>1. ASSUME connected' => connected, UNCHANGED <<state, redial>>,
             \A t \in Threads : cpc[t] \in {"close", "up"} => cpc'[t] = cpc[t]
      PROVE  ReleasedInv'
  BY <1>1 DEF ReleasedInv
<1>2. ASSUME NEW t \in Threads, ConnectBegin(t) \/ DisconnectBegin(t) \/ CloseBegin(t)
      PROVE  ReleasedInv'
  <2>1. CASE ConnectBegin(t) \/ DisconnectBegin(t)
    BY <2>1 DEF ConnectBegin, DisconnectBegin, ReleasedInv
  <2>2. CASE CloseBegin(t)
    <3>1. cpc'[t] = "close"
      BY <2>2 DEF CloseBegin, Begin, Step, TypeGroupsOK, CallTypeOK
    <3> QED  BY <3>1 DEF ReleasedInv
  <2> QED  BY <1>2, <2>1, <2>2
<1>3. ASSUME NEW t \in Threads, Call(t)
      PROVE  ReleasedInv'
  <2>1. CASE ConnectUp(t) \/ ConnectFailed(t)
    BY <2>1 DEF ConnectUp, ConnectFailed, ReleasedInv
  <2>2. CASE cpc'[t] = "up"
    BY <2>2 DEF ReleasedInv
  <2>3. CASE ~connected'
    BY <2>3 DEF ReleasedInv
  <2>4. ASSUME ~ConnectUp(t), ~ConnectFailed(t), cpc'[t] # "up", connected'
        PROVE  ReleasedInv'
    <3>1. /\ UNCHANGED <<state, redial>>
          /\ connected
          /\ \E p \in CallPoints \ {"close", "up"}, q \in CallPoints : Step(t, p, q)
      BY <1>3, <2>4
      DEF Call, ConnectDial, ConnectSpawn, DisconnectStrategy, DisconnectFinish, CloseStrategy,
          CloseReport, CloseFinish, CloseExpired, ConnectError, DisconnectNoop, DisconnectDown,
          DisconnectReport, strategyVars, link, CallPoints, Step, TypeGroupsOK, CallTypeOK
    <3>2. \A u \in Threads : cpc[u] \in {"close", "up"} => cpc'[u] = cpc[u]
      BY <3>1 DEF Step, TypeGroupsOK, CallTypeOK
    <3> QED  BY <1>1, <3>1, <3>2
  <2> QED  BY <2>1, <2>2, <2>3, <2>4
<1>4. CASE HandleConnectionLost
  BY <1>4 DEF HandleConnectionLost, strategyVars, link, ReleasedInv
<1>5. CASE ForwardMessages \/ ForwardEvent \/ ForwardEventsStop
  <2>1. UNCHANGED <<connected, state, redial, cpc>>
    BY <1>5
    DEF ForwardMessages, ForwardMessage, ForwardMessagesStop, ForwardEvent, ForwardEventsStop,
        TakeMessage, TakeEvent, strategyVars, link, managerVars
  <2> QED  BY <1>1, <2>1
<1>6. CASE Reconnect
  <2>1. CASE ReconnectDial /\ redial' = Move(redial, "dial", "up")
    <3>1. redial'["up"] > 0
      BY <2>1 DEF Enter, Leave, Move, TypeGroupsOK, GoroutineTypeOK, RedialPoints
    <3> QED  BY <3>1 DEF ReleasedInv
  <2>2. CASE UNCHANGED connected /\ ~ReconnectUp
    <3>1. /\ UNCHANGED cpc
          /\ state' = "Closed" => state = "Closed"
          /\ redial["up"] > 0 => redial'["up"] > 0
      BY <1>6, <2>2
      DEF Reconnect, ReconnectCheck, ReconnectWait, ReconnectDial, Enter, Leave, Move,
          TypeGroupsOK, GoroutineTypeOK, RedialPoints
    <3> QED  BY <2>2, <3>1 DEF ReleasedInv
  <2>3. CASE ReconnectUp
    BY <2>3 DEF ReconnectUp, ReleasedInv
  <2> QED
    BY <1>6, <2>1, <2>2, <2>3
    DEF Reconnect, ReconnectCheck, ReconnectWait, ReconnectDial, ConnectError, strategyVars, link
<1>7. ASSUME NEW r \in Readers, ReadStep(r) \/ NetworkLoss(r), UNCHANGED managerVars
      PROVE  ReleasedInv'
  <2>1. connected' => connected
    BY <1>7
    DEF ReadStep, ReadTop, ReadEnvelope, ReadMessage, SendEvent, SendMessage, ReadError,
        SendError, ReadExit, ReportLoss, NetworkLoss, link
  <2> QED  BY <1>1, <1>7, <2>1 DEF managerVars
<1>8. CASE UNCHANGED vars
  BY <1>1, <1>8 DEF vars, strategyVars, link, managerVars
<1> QED  BY <1>2, <1>3, <1>4, <1>5, <1>6, <1>7, <1>8 DEF Next, ForwardEvents

(* At rest a manager that reports Closed has released its connection.      *)
THEOREM ClosedReleased == Spec => []ClosedIsReleased
<1>1. ManagerInit => ReleasedInv
  BY DEF ManagerInit, ReleasedInv
<1>2. TypeGroupsOK /\ ReleasedInv => ClosedIsReleased
  BY DEF ReleasedInv, ClosedIsReleased, AtRest, RedialPoints
<1>3. TypeGroupsOK /\ ReleasedInv /\ [Next]_vars => ReleasedInv'
  BY ReleasedNext
<1> QED  BY <1>1, <1>2, <1>3, ManagerTypeInvariance, PTL DEF Spec
=============================================================================
