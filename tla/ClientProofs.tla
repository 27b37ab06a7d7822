----------------------------- MODULE ClientProofs -----------------------------
(***************************************************************************)
(* Proofs about the client's own parts, for every value of their           *)
(* constants:                                                              *)
(*                                                                         *)
(*   EventBus        whoever was subscribed hears an event, and nobody     *)
(*                   after his subscription was taken back                 *)
(*   Stream          is a user of the bus; its events come in order        *)
(*   Configuration   what a client runs with                               *)
(*   Messages        a message is written as it was sent                   *)
(*   ClientChannels  what Channels() can be trusted about                  *)
(***************************************************************************)
EXTENDS Stream, ClientChannels, Configuration, Messages, FiniteSetTheorems,
        WellFoundedInduction, TLAPS

-----------------------------------------------------------------------------
(* EventBus.  While a NotifySync holds the read lock nobody writes, so the *)
(* subscribers of its event stay what they were when it began; and an      *)
(* event is heard in one of two ways, from its NotifySync or from the      *)
(* goroutines of its Notify.                                               *)

MapsOK ==
    /\ issuedSubs \in 0..MaxSubs
    /\ subscriptions \in [Types -> SUBSET (1..issuedSubs)]
    /\ mapped \in SUBSET Types
    /\ allHandlers \subseteq 1..issuedSubs
    /\ \A t \in Types : subscriptions[t] \cap allHandlers = {}
    /\ \A t, u \in Types : t # u => subscriptions[t] \cap subscriptions[u] = {}
    /\ removed = {s \in (1..issuedSubs) \ allHandlers : \A t \in Types : s \notin subscriptions[t]}

RequestsOK ==
    /\ request \in [Users -> Requests \cup {NoRequest}]
    /\ \A u \in Users : request[u].op = "Unsubscribe" => request[u].id <= issuedSubs
    /\ issuedSubs + Cardinality(Announced) <= MaxSubs

EventsOK ==
    /\ type \in [EventIDs -> Types \cup {NoType}]
    /\ syncing = {e \in EventIDs : type[e] # NoType}
    /\ visited \in [EventIDs -> SUBSET (1..issuedSubs)]
    /\ spawned \subseteq EventIDs \X (1..issuedSubs)
    /\ due \in [EventIDs -> SUBSET SubIDs]
    /\ \A e \in EventIDs : e \notin syncing => visited[e] = {}
    /\ \A e \in syncing, s \in SubIDs : <<e, s>> \notin spawned

BusInv == MapsOK /\ RequestsOK /\ EventsOK /\ HeardBySubscribers

LEMMA RequestFacts ==
    ASSUME NEW r \in Requests \cup {NoRequest}
    PROVE  /\ r.op = "none" <=> r = NoRequest
           /\ r.op \in {"Subscribe", "SubscribeAll", "Unsubscribe", "Clear", "none"}
           /\ r.op = "Subscribe" => r.type \in Types
           /\ r.op = "Unsubscribe" => r.id \in SubIDs
BY DEF Requests, NoRequest

LEMMA AnnouncedFinite == IsFiniteSet(Announced) /\ Cardinality(Announced) \in Nat
<1>1. Announced \subseteq Users
  BY DEF Announced
<1> QED  BY <1>1, BusAssumption, FS_Subset, FS_CardinalityType

LEMMA BusInitInv == BusInit => BusInv
<1> SUFFICES ASSUME BusInit PROVE BusInv
  OBVIOUS
<1> USE BusAssumption DEF BusInit
<1>1. MapsOK
  BY DEF MapsOK
<1>2. RequestsOK
  <2>1. Announced = {}
    BY DEF Announced, NoRequest
  <2>2. Cardinality(Announced) = 0
    BY <2>1, FS_EmptySet
  <2> QED  BY <2>2 DEF RequestsOK, NoRequest
<1>3. EventsOK
  BY DEF EventsOK, EventIDs, SubIDs
<1>4. HeardBySubscribers
  BY DEF HeardBySubscribers
<1> QED  BY <1>1, <1>2, <1>3, <1>4 DEF BusInv

(* A call that asks for the lock.                                          *)
LEMMA RequestNext ==
    ASSUME BusInv, NEW u \in Users, NEW r \in Requests, Request(u, r)
    PROVE  BusInv'
<1> USE BusAssumption DEF BusInv
<1>1. /\ request[u] = NoRequest /\ UNCHANGED <<busMaps, busEvents>>
      /\ request' = [request EXCEPT ![u] = r]
      /\ r.op \in {"Subscribe", "SubscribeAll"} => issuedSubs + Cardinality(Announced) < MaxSubs
      /\ r.op = "Unsubscribe" => r.id <= issuedSubs
  BY DEF Request
<1>2. MapsOK' /\ EventsOK' /\ HeardBySubscribers'
  BY <1>1 DEF MapsOK, EventsOK, HeardBySubscribers, Subscribers, busMaps, busEvents
<1>3. /\ request' \in [Users -> Requests \cup {NoRequest}]
      /\ request'[u] = r /\ \A v \in Users \ {u} : request'[v] = request[v]
  BY <1>1 DEF RequestsOK
<1>4. u \notin Announced
  BY <1>1 DEF Announced, NoRequest
<1>5. issuedSubs \in Nat /\ issuedSubs' = issuedSubs
  BY <1>1 DEF MapsOK, busMaps
<1>6. issuedSubs + Cardinality(Announced') <= MaxSubs
  <2>1. CASE r.op \in {"Subscribe", "SubscribeAll"}
    <3>1. Announced' = Announced \cup {u}
      BY <1>3, <2>1 DEF Announced
    <3>2. Cardinality(Announced') = Cardinality(Announced) + 1
      BY <1>4, <3>1, AnnouncedFinite, FS_AddElement
    <3> QED  BY <1>1, <1>5, <2>1, <3>2, AnnouncedFinite
  <2>2. CASE r.op \notin {"Subscribe", "SubscribeAll"}
    <3>1. Announced' = Announced
      BY <1>3, <1>4, <2>2 DEF Announced
    <3> QED  BY <3>1 DEF RequestsOK
  <2> QED  BY <2>1, <2>2
<1>7. RequestsOK'
  BY <1>1, <1>3, <1>5, <1>6 DEF RequestsOK
<1> QED  BY <1>2, <1>7

(* A writer has the lock, so no NotifySync is under way.                   *)
LEMMA WriterEvents ==
    ASSUME BusInv, NEW u \in Users, NEW op, Locked(u, op),
           issuedSubs' \in Nat, issuedSubs <= issuedSubs'
    PROVE  EventsOK' /\ HeardBySubscribers'
<1>1. UNCHANGED busEvents /\ syncing = {}
  BY DEF Locked
<1>2. issuedSubs \in Nat /\ 1..issuedSubs \subseteq 1..issuedSubs'
  BY DEF BusInv, MapsOK
<1>3. EventsOK'
  BY <1>1, <1>2 DEF BusInv, EventsOK, busEvents
<1>4. HeardBySubscribers'
  BY <1>1 DEF BusInv, HeardBySubscribers, busEvents
<1> QED  BY <1>3, <1>4

LEMMA WriterRequests ==
    ASSUME BusInv, NEW u \in Users, NEW op \in {"Subscribe", "SubscribeAll", "Unsubscribe", "Clear"},
           Locked(u, op),
           issuedSubs' = IF op \in {"Subscribe", "SubscribeAll"} THEN issuedSubs + 1
                         ELSE issuedSubs
    PROVE  RequestsOK' /\ issuedSubs' \in 0..MaxSubs /\ issuedSubs <= issuedSubs'
<1> USE BusAssumption DEF BusInv
<1>1. request[u].op = op /\ request' = [request EXCEPT ![u] = NoRequest]
  BY DEF Locked
<1>2. /\ request' \in [Users -> Requests \cup {NoRequest}]
      /\ request'[u].op = "none" /\ \A v \in Users \ {u} : request'[v] = request[v]
  BY <1>1 DEF RequestsOK, NoRequest
<1>3. issuedSubs \in Nat /\ issuedSubs' \in Nat /\ issuedSubs <= issuedSubs'
  BY DEF MapsOK
<1>4. issuedSubs' + Cardinality(Announced') <= MaxSubs
  <2>1. CASE op \in {"Subscribe", "SubscribeAll"}
    <3>1. Announced' = Announced \ {u} /\ u \in Announced
      BY <1>1, <1>2, <2>1 DEF Announced
    <3>2. Cardinality(Announced') = Cardinality(Announced) - 1
      BY <3>1, AnnouncedFinite, FS_RemoveElement
    <3> QED  BY <1>3, <2>1, <3>2, AnnouncedFinite DEF RequestsOK
  <2>2. CASE op \notin {"Subscribe", "SubscribeAll"}
    <3>1. Announced' = Announced
      BY <1>1, <1>2, <2>2 DEF Announced
    <3> QED  BY <2>2, <3>1 DEF RequestsOK
  <2> QED  BY <2>1, <2>2
<1>5. issuedSubs' <= MaxSubs
  <2>1. Cardinality(Announced') \in Nat
    <3>1. Announced' \subseteq Users
      BY DEF Announced
    <3> QED  BY <3>1, FS_Subset, FS_CardinalityType
  <2> QED  BY <1>3, <1>4, <2>1
<1>6. \A v \in Users : request'[v].op = "Unsubscribe" => request'[v].id <= issuedSubs'
  <2> SUFFICES ASSUME NEW v \in Users, request'[v].op = "Unsubscribe"
               PROVE  request'[v].id <= issuedSubs'
    OBVIOUS
  <2>1. v # u /\ request'[v] = request[v]
    BY <1>2
  <2>2. request[v].id <= issuedSubs /\ request[v].id \in Nat
    BY <2>1, RequestFacts DEF RequestsOK, SubIDs
  <2> QED  BY <1>3, <2>1, <2>2
<1> QED  BY <1>2, <1>3, <1>4, <1>5, <1>6 DEF RequestsOK

LEMMA WriterNext ==
    ASSUME BusInv, NEW u \in Users, BusProceed(u)
    PROVE  BusInv'
<1> USE DEF BusInv
<1>0. issuedSubs \in Nat
  BY DEF MapsOK
<1>1. CASE Subscribe(u)
  <2> DEFINE t == request[u].type
             new == issuedSubs + 1
  <2>1. /\ Locked(u, "Subscribe") /\ issuedSubs' = new
        /\ subscriptions' = [subscriptions EXCEPT ![t] = @ \cup {new}]
        /\ mapped' = mapped \cup {t} /\ UNCHANGED <<allHandlers, removed>>
    BY <1>1 DEF Subscribe
  <2>2. t \in Types
    BY <2>1, RequestFacts DEF Locked, RequestsOK
  <2>3. RequestsOK' /\ issuedSubs' \in 0..MaxSubs /\ issuedSubs <= issuedSubs'
    BY <2>1, WriterRequests
  <2>4. EventsOK' /\ HeardBySubscribers'
    BY <2>1, <2>3, WriterEvents
  <2>5. /\ new \notin 1..issuedSubs /\ 1..new = (1..issuedSubs) \cup {new}
    BY <1>0
  <2>6. MapsOK'
    <3> HIDE DEF t, new
    <3>1. /\ subscriptions'[t] = subscriptions[t] \cup {new}
          /\ \A v \in Types : v # t => subscriptions'[v] = subscriptions[v]
          /\ subscriptions' \in [Types -> SUBSET (1..new)]
      BY <2>1, <2>2, <2>5 DEF MapsOK
    <3>2. \A v \in Types : subscriptions[v] \subseteq 1..issuedSubs
      BY DEF MapsOK
    <3>3. \A v \in Types : subscriptions'[v] \cap allHandlers' = {}
      BY <2>1, <2>5, <3>1, <3>2 DEF MapsOK
    <3>4. \A v, w \in Types : v # w => subscriptions'[v] \cap subscriptions'[w] = {}
      BY <2>5, <3>1, <3>2 DEF MapsOK
    <3>5. removed' = {s \in (1..issuedSubs') \ allHandlers' :
                          \A v \in Types : s \notin subscriptions'[v]}
      BY <2>1, <2>2, <2>5, <3>1 DEF MapsOK
    <3> QED  BY <2>1, <2>2, <2>3, <2>5, <3>1, <3>3, <3>4, <3>5 DEF MapsOK
  <2> QED  BY <2>3, <2>4, <2>6
<1>2. CASE SubscribeAll(u)
  <2> DEFINE new == issuedSubs + 1
  <2>1. /\ Locked(u, "SubscribeAll") /\ issuedSubs' = new
        /\ allHandlers' = allHandlers \cup {new}
        /\ UNCHANGED <<subscriptions, mapped, removed>>
    BY <1>2 DEF SubscribeAll
  <2>3. RequestsOK' /\ issuedSubs' \in 0..MaxSubs /\ issuedSubs <= issuedSubs'
    BY <2>1, WriterRequests
  <2>4. EventsOK' /\ HeardBySubscribers'
    BY <2>1, <2>3, WriterEvents
  <2>5. /\ new \notin 1..issuedSubs /\ 1..new = (1..issuedSubs) \cup {new}
    BY <1>0
  <2>6. MapsOK'
    <3> HIDE DEF new
    <3>1. subscriptions' \in [Types -> SUBSET (1..issuedSubs')]
      BY <2>1, <2>5 DEF MapsOK
    <3>2. \A v \in Types : new \notin subscriptions[v]
      BY <2>5 DEF MapsOK
    <3> QED  BY <2>1, <2>3, <2>5, <3>1, <3>2 DEF MapsOK
  <2> QED  BY <2>3, <2>4, <2>6
<1>3. CASE Unsubscribe(u)
  <2> DEFINE id == request[u].id
  <2>1. /\ Locked(u, "Unsubscribe") /\ issuedSubs' = issuedSubs
        /\ subscriptions' = [t \in Types |-> subscriptions[t] \ {id}]
        /\ allHandlers' = allHandlers \ {id} /\ removed' = removed \cup {id}
        /\ mapped' = mapped
    BY <1>3 DEF Unsubscribe
  <2>2. id \in 1..issuedSubs
    <3>1. request[u].op = "Unsubscribe" /\ id \in SubIDs /\ id <= issuedSubs
      BY <2>1, RequestFacts DEF Locked, RequestsOK
    <3> QED  BY <1>0, <3>1 DEF SubIDs
  <2>3. RequestsOK' /\ issuedSubs' \in 0..MaxSubs /\ issuedSubs <= issuedSubs'
    BY <2>1, WriterRequests
  <2>4. EventsOK' /\ HeardBySubscribers'
    BY <2>1, <2>3, WriterEvents
  <2>6. MapsOK'
    <3> HIDE DEF id
    <3> QED  BY <2>1, <2>2, <2>3 DEF MapsOK
  <2> QED  BY <2>3, <2>4, <2>6
<1>4. CASE Clear(u)
  <2>1. /\ Locked(u, "Clear") /\ issuedSubs' = issuedSubs
        /\ subscriptions' = [t \in Types |-> {}]
        /\ mapped' = {} /\ allHandlers' = {} /\ removed' = 1..issuedSubs
    BY <1>4 DEF Clear
  <2>3. RequestsOK' /\ issuedSubs' \in 0..MaxSubs /\ issuedSubs <= issuedSubs'
    BY <2>1, WriterRequests
  <2>4. EventsOK' /\ HeardBySubscribers'
    BY <2>1, <2>3, WriterEvents
  <2>6. MapsOK'
    BY <2>1, <2>3 DEF MapsOK
  <2> QED  BY <2>3, <2>4, <2>6
<1> QED  BY <1>1, <1>2, <1>3, <1>4 DEF BusProceed

(* Of a non-empty set of numbers there is a least one.                     *)
LEMMA LeastEvent ==
    ASSUME NEW S \in SUBSET Nat, S # {}
    PROVE  \E x \in S : \A y \in S : x <= y
<1>1. PICK x \in S : \A y \in S : ~ (<<y, x>> \in OpToRel(<, Nat))
  BY NatLessThanWellFounded, WFMin
<1>2. \A y \in S : ~(y < x)
  BY <1>1 DEF OpToRel
<1> QED  BY <1>2

LEMMA NewEventIsOver == Over # {} => NewEvent \in Over
<1> SUFFICES ASSUME Over # {} PROVE NewEvent \in Over
  OBVIOUS
<1>1. Over \in SUBSET Nat
  BY DEF Over, EventIDs
<1>2. \E e \in Over : \A f \in Over : e <= f
  BY <1>1, LeastEvent
<1> QED  BY <1>2 DEF NewEvent

LEMMA SubscribersFacts ==
    ASSUME MapsOK, NEW t \in Types
    PROVE  Subscribers(t) \subseteq 1..issuedSubs /\ Subscribers(t) \subseteq SubIDs
           /\ Subscribers(t) \cap removed = {}
<1>1. Subscribers(t) \subseteq 1..issuedSubs
  BY DEF MapsOK, Subscribers
<1>2. 1..issuedSubs \subseteq SubIDs
  BY BusAssumption DEF MapsOK, SubIDs
<1>3. \A s \in removed : s \notin allHandlers /\ s \notin subscriptions[t]
  BY DEF MapsOK
<1> QED  BY <1>1, <1>2, <1>3 DEF Subscribers

(* Those that an event under way is for.                                   *)
Hearers(e) == Subscribers(type[e])

LEMMA ReaderKept ==
    ASSUME BusInv, UNCHANGED <<busMaps, request>>
    PROVE  MapsOK' /\ RequestsOK' /\ UNCHANGED <<subscriptions, allHandlers>>
<1>1. MapsOK'
  BY DEF BusInv, MapsOK, busMaps
<1>2. Announced' = Announced /\ UNCHANGED <<request, issuedSubs>>
  BY DEF Announced, busMaps
<1>3. RequestsOK'
  BY <1>2 DEF BusInv, RequestsOK
<1> QED  BY <1>1, <1>3 DEF busMaps

LEMMA NotifyNext ==
    ASSUME BusInv, NEW t \in Types, Notify(t) \/ NotifySync(t)
    PROVE  BusInv'
<1> USE DEF BusInv
<1> DEFINE e == NewEvent
<1>1. /\ Over # {} /\ due' = [due EXCEPT ![e] = Subscribers(t)]
      /\ UNCHANGED <<busMaps, request, visited>>
  BY DEF Notify, NotifySync, Begin
<1>2. /\ e \in EventIDs /\ e \notin syncing /\ \A s \in SubIDs : <<e, s>> \notin spawned
  BY <1>1, NewEventIsOver DEF Over
<1>3. Subscribers(t) \subseteq 1..issuedSubs /\ Subscribers(t) \subseteq SubIDs
  BY SubscribersFacts
<1>4. MapsOK' /\ RequestsOK' /\ UNCHANGED <<subscriptions, allHandlers>>
  BY <1>1, ReaderKept
<1>5. UNCHANGED issuedSubs /\ issuedSubs \in Nat /\ 1..issuedSubs \subseteq SubIDs
  BY <1>1, BusAssumption DEF busMaps, MapsOK, SubIDs
<1> HIDE DEF e
<1>6. /\ due'[e] = Subscribers(t) /\ \A f \in EventIDs : f # e => due'[f] = due[f]
      /\ due' \in [EventIDs -> SUBSET SubIDs]
  BY <1>1, <1>2, <1>3 DEF EventsOK
<1>7. CASE Notify(t)
  <2>1. spawned' = spawned \cup {e} \X Subscribers(t) /\ UNCHANGED <<type, syncing>>
    BY <1>7 DEF Notify, e
  <2>2. /\ \A s \in SubIDs : <<e, s>> \in spawned' <=> s \in Subscribers(t)
        /\ \A f \in EventIDs, s \in SubIDs : f # e => (<<f, s>> \in spawned' <=> <<f, s>> \in spawned)
    BY <1>2, <2>1
  <2>3. EventsOK'
    <3>1. spawned' \subseteq EventIDs \X (1..issuedSubs)
      BY <1>2, <1>3, <2>1 DEF EventsOK
    <3>2. \A f \in syncing', s \in SubIDs : <<f, s>> \notin spawned'
      BY <1>2, <2>1, <2>2 DEF EventsOK
    <3> QED  BY <1>1, <1>5, <1>6, <2>1, <3>1, <3>2 DEF EventsOK
  <2>4. HeardBySubscribers'
    <3> SUFFICES ASSUME NEW f \in EventIDs
                 PROVE  due'[f] = IF f \in syncing' THEN Hearers(f)' \ visited'[f]
                                  ELSE {s \in SubIDs : <<f, s>> \in spawned'}
      BY DEF HeardBySubscribers, Hearers
    <3>1. CASE f = e
      BY <1>2, <1>3, <1>6, <2>1, <2>2, <3>1
    <3>2. CASE f # e /\ f \in syncing
      <4>1. type[f] \in Types
        BY <3>2 DEF EventsOK
      <4>2. due[f] = Subscribers(type[f]) \ visited[f]
        BY <3>2 DEF HeardBySubscribers
      <4> QED  BY <1>1, <1>4, <1>6, <2>1, <3>2, <4>1, <4>2 DEF Subscribers, Hearers
    <3>3. CASE f # e /\ f \notin syncing
      <4>1. due[f] = {s \in SubIDs : <<f, s>> \in spawned}
        BY <3>3 DEF HeardBySubscribers
      <4> QED  BY <1>6, <2>1, <2>2, <3>3, <4>1 DEF Subscribers, Hearers
    <3> QED  BY <3>1, <3>2, <3>3
  <2> QED  BY <1>4, <2>3, <2>4
<1>8. CASE NotifySync(t)
  <2>1. /\ syncing' = syncing \cup {e} /\ type' = [type EXCEPT ![e] = t] /\ UNCHANGED spawned
    BY <1>8 DEF NotifySync, e
  <2>2. /\ type'[e] = t /\ t # NoType /\ \A f \in EventIDs : f # e => type'[f] = type[f]
        /\ type' \in [EventIDs -> Types \cup {NoType}]
    BY <1>2, <2>1, BusAssumption DEF EventsOK
  <2>3. EventsOK'
    <3>1. syncing' = {f \in EventIDs : type'[f] # NoType}
      BY <1>2, <2>1, <2>2 DEF EventsOK
    <3>2. \A f \in syncing', s \in SubIDs : <<f, s>> \notin spawned'
      BY <1>2, <2>1 DEF EventsOK
    <3> QED  BY <1>1, <1>5, <1>6, <2>1, <2>2, <3>1, <3>2 DEF EventsOK
  <2>4. HeardBySubscribers'
    <3> SUFFICES ASSUME NEW f \in EventIDs
                 PROVE  due'[f] = IF f \in syncing' THEN Hearers(f)' \ visited'[f]
                                  ELSE {s \in SubIDs : <<f, s>> \in spawned'}
      BY DEF HeardBySubscribers, Hearers
    <3>1. CASE f = e
      <4>1. visited'[e] = {}
        BY <1>1, <1>2 DEF EventsOK
      <4> QED  BY <1>4, <1>6, <2>1, <2>2, <3>1, <4>1 DEF Subscribers, Hearers
    <3>2. CASE f # e /\ f \in syncing
      <4>1. type[f] \in Types
        BY <3>2 DEF EventsOK
      <4>2. due[f] = Subscribers(type[f]) \ visited[f]
        BY <3>2 DEF HeardBySubscribers
      <4> QED  BY <1>1, <1>4, <1>6, <2>1, <2>2, <3>2, <4>1, <4>2 DEF Subscribers, Hearers
    <3>3. CASE f # e /\ f \notin syncing
      <4>1. due[f] = {s \in SubIDs : <<f, s>> \in spawned}
        BY <3>3 DEF HeardBySubscribers
      <4> QED  BY <1>6, <2>1, <3>3, <4>1 DEF Subscribers, Hearers
    <3> QED  BY <3>1, <3>2, <3>3
  <2> QED  BY <1>4, <2>3, <2>4
<1> QED  BY <1>7, <1>8

LEMMA HandlersNext ==
    ASSUME BusInv, NEW e \in EventIDs,
           SyncStep(e) \/ \E s \in SubIDs : RunSubscriber(e, s)
    PROVE  BusInv'
<1> USE DEF BusInv
<1>1. UNCHANGED <<busMaps, request>>
  BY DEF SyncStep, RunSubscriber, CallHandler, NotifySyncEnd, Unlock
<1>2. /\ MapsOK' /\ RequestsOK' /\ UNCHANGED <<subscriptions, allHandlers>>
      /\ UNCHANGED issuedSubs
  BY <1>1, ReaderKept DEF busMaps
<1>3. \A f \in syncing : type[f] \in Types
  BY DEF EventsOK
<1>4. ASSUME NEW s \in SubIDs, RunSubscriber(e, s)
      PROVE  BusInv'
  <2>1. /\ <<e, s>> \in spawned /\ spawned' = spawned \ {<<e, s>>}
        /\ due' = [due EXCEPT ![e] = @ \ {s}] /\ UNCHANGED <<type, syncing, visited>>
    BY <1>4 DEF RunSubscriber
  <2>2. e \notin syncing
    BY <2>1 DEF EventsOK
  <2>3. /\ due'[e] = due[e] \ {s} /\ \A f \in EventIDs : f # e => due'[f] = due[f]
        /\ due' \in [EventIDs -> SUBSET SubIDs]
    BY <2>1 DEF EventsOK
  <2>4. EventsOK'
    BY <1>2, <2>1, <2>3 DEF EventsOK
  <2>5. HeardBySubscribers'
    <3> SUFFICES ASSUME NEW f \in EventIDs
                 PROVE  due'[f] = IF f \in syncing' THEN Hearers(f)' \ visited'[f]
                                  ELSE {x \in SubIDs : <<f, x>> \in spawned'}
      BY DEF HeardBySubscribers, Hearers
    <3>1. CASE f \in syncing
      <4>1. due[f] = Subscribers(type[f]) \ visited[f]
        BY <3>1 DEF HeardBySubscribers
      <4> QED  BY <1>2, <1>3, <2>1, <2>2, <2>3, <3>1, <4>1 DEF Subscribers, Hearers
    <3>2. CASE f \notin syncing
      <4>1. due[f] = {x \in SubIDs : <<f, x>> \in spawned}
        BY <3>2 DEF HeardBySubscribers
      <4> QED  BY <2>1, <2>3, <3>2, <4>1
    <3> QED  BY <3>1, <3>2
  <2> QED  BY <1>2, <2>4, <2>5
<1>5. ASSUME NEW s \in SubIDs, CallHandler(e, s)
      PROVE  BusInv'
  <2>1. /\ e \in syncing /\ s \in Subscribers(type[e])
        /\ visited' = [visited EXCEPT ![e] = @ \cup {s}]
        /\ due' = [due EXCEPT ![e] = @ \ {s}] /\ UNCHANGED <<type, syncing, spawned>>
    BY <1>5 DEF CallHandler, IsNext, Subscribers
  <2>2. s \in 1..issuedSubs
    BY <1>3, <2>1, SubscribersFacts
  <2>3. /\ due'[e] = due[e] \ {s} /\ \A f \in EventIDs : f # e => due'[f] = due[f]
        /\ due' \in [EventIDs -> SUBSET SubIDs]
        /\ visited'[e] = visited[e] \cup {s}
        /\ \A f \in EventIDs : f # e => visited'[f] = visited[f]
        /\ visited' \in [EventIDs -> SUBSET (1..issuedSubs)]
    BY <2>1, <2>2 DEF EventsOK
  <2>4. EventsOK'
    BY <1>2, <2>1, <2>3 DEF EventsOK
  <2>5. HeardBySubscribers'
    <3> SUFFICES ASSUME NEW f \in EventIDs
                 PROVE  due'[f] = IF f \in syncing' THEN Hearers(f)' \ visited'[f]
                                  ELSE {x \in SubIDs : <<f, x>> \in spawned'}
      BY DEF HeardBySubscribers, Hearers
    <3>1. CASE f \in syncing
      <4>1. due[f] = Subscribers(type[f]) \ visited[f]
        BY <3>1 DEF HeardBySubscribers
      <4> QED  BY <1>2, <1>3, <2>1, <2>3, <3>1, <4>1 DEF Subscribers, Hearers
    <3>2. CASE f \notin syncing
      <4>1. due[f] = {x \in SubIDs : <<f, x>> \in spawned}
        BY <3>2 DEF HeardBySubscribers
      <4> QED  BY <2>1, <2>3, <3>2, <4>1
    <3> QED  BY <3>1, <3>2
  <2> QED  BY <1>2, <2>4, <2>5
<1>6. CASE NotifySyncEnd(e)
  <2>1. /\ e \in syncing /\ Subscribers(type[e]) \subseteq visited[e]
        /\ syncing' = syncing \ {e} /\ type' = [type EXCEPT ![e] = NoType]
        /\ visited' = [visited EXCEPT ![e] = {}] /\ UNCHANGED <<spawned, due>>
    BY <1>6 DEF NotifySyncEnd, Unlock
  <2>2. /\ type'[e] = NoType /\ \A f \in EventIDs : f # e => type'[f] = type[f]
        /\ type' \in [EventIDs -> Types \cup {NoType}]
        /\ visited'[e] = {} /\ \A f \in EventIDs : f # e => visited'[f] = visited[f]
        /\ visited' \in [EventIDs -> SUBSET (1..issuedSubs)]
    BY <2>1 DEF EventsOK
  <2>3. \A s \in SubIDs : <<e, s>> \notin spawned
    BY <2>1 DEF EventsOK
  <2>4. EventsOK'
    <3>1. syncing' = {f \in EventIDs : type'[f] # NoType}
      BY <2>1, <2>2 DEF EventsOK
    <3> QED  BY <1>2, <2>1, <2>2, <3>1 DEF EventsOK
  <2>5. HeardBySubscribers'
    <3> SUFFICES ASSUME NEW f \in EventIDs
                 PROVE  due'[f] = IF f \in syncing' THEN Hearers(f)' \ visited'[f]
                                  ELSE {x \in SubIDs : <<f, x>> \in spawned'}
      BY DEF HeardBySubscribers, Hearers
    <3>1. CASE f = e
      <4>1. due[e] = {}
        BY <2>1 DEF HeardBySubscribers
      <4> QED  BY <2>1, <2>3, <3>1, <4>1
    <3>2. CASE f # e /\ f \in syncing
      <4>1. due[f] = Subscribers(type[f]) \ visited[f]
        BY <3>2 DEF HeardBySubscribers
      <4> QED  BY <1>2, <1>3, <2>1, <2>2, <3>2, <4>1 DEF Subscribers, Hearers
    <3>3. CASE f # e /\ f \notin syncing
      <4>1. due[f] = {x \in SubIDs : <<f, x>> \in spawned}
        BY <3>3 DEF HeardBySubscribers
      <4> QED  BY <2>1, <3>3, <4>1
    <3> QED  BY <3>1, <3>2, <3>3
  <2> QED  BY <1>2, <2>4, <2>5
<1> QED  BY <1>4, <1>5, <1>6 DEF SyncStep

LEMMA BusNextInv == BusInv /\ [BusNext]_busVars => BusInv'
<1> SUFFICES ASSUME BusInv, [BusNext]_busVars PROVE BusInv'
  OBVIOUS
<1>1. ASSUME NEW u \in Users, BusProceed(u) \/ \E r \in Requests : Request(u, r)
      PROVE  BusInv'
  BY <1>1, WriterNext, RequestNext
<1>2. ASSUME NEW t \in Types, Notify(t) \/ NotifySync(t)
      PROVE  BusInv'
  BY <1>2, NotifyNext
<1>3. ASSUME NEW e \in EventIDs, SyncStep(e) \/ \E s \in SubIDs : RunSubscriber(e, s)
      PROVE  BusInv'
  BY <1>3, HandlersNext
<1>4. CASE UNCHANGED busVars
  <2>1. UNCHANGED <<busMaps, request>> /\ UNCHANGED busEvents
    BY <1>4 DEF busVars
  <2>2. MapsOK' /\ RequestsOK'
    BY <2>1, ReaderKept
  <2>3. EventsOK' /\ HeardBySubscribers'
    BY <2>1 DEF BusInv, EventsOK, HeardBySubscribers, Subscribers, busMaps, busEvents
  <2> QED  BY <2>2, <2>3 DEF BusInv
<1> QED  BY <1>1, <1>2, <1>3, <1>4 DEF BusNext

LEMMA BusInvariance == BusSpec => []BusInv
BY BusInitInv, BusNextInv, PTL DEF BusSpec

LEMMA ClaimsHold == MapsOK => ClaimsAreTrue
<1> SUFFICES ASSUME MapsOK, NEW t \in Types, HasSubscribers(t)
             PROVE  SubscriberCount(t) > 0
  BY DEF ClaimsAreTrue
<1>1. IsFiniteSet(subscriptions[t]) /\ IsFiniteSet(allHandlers)
  <2>1. IsFiniteSet(1..issuedSubs)
    BY FS_Interval DEF MapsOK
  <2> QED  BY <2>1, FS_Subset DEF MapsOK
<1>2. Cardinality(subscriptions[t]) \in Nat /\ Cardinality(allHandlers) \in Nat
  BY <1>1, FS_CardinalityType
<1>3. subscriptions[t] # {} \/ allHandlers # {}
  BY DEF HasSubscribers
<1>4. Cardinality(subscriptions[t]) # 0 \/ Cardinality(allHandlers) # 0
  BY <1>1, <1>3, FS_EmptySet
<1> QED  BY <1>2, <1>4 DEF SubscriberCount

(* Whoever subscribes, unsubscribes and clears while events are notified,  *)
(* in whichever way: each event is heard by those subscribed when it was   *)
(* notified, and HasSubscribers claims none that Notify would not find     *)
(* (observer.go, EventBus).                                                *)
THEOREM EventsHeard == BusSpec => []EventsAreHeard
<1>1. BusInv => EventsAreHeard
  <2> SUFFICES ASSUME BusInv PROVE EventsAreHeard
    OBVIOUS
  <2>1. BusTypeOK
    BY DEF BusInv, MapsOK, RequestsOK, EventsOK, BusTypeOK
  <2> QED  BY <2>1, ClaimsHold DEF BusInv, EventsAreHeard
<1> QED  BY <1>1, BusInvariance, PTL

(* Once Unsubscribe or Clear has returned, nobody calls the handler or     *)
(* starts a goroutine for it, with any number of users and events.         *)
THEOREM RemovedStayQuiet == BusSpec => RemovedIsQuiet
<1>1. BusInv /\ [BusNext]_busVars => [StaysQuiet]_busVars
  <2> SUFFICES ASSUME BusInv, BusNext, NEW e \in EventIDs, NEW s \in removed
               PROVE  /\ s \in visited'[e] => s \in visited[e]
                      /\ <<e, s>> \in spawned' => <<e, s>> \in spawned
    BY DEF StaysQuiet
  <2> USE DEF BusInv
  <2>1. ASSUME NEW u \in Users, BusProceed(u) \/ \E r \in Requests : Request(u, r)
        PROVE  UNCHANGED <<visited, spawned>>
    BY <2>1 DEF BusProceed, Subscribe, SubscribeAll, Unsubscribe, Clear, Locked, Request,
                busEvents
  <2>2. ASSUME NEW t \in Types, Notify(t) \/ NotifySync(t)
        PROVE  /\ visited' = visited
               /\ <<e, s>> \in spawned' => <<e, s>> \in spawned
    <3>1. s \notin Subscribers(t)
      BY SubscribersFacts
    <3> QED  BY <2>2, <3>1 DEF Notify, NotifySync
  <2>3. ASSUME NEW f \in EventIDs, NEW x \in SubIDs, CallHandler(f, x)
        PROVE  /\ s \in visited'[e] => s \in visited[e]
               /\ spawned' = spawned
    <3>1. x \in Subscribers(type[f]) /\ type[f] \in Types
      BY <2>3 DEF CallHandler, IsNext, Subscribers, EventsOK
    <3>2. s # x
      BY <3>1, SubscribersFacts
    <3> QED  BY <2>3, <3>2 DEF CallHandler, EventsOK
  <2>4. ASSUME NEW f \in EventIDs, NEW x \in SubIDs, RunSubscriber(f, x)
        PROVE  visited' = visited /\ spawned' \subseteq spawned
    BY <2>4 DEF RunSubscriber
  <2>5. ASSUME NEW f \in EventIDs, NotifySyncEnd(f)
        PROVE  visited'[e] \subseteq visited[e] /\ spawned' = spawned
    BY <2>5 DEF NotifySyncEnd, Unlock, EventsOK
  <2> QED  BY <2>1, <2>2, <2>3, <2>4, <2>5 DEF BusNext, SyncStep
<1> QED  BY <1>1, BusInvariance, PTL DEF BusSpec, RemovedIsQuiet

-----------------------------------------------------------------------------
(* Stream.  Whoever holds the mutex has one event to notify: the frame he  *)
(* has counted, or the end; so what has been notified is told by the       *)
(* state, the sequence number and the holder.                              *)

StreamVariables == <<busVars, streamVars>>

Notified == IF holder # Nobody /\ stream = "active" THEN sequence - 1 ELSE sequence
Ended == stream = "ended" /\ holder = Nobody

MutexInv ==
    /\ stream \in {"none", "active", "ended"}
    /\ holder \in Streamers \cup {Nobody}
    /\ spc \in [Streamers -> {"idle", "SendFrame", "End", "FrameReceived", "StreamEnded"}]
    /\ \A g \in Streamers :
        /\ spc[g] = "FrameReceived" <=> holder = g /\ stream = "active"
        /\ spc[g] = "StreamEnded" <=> holder = g /\ stream = "ended"
        /\ stream = "none" => spc[g] = "idle"
    /\ stream = "none" => holder = Nobody

PublishedInv ==
    /\ sequence \in Nat
    /\ Notified \in Nat
    /\ published \in Seq(StreamTypes)
    /\ stream = "none" => published = <<>> /\ sequence = 0
    /\ stream # "none" =>
        /\ Len(published) = IF Ended THEN Notified + 2 ELSE Notified + 1
        /\ published[1] = "StreamStarted"
        /\ \A k \in 2..Notified + 1 : published[k] = "FrameReceived"
        /\ Ended => published[Notified + 2] = "StreamEnded"

StreamInv == MutexInv /\ PublishedInv

LEMMA StreamInitInv == StreamInit => StreamInv
BY StreamAssumption
DEF StreamInit, StreamInv, MutexInv, PublishedInv, Notified, Ended, Nobody

LEMMA AppendFacts ==
    ASSUME NEW S, NEW s \in Seq(S), NEW x \in S
    PROVE  /\ Append(s, x) \in Seq(S)
           /\ Len(s) \in Nat
           /\ Len(Append(s, x)) = Len(s) + 1
           /\ \A k \in 1..Len(s) : Append(s, x)[k] = s[k]
           /\ Append(s, x)[Len(s) + 1] = x
OBVIOUS

LEMMA StreamNextInv == StreamInv /\ [StreamNext]_StreamVariables => StreamInv'
<1> SUFFICES ASSUME StreamInv, [StreamNext]_StreamVariables PROVE StreamInv'
  OBVIOUS
<1> USE StreamAssumption DEF StreamInv, MutexInv
<1>1. CASE UNCHANGED streamVars
  BY <1>1 DEF streamVars, PublishedInv, Notified, Ended
<1>2. CASE StartStream
  <2>1. /\ stream = "none" /\ stream' = "active" /\ published' = Append(published, "StreamStarted")
        /\ UNCHANGED <<sequence, holder, spc>>
    BY <1>2 DEF StartStream, Publish
  <2>2. holder = Nobody /\ published = <<>> /\ sequence = 0
    BY <2>1 DEF PublishedInv
  <2>3. MutexInv'
    BY <2>1, <2>2
  <2>4. Notified' = 0 /\ ~Ended'
    BY <2>1, <2>2 DEF Notified, Ended
  <2>5. /\ published' \in Seq(StreamTypes) /\ Len(published') = 1
        /\ published'[1] = "StreamStarted"
    BY <2>1, <2>2 DEF StreamTypes
  <2>6. PublishedInv'
    BY <2>1, <2>2, <2>4, <2>5 DEF PublishedInv
  <2> QED  BY <2>3, <2>6
<1>3. ASSUME NEW g \in Streamers, NEW op \in {"SendFrame", "End"}, StreamCall(g, op)
      PROVE  StreamInv'
  <2>1. /\ stream # "none" /\ spc[g] = "idle" /\ spc' = [spc EXCEPT ![g] = op]
        /\ UNCHANGED <<stream, sequence, holder, published>>
    BY <1>3 DEF StreamCall
  <2>2. MutexInv'
    BY <2>1
  <2>3. PublishedInv'
    BY <2>1 DEF PublishedInv, Notified, Ended
  <2> QED  BY <2>2, <2>3
<1>4. ASSUME NEW g \in Streamers, Refused(g)
      PROVE  StreamInv'
  <2>1. /\ holder = Nobody /\ spc[g] \in {"SendFrame", "End"}
        /\ spc' = [spc EXCEPT ![g] = "idle"]
        /\ UNCHANGED <<stream, sequence, holder, published>>
    BY <1>4 DEF Refused, LockStream
  <2>2. MutexInv'
    BY <2>1
  <2>3. PublishedInv'
    BY <2>1 DEF PublishedInv, Notified, Ended
  <2> QED  BY <2>2, <2>3
<1>5. ASSUME NEW g \in Streamers, SendFrame(g)
      PROVE  StreamInv'
  <2>1. /\ spc[g] = "SendFrame" /\ holder = Nobody /\ stream = "active" /\ holder' = g
        /\ sequence' = sequence + 1 /\ spc' = [spc EXCEPT ![g] = "FrameReceived"]
        /\ UNCHANGED <<stream, published>>
    BY <1>5 DEF SendFrame, LockStream
  <2>2. MutexInv'
    BY <2>1
  <2>3. sequence \in Nat /\ Notified = sequence /\ Notified' = Notified /\ ~Ended /\ ~Ended'
    BY <2>1 DEF Notified, Ended, PublishedInv
  <2>4. PublishedInv'
    BY <2>1, <2>3 DEF PublishedInv
  <2> QED  BY <2>2, <2>4
<1>6. ASSUME NEW g \in Streamers, End(g)
      PROVE  StreamInv'
  <2>1. /\ spc[g] = "End" /\ holder = Nobody /\ stream = "active" /\ holder' = g
        /\ stream' = "ended" /\ spc' = [spc EXCEPT ![g] = "StreamEnded"]
        /\ UNCHANGED <<sequence, published>>
    BY <1>6 DEF End, LockStream
  <2>2. MutexInv'
    BY <2>1
  <2>3. sequence \in Nat /\ Notified = sequence /\ Notified' = Notified /\ ~Ended /\ ~Ended'
    BY <2>1 DEF Notified, Ended, PublishedInv
  <2>4. PublishedInv'
    BY <2>1, <2>3 DEF PublishedInv
  <2> QED  BY <2>2, <2>4
<1>7. ASSUME NEW g \in Streamers, NotifyStream(g)
      PROVE  StreamInv'
  <2>1. /\ spc[g] \in {"FrameReceived", "StreamEnded"} /\ holder' = Nobody
        /\ published' = Append(published, spc[g])
        /\ spc' = [spc EXCEPT ![g] = "idle"] /\ UNCHANGED <<stream, sequence>>
    BY <1>7 DEF NotifyStream, Publish, StreamTypes
  <2>2. /\ holder = g /\ g # Nobody /\ stream # "none"
        /\ spc[g] = IF stream = "active" THEN "FrameReceived" ELSE "StreamEnded"
    BY <2>1
  <2>3. MutexInv'
    BY <2>1, <2>2
  <2>4. /\ published \in Seq(StreamTypes) /\ spc[g] \in StreamTypes
        /\ sequence \in Nat /\ Notified \in Nat /\ Len(published) = Notified + 1
        /\ published[1] = "StreamStarted"
        /\ \A k \in 2..Notified + 1 : published[k] = "FrameReceived"
    BY <2>1, <2>2 DEF PublishedInv, StreamTypes, Ended
  <2>5. /\ published' \in Seq(StreamTypes) /\ Len(published') = Notified + 2
        /\ published'[1] = "StreamStarted"
        /\ \A k \in 2..Notified + 1 : published'[k] = "FrameReceived"
        /\ published'[Notified + 2] = spc[g]
    BY <2>1, <2>4, AppendFacts
  <2>6. CASE stream = "active"
    <3>1. Notified' = Notified + 1 /\ ~Ended'
      BY <2>1, <2>2, <2>4, <2>6 DEF Notified, Ended
    <3> QED  BY <2>1, <2>2, <2>3, <2>4, <2>5, <2>6, <3>1 DEF PublishedInv
  <2>7. CASE stream # "active"
    <3>1. Notified' = Notified /\ Ended'
      BY <2>1, <2>2, <2>4, <2>7 DEF Notified, Ended
    <3> QED  BY <2>1, <2>2, <2>3, <2>4, <2>5, <2>7, <3>1 DEF PublishedInv
  <2> QED  BY <2>6, <2>7
<1> QED  BY <1>1, <1>2, <1>3, <1>4, <1>5, <1>6, <1>7
         DEF StreamNext, StreamStep, StreamVariables

(* Whoever sends frames while somebody else ends the stream, the bus is    *)
(* notified of its start, of as many frames as the sequence number says,   *)
(* and of its end last (client.go, Stream).                                *)
THEOREM FramesInOrder == StreamSpec => []FramesWithinStream
<1>1. StreamInv => FramesWithinStream
  <2> SUFFICES ASSUME StreamInv PROVE FramesWithinStream
    OBVIOUS
  <2> USE DEF StreamInv, MutexInv, PublishedInv
  <2>1. CASE stream = "none"
    BY <2>1 DEF FramesWithinStream
  <2>2. CASE stream # "none" /\ Ended
    <3>1. /\ Len(published) = Notified + 2 /\ published[Len(published)] = "StreamEnded"
          /\ published # <<>> /\ Len(published) - 2 = Notified /\ sequence = Notified
      BY <2>2 DEF Notified, Ended
    <3> QED  BY <2>2, <3>1 DEF FramesWithinStream
  <2>3. CASE stream # "none" /\ ~Ended
    <3>1. /\ Len(published) = Notified + 1 /\ published[Len(published)] # "StreamEnded"
          /\ published # <<>> /\ Len(published) - 1 = Notified
          /\ holder = Nobody => sequence = Notified
      BY <2>3 DEF Notified, Ended
    <3> QED  BY <2>3, <3>1 DEF FramesWithinStream, Ended
  <2> QED  BY <2>1, <2>2, <2>3
<1>2. StreamInv /\ [StreamNext]_StreamVariables => StreamInv'
  BY StreamNextInv
<1> QED  BY <1>1, <1>2, StreamInitInv, PTL DEF StreamSpec, StreamVariables

(* A stream is only a user of the bus: whatever is proved of the bus holds *)
(* with a stream too.                                                      *)
THEOREM StreamUsesBus == StreamSpec => BusSpec
<1>1. [StreamNext]_<<busVars, streamVars>> => [BusNext]_busVars
  <2> SUFFICES ASSUME StreamNext PROVE [BusNext]_busVars
    BY DEF busVars
  <2>1. ASSUME NEW t \in Types, Notify(t)
        PROVE  BusNext
    BY <2>1 DEF BusNext
  <2>2. ASSUME NEW t \in StreamTypes, Publish(t)
        PROVE  BusNext
    BY <2>1, <2>2, StreamAssumption DEF Publish
  <2>3. StartStream => BusNext
    BY <2>2 DEF StartStream, StreamTypes
  <2>4. \A g \in Streamers : NotifyStream(g) => BusNext
    BY <2>2 DEF NotifyStream
  <2>5. \A g \in Streamers : Refused(g) \/ SendFrame(g) \/ End(g) => UNCHANGED busVars
    BY DEF Refused, SendFrame, End, LockStream
  <2>6. \A g \in Streamers, op \in {"SendFrame", "End"} : StreamCall(g, op) => UNCHANGED busVars
    BY DEF StreamCall
  <2> QED  BY <2>3, <2>4, <2>5, <2>6 DEF StreamNext, StreamStep
<1> QED  BY <1>1, PTL DEF StreamSpec, BusSpec

-----------------------------------------------------------------------------
(* Configuration.                                                          *)

ConfigInv ==
    /\ builder \in [ConfigFields -> Int]
    /\ facade \in [ConfigFields -> Int]
    /\ ClientsAreUsable

LEMMA DefaultsFacts ==
    ASSUME NEW c \in [ConfigFields -> Int]
    PROVE  /\ WithDefaults(c) \in [ConfigFields -> Int]
           /\ \A f \in Numbers : WithDefaults(c)[f] # 0
           /\ \A f \in ConfigFields : c[f] # 0 => WithDefaults(c)[f] = c[f]
           /\ c[Delay] >= 0 => WithDefaults(c)[Delay] > 0
BY ConfigAssumption DEF WithDefaults, ConfigFields

LEMMA ConfigInitInv == ConfigInit => ConfigInv
<1> SUFFICES ASSUME ConfigInit PROVE ConfigInv
  OBVIOUS
<1>1. Zero \in [ConfigFields -> Int]
  BY DEF Zero, Empty
<1> QED  BY <1>1, DefaultsFacts DEF ConfigInit, ConfigInv, ClientsAreUsable

LEMMA ConfigNextInv == ConfigInv /\ [ConfigNext]_configVars => ConfigInv'
<1> SUFFICES ASSUME ConfigInv, [ConfigNext]_configVars PROVE ConfigInv'
  OBVIOUS
<1> USE ConfigAssumption DEF ConfigInv, ClientsAreUsable
<1>1. ASSUME NEW f \in ConfigFields, NEW v \in Values(f), With(f, v) \/ FacadeWith(f, v)
      PROVE  ConfigInv'
  <2>1. v \in Int
    BY DEF Values, Empty
  <2> QED  BY <1>1, <2>1 DEF With, FacadeWith, Zero
<1>2. CASE Build
  BY <1>2 DEF Build, Validate, Zero
<1>3. ASSUME NEW c \in Literals, NewClient(c)
      PROVE  ConfigInv'
  <2>1. c \in [ConfigFields -> Int]
    BY DEF Literals
  <2> QED  BY <1>3, <2>1, DefaultsFacts DEF NewClient, Zero
<1>4. CASE BuildClient
  <2>1. \A f \in Strings : facade[f] # 0 /\ f \in ConfigFields
    BY <1>4 DEF BuildClient, Validate, Empty, ConfigFields
  <2>2. /\ \A f \in Strings : WithDefaults(facade)[f] # 0
        /\ WithDefaults(facade)[Delay] > 0
        /\ \A f \in Numbers : WithDefaults(facade)[f] # 0
    BY <1>4, <2>1, DefaultsFacts DEF BuildClient, Validate
  <2> QED  BY <1>4, <2>2 DEF BuildClient, Zero, Empty
<1>5. CASE UNCHANGED configVars
  BY <1>5 DEF configVars
<1> QED  BY <1>1, <1>2, <1>3, <1>4, <1>5 DEF ConfigNext

(* Whatever values are given to whatever fields, by a builder or by hand,  *)
(* a client runs with a default in the place of every zero, and one that   *)
(* comes out of client.Builder with what Validate asks for (config.go,     *)
(* builder.go).                                                            *)
THEOREM ClientsUsable == ConfigSpec => []ClientsAreUsable
<1>1. ConfigInv => ClientsAreUsable
  BY DEF ConfigInv
<1> QED  BY <1>1, ConfigInitInv, ConfigNextInv, PTL DEF ConfigSpec

-----------------------------------------------------------------------------
(* Messages.  The maps of a message are its own, but for those of Options, *)
(* which only messages of SendMessageWithOptions point to.                 *)

Makers == {"factory", "builder", "clone", "client"}
Message == [text : 0..1, maps : Nat, by : Makers]

HeapOK ==
    /\ objects \in Seq(Message)
    /\ maps \in Seq(0..1)
    /\ Len(maps) >= 1
    /\ Len(objects) <= MaxObjects
    /\ \A i \in 1..Len(objects) : objects[i].maps <= Len(maps)
    /\ building # Nil => building \in 1..Len(objects) /\ objects[building].maps # Nil

OwnMaps ==
    /\ \A i, j \in 1..Len(objects) :
           i # j /\ objects[i].maps = objects[j].maps => objects[i].maps \in {Nil, OptionsMaps}
    /\ \A i \in 1..Len(objects) : objects[i].maps = OptionsMaps => objects[i].by = "client"

SendingOK ==
    /\ DOMAIN sent = IDs
    /\ \A i \in IDs : sent[i] # NotSent => i \in 1..Len(objects)
    /\ touched \subseteq 1..Len(objects)
    /\ \A i \in 1..Len(objects) : sent[i] # NotSent /\ i \notin touched => Says(i) = sent[i]

MessagesInv == HeapOK /\ OwnMaps /\ SendingOK

LEMMA MessagesInitInv == MessagesInit => MessagesInv
BY MessagesAssumption
DEF MessagesInit, MessagesInv, HeapOK, OwnMaps, SendingOK, Nil, IDs

LEMMA ExceptFacts ==
    ASSUME NEW S, NEW s \in Seq(S), NEW i \in 1..Len(s), NEW x \in S
    PROVE  /\ [s EXCEPT ![i] = x] \in Seq(S)
           /\ Len([s EXCEPT ![i] = x]) = Len(s)
           /\ [s EXCEPT ![i] = x][i] = x
           /\ \A j \in 1..Len(s) : j # i => [s EXCEPT ![i] = x][j] = s[j]
OBVIOUS

(* A message is made: with no maps, with maps of its own, or with those of *)
(* the Options.                                                            *)
LEMMA NewNext ==
    ASSUME MessagesInv, NEW o \in Message, New(o), UNCHANGED touched,
           maps' \in Seq(0..1), Len(maps) <= Len(maps'),
           \A m \in 1..Len(maps) : maps'[m] = maps[m],
           \/ o.maps = Nil
           \/ o.maps = OptionsMaps /\ o.by = "client"
           \/ o.maps = Len(maps) + 1 /\ o.maps = Len(maps'),
           DOMAIN sent' = IDs,
           \A i \in IDs : i # NewID => sent'[i] = sent[i],
           sent'[NewID] # NotSent =>
               sent'[NewID] = <<o.text, IF o.maps = Nil THEN Nil ELSE maps'[o.maps]>>,
           building' = building \/ (building' = NewID /\ o.maps # Nil)
    PROVE  MessagesInv'
<1> USE DEF MessagesInv, HeapOK, Nil, OptionsMaps
<1>0. PICK n \in Nat, k \in Nat : n = Len(objects) /\ k = Len(maps)
  OBVIOUS
<1>1. /\ objects' = Append(objects, o) /\ n \in Nat /\ k \in Nat /\ k >= 1
      /\ NewID = n + 1 /\ n + 1 <= MaxObjects
  BY <1>0 DEF New, NewID
<1>2. /\ objects' \in Seq(Message) /\ Len(objects') = n + 1
      /\ \A i \in 1..n : objects'[i] = objects[i]
      /\ objects'[n + 1] = o
  BY <1>0, <1>1, AppendFacts
<1>3. 1..(n + 1) = 1..n \cup {n + 1} /\ n + 1 \notin 1..n /\ n + 1 \in IDs
  BY <1>0, <1>1, MessagesAssumption DEF IDs
<1>4. /\ \A i \in 1..n : objects[i].maps \in 0..k
      /\ Len(maps') \in Nat /\ k <= Len(maps')
  <2>1. \A i \in 1..n : objects[i] \in Message
    BY <1>0
  <2> QED  BY <1>0, <2>1 DEF Message
<1>5. HeapOK'
  <2>1. \A i \in 1..n : objects'[i].maps <= Len(maps')
    BY <1>0, <1>1, <1>2, <1>4
  <2>2. o.maps <= Len(maps')
    BY <1>0, <1>1, <1>4
  <2>3. building' # Nil => building' \in 1..n + 1 /\ objects'[building'].maps # Nil
    BY <1>0, <1>1, <1>2, <1>3
  <2>4. Len(maps') >= 1
    BY <1>0, <1>1, <1>4
  <2> QED  BY <1>0, <1>1, <1>2, <1>3, <2>1, <2>2, <2>3, <2>4
<1>6. OwnMaps'
  <2>1. \A i \in 1..n : objects[i].maps = o.maps => o.maps \in {Nil, OptionsMaps}
    BY <1>0, <1>1, <1>4
  <2>2. o.maps = OptionsMaps => o.by = "client" \/ o.maps = k + 1
    BY <1>0, <1>1
  <2>3. o.maps = OptionsMaps => o.by = "client"
    BY <1>0, <1>1, <2>2
  <2>4. \A i, j \in 1..n + 1 :
            i # j /\ objects'[i].maps = objects'[j].maps => objects'[i].maps \in {Nil, OptionsMaps}
    <3>1. \A i, j \in 1..n :
              i # j /\ objects[i].maps = objects[j].maps => objects[i].maps \in {Nil, OptionsMaps}
      BY <1>0 DEF OwnMaps
    <3> QED  BY <1>2, <1>3, <2>1, <3>1
  <2>5. \A i \in 1..n + 1 : objects'[i].maps = OptionsMaps => objects'[i].by = "client"
    BY <1>0, <1>2, <1>3, <2>3 DEF OwnMaps
  <2> QED  BY <1>2, <2>4, <2>5 DEF OwnMaps
<1>7. SendingOK'
  <2>1. \A i \in 1..n : Says(i)' = Says(i)
    BY <1>0, <1>1, <1>2, <1>4 DEF Says
  <2>2. Says(n + 1)' = <<o.text, IF o.maps = Nil THEN Nil ELSE maps'[o.maps]>>
    BY <1>0, <1>2 DEF Says
  <2>3. \A i \in IDs : sent'[i] # NotSent => i \in 1..n + 1
    BY <1>0, <1>1, <1>3 DEF SendingOK
  <2>4. ASSUME NEW i \in 1..n + 1, sent'[i] # NotSent, i \notin touched'
        PROVE  Says(i)' = sent'[i]
    <3>1. CASE i = n + 1
      BY <1>0, <1>1, <2>2, <2>4, <3>1
    <3>2. CASE i \in 1..n
      <4>1. i \in IDs /\ i # NewID
        BY <1>0, <1>1, <1>3, <3>2, MessagesAssumption DEF IDs
      <4> QED  BY <2>1, <2>4, <3>2, <4>1 DEF SendingOK
    <3> QED  BY <1>0, <1>3, <3>1, <3>2
  <2> QED  BY <1>0, <1>2, <1>3, <2>3, <2>4 DEF SendingOK
<1> QED  BY <1>5, <1>6, <1>7

LEMMA NewIDFacts ==
    ASSUME MessagesInv, NEW o, New(o)
    PROVE  NewID \in IDs /\ sent[NewID] = NotSent
<1>1. NewID \in IDs /\ NewID \notin 1..Len(objects)
  BY DEF New, NewID, IDs, MessagesInv, HeapOK
<1> QED  BY <1>1 DEF MessagesInv, SendingOK

LEMMA AddMapsFacts ==
    ASSUME MessagesInv, NEW x \in 0..1, AddMaps(x)
    PROVE  /\ maps' \in Seq(0..1) /\ Len(maps') = Len(maps) + 1 /\ Len(maps) <= Len(maps')
           /\ NewMaps = Len(maps) + 1 /\ NewMaps \in Nat /\ NewMaps # Nil
           /\ \A m \in 1..Len(maps) : maps'[m] = maps[m]
           /\ maps'[NewMaps] = x
<1>1. maps' = Append(maps, x) /\ maps \in Seq(0..1)
  BY DEF AddMaps, MessagesInv, HeapOK
<1> QED  BY <1>1, AppendFacts DEF NewMaps, Nil

LEMMA MakersNext ==
    ASSUME MessagesInv,
           \/ \E kind \in {"text", "image", "video", "file", "system", "reply"} : CreateMessage(kind)
           \/ \E kind \in {"image", "file"} : SendMedia(kind)
           \/ SendMessage \/ SendMessageWithOptions \/ NewMessageBuilder
           \/ \E i \in 1..Len(objects) : Clone(i)
    PROVE  MessagesInv'
<1> USE DEF Nil
<1>0. /\ maps \in Seq(0..1) /\ Len(maps) \in Nat /\ Len(maps) >= 1 /\ DOMAIN sent = IDs
      /\ \A m \in 1..Len(maps) : maps[m] \in 0..1
  BY DEF MessagesInv, HeapOK, SendingOK
<1>1. ASSUME NEW by \in {"factory", "client"}, UNCHANGED maps,
             New([text |-> 0, maps |-> Nil, by |-> by]), UNCHANGED <<building, touched>>,
             \/ UNCHANGED sent
             \/ sent' = [sent EXCEPT ![NewID] = <<0, Nil>>]
      PROVE  MessagesInv'
  <2> DEFINE o == [text |-> 0, maps |-> Nil, by |-> by]
  <2>1. o \in Message /\ o.text = 0 /\ o.maps = Nil
    BY DEF Message, Makers
  <2>2. NewID \in IDs /\ sent[NewID] = NotSent
    BY <1>1, NewIDFacts
  <2>3. /\ DOMAIN sent' = IDs /\ \A i \in IDs : i # NewID => sent'[i] = sent[i]
        /\ sent'[NewID] # NotSent => sent'[NewID] = <<0, Nil>>
    BY <1>0, <1>1, <2>2
  <2> HIDE DEF o
  <2> QED  BY <1>0, <1>1, <2>1, <2>3, NewNext DEF o
<1>2. ASSUME NEW by \in {"factory", "client", "builder"}, AddMaps(0),
             New([text |-> 0, maps |-> NewMaps, by |-> by]), UNCHANGED touched,
             building' \in {building, NewID},
             \/ UNCHANGED sent
             \/ sent' = [sent EXCEPT ![NewID] = <<0, 0>>]
      PROVE  MessagesInv'
  <2> DEFINE o == [text |-> 0, maps |-> NewMaps, by |-> by]
  <2>0. /\ maps' \in Seq(0..1) /\ Len(maps') = Len(maps) + 1 /\ Len(maps) <= Len(maps')
        /\ NewMaps = Len(maps) + 1 /\ NewMaps \in Nat /\ NewMaps # Nil
        /\ \A m \in 1..Len(maps) : maps'[m] = maps[m]
        /\ maps'[NewMaps] = 0
    BY <1>2, AddMapsFacts
  <2>1. o \in Message /\ o.text = 0 /\ o.maps = NewMaps
    BY <2>0 DEF Message, Makers
  <2>2. NewID \in IDs /\ sent[NewID] = NotSent
    BY <1>2, NewIDFacts
  <2>3. /\ DOMAIN sent' = IDs /\ \A i \in IDs : i # NewID => sent'[i] = sent[i]
        /\ sent'[NewID] # NotSent => sent'[NewID] = <<0, 0>>
    BY <1>0, <1>2, <2>2
  <2> HIDE DEF o
  <2> QED  BY <1>0, <1>2, <2>0, <2>1, <2>3, NewNext DEF o
<1>3. CASE \E kind \in {"text", "image", "video", "file", "system", "reply"} : CreateMessage(kind)
  BY <1>1, <1>2, <1>3 DEF CreateMessage, Create
<1>4. CASE \E kind \in {"image", "file"} : SendMedia(kind)
  BY <1>2, <1>4 DEF SendMedia, Create
<1>5. CASE SendMessage
  BY <1>1, <1>5 DEF SendMessage, Create
<1>6. CASE NewMessageBuilder
  BY <1>2, <1>6 DEF NewMessageBuilder
<1>7. CASE SendMessageWithOptions
  <2> DEFINE o == [text |-> 0, maps |-> OptionsMaps, by |-> "client"]
  <2>1. /\ o \in Message /\ o.text = 0 /\ o.maps = OptionsMaps /\ o.maps # Nil
        /\ o.by = "client"
    BY DEF Message, Makers, OptionsMaps
  <2>2. /\ New(o) /\ UNCHANGED <<maps, building, touched>>
        /\ sent' = [sent EXCEPT ![NewID] = <<0, maps[OptionsMaps]>>]
    BY <1>7 DEF SendMessageWithOptions
  <2> HIDE DEF o
  <2>3. NewID \in IDs
    BY <2>2, NewIDFacts
  <2>4. /\ DOMAIN sent' = IDs /\ \A i \in IDs : i # NewID => sent'[i] = sent[i]
        /\ sent'[NewID] = <<0, maps'[OptionsMaps]>>
    BY <1>0, <2>2, <2>3
  <2> QED  BY <1>0, <2>1, <2>2, <2>4, NewNext
<1>8. ASSUME NEW i \in 1..Len(objects), Clone(i)
      PROVE  MessagesInv'
  <2>0. /\ objects[i] \in Message /\ objects[i].maps <= Len(maps)
        /\ UNCHANGED <<building, sent, touched>>
    <3>1. objects[i] \in Message /\ objects[i].maps <= Len(maps)
      BY DEF MessagesInv, HeapOK
    <3>2. UNCHANGED <<building, sent, touched>>
      BY <1>8 DEF Clone
    <3> QED  BY <3>1, <3>2
  <2>1. CASE objects[i].maps = Nil
    <3> DEFINE o == [objects[i] EXCEPT !.by = "clone"]
    <3>1. o \in Message /\ o.maps = Nil
      BY <2>0, <2>1 DEF Message, Makers
    <3>2. UNCHANGED maps /\ New(o)
      BY <1>8, <2>1 DEF Clone
    <3> HIDE DEF o
    <3>3. sent'[NewID] = NotSent
      BY <2>0, <3>2, NewIDFacts
    <3> QED  BY <1>0, <2>0, <3>1, <3>2, <3>3, NewNext
  <2>2. CASE objects[i].maps # Nil
    <3> DEFINE o == [objects[i] EXCEPT !.maps = NewMaps, !.by = "clone"]
               x == maps[objects[i].maps]
    <3>1. AddMaps(x) /\ New(o)
      BY <1>8, <2>2 DEF Clone
    <3>2. x \in 0..1
      BY <1>0, <2>0, <2>2 DEF Message
    <3>3. /\ maps' \in Seq(0..1) /\ Len(maps') = Len(maps) + 1 /\ Len(maps) <= Len(maps')
          /\ NewMaps = Len(maps) + 1 /\ NewMaps \in Nat
          /\ \A m \in 1..Len(maps) : maps'[m] = maps[m]
      BY <3>1, <3>2, AddMapsFacts
    <3>4. o \in Message /\ o.maps = NewMaps
      BY <2>0, <3>3 DEF Message, Makers
    <3> HIDE DEF o
    <3>5. sent'[NewID] = NotSent
      BY <2>0, <3>1, NewIDFacts
    <3> QED  BY <1>0, <2>0, <3>1, <3>3, <3>4, <3>5, NewNext
  <2> QED  BY <2>1, <2>2
<1> QED  BY <1>3, <1>4, <1>5, <1>6, <1>7, <1>8

(* A message is sent or changed, or Options are.                           *)
LEMMA ChangesNext ==
    ASSUME MessagesInv,
           \/ \E i \in 1..Len(objects) : Send(i) \/ Edit(i)
           \/ BuilderWith \/ ChangeOptions
    PROVE  MessagesInv'
<1> USE DEF MessagesInv, Nil
<1>0. PICK n \in Nat : /\ n = Len(objects)
                       /\ \A i \in 1..n : objects[i] \in Message /\ objects[i].maps <= Len(maps)
                       /\ \A i \in 1..n : objects[i].text \in 0..1 /\ objects[i].maps \in Nat
                       /\ 1..n \subseteq IDs
  <2>1. Len(objects) \in Nat /\ 1..Len(objects) \subseteq IDs
    BY MessagesAssumption DEF HeapOK, IDs
  <2>2. \A i \in 1..Len(objects) : objects[i] \in Message /\ objects[i].maps <= Len(maps)
    BY DEF HeapOK
  <2>3. \A i \in 1..Len(objects) : objects[i].text \in 0..1 /\ objects[i].maps \in Nat
    BY <2>2 DEF Message
  <2> QED  BY <2>1, <2>2, <2>3
<1>1. ASSUME NEW i \in 1..n, Send(i)
      PROVE  MessagesInv'
  <2>1. /\ sent' = [sent EXCEPT ![i] = Says(i)] /\ UNCHANGED <<objects, maps, building, touched>>
    BY <1>1 DEF Send
  <2>2. HeapOK' /\ OwnMaps'
    BY <2>1 DEF HeapOK, OwnMaps
  <2>3. \A j \in 1..n : Says(j)' = Says(j)
    BY <2>1 DEF Says
  <2>4. /\ DOMAIN sent' = IDs /\ sent'[i] = Says(i) /\ \A j \in IDs : j # i => sent'[j] = sent[j]
    BY <1>0, <2>1 DEF SendingOK
  <2>5. SendingOK'
    BY <1>0, <2>1, <2>3, <2>4 DEF SendingOK
  <2> QED  BY <2>2, <2>5
<1>2. ASSUME NEW i \in 1..n, ChangeText(i), UNCHANGED <<building, sent>>,
             touched' = IF sent[i] = NotSent THEN touched ELSE touched \cup {i}
      PROVE  MessagesInv'
  <2> DEFINE o == [objects[i] EXCEPT !.text = 1 - @]
  <2>1. objects' = [objects EXCEPT ![i] = o] /\ UNCHANGED maps
    BY <1>2 DEF ChangeText
  <2>2. o \in Message /\ o.maps = objects[i].maps /\ o.by = objects[i].by
    BY <1>0 DEF Message
  <2> HIDE DEF o
  <2>3. /\ objects' \in Seq(Message) /\ Len(objects') = n
        /\ objects'[i] = o /\ \A j \in 1..n : j # i => objects'[j] = objects[j]
    BY <1>0, <2>1, <2>2, ExceptFacts DEF HeapOK
  <2>4. \A j \in 1..n : objects'[j].maps = objects[j].maps /\ objects'[j].by = objects[j].by
    BY <2>2, <2>3
  <2>5. HeapOK'
    BY <1>0, <1>2, <2>1, <2>3, <2>4 DEF HeapOK
  <2>6. OwnMaps'
    BY <1>0, <2>3, <2>4 DEF OwnMaps
  <2>7. \A j \in 1..n : j # i => Says(j)' = Says(j)
    BY <2>1, <2>3 DEF Says
  <2>8. SendingOK'
    BY <1>0, <1>2, <2>3, <2>7 DEF SendingOK
  <2> QED  BY <2>5, <2>6, <2>8
<1>3. ASSUME NEW m \in Nat, NEW T \in SUBSET (1..n), ChangeMaps(m), UNCHANGED <<building, sent>>,
             m <= Len(maps),
             \A j \in 1..n : objects[j].maps = m /\ sent[j] # NotSent => j \in T,
             touched' = touched \cup T
      PROVE  MessagesInv'
  <2>1. m # Nil /\ maps' = [maps EXCEPT ![m] = 1 - maps[m]] /\ UNCHANGED objects
    BY <1>3 DEF ChangeMaps
  <2>2. m \in 1..Len(maps) /\ 1 - maps[m] \in 0..1
    BY <1>3, <2>1 DEF HeapOK
  <2>3. /\ maps' \in Seq(0..1) /\ Len(maps') = Len(maps)
        /\ \A k \in 1..Len(maps) : k # m => maps'[k] = maps[k]
    BY <2>1, <2>2, ExceptFacts DEF HeapOK
  <2>4. HeapOK' /\ OwnMaps'
    BY <1>3, <2>1, <2>3 DEF HeapOK, OwnMaps
  <2>5. ASSUME NEW j \in 1..n, objects[j].maps # m
        PROVE  Says(j)' = Says(j)
    <3>1. objects[j].maps = Nil \/ objects[j].maps \in 1..Len(maps)
      BY <1>0 DEF HeapOK
    <3> QED  BY <2>1, <2>3, <2>5, <3>1 DEF Says
  <2>6. SendingOK'
    BY <1>0, <1>3, <2>1, <2>5 DEF SendingOK
  <2> QED  BY <2>4, <2>6
<1>4. ASSUME NEW i \in 1..n, Edit(i)
      PROVE  MessagesInv'
  <2>1. /\ objects[i].by # "client" /\ UNCHANGED <<building, sent>>
        /\ touched' = IF sent[i] = NotSent THEN touched ELSE touched \cup {i}
    BY <1>4 DEF Edit
  <2>2. CASE ChangeText(i)
    BY <1>2, <2>1, <2>2
  <2>3. CASE ChangeMaps(objects[i].maps)
    <3> DEFINE T == IF sent[i] = NotSent THEN {} ELSE {i}
    <3>1. touched' = touched \cup T /\ T \in SUBSET (1..n)
      BY <2>1
    <3>2. objects[i].maps \notin {Nil, OptionsMaps}
      BY <1>0, <2>1, <2>3 DEF OwnMaps, ChangeMaps
    <3>3. \A j \in 1..n : objects[j].maps = objects[i].maps => j = i
      BY <1>0, <3>2 DEF OwnMaps
    <3>4. \A j \in 1..n : objects[j].maps = objects[i].maps /\ sent[j] # NotSent => j \in T
      BY <3>3
    <3> HIDE DEF T
    <3> QED  BY <1>0, <1>3, <2>1, <2>3, <3>1, <3>4
  <2> QED  BY <1>4, <2>2, <2>3 DEF Edit
<1>5. CASE BuilderWith
  <2>1. building \in 1..n /\ Edit(building)
    BY <1>0, <1>5 DEF BuilderWith, HeapOK
  <2> QED  BY <1>4, <2>1
<1>6. CASE ChangeOptions
  <2> DEFINE T == {i \in 1..Len(objects) : objects[i].maps = OptionsMaps}
  <2>1. ChangeMaps(OptionsMaps) /\ touched' = touched \cup T /\ UNCHANGED <<building, sent>>
    BY <1>6 DEF ChangeOptions
  <2>2. /\ T \in SUBSET (1..n) /\ OptionsMaps \in Nat /\ OptionsMaps <= Len(maps)
        /\ \A j \in 1..n : objects[j].maps = OptionsMaps => j \in T
    BY <1>0 DEF HeapOK, OptionsMaps
  <2> HIDE DEF T
  <2> QED  BY <1>3, <2>1, <2>2
<1> QED  BY <1>0, <1>1, <1>4, <1>5, <1>6

LEMMA MessagesNextInv == MessagesInv /\ [MessagesNext]_messagesVars => MessagesInv'
<1> SUFFICES ASSUME MessagesInv, [MessagesNext]_messagesVars PROVE MessagesInv'
  OBVIOUS
<1>1. CASE UNCHANGED messagesVars
  <2>1. UNCHANGED <<objects, maps, building, sent, touched>>
    BY <1>1 DEF messagesVars
  <2>2. HeapOK' /\ OwnMaps'
    BY <2>1 DEF MessagesInv, HeapOK, OwnMaps
  <2>3. SendingOK'
    BY <2>1 DEF MessagesInv, SendingOK, Says
  <2> QED  BY <2>2, <2>3 DEF MessagesInv
<1> QED  BY <1>1, MakersNext, ChangesNext DEF MessagesNext

(* However many messages are made, cloned, built, sent and changed, one    *)
(* that is sent says what it said then, unless it was changed itself, and  *)
(* a builder's message has maps to write to (message.go, builder.go).      *)
THEOREM MessagesKept == MessagesSpec => []MessagesAreKept
<1>1. MessagesInv => MessagesAreKept
  <2> SUFFICES ASSUME MessagesInv PROVE MessagesAreKept
    OBVIOUS
  <2> USE DEF MessagesInv, HeapOK, SendingOK
  <2>1. DOMAIN objects = 1..Len(objects) /\ DOMAIN maps = 1..Len(maps)
    OBVIOUS
  <2>2. ASSUME NEW i \in DOMAIN objects
        PROVE  /\ objects[i].text \in 0..1
               /\ objects[i].maps \in 0..Len(maps)
               /\ objects[i].by \in {"factory", "builder", "clone", "client"}
    <3>1. objects[i] \in Message /\ objects[i].maps <= Len(maps)
      BY <2>1
    <3> QED  BY <3>1 DEF Message, Makers
  <2>3. MessagesTypeOK
    BY <2>1, <2>2 DEF MessagesTypeOK
  <2>4. SentAsGiven
    BY <2>1 DEF SentAsGiven
  <2> QED  BY <2>3, <2>4 DEF MessagesAreKept
<1> QED  BY <1>1, MessagesInitInv, MessagesNextInv, PTL DEF MessagesSpec

-----------------------------------------------------------------------------
(* ClientChannels.  First what a request does to InTheEnd, when it is sent *)
(* and when the server takes it.                                           *)

Requested == [op : Ops, room : Rooms]

LEMMA NothingInTheEnd ==
    ASSUME requests = <<>>, members = {}
    PROVE  InTheEnd = {}
BY DEF InTheEnd

LEMMA RequestInTheEnd ==
    ASSUME requests \in Seq(Requested), NEW r \in Rooms, NEW op \in Ops,
           requests' = Append(requests, [op |-> op, room |-> r]), members' = members
    PROVE  /\ requests' \in Seq(Requested)
           /\ \A x \in Rooms \ {r} : x \in InTheEnd' <=> x \in InTheEnd
           /\ r \in InTheEnd' <=> op = "join"
<1> DEFINE q == [op |-> op, room |-> r]
<1>1. q \in Requested /\ q.op = op /\ q.room = r
  BY DEF Requested
<1>2. PICK n \in Nat : n = Len(requests)
  OBVIOUS
<1>3. requests' = Append(requests, q)
  OBVIOUS
<1> HIDE DEF q
<1>4. /\ requests' \in Seq(Requested) /\ Len(requests') = n + 1
      /\ DOMAIN requests' = 1..n + 1 /\ DOMAIN requests = 1..n
      /\ \A i \in 1..n : requests'[i] = requests[i]
      /\ requests'[n + 1] = q
  BY <1>1, <1>2, <1>3, AppendFacts
<1>5. ASSUME NEW x \in Rooms \ {r}
      PROVE  x \in InTheEnd' <=> x \in InTheEnd
  <2>1. requests'[n + 1] # [op |-> "join", room |-> x] /\ requests'[n + 1].room # x
    BY <1>1, <1>4
  <2>2. \A i \in 0..n : (\A j \in i + 1..n + 1 : requests'[j].room # x)
                          <=> (\A j \in i + 1..n : requests[j].room # x)
    BY <1>4, <2>1
  <2>3. \A i \in 1..n : i \in 0..n /\ i \in 1..n + 1
    OBVIOUS
  <2>4. \A i \in 1..n + 1 : i = n + 1 \/ i \in 1..n
    OBVIOUS
  <2>5. x \in InTheEnd' <=>
          \/ \E i \in 1..n + 1 : requests'[i] = [op |-> "join", room |-> x]
                                 /\ \A j \in i + 1..n + 1 : requests'[j].room # x
          \/ x \in members /\ \A j \in 0 + 1..n + 1 : requests'[j].room # x
    BY <1>4 DEF InTheEnd
  <2>6. x \in InTheEnd <=>
          \/ \E i \in 1..n : requests[i] = [op |-> "join", room |-> x]
                             /\ \A j \in i + 1..n : requests[j].room # x
          \/ x \in members /\ \A j \in 0 + 1..n : requests[j].room # x
    BY <1>2, <1>4 DEF InTheEnd
  <2> QED  BY <1>4, <2>1, <2>2, <2>3, <2>4, <2>5, <2>6
<1>6. r \in InTheEnd' <=> op = "join"
  <2>1. \A i \in 0..n : n + 1 \in i + 1..n + 1
    OBVIOUS
  <2>2. \A i \in 0..n : ~ \A j \in i + 1..n + 1 : requests'[j].room # r
    BY <1>1, <1>4, <2>1
  <2>3. \A i \in 1..n + 1 : i = n + 1 \/ i \in 0..n
    OBVIOUS
  <2>4. \A j \in (n + 1) + 1..n + 1 : FALSE
    OBVIOUS
  <2>5. r \in InTheEnd' <=> requests'[n + 1] = [op |-> "join", room |-> r]
    <3>1. r \in InTheEnd' <=>
            \/ \E i \in 1..n + 1 : requests'[i] = [op |-> "join", room |-> r]
                                   /\ \A j \in i + 1..n + 1 : requests'[j].room # r
            \/ r \in members /\ \A j \in 0 + 1..n + 1 : requests'[j].room # r
      BY <1>4 DEF InTheEnd
    <3>2. 0 \in 0..n /\ n + 1 \in 1..n + 1
      OBVIOUS
    <3> QED  BY <2>2, <2>3, <2>4, <3>1, <3>2
  <2>6. requests'[n + 1] = [op |-> "join", room |-> r] <=> op = "join"
    BY <1>4 DEF q
  <2> QED  BY <2>5, <2>6
<1> QED  BY <1>4, <1>5, <1>6

LEMMA TakenInTheEnd ==
    ASSUME requests \in Seq(Requested), requests # <<>>, members \subseteq Rooms,
           requests' = Tail(requests),
           members' = AfterRequest(members, Head(requests))
    PROVE  /\ requests' \in Seq(Requested) /\ members' \subseteq Rooms
           /\ InTheEnd' = InTheEnd
<1>1. PICK n \in Nat : n + 1 = Len(requests)
  <2>1. Len(requests) \in Nat /\ Len(requests) # 0
    OBVIOUS
  <2> QED  BY <2>1
<1>2. /\ requests' \in Seq(Requested) /\ Len(requests') = n
      /\ DOMAIN requests = 1..n + 1 /\ DOMAIN requests' = 1..n
      /\ \A i \in 1..n : requests'[i] = requests[i + 1]
      /\ Head(requests) = requests[1]
      /\ requests[1] \in Requested
  BY <1>1
<1>3. /\ requests[1].room \in Rooms
      /\ requests[1].op = "join" => members' = members \cup {requests[1].room}
      /\ requests[1].op # "join" => members' = members \ {requests[1].room}
      /\ \A x : requests[1] = [op |-> "join", room |-> x]
                  <=> requests[1].op = "join" /\ requests[1].room = x
  BY <1>2 DEF AfterRequest, Requested
<1>4. ASSUME NEW x \in Rooms
      PROVE  x \in InTheEnd' <=> x \in InTheEnd
  <2>1. x \in InTheEnd' <=>
          \/ \E i \in 1..n : requests'[i] = [op |-> "join", room |-> x]
                             /\ \A j \in i + 1..n : requests'[j].room # x
          \/ x \in members' /\ \A j \in 0 + 1..n : requests'[j].room # x
    BY <1>2 DEF InTheEnd
  <2>2. x \in InTheEnd <=>
          \/ \E i \in 1..n + 1 : requests[i] = [op |-> "join", room |-> x]
                                 /\ \A j \in i + 1..n + 1 : requests[j].room # x
          \/ x \in members /\ \A j \in 0 + 1..n + 1 : requests[j].room # x
    BY <1>1, <1>2 DEF InTheEnd
  <2>3. ASSUME NEW i \in 0..n
        PROVE  (\A j \in i + 1..n : requests'[j].room # x)
                 <=> (\A j \in (i + 1) + 1..n + 1 : requests[j].room # x)
    <3>1. \A j \in i + 1..n : j \in 1..n /\ j + 1 \in (i + 1) + 1..n + 1
      OBVIOUS
    <3>2. \A j \in (i + 1) + 1..n + 1 : j - 1 \in i + 1..n /\ j - 1 \in 1..n /\ (j - 1) + 1 = j
      OBVIOUS
    <3> QED  BY <1>2, <3>1, <3>2
  <2>4. (\E i \in 1..n : requests'[i] = [op |-> "join", room |-> x]
                         /\ \A j \in i + 1..n : requests'[j].room # x)
        <=> \E i \in 2..n + 1 : requests[i] = [op |-> "join", room |-> x]
                                /\ \A j \in i + 1..n + 1 : requests[j].room # x
    <3>1. ASSUME NEW i \in 1..n, requests'[i] = [op |-> "join", room |-> x],
                 \A j \in i + 1..n : requests'[j].room # x
          PROVE  \E k \in 2..n + 1 : requests[k] = [op |-> "join", room |-> x]
                                     /\ \A j \in k + 1..n + 1 : requests[j].room # x
      <4>1. i \in 0..n /\ i + 1 \in 2..n + 1
        OBVIOUS
      <4>2. requests[i + 1] = [op |-> "join", room |-> x]
        BY <1>2, <3>1
      <4>3. \A j \in (i + 1) + 1..n + 1 : requests[j].room # x
        BY <2>3, <3>1, <4>1
      <4> QED  BY <4>1, <4>2, <4>3
    <3>2. ASSUME NEW k \in 2..n + 1, requests[k] = [op |-> "join", room |-> x],
                 \A j \in k + 1..n + 1 : requests[j].room # x
          PROVE  \E i \in 1..n : requests'[i] = [op |-> "join", room |-> x]
                                 /\ \A j \in i + 1..n : requests'[j].room # x
      <4>1. PICK i \in 1..n : k = i + 1 /\ i \in 0..n
        <5>1. k - 1 \in 1..n /\ k = (k - 1) + 1 /\ k - 1 \in 0..n
          OBVIOUS
        <5> QED  BY <5>1
      <4>2. requests'[i] = [op |-> "join", room |-> x]
        BY <1>2, <3>2, <4>1
      <4>3. \A j \in i + 1..n : requests'[j].room # x
        BY <2>3, <3>2, <4>1
      <4> QED  BY <4>2, <4>3
    <3> QED  BY <3>1, <3>2
  <2>5. (\A j \in 0 + 1..n + 1 : requests[j].room # x)
          <=> requests[1].room # x /\ \A j \in (0 + 1) + 1..n + 1 : requests[j].room # x
    <3>1. \A j \in 0 + 1..n + 1 : j = 1 \/ j \in (0 + 1) + 1..n + 1
      OBVIOUS
    <3>2. 1 \in 0 + 1..n + 1 /\ \A j \in (0 + 1) + 1..n + 1 : j \in 0 + 1..n + 1
      OBVIOUS
    <3> QED  BY <3>1, <3>2
  <2>6. (\E i \in 1..n + 1 : requests[i] = [op |-> "join", room |-> x]
                             /\ \A j \in i + 1..n + 1 : requests[j].room # x)
        <=> \/ requests[1] = [op |-> "join", room |-> x]
               /\ \A j \in (0 + 1) + 1..n + 1 : requests[j].room # x
            \/ \E i \in 2..n + 1 : requests[i] = [op |-> "join", room |-> x]
                                   /\ \A j \in i + 1..n + 1 : requests[j].room # x
    <3>1. \A i \in 1..n + 1 : i = 1 \/ i \in 2..n + 1
      OBVIOUS
    <3>2. 1 \in 1..n + 1 /\ \A i \in 2..n + 1 : i \in 1..n + 1
      OBVIOUS
    <3>3. 0 + 1 = 1
      OBVIOUS
    <3> QED  BY <3>1, <3>2, <3>3
  <2>7. 0 \in 0..n
    OBVIOUS
  <2>8. x \in members' <=> \/ requests[1].room # x /\ x \in members
                           \/ requests[1] = [op |-> "join", room |-> x]
    BY <1>3
  <2>9. requests[1] = [op |-> "join", room |-> x] => requests[1].room = x
    BY <1>3
  <2> QED  BY <2>1, <2>2, <2>3, <2>4, <2>5, <2>6, <2>7, <2>8, <2>9
<1>5. members' \subseteq Rooms
  BY <1>3
<1>6. InTheEnd \subseteq Rooms /\ InTheEnd' \subseteq Rooms
  BY DEF InTheEnd
<1> QED  BY <1>2, <1>4, <1>5, <1>6

(* The inductive invariant.  Of two calls on a channel that are under way  *)
(* both have crossed; one that has crossed nobody knows what the map says  *)
(* of its channel; and a call that began before the link was dialed leaves *)
(* the channel to itself until it is over.                                 *)

Call == [at : {"record", "manager", "strategy", "write"}, op : Ops, room : Rooms,
         conn : 0..MaxLinks]
Calling(g) == calls[g] # NoCall

StateOK ==
    /\ connected \in BOOLEAN /\ announce \in BOOLEAN
    /\ ~(connected /\ announce)
    /\ link \in {"up", "broken", "left", "down"}
    /\ dialed \in 1..MaxLinks
    /\ channels \subseteq Rooms /\ members \subseteq Rooms
    /\ overlapped \subseteq Rooms /\ sure \subseteq Rooms
    /\ requests \in Seq(Requested)
    /\ link # "up" => sure = {}

CallsOK ==
    /\ calls \in [Goroutines -> {NoCall} \cup Call]
    /\ \A g \in Goroutines : Calling(g) => calls[g].conn <= dialed
    /\ crossed \subseteq {g \in Goroutines : Calling(g)}
    /\ \A g \in crossed : calls[g].room \in overlapped
    /\ \A g, h \in Goroutines :
           g # h /\ Calling(g) /\ Calling(h) /\ calls[g].room = calls[h].room => g \in crossed

Recorded ==
    \A g \in Goroutines \ crossed :
        Calling(g) /\ calls[g].at # "record" => (calls[g].room \in channels <=> calls[g].op = "join")

Fresh ==
    \A g \in Goroutines :
        /\ Calling(g) /\ calls[g].room \notin overlapped
        /\ announce \/ (calls[g].at = "write" /\ calls[g].conn # dialed)
        => calls[g].room \notin InTheEnd

SureOK == \A r \in sure : InCall(r) = {} /\ (r \in channels <=> r \in InTheEnd)

Silent ==
    (connected \/ announce) /\ link = "up" =>
        \A r \in Rooms \ overlapped : InCall(r) = {} /\ r \in InTheEnd => r \in channels

ChannelsInv == StateOK /\ CallsOK /\ Recorded /\ Fresh /\ SureOK /\ Silent

LEMMA CallFacts ==
    ASSUME NEW c \in {NoCall} \cup Call
    PROVE  /\ c = NoCall <=> c.at = "idle"
           /\ c # NoCall => c \in Call
           /\ c \in Call =>
                /\ c # NoCall
                /\ c.at \in {"record", "manager", "strategy", "write"}
                /\ c.op \in {"join", "leave"} /\ c.room \in Rooms /\ c.conn \in 0..MaxLinks
BY DEF NoCall, Call, Ops

LEMMA ChannelsInitInv == ChannelsInit => ChannelsInv
<1> SUFFICES ASSUME ChannelsInit PROVE ChannelsInv
  OBVIOUS
<1> USE ChannelsAssumption DEF ChannelsInit
<1>1. connected \in BOOLEAN /\ announce \in BOOLEAN /\ ~(connected /\ announce)
  OBVIOUS
<1>2. /\ dialed \in 1..MaxLinks /\ requests \in Seq(Requested)
      /\ channels \subseteq Rooms /\ members \subseteq Rooms
      /\ overlapped \subseteq Rooms /\ sure \subseteq Rooms
  OBVIOUS
<1>3. StateOK
  BY <1>1, <1>2 DEF StateOK
<1>4. \A g \in Goroutines : ~Calling(g)
  BY DEF Calling
<1>5. CallsOK /\ Recorded /\ Fresh /\ SureOK
  BY <1>4 DEF CallsOK, Recorded, Fresh, SureOK
<1>6. InTheEnd = {}
  BY NothingInTheEnd
<1>7. Silent
  BY <1>6 DEF Silent
<1> QED  BY <1>3, <1>5, <1>7 DEF ChannelsInv

(* A link breaks, ends or is closed: nobody is sure of anything any more.  *)
LEMMA LinkOverNext ==
    ASSUME ChannelsInv, LinkBreaks \/ ReadLoopEnds \/ StrategyDisconnect
    PROVE  ChannelsInv'
<1> USE DEF ChannelsInv
<1>1. /\ sure' = {} /\ link' \in {"broken", "left", "down"}
      /\ UNCHANGED <<connected, announce, dialed, channels, calls, requests, members, crossed,
                     overlapped>>
  BY DEF LinkBreaks, ReadLoopEnds, StrategyDisconnect, LinkBecomes
<1>2. InTheEnd' = InTheEnd /\ \A g \in Goroutines : Calling(g)' <=> Calling(g)
  BY <1>1 DEF InTheEnd, Calling
<1>3. connected' \in BOOLEAN /\ announce' \in BOOLEAN /\ ~(connected' /\ announce')
  BY <1>1 DEF StateOK
<1>4. StateOK'
  BY <1>1, <1>3 DEF StateOK
<1>5. CallsOK' /\ Recorded' /\ Fresh'
  BY <1>1, <1>2 DEF CallsOK, Recorded, Fresh
<1>6. SureOK' /\ Silent'
  BY <1>1 DEF SureOK, Silent
<1> QED  BY <1>4, <1>5, <1>6

(* A link is dialed, or the server forgets one that is gone: its client is *)
(* in no channel.                                                          *)
LEMMA LinkNext ==
    ASSUME ChannelsInv, ServerForgets \/ Redial
    PROVE  ChannelsInv'
<1> USE DEF ChannelsInv
<1>1. /\ requests' = <<>> /\ members' = {} /\ sure' = {}
      /\ UNCHANGED <<connected, channels, calls, crossed>>
  BY DEF ServerForgets, Redial, StateOK, linkVars
<1>2. InTheEnd' = {}
  BY <1>1 DEF InTheEnd
<1>3. /\ link' \in {"up", "broken", "left", "down"} /\ dialed' \in 1..MaxLinks /\ dialed <= dialed'
      /\ overlapped' \subseteq Rooms
  <2>1. CASE ServerForgets
    BY <2>1 DEF ServerForgets, linkVars, StateOK
  <2>2. CASE Redial
    <3>1. \A g \in crossed : calls[g].room \in Rooms
      BY CallFacts DEF CallsOK, Calling
    <3>2. overlapped' \subseteq Rooms
      BY <2>2, <3>1 DEF Redial
    <3>3. dialed \in 1..MaxLinks /\ dialed < MaxLinks /\ dialed' = dialed + 1 /\ link' = "up"
      BY <2>2 DEF Redial, StateOK
    <3>4. dialed' \in 1..MaxLinks /\ dialed <= dialed'
      BY <3>3, ChannelsAssumption
    <3> QED  BY <3>2, <3>3, <3>4
  <2> QED  BY <2>1, <2>2
<1>4. connected' \in BOOLEAN /\ announce' \in BOOLEAN /\ ~(connected' /\ announce')
  <2>1. connected \in BOOLEAN /\ announce \in BOOLEAN /\ ~(connected /\ announce)
    BY DEF StateOK
  <2>2. CASE ServerForgets
    <3>1. UNCHANGED <<connected, announce>>
      BY <2>2 DEF ServerForgets, linkVars
    <3> QED  BY <2>1, <3>1
  <2>3. CASE Redial
    <3>1. announce' = TRUE /\ connected' = connected /\ ~connected
      BY <2>3 DEF Redial
    <3> QED  BY <2>1, <3>1
  <2> QED  BY <2>2, <2>3
<1>5. StateOK'
  <2>1. requests' \in Seq(Requested)
    BY <1>1
  <2>2. channels' \subseteq Rooms
    BY <1>1 DEF StateOK
  <2> QED  BY <1>1, <1>3, <1>4, <2>1, <2>2 DEF StateOK
<1>6. CallsOK'
  <2>1. \A g \in Goroutines : Calling(g)' <=> Calling(g)
    BY <1>1 DEF Calling
  <2>2. \A g \in crossed : calls[g].room \in overlapped'
    BY DEF ServerForgets, linkVars, Redial, CallsOK
  <2>3. \A g \in Goroutines : Calling(g) => calls[g].conn <= dialed'
    <3> SUFFICES ASSUME NEW g \in Goroutines, Calling(g) PROVE calls[g].conn <= dialed'
      OBVIOUS
    <3>1. calls[g].conn \in 0..MaxLinks /\ calls[g].conn <= dialed
      BY CallFacts DEF CallsOK, Calling
    <3>2. dialed \in Nat /\ dialed' \in Nat /\ dialed <= dialed'
      BY <1>3 DEF StateOK
    <3> QED  BY <3>1, <3>2
  <2> QED  BY <1>1, <2>1, <2>2, <2>3 DEF CallsOK
<1>7. Recorded'
  BY <1>1 DEF Recorded, Calling
<1>8. Fresh' /\ SureOK' /\ Silent'
  BY <1>1, <1>2 DEF Fresh, SureOK, Silent
<1> QED  BY <1>5, <1>6, <1>7, <1>8

(* The state of the connection changes, and nothing a call can see.        *)
LEMMA StateNext ==
    ASSUME ChannelsInv, StateDown \/ StateUp
    PROVE  ChannelsInv'
<1> USE DEF ChannelsInv
<1>1. UNCHANGED <<link, dialed, channels, calls, requests, members, crossed, overlapped, sure>>
  BY DEF StateDown, StateUp
<1>2. /\ connected' \in BOOLEAN /\ announce' \in BOOLEAN /\ ~(connected' /\ announce')
      /\ connected' \/ announce' => connected \/ announce
      /\ announce' => announce
  <2>1. connected \in BOOLEAN /\ announce \in BOOLEAN /\ ~(connected /\ announce)
    BY DEF StateOK
  <2>2. CASE StateDown
    <3>1. connected /\ connected' = FALSE /\ announce' = announce
      BY <2>2 DEF StateDown
    <3> QED  BY <2>1, <3>1
  <2>3. CASE StateUp
    <3>1. announce /\ connected' = TRUE /\ announce' = FALSE
      BY <2>3 DEF StateUp
    <3> QED  BY <3>1
  <2> QED  BY <2>2, <2>3
<1>3. StateOK'
  BY <1>1, <1>2 DEF StateOK
<1>4. InTheEnd' = InTheEnd /\ \A g \in Goroutines : Calling(g)' <=> Calling(g)
  BY <1>1 DEF InTheEnd, Calling
<1>5. \A r \in Rooms : InCall(r)' = InCall(r)
  BY <1>1 DEF InCall
<1>6. CallsOK' /\ Recorded'
  BY <1>1, <1>4 DEF CallsOK, Recorded
<1>7. Fresh'
  BY <1>1, <1>2, <1>4 DEF Fresh
<1>8. SureOK' /\ Silent'
  BY <1>1, <1>2, <1>4, <1>5 DEF SureOK, Silent, StateOK
<1> QED  BY <1>3, <1>6, <1>7, <1>8

LEMMA ServerTakesNext ==
    ASSUME ChannelsInv, HandleRequest
    PROVE  ChannelsInv'
<1> USE DEF ChannelsInv
<1>1. /\ requests # <<>> /\ requests' = Tail(requests)
      /\ members' = AfterRequest(members, Head(requests))
      /\ UNCHANGED <<connected, announce, link, dialed, channels, calls, crossed, overlapped, sure>>
  BY DEF HandleRequest, linkVars
<1>2. requests' \in Seq(Requested) /\ members' \subseteq Rooms /\ InTheEnd' = InTheEnd
  BY <1>1, TakenInTheEnd DEF StateOK
<1>3. connected' \in BOOLEAN /\ announce' \in BOOLEAN /\ ~(connected' /\ announce')
  BY <1>1 DEF StateOK
<1>4. StateOK'
  BY <1>1, <1>2, <1>3 DEF StateOK
<1>5. \A g \in Goroutines : Calling(g)' <=> Calling(g)
  BY <1>1 DEF Calling
<1>6. \A r \in Rooms : InCall(r)' = InCall(r)
  BY <1>1 DEF InCall
<1>7. CallsOK' /\ Recorded'
  BY <1>1, <1>5 DEF CallsOK, Recorded
<1>8. Fresh'
  BY <1>1, <1>2, <1>5 DEF Fresh
<1>9. SureOK' /\ Silent'
  BY <1>1, <1>2, <1>6 DEF SureOK, Silent, StateOK
<1> QED  BY <1>4, <1>7, <1>8, <1>9

(* JoinChannel or LeaveChannel is called.                                  *)
LEMMA CallBeginsNext ==
    ASSUME ChannelsInv, NEW g \in Goroutines, NEW op \in Ops, NEW r \in Rooms,
           ChannelCall(g, op, r)
    PROVE  ChannelsInv'
<1> USE DEF ChannelsInv
<1> DEFINE c == [at |-> "record", op |-> op, room |-> r, conn |-> 0]
<1>1. /\ calls[g] = NoCall /\ connected /\ calls' = [calls EXCEPT ![g] = c]
      /\ sure' = sure \ {r}
      /\ UNCHANGED <<connected, announce, link, dialed, channels, requests, members>>
  BY DEF ChannelCall, linkVars
<1>2. dialed \in Nat /\ dialed \in 1..MaxLinks /\ ~announce
  BY <1>1 DEF StateOK
<1>3. c \in Call /\ c.at = "record" /\ c.room = r /\ c.conn = 0
  BY ChannelsAssumption DEF Call
<1> HIDE DEF c
<1>4. /\ calls' \in [Goroutines -> {NoCall} \cup Call]
      /\ calls'[g] = c /\ \A h \in Goroutines \ {g} : calls'[h] = calls[h]
      /\ ~Calling(g) /\ Calling(g)' /\ \A h \in Goroutines \ {g} : Calling(h)' <=> Calling(h)
  <2>1. /\ calls' \in [Goroutines -> {NoCall} \cup Call]
        /\ calls'[g] = c /\ \A h \in Goroutines \ {g} : calls'[h] = calls[h]
    BY <1>1, <1>3 DEF CallsOK
  <2>2. c # NoCall
    BY <1>3, CallFacts
  <2> QED  BY <1>1, <2>1, <2>2 DEF Calling
<1>5. /\ \A x \in Rooms \ {r} : InCall(x)' = InCall(x)
      /\ InCall(r)' = InCall(r) \cup {g} /\ g \notin InCall(r)
  BY <1>3, <1>4 DEF InCall, Calling
<1>6. InTheEnd' = InTheEnd
  BY <1>1 DEF InTheEnd
<1>7. /\ crossed \subseteq crossed' /\ crossed' \subseteq crossed \cup {g} \cup InCall(r)
      /\ overlapped \subseteq overlapped' /\ overlapped' \subseteq overlapped \cup {r}
      /\ InCall(r) = {} => crossed' = crossed
      /\ InCall(r) # {} => crossed' = crossed \cup {g} \cup InCall(r) /\ r \in overlapped'
      /\ crossed' # crossed => r \in overlapped'
  <2>1. CASE InCall(r) = {}
    BY <2>1 DEF ChannelCall
  <2>2. CASE InCall(r) # {}
    BY <2>2 DEF ChannelCall
  <2> QED  BY <2>1, <2>2
<1>8. StateOK'
  BY <1>1, <1>7 DEF StateOK
<1>9. CallsOK'
  <2>1. \A h \in Goroutines : Calling(h)' => calls'[h].conn <= dialed'
    BY <1>1, <1>2, <1>3, <1>4 DEF CallsOK
  <2>2. \A h \in InCall(r) : h \in Goroutines /\ h # g /\ Calling(h) /\ calls[h].room = r
    BY <1>5 DEF InCall, Calling
  <2>3. crossed' \subseteq {h \in Goroutines : Calling(h)'}
    BY <1>4, <1>7, <2>2 DEF CallsOK
  <2>4. ASSUME NEW h \in crossed'
        PROVE  calls'[h].room \in overlapped'
    <3>1. CASE h \in crossed
      <4>1. h # g /\ h \in Goroutines /\ calls[h].room \in overlapped
        BY <1>4, <3>1 DEF CallsOK
      <4> QED  BY <1>4, <1>7, <4>1
    <3>2. CASE h \notin crossed
      <4>1. r \in overlapped' /\ h \in {g} \cup InCall(r)
        BY <1>7, <2>4, <3>2
      <4> QED  BY <1>3, <1>4, <2>2, <4>1
    <3> QED  BY <3>1, <3>2
  <2>5. ASSUME NEW h \in Goroutines, NEW k \in Goroutines,
               h # k, Calling(h)', Calling(k)', calls'[h].room = calls'[k].room
        PROVE  h \in crossed'
    <3>1. CASE h # g /\ k # g
      BY <1>4, <1>7, <2>5, <3>1 DEF CallsOK
    <3>2. CASE h = g
      <4>1. k \in InCall(r)
        BY <1>3, <1>4, <2>5, <3>2 DEF InCall, Calling
      <4> QED  BY <1>7, <3>2, <4>1
    <3>3. CASE k = g
      <4>1. h \in InCall(r)
        BY <1>3, <1>4, <2>5, <3>3 DEF InCall, Calling
      <4> QED  BY <1>7, <4>1
    <3> QED  BY <3>1, <3>2, <3>3
  <2> QED  BY <1>4, <2>1, <2>3, <2>4, <2>5 DEF CallsOK
<1>10. Recorded'
  BY <1>1, <1>3, <1>4, <1>7 DEF Recorded
<1>11. Fresh'
  BY <1>1, <1>2, <1>3, <1>4, <1>6, <1>7 DEF Fresh
<1>12. SureOK'
  BY <1>1, <1>5, <1>6 DEF SureOK, StateOK
<1>13. Silent'
  BY <1>1, <1>5, <1>6, <1>7 DEF Silent
<1> QED  BY <1>8, <1>9, <1>10, <1>11, <1>12, <1>13

(* A call goes on to its next point.                                       *)
LEMMA CallGoesOn ==
    ASSUME ChannelsInv, NEW g \in Goroutines, Calling(g), NEW c \in Call,
           calls' = [calls EXCEPT ![g] = c],
           c.op = calls[g].op, c.room = calls[g].room, c.conn <= dialed,
           c.at # "record", c.at = "write" => c.conn = dialed,
           UNCHANGED <<linkVars, requests, members, crossed, overlapped, sure>>,
           channels' \subseteq Rooms,
           \A x \in Rooms \ {c.room} : x \in channels' <=> x \in channels,
           g \notin crossed => (c.room \in channels' <=> c.op = "join")
    PROVE  ChannelsInv'
<1> USE DEF ChannelsInv, linkVars
<1>1. /\ calls' \in [Goroutines -> {NoCall} \cup Call]
      /\ calls'[g] = c /\ \A h \in Goroutines \ {g} : calls'[h] = calls[h]
      /\ \A h \in Goroutines : Calling(h)' <=> Calling(h)
      /\ \A h \in Goroutines : calls'[h].room = calls[h].room /\ calls'[h].op = calls[h].op
  <2>1. /\ calls' \in [Goroutines -> {NoCall} \cup Call]
        /\ calls'[g] = c /\ \A h \in Goroutines \ {g} : calls'[h] = calls[h]
    BY DEF CallsOK
  <2>2. c # NoCall
    BY CallFacts
  <2> QED  BY <2>1, <2>2 DEF Calling
<1>2. \A x \in Rooms : InCall(x)' = InCall(x)
  BY <1>1 DEF InCall, Calling
<1>3. InTheEnd' = InTheEnd
  BY DEF InTheEnd
<1>4. g \in InCall(c.room) /\ c.room \in Rooms
  BY CallFacts DEF InCall, Calling
<1>5. StateOK'
  BY DEF StateOK
<1>6. CallsOK'
  BY <1>1 DEF CallsOK
<1>7. Recorded'
  <2> SUFFICES ASSUME NEW h \in Goroutines, h \notin crossed, Calling(h), calls'[h].at # "record"
               PROVE  calls[h].room \in channels' <=> calls[h].op = "join"
    BY <1>1 DEF Recorded
  <2>1. CASE h = g
    BY <2>1
  <2>2. CASE h # g
    <3>1. calls[h].room # c.room /\ calls[h].room \in Rooms
      BY <2>2, CallFacts DEF CallsOK, Calling
    <3> QED  BY <1>1, <2>2, <3>1 DEF Recorded
  <2> QED  BY <2>1, <2>2
<1>8. Fresh'
  <2> SUFFICES ASSUME NEW h \in Goroutines, Calling(h), calls[h].room \notin overlapped,
                      announce \/ (calls'[h].at = "write" /\ calls'[h].conn # dialed)
               PROVE  calls[h].room \notin InTheEnd
    BY <1>1, <1>3 DEF Fresh
  <2> QED  BY <1>1 DEF Fresh
<1>9. SureOK'
  <2> SUFFICES ASSUME NEW x \in sure
               PROVE  InCall(x)' = {} /\ (x \in channels' <=> x \in InTheEnd')
    BY DEF SureOK
  <2>1. InCall(x) = {} /\ (x \in channels <=> x \in InTheEnd) /\ x \in Rooms
    BY DEF SureOK, StateOK
  <2>2. x # c.room
    BY <1>4, <2>1
  <2> QED  BY <1>2, <1>3, <2>1, <2>2
<1>10. Silent'
  <2> SUFFICES ASSUME connected \/ announce, link = "up",
                      NEW x \in Rooms \ overlapped, InCall(x)' = {},
                      x \in InTheEnd'
               PROVE  x \in channels'
    BY DEF Silent
  <2>1. x # c.room
    BY <1>2, <1>4
  <2> QED  BY <1>2, <1>3, <2>1 DEF Silent
<1> QED  BY <1>5, <1>6, <1>7, <1>8, <1>9, <1>10

(* A call is over, and has written its request or not.                     *)
LEMMA CallEnds ==
    ASSUME ChannelsInv, NEW g \in Goroutines, Calling(g), NEW r, r = calls[g].room,
           CallOver(g), UNCHANGED <<linkVars, channels, overlapped>>,
           requests' \in Seq(Requested), members' \subseteq Rooms, sure' \subseteq Rooms,
           link # "up" => sure' = {},
           \A x \in Rooms \ {r} : /\ x \in InTheEnd' <=> x \in InTheEnd
                                  /\ x \in sure' <=> x \in sure,
           r \in sure' => g \notin crossed /\ (r \in channels <=> r \in InTheEnd'),
           /\ (connected \/ announce) /\ link = "up" /\ r \notin overlapped /\ r \in InTheEnd'
           => r \in channels
    PROVE  ChannelsInv'
<1> USE DEF ChannelsInv, linkVars
<1>1. /\ calls' \in [Goroutines -> {NoCall} \cup Call] /\ crossed' = crossed \ {g}
      /\ ~Calling(g)' /\ \A h \in Goroutines \ {g} : calls'[h] = calls[h]
      /\ \A h \in Goroutines \ {g} : Calling(h)' <=> Calling(h)
  <2>1. /\ calls' \in [Goroutines -> {NoCall} \cup Call] /\ crossed' = crossed \ {g}
        /\ calls'[g] = NoCall /\ \A h \in Goroutines \ {g} : calls'[h] = calls[h]
    BY DEF CallOver, CallsOK
  <2> QED  BY <2>1 DEF Calling
<1>2. /\ r \in Rooms /\ g \in InCall(r) /\ InCall(r)' = InCall(r) \ {g}
      /\ \A x \in Rooms \ {r} : InCall(x)' = InCall(x)
  <2>1. r \in Rooms /\ g \in InCall(r)
    BY CallFacts DEF CallsOK, InCall, Calling
  <2> QED  BY <1>1, <2>1 DEF InCall, Calling
<1>3. StateOK'
  BY DEF StateOK
<1>4. CallsOK'
  BY <1>1 DEF CallsOK
<1>5. Recorded'
  BY <1>1 DEF Recorded
<1>6. Fresh'
  <2> SUFFICES ASSUME NEW h \in Goroutines, Calling(h)', calls'[h].room \notin overlapped,
                      announce \/ (calls'[h].at = "write" /\ calls'[h].conn # dialed)
               PROVE  calls'[h].room \notin InTheEnd'
    BY DEF Fresh
  <2>1. h # g /\ Calling(h) /\ calls'[h] = calls[h]
    BY <1>1
  <2>2. calls[h].room \in Rooms /\ calls[h].room # r
    BY <2>1, CallFacts DEF CallsOK, Calling
  <2> QED  BY <2>1, <2>2 DEF Fresh
<1>7. SureOK'
  <2> SUFFICES ASSUME NEW x \in sure'
               PROVE  InCall(x)' = {} /\ (x \in channels' <=> x \in InTheEnd')
    BY DEF SureOK
  <2>1. CASE x # r
    BY <1>2, <2>1 DEF SureOK
  <2>2. CASE x = r
    <3>1. \A h \in InCall(r) : h = g
      BY <2>2 DEF CallsOK, InCall, Calling
    <3> QED  BY <1>2, <2>2, <3>1
  <2> QED  BY <2>1, <2>2
<1>8. Silent'
  BY <1>2 DEF Silent
<1> QED  BY <1>3, <1>4, <1>5, <1>6, <1>7, <1>8

LEMMA CallStepNext ==
    ASSUME ChannelsInv, NEW g \in Goroutines, ChannelStep(g)
    PROVE  ChannelsInv'
<1> USE DEF ChannelsInv
<1> DEFINE r == calls[g].room
<1>1. /\ calls[g] \in {NoCall} \cup Call /\ calls[g].at # "idle"
  BY DEF CallsOK, ChannelStep, Record, CheckState, TakeConn, Write, WriteLost, At
<1>2. Calling(g) /\ calls[g] \in Call /\ r \in Rooms /\ calls[g].op \in {"join", "leave"}
  BY <1>1, CallFacts DEF Calling
<1>3. /\ dialed \in 1..MaxLinks /\ calls[g].conn <= dialed
      /\ g \in crossed => r \in overlapped
      /\ requests \in Seq(Requested) /\ members \subseteq Rooms /\ sure \subseteq Rooms
      /\ link # "up" => sure = {}
      /\ r \notin sure
  <2>1. g \in InCall(r)
    BY <1>2 DEF InCall, Calling
  <2> QED  BY <1>2, <2>1 DEF CallsOK, StateOK, SureOK
<1>4. CASE Record(g)
  <2> DEFINE c == [calls[g] EXCEPT !.at = "manager"]
  <2>1. /\ c \in Call /\ c.op = calls[g].op /\ c.room = r /\ c.conn <= dialed /\ c.at = "manager"
    BY <1>2, <1>3 DEF Call
  <2>2. /\ calls' = [calls EXCEPT ![g] = c]
        /\ UNCHANGED <<linkVars, requests, members, crossed, overlapped, sure>>
        /\ channels' = IF calls[g].op = "join" THEN channels \cup {r} ELSE channels \ {r}
    BY <1>4 DEF Record, GoTo
  <2> HIDE DEF c
  <2>3. /\ channels' \subseteq Rooms /\ \A x \in Rooms \ {r} : x \in channels' <=> x \in channels
        /\ r \in channels' <=> calls[g].op = "join"
    BY <1>2, <2>2 DEF StateOK
  <2> QED  BY <1>2, <2>1, <2>2, <2>3, CallGoesOn
<1>5. ASSUME UNCHANGED <<linkVars, channels, requests, members, overlapped, sure>>, CallOver(g),
             (connected \/ announce) /\ link = "up" /\ r \notin overlapped /\ r \in InTheEnd
             => r \in channels
      PROVE  ChannelsInv'
  <2>1. InTheEnd' = InTheEnd
    BY <1>5 DEF InTheEnd
  <2> QED  BY <1>2, <1>3, <1>5, <2>1, CallEnds
<1>6. ASSUME NEW c \in Call, c.op = calls[g].op, c.room = r, c.conn <= dialed,
             c.at # "record", c.at = "write" => c.conn = dialed, calls[g].at # "record",
             calls' = [calls EXCEPT ![g] = c], UNCHANGED crossed,
             UNCHANGED <<linkVars, channels, requests, members, overlapped, sure>>
      PROVE  ChannelsInv'
  <2>1. channels' \subseteq Rooms /\ \A x \in Rooms \ {r} : x \in channels' <=> x \in channels
    BY <1>6 DEF StateOK
  <2>2. g \notin crossed => (c.room \in channels' <=> c.op = "join")
    BY <1>2, <1>6 DEF Recorded
  <2> QED  BY <1>2, <1>6, <2>1, <2>2, CallGoesOn
<1>7. CASE CheckState(g)
  <2>1. /\ calls[g].at = "manager"
        /\ UNCHANGED <<linkVars, channels, requests, members, overlapped, sure>>
    BY <1>7 DEF CheckState, At
  <2>2. CASE connected
    <3> DEFINE c == [calls[g] EXCEPT !.at = "strategy"]
    <3>1. /\ c \in Call /\ c.op = calls[g].op /\ c.room = r /\ c.conn <= dialed
          /\ c.at = "strategy"
      BY <1>2, <1>3 DEF Call
    <3>2. calls' = [calls EXCEPT ![g] = c] /\ UNCHANGED crossed
      BY <1>7, <2>2 DEF CheckState, GoTo
    <3> HIDE DEF c
    <3> QED  BY <1>6, <2>1, <3>1, <3>2
  <2>3. CASE ~connected
    <3>1. CallOver(g)
      BY <1>7, <2>3 DEF CheckState
    <3>2. announce /\ r \notin overlapped => r \notin InTheEnd
      BY <1>2 DEF Fresh
    <3> QED  BY <1>5, <2>1, <2>3, <3>1, <3>2
  <2> QED  BY <2>2, <2>3
<1>8. CASE TakeConn(g)
  <2>1. /\ calls[g].at = "strategy"
        /\ UNCHANGED <<linkVars, channels, requests, members, overlapped, sure>>
    BY <1>8 DEF TakeConn, At
  <2>2. CASE link \in {"left", "down"}
    <3>1. CallOver(g)
      BY <1>8, <2>2 DEF TakeConn
    <3> QED  BY <1>3, <1>5, <2>1, <2>2, <3>1
  <2>3. CASE link \notin {"left", "down"}
    <3> DEFINE c == [calls[g] EXCEPT !.at = "write", !.conn = dialed]
    <3>0. dialed \in 0..MaxLinks /\ dialed <= dialed
      BY <1>3, ChannelsAssumption
    <3>1. /\ c \in Call /\ c.op = calls[g].op /\ c.room = r /\ c.conn = dialed
          /\ c.at = "write"
      BY <1>2, <3>0 DEF Call
    <3>2. calls' = [calls EXCEPT ![g] = c] /\ UNCHANGED crossed
      BY <1>8, <2>3 DEF TakeConn
    <3> HIDE DEF c
    <3> QED  BY <1>6, <2>1, <3>0, <3>1, <3>2
  <2> QED  BY <2>2, <2>3
<1>9. CASE WriteLost(g)
  <2>1. /\ calls[g].at = "write" /\ ~Usable(g) /\ CallOver(g)
        /\ UNCHANGED <<linkVars, channels, requests, members, overlapped, sure>>
    BY <1>9 DEF WriteLost, At
  <2>2. link = "up" /\ r \notin overlapped => r \notin InTheEnd
    BY <1>2, <1>3, <2>1 DEF Usable, Fresh
  <2> QED  BY <1>5, <2>1, <2>2
<1>10. CASE Write(g)
  <2>1. /\ calls[g].at = "write" /\ CallOver(g)
        /\ requests' = Append(requests, [op |-> calls[g].op, room |-> r])
        /\ sure' = IF g \in crossed \/ link # "up" THEN sure ELSE sure \cup {r}
        /\ UNCHANGED <<linkVars, channels, members, overlapped>>
    BY <1>10 DEF Write, At, Usable
  <2>2. /\ requests' \in Seq(Requested)
        /\ \A x \in Rooms \ {r} : x \in InTheEnd' <=> x \in InTheEnd
        /\ r \in InTheEnd' <=> calls[g].op = "join"
    BY <1>2, <1>3, <2>1, RequestInTheEnd DEF Ops
  <2>3. g \notin crossed => (r \in channels <=> calls[g].op = "join")
    BY <1>2, <2>1 DEF Recorded
  <2>4. /\ r \in sure' => g \notin crossed /\ (r \in channels <=> r \in InTheEnd')
        /\ r \notin overlapped /\ r \in InTheEnd' => r \in channels
    BY <1>3, <2>1, <2>2, <2>3
  <2>5. /\ sure' \subseteq Rooms /\ members' \subseteq Rooms
        /\ \A x \in Rooms \ {r} : x \in sure' <=> x \in sure
        /\ link # "up" => sure' = {}
    BY <1>2, <1>3, <2>1
  <2> HIDE DEF r
  <2> QED  BY <1>2, <2>1, <2>2, <2>4, <2>5, CallEnds DEF r
<1> QED  BY <1>4, <1>7, <1>8, <1>9, <1>10 DEF ChannelStep

LEMMA ChannelsNextInv == ChannelsInv /\ [ChannelsNext]_channelsVars => ChannelsInv'
<1> SUFFICES ASSUME ChannelsInv, [ChannelsNext]_channelsVars PROVE ChannelsInv'
  OBVIOUS
<1>1. ASSUME UNCHANGED channelsVars PROVE ChannelsInv'
  <2>1. UNCHANGED <<connected, announce, link, dialed, channels, calls, requests, members,
                    crossed, overlapped, sure>>
    BY <1>1 DEF channelsVars, linkVars
  <2>2. InTheEnd' = InTheEnd /\ \A g \in Goroutines : Calling(g)' <=> Calling(g)
    BY <2>1 DEF InTheEnd, Calling
  <2>3. \A r \in Rooms : InCall(r)' = InCall(r)
    BY <2>1 DEF InCall
  <2>4. StateOK'
    BY <2>1 DEF ChannelsInv, StateOK
  <2>5. CallsOK' /\ Recorded' /\ Fresh'
    BY <2>1, <2>2 DEF ChannelsInv, CallsOK, Recorded, Fresh
  <2>6. SureOK' /\ Silent'
    BY <2>1, <2>2, <2>3 DEF ChannelsInv, SureOK, Silent, StateOK
  <2> QED  BY <2>4, <2>5, <2>6 DEF ChannelsInv
<1> QED  BY <1>1, LinkOverNext, LinkNext, StateNext, ServerTakesNext, CallBeginsNext, CallStepNext
         DEF ChannelsNext

(* With any number of goroutines and channels, and links lost and dialed   *)
(* at any step of a call: Channels() is right about a channel whose last   *)
(* call returned nil on this link, and while the link is up and the client *)
(* connected, the server keeps the client of this link in no channel that  *)
(* it does not list, unless calls about the channel overlapped (client.go, *)
(* JoinChannel and LeaveChannel).                                          *)
THEOREM ChannelsTrusted == ChannelsSpec => []ChannelsCanBeTrusted
<1>1. ChannelsInv => ChannelsCanBeTrusted
  <2> SUFFICES ASSUME ChannelsInv PROVE ChannelsCanBeTrusted
    OBVIOUS
  <2> USE DEF ChannelsInv
  <2>1. connected \in BOOLEAN /\ announce \in BOOLEAN
    BY DEF StateOK
  <2>2. ChannelsTypeOK
    <3>1. link \in {"up", "broken", "left", "down"} /\ dialed \in 1..MaxLinks /\ channels \subseteq Rooms
          /\ overlapped \subseteq Rooms /\ members \subseteq Rooms /\ sure \subseteq Rooms
          /\ (link # "up" => sure = {})
          /\ requests \in Seq([op : Ops, room : Rooms])
      BY DEF StateOK, Requested
    <3>2. /\ calls \in [Goroutines ->
               {NoCall} \cup [at : {"record", "manager", "strategy", "write"}, op : Ops,
                              room : Rooms, conn : 0..MaxLinks]]
          /\ crossed \subseteq {g \in Goroutines : calls[g] # NoCall}
      BY DEF CallsOK, Call, Calling
    <3> QED  BY <2>1, <3>1, <3>2 DEF ChannelsTypeOK
  <2>3. ListIsTrue
    BY DEF SureOK, ListIsTrue
  <2>4. NoSilentMembership
    BY DEF Silent, NoSilentMembership
  <2> QED  BY <2>2, <2>3, <2>4 DEF ChannelsCanBeTrusted
<1> QED  BY <1>1, ChannelsInitInv, ChannelsNextInv, PTL DEF ChannelsSpec
=============================================================================
