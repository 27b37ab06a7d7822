------------------------------- MODULE EventBus -------------------------------
(***************************************************************************)
(* observer.EventBus and the goroutines that use it.  Subscribe,           *)
(* SubscribeAll, Unsubscribe and Clear take the write lock, Notify and     *)
(* NotifySync the read lock; a writer that waits keeps new readers out.    *)
(* NotifySync keeps the lock while the handlers run, one after the other;  *)
(* Notify starts a goroutine per handler.                                  *)
(*                                                                         *)
(* Subscriptions are numbered in the order in which they are made.  The    *)
(* handlers that NotifySync calls do not call the bus themselves: one that *)
(* did would wait for the lock its own caller holds.                       *)
(***************************************************************************)
EXTENDS Integers, FiniteSets

CONSTANTS
    Users,     \* the goroutines that subscribe, unsubscribe and clear
    Types,     \* the event types
    MaxSubs,   \* bound: subscriptions made
    MaxEvents  \* bound: events under way at a time

NoType == "none"

ASSUME BusAssumption ==
    /\ MaxSubs \in Nat
    /\ MaxEvents \in Nat
    /\ IsFiniteSet(Users)
    /\ NoType \notin Types

SubIDs == 1..MaxSubs
EventIDs == 1..MaxEvents

VARIABLES
    subscriptions, \* eb.subscriptions: the ids per type
    mapped,        \* the types eb.subscriptions has a map for, be it empty
    allHandlers,   \* eb.allHandlers: the ids
    issuedSubs,    \* the number of subscriptions made
    request,       \* per user, the call that waits for the write lock
    type,          \* the type of an event that is being notified
    syncing,       \* the events whose NotifySync holds the read lock
    visited,       \* the handlers that such a NotifySync has called
    spawned,       \* pairs of an event and a handler a goroutine will run
    due,           \* history: per event, who has yet to hear of it
    removed        \* history: the subscriptions taken back or cleared

busMaps == <<subscriptions, mapped, allHandlers, issuedSubs, removed>>
busEvents == <<type, syncing, visited, spawned, due>>
busVars == <<busMaps, request, busEvents>>

NoRequest == [op |-> "none"]
Requests ==
    [op : {"Subscribe"}, type : Types] \cup [op : {"Unsubscribe"}, id : SubIDs]
      \cup [op : {"SubscribeAll", "Clear"}]

BusInit ==
    /\ subscriptions = [t \in Types |-> {}]
    /\ mapped = {}
    /\ allHandlers = {}
    /\ issuedSubs = 0
    /\ request = [u \in Users |-> NoRequest]
    /\ type = [e \in EventIDs |-> NoType]
    /\ syncing = {}
    /\ visited = [e \in EventIDs |-> {}]
    /\ spawned = {}
    /\ due = [e \in EventIDs |-> {}]
    /\ removed = {}

Subscribers(t) == subscriptions[t] \cup allHandlers

-----------------------------------------------------------------------------
(* The writers                                                             *)

Announced == {u \in Users : request[u].op \in {"Subscribe", "SubscribeAll"}}

(* A call that waits for the lock.  Only ids that were issued can be       *)
(* passed to Unsubscribe, by the functions that Subscribe has returned.    *)
Request(u, r) ==
    /\ request[u] = NoRequest
    /\ r.op \in {"Subscribe", "SubscribeAll"} => issuedSubs + Cardinality(Announced) < MaxSubs
    /\ r.op = "Unsubscribe" => r.id <= issuedSubs
    /\ request' = [request EXCEPT ![u] = r]
    /\ UNCHANGED <<busMaps, busEvents>>

Locked(u, op) ==
    /\ request[u].op = op
    /\ syncing = {}
    /\ request' = [request EXCEPT ![u] = NoRequest]
    /\ UNCHANGED busEvents

Subscribe(u) ==
    /\ Locked(u, "Subscribe")
    /\ issuedSubs' = issuedSubs + 1
    /\ subscriptions' = [subscriptions EXCEPT ![request[u].type] = @ \cup {issuedSubs'}]
    /\ mapped' = mapped \cup {request[u].type}
    /\ UNCHANGED <<allHandlers, removed>>

SubscribeAll(u) ==
    /\ Locked(u, "SubscribeAll")
    /\ issuedSubs' = issuedSubs + 1
    /\ allHandlers' = allHandlers \cup {issuedSubs'}
    /\ UNCHANGED <<subscriptions, mapped, removed>>

(* Mistake: Unsubscribe does not look at the handlers of all types.        *)
Bug_UnsubscribeTyped(u) ==
    /\ Locked(u, "Unsubscribe")
    /\ subscriptions' = [t \in Types |-> subscriptions[t] \ {request[u].id}]
    /\ removed' = removed \cup {request[u].id}
    /\ UNCHANGED <<allHandlers, mapped, issuedSubs>>

(* The map of a type stays when its last subscription goes.  An id is in   *)
(* one place, if it is still in any.                                       *)
Unsubscribe(u) ==
    /\ Locked(u, "Unsubscribe")
    /\ subscriptions' = [t \in Types |-> subscriptions[t] \ {request[u].id}]
    /\ allHandlers' = allHandlers \ {request[u].id}
    /\ removed' = removed \cup {request[u].id}
    /\ UNCHANGED <<mapped, issuedSubs>>

Clear(u) ==
    /\ Locked(u, "Clear")
    /\ subscriptions' = [t \in Types |-> {}]
    /\ mapped' = {}
    /\ allHandlers' = {}
    /\ removed' = 1..issuedSubs
    /\ UNCHANGED issuedSubs

-----------------------------------------------------------------------------
(* The readers                                                             *)

Over == {e \in EventIDs : e \notin syncing /\ \A s \in SubIDs : <<e, s>> \notin spawned}
NewEvent == CHOOSE e \in Over : \A f \in Over : e <= f

(* The read lock, which a waiting writer keeps from the newcomers.         *)
ReadLock == \A u \in Users : request[u] = NoRequest

Begin(t) ==
    /\ ReadLock
    /\ Over # {}
    /\ due' = [due EXCEPT ![NewEvent] = Subscribers(t)]

(* Mistake: a handler of the type hears the event, one of all types not.   *)
Bug_NotifyTyped(t) ==
    /\ Begin(t)
    /\ spawned' = spawned \cup {NewEvent} \X subscriptions[t]
    /\ UNCHANGED <<busMaps, request, type, syncing, visited>>

Notify(t) ==
    /\ Begin(t)
    /\ spawned' = spawned \cup {NewEvent} \X Subscribers(t)
    /\ UNCHANGED <<busMaps, request, type, syncing, visited>>

(* The goroutine of a handler, which holds no lock.                        *)
RunSubscriber(e, s) ==
    /\ <<e, s>> \in spawned
    /\ spawned' = spawned \ {<<e, s>>}
    /\ due' = [due EXCEPT ![e] = @ \ {s}]
    /\ UNCHANGED <<busMaps, request, type, syncing, visited>>

NotifySync(t) ==
    /\ Begin(t)
    /\ syncing' = syncing \cup {NewEvent}
    /\ type' = [type EXCEPT ![NewEvent] = t]
    /\ UNCHANGED <<busMaps, request, visited, spawned>>

(* Each loop visits the map as it is by then, in any order: first the      *)
(* handlers of the type, then those of all types.                          *)
IsNext(e, s) ==
    \/ s \in subscriptions[type[e]]
    \/ s \in allHandlers /\ subscriptions[type[e]] \subseteq visited[e]

CallHandler(e, s) ==
    /\ e \in syncing
    /\ s \notin visited[e]
    /\ IsNext(e, s)
    /\ visited' = [visited EXCEPT ![e] = @ \cup {s}]
    /\ due' = [due EXCEPT ![e] = @ \ {s}]
    /\ UNCHANGED <<busMaps, request, type, syncing, spawned>>

Unlock(e) ==
    /\ syncing' = syncing \ {e}
    /\ type' = [type EXCEPT ![e] = NoType]
    /\ visited' = [visited EXCEPT ![e] = {}]
    /\ UNCHANGED <<busMaps, request, spawned, due>>

NotifySyncEnd(e) ==
    /\ e \in syncing
    /\ Subscribers(type[e]) \subseteq visited[e]
    /\ Unlock(e)

HasSubscribers(t) ==
    IF t \in mapped THEN subscriptions[t] # {} ELSE allHandlers # {}

SubscriberCount(t) == Cardinality(subscriptions[t]) + Cardinality(allHandlers)

BusProceed(u) == Subscribe(u) \/ SubscribeAll(u) \/ Unsubscribe(u) \/ Clear(u)
SyncStep(e) == (\E s \in SubIDs : CallHandler(e, s)) \/ NotifySyncEnd(e)

BusNext ==
    \/ \E u \in Users : BusProceed(u) \/ \E r \in Requests : Request(u, r)
    \/ \E t \in Types : Notify(t) \/ NotifySync(t)
    \/ \E e \in EventIDs : SyncStep(e) \/ \E s \in SubIDs : RunSubscriber(e, s)

BusSpec == BusInit /\ [][BusNext]_busVars

-----------------------------------------------------------------------------
(* Properties                                                              *)

(* Every variable holds a value the code can give it; a subscription is in *)
(* one place, or removed.                                                  *)
BusTypeOK ==
    /\ subscriptions \in [Types -> SUBSET (1..issuedSubs)]
    /\ mapped \in SUBSET Types
    /\ allHandlers \subseteq 1..issuedSubs
    /\ issuedSubs \in 0..MaxSubs
    /\ request \in [Users -> Requests \cup {NoRequest}]
    /\ type \in [EventIDs -> Types \cup {NoType}]
    /\ syncing = {e \in EventIDs : type[e] # NoType}
    /\ visited \in [EventIDs -> SUBSET (1..issuedSubs)]
    /\ spawned \subseteq EventIDs \X (1..issuedSubs)
    /\ removed \subseteq 1..issuedSubs
    /\ \A t \in Types : subscriptions[t] \cap allHandlers = {}
    /\ \A t, u \in Types : t # u => subscriptions[t] \cap subscriptions[u] = {}
    /\ removed = {s \in (1..issuedSubs) \ allHandlers : \A t \in Types : s \notin subscriptions[t]}

(* Every event is heard by those that were subscribed to its type, or to   *)
(* all, when it was notified: each of them once, nobody else, whoever      *)
(* subscribes or unsubscribes in the meantime.                             *)
HeardBySubscribers ==
    \A e \in EventIDs :
        due[e] = IF e \in syncing THEN Subscribers(type[e]) \ visited[e]
                 ELSE {s \in SubIDs : <<e, s>> \in spawned}

(* Once the function that unsubscribes, or Clear, has returned, no         *)
(* NotifySync calls the handler and no Notify starts a goroutine for it;   *)
(* only one that was started before may still run it.                      *)
StaysQuiet ==
    \A e \in EventIDs, s \in removed :
        /\ s \in visited'[e] => s \in visited[e]
        /\ <<e, s>> \in spawned' => <<e, s>> \in spawned
RemovedIsQuiet == [][StaysQuiet]_busVars

(* HasSubscribers claims a subscriber only if Notify would find one.  The  *)
(* reverse the code does not keep: a type whose last subscription was      *)
(* taken back has an empty map, which hides the handlers of all types.     *)
ClaimsAreTrue == \A t \in Types : HasSubscribers(t) => SubscriberCount(t) > 0

(* The bus as a whole: who is subscribed, who hears, and what it claims.   *)
EventsAreHeard == BusTypeOK /\ HeardBySubscribers /\ ClaimsAreTrue

(* Who waits for the write lock gets it, past the handlers that NotifySync *)
(* is calling.                                                             *)
BusCallsReturn == \A u \in Users : request[u] # NoRequest ~> request[u] = NoRequest
=============================================================================
