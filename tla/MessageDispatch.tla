---------------------------- MODULE MessageDispatch ----------------------------
(***************************************************************************)
(* From a received message to the application's handlers: eventBus.Notify  *)
(* starts a goroutine per message, which calls the internal handler of     *)
(* client.setupInternalHandlers and so HandlerRegistry.HandleMessage; the  *)
(* application registers handlers and middleware meanwhile, and closes the *)
(* client.                                                                 *)
(*                                                                         *)
(* HandleMessage holds the registry's read lock while the handlers run.    *)
(* As in sync.RWMutex, a caller waiting for the write lock keeps new       *)
(* readers out.  TimeoutMiddleware lets HandleMessage return before its    *)
(* handlers have: what they go on doing, they do without the lock.         *)
(* Handlers do not call the registry themselves: one that did would wait   *)
(* for its own read lock.  They are numbered in the order in which they    *)
(* are registered.  No message is on the channel "*", whose handlers would *)
(* run twice.                                                              *)
(***************************************************************************)
EXTENDS Integers, Sequences, SequencesExt

CONSTANTS
    Registrars,   \* the application's goroutines that register handlers
    Closers,      \* those that close the client
    Channels,
    MaxHandlers,  \* bound: handlers registered
    MaxMessages,  \* bound: messages received
    ChannelOf     \* the channel of each message

Messages == 1..MaxMessages
Callers == Registrars \cup Closers
Handlers == 1..MaxHandlers
NoHandler == 0

ASSUME DispatchAssumption ==
    /\ MaxMessages \in Nat
    /\ MaxHandlers \in Nat
    /\ IsFiniteSet(Callers)
    /\ ChannelOf \in [Messages -> Channels]

VARIABLES
    onChannel,   \* r.messageHandlers, but for the key "*"
    onAll,       \* r.messageHandlers["*"]
    default,     \* r.defaultHandler
    timeout,     \* a TimeoutMiddleware is in r.middlewares
    readers,     \* the messages whose HandleMessage holds the read lock
    call,        \* per caller, its call waiting for the write lock, or idle
    subscribed,  \* the event bus has the internal handler
    closed,      \* c.closed
    dpc,         \* per message, where its goroutine is
    timed,       \* the messages wrapped in a TimeoutMiddleware
    rest,        \* per message, the handlers still to run of the current loop
    ran,         \* history: per message, the handlers that have run
    plan,        \* history: per message, what was registered on entry
    failed,      \* history: the messages a handler returned an error for
    detached,    \* history: the messages that timed out
    retired      \* history: the handlers that Clear removed

registry == <<onChannel, onAll, default, timeout>>
dispatch == <<dpc, timed, rest, ran, plan, failed, detached>>
dispatchVars == <<registry, readers, call, subscribed, closed, dispatch, retired>>

Idle == [op |-> "idle"]
Registrations ==
    [op : {"OnMessage"}, chan : Channels]
      \cup [op : {"OnAllMessages", "SetDefaultHandler", "Use"}]

DispatchInit ==
    /\ onChannel = [ch \in Channels |-> <<>>]
    /\ onAll = <<>>
    /\ default = NoHandler
    /\ timeout = FALSE
    /\ readers = {}
    /\ call = [t \in Callers |-> Idle]
    /\ subscribed = TRUE
    /\ closed = FALSE
    /\ dpc = [m \in Messages |-> "none"]
    /\ timed = {}
    /\ rest = [m \in Messages |-> <<>>]
    /\ ran = [m \in Messages |-> <<>>]
    /\ plan = [m \in Messages |-> <<>>]
    /\ failed = {}
    /\ detached = {}
    /\ retired = {}

-----------------------------------------------------------------------------
(* The application's calls: each asks for the write lock, and gets it when *)
(* no HandleMessage holds the read lock.                                   *)

Registered ==
    (UNION {ToSet(onChannel[ch]) : ch \in Channels}) \cup ToSet(onAll) \cup ({default} \ {NoHandler})

NewHandler == Cardinality(Registered \cup retired) + 1
Pending == {t \in Callers : call[t].op \in {"OnMessage", "OnAllMessages", "SetDefaultHandler"}}

Register(t, c) ==
    /\ call[t] = Idle
    /\ IF c.op = "Use" THEN ~timeout ELSE NewHandler + Cardinality(Pending) <= MaxHandlers
    /\ call' = [call EXCEPT ![t] = c]
    /\ UNCHANGED <<registry, readers, subscribed, closed, dispatch, retired>>

Acquired(t, op) == call[t].op = op /\ readers = {}

OnMessage(t) ==
    /\ Acquired(t, "OnMessage")
    /\ onChannel' = [onChannel EXCEPT ![call[t].chan] = Append(@, NewHandler)]
    /\ call' = [call EXCEPT ![t] = Idle]
    /\ UNCHANGED <<onAll, default, timeout, readers, subscribed, closed, dispatch, retired>>

OnAllMessages(t) ==
    /\ Acquired(t, "OnAllMessages")
    /\ onAll' = Append(onAll, NewHandler)
    /\ call' = [call EXCEPT ![t] = Idle]
    /\ UNCHANGED <<onChannel, default, timeout, readers, subscribed, closed, dispatch, retired>>

SetDefaultHandler(t) ==
    /\ Acquired(t, "SetDefaultHandler")
    /\ default' = NewHandler
    /\ retired' = retired \cup ({default} \ {NoHandler})
    /\ call' = [call EXCEPT ![t] = Idle]
    /\ UNCHANGED <<onChannel, onAll, timeout, readers, subscribed, closed, dispatch>>

Use(t) ==
    /\ Acquired(t, "Use")
    /\ timeout' = TRUE
    /\ call' = [call EXCEPT ![t] = Idle]
    /\ UNCHANGED <<onChannel, onAll, default, readers, subscribed, closed, dispatch, retired>>

(* Client.CloseWithContext lets one call through, which clears the         *)
(* registry, then the event bus.                                           *)
CloseBegin(t) ==
    /\ call[t] = Idle
    /\ ~closed
    /\ closed' = TRUE
    /\ call' = [call EXCEPT ![t] = [op |-> "Clear"]]
    /\ UNCHANGED <<registry, readers, subscribed, dispatch, retired>>

(* Mistake: the default handler survives.                                  *)
Bug_ClearRegistryKeepsDefault(t) ==
    /\ Acquired(t, "Clear")
    /\ onChannel' = [ch \in Channels |-> <<>>]
    /\ onAll' = <<>>
    /\ timeout' = FALSE
    /\ retired' = retired \cup Registered
    /\ call' = [call EXCEPT ![t] = [op |-> "ClearBus"]]
    /\ UNCHANGED <<default, readers, subscribed, closed, dispatch>>

ClearRegistry(t) ==
    /\ Acquired(t, "Clear")
    /\ onChannel' = [ch \in Channels |-> <<>>]
    /\ onAll' = <<>>
    /\ default' = NoHandler
    /\ timeout' = FALSE
    /\ retired' = retired \cup Registered
    /\ call' = [call EXCEPT ![t] = [op |-> "ClearBus"]]
    /\ UNCHANGED <<readers, subscribed, closed, dispatch>>

ClearBus(t) ==
    /\ call[t].op = "ClearBus"
    /\ subscribed' = FALSE
    /\ call' = [call EXCEPT ![t] = Idle]
    /\ UNCHANGED <<registry, readers, closed, dispatch, retired>>

-----------------------------------------------------------------------------
(* Notify, for messages in the order in which they were received           *)

NotifyMessage(m) ==
    /\ dpc[m] = "none"
    /\ \A k \in 1..m - 1 : dpc[k] # "none"
    /\ dpc' = [dpc EXCEPT ![m] = IF subscribed THEN "spawned" ELSE "done"]
    /\ UNCHANGED <<registry, readers, call, subscribed, closed, timed, rest, ran, plan,
                   failed, detached, retired>>

-----------------------------------------------------------------------------
(* HandleMessage                                                           *)

Writers == {t \in Callers : call[t].op \notin {"idle", "ClearBus"}}

PlanOf(ch) ==
    onChannel[ch] \o onAll
      \o IF default # NoHandler /\ onChannel[ch] = <<>> THEN <<default>> ELSE <<>>

(* Mistake: the lock is released before the handlers run, as HandleEvent   *)
(* does after copying its list.                                            *)
Bug_EnterUnlocked(m) ==
    /\ dpc[m] = "spawned"
    /\ Writers = {}
    /\ timed' = IF timeout THEN timed \cup {m} ELSE timed
    /\ plan' = [plan EXCEPT ![m] = PlanOf(ChannelOf[m])]
    /\ dpc' = [dpc EXCEPT ![m] = "channel"]
    /\ UNCHANGED <<registry, readers, call, subscribed, closed, rest, ran, failed, detached,
                   retired>>

(* The read lock, and the chain of middlewares.   *)
Enter(m) ==
    /\ dpc[m] = "spawned"
    /\ Writers = {}
    /\ readers' = readers \cup {m}
    /\ timed' = IF timeout THEN timed \cup {m} ELSE timed
    /\ plan' = [plan EXCEPT ![m] = PlanOf(ChannelOf[m])]
    /\ dpc' = [dpc EXCEPT ![m] = "channel"]
    /\ UNCHANGED <<registry, call, subscribed, closed, rest, ran, failed, detached, retired>>

(* dispatchMessage: three loops, each over the list as it is when the loop *)
(* begins.                                                                 *)
Loop(m, from, list, to) ==
    /\ dpc[m] = from
    /\ rest[m] = <<>>
    /\ rest' = [rest EXCEPT ![m] = list]
    /\ dpc' = [dpc EXCEPT ![m] = to]
    /\ UNCHANGED <<registry, readers, call, subscribed, closed, timed, ran, plan, failed,
                   detached, retired>>

ChannelHandlers(m) == Loop(m, "channel", onChannel[ChannelOf[m]], "wildcard")
WildcardHandlers(m) == Loop(m, "wildcard", onAll, "default")
DefaultHandler(m) ==
    Loop(m, "default",
         IF default # NoHandler /\ onChannel[ChannelOf[m]] = <<>> THEN <<default>> ELSE <<>>,
         "return")

(* Mistake: an error returns past the unlocking.                           *)
Bug_RunErrorKeepsLock(m) ==
    /\ rest[m] # <<>>
    /\ ran' = [ran EXCEPT ![m] = Append(@, Head(rest[m]))]
    /\ \/ /\ rest' = [rest EXCEPT ![m] = Tail(@)]
          /\ UNCHANGED <<dpc, failed>>
       \/ /\ rest' = [rest EXCEPT ![m] = <<>>]
          /\ dpc' = [dpc EXCEPT ![m] = "done"]
          /\ failed' = failed \cup {m}
    /\ UNCHANGED <<registry, readers, call, subscribed, closed, timed, plan, detached, retired>>

(* The next handler runs; an error ends the dispatch.                      *)
RunHandler(m) ==
    /\ rest[m] # <<>>
    /\ ran' = [ran EXCEPT ![m] = Append(@, Head(rest[m]))]
    /\ \/ /\ rest' = [rest EXCEPT ![m] = Tail(@)]
          /\ UNCHANGED <<dpc, failed>>
       \/ /\ rest' = [rest EXCEPT ![m] = <<>>]
          /\ dpc' = [dpc EXCEPT ![m] = "return"]
          /\ failed' = failed \cup {m}
    /\ UNCHANGED <<registry, readers, call, subscribed, closed, timed, plan, detached, retired>>

(* HandleMessage returns, unless it has already.                           *)
Return(m) ==
    /\ dpc[m] = "return"
    /\ rest[m] = <<>>
    /\ dpc' = [dpc EXCEPT ![m] = "done"]
    /\ readers' = readers \ {m}
    /\ timed' = timed \ {m}
    /\ ran' = [ran EXCEPT ![m] = <<>>]
    /\ plan' = [plan EXCEPT ![m] = <<>>]
    /\ failed' = failed \ {m}
    /\ detached' = detached \ {m}
    /\ UNCHANGED <<registry, call, subscribed, closed, rest, retired>>

(* TimeoutMiddleware: the context ends before the handlers do.             *)
Expire(m) ==
    /\ m \in timed
    /\ m \in readers
    /\ readers' = readers \ {m}
    /\ detached' = detached \cup {m}
    /\ UNCHANGED <<registry, call, subscribed, closed, dpc, timed, rest, ran, plan, failed,
                   retired>>

Dispatch(m) ==
    \/ Enter(m) \/ ChannelHandlers(m) \/ WildcardHandlers(m) \/ DefaultHandler(m)
    \/ RunHandler(m) \/ Return(m)

Proceed(t) ==
    \/ OnMessage(t) \/ OnAllMessages(t) \/ SetDefaultHandler(t) \/ Use(t)
    \/ ClearRegistry(t) \/ ClearBus(t)

DispatchNext ==
    \/ \E t \in Registrars, c \in Registrations : Register(t, c)
    \/ \E t \in Closers : CloseBegin(t)
    \/ \E t \in Callers : Proceed(t)
    \/ \E m \in Messages : NotifyMessage(m) \/ Dispatch(m) \/ Expire(m)

DispatchSpec == DispatchInit /\ [][DispatchNext]_dispatchVars

-----------------------------------------------------------------------------
(* Properties                                                              *)

DispatchPoints == {"none", "spawned", "channel", "wildcard", "default", "return", "done"}

(* Every variable holds a value the code can give it; while somebody holds *)
(* the read lock its dispatch is under way.                                *)
DispatchTypeOK ==
    /\ onChannel \in [Channels -> Seq(Handlers)]
    /\ onAll \in Seq(Handlers)
    /\ default \in Handlers \cup {NoHandler}
    /\ timeout \in BOOLEAN
    /\ readers \subseteq {m \in Messages : dpc[m] \notin {"none", "spawned", "done"}}
    /\ call \in [Callers -> Registrations
                              \cup [op : {"idle", "Clear", "ClearBus"}]]
    /\ subscribed \in BOOLEAN
    /\ closed \in BOOLEAN
    /\ dpc \in [Messages -> DispatchPoints]
    /\ timed \subseteq Messages
    /\ rest \in [Messages -> Seq(Handlers)]
    /\ ran \in [Messages -> Seq(Handlers)]
    /\ plan \in [Messages -> Seq(Handlers)]
    /\ failed \subseteq Messages
    /\ detached \subseteq Messages
    /\ retired \subseteq Handlers

(* A message that has not timed out runs the handlers that were registered *)
(* when its dispatch began, in their order and each once, up to the first  *)
(* error; whatever is registered or cleared while they run.                *)
RunsAsRegistered ==
    \A m \in Messages \ detached :
        /\ IsPrefix(ran[m], plan[m])
        /\ dpc[m] = "return" /\ rest[m] = <<>> /\ m \notin failed => ran[m] = plan[m]

(* A handler that was replaced, or cleared by Close, is not called any     *)
(* more, not for messages notified before that either; but by a dispatch   *)
(* that had timed out.                                                     *)
RetiredStayQuiet ==
    \A m \in Messages \ detached :
        Len(ran'[m]) > Len(ran[m]) => Last(ran'[m]) \notin retired
RetiredHandlersStop == [][RetiredStayQuiet]_dispatchVars

(* Close gets past the handlers that are running, and past other calls     *)
(* that wait for the registry.                                             *)
CloseGetsThrough == closed ~> ~subscribed

(* Every message that was handed over is done with.                        *)
DispatchEnds == \A m \in Messages : dpc[m] = "spawned" ~> dpc[m] = "done"
=============================================================================
