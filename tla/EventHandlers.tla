----------------------------- MODULE EventHandlers -----------------------------
(***************************************************************************)
(* The event handlers of handlers.HandlerRegistry: OnEvent, HandleEvent    *)
(* and Clear.  HandleEvent takes the list of handlers under the read lock, *)
(* lets the lock go and runs them, so that handlers may be registered and  *)
(* cleared between any two of them.  Nothing in the package client calls   *)
(* it.                                                                     *)
(*                                                                         *)
(* Handlers are numbered in the order of their registration.               *)
(***************************************************************************)
EXTENDS Integers, Sequences, SequencesExt

CONSTANTS
    EventCalls,       \* the calls of HandleEvent
    EventTypes,
    MaxEventHandlers  \* bound: handlers registered

NoEvent == "no event"

ASSUME EventHandlersAssumption == MaxEventHandlers \in Nat /\ NoEvent \notin EventTypes

VARIABLES
    eventHandlers,  \* r.eventHandlers
    registered,     \* the number of handlers registered so far
    eventOf,        \* per call, the type of its event, NoEvent before
    todo,           \* per call, the handlers it has yet to run
    asked,          \* history: the handlers there were when it began
    called,         \* history: those it has run
    answer          \* what it returned: "none" so far, "nil", "error"

eventCallVars == <<eventOf, todo, asked, called, answer>>
eventHandlersVars == <<eventHandlers, registered, eventCallVars>>

EventHandlersInit ==
    /\ eventHandlers = [t \in EventTypes |-> <<>>]
    /\ registered = 0
    /\ eventOf = [c \in EventCalls |-> NoEvent]
    /\ todo = [c \in EventCalls |-> <<>>]
    /\ asked = [c \in EventCalls |-> <<>>]
    /\ called = [c \in EventCalls |-> <<>>]
    /\ answer = [c \in EventCalls |-> "none"]

OnEvent(t) ==
    /\ registered < MaxEventHandlers
    /\ registered' = registered + 1
    /\ eventHandlers' = [eventHandlers EXCEPT ![t] = Append(@, registered')]
    /\ UNCHANGED eventCallVars

(* Clear, as far as event handlers go.                                     *)
ClearEvents ==
    /\ eventHandlers' = [t \in EventTypes |-> <<>>]
    /\ UNCHANGED <<registered, eventCallVars>>

(* Up to the unlock.                                                       *)
HandleEvent(c, t) ==
    /\ eventOf[c] = NoEvent
    /\ eventOf' = [eventOf EXCEPT ![c] = t]
    /\ todo' = [todo EXCEPT ![c] = eventHandlers[t]]
    /\ asked' = [asked EXCEPT ![c] = eventHandlers[t]]
    /\ UNCHANGED <<eventHandlers, registered, called, answer>>

Running(c) == eventOf[c] # NoEvent /\ answer[c] = "none"

RunEventHandler(c) ==
    /\ Running(c)
    /\ todo[c] # <<>>
    /\ called' = [called EXCEPT ![c] = Append(@, Head(todo[c]))]
    /\ todo' = [todo EXCEPT ![c] = Tail(@)]
    /\ UNCHANGED <<eventHandlers, registered, eventOf, asked, answer>>

(* The first error ends the call.                                          *)
EventHandlerFails(c) ==
    /\ Running(c)
    /\ todo[c] # <<>>
    /\ called' = [called EXCEPT ![c] = Append(@, Head(todo[c]))]
    /\ answer' = [answer EXCEPT ![c] = "error"]
    /\ UNCHANGED <<eventHandlers, registered, eventOf, todo, asked>>

HandleEventEnd(c) ==
    /\ Running(c)
    /\ todo[c] = <<>>
    /\ answer' = [answer EXCEPT ![c] = "nil"]
    /\ UNCHANGED <<eventHandlers, registered, eventOf, todo, asked, called>>

EventHandlersNext ==
    \/ \E t \in EventTypes : OnEvent(t) \/ \E c \in EventCalls : HandleEvent(c, t)
    \/ ClearEvents
    \/ \E c \in EventCalls : RunEventHandler(c) \/ EventHandlerFails(c) \/ HandleEventEnd(c)

EventHandlersSpec == EventHandlersInit /\ [][EventHandlersNext]_eventHandlersVars

-----------------------------------------------------------------------------
(* Properties                                                              *)

(* A call of HandleEvent runs the handlers there were when it began, each  *)
(* once and in the order of their registration, up to the first error or   *)
(* all of them, whatever is registered or cleared meanwhile.  (So it may   *)
(* run a handler that Clear has removed.)                                  *)
EventsRunAsRegistered ==
    \A c \in EventCalls :
        /\ IsPrefix(called[c], asked[c])
        /\ \A i, j \in DOMAIN called[c] : i < j => called[c][i] < called[c][j]
        /\ answer[c] = "nil" => called[c] = asked[c]
=============================================================================
