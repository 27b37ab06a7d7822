------------------------- MODULE MCMessageDispatch -------------------------
(***************************************************************************)
(* The dispatch of messages to the handlers, the chain of middlewares      *)
(* around one dispatch, and the handlers of events: a behaviour is one of  *)
(* one of them.                                                            *)
(***************************************************************************)
EXTENDS MessageDispatch, Middleware, EventHandlers

CONSTANTS t1, t2, a, e1, e2

OneRegistrar == {t1}
OneCloser == {t2}
OneChannel == {a}
TwoEventCalls == {e1, e2}
TwoEventTypes == {"connected", "typing"}
AllOnOne == [m \in Messages |-> a]

VARIABLE part

allVars == <<part, dispatchVars, middlewareVars, eventHandlersVars>>

AllInit ==
    /\ part \in {"dispatch", "middleware", "events"}
    /\ DispatchInit
    /\ MiddlewareInit
    /\ EventHandlersInit
    /\ part # "middleware" => chain = <<>>

AllNext ==
    /\ UNCHANGED part
    /\ \/ /\ part = "dispatch"
          /\ DispatchNext
          /\ UNCHANGED <<middlewareVars, eventHandlersVars>>
       \/ /\ part = "middleware"
          /\ MiddlewareNext
          /\ UNCHANGED <<dispatchVars, eventHandlersVars>>
       \/ /\ part = "events"
          /\ EventHandlersNext
          /\ UNCHANGED <<dispatchVars, middlewareVars>>

(* The scheduler runs some goroutine while one can run, and handlers       *)
(* return; in a chain of middlewares nothing is assumed of the handlers.   *)
(* That is enough, no goroutine here can take steps without end.           *)
DispatchStep ==
    /\ part = "dispatch"
    /\ (\E m \in Messages : Dispatch(m)) \/ \E t \in Callers : Proceed(t)
ChainStep == part = "middleware" /\ \E t \in Threads : MiddlewareStep(t)

AllSpec ==
    /\ AllInit /\ [][AllNext]_allVars
    /\ WF_dispatchVars(DispatchStep)
    /\ WF_middlewareVars(ChainStep)

(* The same promise for messages and for events: what is run is what was   *)
(* registered when the dispatch, or the call of HandleEvent, began.        *)
HandlersRunAsRegistered == DispatchTypeOK /\ RunsAsRegistered /\ EventsRunAsRegistered

(* Close gets past the dispatches, every dispatch ends if handlers return, *)
(* and with a timeout even if they do not.                                 *)
DispatchesEnd == CloseGetsThrough /\ DispatchEnds /\ TimeoutAnswers
=============================================================================
