-------------------------- MODULE ConnectionManager --------------------------
(***************************************************************************)
(* connection.Manager driving a WebSocketStrategy: Connect, Disconnect and *)
(* Close as an application's goroutines (Threads) call them, and the       *)
(* goroutines the manager starts: forwardEvents and forwardMessages, two   *)
(* per successful Connect, and reconnect, one per loss that is handled.    *)
(*                                                                         *)
(* Those goroutines have no identity the code could tell apart, so they    *)
(* are counted by the point they have reached.  eventBus.Notify starts a   *)
(* goroutine per handler and never blocks; it is left out.  m.mu is never  *)
(* held across a blocking call, so each of its critical sections is one    *)
(* step, and what lies between two of them are steps of other goroutines.  *)
(***************************************************************************)
EXTENDS WebSocketStrategy

CONSTANTS
    MaxReconnects,   \* config.MaxReconnects
    Calls,           \* bound: how often each public operation takes effect
    CtxExpires       \* whether the context given to Close can expire

Operations == {"connect", "disconnect", "close"}

ASSUME ManagerAssumption ==
    /\ MaxReconnects \in Nat
    /\ Calls \in [Operations -> Nat]
    /\ CtxExpires \in BOOLEAN

VARIABLES
    state,            \* m.state
    reconnectCount,   \* m.reconnectCount
    closing,          \* m.closeChan is closed
    done,             \* m.doneChan is closed
    cpc,              \* per thread, where its call is
    fwd,              \* forwardEvents goroutines at each of their points
    mfwd,             \* forwardMessages goroutines
    redial,           \* reconnect goroutines at each of their points
    budget            \* bound: calls still allowed

goroutines == <<fwd, mfwd, redial>>
managerVars == <<state, reconnectCount, closing, done, cpc, goroutines, budget>>
vars == <<strategyVars, managerVars>>

States == {"Disconnected", "Connecting", "Connected", "Reconnecting", "Closed"}
ForwardPoints == {"select", "lost"}
RedialPoints == {"check", "wait", "dial", "up"}

ManagerInit ==
    /\ StrategyInit
    /\ state = "Disconnected"
    /\ reconnectCount = 0
    /\ closing = FALSE
    /\ done = FALSE
    /\ cpc = [t \in Threads |-> "idle"]
    /\ fwd = [p \in ForwardPoints |-> 0]
    /\ mfwd = 0
    /\ redial = [p \in RedialPoints |-> 0]
    /\ budget = Calls

Enter(f, p) == [f EXCEPT ![p] = @ + 1]
Leave(f, p) == [f EXCEPT ![p] = @ - 1]
Move(f, p, q) == Enter(Leave(f, p), q)

(* Thread t takes a step of its call, from one point to the next.          *)
Step(t, from, to) == cpc[t] = from /\ cpc' = [cpc EXCEPT ![t] = to]

(* Thread t starts a call that passes the guards of the operation.         *)
Begin(t, op, to) ==
    /\ Step(t, "idle", to)
    /\ budget[op] > 0
    /\ budget' = Leave(budget, op)

-----------------------------------------------------------------------------
(* Connect.  Only Connected and Closed refuse it.                          *)

ConnectBegin(t) ==
    /\ Begin(t, "connect", "dial")
    /\ state \notin {"Connected", "Closed"}
    /\ state' = "Connecting"
    /\ UNCHANGED <<strategyVars, reconnectCount, closing, done, goroutines>>

ConnectDial(t) ==
    /\ \/ Step(t, "dial", "up") /\ DialOK
       \/ Step(t, "dial", "failed") /\ ConnectError
    /\ UNCHANGED <<state, reconnectCount, closing, done, goroutines, budget>>

ConnectFailed(t) ==
    /\ Step(t, "failed", "idle")
    /\ state' = "Disconnected"
    /\ UNCHANGED <<strategyVars, reconnectCount, closing, done, goroutines, budget>>

ConnectUp(t) ==
    /\ Step(t, "up", "spawn")
    /\ state' = "Connected"
    /\ reconnectCount' = 0
    /\ UNCHANGED <<strategyVars, closing, done, goroutines, budget>>

ConnectSpawn(t) ==
    /\ Step(t, "spawn", "idle")
    /\ fwd' = Enter(fwd, "select")
    /\ mfwd' = mfwd + 1
    /\ UNCHANGED <<strategyVars, state, reconnectCount, closing, done, redial, budget>>

-----------------------------------------------------------------------------
(* forwardMessages and forwardEvents                                       *)

ForwardMessage ==
    /\ mfwd > 0
    /\ TakeMessage
    /\ UNCHANGED managerVars

(* Mistake: the goroutine waits for doneChan, which Close closes last.     *)
Bug_ForwardMessagesStopLate ==
    /\ mfwd > 0
    /\ done
    /\ mfwd' = mfwd - 1
    /\ UNCHANGED <<strategyVars, state, reconnectCount, closing, done, cpc, fwd, redial, budget>>

ForwardMessagesStop ==
    /\ mfwd > 0
    /\ closing
    /\ mfwd' = mfwd - 1
    /\ UNCHANGED <<strategyVars, state, reconnectCount, closing, done, cpc, fwd, redial, budget>>

(* Mistake: an error is taken for the end of the connection.               *)
Bug_ForwardEventHasty ==
    /\ fwd["select"] > 0
    /\ TakeEvent
    /\ fwd' = IF Head(eventChan) \in DownEvents \cup {"connection_error"}
                THEN Move(fwd, "select", "lost") ELSE fwd
    /\ UNCHANGED <<state, reconnectCount, closing, done, cpc, mfwd, redial, budget>>

ForwardEvent ==
    /\ fwd["select"] > 0
    /\ TakeEvent
    /\ fwd' = IF Head(eventChan) \in DownEvents THEN Move(fwd, "select", "lost") ELSE fwd
    /\ UNCHANGED <<state, reconnectCount, closing, done, cpc, mfwd, redial, budget>>

ForwardEventsStop ==
    /\ fwd["select"] > 0
    /\ closing
    /\ fwd' = Leave(fwd, "select")
    /\ UNCHANGED <<strategyVars, state, reconnectCount, closing, done, cpc, mfwd, redial, budget>>

(* Mistake: forwardEvents returns once it has handled a loss.              *)
Bug_HandleLossOnce ==
    /\ fwd["lost"] > 0
    /\ fwd' = Leave(fwd, "lost")
    /\ \/ /\ state \in {"Closed", "Reconnecting"}
          /\ UNCHANGED <<state, redial>>
       \/ /\ state \notin {"Closed", "Reconnecting"}
          /\ state' = "Reconnecting"
          /\ redial' = Enter(redial, "check")
    /\ UNCHANGED <<strategyVars, reconnectCount, closing, done, cpc, mfwd, budget>>

HandleConnectionLost ==
    /\ fwd["lost"] > 0
    /\ fwd' = Move(fwd, "lost", "select")
    /\ \/ /\ state \in {"Closed", "Reconnecting"}
          /\ UNCHANGED <<state, redial>>
       \/ /\ state \notin {"Closed", "Reconnecting"}
          /\ state' = "Reconnecting"
          /\ redial' = Enter(redial, "check")
    /\ UNCHANGED <<strategyVars, reconnectCount, closing, done, cpc, mfwd, budget>>

-----------------------------------------------------------------------------
(* reconnect                                                               *)

(* Mistake: giving up leaves the state as it is.                           *)
Bug_GiveUpSilently ==
    /\ redial["check"] > 0
    /\ \/ /\ state = "Closed" \/ reconnectCount >= MaxReconnects
          /\ redial' = Leave(redial, "check")
          /\ UNCHANGED reconnectCount
       \/ /\ state # "Closed"
          /\ reconnectCount < MaxReconnects
          /\ reconnectCount' = reconnectCount + 1
          /\ redial' = Move(redial, "check", "wait")
    /\ UNCHANGED <<strategyVars, state, closing, done, cpc, fwd, mfwd, budget>>

ReconnectCheck ==
    /\ redial["check"] > 0
    /\ \/ /\ state = "Closed"
          /\ redial' = Leave(redial, "check")
          /\ UNCHANGED <<state, reconnectCount>>
       \/ /\ state # "Closed"
          /\ reconnectCount >= MaxReconnects
          /\ state' = "Disconnected"
          /\ redial' = Leave(redial, "check")
          /\ UNCHANGED reconnectCount
       \/ /\ state # "Closed"
          /\ reconnectCount < MaxReconnects
          /\ reconnectCount' = reconnectCount + 1
          /\ redial' = Move(redial, "check", "wait")
          /\ UNCHANGED state
    /\ UNCHANGED <<strategyVars, closing, done, cpc, fwd, mfwd, budget>>

(* The select between closeChan and the backoff timer.                     *)
ReconnectWait ==
    /\ redial["wait"] > 0
    /\ \/ closing /\ redial' = Leave(redial, "wait")
       \/ redial' = Move(redial, "wait", "dial")
    /\ UNCHANGED <<strategyVars, state, reconnectCount, closing, done, cpc, fwd, mfwd, budget>>

ReconnectDial ==
    /\ redial["dial"] > 0
    /\ \/ DialOK /\ redial' = Move(redial, "dial", "up")
       \/ ConnectError /\ redial' = Move(redial, "dial", "check")
    /\ UNCHANGED <<state, reconnectCount, closing, done, cpc, fwd, mfwd, budget>>

(* Mistake: a reconnection that succeeds is not recorded in the state.     *)
Bug_ReconnectUpSilently ==
    /\ redial["up"] > 0
    /\ redial' = Leave(redial, "up")
    /\ UNCHANGED <<strategyVars, state, reconnectCount, closing, done, cpc, fwd, mfwd, budget>>

(* Mistake: reconnect takes care not to leave Closed, but to nothing else. *)
Bug_ReconnectUpHalfFixed ==
    /\ redial["up"] > 0
    /\ redial' = Leave(redial, "up")
    /\ state' = IF state = "Closed" THEN state ELSE "Connected"
    /\ UNCHANGED <<strategyVars, reconnectCount, closing, done, cpc, fwd, mfwd, budget>>

(* reconnectCount is left as it is: only Connect resets it.                *)
ReconnectUp ==
    /\ redial["up"] > 0
    /\ redial' = Leave(redial, "up")
    /\ state' = "Connected"
    /\ UNCHANGED <<strategyVars, reconnectCount, closing, done, cpc, fwd, mfwd, budget>>

-----------------------------------------------------------------------------
(* Disconnect                                                              *)

DisconnectBegin(t) ==
    /\ Begin(t, "disconnect", "disconnect")
    /\ state \notin {"Disconnected", "Closed"}
    /\ state' = "Disconnected"
    /\ UNCHANGED <<strategyVars, reconnectCount, closing, done, goroutines>>

DisconnectStrategy(t) ==
    /\ \/ Step(t, "disconnect", "idle") /\ DisconnectNoop
       \/ Step(t, "disconnect", "report") /\ DisconnectDown(t)
    /\ UNCHANGED <<state, reconnectCount, closing, done, goroutines, budget>>

DisconnectFinish(t) ==
    /\ Step(t, "report", "idle")
    /\ DisconnectReport(t)
    /\ UNCHANGED <<state, reconnectCount, closing, done, goroutines, budget>>

-----------------------------------------------------------------------------
(* Close.  Client.Close lets at most one call through; a second one that   *)
(* found the state no longer Closed would close m.closeChan twice, a panic.*)

CloseBegin(t) ==
    /\ Begin(t, "close", "close")
    /\ state # "Closed"
    /\ ~closing
    /\ state' = "Closed"
    /\ closing' = TRUE
    /\ UNCHANGED <<strategyVars, reconnectCount, done, goroutines>>

CloseStrategy(t) ==
    /\ \/ Step(t, "close", "closeWait") /\ DisconnectNoop
       \/ Step(t, "close", "closeReport") /\ DisconnectDown(t)
    /\ UNCHANGED <<state, reconnectCount, closing, done, goroutines, budget>>

CloseReport(t) ==
    /\ Step(t, "closeReport", "closeWait")
    /\ DisconnectReport(t)
    /\ UNCHANGED <<state, reconnectCount, closing, done, goroutines, budget>>

CloseFinish(t) ==
    /\ Step(t, "closeWait", "idle")
    /\ fwd["select"] + fwd["lost"] + mfwd = 0
    /\ done' = TRUE
    /\ UNCHANGED <<strategyVars, state, reconnectCount, closing, goroutines, budget>>

(* The wait, unlike strategy.Disconnect before it, heeds the context.      *)
CloseExpired(t) ==
    /\ CtxExpires
    /\ Step(t, "closeWait", "idle")
    /\ UNCHANGED <<strategyVars, state, reconnectCount, closing, done, goroutines, budget>>

-----------------------------------------------------------------------------

Call(t) ==
    \/ ConnectDial(t) \/ ConnectFailed(t) \/ ConnectUp(t) \/ ConnectSpawn(t)
    \/ DisconnectStrategy(t) \/ DisconnectFinish(t)
    \/ CloseStrategy(t) \/ CloseReport(t) \/ CloseFinish(t) \/ CloseExpired(t)

ForwardMessages == ForwardMessage \/ ForwardMessagesStop
ForwardEvents == ForwardEvent \/ ForwardEventsStop \/ HandleConnectionLost
Reconnect == ReconnectCheck \/ ReconnectWait \/ ReconnectDial \/ ReconnectUp

Next ==
    \/ \E t \in Threads : ConnectBegin(t) \/ DisconnectBegin(t) \/ CloseBegin(t) \/ Call(t)
    \/ ForwardMessages
    \/ ForwardEvents
    \/ Reconnect
    \/ \E r \in Readers : (ReadStep(r) \/ NetworkLoss(r)) /\ UNCHANGED managerVars

Spec == ManagerInit /\ [][Next]_vars

-----------------------------------------------------------------------------
(* Fairness: the Go scheduler runs every goroutine that can run, a dial    *)
(* and a timer end.  No fairness for what the application and the network  *)
(* do: new calls, frames and losses.                                       *)

ReadProgress(r) ==
    \/ ReadTop(r) \/ SendEvent(r) \/ SendMessage(r)
    \/ ReadError(r) /\ net[rconn[r]] # "open"
    \/ SendError(r) \/ ReadExit(r) \/ ReportLoss(r)

Fairness ==
    /\ \A t \in Threads : WF_vars(Call(t))
    /\ \A r \in Readers : WF_vars(ReadProgress(r) /\ UNCHANGED managerVars)
    /\ WF_vars(ForwardMessages)
    /\ WF_vars(ForwardEvent \/ ForwardEventsStop)
    /\ WF_vars(HandleConnectionLost)
    /\ WF_vars(ReconnectCheck)
    /\ WF_vars(ReconnectWait)
    /\ WF_vars(ReconnectDial)
    /\ WF_vars(ReconnectUp)

FairSpec == Spec /\ Fairness

-----------------------------------------------------------------------------
(* Properties                                                              *)

CallPoints == {"idle", "dial", "failed", "up", "spawn", "disconnect", "report",
               "close", "closeReport", "closeWait"}

Forwarders == fwd["select"] + fwd["lost"]
Redialers == redial["check"] + redial["wait"] + redial["dial"]

(* Every variable holds a value the code can give it; the reconnect count  *)
(* never passes MaxReconnects.                                             *)
ManagerTypeOK ==
    /\ StrategyTypeOK
    /\ state \in States
    /\ reconnectCount \in 0..MaxReconnects
    /\ closing \in BOOLEAN
    /\ done \in BOOLEAN
    /\ cpc \in [Threads -> CallPoints]
    /\ fwd \in [ForwardPoints -> Nat]
    /\ mfwd \in Nat
    /\ redial \in [RedialPoints -> Nat]
    /\ budget \in [Operations -> Nat]

(* Connecting and Reconnecting are states somebody is bound to leave: a    *)
(* Connect that has not returned, a reconnect goroutine that has not given *)
(* up.  No interleaving of calls, losses and giving up strands the manager *)
(* in one of them (a reconnect goroutine may vanish only once Close ran).  *)
PendingStateHasOwner ==
    /\ state = "Connecting" => \E t \in Threads : cpc[t] \in {"dial", "failed", "up"}
    /\ state = "Reconnecting" /\ ~closing => Redialers + redial["up"] > 0

(* As long as the manager is not closed, a live link has a goroutine that  *)
(* forwards its messages and one that will hear of its loss, or a Connect  *)
(* on its way to starting them; also when the Connect that dialled it and  *)
(* the one that starts them are not the same call.                         *)
LiveLinkIsServed ==
    connected /\ ~closing =>
        \/ Forwarders > 0 /\ mfwd > 0
        \/ \E t \in Threads : cpc[t] \in {"up", "spawn"}

DownQueued == \E i \in DOMAIN eventChan : eventChan[i] \in DownEvents
AsCount(b) == IF b THEN 1 ELSE 0

(* So far the application has connected once at most, and has not          *)
(* disconnected; it may have closed.                                       *)
OneSession ==
    /\ budget["connect"] + 1 >= Calls["connect"]
    /\ budget["disconnect"] = Calls["disconnect"]

(* Within one session there is one outage at a time: the link is up, or    *)
(* its down event is owed, or queued, or being handled, or one reconnect   *)
(* goroutine is at work, never two of these.  So no redial meets a live    *)
(* link (ErrAlreadyConnected) or another redial.                           *)
OneOutageAtATime ==
    OneSession =>
        /\ \A i, j \in DOMAIN eventChan :
               eventChan[i] \in DownEvents /\ eventChan[j] \in DownEvents => i = j
        /\ AsCount(connected) + AsCount(mu # Nobody) + AsCount(DownQueued)
             + fwd["lost"] + Redialers <= 1

(* Nothing can move any more but the application and the network.          *)
AtRest ==
    /\ \A t \in Threads : cpc[t] = "idle"
    /\ eventChan = <<>>
    /\ fwd["lost"] = 0
    /\ \A p \in RedialPoints : redial[p] = 0
    /\ \A r \in Readers :
           \/ rpc[r] \in {"idle", "done"}
           \/ rpc[r] = "read" /\ net[rconn[r]] = "open"

(* At rest a live link shows: the client reports Connected, and lets the   *)
(* application send over it and disconnect it.  Beyond one session a       *)
(* Connect that loses the race for the dial may leave Disconnected behind. *)
LiveLinkIsVisible == OneSession /\ AtRest /\ connected /\ ~closing => state = "Connected"

(* At rest the manager reports Connected only over a live link: every loss *)
(* it was told of was acted upon.                                          *)
ConnectedIsLive == AtRest /\ state = "Connected" => connected

(* At rest a manager that reports Closed has released its connection.  (A  *)
(* dial that was on its way when Close ran overwrites the state.)          *)
ClosedIsReleased == AtRest /\ state = "Closed" => ~connected

(* At rest after a Disconnect that nothing followed, the link is down.     *)
DisconnectSticks == AtRest /\ budget["connect"] + budget["disconnect"] = 0 => ~connected

(* A manager that is Reconnecting gets out of it: connected, given up, or  *)
(* closed.                                                                 *)
ReconnectSettles ==
    state = "Reconnecting" /\ ~closing ~> state # "Reconnecting" \/ closing

(* A link that can no longer be read does not stay connected, unless the   *)
(* manager is closed and nobody empties the channels any more.             *)
LossIsNoticed ==
    \A c \in Readers :
        connected /\ conn = c /\ net[c] = "lost" ~> ~(connected /\ conn = c) \/ closing

(* Close returns, having seen the forwarding goroutines off.               *)
CloseCompletes == closing ~> done

(* Close returns at the latest when its context expires.                   *)
CloseReturns ==
    \A t \in Threads : cpc[t] = "close" ~> cpc[t] = "idle"
=============================================================================
