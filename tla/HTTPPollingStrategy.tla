------------------------- MODULE HTTPPollingStrategy -------------------------
(***************************************************************************)
(* strategy.HTTPPollingStrategy: Connect, Disconnect, Send and the         *)
(* pollLoop each Connect starts.  Connect c makes close channel c and      *)
(* starts poll loop c.                                                     *)
(*                                                                         *)
(* Connect and Disconnect post their event with hp.mu held, so a full      *)
(* eventChan keeps the lock; mu names the holder.  Send posts without it.  *)
(***************************************************************************)
EXTENDS Integers, Sequences

CONSTANTS
    Threads,      \* the callers of Connect, Disconnect and Send
    Nobody,       \* mu when no thread holds it
    MaxConnects,  \* bound: connects that succeed
    EventCap      \* capacity of eventChan (100 in the code)

Pollers == 1..MaxConnects

ASSUME PollingAssumption ==
    /\ MaxConnects \in Nat
    /\ EventCap \in Nat \ {0}
    /\ Nobody \notin Threads

VARIABLES
    connected,   \* hp.connected
    closeChan,   \* hp.closeChan: the number of the channel, 0 when nil
    closed,      \* the close channels that have been closed
    mu,          \* the thread holding hp.mu across steps, or Nobody
    eventChan,   \* hp.eventChan
    connects,    \* connects that succeeded
    reports,     \* history: the disconnected events posted so far
    tpc,         \* per thread, where its call is
    ppc,         \* per poll loop, where it is
    pchan        \* per poll loop, the close channel its select waits on

link == <<connected, closeChan, closed, connects>>
loops == <<ppc, pchan>>
pollingVars == <<link, mu, eventChan, reports, tpc, loops>>

Events == {"connected", "disconnected", "message_sent"}

PollingInit ==
    /\ connected = FALSE
    /\ closeChan = 0
    /\ closed = {}
    /\ mu = Nobody
    /\ eventChan = <<>>
    /\ connects = 0
    /\ reports = 0
    /\ tpc = [t \in Threads |-> "idle"]
    /\ ppc = [p \in Pollers |-> "idle"]
    /\ pchan = [p \in Pollers |-> 0]

Step(t, from, to) == tpc[t] = from /\ tpc' = [tpc EXCEPT ![t] = to]

Post(kind) ==
    /\ Len(eventChan) < EventCap
    /\ eventChan' = Append(eventChan, kind)

-----------------------------------------------------------------------------
(* Connect                                                                 *)

(* Mistake: the close channel is made by the first Connect only.           *)
Bug_ConnectKeepsCloseChan(t) ==
    /\ Step(t, "idle", "announce")
    /\ mu = Nobody
    /\ ~connected
    /\ connects < MaxConnects
    /\ connected' = TRUE
    /\ connects' = connects + 1
    /\ closeChan' = IF closeChan = 0 THEN 1 ELSE closeChan
    /\ ppc' = [ppc EXCEPT ![connects + 1] = "top"]
    /\ mu' = t
    /\ UNCHANGED <<closed, eventChan, reports, pchan>>

ConnectStart(t) ==
    /\ Step(t, "idle", "announce")
    /\ mu = Nobody
    /\ ~connected
    /\ connects < MaxConnects
    /\ LET c == connects + 1 IN
         /\ connects' = c
         /\ closeChan' = c
         /\ ppc' = [ppc EXCEPT ![c] = "top"]
    /\ connected' = TRUE
    /\ mu' = t
    /\ UNCHANGED <<closed, eventChan, reports, pchan>>

ConnectAnnounce(t) ==
    /\ Step(t, "announce", "idle")
    /\ Post("connected")
    /\ mu' = Nobody
    /\ UNCHANGED <<link, reports, loops>>

-----------------------------------------------------------------------------
(* Disconnect                                                              *)

(* Mistake: the flag is left set.                                          *)
Bug_DisconnectStaysUp(t) ==
    /\ Step(t, "idle", "report")
    /\ mu = Nobody
    /\ connected
    /\ closed' = closed \cup {closeChan}
    /\ mu' = t
    /\ UNCHANGED <<connected, closeChan, connects, eventChan, reports, loops>>

DisconnectDown(t) ==
    /\ Step(t, "idle", "report")
    /\ mu = Nobody
    /\ connected
    /\ closed' = closed \cup {closeChan}
    /\ connected' = FALSE
    /\ mu' = t
    /\ UNCHANGED <<closeChan, connects, eventChan, reports, loops>>

DisconnectReport(t) ==
    /\ Step(t, "report", "idle")
    /\ Post("disconnected")
    /\ mu' = Nobody
    /\ reports' = reports + 1
    /\ UNCHANGED <<link, loops>>

-----------------------------------------------------------------------------
(* Send                                                                    *)

SendCheck(t) ==
    /\ Step(t, "idle", "sent")
    /\ mu = Nobody
    /\ connected
    /\ UNCHANGED <<link, mu, eventChan, reports, loops>>

SendPost(t) ==
    /\ Step(t, "sent", "idle")
    /\ Post("message_sent")
    /\ UNCHANGED <<link, mu, reports, loops>>

-----------------------------------------------------------------------------
(* pollLoop: each round reads the field hp.closeChan, without the lock,    *)
(* and waits for that channel or the ticker, whichever is chosen.          *)

PollTop(p) ==
    /\ ppc[p] = "top"
    /\ ppc' = [ppc EXCEPT ![p] = "select"]
    /\ pchan' = [pchan EXCEPT ![p] = closeChan]
    /\ UNCHANGED <<link, mu, eventChan, reports, tpc>>

PollTick(p) ==
    /\ ppc[p] = "select"
    /\ ppc' = [ppc EXCEPT ![p] = "top"]
    /\ UNCHANGED <<link, mu, eventChan, reports, tpc, pchan>>

PollStop(p) ==
    /\ ppc[p] = "select"
    /\ pchan[p] \in closed
    /\ ppc' = [ppc EXCEPT ![p] = "done"]
    /\ UNCHANGED <<link, mu, eventChan, reports, tpc, pchan>>

(* The receiver of Events().                                               *)
TakeEvent ==
    /\ eventChan # <<>>
    /\ eventChan' = Tail(eventChan)
    /\ UNCHANGED <<link, mu, reports, tpc, loops>>

PollingNext ==
    \/ \E t \in Threads :
          \/ ConnectStart(t) \/ ConnectAnnounce(t)
          \/ DisconnectDown(t) \/ DisconnectReport(t)
          \/ SendCheck(t) \/ SendPost(t)
    \/ \E p \in Pollers : PollTop(p) \/ PollTick(p) \/ PollStop(p)
    \/ TakeEvent

PollingSpec == PollingInit /\ [][PollingNext]_pollingVars

-----------------------------------------------------------------------------
(* Properties                                                              *)

(* Every variable holds a value the code can give it.                      *)
PollingTypeOK ==
    /\ connected \in BOOLEAN
    /\ closeChan \in 0..MaxConnects
    /\ closed \subseteq Pollers
    /\ mu \in Threads \cup {Nobody}
    /\ eventChan \in Seq(Events)
    /\ Len(eventChan) <= EventCap
    /\ connects \in 0..MaxConnects
    /\ reports \in Nat
    /\ tpc \in [Threads -> {"idle", "announce", "report", "sent"}]
    /\ ppc \in [Pollers -> {"idle", "top", "select", "done"}]
    /\ pchan \in [Pollers -> 0..MaxConnects]

(* Without the lock held over the post, a connected event could overtake   *)
(* the disconnected event of the link before it.  With it, they alternate. *)
EventsAlternate ==
    \A i, j \in DOMAIN eventChan :
        /\ i < j
        /\ eventChan[i] = eventChan[j]
        /\ eventChan[i] # "message_sent"
        => \E k \in i + 1 .. j - 1 : eventChan[k] \notin {eventChan[i], "message_sent"}

(* While connected, the poll loop of the last Connect runs.                *)
LinkIsPolled == connected => ppc[connects] \in {"top", "select"}

(* Whichever goroutines connect and disconnect, the polling strategy says  *)
(* truly when it is up, and polls then.                                    *)
PollsAsItSays == PollingTypeOK /\ EventsAlternate /\ LinkIsPolled

(* The polling strategy keeps the contract of LinkContract.                *)
Contract == INSTANCE LinkContract
                WITH up <- connected,
                     owed <- \E t \in Threads : tpc[t] = "report",
                     ups <- connects
ImplementsContract == Contract!Spec
=============================================================================
