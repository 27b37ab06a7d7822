-------------------------- MODULE WebSocketStrategy --------------------------
(***************************************************************************)
(* strategy.WebSocketStrategy: Connect, Disconnect, and the readLoop that  *)
(* every successful Connect starts.  (The writeLoop and Send are in        *)
(* SendPath, the connection manager that drives the strategy is in         *)
(* ConnectionManager.)                                                     *)
(*                                                                         *)
(* Connections, close channels and read loops are numbered by the dial     *)
(* that made them: dial d makes connection d, close channel d and starts   *)
(* read loop d.  0 is the nil connection, and the close channel the        *)
(* constructor makes, which is never closed.                               *)
(*                                                                         *)
(* ws.mu is held across steps only by a goroutine that posts a down event  *)
(* while it holds the lock and may find eventChan full; mu names it.  The  *)
(* other critical sections are single steps guarded by mu = Nobody, the    *)
(* dial included: nothing that needs the lock can happen while it is       *)
(* pending.                                                                *)
(***************************************************************************)
EXTENDS Integers, Sequences

CONSTANTS
    Threads,     \* the callers of Disconnect
    Nobody,      \* mu when no goroutine holds it
    MaxDials,    \* bound: dials that succeed
    EventCap,    \* capacity of eventChan (100 in the code)
    MsgCap,      \* capacity of msgChan (100 in the code)
    MaxInbound,  \* bound: messages that reach the client over one connection
    Envelopes    \* what a frame can be: subset of {"ignored", "event"}

Readers == 1..MaxDials

ASSUME StrategyAssumption ==
    /\ MaxDials \in Nat
    /\ EventCap \in Nat \ {0}
    /\ MsgCap \in Nat \ {0}
    /\ MaxInbound \in Nat
    /\ Envelopes \subseteq {"ignored", "event"}
    /\ Threads \cap Readers = {}
    /\ Nobody \notin Threads \cup Readers

VARIABLES
    connected,   \* ws.connected
    conn,        \* ws.conn: the number of the connection, 0 when nil
    closeChan,   \* ws.closeChan: the number of the channel the field holds
    closed,      \* the close channels that have been closed
    mu,          \* the goroutine holding ws.mu across steps, or Nobody
    dials,       \* the number of connections made so far
    net,         \* what has become of each connection, see below
    inbox,       \* per connection, the messages that have been read off it
    eventChan,   \* ws.eventChan
    msgChan,     \* ws.msgChan
    rpc,         \* per read loop, where it is
    rconn,       \* per read loop, its local variable conn
    rmsg,        \* per read loop, the message it is about to post, or 0
    reports,     \* history: the down events posted so far
    overtaken    \* history: a Connect met the read loop of an earlier link

link == <<connected, conn, closeChan, closed, dials, overtaken>>
events == <<eventChan, reports>>
messages == <<inbox, rmsg, msgChan>>
strategyVars == <<link, mu, net, events, messages, rpc, rconn>>

DownEvents == {"connection_lost", "disconnected"}
EventKinds == DownEvents \cup {"connection_error", "server_event"}
Message == [conn : Readers, seq : 1..MaxInbound]

(* A connection is "open" as long as it works.  It is "lost" once the      *)
(* network has taken it or a read has failed; that ends reading for good   *)
(* but closes nothing, and the socket remains until somebody closes it.    *)
(* It is "closed" when Disconnect has called its Close.                    *)
Fates == {"none", "open", "lost", "closed"}
Unclosed(c) == net[c] \in {"open", "lost"}

StrategyInit ==
    /\ connected = FALSE
    /\ conn = 0
    /\ closeChan = 0
    /\ closed = {}
    /\ mu = Nobody
    /\ dials = 0
    /\ net = [c \in Readers |-> "none"]
    /\ inbox = [c \in Readers |-> 0]
    /\ eventChan = <<>>
    /\ msgChan = <<>>
    /\ rpc = [r \in Readers |-> "idle"]
    /\ rconn = [r \in Readers |-> 0]
    /\ rmsg = [r \in Readers |-> 0]
    /\ reports = 0
    /\ overtaken = FALSE

-----------------------------------------------------------------------------
(* The event channel: a send blocks while the channel is full.             *)

Post(kind) ==
    /\ Len(eventChan) < EventCap
    /\ eventChan' = Append(eventChan, kind)

(* A down event is posted by the holder of ws.mu, which then unlocks.      *)
PostDown(kind) ==
    /\ Post(kind)
    /\ mu' = Nobody
    /\ reports' = reports + 1

-----------------------------------------------------------------------------
(* Connect                                                                 *)

(* The read loops of links taken down by Disconnect that have not returned.*)
StaleLoops == {r \in closed : rpc[r] # "done"}

(* Mistake: the close channel is made by the first Connect only.           *)
Bug_DialKeepsCloseChan ==
    /\ mu = Nobody
    /\ ~connected
    /\ dials < MaxDials
    /\ dials' = dials + 1
    /\ conn' = dials + 1
    /\ closeChan' = IF closeChan = 0 THEN 1 ELSE closeChan
    /\ net' = [net EXCEPT ![dials + 1] = "open"]
    /\ rpc' = [rpc EXCEPT ![dials + 1] = "top"]
    /\ overtaken' = (overtaken \/ StaleLoops # {})
    /\ connected' = TRUE
    /\ UNCHANGED <<closed, mu, events, messages, rconn>>

(* Mistake: Connect does not refuse when it is connected already.          *)
Bug_DialWhileConnected ==
    /\ mu = Nobody
    /\ dials < MaxDials
    /\ dials' = dials + 1
    /\ conn' = dials + 1
    /\ closeChan' = dials + 1
    /\ net' = [net EXCEPT ![dials + 1] = "open"]
    /\ rpc' = [rpc EXCEPT ![dials + 1] = "top"]
    /\ overtaken' = (overtaken \/ StaleLoops # {})
    /\ connected' = TRUE
    /\ UNCHANGED <<closed, mu, events, messages, rconn>>

DialOK ==
    /\ mu = Nobody
    /\ ~connected
    /\ dials < MaxDials
    /\ LET d == dials + 1 IN
         /\ dials' = d
         /\ conn' = d
         /\ closeChan' = d
         /\ net' = [net EXCEPT ![d] = "open"]
         /\ rpc' = [rpc EXCEPT ![d] = "top"]
    /\ overtaken' = (overtaken \/ StaleLoops # {})
    /\ connected' = TRUE
    /\ UNCHANGED <<closed, mu, events, messages, rconn>>

(* ErrAlreadyConnected, or a dial that fails: nothing changes.             *)
ConnectError ==
    /\ mu = Nobody
    /\ UNCHANGED strategyVars

-----------------------------------------------------------------------------
(* Disconnect, called by thread t                                          *)

DisconnectNoop ==
    /\ mu = Nobody
    /\ ~connected
    /\ UNCHANGED strategyVars

(* Mistake: the connection is given up without being closed.               *)
Bug_DisconnectLeavesSocket(t) ==
    /\ mu = Nobody
    /\ connected
    /\ closed' = closed \cup {closeChan}
    /\ connected' = FALSE
    /\ conn' = 0
    /\ mu' = t
    /\ UNCHANGED <<closeChan, dials, overtaken, net, events, messages, rpc, rconn>>

DisconnectDown(t) ==
    /\ mu = Nobody
    /\ connected
    /\ closed' = closed \cup {closeChan}
    /\ connected' = FALSE
    /\ net' = IF conn = 0 THEN net ELSE [net EXCEPT ![conn] = "closed"]
    /\ conn' = 0
    /\ mu' = t
    /\ UNCHANGED <<closeChan, dials, overtaken, events, messages, rpc, rconn>>

DisconnectReport(t) ==
    /\ mu = t
    /\ PostDown("disconnected")
    /\ UNCHANGED <<link, net, messages, rpc, rconn>>

-----------------------------------------------------------------------------
(* readLoop                                                                *)

(* The select reads the field ws.closeChan, without the lock, every time   *)
(* round: it may be the channel of a later Connect.  So may ws.conn be.    *)
ReadTop(r) ==
    /\ rpc[r] = "top"
    /\ \/ /\ closeChan \in closed
          /\ rpc' = [rpc EXCEPT ![r] = "exit"]
          /\ UNCHANGED rconn
       \/ /\ closeChan \notin closed
          /\ mu = Nobody
          /\ rconn' = [rconn EXCEPT ![r] = conn]
          /\ rpc' = [rpc EXCEPT ![r] = IF conn = 0 THEN "exit" ELSE "read"]
    /\ UNCHANGED <<link, mu, net, events, messages>>

(* A frame that posts nothing (malformed, a heartbeat, an action without   *)
(* the message it needs), or one that becomes an event.                    *)
ReadEnvelope(r, kind) ==
    /\ rpc[r] = "read"
    /\ net[rconn[r]] = "open"
    /\ rpc' = [rpc EXCEPT ![r] = IF kind = "event" THEN "sendEvent" ELSE "top"]
    /\ UNCHANGED <<link, mu, net, events, messages, rconn>>

(* A message_received frame: the next message of the connection.           *)
ReadMessage(r) ==
    /\ rpc[r] = "read"
    /\ net[rconn[r]] = "open"
    /\ inbox[rconn[r]] < MaxInbound
    /\ inbox' = [inbox EXCEPT ![rconn[r]] = @ + 1]
    /\ rmsg' = [rmsg EXCEPT ![r] = inbox[rconn[r]] + 1]
    /\ rpc' = [rpc EXCEPT ![r] = "sendMessage"]
    /\ UNCHANGED <<link, mu, net, events, msgChan, rconn>>

SendEvent(r) ==
    /\ rpc[r] = "sendEvent"
    /\ Post("server_event")
    /\ rpc' = [rpc EXCEPT ![r] = "top"]
    /\ UNCHANGED <<link, mu, net, reports, messages, rconn>>

SendMessage(r) ==
    /\ rpc[r] = "sendMessage"
    /\ Len(msgChan) < MsgCap
    /\ msgChan' = Append(msgChan, [conn |-> rconn[r], seq |-> rmsg[r]])
    /\ rmsg' = [rmsg EXCEPT ![r] = 0]
    /\ rpc' = [rpc EXCEPT ![r] = "top"]
    /\ UNCHANGED <<link, mu, net, events, inbox, rconn>>

(* A read that fails: no later one on that connection will succeed.        *)
ReadingFails(r) == net' = [net EXCEPT ![rconn[r]] = IF @ = "open" THEN "lost" ELSE @]

(* Mistake: the loop ends without its deferred function.                   *)
Bug_ReadErrorGivesUp(r) ==
    /\ rpc[r] = "read"
    /\ rpc' = [rpc EXCEPT ![r] = "done"]
    /\ ReadingFails(r)
    /\ UNCHANGED <<link, mu, events, messages, rconn>>

(* ReadMessage fails, on a connection that is lost or closed or because of *)
(* what the peer sent over an open one: a close frame, a protocol error.   *)
(* A close frame with an unexpected code posts an error first; any other   *)
(* failure, a local Close among them, just returns.                        *)
ReadError(r) ==
    /\ rpc[r] = "read"
    /\ \/ rpc' = [rpc EXCEPT ![r] = "exit"]
       \/ /\ net[rconn[r]] # "closed"
          /\ rpc' = [rpc EXCEPT ![r] = "sendError"]
    /\ ReadingFails(r)
    /\ UNCHANGED <<link, mu, events, messages, rconn>>

SendError(r) ==
    /\ rpc[r] = "sendError"
    /\ Post("connection_error")
    /\ rpc' = [rpc EXCEPT ![r] = "exit"]
    /\ UNCHANGED <<link, mu, net, reports, messages, rconn>>

(* Mistake: the loss is reported whether or not Disconnect came first.     *)
Bug_ReadExitAlwaysReports(r) ==
    /\ rpc[r] = "exit"
    /\ mu = Nobody
    /\ connected' = FALSE
    /\ mu' = r
    /\ rpc' = [rpc EXCEPT ![r] = "report"]
    /\ UNCHANGED <<conn, closeChan, closed, dials, overtaken, net, events, messages, rconn>>

(* The deferred function, up to the send it makes with the lock held.  It  *)
(* closes no connection, and ws.conn stays until the next Connect.         *)
ReadExit(r) ==
    /\ rpc[r] = "exit"
    /\ mu = Nobody
    /\ \/ /\ connected
          /\ connected' = FALSE
          /\ mu' = r
          /\ rpc' = [rpc EXCEPT ![r] = "report"]
       \/ /\ ~connected
          /\ rpc' = [rpc EXCEPT ![r] = "done"]
          /\ UNCHANGED <<connected, mu>>
    /\ UNCHANGED <<conn, closeChan, closed, dials, overtaken, net, events, messages, rconn>>

ReportLoss(r) ==
    /\ rpc[r] = "report"
    /\ PostDown("connection_lost")
    /\ rpc' = [rpc EXCEPT ![r] = "done"]
    /\ UNCHANGED <<link, net, messages, rconn>>

ReadStep(r) ==
    \/ ReadTop(r)
    \/ \E kind \in Envelopes : ReadEnvelope(r, kind)
    \/ ReadMessage(r)
    \/ SendEvent(r)
    \/ SendMessage(r)
    \/ ReadError(r)
    \/ SendError(r)
    \/ ReadExit(r)
    \/ ReportLoss(r)

-----------------------------------------------------------------------------
(* The network, and the receiver of the two channels                       *)

NetworkLoss(c) ==
    /\ net[c] = "open"
    /\ net' = [net EXCEPT ![c] = "lost"]
    /\ UNCHANGED <<link, mu, events, messages, rpc, rconn>>

TakeEvent ==
    /\ eventChan # <<>>
    /\ eventChan' = Tail(eventChan)
    /\ UNCHANGED <<link, mu, net, reports, messages, rpc, rconn>>

TakeMessage ==
    /\ msgChan # <<>>
    /\ msgChan' = Tail(msgChan)
    /\ UNCHANGED <<link, mu, net, events, inbox, rmsg, rpc, rconn>>

StrategyNext ==
    \/ DialOK
    \/ ConnectError
    \/ DisconnectNoop
    \/ \E t \in Threads : DisconnectDown(t) \/ DisconnectReport(t)
    \/ \E r \in Readers : ReadStep(r) \/ NetworkLoss(r)
    \/ TakeEvent
    \/ TakeMessage

StrategySpec == StrategyInit /\ [][StrategyNext]_strategyVars

-----------------------------------------------------------------------------
(* Properties                                                              *)

ReadPoints == {"idle", "top", "read", "sendEvent", "sendMessage", "sendError",
               "exit", "report", "done"}

LinkTypeOK ==
    /\ connected \in BOOLEAN
    /\ conn \in 0..MaxDials
    /\ closeChan \in 0..MaxDials
    /\ closed \subseteq Readers
    /\ mu \in Threads \cup Readers \cup {Nobody}
    /\ dials \in 0..MaxDials
    /\ net \in [Readers -> Fates]
    /\ overtaken \in BOOLEAN

ChannelTypeOK ==
    /\ eventChan \in Seq(EventKinds)
    /\ Len(eventChan) <= EventCap
    /\ msgChan \in Seq(Message)
    /\ Len(msgChan) <= MsgCap
    /\ inbox \in [Readers -> 0..MaxInbound]
    /\ reports \in Nat

LoopTypeOK ==
    /\ rpc \in [Readers -> ReadPoints]
    /\ rconn \in [Readers -> 0..MaxDials]
    /\ rmsg \in [Readers -> 0..MaxInbound]

(* Every variable holds a value the code can give it; no channel is ever   *)
(* filled beyond its capacity.                                             *)
StrategyTypeOK == LinkTypeOK /\ ChannelTypeOK /\ LoopTypeOK

(* While the strategy is connected its close channel is open, so that      *)
(* Disconnect never closes a channel twice (a panic), and its connection   *)
(* is the one dialled last, not yet closed.                                *)
ConnectedIsConsistent ==
    connected => /\ closeChan \notin closed
                 /\ conn = dials
                 /\ Unclosed(conn)

(* The read loop of the last dial has not finished while the strategy      *)
(* believes itself connected: there is always someone to notice the loss   *)
(* and post connection_lost.                                               *)
LinkIsWatched == connected => rpc[dials] \notin {"idle", "done"}

(* The next three hold as long as no Connect met the read loop of a link   *)
(* that Disconnect took down.  Such a loop finds the fields of the new     *)
(* link, and may read its connection or declare it lost.                   *)

(* Only Disconnect closes a socket, and only the link's own.  So a socket  *)
(* that works is the link's own; one that nobody has closed and that is    *)
(* not the link's own can no longer be read, and its own read loop has     *)
(* reported the loss or is about to: nothing else is ever left behind.     *)
OpenSocketIsOwned ==
    ~overtaken => \A c \in Readers :
        Unclosed(c) => \/ connected /\ conn = c
                       \/ net[c] = "lost" /\ rpc[c] \in {"report", "done"}

(* A connection is read by one read loop, the one its dial started.        *)
OneReaderPerLink ==
    ~overtaken => \A r \in Readers : rpc[r] \in {"read", "sendMessage"} => rconn[r] = r

ReadBefore(a, b) == a.conn < b.conn \/ (a.conn = b.conn /\ a.seq < b.seq)

(* Messages stand in msgChan, followed by the one a read loop is about to  *)
(* post, in the order in which they were read: no reordering and no        *)
(* duplicate, across reconnections too.                                    *)
MessagesInOrder ==
    ~overtaken =>
        /\ \A i, j \in DOMAIN msgChan : i < j => ReadBefore(msgChan[i], msgChan[j])
        /\ \A r \in Readers : rmsg[r] # 0 =>
             \A i \in DOMAIN msgChan :
                 ReadBefore(msgChan[i], [conn |-> rconn[r], seq |-> rmsg[r]])

(* The strategy keeps the contract its manager relies on: see LinkContract.*)
Contract == INSTANCE LinkContract
                WITH up <- connected, owed <- mu # Nobody, ups <- dials
ImplementsContract == Contract!Spec
=============================================================================
