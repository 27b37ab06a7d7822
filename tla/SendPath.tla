------------------------------- MODULE SendPath -------------------------------
(***************************************************************************)
(* The sending side of strategy.WebSocketStrategy over its links: Send     *)
(* puts a message on sendQueue, the writeLoop that every successful        *)
(* Connect starts takes messages off the queue and writes them to the      *)
(* connection, and SendJoinChannel and SendLeaveChannel write to the       *)
(* connection from the caller's own goroutine.                             *)
(*                                                                         *)
(* Messages are numbered in the order in which Send accepted them.  A      *)
(* write is two steps, so that two goroutines can be seen inside one:      *)
(* gorilla/websocket allows one writer at a time and panics otherwise.     *)
(***************************************************************************)
EXTENDS WebSocketStrategy, FiniteSets

CONSTANTS
    Senders,     \* the goroutines calling Send
    Joiners,     \* the goroutines calling SendJoinChannel, SendLeaveChannel
    QueueCap,    \* capacity of sendQueue (100 in the code)
    MaxAccepted  \* bound: messages accepted

Writers == Readers

ASSUME SendAssumption ==
    /\ QueueCap \in Nat \ {0}
    /\ MaxAccepted \in Nat

VARIABLES
    sendQueue,   \* ws.sendQueue
    accepted,    \* how many messages Send has accepted
    spc,         \* per sender, where its call is
    wpc,         \* per write loop, where it is
    wchan,       \* per write loop, the close channel its select waits on
    wconn,       \* per write loop, its local variable conn (0 when dead)
    wmsg,        \* per write loop, the message it has taken, 0 if none
    jpc,         \* per joiner, where its call is
    jconn,       \* per joiner, its local variable conn (0 between calls)
    wire,        \* per connection, the messages written to it, in order
    dropped      \* the messages that were given up

senderVars == <<sendQueue, accepted, spc>>
writerVars == <<wpc, wchan, wconn, wmsg>>
joinerVars == <<jpc, jconn>>
outcome == <<wire, dropped>>
sendVars == <<senderVars, writerVars, joinerVars, outcome>>
sendPathVars == <<strategyVars, sendVars>>

SendPathInit ==
    /\ StrategyInit
    /\ sendQueue = <<>>
    /\ accepted = 0
    /\ spc = [s \in Senders |-> "idle"]
    /\ wpc = [w \in Writers |-> "idle"]
    /\ wchan = [w \in Writers |-> 0]
    /\ wconn = [w \in Writers |-> 0]
    /\ wmsg = [w \in Writers |-> 0]
    /\ jpc = [j \in Joiners |-> "idle"]
    /\ jconn = [j \in Joiners |-> 0]
    /\ wire = [c \in Readers |-> <<>>]
    /\ dropped = {}

-----------------------------------------------------------------------------
(* Connect starts a write loop beside the read loop.                       *)

(* Mistake: the write loop is started by the first Connect only.           *)
Bug_ConnectOneWriter ==
    /\ DialOK
    /\ wpc' = IF dials = 0 THEN [wpc EXCEPT ![dials'] = "top"] ELSE wpc
    /\ UNCHANGED <<senderVars, wchan, wconn, wmsg, joinerVars, outcome>>

Connect ==
    /\ DialOK
    /\ wpc' = [wpc EXCEPT ![dials'] = "top"]
    /\ UNCHANGED <<senderVars, wchan, wconn, wmsg, joinerVars, outcome>>

-----------------------------------------------------------------------------
(* Send                                                                    *)

SendCheck(s) ==
    /\ spc[s] = "idle"
    /\ mu = Nobody
    /\ connected
    /\ spc' = [spc EXCEPT ![s] = "enqueue"]
    /\ UNCHANGED <<strategyVars, sendQueue, accepted, writerVars, joinerVars, outcome>>

(* The select never blocks: a full queue (ErrSendFailed) or a context that *)
(* has expired returns the message to the caller with an error.            *)
SendEnqueue(s) ==
    /\ spc[s] = "enqueue"
    /\ spc' = [spc EXCEPT ![s] = "idle"]
    /\ \/ /\ Len(sendQueue) < QueueCap
          /\ accepted < MaxAccepted
          /\ accepted' = accepted + 1
          /\ sendQueue' = Append(sendQueue, accepted + 1)
       \/ UNCHANGED <<sendQueue, accepted>>
    /\ UNCHANGED <<strategyVars, writerVars, joinerVars, outcome>>

-----------------------------------------------------------------------------
(* writeLoop                                                               *)

(* The write loop goes from one point to the next.                         *)
Go(w, from, to) == wpc[w] = from /\ wpc' = [wpc EXCEPT ![w] = to]

(* The message in hand is given up.                                        *)
GiveUp(w) ==
    /\ dropped' = dropped \cup {wmsg[w]}
    /\ wmsg' = [wmsg EXCEPT ![w] = 0]
    /\ UNCHANGED wire

(* Entering the select evaluates ws.closeChan once; the loop then waits on *)
(* that channel however often the field changes.                           *)
WriteTop(w) ==
    /\ Go(w, "top", "select")
    /\ wchan' = [wchan EXCEPT ![w] = closeChan]
    /\ UNCHANGED <<strategyVars, senderVars, wconn, wmsg, joinerVars, outcome>>

WriteStop(w) ==
    /\ Go(w, "select", "done")
    /\ wchan[w] \in closed
    /\ wchan' = [wchan EXCEPT ![w] = 0]
    /\ UNCHANGED <<strategyVars, senderVars, wconn, wmsg, joinerVars, outcome>>

WriteTake(w) ==
    /\ Go(w, "select", "taken")
    /\ sendQueue # <<>>
    /\ sendQueue' = Tail(sendQueue)
    /\ wmsg' = [wmsg EXCEPT ![w] = Head(sendQueue)]
    /\ wchan' = [wchan EXCEPT ![w] = 0]
    /\ UNCHANGED <<strategyVars, accepted, spc, wconn, joinerVars, outcome>>

(* A message taken while there is no connection is dropped.  Marshalling   *)
(* may fail, when the message's metadata cannot be encoded; otherwise the  *)
(* loop enters the write.                                                  *)
WriteLoad(w) ==
    /\ mu = Nobody
    /\ \/ /\ Go(w, "taken", "top")
          /\ conn = 0
          /\ GiveUp(w)
          /\ UNCHANGED wconn
       \/ /\ Go(w, "taken", "writing") \/ Go(w, "taken", "marshalError")
          /\ conn # 0
          /\ wconn' = [wconn EXCEPT ![w] = conn]
          /\ UNCHANGED <<wmsg, outcome>>
    /\ UNCHANGED <<strategyVars, senderVars, wchan, joinerVars>>

(* Mistake: a message that was not written is put back for another try.    *)
Bug_WriteMarshalErrorRetries(w) ==
    /\ Go(w, "marshalError", "top")
    /\ Post("connection_error")
    /\ \/ /\ Len(sendQueue) < QueueCap
          /\ sendQueue' = Append(sendQueue, wmsg[w])
          /\ wmsg' = [wmsg EXCEPT ![w] = 0]
          /\ UNCHANGED outcome
       \/ /\ Len(sendQueue) = QueueCap
          /\ GiveUp(w)
          /\ UNCHANGED sendQueue
    /\ wconn' = [wconn EXCEPT ![w] = 0]
    /\ UNCHANGED <<link, mu, net, reports, messages, rpc, rconn,
                   accepted, spc, wchan, joinerVars>>

WriteMarshalError(w) ==
    /\ Go(w, "marshalError", "top")
    /\ Post("connection_error")
    /\ GiveUp(w)
    /\ wconn' = [wconn EXCEPT ![w] = 0]
    /\ UNCHANGED <<link, mu, net, reports, messages, rpc, rconn,
                   senderVars, wchan, joinerVars>>

(* Mistake: a message whose write failed is queued again, though the write *)
(* may have reached the connection.                                        *)
Bug_WriteEndRequeues(w) ==
    /\ wmsg' = [wmsg EXCEPT ![w] = 0]
    /\ wconn' = [wconn EXCEPT ![w] = 0]
    /\ wire' = [wire EXCEPT ![wconn[w]] = Append(@, wmsg[w])]
    /\ \/ /\ Go(w, "writing", "top")
          /\ net[wconn[w]] = "open"
          /\ UNCHANGED sendQueue
       \/ /\ Go(w, "writing", "writeError")
          /\ sendQueue' = Append(sendQueue, wmsg[w])
    /\ UNCHANGED <<strategyVars, accepted, spc, wchan, joinerVars, dropped>>

(* A write to a lost connection may still reach the peer, or only seem to. *)
WriteEnd(w) ==
    /\ wconn' = [wconn EXCEPT ![w] = 0]
    /\ \/ /\ Go(w, "writing", "top")
          /\ Unclosed(wconn[w])
          /\ wire' = [wire EXCEPT ![wconn[w]] = Append(@, wmsg[w])]
          /\ wmsg' = [wmsg EXCEPT ![w] = 0]
          /\ UNCHANGED dropped
       \/ /\ Go(w, "writing", "top")
          /\ net[wconn[w]] = "lost"
          /\ GiveUp(w)
       \/ /\ Go(w, "writing", "writeError")
          /\ net[wconn[w]] \in {"lost", "closed"}
          /\ GiveUp(w)
    /\ UNCHANGED <<strategyVars, senderVars, wchan, joinerVars>>

WriteError(w) ==
    /\ Go(w, "writeError", "done")
    /\ Post("connection_error")
    /\ UNCHANGED <<link, mu, net, reports, messages, rpc, rconn,
                   senderVars, wchan, wconn, wmsg, joinerVars, outcome>>

WriteStep(w) ==
    \/ WriteTop(w) \/ WriteStop(w) \/ WriteTake(w) \/ WriteLoad(w)
    \/ WriteMarshalError(w) \/ WriteEnd(w) \/ WriteError(w)

-----------------------------------------------------------------------------
(* SendJoinChannel and SendLeaveChannel                                    *)

JoinBegin(j) ==
    /\ jpc[j] = "idle"
    /\ mu = Nobody
    /\ connected
    /\ conn # 0
    /\ jpc' = [jpc EXCEPT ![j] = "writing"]
    /\ jconn' = [jconn EXCEPT ![j] = conn]
    /\ UNCHANGED <<strategyVars, senderVars, writerVars, outcome>>

JoinEnd(j) ==
    /\ jpc[j] = "writing"
    /\ jpc' = [jpc EXCEPT ![j] = "idle"]
    /\ jconn' = [jconn EXCEPT ![j] = 0]
    /\ UNCHANGED <<strategyVars, senderVars, writerVars, outcome>>

-----------------------------------------------------------------------------

SendPathNext ==
    \/ Connect
    \/ (ConnectError \/ DisconnectNoop \/ TakeEvent \/ TakeMessage) /\ UNCHANGED sendVars
    \/ \E t \in Threads : (DisconnectDown(t) \/ DisconnectReport(t)) /\ UNCHANGED sendVars
    \/ \E r \in Readers : (ReadStep(r) \/ NetworkLoss(r)) /\ UNCHANGED sendVars
    \/ \E s \in Senders : SendCheck(s) \/ SendEnqueue(s)
    \/ \E w \in Writers : WriteStep(w)
    \/ \E j \in Joiners : JoinBegin(j) \/ JoinEnd(j)

SendPathSpec == SendPathInit /\ [][SendPathNext]_sendPathVars

-----------------------------------------------------------------------------
(* Properties                                                              *)

WritePoints == {"idle", "top", "select", "taken", "marshalError", "writing",
                "writeError", "done"}

(* Every variable of the sending side holds a value the code can give it;  *)
(* sendQueue is never filled beyond its capacity.                          *)
SendTypeOK ==
    /\ sendQueue \in Seq(1..MaxAccepted)
    /\ Len(sendQueue) <= QueueCap
    /\ accepted \in 0..MaxAccepted
    /\ spc \in [Senders -> {"idle", "enqueue"}]
    /\ wpc \in [Writers -> WritePoints]
    /\ wchan \in [Writers -> 0..MaxDials]
    /\ wconn \in [Writers -> 0..MaxDials]
    /\ wmsg \in [Writers -> 0..MaxAccepted]
    /\ jpc \in [Joiners -> {"idle", "writing"}]
    /\ jconn \in [Joiners -> 0..MaxDials]
    /\ wire \in [Readers -> Seq(1..MaxAccepted)]
    /\ dropped \subseteq 1..MaxAccepted

(* The places where a message can be: queued, in the hands of a write      *)
(* loop, written to a connection, or given up (dropped).                   *)
Queued == {sendQueue[i] : i \in DOMAIN sendQueue}
InHand == {wmsg[w] : w \in Writers} \ {0}
Written == UNION {{wire[c][i] : i \in DOMAIN wire[c]} : c \in Readers}

(* No place holds a message twice.                                         *)
HeldOnce ==
    /\ \A i, k \in DOMAIN sendQueue : sendQueue[i] = sendQueue[k] => i = k
    /\ \A v, w \in Writers : wmsg[v] = wmsg[w] => v = w \/ wmsg[v] = 0
    /\ \A b, c \in Readers : \A i \in DOMAIN wire[b], k \in DOMAIN wire[c] :
          wire[b][i] = wire[c][k] => b = c /\ i = k

(* A message that Send accepted is in one place at any time, however many  *)
(* write loops share the queue: none vanishes, none is written twice.      *)
AcceptedOnce ==
    /\ Queued \cup InHand \cup Written \cup dropped = 1..accepted
    /\ Queued \cap (InHand \cup Written \cup dropped) = {}
    /\ InHand \cap (Written \cup dropped) = {}
    /\ Written \cap dropped = {}
    /\ HeldOnce

(* The queue keeps its bound and every accepted message its place.         *)
AcceptedAreKept == SendTypeOK /\ AcceptedOnce

(* A connection that is up and healthy has the write loop of its own dial: *)
(* a loop that failed or was stopped served an earlier connection.         *)
HealthyLinkHasWriter ==
    connected /\ net[conn] = "open" => wpc[dials] \notin {"idle", "done", "writeError"}

(* What the write loops have taken off the queue.                          *)
Taken == InHand \cup Written \cup dropped

(* Messages leave the queue in the order in which Send accepted them, and  *)
(* none comes back: whatever a write loop has in hand, has written or has  *)
(* given up was accepted before all that is still queued, however many     *)
(* loops of earlier links share the queue.  So a message is overtaken only *)
(* while a loop has it in hand, and before the first reconnection, with    *)
(* one loop, none is: what is on the wire is in the order of acceptance.   *)
OvertakenInHandOnly ==
    /\ \A i, k \in DOMAIN sendQueue : i < k => sendQueue[i] < sendQueue[k]
    /\ \A m \in Taken, k \in DOMAIN sendQueue : m < sendQueue[k]
    /\ dials <= 1 =>
          \A c \in Readers : \A i \in DOMAIN wire[c] :
              /\ \A k \in DOMAIN wire[c] : i < k => wire[c][i] < wire[c][k]
              /\ \A w \in Writers : wmsg[w] # 0 => wire[c][i] < wmsg[w]

(* The goroutines inside a write to connection c.                          *)
WritingTo(c) ==
    {w \in Writers : wpc[w] = "writing" /\ wconn[w] = c}
      \cup {j \in Joiners : jpc[j] = "writing" /\ jconn[j] = c}

(* One goroutine at a time writes to a connection.                         *)
OneWriterAtATime == \A c \in Readers : Cardinality(WritingTo(c)) <= 1
=============================================================================
