------------------------------ MODULE MockServer ------------------------------
(***************************************************************************)
(* mock.Server: the WebSocket server the SDK is tested against.  Every     *)
(* accepted connection is a client with a handler goroutine, which reads   *)
(* frames and serves them one at a time; the test itself (Testers) starts  *)
(* and stops the server and sends through it.                              *)
(*                                                                         *)
(* s.mu is held across steps only by Stop, whose Shutdown may take its     *)
(* time; every other critical section is one step guarded by ~stopping.    *)
(* client.mu is held for the length of one write: the client a goroutine   *)
(* writes to is its target, and the lock of c is taken while somebody's    *)
(* target is c.                                                            *)
(*                                                                         *)
(* broadcastToChannel walks the live map of the channel with no lock.      *)
(* Here each look at the map is one step, which sees it as it is then and  *)
(* takes the lock of the member it comes to: the wait for that lock, in    *)
(* which the member may be cleaned up, is left out, so nothing is said of  *)
(* who is written to, only of who is a member.  The Go runtime may instead *)
(* stop the process when it notices the race, after which there is nothing *)
(* left to say.                                                            *)
(***************************************************************************)
EXTENDS Integers, Sequences, SequencesExt

CONSTANTS
    Clients,     \* the connections that are made, each with its Client
    Testers,     \* goroutines of the test that call the server's methods
    Channels,
    Nobody,
    MaxStarts,   \* bound: how often the server is started
    MaxJoined    \* bound: length of a client's Channels

Processes == Clients \cup Testers

ASSUME MockAssumption ==
    /\ Nobody \notin Processes
    /\ Clients \cap Testers = {}
    /\ Channels # {}
    /\ MaxStarts \in Nat
    /\ MaxJoined \in Nat

VARIABLES
    started,   \* s.started
    stopping,  \* Stop holds s.mu
    net,       \* what has become of each connection
    clients,   \* s.clients
    channels,  \* s.channels: the members of each channel
    joined,    \* per client, client.Channels: twice joined is twice there
    starts,    \* bound: how often Start has succeeded
    pc,        \* per goroutine, where it is
    job,       \* per goroutine, the channel it serves and whom it leaves out
    target,    \* per goroutine, the client it is writing to
    seen,      \* per broadcast, the members it has passed
    due,       \* per broadcast, the members the walk has yet to come to
    late       \* history: connections accepted, not registered when Stop ran

server == <<started, stopping, late, starts>>
lists == <<clients, channels, joined>>
walk == <<seen, due>>
mockVars == <<server, net, lists, pc, job, target, walk>>

Job == [chan : Channels, except : Clients \cup {Nobody}]
NoJob == [chan |-> CHOOSE ch \in Channels : TRUE, except |-> Nobody]

MockInit ==
    /\ started = FALSE
    /\ stopping = FALSE
    /\ net = [c \in Clients |-> "none"]
    /\ clients = {}
    /\ channels = [ch \in Channels |-> {}]
    /\ joined = [c \in Clients |-> <<>>]
    /\ starts = 0
    /\ pc = [p \in Processes |-> "idle"]
    /\ job = [p \in Processes |-> NoJob]
    /\ target = [p \in Processes |-> Nobody]
    /\ seen = [p \in Processes |-> {}]
    /\ due = [p \in Processes |-> {}]
    /\ late = {}

(* Goroutine p, not in the middle of a write, goes to its next point.      *)
Go(p, from, to) ==
    /\ pc[p] = from
    /\ target[p] = Nobody
    /\ pc' = [pc EXCEPT ![p] = to]

-----------------------------------------------------------------------------
(* Start and Stop                                                          *)

(* Accepted by the server, and not in its map yet.                         *)
Registering(c) == pc[c] \in {"request", "register"}

Start ==
    /\ ~stopping
    /\ ~started
    /\ starts < MaxStarts
    /\ started' = TRUE
    /\ starts' = starts + 1
    /\ UNCHANGED <<stopping, late, net, lists, pc, job, target, walk>>

(* Mistake: Stop closes the connections it finds in the channels.          *)
Bug_StopMembers ==
    /\ ~stopping
    /\ started
    /\ stopping' = TRUE
    /\ started' = FALSE
    /\ net' = [c \in Clients |->
                  IF \E ch \in Channels : c \in channels[ch] THEN "closed" ELSE net[c]]
    /\ late' = {c \in Clients : Registering(c)}
    /\ UNCHANGED <<starts, lists, pc, job, target, walk>>

(* Stop closes the connections of the clients it knows.                    *)
StopBegin ==
    /\ ~stopping
    /\ started
    /\ stopping' = TRUE
    /\ started' = FALSE
    /\ net' = [c \in Clients |-> IF c \in clients THEN "closed" ELSE net[c]]
    /\ late' = {c \in Clients : Registering(c)}
    /\ UNCHANGED <<starts, lists, pc, job, target, walk>>

(* Shutdown waits for pending requests, not for upgraded connections, and  *)
(* not for ever.                                                           *)
StopEnd ==
    /\ stopping
    /\ stopping' = FALSE
    /\ UNCHANGED <<started, late, starts, net, lists, pc, job, target, walk>>

-----------------------------------------------------------------------------
(* handleWebSocket                                                         *)

(* The listener accepts connections from Start until Shutdown, some time   *)
(* after Stop has looked at the clients, closes it.                        *)
Accept(c) ==
    /\ started \/ stopping
    /\ Go(c, "idle", "request")
    /\ late' = IF started THEN late ELSE late \cup {c}
    /\ UNCHANGED <<started, stopping, starts, net, lists, job, target, walk>>

(* The upgrade asks nobody whether the server is still there.  A request   *)
(* without an API key, or one that cannot be upgraded, goes no further.    *)
Upgrade(c) ==
    /\ Go(c, "request", "register")
    /\ net' = [net EXCEPT ![c] = "open"]
    /\ UNCHANGED <<server, lists, job, target, walk>>

Register(c) ==
    /\ ~stopping
    /\ Go(c, "register", "welcome")
    /\ clients' = clients \cup {c}
    /\ UNCHANGED <<server, net, channels, joined, job, target, walk>>

-----------------------------------------------------------------------------
(* sendToClient: one write, under the lock of its client.  Its error is    *)
(* ignored, so a write to a connection that is gone looks like any other.  *)

WriteBegin(p, c) ==
    /\ target[p] = Nobody
    /\ \A q \in Processes : target[q] # c
    /\ target' = [target EXCEPT ![p] = c]
    /\ UNCHANGED <<server, net, lists, pc, job>>

(* The welcome, an acknowledgment, the echo of a heartbeat.                *)
Answer(c) ==
    /\ pc[c] \in {"welcome", "ack", "pong"}
    /\ WriteBegin(c, c)
    /\ UNCHANGED walk

(* Where the goroutine goes after the write.                               *)
AfterWrite == [welcome |-> "read", pong |-> "read", ack |-> "begin",
               event |-> "idle", cast |-> "cast"]

WriteEnd(p) ==
    /\ target[p] # Nobody
    /\ target' = [target EXCEPT ![p] = Nobody]
    /\ pc' = [pc EXCEPT ![p] = AfterWrite[pc[p]]]
    /\ UNCHANGED <<server, net, lists, job, walk>>

-----------------------------------------------------------------------------
(* broadcastToChannel                                                      *)

(* The map of the channel is looked up under the lock.                     *)
CastBegin(p) ==
    /\ ~stopping
    /\ Go(p, "begin", "cast")
    /\ due' = [due EXCEPT ![p] = channels[job[p].chan] \ {job[p].except}]
    /\ UNCHANGED <<server, net, lists, job, target, seen>>

(* The walk comes to a member that is in the map now, one that joined      *)
(* after the walk began perhaps.                                           *)
CastNext(p, c) ==
    /\ pc[p] = "cast"
    /\ c \in channels[job[p].chan] \ (seen[p] \cup {job[p].except})
    /\ WriteBegin(p, c)
    /\ seen' = [seen EXCEPT ![p] = @ \cup {c}]
    /\ due' = [due EXCEPT ![p] = @ \ {c}]

(* It ends when those it started with have been passed or have left.       *)
CastEnd(p) ==
    /\ Go(p, "cast", IF p \in Clients THEN "read" ELSE "idle")
    /\ due[p] \cap channels[job[p].chan] = {}
    /\ due' = [due EXCEPT ![p] = {}]
    /\ seen' = [seen EXCEPT ![p] = {}]
    /\ job' = [job EXCEPT ![p] = NoJob]
    /\ UNCHANGED <<server, net, lists, target>>

-----------------------------------------------------------------------------
(* handleClient and handleEnvelope                                         *)

Serve(c, point, ch, left_out) ==
    /\ Go(c, "read", point)
    /\ net[c] = "open"
    /\ job' = [job EXCEPT ![c] = [chan |-> ch, except |-> left_out]]
    /\ UNCHANGED <<server, net, lists, target, walk>>

ReadFrame(c) ==
    \/ \E ch \in Channels : \/ Serve(c, "store", ch, c)
                            \/ Len(joined[c]) < MaxJoined /\ Serve(c, "join", ch, Nobody)
                            \/ Serve(c, "leave", ch, Nobody)
                            \/ Serve(c, "begin", ch, c)        \* typing
    \/ Serve(c, "pong", NoJob.chan, NoJob.except)              \* heartbeat

(* s.messages grows; only GetMessages reads it, and it is left out.        *)
StoreMessage(c) ==
    /\ ~stopping
    /\ Go(c, "store", "ack")
    /\ UNCHANGED <<server, net, lists, job, target, walk>>

JoinChannel(c) ==
    /\ ~stopping
    /\ Go(c, "join", "ack")
    /\ channels' = [channels EXCEPT ![job[c].chan] = @ \cup {c}]
    /\ joined' = [joined EXCEPT ![c] = Append(@, job[c].chan)]
    /\ UNCHANGED <<server, net, clients, job, target, walk>>

(* client.Channels loses one mention of the channel, the map its member.   *)
LeaveChannel(c) ==
    /\ ~stopping
    /\ Go(c, "leave", "begin")
    /\ channels' = [channels EXCEPT ![job[c].chan] = @ \ {c}]
    /\ joined' = [joined EXCEPT ![c] = RemoveFirst(@, job[c].chan)]
    /\ UNCHANGED <<server, net, clients, job, target, walk>>

ReadFails(c) ==
    /\ net[c] \in {"lost", "closed"}
    /\ Go(c, "read", "exit")
    /\ UNCHANGED <<server, net, lists, job, target, walk>>

(* Mistake: the cleanup forgets the channels.                              *)
Bug_CleanUpClients(c) ==
    /\ ~stopping
    /\ Go(c, "exit", "done")
    /\ clients' = clients \ {c}
    /\ net' = [net EXCEPT ![c] = "closed"]
    /\ UNCHANGED <<server, channels, joined, job, target, walk>>

(* The deferred function, which closes the connection last.                *)
CleanUp(c) ==
    /\ ~stopping
    /\ Go(c, "exit", "done")
    /\ clients' = clients \ {c}
    /\ channels' = [ch \in Channels |-> IF ch \in ToSet(joined[c])
                                          THEN channels[ch] \ {c} ELSE channels[ch]]
    /\ net' = [net EXCEPT ![c] = "closed"]
    /\ UNCHANGED <<server, joined, job, target, walk>>

Handle(c) ==
    \/ Register(c) \/ Answer(c) \/ StoreMessage(c) \/ JoinChannel(c) \/ LeaveChannel(c)
    \/ ReadFails(c) \/ CleanUp(c)

-----------------------------------------------------------------------------
(* The methods a test calls, and the network                               *)

BroadcastMessage(t) ==
    /\ Go(t, "idle", "begin")
    /\ \E ch \in Channels : job' = [job EXCEPT ![t] = [chan |-> ch, except |-> Nobody]]
    /\ UNCHANGED <<server, net, lists, target, walk>>

(* SimulateEvent looks its client up under the lock and writes to it.      *)
SimulateEvent(t) ==
    /\ ~stopping
    /\ Go(t, "idle", "event")
    /\ \E c \in clients : target' = [target EXCEPT ![t] = c]
    /\ \A q \in Processes : target[q] # target'[t]
    /\ UNCHANGED <<server, net, lists, job, walk>>

NetworkLoss(c) ==
    /\ net[c] = "open"
    /\ net' = [net EXCEPT ![c] = "lost"]
    /\ UNCHANGED <<server, lists, pc, job, target, walk>>

Broadcast(p) == CastBegin(p) \/ CastEnd(p) \/ \E c \in Clients : CastNext(p, c)

MockNext ==
    \/ Start \/ StopBegin \/ StopEnd
    \/ \E c \in Clients : Accept(c) \/ Upgrade(c) \/ ReadFrame(c) \/ Handle(c) \/ NetworkLoss(c)
    \/ \E p \in Processes : WriteEnd(p) \/ Broadcast(p)
    \/ \E t \in Testers : BroadcastMessage(t) \/ SimulateEvent(t)

MockSpec == MockInit /\ [][MockNext]_mockVars

-----------------------------------------------------------------------------
(* Properties                                                              *)

MockPoints == {"idle", "request", "register", "welcome", "read", "store", "join", "leave",
               "ack", "pong", "begin", "cast", "event", "exit", "done"}

(* Every variable holds a value the code can give it, and a broadcast owes *)
(* nothing to those it has passed.                                         *)
MockTypeOK ==
    /\ started \in BOOLEAN
    /\ stopping \in BOOLEAN
    /\ late \subseteq Clients
    /\ net \in [Clients -> {"none", "open", "lost", "closed"}]
    /\ clients \subseteq Clients
    /\ channels \in [Channels -> SUBSET Clients]
    /\ joined \in [Clients -> Seq(Channels)]
    /\ \A c \in Clients : Len(joined[c]) <= MaxJoined
    /\ starts \in 0..MaxStarts
    /\ pc \in [Processes -> MockPoints]
    /\ job \in [Processes -> Job]
    /\ target \in [Processes -> Clients \cup {Nobody}]
    /\ seen \in [Processes -> SUBSET Clients]
    /\ due \in [Processes -> SUBSET Clients]
    /\ \A p \in Processes : seen[p] \cap due[p] = {}

(* A member of a channel is a registered client whose handler will strike  *)
(* it off: whatever it joined and left, and how often, before it was lost, *)
(* a client that has been cleaned up is a member of nothing.               *)
NoGhostMember ==
    \A ch \in Channels : \A c \in channels[ch] :
        /\ c \in clients
        /\ pc[c] # "done"
        /\ ch \in ToSet(joined[c])

(* The maps of the server hold what they may, and no ghosts.               *)
MembersAreLive == MockTypeOK /\ NoGhostMember

(* A stopped server holds no open connection, except of clients it had     *)
(* accepted and not yet registered when Stop closed those it knew: they    *)
(* are upgraded, registered and served although the server has stopped.    *)
StopDisconnects ==
    ~started => \A c \in Clients : net[c] = "open" => c \in late
=============================================================================
