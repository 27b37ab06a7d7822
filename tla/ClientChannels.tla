---------------------------- MODULE ClientChannels ----------------------------
(***************************************************************************)
(* Client.JoinChannel and LeaveChannel: what c.channels says of a channel, *)
(* and what the server knows.  A call looks at the state of the connection *)
(* three times and writes its request to the connection it has found, with *)
(* no lock held from one step to the next, while links are lost and dialed *)
(* again.  Of the manager and the strategy no more is modelled here than a *)
(* call can see, with one goroutine at a time that dials.                  *)
(*                                                                         *)
(* To the server every link is a client of its own, whose requests it      *)
(* takes in their order and whose channels it forgets some time after the  *)
(* connection is gone: closed by Disconnect, or lost.  A read loop that    *)
(* ends closes nothing.  If it ends while its connection is open, or is    *)
(* that of an earlier link, ws.connected is false, the connection is left  *)
(* open and the server keeps its client.  requests and members are those   *)
(* of the last link; what the server keeps of links before it, and what is *)
(* still written to them, is not followed.                                 *)
(***************************************************************************)
EXTENDS Integers, Sequences

CONSTANTS
    Goroutines,  \* those of the application
    Rooms,       \* the channels
    MaxLinks,    \* bound: links dialed
    MaxWire      \* bound: requests on their way

ASSUME ChannelsAssumption == MaxLinks \in Nat \ {0} /\ MaxWire \in Nat

VARIABLES
    connected,   \* m.state is StateConnected
    announce,    \* Connect or reconnect has dialed and is about to say so
    link,        \* "up", "broken" unnoticed, or ws.connected is false: the
                 \* connection is "left" open, or it is "down"
    dialed,      \* the number of links so far, and so ws.conn
    channels,    \* c.channels
    calls,       \* per goroutine, the call it has made
    requests,    \* the requests of this link the server has yet to take
    members,     \* the channels the server has the client of this link in
    crossed,     \* history: the calls that met another on their channel
    overlapped,  \* history: channels with calls that met, on this link
    sure         \* history: channels whose last call was good, on this link

linkVars == <<connected, announce, link, dialed>>
channelsVars == <<linkVars, channels, calls, requests, members, crossed, overlapped,
                  sure>>

NoCall == [at |-> "idle"]
Ops == {"join", "leave"}
InCall(r) == {g \in Goroutines : calls[g] # NoCall /\ calls[g].room = r}

ChannelsInit ==
    /\ connected = TRUE
    /\ announce = FALSE
    /\ link = "up"
    /\ dialed = 1
    /\ channels = {}
    /\ calls = [g \in Goroutines |-> NoCall]
    /\ requests = <<>>
    /\ members = {}
    /\ crossed = {}
    /\ overlapped = {}
    /\ sure = {}

-----------------------------------------------------------------------------
(* JoinChannel and LeaveChannel                                            *)

(* IsConnected; without a connection the call is over.                     *)
ChannelCall(g, op, r) ==
    /\ calls[g] = NoCall
    /\ connected
    /\ calls' = [calls EXCEPT ![g] = [at |-> "record", op |-> op, room |-> r, conn |-> 0]]
    /\ IF InCall(r) = {} THEN UNCHANGED <<crossed, overlapped>>
       ELSE /\ crossed' = crossed \cup {g} \cup InCall(r)
            /\ overlapped' = overlapped \cup {r}
    /\ sure' = sure \ {r}
    /\ UNCHANGED <<linkVars, channels, requests, members>>

At(g, point) == calls[g].at = point
GoTo(g, point) == calls' = [calls EXCEPT ![g].at = point] /\ UNCHANGED crossed
CallOver(g) == calls' = [calls EXCEPT ![g] = NoCall] /\ crossed' = crossed \ {g}

(* The map, under c.mu.                                                    *)
Record(g) ==
    /\ At(g, "record")
    /\ channels' = IF calls[g].op = "join" THEN channels \cup {calls[g].room}
                   ELSE channels \ {calls[g].room}
    /\ GoTo(g, "manager")
    /\ UNCHANGED <<linkVars, requests, members, overlapped, sure>>

(* Manager.SendJoinChannel and SendLeaveChannel look at the state again;   *)
(* the map is not put right when they return ErrNotConnected.              *)
CheckState(g) ==
    /\ At(g, "manager")
    /\ IF connected THEN GoTo(g, "strategy") ELSE CallOver(g)
    /\ UNCHANGED <<linkVars, channels, requests, members, overlapped, sure>>

TakeConn(g) ==
    /\ At(g, "strategy")
    /\ IF link \in {"left", "down"} THEN CallOver(g)
       ELSE /\ calls' = [calls EXCEPT ![g].at = "write", ![g].conn = dialed]
            /\ UNCHANGED crossed
    /\ UNCHANGED <<linkVars, channels, requests, members, overlapped, sure>>

(* The call holds the connection of this link, and the connection is open. *)
Usable(g) == link \in {"up", "left"} /\ calls[g].conn = dialed

Write(g) ==
    /\ At(g, "write")
    /\ Usable(g)
    /\ Len(requests) < MaxWire
    /\ requests' = Append(requests, [op |-> calls[g].op, room |-> calls[g].room])
    /\ sure' = IF g \in crossed \/ link # "up" THEN sure ELSE sure \cup {calls[g].room}
    /\ CallOver(g)
    /\ UNCHANGED <<linkVars, channels, members, overlapped>>

(* On a connection that is gone the write fails, or is lost unnoticed; on  *)
(* that of an earlier link it may arrive, and says nothing to this one.    *)
WriteLost(g) ==
    /\ At(g, "write")
    /\ ~Usable(g)
    /\ CallOver(g)
    /\ UNCHANGED <<linkVars, channels, requests, members, overlapped, sure>>

-----------------------------------------------------------------------------
(* The server and the links                                                *)

AfterRequest(set, request) ==
    IF request.op = "join" THEN set \cup {request.room} ELSE set \ {request.room}

HandleRequest ==
    /\ requests # <<>>
    /\ members' = AfterRequest(members, Head(requests))
    /\ requests' = Tail(requests)
    /\ UNCHANGED <<linkVars, channels, calls, crossed, overlapped, sure>>

(* The connection is gone, and the client of the link with it.             *)
ServerForgets ==
    /\ link \in {"broken", "down"}
    /\ requests # <<>> \/ members # {}
    /\ requests' = <<>>
    /\ members' = {}
    /\ UNCHANGED <<linkVars, channels, calls, crossed, overlapped, sure>>

LinkBecomes(state) ==
    /\ link' = state
    /\ sure' = {}
    /\ UNCHANGED <<connected, announce, dialed, channels, calls, requests, members, crossed,
                   overlapped>>

(* The network loses the connection.                                       *)
LinkBreaks ==
    \/ link = "up" /\ LinkBecomes("broken")
    \/ link = "left" /\ LinkBecomes("down")

(* A read loop ends: ReadMessage fails, on an open connection perhaps, or  *)
(* the loop is the last thing left of an earlier link.                     *)
ReadLoopEnds ==
    \/ link = "up" /\ LinkBecomes("left")
    \/ link = "broken" /\ LinkBecomes("down")

(* The strategy's Disconnect closes the connection, unless it is too late. *)
StrategyDisconnect ==
    /\ link \in {"up", "broken"}
    /\ LinkBecomes("down")

(* Disconnect changes the state before it closes the link; the event of a  *)
(* loss is handled later, when the next link may be up.                    *)
StateDown ==
    /\ connected
    /\ connected' = FALSE
    /\ UNCHANGED <<announce, link, dialed, channels, calls, requests, members, crossed,
                   overlapped, sure>>

(* Whatever has become of the link.                                        *)
StateUp ==
    /\ announce
    /\ connected' = TRUE
    /\ announce' = FALSE
    /\ UNCHANGED <<link, dialed, channels, calls, requests, members, crossed, overlapped, sure>>

(* Mistake: the client's channels are forgotten with the link.             *)
Bug_RedialForgets ==
    /\ link \in {"left", "down"}
    /\ ~connected /\ ~announce
    /\ dialed < MaxLinks
    /\ announce' = TRUE
    /\ link' = "up"
    /\ dialed' = dialed + 1
    /\ channels' = {}
    /\ requests' = <<>>
    /\ members' = {}
    /\ overlapped' = {calls[g].room : g \in crossed}
    /\ UNCHANGED <<connected, calls, crossed, sure>>

(* The server makes a new client, which is in no channel.                  *)
Redial ==
    /\ link \in {"left", "down"}
    /\ ~connected /\ ~announce
    /\ dialed < MaxLinks
    /\ announce' = TRUE
    /\ link' = "up"
    /\ dialed' = dialed + 1
    /\ requests' = <<>>
    /\ members' = {}
    /\ overlapped' = {calls[g].room : g \in crossed}
    /\ UNCHANGED <<connected, channels, calls, crossed, sure>>

ChannelStep(g) == Record(g) \/ CheckState(g) \/ TakeConn(g) \/ Write(g) \/ WriteLost(g)

ChannelsNext ==
    \/ \E g \in Goroutines : ChannelStep(g) \/ \E op \in Ops, r \in Rooms : ChannelCall(g, op, r)
    \/ HandleRequest \/ ServerForgets
    \/ LinkBreaks \/ ReadLoopEnds \/ StrategyDisconnect \/ Redial
    \/ StateDown \/ StateUp

ChannelsSpec == ChannelsInit /\ [][ChannelsNext]_channelsVars

-----------------------------------------------------------------------------
(* Properties                                                              *)

(* Every variable holds a value the code can give it; nobody is sure of a  *)
(* channel on a link that is not up.                                       *)
ChannelsTypeOK ==
    /\ connected \in BOOLEAN
    /\ announce \in BOOLEAN
    /\ link \in {"up", "broken", "left", "down"}
    /\ dialed \in 1..MaxLinks
    /\ channels \subseteq Rooms
    /\ calls \in [Goroutines ->
           {NoCall} \cup [at : {"record", "manager", "strategy", "write"}, op : Ops,
                          room : Rooms, conn : 0..MaxLinks]]
    /\ requests \in Seq([op : Ops, room : Rooms])
    /\ crossed \subseteq {g \in Goroutines : calls[g] # NoCall}
    /\ overlapped \subseteq Rooms
    /\ members \subseteq Rooms
    /\ sure \subseteq Rooms
    /\ link # "up" => sure = {}

(* The channels the server will have the client in when it has taken the   *)
(* requests on their way: those whose last request is to join, and those   *)
(* it has the client in that no request is about.                          *)
InTheEnd ==
    LET LastIs(r, i) == \A j \in i + 1..Len(requests) : requests[j].room # r
    IN  {r \in Rooms :
            \/ \E i \in DOMAIN requests :
                  requests[i] = [op |-> "join", room |-> r] /\ LastIs(r, i)
            \/ r \in members /\ LastIs(r, 0)}

(* Channels() can be trusted about a channel whose last JoinChannel or     *)
(* LeaveChannel returned nil on a link that is still up, with no other     *)
(* call about the channel at the same time.                                *)
ListIsTrue == \A r \in sure : r \in channels <=> r \in InTheEnd

(* Whatever was lost, whatever failed and however often the link changed,  *)
(* while the client is connected and its link is up, the server does not   *)
(* keep the client of this link in a channel that Channels() does not      *)
(* list, if no two calls about it overlap.  (It may well list one that the *)
(* server does not have the client in.  A link that is lost, or left open  *)
(* for the next one, keeps what it had.)                                   *)
NoSilentMembership ==
    connected /\ link = "up" =>
        \A r \in Rooms \ overlapped : InCall(r) = {} /\ r \in InTheEnd => r \in channels

(* Together, what an application may rely on of Channels().                *)
ChannelsCanBeTrusted == ChannelsTypeOK /\ ListIsTrue /\ NoSilentMembership
=============================================================================
