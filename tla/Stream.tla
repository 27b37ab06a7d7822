-------------------------------- MODULE Stream --------------------------------
(***************************************************************************)
(* client.Stream: frames and the end of a stream, notified through the     *)
(* client's event bus.  SendFrame and End hold the stream's mutex          *)
(* throughout and take the bus's read lock inside it.                      *)
(***************************************************************************)
EXTENDS EventBus, Sequences

CONSTANTS
    Streamers,  \* the goroutines that use the stream
    MaxFrames   \* bound: frames sent

StreamTypes == {"StreamStarted", "FrameReceived", "StreamEnded"}

Nobody == "nobody"

ASSUME StreamAssumption ==
    /\ StreamTypes \subseteq Types
    /\ MaxFrames \in Nat
    /\ Nobody \notin Streamers

VARIABLES
    stream,    \* the *Stream: "none", or whether it is "active" or "ended"
    sequence,  \* s.sequence
    holder,    \* who holds s.mu
    spc,       \* per streamer: "idle", or the call it has made
    published  \* history: the types of the stream's events, in order

streamVars == <<stream, sequence, holder, spc, published>>

StreamInit ==
    /\ stream = "none"
    /\ sequence = 0
    /\ holder = Nobody
    /\ spc = [g \in Streamers |-> "idle"]
    /\ published = <<>>

Publish(t) ==
    /\ Notify(t)
    /\ published' = Append(published, t)

(* The bound on frames counts the calls under way.                         *)
Frames == sequence + Cardinality({g \in Streamers : spc[g] = "SendFrame"})

(* Client.StartStream, while the client is connected.                      *)
StartStream ==
    /\ stream = "none"
    /\ Publish("StreamStarted")
    /\ stream' = "active"
    /\ UNCHANGED <<sequence, holder, spc>>

StreamCall(g, op) ==
    /\ stream # "none"
    /\ spc[g] = "idle"
    /\ op = "SendFrame" => Frames < MaxFrames
    /\ spc' = [spc EXCEPT ![g] = op]
    /\ UNCHANGED <<busVars, stream, sequence, holder, published>>

(* The mutex; a stream that is not active any more is left alone.          *)
LockStream(g, op) ==
    /\ spc[g] = op
    /\ holder = Nobody
    /\ UNCHANGED <<busVars, published>>

(* Mistake: the early return leaves the mutex locked.                      *)
Bug_RefusedKeepsLock(g) ==
    /\ \E op \in {"SendFrame", "End"} : LockStream(g, op)
    /\ stream # "active"
    /\ spc' = [spc EXCEPT ![g] = "idle"]
    /\ holder' = g
    /\ UNCHANGED <<stream, sequence>>

Refused(g) ==
    /\ \E op \in {"SendFrame", "End"} : LockStream(g, op)
    /\ stream # "active"
    /\ spc' = [spc EXCEPT ![g] = "idle"]
    /\ UNCHANGED <<stream, sequence, holder>>

(* Mistake: active is read before the mutex is taken.                      *)
Bug_SendFrameUnlocked(g) ==
    /\ spc[g] = "SendFrame"
    /\ stream = "active"
    /\ sequence' = sequence + 1
    /\ spc' = [spc EXCEPT ![g] = "FrameReceived"]
    /\ UNCHANGED <<busVars, published, stream, holder>>

SendFrame(g) ==
    /\ LockStream(g, "SendFrame")
    /\ stream = "active"
    /\ holder' = g
    /\ sequence' = sequence + 1
    /\ spc' = [spc EXCEPT ![g] = "FrameReceived"]
    /\ UNCHANGED stream

End(g) ==
    /\ LockStream(g, "End")
    /\ stream = "active"
    /\ holder' = g
    /\ stream' = "ended"
    /\ spc' = [spc EXCEPT ![g] = "StreamEnded"]
    /\ UNCHANGED sequence

(* Notify, under the mutex, which is released on return.                   *)
NotifyStream(g) ==
    /\ spc[g] \in StreamTypes
    /\ Publish(spc[g])
    /\ spc' = [spc EXCEPT ![g] = "idle"]
    /\ holder' = Nobody
    /\ UNCHANGED <<stream, sequence>>

StreamStep(g) == Refused(g) \/ SendFrame(g) \/ End(g) \/ NotifyStream(g)

StreamNext ==
    \/ BusNext /\ UNCHANGED streamVars
    \/ StartStream
    \/ \E g \in Streamers : StreamStep(g) \/ \E op \in {"SendFrame", "End"} : StreamCall(g, op)

StreamSpec == BusInit /\ StreamInit /\ [][StreamNext]_<<busVars, streamVars>>

-----------------------------------------------------------------------------
(* Properties                                                              *)

(* The events of a stream are notified in order: its start, as many frames *)
(* as the sequence number says, and its end once, with nothing after it,   *)
(* whoever sends frames while somebody else ends it.  The order in which   *)
(* handlers hear of them is another matter: each has a goroutine per event.*)
FramesWithinStream ==
    LET frames == IF published # <<>> /\ published[Len(published)] = "StreamEnded"
                  THEN Len(published) - 2 ELSE Len(published) - 1
    IN  /\ published # <<>> => published[1] = "StreamStarted"
        /\ \A k \in 2..frames + 1 : published[k] = "FrameReceived"
        /\ holder = Nobody /\ stream # "none" => sequence = frames
        /\ stream = "ended" /\ holder = Nobody => Len(published) = frames + 2

(* A call on the stream returns, also when it has to wait for the bus.     *)
StreamCallsReturn == \A g \in Streamers : spc[g] # "idle" ~> spc[g] = "idle"
=============================================================================
