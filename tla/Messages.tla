------------------------------- MODULE Messages -------------------------------
(***************************************************************************)
(* Messages and what they share.  A *message.Message points to data of its *)
(* own: Metadata, Attachments and Mentions, together "the maps" here.      *)
(* Messages come from the factory, from message.Builder, which keeps its   *)
(* pointer, and from Clone; SendMessageWithOptions makes one that points   *)
(* to the maps of the caller's Options.  A message on its way through the  *)
(* send queue is read when the write loop gets to it, not when it is sent. *)
(*                                                                         *)
(* What a message says is 0 or 1, and what a map holds; a change is from   *)
(* one to the other.  Clone copies maps, not what values of Metadata,      *)
(* EditedAt and DeletedAt point to: that stays shared, and is left out.    *)
(***************************************************************************)
EXTENDS Integers, Sequences

CONSTANT MaxObjects   \* bound: messages made

ASSUME MessagesAssumption == MaxObjects \in Nat

Nil == 0
IDs == 1..MaxObjects

VARIABLES
    objects,   \* the messages made so far
    maps,      \* what the maps hold, by reference; the first is of Options
    building,  \* the message of a message.Builder in use, Nil if there is none
    sent,      \* history: what the messages said when they were sent
    touched    \* history: messages sent that somebody has changed knowingly

messagesVars == <<objects, maps, building, sent, touched>>
NotSent == <<>>
OptionsMaps == 1

MessagesInit ==
    /\ objects = <<>>
    /\ maps = <<0>>
    /\ building = Nil
    /\ sent = [i \in IDs |-> NotSent]
    /\ touched = {}

Says(i) == <<objects[i].text, IF objects[i].maps = Nil THEN Nil ELSE maps[objects[i].maps]>>
NewID == Len(objects) + 1
NewMaps == Len(maps) + 1

New(object) == NewID <= MaxObjects /\ objects' = Append(objects, object)
AddMaps(content) == maps' = Append(maps, content)

-----------------------------------------------------------------------------
(* Where messages come from                                                *)

(* Image, video and file messages have Metadata, the others do not.        *)
Create(kind, by) ==
    IF kind \in {"image", "video", "file"}
    THEN AddMaps(0) /\ New([text |-> 0, maps |-> NewMaps, by |-> by])
    ELSE UNCHANGED maps /\ New([text |-> 0, maps |-> Nil, by |-> by])

CreateMessage(kind) == Create(kind, "factory") /\ UNCHANGED <<building, sent, touched>>

NewMessageBuilder ==
    /\ New([text |-> 0, maps |-> NewMaps, by |-> "builder"])
    /\ AddMaps(0)
    /\ building' = NewID
    /\ UNCHANGED <<sent, touched>>

(* Mistake: the copy is a shallow one.                                     *)
Bug_CloneShares(i) ==
    /\ New([objects[i] EXCEPT !.by = "clone"])
    /\ UNCHANGED <<maps, building, sent, touched>>

Clone(i) ==
    /\ IF objects[i].maps = Nil
       THEN UNCHANGED maps /\ New([objects[i] EXCEPT !.by = "clone"])
       ELSE /\ AddMaps(maps[objects[i].maps])
            /\ New([objects[i] EXCEPT !.maps = NewMaps, !.by = "clone"])
    /\ UNCHANGED <<building, sent, touched>>

-----------------------------------------------------------------------------
(* What a connected Client sends; and Manager.Send, with a message of the  *)
(* application's own.                                                      *)

SendMessage ==
    /\ Create("text", "client")
    /\ sent' = [sent EXCEPT ![NewID] = <<0, Nil>>]
    /\ UNCHANGED <<building, touched>>

(* SendImage and SendFile.                                                 *)
SendMedia(kind) ==
    /\ Create(kind, "client")
    /\ sent' = [sent EXCEPT ![NewID] = <<0, 0>>]
    /\ UNCHANGED <<building, touched>>

SendMessageWithOptions ==
    /\ New([text |-> 0, maps |-> OptionsMaps, by |-> "client"])
    /\ UNCHANGED <<maps, building, touched>>
    /\ sent' = [sent EXCEPT ![NewID] = <<0, maps[OptionsMaps]>>]

Send(i) ==
    /\ sent[i] = NotSent
    /\ objects[i].by # "client"
    /\ sent' = [sent EXCEPT ![i] = Says(i)]
    /\ UNCHANGED <<objects, maps, building, touched>>

-----------------------------------------------------------------------------
(* Changes                                                                 *)

ChangeText(i) == objects' = [objects EXCEPT ![i].text = 1 - @] /\ UNCHANGED maps
ChangeMaps(m) == m # Nil /\ maps' = [maps EXCEPT ![m] = 1 - @] /\ UNCHANGED objects

(* The application changes a message it has.                               *)
Edit(i) ==
    /\ objects[i].by # "client"
    /\ ChangeText(i) \/ ChangeMaps(objects[i].maps)
    /\ touched' = IF sent[i] = NotSent THEN touched ELSE touched \cup {i}
    /\ UNCHANGED <<building, sent>>

(* WithContent, WithMetadata and so on; Build hands out the message and    *)
(* leaves the builder as it is.                                            *)
BuilderWith ==
    /\ building # Nil
    /\ Edit(building)

ChangeOptions ==
    /\ ChangeMaps(OptionsMaps)
    /\ touched' = touched \cup {i \in 1..Len(objects) : objects[i].maps = OptionsMaps}
    /\ UNCHANGED <<building, sent>>

MessagesNext ==
    \/ \E kind \in {"text", "image", "video", "file", "system", "reply"} : CreateMessage(kind)
    \/ \E kind \in {"image", "file"} : SendMedia(kind)
    \/ SendMessage \/ SendMessageWithOptions \/ ChangeOptions
    \/ NewMessageBuilder \/ BuilderWith
    \/ \E i \in 1..Len(objects) : Clone(i) \/ Send(i) \/ Edit(i)

MessagesSpec == MessagesInit /\ [][MessagesNext]_messagesVars

-----------------------------------------------------------------------------
(* Properties                                                              *)

(* Every variable holds a value the code can give it; a builder's message  *)
(* has a map to put Metadata in.                                           *)
MessagesTypeOK ==
    /\ Len(objects) <= MaxObjects
    /\ \A i \in DOMAIN objects :
        /\ objects[i].text \in 0..1
        /\ objects[i].maps \in 0..Len(maps)
        /\ objects[i].by \in {"factory", "builder", "clone", "client"}
    /\ \A m \in DOMAIN maps : maps[m] \in 0..1
    /\ building # Nil => building \in DOMAIN objects /\ objects[building].maps # Nil
    /\ touched \subseteq DOMAIN objects

(* A message is written as it was when it was sent, unless somebody has    *)
(* changed that very message since, through the builder that made it or    *)
(* the Options it was sent with: no clone, no other message of a factory   *)
(* and no builder's next message shows in it.                              *)
SentAsGiven ==
    \A i \in DOMAIN objects : sent[i] # NotSent /\ i \notin touched => Says(i) = sent[i]

(* What is sent arrives as it was, and builders have what they write to.   *)
MessagesAreKept == MessagesTypeOK /\ SentAsGiven
=============================================================================
