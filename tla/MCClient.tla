------------------------------ MODULE MCClient ------------------------------
(***************************************************************************)
(* The client's own parts, which share no state that is modelled: a        *)
(* behaviour is one of one of them, while the others stay as they are.     *)
(***************************************************************************)
EXTENDS Stream, ClientChannels, Configuration, Messages

CONSTANTS u1, s1, s2, g1, g2, a

OneUser == {u1}
TwoStreamers == {s1, s2}
TwoGoroutines == {g1, g2}
OneRoom == {a}
RequiredStrings == {"Endpoint"}
NumberFields == {"ReconnectDelay", "MaxReconnects"}

VARIABLE part

streamAndBusVars == <<busVars, streamVars>>
clientVars == <<part, busVars, streamVars, channelsVars, configVars, messagesVars>>

(* With a stream, the bus has one subscription at most, and NotifySync is  *)
(* called for one event at a time.                                         *)
FewSubscriptions ==
    /\ issuedSubs' <= 1
    /\ \A e \in EventIDs : type'[e] \in {NoType} \cup (IF e = 1 THEN {"FrameReceived"} ELSE {})
    /\ \A u \in Users : request'[u].op \in {"none", "Subscribe", "Unsubscribe"}

ClientInit ==
    /\ part \in {"bus", "stream", "channels", "config", "messages"}
    /\ BusInit /\ StreamInit /\ ChannelsInit /\ ConfigInit /\ MessagesInit

ClientNext ==
    /\ UNCHANGED part
    /\ \/ /\ part = "bus"
          /\ BusNext
          /\ UNCHANGED <<streamVars, channelsVars, configVars, messagesVars>>
       \/ /\ part = "stream"
          /\ StreamNext
          /\ FewSubscriptions
          /\ UNCHANGED <<channelsVars, configVars, messagesVars>>
       \/ /\ part = "channels"
          /\ ChannelsNext
          /\ UNCHANGED <<streamAndBusVars, configVars, messagesVars>>
       \/ /\ part = "config"
          /\ ConfigNext
          /\ UNCHANGED <<streamAndBusVars, channelsVars, messagesVars>>
       \/ /\ part = "messages"
          /\ MessagesNext
          /\ UNCHANGED <<streamAndBusVars, channelsVars, configVars>>

(* The scheduler runs every goroutine that can run, handlers return, and a *)
(* goroutine that waits for a mutex or for its turn to read gets it.       *)
BusStep(action) == part \in {"bus", "stream"} /\ action
StreamStepOf(g) == part = "stream" /\ StreamStep(g) /\ FewSubscriptions

ClientSpec ==
    /\ ClientInit /\ [][ClientNext]_clientVars
    /\ \A u \in Users : WF_busVars(BusStep(BusProceed(u)))
    /\ \A e \in EventIDs :
        WF_busVars(BusStep(SyncStep(e) \/ \E s \in SubIDs : RunSubscriber(e, s)))
    /\ \A g \in Streamers : SF_streamAndBusVars(StreamStepOf(g))

(* Every call on the bus and on a stream returns.                          *)
CallsReturn == BusCallsReturn /\ StreamCallsReturn
=============================================================================
