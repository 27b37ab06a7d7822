--------------------------- MODULE MockServerProofs ---------------------------
(***************************************************************************)
(* Proofs about MockServer, for any number of connections, testers,        *)
(* channels, starts and joins:                                             *)
(*                                                                         *)
(*   NoGhosts           MockSpec => []MembersAreLive                       *)
(*   StopsDisconnect    MockSpec => []StopDisconnects                      *)
(*                                                                         *)
(* What makes them inductive is that a client is in the server's map       *)
(* exactly while its handler is between registering and cleaning up, and   *)
(* that the handler's point says what it may be doing.                     *)
(***************************************************************************)
EXTENDS MockServer, WellFoundedInduction, TLAPS

-----------------------------------------------------------------------------
(* What RemoveFirst does to client.Channels: it takes no other channel out.*)

LEMMA LeastExists ==
    ASSUME NEW S \in SUBSET Nat, S # {}
    PROVE  \E x \in S : \A y \in S : x <= y
<1>1. PICK x \in S : \A y \in S : ~ (<<y, x>> \in OpToRel(<, Nat))
  BY NatLessThanWellFounded, WFMin
<1>2. \A y \in S : ~(y < x)
  BY <1>1 DEF OpToRel
<1> QED  BY <1>2

LEMMA FirstMention ==
    ASSUME NEW S, NEW s \in Seq(S), NEW e, \E i \in 1..Len(s) : s[i] = e
    PROVE  \E k \in 1..Len(s) : s[k] = e /\ RemoveFirst(s, e) = RemoveAt(s, k)
<1> DEFINE I == {i \in 1..Len(s) : s[i] = e}
<1>1. I \in SUBSET Nat /\ I # {}
  OBVIOUS
<1>2. \E x \in I : \A y \in I : x <= y
  BY <1>1, LeastExists
<1>3. Min(I) \in I
  BY <1>2 DEF Min
<1>4. SelectInSeq(s, LAMBDA v : v = e) = Min(I)
  BY <1>1 DEF SelectInSeq
<1>5. RemoveFirst(s, e) = RemoveAt(s, Min(I))
  BY <1>4 DEF RemoveFirst
<1> QED  BY <1>3, <1>5

LEMMA ConcatFacts ==
    ASSUME NEW S, NEW a \in Seq(S), NEW b \in Seq(S)
    PROVE  /\ a \o b \in Seq(S)
           /\ Len(a \o b) = Len(a) + Len(b)
           /\ \A i \in 1..(Len(a) + Len(b)) :
                  (a \o b)[i] = IF i <= Len(a) THEN a[i] ELSE b[i - Len(a)]
OBVIOUS

LEMMA RemoveAtKeeps ==
    ASSUME NEW S, NEW s \in Seq(S), NEW k \in 1..Len(s)
    PROVE  /\ RemoveAt(s, k) \in Seq(S)
           /\ Len(RemoveAt(s, k)) <= Len(s)
           /\ \A d \in ToSet(s) : d # s[k] => d \in ToSet(RemoveAt(s, k))
<1> DEFINE before == SubSeq(s, 1, k - 1)
           after == SubSeq(s, k + 1, Len(s))
           n == Len(s)
<1>1. n \in Nat /\ k \in Nat /\ k >= 1 /\ k <= n
  OBVIOUS
<1>2. before \in Seq(S) /\ Len(before) = k - 1 /\ \A i \in 1..(k - 1) : before[i] = s[i]
  BY <1>1
<1>3. after \in Seq(S) /\ Len(after) = n - k /\ \A i \in 1..(n - k) : after[i] = s[k + i]
  BY <1>1
<1>4. RemoveAt(s, k) = before \o after
  BY DEF RemoveAt
<1> HIDE DEF before, after
<1>5. /\ before \o after \in Seq(S)
      /\ DOMAIN (before \o after) = 1..(n - 1)
      /\ Len(before \o after) = n - 1
      /\ \A i \in 1..(k - 1) : (before \o after)[i] = s[i]
      /\ \A i \in k..(n - 1) : (before \o after)[i] = s[i + 1]
  <2>1. /\ before \o after \in Seq(S)
        /\ Len(before \o after) = Len(before) + Len(after)
        /\ \A i \in 1..(Len(before) + Len(after)) :
               (before \o after)[i] = IF i <= Len(before) THEN before[i]
                                                          ELSE after[i - Len(before)]
    BY <1>2, <1>3, ConcatFacts
  <2>2. Len(before) + Len(after) = n - 1
    BY <1>1, <1>2, <1>3
  <2>3. DOMAIN (before \o after) = 1..(n - 1)
    BY <2>1, <2>2
  <2>4. ASSUME NEW i \in 1..(k - 1)
        PROVE  (before \o after)[i] = s[i]
    <3>1. i \in 1..(n - 1) /\ i <= k - 1
      BY <1>1
    <3> QED  BY <1>2, <2>1, <2>2, <3>1
  <2>5. ASSUME NEW i \in k..(n - 1)
        PROVE  (before \o after)[i] = s[i + 1]
    <3>1. /\ i \in 1..(n - 1) /\ ~(i <= k - 1) /\ i - (k - 1) \in 1..(n - k)
          /\ k + (i - (k - 1)) = i + 1
      BY <1>1
    <3>2. (before \o after)[i] = after[i - (k - 1)]
      BY <1>2, <2>1, <2>2, <3>1
    <3> QED  BY <1>3, <3>1, <3>2
  <2> QED  BY <2>1, <2>2, <2>3, <2>4, <2>5
<1>6. ASSUME NEW d \in ToSet(s), d # s[k]
      PROVE  d \in ToSet(before \o after)
  <2>1. PICK i \in 1..n : s[i] = d
    BY DEF ToSet
  <2>2. CASE i < k
    <3>1. i \in 1..(k - 1) /\ i \in 1..(n - 1)
      BY <1>1, <2>2
    <3>2. (before \o after)[i] = d /\ i \in DOMAIN (before \o after)
      BY <1>5, <2>1, <3>1
    <3> QED  BY <3>2 DEF ToSet
  <2>3. CASE i > k
    <3>1. i - 1 \in k..(n - 1) /\ i - 1 \in 1..(n - 1) /\ (i - 1) + 1 = i
      BY <1>1, <2>3
    <3>2. (before \o after)[i - 1] = d /\ i - 1 \in DOMAIN (before \o after)
      BY <1>5, <2>1, <3>1
    <3> QED  BY <3>2 DEF ToSet
  <2> QED  BY <1>1, <1>6, <2>1, <2>2, <2>3
<1> QED  BY <1>1, <1>4, <1>5, <1>6

LEMMA RemoveFirstKeeps ==
    ASSUME NEW S, NEW s \in Seq(S), NEW e
    PROVE  /\ RemoveFirst(s, e) \in Seq(S)
           /\ Len(RemoveFirst(s, e)) <= Len(s)
           /\ \A d \in ToSet(s) : d # e => d \in ToSet(RemoveFirst(s, e))
<1>1. CASE \E i \in 1..Len(s) : s[i] = e
  <2>1. PICK k \in 1..Len(s) : s[k] = e /\ RemoveFirst(s, e) = RemoveAt(s, k)
    BY <1>1, FirstMention
  <2> QED  BY <2>1, RemoveAtKeeps
<1>2. CASE ~ \E i \in 1..Len(s) : s[i] = e
  <2>1. RemoveFirst(s, e) = s
    BY <1>2 DEF RemoveFirst
  <2> QED  BY <2>1
<1> QED  BY <1>1, <1>2

LEMMA AppendKeeps ==
    ASSUME NEW S, NEW s \in Seq(S), NEW e \in S
    PROVE  /\ Append(s, e) \in Seq(S)
           /\ Len(Append(s, e)) = Len(s) + 1
           /\ e \in ToSet(Append(s, e))
           /\ \A d \in ToSet(s) : d \in ToSet(Append(s, e))
<1>1. /\ Append(s, e) \in Seq(S) /\ Len(s) \in Nat
      /\ Len(Append(s, e)) = Len(s) + 1
      /\ DOMAIN Append(s, e) = 1..(Len(s) + 1)
      /\ DOMAIN s = 1..Len(s)
      /\ \A i \in DOMAIN s : i \in DOMAIN Append(s, e) /\ Append(s, e)[i] = s[i]
      /\ Append(s, e)[Len(s) + 1] = e
  OBVIOUS
<1>2. Len(s) + 1 \in DOMAIN Append(s, e)
  BY <1>1
<1>3. e \in ToSet(Append(s, e))
  BY <1>1, <1>2 DEF ToSet
<1>4. \A d \in ToSet(s) : d \in ToSet(Append(s, e))
  BY <1>1 DEF ToSet
<1> QED  BY <1>1, <1>3, <1>4

-----------------------------------------------------------------------------
(* The inductive invariant.                                                *)

ServerTypeOK ==
    /\ started \in BOOLEAN
    /\ stopping \in BOOLEAN
    /\ late \subseteq Clients
    /\ net \in [Clients -> {"none", "open", "lost", "closed"}]
    /\ starts \in 0..MaxStarts

ListTypeOK ==
    /\ clients \subseteq Clients
    /\ channels \in [Channels -> SUBSET Clients]
    /\ joined \in [Clients -> Seq(Channels)]
    /\ \A c \in Clients : Len(joined[c]) <= MaxJoined

GoroutineTypeOK ==
    /\ pc \in [Processes -> MockPoints]
    /\ job \in [Processes -> Job]
    /\ target \in [Processes -> Clients \cup {Nobody}]
    /\ seen \in [Processes -> SUBSET Clients]
    /\ due \in [Processes -> SUBSET Clients]

TypesOK == ServerTypeOK /\ ListTypeOK /\ GoroutineTypeOK

(* The handler of a client, its place in the map, and its connection.      *)
HandlerInv ==
    \A c \in Clients :
        /\ c \in clients <=> pc[c] \notin {"idle", "request", "register", "done"}
        /\ pc[c] # "event"
        /\ pc[c] = "join" => Len(joined[c]) < MaxJoined
        /\ net[c] = "none" <=> pc[c] \in {"idle", "request"}
        /\ pc[c] = "done" => net[c] = "closed"

(* Who writes is at a point that writes, and who walks a channel walks it. *)
GoroutineInv ==
    /\ \A t \in Testers : pc[t] \in {"idle", "begin", "cast", "event"}
    /\ \A p \in Processes :
           target[p] # Nobody => pc[p] \in {"welcome", "pong", "ack", "event", "cast"}
    /\ \A p \in Processes : pc[p] # "cast" => seen[p] = {} /\ due[p] = {}
    /\ \A p \in Processes : seen[p] \cap due[p] = {}

(* Whom a stopped server has yet to register, it had accepted before.      *)
LateInv == ~started => \A c \in Clients : Registering(c) => c \in late

MockInv ==
    /\ TypesOK /\ HandlerInv /\ GoroutineInv
    /\ NoGhostMember /\ LateInv /\ StopDisconnects

LEMMA ClientsAreProcesses ==
    /\ Clients \subseteq Processes /\ Testers \subseteq Processes
    /\ \A p \in Processes : p \in Clients <=> p \notin Testers
    /\ Nobody \notin Clients
BY MockAssumption DEF Processes

LEMMA NoJobIsJob == NoJob \in Job
BY MockAssumption DEF NoJob, Job

LEMMA MockInitInv == MockInit => MockInv
<1> SUFFICES ASSUME MockInit PROVE MockInv
  OBVIOUS
<1> USE MockAssumption DEF MockInit
<1>1. ServerTypeOK
  <2>1. started \in BOOLEAN /\ stopping \in BOOLEAN
    OBVIOUS
  <2> QED  BY <2>1 DEF ServerTypeOK
<1>2. ListTypeOK
  BY DEF ListTypeOK
<1>3. GoroutineTypeOK
  BY NoJobIsJob DEF GoroutineTypeOK, MockPoints
<1>4. HandlerInv
  BY ClientsAreProcesses DEF HandlerInv
<1>5. GoroutineInv
  BY ClientsAreProcesses DEF GoroutineInv
<1>6. NoGhostMember /\ LateInv /\ StopDisconnects
  BY ClientsAreProcesses DEF NoGhostMember, LateInv, Registering, StopDisconnects
<1> QED  BY <1>1, <1>2, <1>3, <1>4, <1>5, <1>6 DEF MockInv, TypesOK

(* Start, Stop and the network.                                            *)
LEMMA ServerNext ==
    ASSUME MockInv, Start \/ StopBegin \/ StopEnd \/ \E c \in Clients : NetworkLoss(c)
    PROVE  MockInv'
<1> USE MockAssumption DEF MockInv, TypesOK, ServerTypeOK, lists, walk
<1>1. UNCHANGED <<lists, pc, job, target, walk>>
  BY DEF Start, StopBegin, StopEnd, NetworkLoss
<1>2. ListTypeOK' /\ GoroutineTypeOK' /\ GoroutineInv' /\ NoGhostMember'
  BY <1>1 DEF ListTypeOK, GoroutineTypeOK, GoroutineInv, NoGhostMember
<1>3. CASE Start \/ StopEnd
  <2>1. ServerTypeOK'
    <3>1. started' \in BOOLEAN /\ stopping' \in BOOLEAN
      BY <1>3 DEF Start, StopEnd
    <3>2. starts' \in 0..MaxStarts
      BY <1>3 DEF Start, StopEnd
    <3>3. UNCHANGED <<late, net>>
      BY <1>3 DEF Start, StopEnd
    <3> QED  BY <3>1, <3>2, <3>3
  <2>2. HandlerInv'
    BY <1>1, <1>3 DEF Start, StopEnd, HandlerInv
  <2>3. StopDisconnects'
    BY <1>3 DEF Start, StopEnd, StopDisconnects
  <2>4. LateInv'
    BY <1>1, <1>3 DEF Start, StopEnd, LateInv, Registering
  <2> QED  BY <1>2, <2>1, <2>2, <2>3, <2>4
<1>4. CASE StopBegin
  <2>1. ServerTypeOK'
    BY <1>4 DEF StopBegin
  <2>2. HandlerInv'
    BY <1>1, <1>4, ClientsAreProcesses DEF StopBegin, HandlerInv, ListTypeOK
  <2>3. StopDisconnects'
    BY <1>4 DEF StopBegin, StopDisconnects, HandlerInv, Registering
  <2>4. LateInv'
    BY <1>1, <1>4 DEF StopBegin, LateInv, Registering
  <2> QED  BY <1>2, <2>1, <2>2, <2>3, <2>4
<1>5. ASSUME NEW c \in Clients, NetworkLoss(c)
      PROVE  MockInv'
  <2>1. ServerTypeOK'
    BY <1>5 DEF NetworkLoss, server
  <2>2. HandlerInv'
    BY <1>1, <1>5 DEF NetworkLoss, HandlerInv
  <2>3. StopDisconnects'
    BY <1>5 DEF NetworkLoss, server, StopDisconnects
  <2>4. LateInv'
    BY <1>1, <1>5 DEF NetworkLoss, server, LateInv, Registering
  <2> QED  BY <1>2, <2>1, <2>2, <2>3, <2>4
<1> QED  BY <1>3, <1>4, <1>5

(* A goroutine that is not writing goes to its next point: nothing but its *)
(* point changes for the writers.                                          *)
LEMMA GoFacts ==
    ASSUME TypesOK, NEW p \in Processes, NEW from, NEW to \in MockPoints, Go(p, from, to)
    PROVE  /\ pc[p] = from /\ pc'[p] = to /\ target[p] = Nobody
           /\ \A q \in Processes : q # p => pc'[q] = pc[q]
           /\ pc' \in [Processes -> MockPoints]
BY DEF TypesOK, GoroutineTypeOK, Go

LEMMA GoroutineKept ==
    ASSUME TypesOK, GoroutineInv, NEW p \in Processes, NEW from, NEW to \in MockPoints,
           Go(p, from, to), UNCHANGED <<target, walk>>,
           p \in Testers => to \in {"idle", "begin", "cast", "event"},
           from # "cast"
    PROVE  GoroutineInv'
<1>1. /\ pc[p] = from /\ pc'[p] = to /\ target[p] = Nobody
      /\ \A q \in Processes : q # p => pc'[q] = pc[q]
  BY GoFacts
<1> QED  BY <1>1, ClientsAreProcesses DEF GoroutineInv, walk

LEMMA RegisterNext ==
    ASSUME MockInv, NEW c \in Clients, Accept(c) \/ Upgrade(c) \/ Register(c) \/ CleanUp(c)
    PROVE  MockInv'
<1> USE ClientsAreProcesses DEF MockInv, walk
<1>0. PICK from \in MockPoints, to \in MockPoints :
          /\ Go(c, from, to) /\ from \in {"idle", "request", "register", "exit"}
  BY DEF Accept, Upgrade, Register, CleanUp, MockPoints
<1>1. /\ pc[c] = from /\ pc'[c] = to
      /\ \A q \in Processes : q # c => pc'[q] = pc[q]
      /\ pc' \in [Processes -> MockPoints]
  BY <1>0, GoFacts
<1>2. UNCHANGED <<started, stopping, starts, joined, job, target, walk>>
  BY DEF Accept, Upgrade, Register, CleanUp, server, lists
<1>3. GoroutineTypeOK'
  BY <1>1, <1>2 DEF TypesOK, GoroutineTypeOK
<1>4. GoroutineInv'
  BY <1>0, <1>2, GoroutineKept
<1>5. CASE Accept(c)
  <2>1. /\ pc[c] = "idle" /\ pc'[c] = "request" /\ UNCHANGED <<net, clients, channels>>
        /\ late' = IF started THEN late ELSE late \cup {c}
    BY <1>1, <1>5 DEF Accept, Go, TypesOK, GoroutineTypeOK, lists
  <2>2. ServerTypeOK' /\ ListTypeOK'
    BY <1>2, <2>1 DEF TypesOK, ServerTypeOK, ListTypeOK
  <2>3. HandlerInv'
    BY <1>1, <1>2, <2>1 DEF TypesOK, ServerTypeOK, HandlerInv
  <2>4. NoGhostMember' /\ LateInv' /\ StopDisconnects'
    BY <1>1, <1>2, <2>1 DEF NoGhostMember, LateInv, Registering, StopDisconnects,
                            TypesOK, ListTypeOK
  <2> QED  BY <1>3, <1>4, <2>2, <2>3, <2>4 DEF TypesOK
<1>6. CASE Upgrade(c)
  <2>1. /\ pc[c] = "request" /\ pc'[c] = "register" /\ UNCHANGED late
        /\ net' = [net EXCEPT ![c] = "open"] /\ UNCHANGED <<clients, channels>>
    BY <1>1, <1>6 DEF Upgrade, Go, TypesOK, GoroutineTypeOK, lists, server
  <2>2. ServerTypeOK' /\ ListTypeOK'
    BY <1>2, <2>1 DEF TypesOK, ServerTypeOK, ListTypeOK
  <2>3. HandlerInv'
    BY <1>1, <1>2, <2>1 DEF TypesOK, ServerTypeOK, HandlerInv
  <2>4. NoGhostMember' /\ LateInv' /\ StopDisconnects'
    BY <1>1, <1>2, <2>1 DEF NoGhostMember, LateInv, Registering, StopDisconnects,
                            TypesOK, ServerTypeOK, ListTypeOK
  <2> QED  BY <1>3, <1>4, <2>2, <2>3, <2>4 DEF TypesOK
<1>7. CASE Register(c)
  <2>1. /\ pc[c] = "register" /\ pc'[c] = "welcome"
        /\ clients' = clients \cup {c} /\ UNCHANGED <<net, channels, late>>
    BY <1>1, <1>7 DEF Register, Go, TypesOK, GoroutineTypeOK, server
  <2>2. ServerTypeOK' /\ ListTypeOK'
    BY <1>2, <2>1 DEF TypesOK, ServerTypeOK, ListTypeOK
  <2>3. HandlerInv'
    BY <1>1, <1>2, <2>1 DEF TypesOK, ServerTypeOK, HandlerInv
  <2>4. NoGhostMember' /\ LateInv' /\ StopDisconnects'
    BY <1>1, <1>2, <2>1 DEF NoGhostMember, LateInv, Registering, StopDisconnects,
                            TypesOK, ServerTypeOK, ListTypeOK
  <2> QED  BY <1>3, <1>4, <2>2, <2>3, <2>4 DEF TypesOK
<1>8. CASE CleanUp(c)
  <2>1. /\ pc[c] = "exit" /\ pc'[c] = "done" /\ UNCHANGED late
        /\ clients' = clients \ {c} /\ net' = [net EXCEPT ![c] = "closed"]
        /\ channels' = [ch \in Channels |-> IF ch \in ToSet(joined[c])
                                              THEN channels[ch] \ {c} ELSE channels[ch]]
    BY <1>1, <1>8 DEF CleanUp, Go, TypesOK, GoroutineTypeOK, server
  <2>2. ServerTypeOK' /\ ListTypeOK'
    BY <1>2, <2>1 DEF TypesOK, ServerTypeOK, ListTypeOK
  <2>3. HandlerInv'
    BY <1>1, <1>2, <2>1 DEF TypesOK, ServerTypeOK, HandlerInv
  <2>4. \A ch \in Channels : c \notin channels'[ch] /\ channels'[ch] \subseteq channels[ch]
    BY <2>1 DEF NoGhostMember
  <2>5. NoGhostMember'
    BY <1>1, <1>2, <2>1, <2>4 DEF NoGhostMember, TypesOK, ListTypeOK
  <2>6. LateInv' /\ StopDisconnects'
    BY <1>1, <1>2, <2>1 DEF LateInv, Registering, StopDisconnects, TypesOK, ServerTypeOK
  <2> QED  BY <1>3, <1>4, <2>2, <2>3, <2>5, <2>6 DEF TypesOK
<1> QED  BY <1>5, <1>6, <1>7, <1>8

(* A handler between two of its points, the server's lists as they were.   *)
LEMMA HandlerKept ==
    ASSUME MockInv, NEW c \in Clients, NEW from \in MockPoints, NEW to \in MockPoints,
           Go(c, from, to), UNCHANGED <<server, net, clients, target>>, GoroutineInv',
           GoroutineTypeOK', ListTypeOK', NoGhostMember',
           {from, to} \cap {"idle", "request", "register", "done", "event"} = {},
           \A d \in Clients \ {c} : joined'[d] = joined[d],
           to = "join" => Len(joined'[c]) < MaxJoined
    PROVE  MockInv'
<1>1. /\ pc[c] = from /\ pc'[c] = to
      /\ \A q \in Processes : q # c => pc'[q] = pc[q]
  BY GoFacts, ClientsAreProcesses DEF MockInv
<1>2. ServerTypeOK' /\ StopDisconnects'
  BY DEF MockInv, TypesOK, ServerTypeOK, server, StopDisconnects
<1>3. LateInv'
  BY <1>1, ClientsAreProcesses DEF MockInv, LateInv, Registering, server
<1>4. HandlerInv'
  BY <1>1, ClientsAreProcesses DEF MockInv, HandlerInv
<1> QED  BY <1>2, <1>3, <1>4 DEF MockInv, TypesOK

LEMMA HandleNext ==
    ASSUME MockInv, NEW c \in Clients,
           ReadFrame(c) \/ StoreMessage(c) \/ JoinChannel(c) \/ LeaveChannel(c) \/ ReadFails(c)
    PROVE  MockInv'
<1> USE ClientsAreProcesses DEF MockInv
<1>1. CASE ReadFrame(c)
  <2>1. PICK point \in {"store", "join", "leave", "begin", "pong"},
             ch \in Channels, left_out \in Clients \cup {Nobody} :
            /\ Serve(c, point, ch, left_out)
            /\ point = "join" => Len(joined[c]) < MaxJoined
    BY <1>1, NoJobIsJob DEF ReadFrame, Job
  <2>2. /\ Go(c, "read", point) /\ point \in MockPoints /\ "read" \in MockPoints
        /\ job' = [job EXCEPT ![c] = [chan |-> ch, except |-> left_out]]
        /\ UNCHANGED <<server, net, lists, target, walk>>
    BY <2>1 DEF Serve, MockPoints
  <2>3. GoroutineTypeOK'
    BY <2>2, GoFacts DEF TypesOK, GoroutineTypeOK, walk, Job
  <2>4. GoroutineInv'
    BY <2>2, GoroutineKept
  <2>5. ListTypeOK' /\ NoGhostMember'
    <3>1. UNCHANGED lists /\ pc'[c] # "done" /\ \A q \in Processes : q # c => pc'[q] = pc[q]
      BY <2>1, <2>2, GoFacts
    <3> QED  BY <3>1 DEF lists, TypesOK, ListTypeOK, NoGhostMember
  <2> QED  BY <2>1, <2>2, <2>3, <2>4, <2>5, HandlerKept DEF lists
<1>2. CASE StoreMessage(c) \/ ReadFails(c)
  <2>1. PICK from \in {"store", "read"}, to \in {"ack", "exit"} :
            Go(c, from, to) /\ UNCHANGED <<server, net, lists, job, target, walk>>
    BY <1>2 DEF StoreMessage, ReadFails
  <2>2. from \in MockPoints /\ to \in MockPoints
    BY DEF MockPoints
  <2>3. GoroutineTypeOK'
    BY <2>1, <2>2, GoFacts DEF TypesOK, GoroutineTypeOK, walk
  <2>4. GoroutineInv'
    BY <2>1, <2>2, GoroutineKept
  <2>5. ListTypeOK' /\ NoGhostMember'
    <3>1. UNCHANGED lists /\ pc'[c] # "done" /\ \A q \in Processes : q # c => pc'[q] = pc[q]
      BY <2>1, <2>2, GoFacts
    <3> QED  BY <3>1 DEF lists, TypesOK, ListTypeOK, NoGhostMember
  <2> QED  BY <2>1, <2>2, <2>3, <2>4, <2>5, HandlerKept DEF lists
<1>3. CASE JoinChannel(c)
  <2> DEFINE ch == job[c].chan
  <2>1. /\ Go(c, "join", "ack") /\ "join" \in MockPoints /\ "ack" \in MockPoints
        /\ channels' = [channels EXCEPT ![ch] = @ \cup {c}]
        /\ joined' = [joined EXCEPT ![c] = Append(@, ch)]
        /\ UNCHANGED <<server, net, clients, job, target, walk>>
    BY <1>3 DEF JoinChannel, MockPoints
  <2>2. ch \in Channels
    BY DEF TypesOK, GoroutineTypeOK, Job
  <2>3. /\ pc[c] = "join" /\ pc'[c] = "ack"
        /\ \A q \in Processes : q # c => pc'[q] = pc[q]
    BY <2>1, GoFacts
  <2>4. GoroutineTypeOK' /\ GoroutineInv'
    BY <2>1, GoFacts, GoroutineKept DEF TypesOK, GoroutineTypeOK, walk
  <2>5. /\ joined[c] \in Seq(Channels) /\ joined' \in [Clients -> Seq(Channels)]
        /\ Len(joined'[c]) = Len(joined[c]) + 1
        /\ ch \in ToSet(joined'[c])
        /\ \A d \in ToSet(joined[c]) : d \in ToSet(joined'[c])
        /\ \A d \in Clients \ {c} : joined'[d] = joined[d]
    BY <2>1, <2>2, AppendKeeps DEF TypesOK, ListTypeOK
  <2>6. ListTypeOK'
    BY <2>1, <2>2, <2>3, <2>5, MockAssumption DEF TypesOK, ListTypeOK, HandlerInv
  <2>7. NoGhostMember'
    <3>1. c \in clients' /\ clients' = clients
      BY <2>1, <2>3 DEF HandlerInv
    <3>2. channels'[ch] = channels[ch] \cup {c}
      BY <2>1, <2>2 DEF TypesOK, ListTypeOK
    <3>3. \A x \in Channels : x # ch => channels'[x] = channels[x]
      BY <2>1 DEF TypesOK, ListTypeOK
    <3> HIDE DEF ch
    <3>4. ASSUME NEW x \in Channels, NEW d \in channels[x]
          PROVE  d \in clients' /\ pc'[d] # "done" /\ x \in ToSet(joined'[d])
      <4>1. d \in clients /\ pc[d] # "done" /\ x \in ToSet(joined[d]) /\ d \in Clients
        BY DEF NoGhostMember, TypesOK, ListTypeOK
      <4> QED  BY <2>3, <2>5, <3>1, <4>1
    <3> QED  BY <2>3, <2>5, <3>1, <3>2, <3>3, <3>4 DEF NoGhostMember
  <2> QED  BY <2>1, <2>4, <2>5, <2>6, <2>7, HandlerKept
<1>4. CASE LeaveChannel(c)
  <2> DEFINE ch == job[c].chan
  <2>1. /\ Go(c, "leave", "begin") /\ "leave" \in MockPoints /\ "begin" \in MockPoints
        /\ channels' = [channels EXCEPT ![ch] = @ \ {c}]
        /\ joined' = [joined EXCEPT ![c] = RemoveFirst(@, ch)]
        /\ UNCHANGED <<server, net, clients, job, target, walk>>
    BY <1>4 DEF LeaveChannel, MockPoints
  <2>2. ch \in Channels
    BY DEF TypesOK, GoroutineTypeOK, Job
  <2>3. /\ pc[c] = "leave" /\ pc'[c] = "begin"
        /\ \A q \in Processes : q # c => pc'[q] = pc[q]
    BY <2>1, GoFacts
  <2>4. GoroutineTypeOK' /\ GoroutineInv'
    BY <2>1, GoFacts, GoroutineKept DEF TypesOK, GoroutineTypeOK, walk
  <2>5. /\ joined[c] \in Seq(Channels) /\ joined' \in [Clients -> Seq(Channels)]
        /\ Len(joined'[c]) <= Len(joined[c])
        /\ \A d \in ToSet(joined[c]) : d # ch => d \in ToSet(joined'[c])
        /\ \A d \in Clients \ {c} : joined'[d] = joined[d]
    BY <2>1, <2>2, RemoveFirstKeeps DEF TypesOK, ListTypeOK
  <2>6. ListTypeOK'
    <3>1. Len(joined'[c]) <= MaxJoined
      BY <2>5, MockAssumption DEF TypesOK, ListTypeOK
    <3> QED  BY <2>1, <2>2, <2>5, <3>1 DEF TypesOK, ListTypeOK
  <2>7. NoGhostMember'
    BY <2>1, <2>2, <2>3, <2>5 DEF TypesOK, ListTypeOK, NoGhostMember
  <2> QED  BY <2>1, <2>4, <2>5, <2>6, <2>7, HandlerKept
<1> QED  BY <1>1, <1>2, <1>3, <1>4

(* The walk of a broadcast, from the call to its end.                      *)
LEMMA CastNextPoint ==
    ASSUME MockInv, NEW p \in Processes, NEW from \in MockPoints, NEW to \in MockPoints,
           Go(p, from, to), UNCHANGED <<server, net, lists, target>>,
           GoroutineTypeOK', GoroutineInv',
           p \in Clients => {from, to} \subseteq {"begin", "cast", "read"}
    PROVE  MockInv'
<1>1. /\ pc[p] = from /\ pc'[p] = to
      /\ \A q \in Processes : q # p => pc'[q] = pc[q]
  BY GoFacts DEF MockInv
<1>2. /\ ServerTypeOK' /\ ListTypeOK' /\ StopDisconnects'
  BY DEF MockInv, TypesOK, ServerTypeOK, ListTypeOK, server, lists, StopDisconnects
<1>3. \A c \in Clients : pc'[c] = pc[c] \/ {pc[c], pc'[c]} \subseteq {"begin", "cast", "read"}
  BY <1>1, ClientsAreProcesses
<1>4. HandlerInv'
  BY <1>3 DEF MockInv, HandlerInv, lists
<1>5. NoGhostMember'
  BY <1>3 DEF MockInv, TypesOK, ListTypeOK, NoGhostMember, lists
<1>6. LateInv'
  BY <1>3 DEF MockInv, LateInv, Registering, server
<1> QED  BY <1>2, <1>4, <1>5, <1>6 DEF MockInv, TypesOK

LEMMA CastNextInv ==
    ASSUME MockInv, NEW p \in Processes,
           CastBegin(p) \/ CastEnd(p) \/ (p \in Testers /\ BroadcastMessage(p))
    PROVE  MockInv'
<1> USE ClientsAreProcesses DEF MockInv
<1>1. CASE CastBegin(p)
  <2>1. /\ Go(p, "begin", "cast") /\ "begin" \in MockPoints /\ "cast" \in MockPoints
        /\ due' = [due EXCEPT ![p] = channels[job[p].chan] \ {job[p].except}]
        /\ UNCHANGED <<server, net, lists, job, target, seen>>
    BY <1>1 DEF CastBegin, MockPoints
  <2>2. channels[job[p].chan] \subseteq Clients
    BY DEF TypesOK, ListTypeOK, GoroutineTypeOK, Job
  <2>3. GoroutineTypeOK'
    BY <2>1, <2>2, GoFacts DEF TypesOK, GoroutineTypeOK
  <2>4. /\ pc[p] = "begin" /\ pc'[p] = "cast" /\ target[p] = Nobody
        /\ \A q \in Processes : q # p => pc'[q] = pc[q] /\ due'[q] = due[q]
    BY <2>1, GoFacts DEF TypesOK, GoroutineTypeOK
  <2>5. GoroutineInv'
    BY <2>1, <2>4 DEF GoroutineInv
  <2> QED  BY <2>1, <2>3, <2>5, CastNextPoint
<1>2. CASE CastEnd(p)
  <2> DEFINE to == IF p \in Clients THEN "read" ELSE "idle"
  <2>1. /\ Go(p, "cast", to) /\ "cast" \in MockPoints /\ to \in MockPoints
        /\ due' = [due EXCEPT ![p] = {}] /\ seen' = [seen EXCEPT ![p] = {}]
        /\ job' = [job EXCEPT ![p] = NoJob]
        /\ UNCHANGED <<server, net, lists, target>>
    BY <1>2 DEF CastEnd, MockPoints
  <2>2. GoroutineTypeOK'
    BY <2>1, GoFacts, NoJobIsJob DEF TypesOK, GoroutineTypeOK
  <2>3. /\ pc[p] = "cast" /\ pc'[p] = to /\ target[p] = Nobody
        /\ due'[p] = {} /\ seen'[p] = {}
        /\ \A q \in Processes :
               q # p => pc'[q] = pc[q] /\ due'[q] = due[q] /\ seen'[q] = seen[q]
    BY <2>1, GoFacts DEF TypesOK, GoroutineTypeOK
  <2>4. GoroutineInv'
    BY <2>1, <2>3 DEF GoroutineInv
  <2> QED  BY <2>1, <2>2, <2>4, CastNextPoint
<1>3. CASE p \in Testers /\ BroadcastMessage(p)
  <2>1. /\ Go(p, "idle", "begin") /\ "idle" \in MockPoints /\ "begin" \in MockPoints
        /\ UNCHANGED <<server, net, lists, target, walk>>
    BY <1>3 DEF BroadcastMessage, MockPoints
  <2>2. PICK ch \in Channels : job' = [job EXCEPT ![p] = [chan |-> ch, except |-> Nobody]]
    BY <1>3 DEF BroadcastMessage
  <2>3. GoroutineTypeOK'
    BY <2>1, <2>2, GoFacts DEF TypesOK, GoroutineTypeOK, walk, Job
  <2>4. GoroutineInv'
    BY <2>1, GoroutineKept
  <2> QED  BY <1>3, <2>1, <2>3, <2>4, CastNextPoint
<1> QED  BY <1>1, <1>2, <1>3

-----------------------------------------------------------------------------
(* The writers: a write changes nothing the server knows.                  *)

LEMMA WriterKept ==
    ASSUME MockInv, UNCHANGED <<server, net, lists>>, GoroutineTypeOK', GoroutineInv',
           \A c \in Clients :
               \/ pc'[c] = pc[c]
               \/ /\ pc[c] \in {"welcome", "pong", "ack", "cast"}
                  /\ pc'[c] \in {"read", "begin", "cast"}
    PROVE  MockInv'
<1>1. ServerTypeOK' /\ ListTypeOK' /\ StopDisconnects'
  BY DEF MockInv, TypesOK, ServerTypeOK, ListTypeOK, server, lists, StopDisconnects
<1>2. HandlerInv'
  BY DEF MockInv, HandlerInv, lists
<1>3. NoGhostMember'
  BY DEF MockInv, TypesOK, ListTypeOK, NoGhostMember, lists
<1>4. LateInv'
  BY DEF MockInv, LateInv, Registering, server
<1> QED  BY <1>1, <1>2, <1>3, <1>4 DEF MockInv, TypesOK

LEMMA WriteBeginNext ==
    ASSUME MockInv, NEW p \in Processes, NEW c \in Clients, WriteBegin(p, c),
           \/ UNCHANGED walk /\ pc[p] \in {"welcome", "ack", "pong"}
           \/ /\ pc[p] = "cast" /\ c \notin seen[p]
              /\ seen' = [seen EXCEPT ![p] = @ \cup {c}]
              /\ due' = [due EXCEPT ![p] = @ \ {c}]
    PROVE  MockInv'
<1>1. /\ UNCHANGED <<server, net, lists, pc, job>>
      /\ target' = [target EXCEPT ![p] = c]
      /\ \A q \in Processes : target[q] # c
  BY DEF WriteBegin
<1>2. /\ target'[p] = c /\ \A q \in Processes : q # p => target'[q] = target[q]
  BY <1>1 DEF MockInv, TypesOK, GoroutineTypeOK
<1>3. GoroutineTypeOK'
  BY <1>1 DEF MockInv, TypesOK, GoroutineTypeOK, walk
<1>4. /\ \A q \in Processes : q # p => seen'[q] = seen[q] /\ due'[q] = due[q]
      /\ seen'[p] \cap due'[p] = {}
      /\ pc[p] # "cast" => seen'[p] = seen[p] /\ due'[p] = due[p]
  BY DEF MockInv, TypesOK, GoroutineTypeOK, GoroutineInv, walk
<1>5. GoroutineInv'
  BY <1>1, <1>2, <1>4 DEF MockInv, GoroutineInv
<1> QED  BY <1>1, <1>3, <1>5, WriterKept

LEMMA WriteEndNext ==
    ASSUME MockInv, NEW p \in Processes, WriteEnd(p)
    PROVE  MockInv'
<1> USE ClientsAreProcesses DEF MockInv
<1>1. /\ UNCHANGED <<server, net, lists, job, walk>> /\ target[p] # Nobody
      /\ target' = [target EXCEPT ![p] = Nobody]
      /\ pc' = [pc EXCEPT ![p] = AfterWrite[pc[p]]]
  BY DEF WriteEnd
<1>2. pc[p] \in {"welcome", "pong", "ack", "event", "cast"}
  BY <1>1 DEF GoroutineInv
<1>3. /\ pc[p] \in {"welcome", "pong"} => AfterWrite[pc[p]] = "read"
      /\ pc[p] = "ack" => AfterWrite[pc[p]] = "begin"
      /\ pc[p] = "event" => AfterWrite[pc[p]] = "idle"
      /\ pc[p] = "cast" => AfterWrite[pc[p]] = "cast"
  BY DEF AfterWrite
<1>4. /\ pc'[p] = AfterWrite[pc[p]] /\ target'[p] = Nobody
      /\ \A q \in Processes : q # p => pc'[q] = pc[q] /\ target'[q] = target[q]
  BY <1>1 DEF TypesOK, GoroutineTypeOK
<1>5. GoroutineTypeOK'
  BY <1>1, <1>2, <1>3 DEF TypesOK, GoroutineTypeOK, walk, MockPoints
<1>6. p \in Clients => pc[p] # "event"
  BY DEF HandlerInv
<1>7. p \in Testers => pc[p] \in {"event", "cast"}
  BY <1>2 DEF GoroutineInv
<1>8. GoroutineInv'
  BY <1>1, <1>2, <1>3, <1>4, <1>7 DEF GoroutineInv, walk
<1> QED  BY <1>1, <1>2, <1>3, <1>4, <1>5, <1>6, <1>8, WriterKept

LEMMA SimulateNext ==
    ASSUME MockInv, NEW t \in Testers, SimulateEvent(t)
    PROVE  MockInv'
<1> USE ClientsAreProcesses DEF MockInv
<1>1. /\ Go(t, "idle", "event") /\ "event" \in MockPoints
      /\ UNCHANGED <<server, net, lists, job, walk>>
      /\ \A q \in Processes : target[q] # target'[t]
  BY DEF SimulateEvent, MockPoints
<1>2. PICK c \in clients : target' = [target EXCEPT ![t] = c]
  BY DEF SimulateEvent
<1>3. /\ pc[t] = "idle" /\ pc'[t] = "event" /\ target'[t] = c /\ c \in Clients
      /\ \A q \in Processes : q # t => pc'[q] = pc[q] /\ target'[q] = target[q]
      /\ pc' \in [Processes -> MockPoints]
  BY <1>1, <1>2, GoFacts DEF TypesOK, GoroutineTypeOK, ListTypeOK
<1>4. GoroutineTypeOK'
  BY <1>1, <1>2, <1>3 DEF TypesOK, GoroutineTypeOK, walk
<1>5. GoroutineInv'
  BY <1>1, <1>3 DEF GoroutineInv, walk
<1> QED  BY <1>1, <1>3, <1>4, <1>5, WriterKept

-----------------------------------------------------------------------------

LEMMA MockNextInv == MockInv /\ [MockNext]_mockVars => MockInv'
<1> SUFFICES ASSUME MockInv, [MockNext]_mockVars PROVE MockInv'
  OBVIOUS
<1>1. CASE Start \/ StopBegin \/ StopEnd
  BY <1>1, ServerNext
<1>2. ASSUME NEW c \in Clients, Accept(c) \/ Upgrade(c) \/ ReadFrame(c) \/ Handle(c) \/ NetworkLoss(c)
      PROVE  MockInv'
  <2>1. CASE Answer(c)
    BY <2>1, WriteBeginNext, ClientsAreProcesses DEF Answer
  <2>2. CASE ~Answer(c)
    BY <1>2, <2>2, ServerNext, RegisterNext, HandleNext DEF Handle
  <2> QED  BY <2>1, <2>2
<1>3. ASSUME NEW p \in Processes, WriteEnd(p) \/ Broadcast(p)
      PROVE  MockInv'
  <2>1. ASSUME NEW c \in Clients, CastNext(p, c)
        PROVE  MockInv'
    BY <2>1, WriteBeginNext DEF CastNext
  <2> QED  BY <1>3, <2>1, WriteEndNext, CastNextInv DEF Broadcast
<1>4. ASSUME NEW t \in Testers, BroadcastMessage(t) \/ SimulateEvent(t)
      PROVE  MockInv'
  BY <1>4, CastNextInv, SimulateNext, ClientsAreProcesses
<1>5. CASE UNCHANGED mockVars
  BY <1>5
  DEF mockVars, server, lists, walk, MockInv, TypesOK, ServerTypeOK, ListTypeOK,
      GoroutineTypeOK, HandlerInv, GoroutineInv, NoGhostMember, LateInv, Registering,
      StopDisconnects
<1> QED  BY <1>1, <1>2, <1>3, <1>4, <1>5 DEF MockNext

LEMMA MockInvariance == MockSpec => []MockInv
BY MockInitInv, MockNextInv, PTL DEF MockSpec

(* Whatever the connections, joins, leaves, losses and broadcasts, and     *)
(* however they interleave, the server's maps hold what they may, and a    *)
(* member of a channel is a registered client whose clean-up is still to   *)
(* come and will strike it off (server.go, handleClient's deferred call).  *)
THEOREM NoGhosts == MockSpec => []MembersAreLive
<1>1. MockInv => MembersAreLive
  BY DEF MockInv, TypesOK, ServerTypeOK, ListTypeOK, GoroutineTypeOK, GoroutineInv,
         MembersAreLive, MockTypeOK
<1> QED  BY <1>1, MockInvariance, PTL

(* After any number of starts and stops, whenever requests are upgraded,   *)
(* a stopped server holds no open connection but those it had accepted and *)
(* not registered when it closed the others.                               *)
THEOREM StopsDisconnect == MockSpec => []StopDisconnects
<1>1. MockInv => StopDisconnects
  BY DEF MockInv
<1> QED  BY <1>1, MockInvariance, PTL
=============================================================================
