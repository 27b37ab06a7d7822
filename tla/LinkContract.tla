---------------------------- MODULE LinkContract ----------------------------
(***************************************************************************)
(* What a ConnectionStrategy promises the connection manager about its     *)
(* link.  Everything the manager does after a failure hangs on the down    *)
(* events (connection_lost, disconnected) the strategy posts on Events():  *)
(*                                                                         *)
(*   - the end of every link is reported exactly once, and                 *)
(*   - a new link is never raised before the end of the previous one was   *)
(*     reported, so the reports never run ahead of, nor fall two behind,   *)
(*     the links.                                                          *)
(*                                                                         *)
(* The module is abstract: it has no goroutines, locks or queues.          *)
(* WebSocketStrategy and HTTPPollingStrategy are shown to implement it.    *)
(***************************************************************************)
EXTENDS Naturals, TLAPS

VARIABLES
    up,       \* the strategy believes it has a link (IsConnected)
    owed,     \* a link has gone down and its report is not posted yet
    ups,      \* links raised so far
    reports   \* down events posted so far

vars == <<up, owed, ups, reports>>

Init ==
    /\ up = FALSE
    /\ owed = FALSE
    /\ ups = 0
    /\ reports = 0

Raise ==
    /\ ~up
    /\ ~owed
    /\ up' = TRUE
    /\ ups' = ups + 1
    /\ UNCHANGED <<owed, reports>>

Drop ==
    /\ up
    /\ up' = FALSE
    /\ owed' = TRUE
    /\ UNCHANGED <<ups, reports>>

Report ==
    /\ owed
    /\ owed' = FALSE
    /\ reports' = reports + 1
    /\ UNCHANGED <<up, ups>>

Next == Raise \/ Drop \/ Report

Spec == Init /\ [][Next]_vars

-----------------------------------------------------------------------------

(* Each link raised is still up, owes its report, or was reported: no end  *)
(* of a link is ever lost, and none is reported twice.                     *)
EveryEndReportedOnce ==
    /\ ~(up /\ owed)
    /\ ups = IF up \/ owed THEN reports + 1 ELSE reports

ContractTypeOK ==
    /\ up \in BOOLEAN
    /\ owed \in BOOLEAN
    /\ ups \in Nat
    /\ reports \in Nat

(* Whoever keeps the contract reports the end of every link exactly once.  *)
THEOREM EndsAreReported == Spec => []EveryEndReportedOnce
<1> DEFINE Inv == ContractTypeOK /\ EveryEndReportedOnce
<1> USE DEF ContractTypeOK, EveryEndReportedOnce
<1>1. Init => Inv
  <2> SUFFICES ASSUME Init PROVE Inv
    OBVIOUS
  <2>1. ContractTypeOK
    BY DEF Init
  <2>2. ~up /\ ~owed
    BY DEF Init
  <2> QED  BY <2>1, <2>2 DEF Init
<1>2. Inv /\ [Next]_vars => Inv'
  <2> SUFFICES ASSUME Inv, [Next]_vars PROVE Inv'
    OBVIOUS
  <2>1. CASE Raise
    BY <2>1 DEF Raise
  <2>2. CASE Drop
    BY <2>2 DEF Drop
  <2>3. CASE Report
    BY <2>3 DEF Report
  <2>4. CASE UNCHANGED vars
    BY <2>4 DEF vars
  <2> QED  BY <2>1, <2>2, <2>3, <2>4 DEF Next
<1>3. Inv => EveryEndReportedOnce
  OBVIOUS
<1> QED  BY <1>1, <1>2, <1>3, PTL DEF Spec
=============================================================================
