--------------------------- MODULE CircuitBreaker ---------------------------
(***************************************************************************)
(* utils.CircuitBreaker and the goroutines that call something through it: *)
(* Allow, then the operation, then Success or Failure.  Each method holds  *)
(* the mutex throughout and is one step; the operations themselves overlap *)
(* freely, so an outcome may be recorded in any state of the breaker.      *)
(*                                                                         *)
(* Two numbers are kept only as far as the code compares them: the count   *)
(* of failures up to the threshold, and the time since the last failure,   *)
(* in ticks of the monotonic clock, up to one more than resetTimeout.  A   *)
(* threshold below 1 acts like 1.                                          *)
(***************************************************************************)
EXTENDS Integers

CONSTANTS
    Operations,       \* the goroutines that go through the breaker
    FailureThreshold,
    ResetTimeout      \* in ticks

ASSUME BreakerAssumption ==
    /\ FailureThreshold \in Nat \ {0}
    /\ ResetTimeout \in Nat

VARIABLES
    circuit,     \* cb.state
    failures,    \* cb.failures
    elapsed,     \* time.Since(cb.lastFailure)
    running,     \* the operations that were let through and still go on
    streak,      \* history: failures recorded since the last success
    quiet        \* history: the time since a failure was recorded

breakerVars == <<circuit, failures, elapsed, running, streak, quiet>>

Cap(n, limit) == IF n > limit THEN limit ELSE n
LongAgo == ResetTimeout + 1

BreakerInit ==
    /\ circuit = "Closed"
    /\ failures = 0
    /\ elapsed = LongAgo
    /\ running = {}
    /\ streak = 0
    /\ quiet = LongAgo

(* Allow returns TRUE.                                                     *)
LetThrough(o) ==
    /\ o \notin running
    /\ running' = running \cup {o}
    /\ UNCHANGED <<failures, elapsed, streak, quiet>>

AllowClosed(o) ==
    /\ circuit \in {"Closed", "HalfOpen"}
    /\ LetThrough(o)
    /\ UNCHANGED circuit

(* Mistake: the first call after the timeout closes the breaker.           *)
Bug_AllowProbeCloses(o) ==
    /\ circuit = "Open"
    /\ elapsed > ResetTimeout
    /\ LetThrough(o)
    /\ circuit' = "Closed"

AllowProbe(o) ==
    /\ circuit = "Open"
    /\ elapsed > ResetTimeout
    /\ LetThrough(o)
    /\ circuit' = "HalfOpen"

(* Mistake: a refused call starts the timeout anew.                        *)
Bug_RefuseProlongs(o) ==
    /\ circuit = "Open"
    /\ elapsed <= ResetTimeout
    /\ o \notin running
    /\ elapsed' = 0
    /\ UNCHANGED <<circuit, failures, running, streak, quiet>>

(* Allow returns FALSE.                                                    *)
Refuse(o) ==
    /\ circuit = "Open"
    /\ elapsed <= ResetTimeout
    /\ o \notin running
    /\ UNCHANGED breakerVars

Success(o) ==
    /\ o \in running
    /\ running' = running \ {o}
    /\ failures' = 0
    /\ circuit' = "Closed"
    /\ streak' = 0
    /\ UNCHANGED <<elapsed, quiet>>

(* Mistake: a failure that finds the breaker open is not timed.            *)
Bug_FailureKeepsTime(o) ==
    /\ o \in running
    /\ running' = running \ {o}
    /\ failures' = Cap(failures + 1, FailureThreshold)
    /\ elapsed' = IF circuit = "Open" THEN elapsed ELSE 0
    /\ circuit' = IF failures' >= FailureThreshold THEN "Open" ELSE circuit
    /\ streak' = Cap(streak + 1, FailureThreshold)
    /\ quiet' = 0

Failure(o) ==
    /\ o \in running
    /\ running' = running \ {o}
    /\ failures' = Cap(failures + 1, FailureThreshold)
    /\ elapsed' = 0
    /\ circuit' = IF failures' >= FailureThreshold THEN "Open" ELSE circuit
    /\ streak' = Cap(streak + 1, FailureThreshold)
    /\ quiet' = 0

TimePasses ==
    /\ elapsed' = Cap(elapsed + 1, LongAgo)
    /\ quiet' = Cap(quiet + 1, LongAgo)
    /\ UNCHANGED <<circuit, failures, running, streak>>

Allow(o) == AllowClosed(o) \/ AllowProbe(o) \/ Refuse(o)

BreakerNext ==
    \/ \E o \in Operations : Allow(o) \/ Success(o) \/ Failure(o)
    \/ TimePasses

BreakerSpec == BreakerInit /\ [][BreakerNext]_breakerVars

-----------------------------------------------------------------------------
(* Properties                                                              *)

(* Every variable holds a value the code can give it; the count is full    *)
(* when the breaker is not closed.                                         *)
BreakerTypeOK ==
    /\ circuit \in {"Closed", "Open", "HalfOpen"}
    /\ failures \in 0..FailureThreshold
    /\ elapsed \in 0..LongAgo
    /\ running \subseteq Operations
    /\ streak \in 0..FailureThreshold
    /\ quiet \in 0..LongAgo
    /\ circuit = "Closed" <=> failures < FailureThreshold

(* Whatever calls overlap: the breaker is closed exactly as long as fewer  *)
(* than failureThreshold failures in a row were recorded, so that a single *)
(* failing probe opens it again; and it is half open only after a timeout  *)
(* without any failure.                                                    *)
ClosedByStreak ==
    /\ circuit = "Closed" <=> streak < FailureThreshold
    /\ circuit = "HalfOpen" => quiet > ResetTimeout

(* After failureThreshold failures in a row, late ones included, nobody is *)
(* let through before resetTimeout has passed since the last of them.      *)
CoolsDown ==
    (\E o \in running' : o \notin running) =>
        streak < FailureThreshold \/ quiet > ResetTimeout
CoolDownIsKept == [][CoolsDown]_breakerVars

(* An open breaker does not stay open for ever, however often callers ask: *)
(* the operations let through before it opened can put the end off, but    *)
(* there are no others.                                                    *)
OpenEnds == circuit = "Open" ~> circuit # "Open"
=============================================================================
