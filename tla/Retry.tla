-------------------------------- MODULE Retry --------------------------------
(***************************************************************************)
(* utils.Retry, and the delays of connection.Manager.reconnect, which are  *)
(* computed apart (calculateBackoff) by a closed formula.                  *)
(*                                                                         *)
(* Durations are integers, not negative in a config, and multipliers       *)
(* positive fractions.  Retry multiplies float64s and converts the product *)
(* to a Duration before it looks at the limit: the conversion takes what   *)
(* is after the point away, and what it gives for a product that does not  *)
(* fit depends on the processor, the smallest or the largest Duration.     *)
(* That a float64 has 53 bits is left out.                                 *)
(***************************************************************************)
EXTENDS Integers, Sequences

CONSTANTS
    RetryConfigs,  \* the RetryConfig values considered
    One,           \* what a Multiplier of 1 is: they are counted in parts of it
    MaxDuration    \* the largest Duration (2^63 - 1 in the code)

MinDuration == -MaxDuration - 1

ASSUME RetryAssumption ==
    /\ MaxDuration \in Nat
    /\ One \in Nat \ {0}
    /\ RetryConfigs \subseteq [MaxAttempts : Int, InitialWait : 0..MaxDuration,
                               MaxWait : 0..MaxDuration, Multiplier : Nat \ {0}]

VARIABLES
    retry,     \* the config of the call
    rpc,       \* "check", "call", "sleep", or "returned"
    attempt,
    wait,
    lastErr,   \* lastErr # nil
    slept,     \* history: the waits slept
    outcomes   \* history: whether fn failed, per call

retryVars == <<retry, rpc, attempt, wait, lastErr, slept, outcomes>>

RetryInit ==
    /\ retry \in RetryConfigs
    /\ rpc = "check"
    /\ attempt = 0
    /\ wait = retry.InitialWait
    /\ lastErr = FALSE
    /\ slept = <<>>
    /\ outcomes = <<>>

(* The condition of the loop; when it fails, lastErr is returned.          *)
CheckAttempt ==
    /\ rpc = "check"
    /\ rpc' = IF attempt < retry.MaxAttempts THEN "call" ELSE "returned"
    /\ UNCHANGED <<retry, attempt, wait, lastErr, slept, outcomes>>

CallSucceeds ==
    /\ rpc = "call"
    /\ outcomes' = Append(outcomes, TRUE)
    /\ lastErr' = FALSE   \* return nil
    /\ rpc' = "returned"
    /\ UNCHANGED <<retry, attempt, wait, slept>>

CallFails ==
    /\ rpc = "call"
    /\ outcomes' = Append(outcomes, FALSE)
    /\ lastErr' = TRUE
    /\ rpc' = "sleep"
    /\ UNCHANGED <<retry, attempt, wait, slept>>

(* time.Duration(x / One)                                                  *)
Truncate(x) == IF x >= 0 THEN x \div One ELSE -((-x) \div One)

Durations(x) ==
    IF Truncate(x) \in MinDuration..MaxDuration THEN {Truncate(x)}
    ELSE {MinDuration, MaxDuration}

(* Mistake: the limit is applied before the wait is multiplied.            *)
Bug_SleepLimitsFirst ==
    /\ rpc = "sleep"
    /\ slept' = Append(slept, wait)
    /\ wait' \in Durations((IF wait > retry.MaxWait THEN retry.MaxWait ELSE wait) * retry.Multiplier)
    /\ attempt' = attempt + 1
    /\ rpc' = "check"
    /\ UNCHANGED <<retry, lastErr, outcomes>>

Sleep ==
    /\ rpc = "sleep"
    /\ slept' = Append(slept, wait)
    /\ \E next \in Durations(wait * retry.Multiplier) :
        wait' = IF next > retry.MaxWait THEN retry.MaxWait ELSE next
    /\ attempt' = attempt + 1
    /\ rpc' = "check"
    /\ UNCHANGED <<retry, lastErr, outcomes>>

RetryNext == CheckAttempt \/ CallSucceeds \/ CallFails \/ Sleep

RetrySpec == RetryInit /\ [][RetryNext]_retryVars

-----------------------------------------------------------------------------
(* Manager.calculateBackoff: the product is limited while it is a float64. *)

CalculateBackoff(delay, limit, factor, n) ==
    LET backoff == delay * factor^(n - 1)
    IN IF backoff > limit THEN limit ELSE backoff

-----------------------------------------------------------------------------
(* Properties                                                              *)

(* Every variable holds a value the code can give it; fn is called no more *)
(* than MaxAttempts times.                                                 *)
RetryTypeOK ==
    /\ retry \in RetryConfigs
    /\ rpc \in {"check", "call", "sleep", "returned"}
    /\ attempt \in Nat
    /\ wait \in MinDuration..MaxDuration
    /\ lastErr \in BOOLEAN
    /\ slept \in Seq(MinDuration..MaxDuration)
    /\ outcomes \in Seq(BOOLEAN)
    /\ outcomes # <<>> => Len(outcomes) <= retry.MaxAttempts

(* Retry returns nil after a call that succeeded and an error otherwise;   *)
(* only with MaxAttempts below 1 it returns nil without having called.     *)
RetryAnswers ==
    rpc = "returned" =>
        IF outcomes = <<>>
        THEN retry.MaxAttempts <= 0 /\ ~lastErr
        ELSE lastErr = ~outcomes[Len(outcomes)]

(* The waits that Retry computes, truncates and limits step by step begin  *)
(* with InitialWait, limited or not, and are never above the closed        *)
(* formula nor, after the first, above MaxWait, as long as no product      *)
(* overflows.  With a whole multiplier all but the first are the waits     *)
(* calculateBackoff would give; with another one truncation may leave them *)
(* short.                                                                  *)
NoOverflow ==
    \A w \in {retry.InitialWait, retry.MaxWait} : w * retry.Multiplier <= MaxDuration * One

Factor == retry.Multiplier \div One
Whole == Factor > 0 /\ retry.Multiplier = Factor * One

Within(w, n) == w * One^n <= retry.InitialWait * retry.Multiplier^n

WaitsFollowFormula ==
    NoOverflow =>
        \A k \in DOMAIN slept :
            /\ Within(slept[k], k - 1)
            /\ IF k = 1 THEN slept[k] = retry.InitialWait
               ELSE /\ slept[k] <= retry.MaxWait
                    /\ Whole => slept[k] = CalculateBackoff(retry.InitialWait, retry.MaxWait,
                                                           Factor, k)

(* A call of Retry keeps to its config in attempts, waits and answer.      *)
RetryKeepsPlan == RetryTypeOK /\ RetryAnswers /\ WaitsFollowFormula
=============================================================================
