----------------------------- MODULE RateLimiter -----------------------------
(***************************************************************************)
(* utils.RateLimiter, a token bucket, and the goroutines that call Allow   *)
(* or Wait.  Allow holds the mutex throughout and is one step.  Wait calls *)
(* it every 10 ms until it succeeds: a waiter may call it at any time.     *)
(*                                                                         *)
(* Tokens, which the code counts in float64, are counted in fractions:     *)
(* Token of them make one.  Time is the monotonic clock's, in ticks.       *)
(***************************************************************************)
EXTENDS Integers

CONSTANTS
    Waiters,     \* the goroutines that call Wait
    Token,       \* the fractions of a token
    MaxTokens,   \* r.maxTokens, in fractions
    RefillRate,  \* r.refillRate, in fractions per tick
    Window       \* bound: the longest window that is observed, in ticks

ASSUME LimiterAssumption ==
    /\ Token \in Nat \ {0}
    /\ MaxTokens \in Nat
    /\ RefillRate \in Nat
    /\ Window \in Nat

VARIABLES
    tokens,      \* r.tokens
    sinceRefill, \* time.Now().Sub(r.lastRefill)
    waiting,     \* the goroutines in Wait
    span,        \* history: the age of the window; it ends after Window ticks
    admitted     \* history: the requests allowed within the window

limiterVars == <<tokens, sinceRefill, waiting, span, admitted>>

LimiterInit ==
    /\ tokens = MaxTokens
    /\ sinceRefill = 0
    /\ waiting = {}
    /\ span = 0
    /\ admitted = 0

Refilled ==
    LET sum == tokens + sinceRefill * RefillRate
    IN IF sum > MaxTokens THEN MaxTokens ELSE sum

Granted ==
    /\ Refilled >= Token
    /\ tokens' = Refilled - Token
    /\ sinceRefill' = 0
    /\ admitted' = IF span <= Window THEN admitted + 1 ELSE admitted
    /\ UNCHANGED span

(* Mistake: a refused call forgets to store the time of its refill.        *)
Bug_DeniedKeepsTime ==
    /\ Refilled < Token
    /\ tokens' = Refilled
    /\ UNCHANGED <<sinceRefill, span, admitted>>

Denied ==
    /\ Refilled < Token
    /\ tokens' = Refilled
    /\ sinceRefill' = 0
    /\ UNCHANGED <<span, admitted>>

(* Allow, called once by anybody.                                          *)
AllowRequest == (Granted \/ Denied) /\ UNCHANGED waiting

WaitBegin(w) ==
    /\ w \notin waiting
    /\ waiting' = waiting \cup {w}
    /\ UNCHANGED <<tokens, sinceRefill, span, admitted>>

WaitEnd(w) ==
    /\ w \in waiting
    /\ Granted
    /\ waiting' = waiting \ {w}

WaitOn(w) ==
    /\ w \in waiting
    /\ Denied
    /\ UNCHANGED waiting

(* Once the time suffices to fill an empty bucket, it is not counted on.   *)
LimiterTick ==
    /\ sinceRefill' = IF sinceRefill < MaxTokens THEN sinceRefill + 1 ELSE sinceRefill
    /\ span' = IF span <= Window THEN span + 1 ELSE span
    /\ UNCHANGED <<tokens, waiting, admitted>>

(* History: a window begins, at any time.                                  *)
Observe ==
    /\ span' = 0
    /\ admitted' = 0
    /\ UNCHANGED <<tokens, sinceRefill, waiting>>

LimiterNext ==
    \/ AllowRequest
    \/ \E w \in Waiters : WaitBegin(w) \/ WaitEnd(w) \/ WaitOn(w)
    \/ LimiterTick
    \/ Observe

LimiterSpec == LimiterInit /\ [][LimiterNext]_limiterVars

-----------------------------------------------------------------------------
(* Properties                                                              *)

(* Every variable holds a value the code can give it; there are never more *)
(* tokens than fit the bucket, nor less than none.                         *)
LimiterTypeOK ==
    /\ tokens \in 0..MaxTokens
    /\ sinceRefill \in 0..MaxTokens
    /\ waiting \subseteq Waiters
    /\ span \in 0..Window + 1
    /\ admitted \in Nat

(* In any window of time, wherever it begins and whoever asks how often,   *)
(* no more requests are allowed than the burst and the rate permit.        *)
RateIsKept == Token * admitted <= MaxTokens + RefillRate * span

(* While goroutines wait, requests go on being granted, as long as there   *)
(* is a rate and the bucket can hold a token.  To whom, the code leaves to *)
(* chance: one waiter alone may be overtaken for ever.                     *)
WaitersAreServed ==
    RefillRate > 0 /\ MaxTokens >= Token =>
        []<>(waiting = {}) \/ []<><<Granted>>_limiterVars
=============================================================================
