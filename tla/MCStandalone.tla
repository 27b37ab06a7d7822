----------------------------- MODULE MCStandalone -----------------------------
(***************************************************************************)
(* The parts that stand on their own, the four utilities with state and    *)
(* the polling strategy, share nothing: a behaviour is one of one of them, *)
(* while the others stay as they are.                                      *)
(***************************************************************************)
EXTENDS Snowflake, CircuitBreaker, RateLimiter, Retry, HTTPPollingStrategy

CONSTANTS g1, g2, o1, o2, o3, t1, t2

TwoGenerators == {g1, g2}
TwoWaiters == {o1, o2}
ThreeOperations == {o1, o2, o3}

(* One node id is out of range and loses its upper bits: 5 % 4 = 1.        *)
NodeIDs == [g \in TwoGenerators |-> IF g = g1 THEN 0 ELSE 5]

(* With 31 as the largest Duration, 16 * 2 overflows and 9 * 3 does not;   *)
(* multipliers are of halves: 1/2, 1, 3/2, 2 and 3.                        *)
SomeRetryConfigs ==
    [MaxAttempts : {-1, 0, 1, 4}, InitialWait : {1, 3, 12}, MaxWait : {2, 9, 16, 31},
     Multiplier : {1, 2, 3, 4, 6}]

TwoThreads == {t1, t2}

VARIABLE part

standaloneVars ==
    <<part, snowflakeVars, breakerVars, limiterVars, retryVars, pollingVars>>

StandaloneInit ==
    /\ part \in {"snowflake", "breaker", "limiter", "retry", "polling"}
    /\ SnowflakeInit /\ BreakerInit /\ LimiterInit /\ RetryInit /\ PollingInit
    /\ part # "snowflake" => clock = [g \in Generators |-> 0]
    /\ part # "retry" => retry = CHOOSE c \in RetryConfigs : TRUE

StandaloneNext ==
    /\ UNCHANGED part
    /\ \/ /\ part = "snowflake"
          /\ SnowflakeNext
          /\ UNCHANGED <<breakerVars, limiterVars, retryVars, pollingVars>>
       \/ /\ part = "breaker"
          /\ BreakerNext
          /\ UNCHANGED <<snowflakeVars, limiterVars, retryVars, pollingVars>>
       \/ /\ part = "limiter"
          /\ LimiterNext
          /\ UNCHANGED <<snowflakeVars, breakerVars, retryVars, pollingVars>>
       \/ /\ part = "retry"
          /\ RetryNext
          /\ UNCHANGED <<snowflakeVars, breakerVars, limiterVars, pollingVars>>
       \/ /\ part = "polling"
          /\ PollingNext
          /\ UNCHANGED <<snowflakeVars, breakerVars, limiterVars, retryVars>>

(* Time passes, operations end, callers that were refused ask again, and   *)
(* waiters poll.                                                           *)
BreakerStep(action) == part = "breaker" /\ action
LimiterStep(action) == part = "limiter" /\ action

BreakerFairness ==
    /\ WF_breakerVars(BreakerStep(TimePasses))
    /\ \A o \in Operations :
        /\ WF_breakerVars(BreakerStep(Allow(o)))
        /\ WF_breakerVars(BreakerStep(Success(o) \/ Failure(o)))

LimiterFairness ==
    /\ WF_limiterVars(LimiterStep(LimiterTick))
    /\ \A w \in Waiters : WF_limiterVars(LimiterStep(WaitEnd(w) \/ WaitOn(w)))

StandaloneSpec ==
    StandaloneInit /\ [][StandaloneNext]_standaloneVars /\ BreakerFairness /\ LimiterFairness

(* Nobody is refused by the breaker, nor kept waiting by the limiter, for  *)
(* ever.                                                                   *)
RefusedAreServed == OpenEnds /\ WaitersAreServed
=============================================================================
