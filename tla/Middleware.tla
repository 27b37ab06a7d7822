------------------------------ MODULE Middleware ------------------------------
(***************************************************************************)
(* The chain of middlewares around one dispatch of a message: what comes   *)
(* back through it from the handlers, an error or a panic, and where it    *)
(* ends.  TimeoutMiddleware runs the rest of the chain in a goroutine of   *)
(* its own, which goes on when its context has ended, and in which a panic *)
(* is beyond the middlewares outside: it ends the process.                 *)
(*                                                                         *)
(* A goroutine is named by the place of the TimeoutMiddleware that started *)
(* it, HandleMessage's own by 0.                                           *)
(***************************************************************************)
EXTENDS Integers, Sequences

CONSTANT MaxChain   \* bound: middlewares in the chain

ASSUME MiddlewareAssumption == MaxChain \in Nat

Kinds == {"Logging", "Recovery", "Timeout", "Filter"}
Chains == UNION {[1..n -> Kinds] : n \in 0..MaxChain}
Threads == 0..MaxChain

VARIABLES
    chain,    \* r.middlewares: the first is the outermost
    place,    \* per goroutine, the middleware it is in, from the outside
    phase,    \* per goroutine: "none", "in", "wait", "out" or "over"
    result,   \* per goroutine, what comes back
    outcome,  \* what HandleMessage returned, "none" so far
    crashed,  \* a panic has ended the process
    handled   \* history: how the handlers ended, "none" so far

middlewareVars == <<chain, place, phase, result, outcome, crashed, handled>>

Panics == {"panic of an error", "panic"}
Results == {"nil", "error", "timed out"} \cup Panics

MiddlewareInit ==
    /\ chain \in Chains
    /\ place = [t \in Threads |-> t + 1]
    /\ phase = [t \in Threads |-> IF t = 0 THEN "in" ELSE "none"]
    /\ result = [t \in Threads |-> "nil"]
    /\ outcome = "none"
    /\ crashed = FALSE
    /\ handled = "none"

(* The goroutine is on its way in, or out, at a middleware of that kind.   *)
IsAt(t, way, kind) ==
    /\ ~crashed
    /\ phase[t] = way
    /\ place[t] \in (t + 1)..Len(chain)
    /\ chain[place[t]] = kind

GoIn(t) == place' = [place EXCEPT ![t] = @ + 1] /\ UNCHANGED <<phase, result>>
GoOut(t, r) ==
    /\ place' = [place EXCEPT ![t] = @ - 1]
    /\ phase' = [phase EXCEPT ![t] = "out"]
    /\ result' = [result EXCEPT ![t] = r]

Unended == UNCHANGED <<chain, outcome, crashed, handled>>

-----------------------------------------------------------------------------
(* The middlewares                                                         *)

Logging(t) ==
    /\ \/ IsAt(t, "in", "Logging") /\ GoIn(t)
       \/ IsAt(t, "out", "Logging") /\ GoOut(t, result[t])
    /\ Unended

(* A panic is turned into its error, if it carries one, and else into nil. *)
Recovery(t) ==
    /\ \/ IsAt(t, "in", "Recovery") /\ GoIn(t)
       \/ /\ IsAt(t, "out", "Recovery")
          /\ GoOut(t, CASE result[t] = "panic of an error" -> "error"
                        [] result[t] = "panic" -> "nil"
                        [] OTHER -> result[t])
    /\ Unended

(* The predicate decides.                                                  *)
Filter(t) ==
    /\ \/ IsAt(t, "in", "Filter") /\ (GoIn(t) \/ GoOut(t, "nil"))
       \/ IsAt(t, "out", "Filter") /\ GoOut(t, result[t])
    /\ Unended

TimeoutStart(t) ==
    /\ IsAt(t, "in", "Timeout")
    /\ phase' = [phase EXCEPT ![t] = "wait", ![place[t]] = "in"]
    /\ UNCHANGED <<place, result>>
    /\ Unended

(* The goroutine has put its error into done, which has room for it.       *)
TimeoutDone(t) ==
    /\ IsAt(t, "wait", "Timeout")
    /\ phase[place[t]] = "over"
    /\ GoOut(t, result[place[t]])
    /\ Unended

(* The context ends, at any time.                                          *)
TimeoutExpires(t) ==
    /\ IsAt(t, "wait", "Timeout")
    /\ GoOut(t, "timed out")
    /\ Unended

-----------------------------------------------------------------------------
(* The ends                                                                *)

(* dispatchMessage and the handlers; they may also never return.           *)
Handle(t) ==
    /\ ~crashed
    /\ phase[t] = "in"
    /\ place[t] = Len(chain) + 1
    /\ \E r \in {"nil", "error"} \cup Panics : GoOut(t, r) /\ handled' = r
    /\ UNCHANGED <<chain, outcome, crashed>>

(* Mistake: HandleMessage makes a result of a panic.                       *)
Bug_GoroutineEndReturnsPanic(t) ==
    /\ ~crashed
    /\ phase[t] = "out"
    /\ place[t] = t
    /\ phase' = [phase EXCEPT ![t] = "over"]
    /\ crashed' = (t # 0 /\ result[t] \in Panics)
    /\ outcome' = IF t = 0 THEN result[t] ELSE outcome
    /\ UNCHANGED <<chain, place, result, handled>>

(* A goroutine ends: the one of a timeout, or HandleMessage.  Nothing      *)
(* recovers from a panic that is left.                                     *)
GoroutineEnd(t) ==
    /\ ~crashed
    /\ phase[t] = "out"
    /\ place[t] = t
    /\ phase' = [phase EXCEPT ![t] = "over"]
    /\ crashed' = (result[t] \in Panics)
    /\ outcome' = IF t = 0 /\ ~crashed' THEN result[t] ELSE outcome
    /\ UNCHANGED <<chain, place, result, handled>>

MiddlewareStep(t) ==
    \/ Logging(t) \/ Recovery(t) \/ Filter(t)
    \/ TimeoutStart(t) \/ TimeoutDone(t) \/ TimeoutExpires(t) \/ GoroutineEnd(t)

MiddlewareNext == \E t \in Threads : MiddlewareStep(t) \/ Handle(t)

MiddlewareSpec == MiddlewareInit /\ [][MiddlewareNext]_middlewareVars

-----------------------------------------------------------------------------
(* Properties                                                              *)

(* Every variable holds a value the code can give it; only middlewares     *)
(* with a timeout have a goroutine.                                        *)
MiddlewareTypeOK ==
    /\ chain \in Chains
    /\ place \in [Threads -> 0..MaxChain + 1]
    /\ phase \in [Threads -> {"none", "in", "wait", "out", "over"}]
    /\ result \in [Threads -> Results]
    /\ outcome \in (Results \ Panics) \cup {"none"}
    /\ crashed \in BOOLEAN
    /\ handled \in Results \cup {"none"}
    /\ \A t \in Threads \ {0} :
        phase[t] # "none" => t <= Len(chain) /\ chain[t] = "Timeout"

(* A handler that panics takes the process with it unless a Recovery is in *)
(* the chain inside every Timeout: one outside does not help, not even     *)
(* while HandleMessage is still waiting.                                   *)
Guarded ==
    \E k \in DOMAIN chain : chain[k] = "Recovery" /\ \A j \in k..Len(chain) : chain[j] # "Timeout"
PanicsAreCaught ==
    /\ crashed => handled \in Panics /\ ~Guarded
    /\ handled \in Panics /\ outcome \notin {"none", "timed out"} => Guarded

(* HandleMessage keeps an error to itself only when the handlers ended in  *)
(* a panic without an error, or a filter has let nothing through.          *)
ErrorsComeBack ==
    outcome = "nil" =>
        \/ handled \in {"nil", "panic"}
        \/ handled = "none" /\ \E k \in DOMAIN chain : chain[k] = "Filter"

(* With a Timeout in the chain the dispatch is over some time, whatever    *)
(* the handlers do, and the registry's lock is free again.                 *)
TimeoutAnswers ==
    (\E k \in DOMAIN chain : chain[k] = "Timeout") ~> (outcome # "none" \/ crashed)

(* Whatever the chain, what the handlers end with reaches its one place:   *)
(* the caller, a Recovery that can catch it, or the end of the process.    *)
OutcomesComeBack == MiddlewareTypeOK /\ PanicsAreCaught /\ ErrorsComeBack
=============================================================================
