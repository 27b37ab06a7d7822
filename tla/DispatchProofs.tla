---------------------------- MODULE DispatchProofs ----------------------------
(***************************************************************************)
(* Proofs about the dispatch of messages and events to the handlers, for   *)
(* every value of the constants:                                           *)
(*                                                                         *)
(*   Middleware        what the handlers end with reaches its one place    *)
(*   EventHandlers     a call runs the handlers there were when it began   *)
(*   MessageDispatch   so does a dispatch, while it holds the read lock,   *)
(*                     and no handler that was cleared is called           *)
(***************************************************************************)
EXTENDS MCMessageDispatch, FiniteSetTheorems, TLAPS

-----------------------------------------------------------------------------
(* Middleware.  One goroutine at a time is on its way in; the others wait, *)
(* or have timed out.  A panic is on its way out only in the goroutine     *)
(* that ran the handlers, so it passes no Timeout and meets the Recoveries *)
(* from the handlers outwards.                                             *)

Ended(t) == phase[t] \in {"out", "over"}

ChainTypeOK ==
    /\ place \in [Threads -> 0..MaxChain + 1]
    /\ phase \in [Threads -> {"none", "in", "wait", "out", "over"}]
    /\ result \in [Threads -> Results]
    /\ outcome \in (Results \ Panics) \cup {"none"}
    /\ crashed \in BOOLEAN
    /\ handled \in Results \cup {"none"}

PlacesOK ==
    \A t \in Threads :
        /\ phase[t] = "none" => place[t] = t + 1
        /\ phase[t] = "in" => place[t] \in t + 1..Len(chain) + 1
        /\ phase[t] = "wait" => place[t] \in t + 1..Len(chain) /\ chain[place[t]] = "Timeout"
        /\ phase[t] = "out" => place[t] \in t..Len(chain)
        /\ phase[t] = "over" => place[t] = t
        /\ phase[t] # "none" /\ t # 0 => t <= Len(chain) /\ chain[t] = "Timeout"

(* The goroutine on its way in has passed no Timeout, those it may yet     *)
(* start do not exist, and no other has a result of the handlers.          *)
WayIn ==
    \A t \in Threads : phase[t] = "in" =>
        /\ \A j \in t + 1..place[t] - 1 : chain[j] # "Timeout"
        /\ \A u \in Threads : u >= place[t] => phase[u] = "none"
        /\ \A u \in Threads : phase[u] = "in" => u = t
        /\ handled = "none"
        /\ \A u \in Threads : Ended(u) => result[u] = "timed out"

WayOut ==
    \A t \in Threads : Ended(t) =>
        /\ result[t] \in Panics =>
            /\ handled = result[t]
            /\ \A j \in t + 1..Len(chain) : chain[j] # "Timeout"
            /\ \A j \in place[t] + 1..Len(chain) : chain[j] # "Recovery"
            /\ phase[t] = "over" => crashed
        /\ result[t] \in {"nil", "error"} /\ handled \in Panics => Guarded
        /\ result[t] = "nil" =>
            \/ handled \in {"nil", "panic"}
            \/ handled = "none" /\ \E k \in DOMAIN chain : chain[k] = "Filter"

EndOK ==
    /\ crashed => handled \in Panics /\ ~Guarded
    /\ outcome # "none" => phase[0] = "over" /\ result[0] = outcome

MiddlewareInv ==
    /\ chain \in Chains /\ ChainTypeOK /\ PlacesOK /\ WayIn /\ WayOut /\ EndOK

LEMMA ChainFacts ==
    ASSUME chain \in Chains
    PROVE  /\ Len(chain) \in 0..MaxChain /\ DOMAIN chain = 1..Len(chain)
           /\ \A j \in 1..Len(chain) : chain[j] \in Kinds
<1>1. PICK n \in 0..MaxChain : chain \in [1..n -> Kinds]
  BY DEF Chains
<1>2. n \in Nat /\ chain \in Seq(Kinds) /\ DOMAIN chain = 1..n /\ Len(chain) = n
  BY <1>1, MiddlewareAssumption
<1> QED  BY <1>1, <1>2

LEMMA MiddlewareInitInv == MiddlewareInit => MiddlewareInv
<1> SUFFICES ASSUME MiddlewareInit PROVE MiddlewareInv
  OBVIOUS
<1> USE DEF MiddlewareInit, Threads
<1>1. chain \in Chains /\ Len(chain) \in 0..MaxChain
  BY ChainFacts
<1>2. ChainTypeOK
  <2>1. place \in [Threads -> 0..MaxChain + 1]
    BY MiddlewareAssumption
  <2>2. phase \in [Threads -> {"none", "in", "wait", "out", "over"}]
    OBVIOUS
  <2>3. result \in [Threads -> Results]
    BY DEF Results
  <2> QED  BY <2>1, <2>2, <2>3 DEF ChainTypeOK
<1>3. PlacesOK
  BY <1>1 DEF PlacesOK
<1>4. WayIn /\ WayOut /\ EndOK
  <2>1. \A t \in Threads : ~Ended(t)
    BY DEF Ended
  <2> QED  BY <1>1, <2>1, MiddlewareAssumption DEF WayIn, WayOut, EndOK
<1> QED  BY <1>1, <1>2, <1>3, <1>4 DEF MiddlewareInv

LEMMA GoInNext ==
    ASSUME MiddlewareInv, NEW t \in Threads, phase[t] = "in", place[t] \in t + 1..Len(chain),
           chain[place[t]] # "Timeout", GoIn(t), Unended
    PROVE  MiddlewareInv'
<1> USE DEF MiddlewareInv, GoIn, Unended
<1>1. /\ Len(chain) \in Nat /\ Len(chain) <= MaxChain /\ t \in Nat /\ MaxChain \in Nat
      /\ UNCHANGED <<chain, phase, result, outcome, crashed, handled>>
  BY ChainFacts, MiddlewareAssumption DEF Threads
<1>2. /\ place'[t] = place[t] + 1 /\ \A u \in Threads \ {t} : place'[u] = place[u]
      /\ place[t] \in Nat
  BY DEF ChainTypeOK
<1>3. ChainTypeOK'
  <2>1. place[t] + 1 \in 0..MaxChain + 1
    BY <1>1, <1>2
  <2>2. place' \in [Threads -> 0..MaxChain + 1]
    BY <2>1 DEF ChainTypeOK
  <2>3. crashed' \in BOOLEAN
    BY <1>1 DEF ChainTypeOK
  <2> QED  BY <1>1, <2>2, <2>3 DEF ChainTypeOK
<1>4. PlacesOK'
  BY SMTT(30), <1>1, <1>2 DEF PlacesOK
<1>5. WayIn'
  <2>1. \A u \in Threads : phase[u] = "in" => u = t
    BY DEF WayIn
  <2>2. \A j \in t + 1..place'[t] - 1 : j \in t + 1..place[t] - 1 \/ j = place[t]
    BY <1>1, <1>2
  <2>3. \A u \in Threads : u >= place'[t] => u >= place[t]
    BY <1>1, <1>2 DEF Threads
  <2>4. \A u \in Threads : Ended(u)' <=> Ended(u)
    BY <1>1 DEF Ended
  <2> QED  BY ZenonT(30), <1>1, <2>1, <2>2, <2>3, <2>4 DEF WayIn
<1>6. WayOut'
  <2>1. \A u \in Threads : Ended(u)' => Ended(u) /\ u # t /\ place'[u] = place[u]
    BY <1>1, <1>2 DEF Ended
  <2>2. Guarded' = Guarded
    BY <1>1 DEF Guarded
  <2> QED  BY <1>1, <2>1, <2>2 DEF WayOut
<1>7. EndOK'
  BY <1>1 DEF EndOK, Guarded
<1> QED  BY <1>1, <1>3, <1>4, <1>5, <1>6, <1>7

(* With what a goroutine may come back from its middleware, or from the    *)
(* handlers.                                                               *)
MayComeBack(t, r) ==
    /\ phase[t] \in {"in", "wait", "out"}
    /\ place[t] \in t + 1..Len(chain) + 1
    /\ ~crashed
    /\ UNCHANGED <<chain, outcome, crashed>>
    /\ (handled' = handled \/ (phase[t] = "in" /\ handled' \in Results))
    /\ \A u \in Threads : u # t /\ phase[u] = "in" => r = "timed out"
    /\ r \in Panics =>
        /\ handled' = r
        /\ \A j \in t + 1..Len(chain) : chain[j] # "Timeout"
        /\ \A j \in place[t]..Len(chain) : chain[j] # "Recovery"
    /\ r \in {"nil", "error"} /\ handled' \in Panics => Guarded
    /\ r = "nil" =>
        \/ handled' \in {"nil", "panic"}
        \/ handled' = "none" /\ \E k \in DOMAIN chain : chain[k] = "Filter"

LEMMA GoOutNext ==
    ASSUME MiddlewareInv, NEW t \in Threads, NEW r \in Results, MayComeBack(t, r), GoOut(t, r)
    PROVE  MiddlewareInv'
<1> USE DEF MiddlewareInv
<1>1. Len(chain) \in Nat /\ Len(chain) <= MaxChain /\ t \in Nat /\ MaxChain \in Nat
  BY ChainFacts, MiddlewareAssumption DEF Threads
<1>2. /\ place[t] \in t + 1..Len(chain) + 1 /\ phase[t] \in {"in", "wait", "out"}
      /\ place' = [place EXCEPT ![t] = @ - 1]
      /\ phase' = [phase EXCEPT ![t] = "out"]
      /\ result' = [result EXCEPT ![t] = r]
  BY DEF MayComeBack, GoOut
<1>3. /\ UNCHANGED <<chain, outcome, crashed>> /\ ~crashed
      /\ (handled' = handled \/ (phase[t] = "in" /\ handled' \in Results))
      /\ \A u \in Threads : u # t /\ phase[u] = "in" => r = "timed out"
  BY DEF MayComeBack
<1>4. /\ r \in Panics =>
          /\ handled' = r
          /\ \A j \in t + 1..Len(chain) : chain[j] # "Timeout"
          /\ \A j \in place[t]..Len(chain) : chain[j] # "Recovery"
      /\ r \in {"nil", "error"} /\ handled' \in Panics => Guarded
      /\ r = "nil" =>
          \/ handled' \in {"nil", "panic"}
          \/ handled' = "none" /\ \E k \in DOMAIN chain : chain[k] = "Filter"
  BY DEF MayComeBack
<1>5. /\ place'[t] = place[t] - 1 /\ \A u \in Threads \ {t} : place'[u] = place[u]
      /\ phase'[t] = "out" /\ \A u \in Threads \ {t} : phase'[u] = phase[u]
      /\ result'[t] = r /\ \A u \in Threads \ {t} : result'[u] = result[u]
      /\ place[t] \in Nat
  BY <1>1, <1>2 DEF ChainTypeOK
<1>6. ChainTypeOK'
  <2>1. place[t] - 1 \in 0..MaxChain + 1
    BY <1>1, <1>2, <1>5
  <2>2. /\ place' \in [Threads -> 0..MaxChain + 1]
        /\ phase' \in [Threads -> {"none", "in", "wait", "out", "over"}]
        /\ result' \in [Threads -> Results]
    BY <1>2, <2>1 DEF ChainTypeOK
  <2>3. outcome' \in (Results \ Panics) \cup {"none"} /\ crashed' \in BOOLEAN
    BY <1>3 DEF ChainTypeOK
  <2>4. handled' \in Results \cup {"none"}
    BY <1>3 DEF ChainTypeOK
  <2> QED  BY <2>2, <2>3, <2>4 DEF ChainTypeOK
<1>7. PlacesOK'
  <2>1. place'[t] \in t..Len(chain)
    BY <1>1, <1>2, <1>5
  <2>2. t # 0 => t <= Len(chain) /\ chain[t] = "Timeout"
    BY <1>2 DEF PlacesOK
  <2> SUFFICES ASSUME NEW u \in Threads
               PROVE  /\ phase'[u] = "none" => place'[u] = u + 1
                      /\ phase'[u] = "in" => place'[u] \in u + 1..Len(chain) + 1
                      /\ phase'[u] = "wait" =>
                          place'[u] \in u + 1..Len(chain) /\ chain[place'[u]] = "Timeout"
                      /\ phase'[u] = "out" => place'[u] \in u..Len(chain)
                      /\ phase'[u] = "over" => place'[u] = u
                      /\ phase'[u] # "none" /\ u # 0 => u <= Len(chain) /\ chain[u] = "Timeout"
    BY <1>3 DEF PlacesOK
  <2>3. CASE u = t
    BY <1>5, <2>1, <2>2, <2>3
  <2>4. CASE u # t
    <3>1. place'[u] = place[u] /\ phase'[u] = phase[u]
      BY <1>5, <2>4
    <3> QED  BY <3>1 DEF PlacesOK
  <2> QED  BY <2>3, <2>4
<1>8. WayIn'
  <2> SUFFICES ASSUME NEW u \in Threads, phase'[u] = "in"
               PROVE  /\ \A j \in u + 1..place'[u] - 1 : chain'[j] # "Timeout"
                      /\ \A v \in Threads : v >= place'[u] => phase'[v] = "none"
                      /\ \A v \in Threads : phase'[v] = "in" => v = u
                      /\ handled' = "none"
                      /\ \A v \in Threads : Ended(v)' => result'[v] = "timed out"
    BY DEF WayIn
  <2>1. u # t /\ phase[u] = "in"
    BY <1>5
  <2>2. /\ \A j \in u + 1..place[u] - 1 : chain[j] # "Timeout"
        /\ \A v \in Threads : v >= place[u] => phase[v] = "none"
        /\ \A v \in Threads : phase[v] = "in" => v = u
        /\ handled = "none"
        /\ \A v \in Threads : Ended(v) => result[v] = "timed out"
    BY <2>1 DEF WayIn
  <2>3. handled' = "none" /\ r = "timed out"
    BY <1>3, <2>1, <2>2
  <2>4. \A v \in Threads : v >= place'[u] => phase'[v] = "none"
    BY <1>2, <1>5, <2>1, <2>2
  <2>5. \A v \in Threads : Ended(v)' => result'[v] = "timed out"
    BY <1>5, <2>2, <2>3 DEF Ended
  <2>6. \A j \in u + 1..place'[u] - 1 : chain'[j] # "Timeout"
    BY <1>3, <1>5, <2>1, <2>2
  <2>7. \A v \in Threads : phase'[v] = "in" => v = u
    BY <1>5, <2>2
  <2> QED  BY <2>3, <2>4, <2>5, <2>6, <2>7
<1>9. Guarded' = Guarded
  BY <1>3 DEF Guarded
<1>10. WayOut'
  <2> SUFFICES ASSUME NEW u \in Threads, Ended(u)'
               PROVE  /\ result'[u] \in Panics =>
                          /\ handled' = result'[u]
                          /\ \A j \in u + 1..Len(chain') : chain'[j] # "Timeout"
                          /\ \A j \in place'[u] + 1..Len(chain') : chain'[j] # "Recovery"
                          /\ phase'[u] = "over" => crashed'
                      /\ result'[u] \in {"nil", "error"} /\ handled' \in Panics => Guarded'
                      /\ result'[u] = "nil" =>
                          \/ handled' \in {"nil", "panic"}
                          \/ handled' = "none" /\ \E k \in DOMAIN chain' : chain'[k] = "Filter"
    BY DEF WayOut
  <2>1. CASE u = t
    <3>1. place'[t] + 1 = place[t]
      BY <1>1, <1>5
    <3> QED  BY <1>3, <1>4, <1>5, <1>9, <2>1, <3>1
  <2>2. CASE u # t /\ handled' = handled
    <3>1. Ended(u) /\ result'[u] = result[u] /\ place'[u] = place[u] /\ phase'[u] = phase[u]
      BY <1>5, <2>2 DEF Ended
    <3> QED  BY <1>3, <1>9, <2>2, <3>1 DEF WayOut
  <2>3. CASE u # t /\ handled' # handled
    <3>1. Ended(u) /\ result'[u] = result[u]
      BY <1>5, <2>3 DEF Ended
    <3>2. result[u] = "timed out"
      BY <1>3, <2>3, <3>1 DEF WayIn
    <3> QED  BY <3>1, <3>2 DEF Panics
  <2> QED  BY <2>1, <2>2, <2>3
<1>11. EndOK'
  <2>1. ~crashed' /\ outcome' = outcome
    BY <1>3
  <2>2. outcome # "none" => phase[0] = "over" /\ result[0] = outcome /\ t # 0
    BY <1>2 DEF EndOK
  <2>3. outcome # "none" => phase'[0] = "over" /\ result'[0] = outcome
    BY <1>1, <1>5, <2>2 DEF Threads
  <2> QED  BY <2>1, <2>3 DEF EndOK
<1> QED  BY <1>3, <1>6, <1>7, <1>8, <1>10, <1>11

LEMMA TimeoutStartNext ==
    ASSUME MiddlewareInv, NEW t \in Threads, TimeoutStart(t)
    PROVE  MiddlewareInv'
<1> USE DEF MiddlewareInv
<1>1. Len(chain) \in Nat /\ Len(chain) <= MaxChain /\ t \in Nat /\ MaxChain \in Nat
  BY ChainFacts, MiddlewareAssumption DEF Threads
<1>2. PICK p \in t + 1..Len(chain) : p = place[t] /\ chain[p] = "Timeout"
  BY DEF TimeoutStart, IsAt
<1>3. /\ phase[t] = "in" /\ ~crashed
      /\ phase' = [phase EXCEPT ![t] = "wait", ![p] = "in"]
      /\ UNCHANGED <<chain, place, result, outcome, crashed, handled>>
  BY <1>2 DEF TimeoutStart, IsAt, Unended
<1>4. p \in Threads /\ p > t /\ p # 0 /\ p <= Len(chain) /\ p \in Nat /\ p >= p
  BY <1>1, <1>2 DEF Threads
<1>5. /\ \A v \in Threads : v >= p => phase[v] = "none"
      /\ \A v \in Threads : phase[v] = "in" => v = t
      /\ handled = "none"
      /\ \A v \in Threads : Ended(v) => result[v] = "timed out"
  BY <1>2, <1>3 DEF WayIn
<1>6. phase[p] = "none" /\ place[p] = p + 1
  BY <1>4, <1>5 DEF PlacesOK
<1>7. phase' \in [Threads -> {"none", "in", "wait", "out", "over"}]
  BY <1>3, <1>4 DEF ChainTypeOK
<1>8. /\ phase'[t] = "wait" /\ phase'[p] = "in"
      /\ \A u \in Threads : u # t /\ u # p => phase'[u] = phase[u]
  BY <1>3, <1>4 DEF ChainTypeOK
<1>9. ChainTypeOK'
  <2>1. crashed' \in BOOLEAN
    BY <1>3 DEF ChainTypeOK
  <2> QED  BY <1>3, <1>7, <2>1 DEF ChainTypeOK
<1>10. PlacesOK'
  <2> SUFFICES ASSUME NEW u \in Threads
               PROVE  /\ phase'[u] = "none" => place[u] = u + 1
                      /\ phase'[u] = "in" => place[u] \in u + 1..Len(chain) + 1
                      /\ phase'[u] = "wait" =>
                          place[u] \in u + 1..Len(chain) /\ chain[place[u]] = "Timeout"
                      /\ phase'[u] = "out" => place[u] \in u..Len(chain)
                      /\ phase'[u] = "over" => place[u] = u
                      /\ phase'[u] # "none" /\ u # 0 => u <= Len(chain) /\ chain[u] = "Timeout"
    BY <1>3 DEF PlacesOK
  <2>1. CASE u = t
    <3>1. t # 0 => t <= Len(chain) /\ chain[t] = "Timeout"
      BY <1>3 DEF PlacesOK
    <3> QED  BY <1>2, <1>8, <2>1, <3>1
  <2>2. CASE u = p
    BY <1>1, <1>2, <1>4, <1>6, <1>8, <2>2
  <2>3. CASE u # t /\ u # p
    <3>1. phase'[u] = phase[u]
      BY <1>8, <2>3
    <3> QED  BY <3>1 DEF PlacesOK
  <2> QED  BY <2>1, <2>2, <2>3
<1>11. \A u \in Threads : Ended(u)' <=> Ended(u)
  BY <1>3, <1>6, <1>8 DEF Ended
<1>12. WayIn'
  <2> SUFFICES ASSUME NEW u \in Threads, phase'[u] = "in"
               PROVE  /\ \A j \in u + 1..place[u] - 1 : chain[j] # "Timeout"
                      /\ \A v \in Threads : v >= place[u] => phase'[v] = "none"
                      /\ \A v \in Threads : phase'[v] = "in" => v = u
                      /\ handled = "none"
                      /\ \A v \in Threads : Ended(v)' => result[v] = "timed out"
    BY ZenonT(30), <1>3 DEF WayIn
  <2>1. \A v \in Threads : phase'[v] = "in" => v = p
    BY <1>5, <1>8
  <2>2. u = p
    BY <2>1
  <2>3. \A v \in Threads : v >= p + 1 => phase'[v] = "none"
    <3> SUFFICES ASSUME NEW v \in Threads, v >= p + 1 PROVE phase'[v] = "none"
      OBVIOUS
    <3>1. v >= p /\ v # p /\ v # t
      BY <1>1, <1>4 DEF Threads
    <3> QED  BY <1>5, <1>8, <3>1
  <2>4. \A j \in p + 1..(p + 1) - 1 : FALSE
    BY <1>4
  <2> QED  BY <1>5, <1>6, <1>11, <2>1, <2>2, <2>3, <2>4
<1>13. Guarded' = Guarded
  BY <1>3 DEF Guarded
<1>14. \A u \in Threads : Ended(u) => phase'[u] = phase[u]
  BY <1>3, <1>6, <1>8 DEF Ended
<1>15. WayOut'
  BY <1>3, <1>11, <1>13, <1>14 DEF WayOut
<1>16. EndOK'
  <2>1. 0 \in Threads
    BY <1>1 DEF Threads
  <2>2. phase[0] = "over" => phase'[0] = "over"
    BY <1>14, <2>1 DEF Ended
  <2> QED  BY <1>3, <1>13, <2>2 DEF EndOK
<1> QED  BY <1>3, <1>9, <1>10, <1>12, <1>15, <1>16

LEMMA GoroutineEndNext ==
    ASSUME MiddlewareInv, NEW t \in Threads, GoroutineEnd(t)
    PROVE  MiddlewareInv'
<1> USE DEF MiddlewareInv
<1>1. /\ Len(chain) \in Nat /\ Len(chain) <= MaxChain /\ t \in Nat /\ MaxChain \in Nat
      /\ DOMAIN chain = 1..Len(chain)
  BY ChainFacts, MiddlewareAssumption DEF Threads
<1>2. /\ ~crashed /\ phase[t] = "out" /\ place[t] = t
      /\ phase' = [phase EXCEPT ![t] = "over"]
      /\ crashed' = (result[t] \in Panics)
      /\ outcome' = IF t = 0 /\ ~crashed' THEN result[t] ELSE outcome
      /\ UNCHANGED <<chain, place, result, handled>>
  BY DEF GoroutineEnd
<1>3. /\ phase'[t] = "over" /\ \A u \in Threads : u # t => phase'[u] = phase[u]
      /\ phase' \in [Threads -> {"none", "in", "wait", "out", "over"}]
  BY <1>2 DEF ChainTypeOK
<1>4. /\ result[t] \in Panics =>
          /\ handled = result[t]
          /\ \A j \in t + 1..Len(chain) : chain[j] # "Timeout"
          /\ \A j \in t + 1..Len(chain) : chain[j] # "Recovery"
      /\ t # 0 => t <= Len(chain) /\ chain[t] = "Timeout"
  BY <1>2 DEF WayOut, PlacesOK, Ended
<1>5. ChainTypeOK'
  <2>1. crashed' \in BOOLEAN
    BY <1>2
  <2>2. result[t] \in Results
    BY DEF ChainTypeOK
  <2>3. outcome' \in (Results \ Panics) \cup {"none"}
    BY <1>2, <2>2 DEF ChainTypeOK
  <2> QED  BY <1>2, <1>3, <2>1, <2>3 DEF ChainTypeOK
<1>6. PlacesOK'
  <2> SUFFICES ASSUME NEW u \in Threads
               PROVE  /\ phase'[u] = "none" => place[u] = u + 1
                      /\ phase'[u] = "in" => place[u] \in u + 1..Len(chain) + 1
                      /\ phase'[u] = "wait" =>
                          place[u] \in u + 1..Len(chain) /\ chain[place[u]] = "Timeout"
                      /\ phase'[u] = "out" => place[u] \in u..Len(chain)
                      /\ phase'[u] = "over" => place[u] = u
                      /\ phase'[u] # "none" /\ u # 0 => u <= Len(chain) /\ chain[u] = "Timeout"
    BY <1>2 DEF PlacesOK
  <2>1. CASE u = t
    BY <1>2, <1>3, <1>4, <2>1
  <2>2. CASE u # t
    <3>1. phase'[u] = phase[u]
      BY <1>3, <2>2
    <3> QED  BY <3>1 DEF PlacesOK
  <2> QED  BY <2>1, <2>2
<1>7. \A u \in Threads : Ended(u)' <=> Ended(u)
  BY <1>2, <1>3 DEF Ended
<1>8. WayIn'
  <2> SUFFICES ASSUME NEW u \in Threads, phase'[u] = "in"
               PROVE  /\ \A j \in u + 1..place[u] - 1 : chain[j] # "Timeout"
                      /\ \A v \in Threads : v >= place[u] => phase'[v] = "none"
                      /\ \A v \in Threads : phase'[v] = "in" => v = u
                      /\ handled = "none"
                      /\ \A v \in Threads : Ended(v)' => result[v] = "timed out"
    BY ZenonT(30), <1>2 DEF WayIn
  <2>1. phase[u] = "in"
    BY <1>3
  <2>2. /\ \A j \in u + 1..place[u] - 1 : chain[j] # "Timeout"
        /\ \A v \in Threads : v >= place[u] => phase[v] = "none"
        /\ \A v \in Threads : phase[v] = "in" => v = u
        /\ handled = "none"
        /\ \A v \in Threads : Ended(v) => result[v] = "timed out"
    BY <2>1 DEF WayIn
  <2>3. \A v \in Threads : phase'[v] = "in" => phase[v] = "in"
    BY <1>3
  <2>4. \A v \in Threads : phase[v] = "none" => phase'[v] = "none"
    BY <1>2, <1>3
  <2> QED  BY <1>7, <2>2, <2>3, <2>4
<1>9. Guarded' = Guarded
  BY <1>2 DEF Guarded
<1>10. WayOut'
  <2> SUFFICES ASSUME NEW u \in Threads, Ended(u)'
               PROVE  /\ result[u] \in Panics =>
                          /\ handled = result[u]
                          /\ \A j \in u + 1..Len(chain) : chain[j] # "Timeout"
                          /\ \A j \in place[u] + 1..Len(chain) : chain[j] # "Recovery"
                          /\ phase'[u] = "over" => crashed'
                      /\ result[u] \in {"nil", "error"} /\ handled \in Panics => Guarded
                      /\ result[u] = "nil" =>
                          \/ handled \in {"nil", "panic"}
                          \/ handled = "none" /\ \E k \in DOMAIN chain : chain[k] = "Filter"
    BY <1>2, <1>9 DEF WayOut
  <2>1. Ended(u)
    BY <1>7
  <2>2. result[u] \in Panics /\ phase'[u] = "over" => crashed'
    <3>1. CASE u = t
      BY <1>2, <3>1
    <3>2. CASE u # t
      BY <1>2, <1>3, <2>1, <3>2 DEF WayOut
    <3> QED  BY <3>1, <3>2
  <2> QED  BY <2>1, <2>2 DEF WayOut
<1>11. EndOK'
  <2>1. crashed' => handled \in Panics /\ ~Guarded
    <3> SUFFICES ASSUME crashed' PROVE handled \in Panics /\ ~Guarded
      OBVIOUS
    <3>1. result[t] \in Panics
      BY <1>2
    <3>2. SUFFICES ASSUME NEW k \in DOMAIN chain, chain[k] = "Recovery",
                          \A j \in k..Len(chain) : chain[j] # "Timeout"
                   PROVE  FALSE
      BY <1>4, <3>1 DEF Guarded
    <3>3. k <= t /\ t # 0
      BY <1>1, <1>4, <3>1, <3>2
    <3> QED  BY <1>1, <1>4, <3>2, <3>3
  <2>2. outcome' # "none" => phase'[0] = "over" /\ result[0] = outcome'
    <3>1. outcome # "none" => phase[0] = "over" /\ result[0] = outcome /\ t # 0
      BY <1>2 DEF EndOK
    <3>2. 0 \in Threads
      BY <1>1 DEF Threads
    <3> QED  BY <1>2, <1>3, <3>1, <3>2
  <2> QED  BY <1>2, <1>9, <2>1, <2>2 DEF EndOK
<1> QED  BY <1>2, <1>5, <1>6, <1>8, <1>10, <1>11

(* What a goroutine is left with on its way out.                           *)
LEMMA EndedFacts ==
    ASSUME MiddlewareInv, NEW t \in Threads, Ended(t)
    PROVE  /\ result[t] \in Results
           /\ \A u \in Threads : phase[u] = "in" => result[t] = "timed out"
           /\ result[t] \in Panics =>
               /\ handled = result[t]
               /\ \A j \in t + 1..Len(chain) : chain[j] # "Timeout"
               /\ \A j \in place[t] + 1..Len(chain) : chain[j] # "Recovery"
               /\ phase[t] = "over" => crashed
           /\ result[t] \in {"nil", "error"} /\ handled \in Panics => Guarded
           /\ result[t] = "nil" =>
               \/ handled \in {"nil", "panic"}
               \/ handled = "none" /\ \E k \in DOMAIN chain : chain[k] = "Filter"
BY DEF MiddlewareInv, WayIn, WayOut, ChainTypeOK

LEMMA AtFacts ==
    ASSUME MiddlewareInv, NEW t \in Threads, NEW way, NEW kind, IsAt(t, way, kind)
    PROVE  /\ place[t] \in t + 1..Len(chain) + 1 /\ place[t] \in DOMAIN chain
           /\ place[t] \in Threads
           /\ \A j \in place[t]..Len(chain) :
               j \in t + 1..Len(chain) /\ (j = place[t] \/ j \in place[t] + 1..Len(chain))
<1>1. place[t] \in t + 1..Len(chain)
  BY DEF IsAt
<1>2. /\ Len(chain) \in Nat /\ Len(chain) <= MaxChain /\ MaxChain \in Nat /\ t \in Nat
      /\ DOMAIN chain = 1..Len(chain)
  BY ChainFacts, MiddlewareAssumption DEF MiddlewareInv, Threads
<1> QED  BY <1>1, <1>2 DEF Threads

(* A middleware that lets what comes out through.                          *)
LEMMA PassesOn ==
    ASSUME MiddlewareInv, NEW t \in Threads, NEW kind \in {"Logging", "Filter"},
           IsAt(t, "out", kind), Unended
    PROVE  result[t] \in Results /\ MayComeBack(t, result[t])
<1>1. Ended(t) /\ place[t] \in t + 1..Len(chain) /\ chain[place[t]] # "Recovery" /\ ~crashed
  BY DEF Ended, IsAt
<1>3. \A j \in place[t]..Len(chain) : j = place[t] \/ j \in place[t] + 1..Len(chain)
  BY AtFacts, Zenon
<1>4. /\ \A u \in Threads : phase[u] = "in" => result[t] = "timed out"
      /\ result[t] \in Panics =>
          /\ handled = result[t]
          /\ \A j \in t + 1..Len(chain) : chain[j] # "Timeout"
          /\ \A j \in place[t] + 1..Len(chain) : chain[j] # "Recovery"
      /\ result[t] \in {"nil", "error"} /\ handled \in Panics => Guarded
      /\ result[t] = "nil" =>
          \/ handled \in {"nil", "panic"}
          \/ handled = "none" /\ \E k \in DOMAIN chain : chain[k] = "Filter"
      /\ result[t] \in Results
  BY <1>1, EndedFacts
<1>5. result[t] \in Panics => \A j \in place[t]..Len(chain) : chain[j] # "Recovery"
  BY <1>1, <1>3, <1>4
<1>6. place[t] \in t + 1..Len(chain) + 1
  BY AtFacts, Zenon
<1>7. UNCHANGED <<chain, outcome, crashed>> /\ handled' = handled
  BY DEF Unended
<1>8. phase[t] = "out"
  BY DEF IsAt
<1>9. MayComeBack(t, result[t])
  BY <1>1, <1>4, <1>5, <1>6, <1>7, <1>8 DEF MayComeBack
<1> QED  BY <1>4, <1>9

LEMMA Recovers ==
    ASSUME MiddlewareInv, NEW t \in Threads, NEW r, IsAt(t, "out", "Recovery"), Unended,
           result[t] = "panic of an error" => r = "error",
           result[t] = "panic" => r = "nil",
           result[t] \notin Panics => r = result[t]
    PROVE  r \in Results /\ MayComeBack(t, r)
<1>1. Ended(t) /\ place[t] \in t + 1..Len(chain) /\ chain[place[t]] = "Recovery" /\ ~crashed
      /\ phase[t] = "out"
  BY DEF Ended, IsAt
<1>2. /\ place[t] \in t + 1..Len(chain) + 1 /\ place[t] \in DOMAIN chain
      /\ \A j \in place[t]..Len(chain) : j \in t + 1..Len(chain)
  BY AtFacts, Zenon
<1>3. UNCHANGED <<chain, outcome, crashed>> /\ handled' = handled
  BY DEF Unended
<1>4. /\ \A u \in Threads : phase[u] = "in" => result[t] = "timed out"
      /\ result[t] \in Panics =>
          handled = result[t] /\ \A j \in t + 1..Len(chain) : chain[j] # "Timeout"
      /\ result[t] \in {"nil", "error"} /\ handled \in Panics => Guarded
      /\ result[t] = "nil" =>
          \/ handled \in {"nil", "panic"}
          \/ handled = "none" /\ \E k \in DOMAIN chain : chain[k] = "Filter"
      /\ result[t] \in Results
  BY <1>1, EndedFacts
<1>5. /\ r \in Results \ Panics
      /\ result[t] \notin Panics => r = result[t]
      /\ r = "nil" => result[t] \in {"nil", "panic"}
      /\ result[t] # "timed out" <=> r # "timed out"
  BY <1>4 DEF Results, Panics
<1>6. result[t] \in Panics => Guarded
  <2> SUFFICES ASSUME result[t] \in Panics PROVE Guarded
    OBVIOUS
  <2> QED  BY <1>1, <1>2, <1>4, Zenon DEF Guarded
<1>8. r \in {"nil", "error"} /\ handled' \in Panics => Guarded
  BY <1>3, <1>4, <1>5, <1>6
<1>9. r = "nil" =>
          \/ handled' \in {"nil", "panic"}
          \/ handled' = "none" /\ \E k \in DOMAIN chain : chain[k] = "Filter"
  BY <1>3, <1>4, <1>5 DEF Panics
<1>10. MayComeBack(t, r)
  BY <1>1, <1>2, <1>3, <1>4, <1>5, <1>8, <1>9 DEF MayComeBack
<1> QED  BY <1>5, <1>10

LEMMA FiltersOut ==
    ASSUME MiddlewareInv, NEW t \in Threads, IsAt(t, "in", "Filter"), Unended
    PROVE  "nil" \in Results /\ MayComeBack(t, "nil")
<1>1. place[t] \in t + 1..Len(chain) /\ chain[place[t]] = "Filter" /\ ~crashed /\ phase[t] = "in"
  BY DEF IsAt
<1>3. UNCHANGED <<chain, outcome, crashed>> /\ handled' = handled
  BY DEF Unended
<1>4. handled = "none" /\ \A u \in Threads : phase[u] = "in" => u = t
  BY <1>1 DEF MiddlewareInv, WayIn
<1>5. place[t] \in t + 1..Len(chain) + 1 /\ place[t] \in DOMAIN chain
  BY AtFacts, Zenon
<1>6. "nil" \in Results /\ "nil" \notin Panics /\ "none" \notin Panics
  BY DEF Results, Panics
<1>7. MayComeBack(t, "nil")
  BY <1>1, <1>3, <1>4, <1>5, <1>6 DEF MayComeBack
<1> QED  BY <1>6, <1>7

LEMMA TakesResult ==
    ASSUME MiddlewareInv, NEW t \in Threads, IsAt(t, "wait", "Timeout"), Unended,
           phase[place[t]] = "over"
    PROVE  result[place[t]] \in Results /\ MayComeBack(t, result[place[t]])
<1>1. /\ place[t] \in t + 1..Len(chain) /\ ~crashed /\ phase[t] = "wait"
      /\ UNCHANGED <<chain, outcome, crashed>> /\ handled' = handled
  BY DEF IsAt, Unended
<1>3. PICK p \in Threads : p = place[t]
  BY AtFacts, Zenon
<1>4. Ended(p)
  BY <1>1, <1>3 DEF Ended
<1>5. /\ result[p] \in Results /\ result[p] \notin Panics
      /\ \A u \in Threads : phase[u] = "in" => result[p] = "timed out"
      /\ result[p] \in {"nil", "error"} /\ handled \in Panics => Guarded
      /\ result[p] = "nil" =>
          \/ handled \in {"nil", "panic"}
          \/ handled = "none" /\ \E k \in DOMAIN chain : chain[k] = "Filter"
  BY <1>1, <1>3, <1>4, EndedFacts
<1>6. place[t] \in t + 1..Len(chain) + 1
  BY AtFacts, Zenon
<1>7. MayComeBack(t, result[p])
  BY <1>1, <1>3, <1>5, <1>6 DEF MayComeBack
<1> QED  BY <1>3, <1>5, <1>7, Zenon

LEMMA GivesUp ==
    ASSUME MiddlewareInv, NEW t \in Threads, IsAt(t, "wait", "Timeout"), Unended
    PROVE  "timed out" \in Results /\ MayComeBack(t, "timed out")
<1>1. /\ place[t] \in t + 1..Len(chain) /\ ~crashed /\ phase[t] = "wait"
      /\ UNCHANGED <<chain, outcome, crashed>> /\ handled' = handled
  BY DEF IsAt, Unended
<1>3. place[t] \in t + 1..Len(chain) + 1
  BY AtFacts, Zenon
<1>4. "timed out" \in Results \ Panics
  BY DEF Results, Panics
<1>5. MayComeBack(t, "timed out")
  BY <1>1, <1>3, <1>4 DEF MayComeBack
<1> QED  BY <1>4, <1>5

LEMMA HandlersReturn ==
    ASSUME MiddlewareInv, NEW t \in Threads, NEW r \in {"nil", "error"} \cup Panics,
           ~crashed, phase[t] = "in", place[t] = Len(chain) + 1,
           UNCHANGED <<chain, outcome, crashed>>, handled' = r
    PROVE  r \in Results /\ MayComeBack(t, r)
<1>2. /\ ~crashed /\ phase[t] = "in" /\ place[t] = Len(chain) + 1
      /\ UNCHANGED <<chain, outcome, crashed>> /\ handled' = r
  OBVIOUS
<1>3. Len(chain) \in Nat /\ t \in Nat /\ Len(chain) <= MaxChain /\ MaxChain \in Nat
  BY ChainFacts, MiddlewareAssumption DEF MiddlewareInv, Threads
<1>4. /\ \A j \in t + 1..place[t] - 1 : chain[j] # "Timeout"
      /\ \A u \in Threads : phase[u] = "in" => u = t
  BY <1>2 DEF MiddlewareInv, WayIn
<1>5. place[t] \in t + 1..Len(chain) + 1
  BY <1>2 DEF MiddlewareInv, PlacesOK
<1>6. /\ \A j \in t + 1..Len(chain) : chain[j] # "Timeout"
      /\ \A j \in place[t]..Len(chain) : FALSE
  <2>1. place[t] - 1 = Len(chain)
    BY <1>2, <1>3
  <2> QED  BY <1>2, <1>3, <1>4, <2>1
<1>7. r \in Results /\ (r \in {"nil", "error"} => r \notin Panics)
  BY DEF Results, Panics
<1>8. MayComeBack(t, r)
  BY <1>2, <1>4, <1>5, <1>6, <1>7 DEF MayComeBack
<1> QED  BY <1>7, <1>8

LEMMA MiddlewareNextInv ==
    MiddlewareInv /\ [MiddlewareNext]_middlewareVars => MiddlewareInv'
<1> SUFFICES ASSUME MiddlewareInv, [MiddlewareNext]_middlewareVars PROVE MiddlewareInv'
  OBVIOUS
<1>1. CASE UNCHANGED middlewareVars
  <2>1. UNCHANGED <<chain, place, phase, result, outcome, crashed, handled>>
    BY <1>1 DEF middlewareVars
  <2>2. (chain \in Chains)' /\ ChainTypeOK' /\ PlacesOK'
    BY <2>1 DEF MiddlewareInv, ChainTypeOK, PlacesOK
  <2>3. \A t \in Threads : Ended(t)' <=> Ended(t)
    BY <2>1 DEF Ended
  <2>4. Guarded' = Guarded
    BY <2>1 DEF Guarded
  <2>5. WayIn'
    BY <2>1, <2>3 DEF MiddlewareInv, WayIn
  <2>6. WayOut' /\ EndOK'
    BY <2>1, <2>3, <2>4 DEF MiddlewareInv, WayOut, EndOK
  <2> QED  BY <2>2, <2>5, <2>6 DEF MiddlewareInv
<1>2. ASSUME NEW t \in Threads, MiddlewareStep(t) \/ Handle(t) PROVE MiddlewareInv'
  <2>1. ASSUME NEW kind, kind # "Timeout", IsAt(t, "in", kind), GoIn(t), Unended
        PROVE  MiddlewareInv'
    BY <2>1, GoInNext DEF IsAt
  <2>2. CASE Logging(t)
    BY <2>1, <2>2, PassesOn, GoOutNext, Zenon DEF Logging
  <2>3. CASE Recovery(t)
    <3>1. CASE IsAt(t, "in", "Recovery") /\ GoIn(t) /\ Unended
      BY <2>1, <3>1, Zenon
    <3>2. ASSUME NEW r, IsAt(t, "out", "Recovery"), GoOut(t, r), Unended,
                 r = CASE result[t] = "panic of an error" -> "error"
                       [] result[t] = "panic" -> "nil"
                       [] OTHER -> result[t]
          PROVE  MiddlewareInv'
      <4>1. /\ result[t] = "panic of an error" => r = "error"
            /\ result[t] = "panic" => r = "nil"
            /\ result[t] \notin Panics => r = result[t]
        BY <3>2, Zenon DEF Panics
      <4> QED  BY <3>2, <4>1, Recovers, GoOutNext, Zenon
    <3> QED  BY <2>3, <3>1, <3>2, Zenon DEF Recovery
  <2>4. CASE Filter(t)
    BY <2>1, <2>4, PassesOn, FiltersOut, GoOutNext, Zenon DEF Filter
  <2>5. CASE TimeoutDone(t)
    BY <2>5, TakesResult, GoOutNext, Zenon DEF TimeoutDone
  <2>6. CASE TimeoutExpires(t)
    BY <2>6, GivesUp, GoOutNext, Zenon DEF TimeoutExpires
  <2>7. CASE Handle(t)
    BY <2>7, HandlersReturn, GoOutNext, Zenon DEF Handle
  <2>8. CASE TimeoutStart(t) \/ GoroutineEnd(t)
    BY <2>8, TimeoutStartNext, GoroutineEndNext, Zenon
  <2> QED  BY <1>2, <2>2, <2>3, <2>4, <2>5, <2>6, <2>7, <2>8, Zenon DEF MiddlewareStep
<1> QED  BY <1>1, <1>2 DEF MiddlewareNext

LEMMA OutcomesKept == MiddlewareInv => OutcomesComeBack
<1> SUFFICES ASSUME MiddlewareInv PROVE OutcomesComeBack
  OBVIOUS
<1>1. 0 \in Threads
  BY MiddlewareAssumption DEF Threads
<1>2. MiddlewareTypeOK
  BY DEF MiddlewareInv, ChainTypeOK, PlacesOK, MiddlewareTypeOK
<1>3. outcome # "none" => Ended(0) /\ result[0] = outcome
  BY DEF MiddlewareInv, EndOK, Ended
<1>4. PanicsAreCaught
  <2>1. outcome \notin {"none", "timed out"} => outcome \in {"nil", "error"}
    BY DEF MiddlewareInv, ChainTypeOK, Results, Panics
  <2> QED  BY <1>1, <1>3, <2>1, EndedFacts DEF MiddlewareInv, EndOK, PanicsAreCaught
<1>5. ErrorsComeBack
  BY <1>1, <1>3, EndedFacts DEF ErrorsComeBack
<1> QED  BY <1>2, <1>4, <1>5 DEF OutcomesComeBack

(* What the handlers end with reaches its one place, whatever the chain of *)
(* middlewares: the caller, a Recovery inside every Timeout, or the end of *)
(* the process.                                                            *)
THEOREM OutcomesBack == MiddlewareSpec => []OutcomesComeBack
<1>1. MiddlewareSpec => []MiddlewareInv
  BY MiddlewareInitInv, MiddlewareNextInv, PTL DEF MiddlewareSpec
<1> QED  BY <1>1, OutcomesKept, PTL

-----------------------------------------------------------------------------
(* Sequences                                                               *)

LEMMA AppendFacts ==
    ASSUME NEW S, NEW s \in Seq(S), NEW x \in S
    PROVE  /\ Append(s, x) \in Seq(S) /\ Len(s) \in Nat
           /\ Len(Append(s, x)) = Len(s) + 1
           /\ \A k \in 1..Len(s) : Append(s, x)[k] = s[k]
           /\ Append(s, x)[Len(s) + 1] = x
OBVIOUS

LEMMA TailFacts ==
    ASSUME NEW S, NEW s \in Seq(S), s # <<>>
    PROVE  /\ Len(s) \in Nat /\ Len(s) >= 1 /\ Head(s) = s[1] /\ Head(s) \in S
           /\ Tail(s) \in Seq(S) /\ Len(Tail(s)) = Len(s) - 1
           /\ \A k \in 1..Len(s) - 1 : Tail(s)[k] = s[k + 1]
OBVIOUS

LEMMA SameSequence ==
    ASSUME NEW S, NEW s \in Seq(S), NEW z \in Seq(S), Len(s) = Len(z),
           \A k \in 1..Len(s) : s[k] = z[k]
    PROVE  s = z
OBVIOUS

LEMMA PrefixByPlaces ==
    ASSUME NEW S, NEW s \in Seq(S), NEW z \in Seq(S), Len(s) <= Len(z),
           \A k \in 1..Len(s) : s[k] = z[k]
    PROVE  IsPrefix(s, z)
<1>1. Len(s) \in Nat /\ Len(z) \in Nat
  OBVIOUS
<1>2. SubSeq(s, 1, Len(s)) \in Seq(S) /\ Len(SubSeq(s, 1, Len(s))) = Len(s)
  BY <1>1
<1>3. SubSeq(z, 1, Len(s)) \in Seq(S) /\ Len(SubSeq(z, 1, Len(s))) = Len(s)
  BY <1>1
<1>4. \A k \in 1..Len(s) : SubSeq(s, 1, Len(s))[k] = s[k] /\ SubSeq(z, 1, Len(s))[k] = z[k]
  BY <1>1
<1>5. SubSeq(s, 1, Len(s)) = SubSeq(z, 1, Len(s))
  BY <1>1, <1>2, <1>3, <1>4, SameSequence
<1> QED  BY <1>5 DEF IsPrefix

LEMMA PlacesOfPrefix ==
    ASSUME NEW S, NEW s \in Seq(S), NEW z \in Seq(S), IsPrefix(s, z)
    PROVE  Len(s) <= Len(z) /\ \A k \in 1..Len(s) : s[k] = z[k]
<1>1. /\ Len(s) \in Nat /\ Len(z) \in Nat /\ Len(s) <= Len(z)
      /\ SubSeq(s, 1, Len(s)) = SubSeq(z, 1, Len(s))
  BY DEF IsPrefix
<1>2. \A k \in 1..Len(s) : SubSeq(s, 1, Len(s))[k] = s[k] /\ SubSeq(z, 1, Len(s))[k] = z[k]
  BY <1>1
<1> QED  BY <1>1, <1>2

LEMMA PrefixTransitive ==
    ASSUME NEW S, NEW s \in Seq(S), NEW z \in Seq(S), NEW w \in Seq(S),
           IsPrefix(s, z), IsPrefix(z, w)
    PROVE  IsPrefix(s, w)
<1>1. Len(s) \in Nat /\ Len(z) \in Nat /\ Len(w) \in Nat
  OBVIOUS
<1>2. /\ Len(s) <= Len(z) /\ \A k \in 1..Len(s) : s[k] = z[k]
      /\ Len(z) <= Len(w) /\ \A k \in 1..Len(z) : z[k] = w[k]
  BY PlacesOfPrefix
<1>3. Len(s) <= Len(w) /\ \A k \in 1..Len(s) : s[k] = w[k]
  BY <1>1, <1>2
<1> QED  BY <1>3, PrefixByPlaces

LEMMA ConcatFacts ==
    ASSUME NEW S, NEW s \in Seq(S), NEW z \in Seq(S)
    PROVE  /\ s \o z \in Seq(S) /\ Len(s \o z) = Len(s) + Len(z)
           /\ Len(s) \in Nat /\ Len(z) \in Nat
           /\ \A k \in 1..Len(s) : (s \o z)[k] = s[k]
           /\ \A k \in 1..Len(z) : (s \o z)[Len(s) + k] = z[k]
           /\ s \o <<>> = s /\ <<>> \o s = s
OBVIOUS

LEMMA PrefixOfConcat ==
    ASSUME NEW S, NEW s \in Seq(S), NEW z \in Seq(S)
    PROVE  IsPrefix(s, s \o z)
<1>1. PICK w \in Seq(S) : w = s \o z
  BY ConcatFacts
<1>2. Len(s) <= Len(w) /\ \A k \in 1..Len(s) : s[k] = w[k]
  BY <1>1, ConcatFacts
<1>3. IsPrefix(s, w)
  BY <1>2, PrefixByPlaces
<1> QED  BY <1>1, <1>3

(* Moving the head of what is left to the end of what is done.             *)
LEMMA MoveHead ==
    ASSUME NEW S, NEW s \in Seq(S), NEW z \in Seq(S), z # <<>>
    PROVE  /\ Append(s, Head(z)) \in Seq(S) /\ Tail(z) \in Seq(S)
           /\ Append(s, Head(z)) \o Tail(z) = s \o z
<1>1. PICK n \in Nat, k \in Nat : n = Len(s) /\ k + 1 = Len(z)
  <2>1. Len(s) \in Nat /\ Len(z) \in Nat /\ Len(z) >= 1
    BY TailFacts
  <2>2. Len(z) - 1 \in Nat /\ (Len(z) - 1) + 1 = Len(z)
    BY <2>1
  <2> QED  BY <2>1, <2>2
<1>2. PICK s2 \in Seq(S) : s2 = Append(s, Head(z))
  BY TailFacts, AppendFacts
<1>3. PICK z2 \in Seq(S) : z2 = Tail(z)
  BY TailFacts
<1>4. /\ Len(s2) = n + 1 /\ s2[n + 1] = z[1] /\ \A i \in 1..n : s2[i] = s[i]
      /\ Len(z2) = k /\ \A i \in 1..k : z2[i] = z[i + 1]
  <2>1. Head(z) \in S /\ Head(z) = z[1]
    BY TailFacts
  <2>2. /\ Len(s2) = n + 1 /\ s2[n + 1] = z[1] /\ \A i \in 1..n : s2[i] = s[i]
    BY <1>1, <1>2, <2>1, AppendFacts
  <2>3. (k + 1) - 1 = k
    OBVIOUS
  <2>4. Len(z2) = k /\ \A i \in 1..k : z2[i] = z[i + 1]
    BY <1>1, <1>3, <2>3, TailFacts
  <2> QED  BY <2>2, <2>4
<1>5. PICK w \in Seq(S) : w = s \o z
  BY ConcatFacts
<1>6. PICK w2 \in Seq(S) : w2 = s2 \o z2
  BY ConcatFacts
<1>7. /\ Len(w) = n + (k + 1) /\ \A i \in 1..n : w[i] = s[i]
      /\ \A i \in 1..k + 1 : w[n + i] = z[i]
  <2>1. /\ Len(w) = Len(s) + Len(z) /\ \A i \in 1..Len(s) : w[i] = s[i]
        /\ \A i \in 1..Len(z) : w[Len(s) + i] = z[i]
    BY <1>5, ConcatFacts
  <2> QED  BY <1>1, <2>1
<1>8. /\ Len(w2) = (n + 1) + k /\ \A i \in 1..n + 1 : w2[i] = s2[i]
      /\ \A i \in 1..k : w2[(n + 1) + i] = z2[i]
  <2>1. /\ Len(w2) = Len(s2) + Len(z2) /\ \A i \in 1..Len(s2) : w2[i] = s2[i]
        /\ \A i \in 1..Len(z2) : w2[Len(s2) + i] = z2[i]
    BY SMTT(30), <1>6, ConcatFacts
  <2> QED  BY <1>4, <2>1
<1>9. ASSUME NEW i \in 1..Len(w) PROVE w[i] = w2[i]
  <2>1. CASE i \in 1..n
    <3>1. i \in 1..n + 1
      BY <2>1
    <3> QED  BY <1>4, <1>7, <1>8, <2>1, <3>1
  <2>2. CASE i = n + 1
    <3>1. 1 \in 1..k + 1 /\ n + 1 \in 1..n + 1
      OBVIOUS
    <3> QED  BY <1>4, <1>7, <1>8, <2>2, <3>1
  <2>3. CASE i > n + 1
    <3>1. PICK j \in 1..k : i = (n + 1) + j /\ i = n + (j + 1) /\ j + 1 \in 1..k + 1
      <4>1. i \in Nat /\ i <= n + (k + 1)
        BY <1>7
      <4>2. i - (n + 1) \in 1..k
        BY <2>3, <4>1
      <4>3. i = (n + 1) + (i - (n + 1)) /\ i = n + ((i - (n + 1)) + 1)
            /\ (i - (n + 1)) + 1 \in 1..k + 1
        BY <2>3, <4>1
      <4> QED  BY <4>2, <4>3
    <3>2. w[i] = z[j + 1]
      BY <1>7, <3>1
    <3>3. w2[i] = z2[j]
      BY <1>8, <3>1
    <3> QED  BY <1>4, <3>2, <3>3
  <2>4. i \in 1..n \/ i = n + 1 \/ i > n + 1
    BY <1>7
  <2> QED  BY <2>1, <2>2, <2>3, <2>4
<1>10. Len(w) = Len(w2)
  BY <1>7, <1>8
<1>11. w = w2
  BY <1>9, <1>10, SameSequence
<1> QED  BY <1>2, <1>3, <1>5, <1>6, <1>11

LEMMA ToSetFacts ==
    ASSUME NEW S, NEW s \in Seq(S)
    PROVE  /\ ToSet(s) \subseteq S
           /\ \A k \in 1..Len(s) : s[k] \in ToSet(s)
           /\ \A x : x \in ToSet(s) => \E k \in 1..Len(s) : x = s[k]
<1>1. DOMAIN s = 1..Len(s) /\ \A k \in 1..Len(s) : s[k] \in S
  OBVIOUS
<1> QED  BY <1>1 DEF ToSet

LEMMA ToSetAppend ==
    ASSUME NEW S, NEW s \in Seq(S), NEW x \in S
    PROVE  ToSet(Append(s, x)) = ToSet(s) \cup {x}
<1>1. PICK w \in Seq(S) : w = Append(s, x)
  BY AppendFacts
<1>2. Len(s) \in Nat /\ Len(w) = Len(s) + 1 /\ w[Len(s) + 1] = x
      /\ \A k \in 1..Len(s) : w[k] = s[k]
  BY <1>1, AppendFacts
<1>3. \A k \in 1..Len(w) : k \in 1..Len(s) \/ k = Len(s) + 1
  BY <1>2
<1>4. (\A k \in 1..Len(s) : k \in 1..Len(w)) /\ Len(s) + 1 \in 1..Len(w)
  BY <1>2
<1>5. ToSet(w) \subseteq ToSet(s) \cup {x}
  BY <1>2, <1>3, ToSetFacts
<1>6. ToSet(s) \cup {x} \subseteq ToSet(w)
  BY <1>2, <1>4, ToSetFacts
<1> QED  BY <1>1, <1>5, <1>6

LEMMA ToSetConcat ==
    ASSUME NEW S, NEW s \in Seq(S), NEW z \in Seq(S)
    PROVE  ToSet(s \o z) = ToSet(s) \cup ToSet(z)
<1>1. PICK w \in Seq(S) : w = s \o z
  BY ConcatFacts
<1>2. /\ Len(s) \in Nat /\ Len(z) \in Nat /\ Len(w) = Len(s) + Len(z)
      /\ \A k \in 1..Len(s) : w[k] = s[k]
      /\ \A k \in 1..Len(z) : w[Len(s) + k] = z[k]
  BY <1>1, ConcatFacts
<1>3. \A k \in 1..Len(w) : k \in 1..Len(s) \/ \E j \in 1..Len(z) : k = Len(s) + j
  <2> SUFFICES ASSUME NEW k \in 1..Len(w), k \notin 1..Len(s)
               PROVE  \E j \in 1..Len(z) : k = Len(s) + j
    OBVIOUS
  <2>1. k - Len(s) \in 1..Len(z) /\ k = Len(s) + (k - Len(s))
    BY <1>2
  <2> QED  BY <2>1
<1>4. /\ \A k \in 1..Len(s) : k \in 1..Len(w)
      /\ \A k \in 1..Len(z) : Len(s) + k \in 1..Len(w)
  BY <1>2
<1>5. ToSet(w) \subseteq ToSet(s) \cup ToSet(z)
  <2> SUFFICES ASSUME NEW x \in ToSet(w) PROVE x \in ToSet(s) \cup ToSet(z)
    OBVIOUS
  <2>1. PICK k \in 1..Len(w) : x = w[k]
    BY ToSetFacts
  <2>2. CASE k \in 1..Len(s)
    BY <1>2, <2>1, <2>2, ToSetFacts
  <2>3. ASSUME NEW j \in 1..Len(z), k = Len(s) + j PROVE x \in ToSet(z)
    BY <1>2, <2>1, <2>3, ToSetFacts
  <2> QED  BY <1>3, <2>2, <2>3
<1>6. ToSet(s) \cup ToSet(z) \subseteq ToSet(w)
  <2>1. ASSUME NEW k \in 1..Len(s) PROVE s[k] \in ToSet(w)
    <3>1. w[k] \in ToSet(w)
      BY <1>4, ToSetFacts
    <3> QED  BY <1>2, <3>1
  <2>2. ASSUME NEW k \in 1..Len(z) PROVE z[k] \in ToSet(w)
    <3>1. w[Len(s) + k] \in ToSet(w)
      BY <1>4, ToSetFacts
    <3> QED  BY <1>2, <3>1
  <2>3. ToSet(s) \subseteq ToSet(w)
    BY <2>1, ToSetFacts
  <2>4. ToSet(z) \subseteq ToSet(w)
    BY <2>2, ToSetFacts
  <2> QED  BY <2>3, <2>4
<1> QED  BY <1>1, <1>5, <1>6

-----------------------------------------------------------------------------
(* EventHandlers.  What a call has run and what it has yet to run is what  *)
(* it found.                                                               *)

Increasing(s) == \A i, j \in 1..Len(s) : i < j => s[i] < s[j]

EventListsOK ==
    /\ registered \in Nat
    /\ eventHandlers \in [EventTypes -> Seq(Nat)]
    /\ \A t \in EventTypes :
        /\ Increasing(eventHandlers[t])
        /\ \A i \in 1..Len(eventHandlers[t]) : eventHandlers[t][i] <= registered

EventCallsTypeOK ==
    /\ eventOf \in [EventCalls -> EventTypes \cup {NoEvent}]
    /\ todo \in [EventCalls -> Seq(Nat)]
    /\ asked \in [EventCalls -> Seq(Nat)]
    /\ called \in [EventCalls -> Seq(Nat)]
    /\ answer \in [EventCalls -> {"none", "nil", "error"}]

CallGoes(ev, left, found, run, ans) ==
    /\ Increasing(found)
    /\ ev = NoEvent => run = <<>> /\ ans = "none"
    /\ Len(run) <= Len(found)
    /\ \A i \in 1..Len(run) : run[i] = found[i]
    /\ ev # NoEvent /\ ans # "error" =>
        /\ Len(run) + Len(left) = Len(found)
        /\ \A i \in 1..Len(left) : left[i] = found[Len(run) + i]
    /\ ans = "nil" => run = found

CallsGo == \A c \in EventCalls : CallGoes(eventOf[c], todo[c], asked[c], called[c], answer[c])

EventHandlersInv == EventListsOK /\ EventCallsTypeOK /\ CallsGo

LEMMA RunsTheNext ==
    ASSUME NEW ev, NEW left \in Seq(Nat), NEW found \in Seq(Nat), NEW run \in Seq(Nat),
           CallGoes(ev, left, found, run, "none"), ev # NoEvent, left # <<>>
    PROVE  /\ Append(run, Head(left)) \in Seq(Nat) /\ Tail(left) \in Seq(Nat)
           /\ CallGoes(ev, Tail(left), found, Append(run, Head(left)), "none")
           /\ CallGoes(ev, left, found, Append(run, Head(left)), "error")
<1>1. PICK n \in Nat : n = Len(run)
  OBVIOUS
<1>2. PICK r2 \in Seq(Nat) : r2 = Append(run, Head(left))
  BY TailFacts, AppendFacts
<1>3. PICK l2 \in Seq(Nat) : l2 = Tail(left)
  BY TailFacts
<1>4. /\ Len(r2) = n + 1 /\ r2[n + 1] = left[1] /\ \A i \in 1..n : r2[i] = run[i]
  BY <1>1, <1>2, AppendFacts, TailFacts
<1>5. /\ Len(left) \in Nat /\ Len(left) >= 1 /\ Len(l2) = Len(left) - 1
      /\ \A i \in 1..Len(left) - 1 : l2[i] = left[i + 1]
  BY <1>3, TailFacts
<1>6. /\ Increasing(found) /\ n <= Len(found) /\ \A i \in 1..n : run[i] = found[i]
      /\ n + Len(left) = Len(found)
      /\ \A i \in 1..Len(left) : left[i] = found[n + i]
  BY <1>1 DEF CallGoes
<1>7. /\ Len(r2) <= Len(found) /\ left[1] = found[n + 1] /\ Len(r2) + Len(l2) = Len(found)
  <2>1. 1 \in 1..Len(left) /\ Len(left) - 1 \in Nat /\ Len(found) \in Nat
    BY <1>5
  <2>2. left[1] = found[n + 1]
    BY <1>6, <2>1
  <2>3. PICK k \in Nat : k = Len(left)
    BY <1>5
  <2>4. k >= 1 /\ Len(l2) = k - 1 /\ Len(found) = n + k /\ Len(r2) = n + 1
    BY <1>4, <1>5, <1>6, <2>3
  <2>5. n + 1 <= n + k /\ (n + 1) + (k - 1) = n + k
    BY <2>4
  <2> QED  BY <2>2, <2>4, <2>5
<1>8. \A i \in 1..Len(r2) : r2[i] = found[i]
  <2>1. \A i \in 1..n + 1 : i \in 1..n \/ i = n + 1
    OBVIOUS
  <2> QED  BY <1>4, <1>6, <1>7, <2>1
<1>9. \A i \in 1..Len(l2) : l2[i] = found[Len(r2) + i]
  <2> SUFFICES ASSUME NEW i \in 1..Len(l2) PROVE l2[i] = found[Len(r2) + i]
    OBVIOUS
  <2>1. i \in 1..Len(left) - 1 /\ i + 1 \in 1..Len(left) /\ n + (i + 1) = Len(r2) + i
    BY <1>4, <1>5
  <2>2. l2[i] = left[i + 1]
    BY <1>5, <2>1
  <2>3. left[i + 1] = found[n + (i + 1)]
    BY <1>6, <2>1
  <2> QED  BY <2>1, <2>2, <2>3
<1>10. CallGoes(ev, l2, found, r2, "none") /\ CallGoes(ev, left, found, r2, "error")
  BY <1>6, <1>7, <1>8, <1>9 DEF CallGoes
<1> QED  BY <1>2, <1>3, <1>10

LEMMA EventHandlersInitInv == EventHandlersInit => EventHandlersInv
BY DEF EventHandlersInit, EventHandlersInv, EventListsOK, EventCallsTypeOK, CallsGo, CallGoes,
       Increasing

LEMMA EventHandlersNextInv ==
    EventHandlersInv /\ [EventHandlersNext]_eventHandlersVars => EventHandlersInv'
<1> SUFFICES ASSUME EventHandlersInv, [EventHandlersNext]_eventHandlersVars
             PROVE  EventHandlersInv'
  OBVIOUS
<1> USE DEF EventHandlersInv
<1>1. CASE UNCHANGED eventHandlersVars
  BY <1>1 DEF eventHandlersVars, eventCallVars, EventListsOK, EventCallsTypeOK, CallsGo
<1>2. ASSUME NEW t \in EventTypes, OnEvent(t) PROVE EventHandlersInv'
  <2>1. UNCHANGED <<eventOf, todo, asked, called, answer>> /\ registered' = registered + 1
    BY <1>2 DEF OnEvent, eventCallVars
  <2>2. EventCallsTypeOK' /\ CallsGo'
    BY <2>1 DEF EventCallsTypeOK, CallsGo
  <2>3. PICK old \in Seq(Nat) : old = eventHandlers[t]
    BY DEF EventListsOK
  <2>4. PICK n \in Nat : n = registered + 1 /\ registered \in Nat
    BY DEF EventListsOK
  <2>5. PICK new \in Seq(Nat) : new = Append(old, n)
    BY <2>3, <2>4, AppendFacts
  <2>6. Increasing(new) /\ \A i \in 1..Len(new) : new[i] <= n
    <3>1. /\ Len(new) = Len(old) + 1 /\ Len(old) \in Nat /\ new[Len(old) + 1] = n
          /\ \A i \in 1..Len(old) : new[i] = old[i]
      BY <2>5, AppendFacts
    <3>2. \A i \in 1..Len(old) + 1 : i \in 1..Len(old) \/ i = Len(old) + 1
      BY <3>1
    <3>3. /\ \A i \in 1..Len(old) : old[i] \in Nat /\ old[i] <= registered
          /\ \A i, j \in 1..Len(old) : i < j => old[i] < old[j]
      BY <2>3 DEF EventListsOK, Increasing
    <3>4. \A i \in 1..Len(old) : old[i] < n
      BY <2>4, <3>3
    <3>5. ASSUME NEW i \in 1..Len(new) PROVE new[i] <= n
      <4>1. CASE i = Len(old) + 1
        BY <3>1, <4>1
      <4>2. CASE i \in 1..Len(old)
        <5>1. old[i] \in Nat /\ old[i] < n /\ new[i] = old[i]
          BY <3>1, <3>3, <3>4, <4>2
        <5> QED  BY <5>1
      <4> QED  BY <3>1, <3>2, <4>1, <4>2
    <3>6. ASSUME NEW i \in 1..Len(new), NEW j \in 1..Len(new), i < j PROVE new[i] < new[j]
      <4>1. i \in 1..Len(old)
        BY <3>1, <3>6
      <4>2. CASE j = Len(old) + 1
        BY <3>1, <3>4, <4>1, <4>2
      <4>3. CASE j \in 1..Len(old)
        BY <3>1, <3>3, <3>6, <4>1, <4>3
      <4> QED  BY <3>1, <3>2, <4>2, <4>3
    <3> QED  BY <3>5, <3>6 DEF Increasing
  <2>7. eventHandlers' = [eventHandlers EXCEPT ![t] = new]
    BY <1>2, <2>1, <2>3, <2>4, <2>5 DEF OnEvent
  <2>8. EventListsOK'
    <3>1. eventHandlers' \in [EventTypes -> Seq(Nat)]
      BY <2>7 DEF EventListsOK
    <3>2. ASSUME NEW u \in EventTypes
          PROVE  /\ Increasing(eventHandlers'[u])
                 /\ \A i \in 1..Len(eventHandlers'[u]) : eventHandlers'[u][i] <= n
      <4>1. CASE u = t
        <5>1. eventHandlers'[u] = new
          BY <2>7, <4>1 DEF EventListsOK
        <5> QED  BY <2>6, <5>1
      <4>2. CASE u # t
        <5>1. eventHandlers'[u] = eventHandlers[u] /\ eventHandlers[u] \in Seq(Nat)
          BY <2>7, <4>2 DEF EventListsOK
        <5>2. \A i \in 1..Len(eventHandlers[u]) :
                eventHandlers[u][i] \in Nat /\ eventHandlers[u][i] <= registered
          BY <5>1 DEF EventListsOK
        <5> QED  BY <2>4, <5>1, <5>2 DEF EventListsOK
      <4> QED  BY <4>1, <4>2
    <3> QED  BY <2>1, <2>4, <3>1, <3>2 DEF EventListsOK, Increasing
  <2> QED  BY <2>2, <2>8
<1>3. CASE ClearEvents
  <2>1. UNCHANGED <<registered, eventOf, todo, asked, called, answer>>
    BY <1>3 DEF ClearEvents, eventCallVars
  <2>2. EventCallsTypeOK' /\ CallsGo'
    BY <2>1 DEF EventCallsTypeOK, CallsGo
  <2>3. eventHandlers' = [t \in EventTypes |-> <<>>]
    BY <1>3 DEF ClearEvents
  <2> QED  BY <2>1, <2>2, <2>3 DEF EventListsOK, Increasing
<1>4. ASSUME NEW c \in EventCalls, UNCHANGED <<eventHandlers, registered>>, EventCallsTypeOK',
             \A d \in EventCalls \ {c} :
               /\ eventOf'[d] = eventOf[d] /\ todo'[d] = todo[d] /\ asked'[d] = asked[d]
               /\ called'[d] = called[d] /\ answer'[d] = answer[d],
             CallGoes(eventOf'[c], todo'[c], asked'[c], called'[c], answer'[c])
      PROVE  EventHandlersInv'
  <2>1. EventListsOK'
    BY <1>4 DEF EventListsOK
  <2>2. CallsGo'
    BY <1>4 DEF CallsGo
  <2> QED  BY <1>4, <2>1, <2>2
<1>5. ASSUME NEW c \in EventCalls, NEW t \in EventTypes, HandleEvent(c, t)
      PROVE  EventHandlersInv'
  <2>1. CallGoes(eventOf[c], todo[c], asked[c], called[c], answer[c])
    BY DEF CallsGo
  <2>2. called[c] = <<>> /\ answer[c] = "none"
    BY <1>5, <2>1 DEF HandleEvent, CallGoes
  <2>3. PICK list \in Seq(Nat) : list = eventHandlers[t] /\ Increasing(list)
    BY DEF EventListsOK
  <2>4. CallGoes(t, list, list, <<>>, "none")
    BY <2>3, EventHandlersAssumption DEF CallGoes
  <2>5. /\ eventOf'[c] = t /\ todo'[c] = list /\ asked'[c] = list /\ called'[c] = <<>>
        /\ answer'[c] = "none"
    BY <1>5, <2>2, <2>3 DEF HandleEvent, EventCallsTypeOK
  <2>6. EventCallsTypeOK'
    BY <1>5, <2>3 DEF HandleEvent, EventCallsTypeOK
  <2>7. \A d \in EventCalls \ {c} :
          /\ eventOf'[d] = eventOf[d] /\ todo'[d] = todo[d] /\ asked'[d] = asked[d]
          /\ called'[d] = called[d] /\ answer'[d] = answer[d]
    BY <1>5 DEF HandleEvent, EventCallsTypeOK
  <2>8. CallGoes(eventOf'[c], todo'[c], asked'[c], called'[c], answer'[c])
    BY <2>4, <2>5
  <2>9. UNCHANGED <<eventHandlers, registered>>
    BY <1>5 DEF HandleEvent
  <2> QED  BY <1>4, <2>6, <2>7, <2>8, <2>9
<1>6. ASSUME NEW c \in EventCalls, RunEventHandler(c) \/ EventHandlerFails(c)
      PROVE  EventHandlersInv'
  <2>1. /\ eventOf[c] # NoEvent /\ answer[c] = "none" /\ todo[c] # <<>>
        /\ called' = [called EXCEPT ![c] = Append(@, Head(todo[c]))]
        /\ UNCHANGED <<eventHandlers, registered, eventOf, asked>>
    BY <1>6 DEF RunEventHandler, EventHandlerFails, Running
  <2>2. todo[c] \in Seq(Nat) /\ asked[c] \in Seq(Nat) /\ called[c] \in Seq(Nat)
    BY DEF EventCallsTypeOK
  <2>3. CallGoes(eventOf[c], todo[c], asked[c], called[c], "none")
    BY <2>1 DEF CallsGo
  <2>4. /\ Append(called[c], Head(todo[c])) \in Seq(Nat) /\ Tail(todo[c]) \in Seq(Nat)
        /\ CallGoes(eventOf[c], Tail(todo[c]), asked[c], Append(called[c], Head(todo[c])), "none")
        /\ CallGoes(eventOf[c], todo[c], asked[c], Append(called[c], Head(todo[c])), "error")
    BY <2>1, <2>2, <2>3, RunsTheNext
  <2>5. /\ called'[c] = Append(called[c], Head(todo[c]))
        /\ \A d \in EventCalls \ {c} : called'[d] = called[d]
        /\ called' \in [EventCalls -> Seq(Nat)]
    BY <2>1, <2>4 DEF EventCallsTypeOK
  <2>6. CASE RunEventHandler(c)
    <3>1. /\ todo'[c] = Tail(todo[c]) /\ answer' = answer
          /\ \A d \in EventCalls \ {c} : todo'[d] = todo[d]
          /\ todo' \in [EventCalls -> Seq(Nat)]
      BY <2>4, <2>6 DEF RunEventHandler, EventCallsTypeOK
    <3>2. EventCallsTypeOK'
      BY <2>1, <2>5, <3>1 DEF EventCallsTypeOK
    <3>3. CallGoes(eventOf'[c], todo'[c], asked'[c], called'[c], answer'[c])
      BY <2>1, <2>4, <2>5, <3>1
    <3> QED  BY <1>4, <2>1, <2>5, <3>1, <3>2, <3>3
  <2>7. CASE EventHandlerFails(c)
    <3>1. /\ answer'[c] = "error" /\ todo' = todo
          /\ \A d \in EventCalls \ {c} : answer'[d] = answer[d]
          /\ answer' \in [EventCalls -> {"none", "nil", "error"}]
      BY <2>7 DEF EventHandlerFails, EventCallsTypeOK
    <3>2. EventCallsTypeOK'
      BY <2>1, <2>5, <3>1 DEF EventCallsTypeOK
    <3>3. CallGoes(eventOf'[c], todo'[c], asked'[c], called'[c], answer'[c])
      BY <2>1, <2>4, <2>5, <3>1
    <3> QED  BY <1>4, <2>1, <2>5, <3>1, <3>2, <3>3
  <2> QED  BY <1>6, <2>6, <2>7
<1>7. ASSUME NEW c \in EventCalls, HandleEventEnd(c)
      PROVE  EventHandlersInv'
  <2>1. /\ eventOf[c] # NoEvent /\ answer[c] = "none" /\ todo[c] = <<>>
        /\ answer' = [answer EXCEPT ![c] = "nil"]
        /\ UNCHANGED <<eventHandlers, registered, eventOf, todo, asked, called>>
    BY <1>7 DEF HandleEventEnd, Running
  <2>2. asked[c] \in Seq(Nat) /\ called[c] \in Seq(Nat)
    BY DEF EventCallsTypeOK
  <2>3. CallGoes(eventOf[c], <<>>, asked[c], called[c], "none")
    BY <2>1 DEF CallsGo
  <2>4. Len(called[c]) = Len(asked[c]) /\ \A i \in 1..Len(called[c]) : called[c][i] = asked[c][i]
    BY <2>1, <2>2, <2>3 DEF CallGoes
  <2>5. called[c] = asked[c]
    BY <2>2, <2>4, SameSequence
  <2>6. CallGoes(eventOf[c], <<>>, asked[c], called[c], "nil")
    BY <2>1, <2>3, <2>5 DEF CallGoes
  <2>7. /\ answer'[c] = "nil" /\ \A d \in EventCalls \ {c} : answer'[d] = answer[d]
        /\ answer' \in [EventCalls -> {"none", "nil", "error"}]
    BY <2>1 DEF EventCallsTypeOK
  <2>8. EventCallsTypeOK'
    BY <2>1, <2>7 DEF EventCallsTypeOK
  <2>9. CallGoes(eventOf'[c], todo'[c], asked'[c], called'[c], answer'[c])
    BY <2>1, <2>6, <2>7
  <2> QED  BY <1>4, <2>1, <2>7, <2>8, <2>9
<1> QED  BY <1>1, <1>2, <1>3, <1>5, <1>6, <1>7 DEF EventHandlersNext

LEMMA EventsKept == EventHandlersInv => EventsRunAsRegistered
<1> SUFFICES ASSUME EventHandlersInv, NEW c \in EventCalls
             PROVE  /\ IsPrefix(called[c], asked[c])
                    /\ \A i, j \in DOMAIN called[c] : i < j => called[c][i] < called[c][j]
                    /\ answer[c] = "nil" => called[c] = asked[c]
  BY DEF EventsRunAsRegistered
<1>1. /\ called[c] \in Seq(Nat) /\ asked[c] \in Seq(Nat)
      /\ CallGoes(eventOf[c], todo[c], asked[c], called[c], answer[c])
  BY DEF EventHandlersInv, EventCallsTypeOK, CallsGo
<1>2. IsPrefix(called[c], asked[c])
  BY <1>1, PrefixByPlaces DEF CallGoes
<1>3. ASSUME NEW i \in DOMAIN called[c], NEW j \in DOMAIN called[c], i < j
      PROVE  called[c][i] < called[c][j]
  <2>1. i \in 1..Len(called[c]) /\ j \in 1..Len(called[c])
    BY <1>1
  <2>2. i \in 1..Len(asked[c]) /\ j \in 1..Len(asked[c])
    BY <1>1, <2>1 DEF CallGoes
  <2> QED  BY <1>1, <1>3, <2>1, <2>2 DEF CallGoes, Increasing
<1> QED  BY <1>1, <1>2, <1>3 DEF CallGoes

(* A call of HandleEvent runs the handlers there were when it began, each  *)
(* once and in their order, whatever is registered or cleared meanwhile.   *)
THEOREM EventsRun == EventHandlersSpec => []EventsRunAsRegistered
<1>1. EventHandlersSpec => []EventHandlersInv
  BY EventHandlersInitInv, EventHandlersNextInv, PTL DEF EventHandlersSpec
<1> QED  BY <1>1, EventsKept, PTL

-----------------------------------------------------------------------------
(* MessageDispatch.  Handlers get numbers that were never in use.  A       *)
(* dispatch goes through the lists that are registered; while it holds the *)
(* read lock nobody registers or clears.                                   *)

Issued == Registered \cup retired
Calls == Registrations \cup [op : {"idle", "Clear", "ClearBus"}]

RegistryOK ==
    /\ onChannel \in [Channels -> Seq(Handlers)]
    /\ onAll \in Seq(Handlers)
    /\ default \in Handlers \cup {NoHandler}
    /\ timeout \in BOOLEAN /\ subscribed \in BOOLEAN /\ closed \in BOOLEAN
    /\ call \in [Callers -> Calls]

NumberingOK ==
    /\ \E n \in 0..MaxHandlers : Issued = 1..n /\ n + Cardinality(Pending) <= MaxHandlers
    /\ Registered \cap retired = {}
    /\ default \notin ToSet(onAll)
    /\ \A ch \in Channels : default \notin ToSet(onChannel[ch])

MessagesTypeOK ==
    /\ dpc \in [Messages -> DispatchPoints]
    /\ rest \in [Messages -> Seq(Handlers)]
    /\ ran \in [Messages -> Seq(Handlers)]
    /\ plan \in [Messages -> Seq(Handlers)]
    /\ readers \subseteq Messages /\ timed \subseteq Messages
    /\ failed \subseteq Messages /\ detached \subseteq Messages

Dispatching(m) == dpc[m] \notin {"none", "spawned", "done"}

(* The handlers that have been come to at a point of dispatchMessage.      *)
DefaultFor(ch) == IF default # NoHandler /\ onChannel[ch] = <<>> THEN <<default>> ELSE <<>>
Stage(m) ==
    CASE dpc[m] = "channel"  -> <<>>
      [] dpc[m] = "wildcard" -> onChannel[ChannelOf[m]]
      [] dpc[m] = "default"  -> onChannel[ChannelOf[m]] \o onAll
      [] OTHER               -> PlanOf(ChannelOf[m])

MessageGoes(m) ==
    /\ m \in detached => Dispatching(m)
    /\ m \in readers <=> Dispatching(m) /\ m \notin detached
    /\ ~Dispatching(m) => rest[m] = <<>> /\ ran[m] = <<>> /\ plan[m] = <<>>
    /\ m \in failed => dpc[m] = "return" /\ rest[m] = <<>>
    /\ m \in readers =>
        /\ plan[m] = PlanOf(ChannelOf[m])
        /\ m \notin failed => ran[m] \o rest[m] = Stage(m)
        /\ m \in failed => IsPrefix(ran[m], plan[m])

MessagesGo == \A m \in Messages : MessageGoes(m)

DispatchInv == RegistryOK /\ NumberingOK /\ MessagesTypeOK /\ MessagesGo

LEMMA RegisteredFacts ==
    \A h : h \in Registered <=> \/ \E ch \in Channels : h \in ToSet(onChannel[ch])
                                \/ h \in ToSet(onAll)
                                \/ h = default /\ h # NoHandler
BY DEF Registered

LEMMA ListFacts ==
    ASSUME RegistryOK, NEW m \in Messages
    PROVE  /\ ChannelOf[m] \in Channels
           /\ onChannel[ChannelOf[m]] \in Seq(Handlers) /\ onAll \in Seq(Handlers)
           /\ onChannel[ChannelOf[m]] \o onAll \in Seq(Handlers)
           /\ DefaultFor(ChannelOf[m]) \in Seq(Handlers)
           /\ PlanOf(ChannelOf[m]) =
                (onChannel[ChannelOf[m]] \o onAll) \o DefaultFor(ChannelOf[m])
           /\ PlanOf(ChannelOf[m]) \in Seq(Handlers)
<1>1. ChannelOf[m] \in Channels
  BY DispatchAssumption
<1>2. PICK on \in Seq(Handlers), all \in Seq(Handlers) : on = onChannel[ChannelOf[m]] /\ all = onAll
  BY <1>1 DEF RegistryOK
<1>3. PICK d \in Seq(Handlers) : d = DefaultFor(ChannelOf[m])
  <2>1. default # NoHandler => <<default>> \in Seq(Handlers)
    BY DEF RegistryOK
  <2>2. <<>> \in Seq(Handlers)
    OBVIOUS
  <2> QED  BY <2>1, <2>2 DEF DefaultFor
<1>4. on \o all \in Seq(Handlers)
  BY ConcatFacts
<1>5. (on \o all) \o d \in Seq(Handlers)
  BY <1>4, ConcatFacts
<1>6. PlanOf(ChannelOf[m]) = (on \o all) \o d
  BY <1>2, <1>3 DEF PlanOf, DefaultFor
<1> QED  BY <1>1, <1>2, <1>3, <1>4, <1>5, <1>6

LEMMA StagePrefix ==
    ASSUME RegistryOK, MessagesTypeOK, NEW m \in Messages
    PROVE  /\ Stage(m) \in Seq(Handlers)
           /\ IsPrefix(Stage(m), PlanOf(ChannelOf[m]))
           /\ ToSet(PlanOf(ChannelOf[m])) \subseteq Registered
<1>1. PICK on \in Seq(Handlers), all \in Seq(Handlers), d \in Seq(Handlers) :
        on = onChannel[ChannelOf[m]] /\ all = onAll /\ d = DefaultFor(ChannelOf[m])
  BY ListFacts
<1>2. PICK both \in Seq(Handlers) : both = on \o all
  BY ConcatFacts
<1>3. PICK p \in Seq(Handlers) : p = PlanOf(ChannelOf[m]) /\ p = both \o d
  BY <1>1, <1>2, ListFacts
<1>4. IsPrefix(both, p) /\ IsPrefix(on, both)
  BY <1>2, <1>3, PrefixOfConcat
<1>5. IsPrefix(on, p)
  BY <1>4, PrefixTransitive
<1>6. <<>> \in Seq(Handlers) /\ p \o <<>> = p /\ <<>> \o p = p
  BY ConcatFacts
<1>7. IsPrefix(<<>>, p) /\ IsPrefix(p, p)
  BY <1>6, PrefixOfConcat
<1>8. Stage(m) \in {<<>>, on, both, p}
  BY <1>1, <1>2, <1>3 DEF Stage
<1>9. ToSet(p) = (ToSet(on) \cup ToSet(all)) \cup ToSet(d)
  <2>1. ToSet(both) = ToSet(on) \cup ToSet(all)
    BY <1>2, ToSetConcat
  <2>2. ToSet(p) = ToSet(both) \cup ToSet(d)
    BY <1>3, ToSetConcat
  <2> QED  BY <2>1, <2>2
<1>10. ToSet(d) \subseteq {default} \ {NoHandler}
  BY <1>1 DEF DefaultFor, ToSet
<1>11. ToSet(on) \cup ToSet(all) \subseteq Registered
  <2>1. PICK ch \in Channels : ch = ChannelOf[m]
    BY ListFacts
  <2>2. ToSet(onChannel[ch]) \subseteq Registered
    BY RegisteredFacts
  <2>3. ToSet(onAll) \subseteq Registered
    BY RegisteredFacts
  <2> QED  BY <1>1, <2>1, <2>2, <2>3
<1>12. ToSet(p) \subseteq Registered
  <2>1. {default} \ {NoHandler} \subseteq Registered
    BY RegisteredFacts
  <2> QED  BY <1>9, <1>10, <1>11, <2>1
<1> QED  BY <1>3, <1>4, <1>5, <1>6, <1>7, <1>8, <1>12

(* While a message holds the read lock, what it has run and the next are   *)
(* at the beginning of its plan, and registered.                           *)
LEMMA ReaderFacts ==
    ASSUME RegistryOK, MessagesTypeOK, NEW m \in Messages, MessageGoes(m), m \in readers
    PROVE  /\ IsPrefix(ran[m], plan[m])
           /\ rest[m] # <<>> =>
               /\ IsPrefix(Append(ran[m], Head(rest[m])), plan[m])
               /\ Head(rest[m]) \in Registered
<1>1. PICK r \in Seq(Handlers), z \in Seq(Handlers), p \in Seq(Handlers) :
        r = ran[m] /\ z = rest[m] /\ p = plan[m]
  BY DEF MessagesTypeOK
<1>2. p = PlanOf(ChannelOf[m])
  BY <1>1 DEF MessageGoes
<1>3. CASE m \in failed
  BY <1>1, <1>3 DEF MessageGoes
<1>4. CASE m \notin failed
  <2>1. PICK w \in Seq(Handlers) : w = r \o z /\ IsPrefix(w, p)
    BY <1>1, <1>2, <1>4, StagePrefix DEF MessageGoes
  <2>2. IsPrefix(r, w)
    BY <2>1, PrefixOfConcat
  <2>3. IsPrefix(r, p)
    BY <2>1, <2>2, PrefixTransitive
  <2>4. ASSUME z # <<>> PROVE IsPrefix(Append(r, Head(z)), p) /\ Head(z) \in Registered
    <3>1. PICK r2 \in Seq(Handlers), z2 \in Seq(Handlers) :
            r2 = Append(r, Head(z)) /\ z2 = Tail(z) /\ w = r2 \o z2
      BY ZenonT(30), <2>1, <2>4, MoveHead
    <3>2. IsPrefix(r2, w)
      BY <3>1, PrefixOfConcat
    <3>3. IsPrefix(r2, p)
      BY <2>1, <3>2, PrefixTransitive
    <3>4. ToSet(r2) = ToSet(r) \cup {Head(z)}
      BY <2>4, <3>1, TailFacts, ToSetAppend
    <3>5. ToSet(r2) \subseteq ToSet(p)
      <4>1. /\ Len(r2) <= Len(p) /\ Len(r2) \in Nat /\ Len(p) \in Nat
            /\ \A k \in 1..Len(r2) : r2[k] = p[k]
        BY <3>3, PlacesOfPrefix
      <4>2. \A k \in 1..Len(r2) : k \in 1..Len(p)
        BY <4>1
      <4>3. \A k \in 1..Len(r2) : r2[k] \in ToSet(p)
        BY <4>1, <4>2, ToSetFacts
      <4> QED  BY SMTT(30), <4>3, ToSetFacts
    <3> QED  BY <1>2, <3>1, <3>3, <3>4, <3>5, StagePrefix
  <2> QED  BY <1>1, <2>3, <2>4
<1> QED  BY <1>3, <1>4

LEMMA DispatchInitInv == DispatchInit => DispatchInv
<1> SUFFICES ASSUME DispatchInit PROVE DispatchInv
  OBVIOUS
<1>1. /\ onChannel = [ch \in Channels |-> <<>>] /\ onAll = <<>> /\ default = NoHandler
      /\ retired = {} /\ call = [t \in Callers |-> Idle]
      /\ timeout \in BOOLEAN /\ subscribed \in BOOLEAN /\ closed \in BOOLEAN
  BY DEF DispatchInit
<1>2. Idle \in Calls /\ Idle.op = "idle"
  BY DEF Calls, Idle
<1>3. RegistryOK
  BY <1>1, <1>2 DEF RegistryOK
<1>4. ToSet(<<>>) = {}
  BY DEF ToSet
<1>5. NumberingOK
  <2>1. \A h : h \notin Registered
    BY <1>1, <1>4, RegisteredFacts
  <2>2. Issued = 1..0 /\ Registered \cap retired = {}
    BY <1>1, <2>1 DEF Issued
  <2>3. Pending = {}
    BY <1>1, <1>2 DEF Pending
  <2>4. Cardinality(Pending) = 0 /\ 0 + 0 <= MaxHandlers /\ 0 \in 0..MaxHandlers
    BY <2>3, FS_EmptySet, DispatchAssumption
  <2> QED  BY <1>1, <1>4, <2>2, <2>4 DEF NumberingOK
<1>6. MessagesTypeOK
  BY DEF DispatchInit, MessagesTypeOK, DispatchPoints
<1>7. MessagesGo
  BY DEF DispatchInit, MessagesGo, MessageGoes, Dispatching
<1> QED  BY <1>3, <1>5, <1>6, <1>7 DEF DispatchInv

(* A step of one message, which leaves the registry alone.                 *)
LEMMA OneMessage ==
    ASSUME DispatchInv, NEW m \in Messages,
           UNCHANGED <<onChannel, onAll, default, timeout, call, subscribed, closed, retired>>,
           MessagesTypeOK', MessageGoes(m)',
           \A k \in Messages : k # m =>
               /\ dpc'[k] = dpc[k] /\ rest'[k] = rest[k] /\ ran'[k] = ran[k] /\ plan'[k] = plan[k]
               /\ k \in readers' <=> k \in readers
               /\ k \in detached' <=> k \in detached
               /\ k \in failed' <=> k \in failed
    PROVE  DispatchInv'
<1>1. RegistryOK'
  BY DEF DispatchInv, RegistryOK
<1>2. Registered' = Registered /\ Pending' = Pending
  BY DEF Registered, Pending
<1>3. NumberingOK'
  BY <1>2 DEF DispatchInv, NumberingOK, Issued
<1>4. ASSUME NEW k \in Messages, k # m PROVE MessageGoes(k)'
  <2>1. PlanOf(ChannelOf[k])' = PlanOf(ChannelOf[k])
    BY DEF PlanOf
  <2>2. Stage(k)' = Stage(k) /\ (Dispatching(k)' <=> Dispatching(k))
    BY <1>4, <2>1 DEF Stage, Dispatching
  <2>3. MessageGoes(k)
    BY DEF DispatchInv, MessagesGo
  <2> QED  BY <1>4, <2>1, <2>2, <2>3 DEF MessageGoes
<1>5. MessagesGo'
  BY <1>4 DEF MessagesGo
<1> QED  BY <1>1, <1>3, <1>5 DEF DispatchInv

LEMMA NotifyNext ==
    ASSUME DispatchInv, NEW m \in Messages, NotifyMessage(m)
    PROVE  DispatchInv'
<1>1. /\ dpc[m] = "none"
      /\ UNCHANGED <<onChannel, onAll, default, timeout, readers, call, subscribed, closed, timed,
                     rest, ran, plan, failed, detached, retired>>
      /\ dpc' = [dpc EXCEPT ![m] = IF subscribed THEN "spawned" ELSE "done"]
  BY DEF NotifyMessage, registry
<1>2. MessagesTypeOK /\ MessageGoes(m)
  BY DEF DispatchInv, MessagesGo
<1>3. /\ dpc'[m] \in {"spawned", "done"} /\ \A k \in Messages : k # m => dpc'[k] = dpc[k]
      /\ dpc' \in [Messages -> DispatchPoints]
  BY <1>1, <1>2 DEF MessagesTypeOK, DispatchPoints
<1>4. MessagesTypeOK'
  BY <1>1, <1>2, <1>3 DEF MessagesTypeOK
<1>5. MessageGoes(m)'
  BY <1>1, <1>2, <1>3 DEF MessageGoes, Dispatching
<1> QED  BY <1>1, <1>3, <1>4, <1>5, OneMessage

LEMMA EnterNext ==
    ASSUME DispatchInv, NEW m \in Messages, Enter(m)
    PROVE  DispatchInv'
<1>1. /\ dpc[m] = "spawned" /\ readers' = readers \cup {m}
      /\ timed' = IF timeout THEN timed \cup {m} ELSE timed
      /\ plan' = [plan EXCEPT ![m] = PlanOf(ChannelOf[m])]
      /\ dpc' = [dpc EXCEPT ![m] = "channel"]
      /\ UNCHANGED <<onChannel, onAll, default, timeout, call, subscribed, closed, rest, ran,
                     failed, detached, retired>>
  BY DEF Enter, registry
<1>2. MessagesTypeOK /\ MessageGoes(m) /\ RegistryOK
  BY DEF DispatchInv, MessagesGo
<1>3. PlanOf(ChannelOf[m]) \in Seq(Handlers) /\ PlanOf(ChannelOf[m])' = PlanOf(ChannelOf[m])
  BY <1>1, <1>2, ListFacts DEF PlanOf
<1>4. /\ dpc'[m] = "channel" /\ \A k \in Messages : k # m => dpc'[k] = dpc[k]
      /\ plan'[m] = PlanOf(ChannelOf[m]) /\ \A k \in Messages : k # m => plan'[k] = plan[k]
      /\ dpc' \in [Messages -> DispatchPoints] /\ plan' \in [Messages -> Seq(Handlers)]
  BY <1>1, <1>2, <1>3 DEF MessagesTypeOK, DispatchPoints
<1>5. MessagesTypeOK'
  BY <1>1, <1>2, <1>4 DEF MessagesTypeOK
<1>6. /\ m \notin detached /\ m \notin failed /\ rest[m] = <<>> /\ ran[m] = <<>>
  BY <1>1, <1>2 DEF MessageGoes, Dispatching
<1>7. <<>> \o <<>> = <<>> /\ Stage(m)' = <<>>
  BY <1>4 DEF Stage
<1>8. MessageGoes(m)'
  BY <1>1, <1>3, <1>4, <1>6, <1>7 DEF MessageGoes, Dispatching
<1> QED  BY <1>1, <1>4, <1>5, <1>8, OneMessage

(* A loop over the handlers of a list begins when the last has ended.      *)
LEMMA LoopNext ==
    ASSUME DispatchInv, NEW m \in Messages, NEW from \in {"channel", "wildcard", "default"},
           NEW list \in Seq(Handlers), NEW to \in {"wildcard", "default", "return"},
           Loop(m, from, list, to), (Stage(m) \o list = Stage(m)')
    PROVE  DispatchInv'
<1>1. /\ dpc[m] = from /\ rest[m] = <<>>
      /\ rest' = [rest EXCEPT ![m] = list] /\ dpc' = [dpc EXCEPT ![m] = to]
      /\ UNCHANGED <<onChannel, onAll, default, timeout, readers, call, subscribed, closed, timed,
                     ran, plan, failed, detached, retired>>
  BY DEF Loop, registry
<1>2. MessagesTypeOK /\ MessageGoes(m) /\ RegistryOK
  BY DEF DispatchInv, MessagesGo
<1>3. PlanOf(ChannelOf[m])' = PlanOf(ChannelOf[m])
  BY <1>1 DEF PlanOf
<1>4. /\ dpc'[m] = to /\ \A k \in Messages : k # m => dpc'[k] = dpc[k]
      /\ rest'[m] = list /\ \A k \in Messages : k # m => rest'[k] = rest[k]
      /\ dpc' \in [Messages -> DispatchPoints] /\ rest' \in [Messages -> Seq(Handlers)]
  BY <1>1, <1>2 DEF MessagesTypeOK, DispatchPoints
<1>5. MessagesTypeOK'
  BY <1>1, <1>2, <1>4 DEF MessagesTypeOK
<1>6. Dispatching(m) /\ Dispatching(m)' /\ m \notin failed
  BY <1>1, <1>2, <1>4 DEF MessageGoes, Dispatching
<1>7. m \in readers => ran[m] \o list = Stage(m)'
  <2>1. ran[m] \in Seq(Handlers)
    BY <1>2 DEF MessagesTypeOK
  <2>2. ran[m] \o <<>> = ran[m]
    BY <2>1, ConcatFacts
  <2>3. m \in readers => ran[m] \o rest[m] = Stage(m)
    BY <1>2, <1>6 DEF MessageGoes
  <2>4. m \in readers => ran[m] = Stage(m)
    BY <1>1, <2>2, <2>3
  <2> QED  BY <2>4
<1>8. MessageGoes(m)'
  BY <1>1, <1>2, <1>3, <1>4, <1>6, <1>7 DEF MessageGoes
<1> QED  BY <1>1, <1>4, <1>5, <1>8, OneMessage

LEMMA LoopsNext ==
    ASSUME DispatchInv, NEW m \in Messages,
           ChannelHandlers(m) \/ WildcardHandlers(m) \/ DefaultHandler(m)
    PROVE  DispatchInv'
<1>1. RegistryOK /\ MessagesTypeOK
  BY DEF DispatchInv
<1>2. PICK on \in Seq(Handlers), all \in Seq(Handlers), d \in Seq(Handlers) :
        on = onChannel[ChannelOf[m]] /\ all = onAll /\ d = DefaultFor(ChannelOf[m])
  BY <1>1, ListFacts
<1>3. <<>> \o on = on /\ PlanOf(ChannelOf[m]) = (on \o all) \o d
  BY <1>1, <1>2, ConcatFacts, ListFacts
<1>4. CASE ChannelHandlers(m)
  <2>1. Loop(m, "channel", on, "wildcard")
    BY <1>2, <1>4 DEF ChannelHandlers
  <2>2. dpc[m] = "channel" /\ dpc'[m] = "wildcard" /\ onChannel' = onChannel
    BY <1>1, <2>1 DEF Loop, registry, MessagesTypeOK
  <2>3. Stage(m) \o on = Stage(m)'
    BY <1>2, <1>3, <2>2 DEF Stage
  <2> QED  BY <2>1, <2>3, LoopNext
<1>5. CASE WildcardHandlers(m)
  <2>1. Loop(m, "wildcard", all, "default")
    BY <1>2, <1>5 DEF WildcardHandlers
  <2>2. dpc[m] = "wildcard" /\ dpc'[m] = "default" /\ onChannel' = onChannel /\ onAll' = onAll
    BY <1>1, <2>1 DEF Loop, registry, MessagesTypeOK
  <2>3. Stage(m) \o all = Stage(m)'
    BY <1>2, <2>2 DEF Stage
  <2> QED  BY <2>1, <2>3, LoopNext
<1>6. CASE DefaultHandler(m)
  <2>1. Loop(m, "default", d, "return")
    BY <1>2, <1>6 DEF DefaultHandler, DefaultFor
  <2>2. /\ dpc[m] = "default" /\ dpc'[m] = "return" /\ onChannel' = onChannel /\ onAll' = onAll
        /\ default' = default
    BY <1>1, <2>1 DEF Loop, registry, MessagesTypeOK
  <2>3. PlanOf(ChannelOf[m])' = PlanOf(ChannelOf[m])
    BY <2>2 DEF PlanOf
  <2>4. Stage(m) \o d = Stage(m)'
    BY <1>2, <1>3, <2>2, <2>3 DEF Stage
  <2> QED  BY <2>1, <2>4, LoopNext
<1> QED  BY <1>4, <1>5, <1>6

LEMMA RunHandlerNext ==
    ASSUME DispatchInv, NEW m \in Messages, RunHandler(m)
    PROVE  DispatchInv'
<1>1. /\ rest[m] # <<>> /\ ran' = [ran EXCEPT ![m] = Append(@, Head(rest[m]))]
      /\ UNCHANGED <<onChannel, onAll, default, timeout, readers, call, subscribed, closed, timed,
                     plan, detached, retired>>
  BY DEF RunHandler, registry
<1>2. MessagesTypeOK /\ MessageGoes(m) /\ RegistryOK
  BY DEF DispatchInv, MessagesGo
<1>3. PlanOf(ChannelOf[m])' = PlanOf(ChannelOf[m])
  BY <1>1 DEF PlanOf
<1>4. PICK r \in Seq(Handlers), z \in Seq(Handlers) : r = ran[m] /\ z = rest[m]
  BY <1>2 DEF MessagesTypeOK
<1>5. PICK r2 \in Seq(Handlers), z2 \in Seq(Handlers) :
        r2 = Append(r, Head(z)) /\ z2 = Tail(z) /\ r2 \o z2 = r \o z
  <2>1. z # <<>>
    BY <1>1, <1>4
  <2>2. /\ Append(r, Head(z)) \in Seq(Handlers) /\ Tail(z) \in Seq(Handlers)
        /\ Append(r, Head(z)) \o Tail(z) = r \o z
    BY <2>1, MoveHead
  <2> QED  BY <2>2
<1>6. /\ ran'[m] = r2 /\ \A k \in Messages : k # m => ran'[k] = ran[k]
      /\ ran' \in [Messages -> Seq(Handlers)]
  BY <1>1, <1>2, <1>4, <1>5 DEF MessagesTypeOK
<1>7. Dispatching(m) /\ m \notin failed
  BY <1>1, <1>2 DEF MessageGoes
<1>8. CASE rest' = [rest EXCEPT ![m] = Tail(@)] /\ UNCHANGED <<dpc, failed>>
  <2>1. /\ rest'[m] = z2 /\ \A k \in Messages : k # m => rest'[k] = rest[k]
        /\ rest' \in [Messages -> Seq(Handlers)]
    BY <1>2, <1>4, <1>5, <1>8 DEF MessagesTypeOK
  <2>2. MessagesTypeOK'
    BY <1>1, <1>2, <1>6, <1>8, <2>1 DEF MessagesTypeOK
  <2>3. Stage(m)' = Stage(m) /\ Dispatching(m)'
    BY <1>1, <1>3, <1>7, <1>8 DEF Stage, Dispatching
  <2>4. m \in readers => ran'[m] \o rest'[m] = Stage(m)
    BY <1>2, <1>4, <1>5, <1>6, <1>7, <2>1 DEF MessageGoes
  <2>5. MessageGoes(m)'
    BY <1>1, <1>2, <1>3, <1>7, <1>8, <2>3, <2>4 DEF MessageGoes
  <2> QED  BY <1>1, <1>6, <1>8, <2>1, <2>2, <2>5, OneMessage
<1>9. CASE /\ rest' = [rest EXCEPT ![m] = <<>>] /\ dpc' = [dpc EXCEPT ![m] = "return"]
           /\ failed' = failed \cup {m}
  <2>1. /\ rest'[m] = <<>> /\ \A k \in Messages : k # m => rest'[k] = rest[k]
        /\ rest' \in [Messages -> Seq(Handlers)]
    BY <1>2, <1>9 DEF MessagesTypeOK
  <2>2. /\ dpc'[m] = "return" /\ \A k \in Messages : k # m => dpc'[k] = dpc[k]
        /\ dpc' \in [Messages -> DispatchPoints]
    BY <1>2, <1>9 DEF MessagesTypeOK, DispatchPoints
  <2>3. MessagesTypeOK'
    BY <1>1, <1>2, <1>6, <1>9, <2>1, <2>2 DEF MessagesTypeOK
  <2>4. Dispatching(m)'
    BY <2>2 DEF Dispatching
  <2>5. m \in readers => IsPrefix(ran'[m], plan[m])
    BY <1>1, <1>2, <1>4, <1>5, <1>6, ReaderFacts
  <2>6. MessageGoes(m)'
    BY <1>1, <1>2, <1>3, <1>7, <1>9, <2>1, <2>2, <2>4, <2>5 DEF MessageGoes
  <2> QED  BY <1>1, <1>6, <1>9, <2>1, <2>2, <2>3, <2>6, OneMessage
<1> QED  BY <1>8, <1>9 DEF RunHandler

LEMMA ReturnNext ==
    ASSUME DispatchInv, NEW m \in Messages, Return(m)
    PROVE  DispatchInv'
<1>1. /\ dpc[m] = "return" /\ rest[m] = <<>>
      /\ dpc' = [dpc EXCEPT ![m] = "done"]
      /\ readers' = readers \ {m} /\ timed' = timed \ {m}
      /\ ran' = [ran EXCEPT ![m] = <<>>] /\ plan' = [plan EXCEPT ![m] = <<>>]
      /\ failed' = failed \ {m} /\ detached' = detached \ {m}
      /\ UNCHANGED <<onChannel, onAll, default, timeout, call, subscribed, closed, rest, retired>>
  BY DEF Return, registry
<1>2. MessagesTypeOK
  BY DEF DispatchInv
<1>3. /\ dpc'[m] = "done" /\ ran'[m] = <<>> /\ plan'[m] = <<>>
      /\ \A k \in Messages : k # m =>
           dpc'[k] = dpc[k] /\ ran'[k] = ran[k] /\ plan'[k] = plan[k]
      /\ dpc' \in [Messages -> DispatchPoints] /\ ran' \in [Messages -> Seq(Handlers)]
      /\ plan' \in [Messages -> Seq(Handlers)]
  BY <1>1, <1>2 DEF MessagesTypeOK, DispatchPoints
<1>4. MessagesTypeOK'
  BY <1>1, <1>2, <1>3 DEF MessagesTypeOK
<1>5. MessageGoes(m)'
  BY <1>1, <1>3 DEF MessageGoes, Dispatching
<1> QED  BY <1>1, <1>3, <1>4, <1>5, OneMessage

LEMMA ExpireNext ==
    ASSUME DispatchInv, NEW m \in Messages, Expire(m)
    PROVE  DispatchInv'
<1>1. /\ m \in readers /\ readers' = readers \ {m} /\ detached' = detached \cup {m}
      /\ UNCHANGED <<onChannel, onAll, default, timeout, call, subscribed, closed, dpc, timed, rest,
                     ran, plan, failed, retired>>
  BY DEF Expire, registry
<1>2. MessagesTypeOK /\ MessageGoes(m)
  BY DEF DispatchInv, MessagesGo
<1>3. MessagesTypeOK'
  BY <1>1, <1>2 DEF MessagesTypeOK
<1>4. MessageGoes(m)'
  BY <1>1, <1>2 DEF MessageGoes, Dispatching
<1> QED  BY <1>1, <1>3, <1>4, OneMessage

LEMMA PendingFacts ==
    /\ Pending \subseteq Callers /\ IsFiniteSet(Pending)
    /\ Cardinality(Pending) \in Nat
<1>1. Pending \subseteq Callers
  BY DEF Pending
<1> QED  BY <1>1, FS_Subset, FS_CardinalityType, DispatchAssumption

(* A step that leaves the dispatches alone, and the lists too while a      *)
(* message holds the read lock.                                            *)
LEMMA NoMessage ==
    ASSUME DispatchInv, RegistryOK', NumberingOK',
           UNCHANGED <<readers, dpc, timed, rest, ran, plan, failed, detached>>,
           readers # {} => UNCHANGED <<onChannel, onAll, default>>
    PROVE  DispatchInv'
<1>1. MessagesTypeOK'
  BY DEF DispatchInv, MessagesTypeOK
<1>2. ASSUME NEW m \in Messages PROVE MessageGoes(m)'
  <2>1. MessageGoes(m)
    BY DEF DispatchInv, MessagesGo
  <2>2. Dispatching(m)' <=> Dispatching(m)
    BY DEF Dispatching
  <2>3. CASE m \in readers
    <3>1. UNCHANGED <<onChannel, onAll, default>>
      BY <2>3
    <3>2. PlanOf(ChannelOf[m])' = PlanOf(ChannelOf[m])
      BY <3>1 DEF PlanOf
    <3>3. Stage(m)' = Stage(m)
      BY <3>1, <3>2 DEF Stage
    <3> QED  BY <2>1, <2>2, <3>2, <3>3 DEF MessageGoes
  <2>4. CASE m \notin readers
    BY <2>1, <2>2, <2>4 DEF MessageGoes
  <2> QED  BY <2>3, <2>4
<1> QED  BY <1>1, <1>2 DEF DispatchInv, MessagesGo

(* A caller's call changes, and the lists do not.                          *)
LEMMA CallChanges ==
    ASSUME DispatchInv, NEW t \in Callers, NEW c \in Calls, call' = [call EXCEPT ![t] = c],
           UNCHANGED <<onChannel, onAll, default, retired, readers, dispatch>>,
           timeout' \in BOOLEAN, subscribed' \in BOOLEAN, closed' \in BOOLEAN,
           \A n \in 0..MaxHandlers : Issued = 1..n /\ n + Cardinality(Pending) <= MaxHandlers =>
               n + Cardinality(Pending') <= MaxHandlers
    PROVE  DispatchInv'
<1>1. RegistryOK'
  BY DEF DispatchInv, RegistryOK
<1>2. Registered' = Registered /\ Issued' = Issued
  BY DEF Registered, Issued
<1>3. NumberingOK'
  BY <1>2 DEF DispatchInv, NumberingOK
<1> QED  BY <1>1, <1>3, NoMessage DEF dispatch

LEMMA NewHandlerFacts ==
    ASSUME NEW n \in Nat, Issued = 1..n
    PROVE  NewHandler = n + 1
<1>1. Cardinality(1..n) = n
  BY FS_Interval
<1> QED  BY <1>1 DEF NewHandler, Issued

Counted == {"OnMessage", "OnAllMessages", "SetDefaultHandler"}

LEMMA PendingChange ==
    ASSUME call \in [Callers -> Calls], NEW t \in Callers, NEW c, call' = [call EXCEPT ![t] = c]
    PROVE  /\ c.op \in Counted => Pending' = Pending \cup {t}
           /\ c.op \notin Counted => Pending' = Pending \ {t}
           /\ t \in Pending <=> call[t].op \in Counted
<1>1. call'[t] = c /\ \A u \in Callers : u # t => call'[u] = call[u]
  OBVIOUS
<1> QED  BY <1>1 DEF Pending, Counted

LEMMA PendingGoes ==
    ASSUME call \in [Callers -> Calls], NEW t \in Callers, NEW c, c.op \notin Counted,
           call' = [call EXCEPT ![t] = c]
    PROVE  /\ call[t].op \notin Counted => Pending' = Pending
           /\ call[t].op \in Counted => Cardinality(Pending') = Cardinality(Pending) - 1
<1>1. Pending' = Pending \ {t} /\ (t \in Pending <=> call[t].op \in Counted)
  BY PendingChange
<1>2. t \in Pending => Cardinality(Pending \ {t}) = Cardinality(Pending) - 1
  BY PendingFacts, FS_RemoveElement
<1> QED  BY <1>1, <1>2

LEMMA RegisterNext ==
    ASSUME DispatchInv, NEW t \in Callers, NEW c \in Registrations, Register(t, c)
    PROVE  DispatchInv'
<1>1. /\ call[t] = Idle /\ call' = [call EXCEPT ![t] = c]
      /\ c.op # "Use" => NewHandler + Cardinality(Pending) <= MaxHandlers
      /\ UNCHANGED <<onChannel, onAll, default, timeout, readers, subscribed, closed, dispatch,
                     retired>>
  BY DEF Register, registry
<1>2. RegistryOK /\ c \in Calls /\ call \in [Callers -> Calls]
  BY DEF DispatchInv, RegistryOK, Calls
<1>3. c.op \in Counted \cup {"Use"}
  BY DEF Registrations, Counted
<1>4. Idle.op = "idle" /\ "idle" \notin Counted /\ "Use" \notin Counted
  BY DEF Idle, Counted
<1>5. t \notin Pending
  BY <1>1, <1>4 DEF Pending, Counted
<1>6. ASSUME NEW n \in 0..MaxHandlers, Issued = 1..n, n + Cardinality(Pending) <= MaxHandlers
      PROVE  n + Cardinality(Pending') <= MaxHandlers
  <2>1. CASE c.op = "Use"
    <3>1. Pending' = Pending \ {t}
      BY <1>1, <1>2, <1>4, <2>1, PendingChange
    <3>2. Pending' = Pending
      BY <1>5, <3>1
    <3> QED  BY <1>6, <3>2
  <2>2. CASE c.op \in Counted
    <3>1. Pending' = Pending \cup {t}
      BY <1>1, <1>2, <2>2, PendingChange
    <3>2. Cardinality(Pending \cup {t}) = Cardinality(Pending) + 1
      BY <1>5, PendingFacts, FS_AddElement
    <3>3. NewHandler = n + 1
      BY <1>6, NewHandlerFacts
    <3>4. (n + 1) + Cardinality(Pending) <= MaxHandlers
      BY <1>1, <1>4, <2>2, <3>3
    <3>5. PICK k \in Nat : k = Cardinality(Pending)
      BY PendingFacts
    <3> QED  BY <3>1, <3>2, <3>4, <3>5, DispatchAssumption
  <2> QED  BY <1>3, <2>1, <2>2
<1>7. timeout' \in BOOLEAN /\ subscribed' \in BOOLEAN /\ closed' \in BOOLEAN
  BY <1>1, <1>2 DEF RegistryOK
<1> QED  BY <1>1, <1>2, <1>6, <1>7, CallChanges

LEMMA UncountedNext ==
    ASSUME DispatchInv, NEW t \in Callers, Use(t) \/ CloseBegin(t) \/ ClearBus(t)
    PROVE  DispatchInv'
<1>1. RegistryOK /\ call \in [Callers -> Calls]
  BY DEF DispatchInv, RegistryOK
<1>2. /\ Idle \in Calls /\ Idle.op \notin Counted
      /\ [op |-> "Clear"] \in Calls /\ [op |-> "Clear"].op \notin Counted
  BY DEF Calls, Idle, Counted
<1>3. PICK c \in Calls : c.op \notin Counted /\ call' = [call EXCEPT ![t] = c]
  BY <1>2 DEF Use, CloseBegin, ClearBus
<1>4. call[t].op \notin Counted
  BY <1>2 DEF Use, CloseBegin, ClearBus, Acquired, Counted
<1>5. Pending' = Pending
  BY <1>1, <1>3, <1>4, PendingGoes
<1>6. UNCHANGED <<onChannel, onAll, default, retired, readers, dispatch>>
  BY DEF Use, CloseBegin, ClearBus, registry
<1>7. timeout' \in BOOLEAN /\ subscribed' \in BOOLEAN /\ closed' \in BOOLEAN
  BY <1>1 DEF Use, CloseBegin, ClearBus, registry, RegistryOK
<1> QED  BY <1>3, <1>5, <1>6, <1>7, CallChanges

(* A handler is registered, under the next number.                         *)
LEMMA OneMore ==
    ASSUME DispatchInv, NEW t \in Callers, call[t].op \in Counted,
           call' = [call EXCEPT ![t] = Idle]
    PROVE  \E n \in Nat :
               /\ Issued = 1..n /\ NewHandler = n + 1 /\ n + 1 \in 0..MaxHandlers
               /\ n + 1 \in Handlers /\ n + 1 # NoHandler
               /\ n + 1 \notin Issued /\ Issued \cup {n + 1} = 1..n + 1
               /\ (n + 1) + Cardinality(Pending') <= MaxHandlers
<1>1. PICK n \in 0..MaxHandlers : Issued = 1..n /\ n + Cardinality(Pending) <= MaxHandlers
  BY DEF DispatchInv, NumberingOK
<1>2. n \in Nat /\ MaxHandlers \in Nat
  BY DispatchAssumption
<1>3. NewHandler = n + 1
  BY <1>1, <1>2, NewHandlerFacts
<1>4. call \in [Callers -> Calls] /\ Idle.op \notin Counted
  BY DEF DispatchInv, RegistryOK, Idle, Counted
<1>5. Cardinality(Pending') = Cardinality(Pending) - 1
  BY <1>4, PendingGoes
<1>6. Cardinality(Pending) \in Nat /\ Cardinality(Pending') \in Nat
  <2>1. Pending' \subseteq Callers
    BY DEF Pending
  <2> QED  BY <2>1, PendingFacts, FS_Subset, FS_CardinalityType, DispatchAssumption
<1>7. (n + 1) + Cardinality(Pending') <= MaxHandlers /\ n + 1 <= MaxHandlers
  BY <1>1, <1>2, <1>5, <1>6
<1>8. /\ n + 1 \in Handlers /\ n + 1 # NoHandler /\ n + 1 \in 0..MaxHandlers
      /\ n + 1 \notin 1..n /\ (1..n) \cup {n + 1} = 1..n + 1
  BY <1>2, <1>7 DEF Handlers, NoHandler
<1> QED  BY <1>1, <1>2, <1>3, <1>7, <1>8

LEMMA RegisteredFactsNext ==
    \A h : h \in Registered' <=> \/ \E ch \in Channels : h \in ToSet(onChannel'[ch])
                                 \/ h \in ToSet(onAll')
                                 \/ h = default' /\ h # NoHandler
BY DEF Registered

LEMMA OnMessageNext ==
    ASSUME DispatchInv, NEW t \in Callers, OnMessage(t)
    PROVE  DispatchInv'
<1>1. /\ call[t].op = "OnMessage" /\ readers = {}
      /\ onChannel' = [onChannel EXCEPT ![call[t].chan] = Append(@, NewHandler)]
      /\ call' = [call EXCEPT ![t] = Idle]
      /\ UNCHANGED <<onAll, default, timeout, readers, subscribed, closed, dpc, timed, rest, ran,
                     plan, failed, detached, retired>>
  BY DEF OnMessage, Acquired, dispatch
<1>2. RegistryOK /\ NumberingOK
  BY DEF DispatchInv
<1>3. PICK ch \in Channels : ch = call[t].chan
  <2>1. call[t] \in Calls
    BY <1>2 DEF RegistryOK
  <2> QED  BY <1>1, <2>1 DEF Calls, Registrations
<1>4. PICK n \in Nat :
        /\ Issued = 1..n /\ NewHandler = n + 1 /\ n + 1 \in 0..MaxHandlers
        /\ n + 1 \in Handlers /\ n + 1 # NoHandler
        /\ n + 1 \notin Issued /\ Issued \cup {n + 1} = 1..n + 1
        /\ (n + 1) + Cardinality(Pending') <= MaxHandlers
  <2>1. call[t].op \in Counted
    BY <1>1 DEF Counted
  <2> QED  BY <1>1, <2>1, OneMore
<1>5. PICK h \in Handlers : h = n + 1
  BY <1>4
<1>6. PICK old \in Seq(Handlers), new \in Seq(Handlers) :
        old = onChannel[ch] /\ new = Append(old, h) /\ ToSet(new) = ToSet(old) \cup {h}
  <2>1. onChannel[ch] \in Seq(Handlers)
    BY <1>2 DEF RegistryOK
  <2>2. /\ Append(onChannel[ch], h) \in Seq(Handlers)
        /\ ToSet(Append(onChannel[ch], h)) = ToSet(onChannel[ch]) \cup {h}
    BY <2>1, AppendFacts, ToSetAppend
  <2> QED  BY <2>1, <2>2
<1>7. /\ onChannel'[ch] = new /\ \A d \in Channels : d # ch => onChannel'[d] = onChannel[d]
      /\ onChannel' \in [Channels -> Seq(Handlers)]
  BY <1>1, <1>2, <1>3, <1>4, <1>5, <1>6 DEF RegistryOK
<1>8. RegistryOK'
  <2>1. Idle \in Calls
    BY DEF Calls, Idle
  <2> QED  BY <1>1, <1>2, <1>7, <2>1 DEF RegistryOK
<1>9. Registered' = Registered \cup {h}
  <2>1. \A x : (\E d \in Channels : x \in ToSet(onChannel'[d])) <=>
                 (\E d \in Channels : x \in ToSet(onChannel[d])) \/ x = h
    BY <1>6, <1>7
  <2> QED  BY <1>1, <2>1, RegisteredFacts, RegisteredFactsNext
<1>10. NumberingOK'
  <2>1. default # h
    BY <1>4, <1>5, RegisteredFacts DEF Issued
  <2>2. Issued' = 1..n + 1
    BY <1>1, <1>4, <1>5, <1>9 DEF Issued
  <2>3. Registered' \cap retired' = {}
    BY <1>1, <1>2, <1>4, <1>5, <1>9 DEF NumberingOK, Issued
  <2>4. \A d \in Channels : default \notin ToSet(onChannel'[d])
    BY <1>2, <1>6, <1>7, <2>1 DEF NumberingOK
  <2> QED  BY <1>1, <1>2, <1>4, <2>2, <2>3, <2>4 DEF NumberingOK
<1> QED  BY <1>1, <1>8, <1>10, NoMessage

LEMMA OnAllMessagesNext ==
    ASSUME DispatchInv, NEW t \in Callers, OnAllMessages(t)
    PROVE  DispatchInv'
<1>1. /\ call[t].op = "OnAllMessages" /\ readers = {}
      /\ onAll' = Append(onAll, NewHandler)
      /\ call' = [call EXCEPT ![t] = Idle]
      /\ UNCHANGED <<onChannel, default, timeout, readers, subscribed, closed, dpc, timed, rest, ran,
                     plan, failed, detached, retired>>
  BY DEF OnAllMessages, Acquired, dispatch
<1>2. RegistryOK /\ NumberingOK
  BY DEF DispatchInv
<1>3. PICK n \in Nat :
        /\ Issued = 1..n /\ NewHandler = n + 1 /\ n + 1 \in 0..MaxHandlers
        /\ n + 1 \in Handlers /\ n + 1 # NoHandler
        /\ n + 1 \notin Issued /\ Issued \cup {n + 1} = 1..n + 1
        /\ (n + 1) + Cardinality(Pending') <= MaxHandlers
  <2>1. call[t].op \in Counted
    BY <1>1 DEF Counted
  <2> QED  BY <1>1, <2>1, OneMore
<1>4. PICK h \in Handlers : h = n + 1
  BY <1>3
<1>5. PICK old \in Seq(Handlers), new \in Seq(Handlers) :
        old = onAll /\ new = Append(old, h) /\ ToSet(new) = ToSet(old) \cup {h}
  <2>1. onAll \in Seq(Handlers)
    BY <1>2 DEF RegistryOK
  <2>2. /\ Append(onAll, h) \in Seq(Handlers)
        /\ ToSet(Append(onAll, h)) = ToSet(onAll) \cup {h}
    BY <2>1, AppendFacts, ToSetAppend
  <2> QED  BY <2>1, <2>2
<1>6. onAll' = new
  BY <1>1, <1>3, <1>4, <1>5
<1>7. RegistryOK'
  <2>1. Idle \in Calls
    BY DEF Calls, Idle
  <2> QED  BY <1>1, <1>2, <1>6, <2>1 DEF RegistryOK
<1>8. Registered' = Registered \cup {h}
  BY <1>1, <1>5, <1>6, RegisteredFacts, RegisteredFactsNext
<1>9. NumberingOK'
  <2>1. default # h
    BY <1>3, <1>4, RegisteredFacts DEF Issued
  <2>2. Issued' = 1..n + 1
    BY <1>1, <1>3, <1>4, <1>8 DEF Issued
  <2>3. Registered' \cap retired' = {}
    BY <1>1, <1>2, <1>3, <1>4, <1>8 DEF NumberingOK, Issued
  <2>4. default \notin ToSet(onAll')
    BY <1>2, <1>5, <1>6, <2>1 DEF NumberingOK
  <2> QED  BY <1>1, <1>2, <1>3, <2>2, <2>3, <2>4 DEF NumberingOK
<1> QED  BY <1>1, <1>7, <1>9, NoMessage

LEMMA SetDefaultNext ==
    ASSUME DispatchInv, NEW t \in Callers, SetDefaultHandler(t)
    PROVE  DispatchInv'
<1>1. /\ call[t].op = "SetDefaultHandler" /\ readers = {}
      /\ default' = NewHandler /\ retired' = retired \cup ({default} \ {NoHandler})
      /\ call' = [call EXCEPT ![t] = Idle]
      /\ UNCHANGED <<onChannel, onAll, timeout, readers, subscribed, closed, dpc, timed, rest, ran,
                     plan, failed, detached>>
  BY DEF SetDefaultHandler, Acquired, dispatch
<1>2. RegistryOK /\ NumberingOK
  BY DEF DispatchInv
<1>3. PICK n \in Nat :
        /\ Issued = 1..n /\ NewHandler = n + 1 /\ n + 1 \in 0..MaxHandlers
        /\ n + 1 \in Handlers /\ n + 1 # NoHandler
        /\ n + 1 \notin Issued /\ Issued \cup {n + 1} = 1..n + 1
        /\ (n + 1) + Cardinality(Pending') <= MaxHandlers
  <2>1. call[t].op \in Counted
    BY <1>1 DEF Counted
  <2> QED  BY <1>1, <2>1, OneMore
<1>4. PICK h \in Handlers : h = n + 1 /\ default' = h
  BY <1>1, <1>3
<1>5. RegistryOK'
  <2>1. Idle \in Calls
    BY DEF Calls, Idle
  <2> QED  BY <1>1, <1>2, <1>4, <2>1 DEF RegistryOK
<1>6. \A x : x \in Registered' <=> (x \in Registered /\ x # default) \/ x = h
  BY <1>1, <1>2, <1>3, <1>4, RegisteredFacts, RegisteredFactsNext DEF NumberingOK
<1>7. \A x : x \in retired' <=> x \in retired \/ (x = default /\ x # NoHandler)
  BY <1>1
<1>8. NumberingOK'
  <2>1. \A x : x \in Issued' <=> x \in Issued \/ x = h
    <3>1. default \in Registered <=> default # NoHandler
      BY <1>2, RegisteredFacts DEF NumberingOK
    <3> QED  BY <1>6, <1>7, <3>1 DEF Issued
  <2>2. Issued' = 1..n + 1
    BY <1>3, <1>4, <2>1
  <2>3. Registered' \cap retired' = {}
    <3>1. h # default /\ h \notin retired
      BY <1>3, <1>4, RegisteredFacts DEF Issued
    <3> QED  BY <1>2, <1>6, <1>7, <3>1 DEF NumberingOK
  <2>4. /\ default' \notin ToSet(onAll')
        /\ \A ch \in Channels : default' \notin ToSet(onChannel'[ch])
    BY <1>1, <1>3, <1>4, RegisteredFacts DEF Issued
  <2> QED  BY <1>3, <2>2, <2>3, <2>4 DEF NumberingOK
<1> QED  BY <1>1, <1>5, <1>8, NoMessage

LEMMA ClearRegistryNext ==
    ASSUME DispatchInv, NEW t \in Callers, ClearRegistry(t)
    PROVE  DispatchInv'
<1>1. /\ call[t].op = "Clear" /\ readers = {}
      /\ onChannel' = [ch \in Channels |-> <<>>] /\ onAll' = <<>> /\ default' = NoHandler
      /\ timeout' = FALSE /\ retired' = retired \cup Registered
      /\ call' = [call EXCEPT ![t] = [op |-> "ClearBus"]]
      /\ UNCHANGED <<readers, subscribed, closed, dpc, timed, rest, ran, plan, failed, detached>>
  BY DEF ClearRegistry, Acquired, dispatch
<1>2. RegistryOK /\ NumberingOK
  BY DEF DispatchInv
<1>3. [op |-> "ClearBus"] \in Calls /\ [op |-> "ClearBus"].op \notin Counted
  BY DEF Calls, Counted
<1>4. RegistryOK'
  <2>1. onChannel' \in [Channels -> Seq(Handlers)] /\ onAll' \in Seq(Handlers)
    BY <1>1
  <2>2. call' \in [Callers -> Calls]
    BY <1>1, <1>2, <1>3 DEF RegistryOK
  <2> QED  BY <1>1, <1>2, <2>1, <2>2 DEF RegistryOK
<1>5. ToSet(<<>>) = {}
  BY DEF ToSet
<1>6. \A x : x \notin Registered'
  BY <1>1, <1>5, RegisteredFactsNext
<1>7. Issued' = Issued
  BY <1>1, <1>6 DEF Issued
<1>8. Pending' = Pending
  <2>1. call[t].op \notin Counted
    BY <1>1 DEF Counted
  <2> QED  BY <1>1, <1>2, <1>3, <2>1, PendingGoes DEF RegistryOK
<1>9. NumberingOK'
  BY <1>1, <1>2, <1>5, <1>6, <1>7, <1>8 DEF NumberingOK
<1> QED  BY <1>1, <1>4, <1>9, NoMessage

LEMMA DispatchNextInv == DispatchInv /\ [DispatchNext]_dispatchVars => DispatchInv'
<1> SUFFICES ASSUME DispatchInv, [DispatchNext]_dispatchVars PROVE DispatchInv'
  OBVIOUS
<1>1. CASE UNCHANGED dispatchVars
  <2>1. UNCHANGED <<onChannel, onAll, default, timeout, readers, call, subscribed, closed,
                    dpc, timed, rest, ran, plan, failed, detached, retired>>
    BY <1>1 DEF dispatchVars, registry, dispatch
  <2>2. RegistryOK'
    BY <2>1 DEF DispatchInv, RegistryOK
  <2>3. Registered' = Registered /\ Pending' = Pending
    BY <2>1 DEF Registered, Pending
  <2>4. NumberingOK'
    BY <2>1, <2>3 DEF DispatchInv, NumberingOK, Issued
  <2> QED  BY <2>1, <2>2, <2>4, NoMessage
<1>2. ASSUME NEW t \in Registrars, NEW c \in Registrations, Register(t, c) PROVE DispatchInv'
  BY <1>2, RegisterNext DEF Callers
<1>3. ASSUME NEW t \in Closers, CloseBegin(t) PROVE DispatchInv'
  BY <1>3, UncountedNext DEF Callers
<1>4. ASSUME NEW t \in Callers, Proceed(t) PROVE DispatchInv'
  BY <1>4, OnMessageNext, OnAllMessagesNext, SetDefaultNext, ClearRegistryNext, UncountedNext
     DEF Proceed
<1>5. ASSUME NEW m \in Messages, NotifyMessage(m) \/ Dispatch(m) \/ Expire(m) PROVE DispatchInv'
  BY <1>5, NotifyNext, EnterNext, LoopsNext, RunHandlerNext, ReturnNext, ExpireNext DEF Dispatch
<1> QED  BY <1>1, <1>2, <1>3, <1>4, <1>5 DEF DispatchNext

LEMMA DispatchInvariant == DispatchSpec => []DispatchInv
BY DispatchInitInv, DispatchNextInv, PTL DEF DispatchSpec

LEMMA DispatchTypesKept == DispatchInv => DispatchTypeOK
<1> SUFFICES ASSUME DispatchInv PROVE DispatchTypeOK
  OBVIOUS
<1>1. RegistryOK /\ MessagesTypeOK
  BY DEF DispatchInv
<1>2. readers \subseteq {m \in Messages : dpc[m] \notin {"none", "spawned", "done"}}
  <2> SUFFICES ASSUME NEW m \in readers
               PROVE  m \in Messages /\ dpc[m] \notin {"none", "spawned", "done"}
    OBVIOUS
  <2>1. m \in Messages
    BY <1>1 DEF MessagesTypeOK
  <2> QED  BY <2>1 DEF DispatchInv, MessagesGo, MessageGoes, Dispatching
<1>3. retired \subseteq Handlers
  <2>1. PICK n \in 0..MaxHandlers : Issued = 1..n
    BY DEF DispatchInv, NumberingOK
  <2>2. 1..n \subseteq Handlers
    BY DispatchAssumption DEF Handlers
  <2> QED  BY <2>1, <2>2 DEF Issued
<1> QED  BY <1>1, <1>2, <1>3 DEF RegistryOK, MessagesTypeOK, Calls, DispatchTypeOK

LEMMA RunsKept == DispatchInv => RunsAsRegistered
<1> SUFFICES ASSUME DispatchInv, NEW m \in Messages \ detached
             PROVE  /\ IsPrefix(ran[m], plan[m])
                    /\ dpc[m] = "return" /\ rest[m] = <<>> /\ m \notin failed => ran[m] = plan[m]
  BY DEF RunsAsRegistered
<1>1. RegistryOK /\ MessagesTypeOK /\ MessageGoes(m)
  BY DEF DispatchInv, MessagesGo
<1>2. CASE m \in readers
  <2>1. ASSUME dpc[m] = "return", rest[m] = <<>>, m \notin failed PROVE ran[m] = plan[m]
    <3>1. ran[m] \o <<>> = ran[m]
      BY <1>1, ConcatFacts DEF MessagesTypeOK
    <3>2. Stage(m) = PlanOf(ChannelOf[m])
      BY <2>1 DEF Stage
    <3> QED  BY <1>1, <1>2, <2>1, <3>1, <3>2 DEF MessageGoes
  <2> QED  BY <1>1, <1>2, <2>1, ReaderFacts
<1>3. CASE m \notin readers
  <2>1. dpc[m] # "return" /\ ran[m] = <<>> /\ plan[m] = <<>>
    BY <1>1, <1>3 DEF MessageGoes, Dispatching
  <2>2. <<>> \in Seq(Handlers) /\ <<>> \o <<>> = <<>>
    OBVIOUS
  <2>3. IsPrefix(<<>>, <<>>)
    BY <2>2, PrefixOfConcat
  <2> QED  BY <2>1, <2>3
<1> QED  BY <1>2, <1>3

(* A message that has not timed out runs the handlers that were registered *)
(* when its dispatch began, in their order, each once, up to the first     *)
(* error, however many callers register and close meanwhile.               *)
THEOREM RunRegistered == DispatchSpec => [](DispatchTypeOK /\ RunsAsRegistered)
BY DispatchInvariant, DispatchTypesKept, RunsKept, PTL

LEMMA RetiredQuiet == DispatchInv /\ [DispatchNext]_dispatchVars => [RetiredStayQuiet]_dispatchVars
<1> SUFFICES ASSUME DispatchInv, DispatchNext, NEW m \in Messages \ detached,
                    Len(ran'[m]) > Len(ran[m])
             PROVE  Last(ran'[m]) \notin retired
  BY DEF RetiredStayQuiet
<1>1. RegistryOK /\ MessagesTypeOK /\ MessageGoes(m)
  BY DEF DispatchInv, MessagesGo
<1>2. PICK r \in Seq(Handlers) : r = ran[m] /\ Len(r) \in Nat
  BY <1>1 DEF MessagesTypeOK
<1>3. ran' # ran
  BY <1>2
<1>4. PICK k \in Messages : RunHandler(k) \/ Return(k)
  <2>1. ~(\E t \in Registrars, c \in Registrations : Register(t, c))
    BY <1>3 DEF Register, dispatch
  <2>2. ~(\E t \in Closers : CloseBegin(t))
    BY <1>3 DEF CloseBegin, dispatch
  <2>3. ~(\E t \in Callers : Proceed(t))
    BY <1>3 DEF Proceed, OnMessage, OnAllMessages, SetDefaultHandler, Use, ClearRegistry, ClearBus,
                dispatch
  <2>4. \A k \in Messages : ~NotifyMessage(k) /\ ~Expire(k) /\ ~Enter(k)
    BY <1>3 DEF NotifyMessage, Expire, Enter
  <2>5. \A k \in Messages : ~ChannelHandlers(k) /\ ~WildcardHandlers(k) /\ ~DefaultHandler(k)
    BY <1>3 DEF ChannelHandlers, WildcardHandlers, DefaultHandler, Loop
  <2> QED  BY <2>1, <2>2, <2>3, <2>4, <2>5 DEF DispatchNext, Dispatch
<1>5. CASE RunHandler(k)
  <2>1. rest[k] # <<>> /\ ran' = [ran EXCEPT ![k] = Append(@, Head(rest[k]))]
    BY <1>5 DEF RunHandler
  <2>2. k = m
    BY <1>1, <1>2, <2>1 DEF MessagesTypeOK
  <2>3. rest[m] # <<>> /\ ran'[m] = Append(r, Head(rest[m]))
    BY <1>1, <1>2, <2>1, <2>2 DEF MessagesTypeOK
  <2>4. m \in readers
    BY <1>1, <2>3 DEF MessageGoes
  <2>5. Head(rest[m]) \in Registered
    BY <1>1, <2>3, <2>4, ReaderFacts
  <2>6. PICK h \in Handlers : h = Head(rest[m])
    BY <1>1, <2>3, TailFacts DEF MessagesTypeOK
  <2>7. PICK w \in Seq(Handlers) : w = Append(r, h) /\ Len(w) = Len(r) + 1 /\ w[Len(r) + 1] = h
    BY ZenonT(30), AppendFacts
  <2>8. Last(ran'[m]) = Head(rest[m])
    BY <2>3, <2>6, <2>7 DEF Last
  <2> QED  BY <2>5, <2>8 DEF DispatchInv, NumberingOK
<1>6. CASE Return(k)
  <2>1. ran' = [ran EXCEPT ![k] = <<>>]
    BY <1>6 DEF Return
  <2>2. ran'[m] = <<>> \/ ran'[m] = r
    BY <1>1, <1>2, <2>1 DEF MessagesTypeOK
  <2>3. Len(<<>>) = 0
    OBVIOUS
  <2> QED  BY <1>2, <2>2, <2>3
<1> QED  BY <1>4, <1>5, <1>6

(* A handler that was replaced, or cleared by Close, is not called any     *)
(* more, but by a dispatch that had timed out.                             *)
THEOREM RetiredStop == DispatchSpec => RetiredHandlersStop
BY DispatchInvariant, RetiredQuiet, PTL DEF DispatchSpec, RetiredHandlersStop

-----------------------------------------------------------------------------
(* The three together, as they are model-checked: a step of the whole is a *)
(* step or a stutter of each.                                              *)

LEMMA AllParts == AllSpec => DispatchSpec /\ MiddlewareSpec /\ EventHandlersSpec
<1>1. AllInit => DispatchInit /\ MiddlewareInit /\ EventHandlersInit
  BY DEF AllInit
<1>2. [AllNext]_allVars => /\ [DispatchNext]_dispatchVars
                           /\ [MiddlewareNext]_middlewareVars
                           /\ [EventHandlersNext]_eventHandlersVars
  BY DEF AllNext, allVars
<1> QED  BY <1>1, <1>2, PTL DEF AllSpec, DispatchSpec, MiddlewareSpec, EventHandlersSpec

(* The same promise for messages and for events: what is run is what was   *)
(* registered when the dispatch, or the call of HandleEvent, began.        *)
THEOREM HandlersRun == AllSpec => []HandlersRunAsRegistered
<1>1. AllSpec => [](DispatchTypeOK /\ RunsAsRegistered) /\ []EventsRunAsRegistered
  BY AllParts, RunRegistered, EventsRun
<1>2. DispatchTypeOK /\ RunsAsRegistered /\ EventsRunAsRegistered => HandlersRunAsRegistered
  BY DEF HandlersRunAsRegistered
<1> QED  BY <1>1, <1>2, PTL
=============================================================================
