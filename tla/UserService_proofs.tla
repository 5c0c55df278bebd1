-------------------------- MODULE UserService_proofs --------------------------
(***************************************************************************)
(* The login limit of user-service for all limits, window lengths, numbers *)
(* of requests and faults: what RateLimiter promises for its window        *)
(* counters, that nothing user-service does around it (registration,       *)
(* MongoDB, tokens, search, crashes) takes any of it away, that behind it  *)
(* the accounts are still those of lab4, and that every token has a place  *)
(* in some window.                                                         *)
(***************************************************************************)
EXTENDS UserService, FiniteSetTheorems, TLAPS

\* The first tick after window k.
EndOf(k) == (k + 1) * Window

\* Requests that were stamped and are still to be counted.
ToCount == {w \in Workers : pc[w] = "incr"}

\* Requests that hold a count of window k, and those of them that will pass.
Holders(k) ==
  {w \in Workers : pc[w] \in {"expire", "decide"} /\ TrueWindow(stamp[w]) = k}
Passing(k) == {w \in Holders(k) : Allowed(seen[w])}

\* The places window k has given away: Limit for each life of its counter that
\* is over, and for the present one as many as it has counted, Limit at most.
Given(k) ==
  IF count[k] = 0 THEN Limit * lives[k]
  ELSE IF count[k] <= Limit THEN Limit * (lives[k] - 1) + count[k]
  ELSE Limit * lives[k]

\* No request is stamped with a time to come.
StampsArePast == \A w \in Workers : stamp[w] <= now

\* No counter shows more than was counted, nor a request more than its counter.
CountsAreReal ==
  /\ \A k \in Windows : count[k] <= counted[k] /\ lives[k] <= counted[k]
  /\ \A w \in Workers :
       IF pc[w] \in {"idle", "incr"} THEN seen[w] = 0
       ELSE seen[w] <= counted[TrueWindow(stamp[w])]

\* A key that is to expire lives until the end of its window.
KeysOutliveWindows == \A k \in Windows : expiry[k] # NoExpiry => expiry[k] >= EndOf(k)

\* A counter that nothing disturbed began once, and is gone only after its window.
OneLife ==
  \A k \in Windows \ disturbed :
    /\ lives[k] <= 1
    /\ counted[k] > 0 /\ count[k] = 0 => now >= EndOf(k)

\* Each request is counted once at most.
CountedOnce ==
  /\ IsFiniteSet(ToCount)
  /\ \A k \in Windows : counted[k] + Cardinality(ToCount) <= requests

\* Who passed, and who is going to, had a place each.
PlacesSuffice ==
  \A k \in Windows :
    /\ IsFiniteSet(Holders(k))
    /\ admitted[k] + Cardinality(Holders(k)) <= counted[k]
    /\ admitted[k] + Cardinality(Passing(k)) <= Given(k)

Inv ==
  /\ TypeOK /\ StampsArePast /\ CountsAreReal /\ KeysOutliveWindows
  /\ OneLife /\ CountedOnce /\ PlacesSuffice

-----------------------------------------------------------------------------
(* Arithmetic of windows.                                                  *)

\* The window of a tick is one of the model's, begins no later and ends after it.
LEMMA WindowOfTick ==
  ASSUME NEW t \in 0 .. MaxTime
  PROVE  /\ TrueWindow(t) \in Windows /\ WindowOf(t) = TrueWindow(t)
         /\ TrueWindow(t) * Window <= t /\ t < EndOf(TrueWindow(t))
<1>1. Window \in Nat \ {0} /\ MaxTime \in Nat /\ t \in Nat /\ t <= MaxTime
  BY LimiterAssumption
<1>2. /\ t \div Window \in Nat
      /\ (t \div Window) * Window <= t /\ t < (t \div Window + 1) * Window
  BY <1>1
<1>3. t \div Window <= MaxTime \div Window
  BY <1>1
<1> QED
  BY <1>1, <1>2, <1>3 DEF TrueWindow, WindowOf, Windows, EndOf

\* A tick that is not before the end of a window is in a later one.
LEMMA AfterTheEnd ==
  ASSUME NEW t \in 0 .. MaxTime, NEW k \in Windows, t >= EndOf(k)
  PROVE  TrueWindow(t) > k
<1>1. Window \in Nat \ {0} /\ t \in Nat /\ k \in Nat
  BY LimiterAssumption DEF Windows
<1>2. t < (t \div Window + 1) * Window /\ t \div Window \in Nat
  BY <1>1
<1>3. CASE t \div Window <= k
  <2>1. (t \div Window + 1) * Window <= (k + 1) * Window
    BY <1>1, <1>2, <1>3
  <2> QED
    BY <1>1, <1>2, <2>1 DEF EndOf
<1> QED
  BY <1>1, <1>2, <1>3 DEF TrueWindow

\* An expiry set within or after window k lies behind its end.
LEMMA ExpiryAfterEnd ==
  ASSUME NEW k \in Windows, NEW t \in Nat, k * Window <= t
  PROVE  EndOf(k) \in Nat /\ t + Window >= EndOf(k)
<1>1. Window \in Nat /\ k \in Nat
  BY LimiterAssumption DEF Windows
<1>2. (k + 1) * Window = k * Window + Window
  BY <1>1
<1> QED
  BY <1>1, <1>2 DEF EndOf

-----------------------------------------------------------------------------
(* What the sets of requests are after a step.                             *)

\* A set with an element is not empty.
LEMMA MemberCounts ==
  ASSUME NEW S, IsFiniteSet(S), NEW x \in S
  PROVE  /\ Cardinality(S) \in Nat /\ Cardinality(S) >= 1
         /\ IsFiniteSet(S \ {x}) /\ Cardinality(S \ {x}) = Cardinality(S) - 1
<1>1. /\ Cardinality(S) \in Nat /\ Cardinality(S \ {x}) \in Nat
      /\ IsFiniteSet(S \ {x}) /\ Cardinality(S \ {x}) = Cardinality(S) - 1
  BY FS_RemoveElement, FS_CardinalityType
<1> QED
  BY <1>1

\* A request at its INCR has room in the history of every window.
LEMMA RoomToCount ==
  ASSUME Inv, NEW w \in Workers, pc[w] = "incr", NEW k \in Windows
  PROVE  counted[k] + 1 <= MaxRequests
<1>1. w \in ToCount /\ IsFiniteSet(ToCount)
  BY DEF Inv, CountedOnce, ToCount
<1>2. Cardinality(ToCount) \in Nat /\ Cardinality(ToCount) >= 1
  BY <1>1, MemberCounts
<1> QED
  BY <1>2, LimiterAssumption DEF Inv, CountedOnce, TypeOK

\* A request at its verdict has room among those admitted.
LEMMA RoomToAdmit ==
  ASSUME Inv, NEW w \in Workers, pc[w] = "decide"
  PROVE  admitted[TrueWindow(stamp[w])] + 1 <= counted[TrueWindow(stamp[w])]
<1> DEFINE k == TrueWindow(stamp[w])
<1>1. k \in Windows
  BY WindowOfTick DEF Inv, TypeOK
<1>2. w \in Holders(k) /\ IsFiniteSet(Holders(k))
  BY <1>1 DEF Inv, PlacesSuffice, Holders
<1>3. Cardinality(Holders(k)) \in Nat /\ Cardinality(Holders(k)) >= 1
  BY <1>2, MemberCounts
<1> QED
  BY <1>1, <1>3 DEF Inv, PlacesSuffice, TypeOK

-----------------------------------------------------------------------------
\* The limiter begins with the invariant.
LEMMA InitInv == Init => Inv
<1> SUFFICES ASSUME Init PROVE Inv
  OBVIOUS
<1>1. /\ MaxTime \in Nat /\ MaxRequests \in Nat
      /\ Limit \in Nat \ {0} /\ Window \in Nat \ {0}
  BY LimiterAssumption
<1>2. TypeOK
  BY <1>1 DEF Init, TypeOK, NoExpiry, NoAnswer
<1>3. TrueWindow(0) \in Windows
  BY <1>1, WindowOfTick
<1>4. StampsArePast /\ CountsAreReal /\ KeysOutliveWindows /\ OneLife
  BY <1>1, <1>3 DEF Init, StampsArePast, CountsAreReal, KeysOutliveWindows, OneLife, NoExpiry
<1>5. ToCount = {} /\ \A k \in Windows : Holders(k) = {} /\ Passing(k) = {}
  BY DEF Init, ToCount, Holders, Passing
<1>6. CountedOnce
  BY <1>5, FS_EmptySet DEF Init, CountedOnce
<1>7. PlacesSuffice
  BY <1>1, <1>5, FS_EmptySet DEF Init, PlacesSuffice, Given
<1> QED
  BY <1>2, <1>4, <1>6, <1>7 DEF Inv

\* Each step keeps each variable in its type.
LEMMA TypeStep ==
  ASSUME Inv, [Next]_limiterVars
  PROVE  TypeOK'
<1> USE LimiterAssumption
<1>1. TypeOK
  BY DEF Inv
<1>2. ASSUME NEW t \in 0 .. MaxTime, IncrKey(t), \A k \in Windows : counted[k] + 1 <= MaxRequests
      PROVE  /\ count' \in [Windows -> 0 .. MaxRequests]
             /\ counted' \in [Windows -> 0 .. MaxRequests]
             /\ lives' \in [Windows -> 0 .. MaxRequests]
             /\ disturbed' \subseteq Windows
  <2>1. TrueWindow(t) \in Windows /\ WindowOf(t) = TrueWindow(t)
    BY <1>2, WindowOfTick
  <2>2. \A k \in Windows : count[k] + 1 \in 0 .. MaxRequests /\ lives[k] + 1 \in 0 .. MaxRequests
                           /\ counted[k] + 1 \in 0 .. MaxRequests
    BY <1>1, <1>2 DEF Inv, CountsAreReal, TypeOK
  <2> QED
    BY <1>1, <1>2, <2>1, <2>2 DEF IncrKey, TypeOK
<1>3. ASSUME NEW w \in Workers, NEW a, Answer(w, a),
             a \in [code : {"none", "allowed", "429", "500"},
                    remaining : 0 .. Limit, reset : 1 .. Window]
      PROVE  /\ pc' \in [Workers -> {"idle", "incr", "expire", "decide"}]
             /\ stamp' \in [Workers -> 0 .. MaxTime]
             /\ seen' \in [Workers -> 0 .. MaxRequests]
             /\ answer' \in [Workers -> [code : {"none", "allowed", "429", "500"},
                                         remaining : 0 .. Limit, reset : 1 .. Window]]
  BY <1>1, <1>3 DEF Answer, TypeOK
<1>4. Failed \in [code : {"none", "allowed", "429", "500"},
                  remaining : 0 .. Limit, reset : 1 .. Window]
  BY DEF Failed
<1>5. ASSUME NEW k \in Windows, ExpireKey(k)
      PROVE  expiry' \in [Windows -> 0 .. MaxTime + Window]
  BY <1>1, <1>5 DEF ExpireKey, TypeOK, NoExpiry
<1>6. ASSUME NEW w \in Workers, CheckLimit(w) PROVE TypeOK'
  <2>1. stamp[w] \in 0 .. MaxTime /\ TrueWindow(stamp[w]) \in Windows
        /\ WindowOf(stamp[w]) = TrueWindow(stamp[w])
    BY <1>1, WindowOfTick DEF TypeOK
  <2>2. CASE ReadClock(w)
    BY <1>1, <2>2 DEF ReadClock, TypeOK, counters, history
  <2>3. CASE Incr(w)
    <3>1. \A k \in Windows : counted[k] + 1 <= MaxRequests
      BY <2>3, RoomToCount DEF Incr
    <3>2. count[TrueWindow(stamp[w])] + 1 \in 0 .. MaxRequests
      BY <1>1, <2>1, <3>1 DEF Inv, CountsAreReal, TypeOK
    <3>3. seen' \in [Workers -> 0 .. MaxRequests]
          /\ pc' \in [Workers -> {"idle", "incr", "expire", "decide"}]
      BY <1>1, <2>1, <2>3, <3>2 DEF Incr, TypeOK
    <3> QED
      BY <1>1, <1>2, <2>1, <2>3, <3>1, <3>3 DEF Incr, TypeOK
  <2>4. CASE IncrRaises(w)
    <3>1. \A k \in Windows : counted[k] + 1 <= MaxRequests
      BY <2>4, RoomToCount DEF IncrRaises
    <3>2. /\ count' \in [Windows -> 0 .. MaxRequests]
          /\ counted' \in [Windows -> 0 .. MaxRequests]
          /\ lives' \in [Windows -> 0 .. MaxRequests]
          /\ disturbed' \subseteq Windows
      BY <1>1, <1>2, <2>1, <2>4, <3>1 DEF IncrRaises, TypeOK, history
    <3>3. Answer(w, Failed) /\ UNCHANGED <<now, expiry, requests, admitted>>
      BY <2>4 DEF IncrRaises
    <3> QED
      BY <1>1, <1>3, <1>4, <3>2, <3>3 DEF TypeOK
  <2>5. CASE Expire(w)
    BY <1>1, <1>5, <2>1, <2>5 DEF Expire, TypeOK, history
  <2>6. CASE ExpireRaises(w)
    <3>1. expiry' \in [Windows -> 0 .. MaxTime + Window]
      BY <1>1, <1>5, <2>1, <2>6 DEF ExpireRaises, TypeOK
    <3>2. Answer(w, Failed) /\ UNCHANGED <<now, count, requests, counted, lives, disturbed, admitted>>
      BY <2>6 DEF ExpireRaises, history
    <3> QED
      BY <1>1, <1>3, <1>4, <3>1, <3>2 DEF TypeOK
  <2>7. CASE Decide(w)
    <3> DEFINE k == TrueWindow(stamp[w])
               code == IF Allowed(seen[w]) THEN "allowed" ELSE "429"
               a == [code |-> code, remaining |-> Remaining(seen[w]),
                     reset |-> ResetAfter(stamp[w])]
    <3>1. Remaining(seen[w]) \in 0 .. Limit
      BY <1>1 DEF Remaining, TypeOK
    <3>2. ResetAfter(stamp[w]) \in 1 .. Window
      <4>1. stamp[w] % Window \in 0 .. Window - 1
        BY <2>1
      <4> QED
        BY <4>1 DEF ResetAfter
    <3>3. Answer(w, a)
      BY <2>7 DEF Decide
    <3>4. a \in [code : {"none", "allowed", "429", "500"},
                 remaining : 0 .. Limit, reset : 1 .. Window]
      BY <3>1, <3>2
    <3>5. admitted[k] + 1 \in 0 .. MaxRequests
      BY <1>1, <2>1, <2>7, RoomToAdmit DEF Decide, TypeOK
    <3>6. admitted' \in [Windows -> 0 .. MaxRequests]
      BY <1>1, <2>1, <2>7, <3>5 DEF Decide, TypeOK
    <3>7. UNCHANGED <<now, count, expiry, requests, counted, lives, disturbed>>
      BY <2>7 DEF Decide, counters, history
    <3> HIDE DEF a
    <3> QED
      BY <1>1, <1>3, <3>3, <3>4, <3>6, <3>7 DEF TypeOK
  <2> QED
    BY <1>6, <2>2, <2>3, <2>4, <2>5, <2>6, <2>7 DEF CheckLimit
<1>7. CASE Tick
  BY <1>1, <1>7 DEF Tick, TypeOK, locals, history, NoExpiry
<1>8. CASE ServiceCrash
  BY <1>1, <1>8 DEF ServiceCrash, TypeOK, counters, history, NoAnswer
<1>9. CASE RedisRestart
  BY <1>1, <1>9 DEF RedisRestart, TypeOK, locals, NoExpiry
<1>10. CASE UNCHANGED limiterVars
  BY <1>1, <1>10 DEF TypeOK, limiterVars, counters, locals, history
<1> QED
  BY <1>6, <1>7, <1>8, <1>9, <1>10 DEF Next

\* The clock never goes back, and a stamp is read from it.
LEMMA StampStep ==
  ASSUME Inv, [Next]_limiterVars
  PROVE  StampsArePast'
<1> USE DEF Inv, TypeOK, StampsArePast
<1>1. ASSUME NEW w \in Workers, CheckLimit(w) PROVE StampsArePast'
  <2>1. UNCHANGED now
    BY <1>1 DEF CheckLimit, ReadClock, Incr, IncrRaises, Expire, ExpireRaises, Decide
  <2>2. stamp' = stamp \/ stamp' = [stamp EXCEPT ![w] = 0] \/ stamp' = [stamp EXCEPT ![w] = now]
    BY <1>1 DEF CheckLimit, ReadClock, Incr, IncrRaises, Expire, ExpireRaises, Decide, Answer
  <2> QED
    BY <2>1, <2>2
<1>2. CASE Tick
  BY <1>2 DEF Tick, locals
<1>3. CASE ServiceCrash
  BY <1>3 DEF ServiceCrash
<1>4. CASE RedisRestart \/ UNCHANGED limiterVars
  BY <1>4 DEF RedisRestart, limiterVars, locals
<1> QED
  BY <1>1, <1>2, <1>3, <1>4 DEF Next

-----------------------------------------------------------------------------
\* What INCR does to the counter, the history and the request that sent it
\* (rate_limiter.cpp:13-16).
LEMMA Counting ==
  ASSUME Inv, NEW w \in Workers, IncrKey(stamp[w]), NEW k \in Windows
  PROVE  LET own == k = TrueWindow(stamp[w]) IN
         /\ count'[k] = IF own THEN count[k] + 1 ELSE count[k]
         /\ counted'[k] = IF own THEN counted[k] + 1 ELSE counted[k]
         /\ lives'[k] = IF own /\ count[k] = 0 THEN lives[k] + 1 ELSE lives[k]
         /\ disturbed \subseteq disturbed'
         /\ own /\ TrueWindow(now) > k => k \in disturbed'
<1>1. /\ TrueWindow(stamp[w]) \in Windows /\ WindowOf(stamp[w]) = TrueWindow(stamp[w])
  BY WindowOfTick DEF Inv, TypeOK
<1> QED
  BY <1>1 DEF IncrKey, Inv, TypeOK

\* A step leaves the counters alone, counts one request, or empties counters.
LEMMA CounterSteps ==
  ASSUME Inv, [Next]_limiterVars
  PROVE  \/ UNCHANGED <<now, count, counted, lives, disturbed>>
         \/ \E w \in Workers : pc[w] = "incr" /\ IncrKey(stamp[w]) /\ UNCHANGED <<now, expiry>>
         \/ Tick
         \/ RedisRestart
<1>1. ASSUME NEW w \in Workers, CheckLimit(w)
      PROVE  \/ UNCHANGED <<now, count, counted, lives, disturbed>>
             \/ pc[w] = "incr" /\ IncrKey(stamp[w]) /\ UNCHANGED <<now, expiry>>
  BY <1>1 DEF CheckLimit, ReadClock, Incr, IncrRaises, Expire, ExpireRaises, Decide,
              counters, history
<1>2. CASE ServiceCrash \/ UNCHANGED limiterVars
  BY <1>2 DEF ServiceCrash, limiterVars, counters, history
<1> QED
  BY <1>1, <1>2 DEF Next

\* What a step of request w does to the locals of request v.
LEMMA LocalSteps ==
  ASSUME TypeOK, NEW w \in Workers, CheckLimit(w), NEW v \in Workers
  PROVE  \/ pc'[v] = pc[v] /\ seen'[v] = seen[v] /\ stamp'[v] = stamp[v]
         \/ pc[v] = "idle" /\ pc'[v] = "incr" /\ seen'[v] = seen[v]
         \/ v = w /\ Incr(v)
         \/ pc[v] = "expire" /\ pc'[v] = "decide" /\ seen'[v] = seen[v] /\ stamp'[v] = stamp[v]
         \/ pc'[v] = "idle" /\ seen'[v] = 0
<1>1. CASE ReadClock(w)
  BY <1>1 DEF ReadClock, TypeOK
<1>2. CASE Incr(w)
  BY <1>2 DEF Incr, TypeOK
<1>3. CASE Expire(w)
  BY <1>3 DEF Expire, TypeOK
<1>4. CASE IncrRaises(w) \/ ExpireRaises(w) \/ Decide(w)
  BY <1>4 DEF IncrRaises, ExpireRaises, Decide, Answer, TypeOK
<1> QED
  BY <1>1, <1>2, <1>3, <1>4 DEF CheckLimit

\* Nothing is on a counter, or in a request, that was not counted.
LEMMA CountsStep ==
  ASSUME Inv, TypeOK', [Next]_limiterVars
  PROVE  CountsAreReal'
<1>1. TypeOK /\ CountsAreReal
  BY DEF Inv
<1>2. \A k \in Windows : count'[k] <= counted'[k] /\ lives'[k] <= counted'[k] /\ counted[k] <= counted'[k]
  <2>1. CASE UNCHANGED <<now, count, counted, lives, disturbed>>
    BY <1>1, <2>1 DEF CountsAreReal, TypeOK
  <2>2. ASSUME NEW w \in Workers, IncrKey(stamp[w])
        PROVE  \A k \in Windows : count'[k] <= counted'[k] /\ lives'[k] <= counted'[k] /\ counted[k] <= counted'[k]
    BY <1>1, <2>2, Counting DEF CountsAreReal, TypeOK
  <2>3. CASE Tick \/ RedisRestart
    <3>1. \A k \in Windows : count'[k] = count[k] \/ count'[k] = 0
      BY <2>3 DEF Tick, RedisRestart
    <3>2. counted' = counted /\ lives' = lives
      BY <2>3 DEF Tick, RedisRestart, history
    <3> QED
      BY <1>1, <3>1, <3>2 DEF CountsAreReal, TypeOK
  <2> QED
    BY <2>1, <2>2, <2>3, CounterSteps
<1>3. ASSUME NEW v \in Workers, pc'[v] \in {"idle", "incr"} PROVE seen'[v] = 0
  <2>1. ASSUME NEW w \in Workers, CheckLimit(w) PROVE seen'[v] = 0
    <3>1. ~Incr(v)
      BY <1>1, <1>3 DEF Incr, TypeOK
    <3> QED
      BY <1>1, <1>3, <2>1, <3>1, LocalSteps DEF CountsAreReal
  <2>2. CASE ServiceCrash
    BY <2>2 DEF ServiceCrash
  <2>3. CASE Tick \/ RedisRestart \/ UNCHANGED limiterVars
    BY <1>1, <1>3, <2>3 DEF Tick, RedisRestart, limiterVars, locals, CountsAreReal
  <2> QED
    BY <2>1, <2>2, <2>3 DEF Next
<1>4. ASSUME NEW v \in Workers, pc'[v] \notin {"idle", "incr"}
      PROVE  seen'[v] <= counted'[TrueWindow(stamp'[v])]
  <2>1. TrueWindow(stamp[v]) \in Windows
    BY <1>1, WindowOfTick DEF TypeOK
  <2>2. ASSUME pc[v] \notin {"idle", "incr"}, seen'[v] = seen[v], stamp'[v] = stamp[v]
        PROVE  seen'[v] <= counted'[TrueWindow(stamp'[v])]
    <3>1. seen[v] <= counted[TrueWindow(stamp[v])]
      BY <1>1, <2>2 DEF CountsAreReal
    <3> QED
      BY <1>1, <1>2, <2>1, <2>2, <3>1 DEF TypeOK
  <2>3. ASSUME Incr(v) PROVE seen'[v] <= counted'[TrueWindow(stamp'[v])]
    <3>1. seen'[v] = count[TrueWindow(stamp[v])] + 1 /\ stamp' = stamp /\ IncrKey(stamp[v])
      BY <1>1, <2>3 DEF Incr, TypeOK, WindowOf, TrueWindow
    <3>2. counted'[TrueWindow(stamp[v])] = counted[TrueWindow(stamp[v])] + 1
      BY <2>1, <3>1, Counting
    <3>3. count[TrueWindow(stamp[v])] <= counted[TrueWindow(stamp[v])]
      BY <1>1, <2>1 DEF CountsAreReal
    <3> QED
      BY <1>1, <2>1, <3>1, <3>2, <3>3 DEF TypeOK
  <2>4. ASSUME NEW w \in Workers, CheckLimit(w)
        PROVE  \/ Incr(v)
               \/ pc[v] \notin {"idle", "incr"} /\ seen'[v] = seen[v] /\ stamp'[v] = stamp[v]
    BY <1>1, <1>4, <2>4, LocalSteps
  <2>5. ~ServiceCrash
    BY <1>4 DEF ServiceCrash
  <2>6. CASE Tick \/ RedisRestart \/ UNCHANGED limiterVars
    BY <1>4, <2>2, <2>6 DEF Tick, RedisRestart, limiterVars, locals
  <2> QED
    BY <2>2, <2>3, <2>4, <2>5, <2>6 DEF Next
<1> QED
  BY <1>2, <1>3, <1>4 DEF CountsAreReal

-----------------------------------------------------------------------------
\* EXPIRE comes after the stamp of its request, so that the key outlives the
\* window of that stamp (rate_limiter.cpp:18-20).
LEMMA KeysStep ==
  ASSUME Inv, [Next]_limiterVars
  PROVE  KeysOutliveWindows'
<1>1. TypeOK /\ KeysOutliveWindows /\ StampsArePast
  BY DEF Inv
<1> SUFFICES ASSUME NEW k \in Windows, expiry'[k] # NoExpiry
             PROVE  expiry'[k] >= EndOf(k)
  BY DEF KeysOutliveWindows, EndOf
<1>2. expiry'[k] = expiry[k] => expiry'[k] >= EndOf(k)
  BY <1>1 DEF KeysOutliveWindows
<1>3. ASSUME NEW w \in Workers, CheckLimit(w) PROVE expiry'[k] >= EndOf(k)
  <2>1. /\ TrueWindow(stamp[w]) \in Windows /\ WindowOf(stamp[w]) = TrueWindow(stamp[w])
        /\ TrueWindow(stamp[w]) * Window <= stamp[w] /\ stamp[w] <= now
        /\ stamp[w] \in Nat /\ now \in Nat
    BY <1>1, WindowOfTick DEF TypeOK, StampsArePast
  <2>2. CASE ExpireKey(WindowOf(stamp[w]))
    <3>1. \/ expiry'[k] = expiry[k]
          \/ k = TrueWindow(stamp[w]) /\ expiry'[k] = now + Window
      BY <1>1, <2>1, <2>2 DEF ExpireKey, TypeOK
    <3>2. TrueWindow(stamp[w]) * Window <= now
      BY <2>1, LimiterAssumption DEF Windows
    <3>3. now + Window >= EndOf(TrueWindow(stamp[w]))
      BY <2>1, <3>2, ExpiryAfterEnd
    <3> QED
      BY <1>2, <3>1, <3>3
  <2>3. CASE UNCHANGED expiry
    BY <1>2, <2>3
  <2> QED
    BY <1>3, <2>2, <2>3
    DEF CheckLimit, ReadClock, Incr, IncrRaises, Expire, ExpireRaises, Decide, counters
<1>4. CASE Tick \/ RedisRestart
  BY <1>2, <1>4 DEF Tick, RedisRestart
<1>5. CASE ServiceCrash \/ UNCHANGED limiterVars
  BY <1>2, <1>5 DEF ServiceCrash, limiterVars, counters
<1> QED
  BY <1>3, <1>4, <1>5 DEF Next

\* The counter of a window begins a second time only when its key is gone, and
\* its key is gone within the window only if Redis lost it.
LEMMA OneLifeStep ==
  ASSUME Inv, [Next]_limiterVars
  PROVE  OneLife'
<1>1. TypeOK /\ KeysOutliveWindows /\ OneLife /\ CountsAreReal
  BY DEF Inv
<1> SUFFICES ASSUME NEW k \in Windows, k \notin disturbed'
             PROVE  /\ lives'[k] <= 1
                    /\ counted'[k] > 0 /\ count'[k] = 0 => now' >= EndOf(k)
  BY DEF OneLife, EndOf
<1>2. k * Window \in Nat /\ EndOf(k) \in Nat /\ now \in 0 .. MaxTime /\ MaxTime \in Nat
  <2>1. k \in Nat /\ Window \in Nat
    BY LimiterAssumption DEF Windows
  <2> QED
    BY <1>1, <2>1, LimiterAssumption DEF EndOf, TypeOK
<1>3. k \notin disturbed => /\ lives[k] <= 1
                            /\ counted[k] > 0 /\ count[k] = 0 => now >= EndOf(k)
  BY <1>1 DEF OneLife
<1>4. CASE UNCHANGED <<now, count, counted, lives, disturbed>>
  BY <1>3, <1>4
<1>5. ASSUME NEW w \in Workers, IncrKey(stamp[w]), UNCHANGED <<now, expiry>>
      PROVE  lives'[k] <= 1 /\ (counted'[k] > 0 /\ count'[k] = 0 => now' >= EndOf(k))
  <2>1. k \notin disturbed
    BY <1>5, Counting
  <2>2. CASE k = TrueWindow(stamp[w])
    <3>1. count'[k] = count[k] + 1 /\ TrueWindow(now) <= k
      <4>1. count'[k] = count[k] + 1 /\ ~(TrueWindow(now) > k)
        BY <1>5, <2>2, Counting
      <4>2. TrueWindow(now) \in Windows
        BY <1>1, WindowOfTick DEF TypeOK
      <4> QED
        BY <4>1, <4>2, LimiterAssumption DEF Windows
    <3>2. ~(now >= EndOf(k))
      <4>1. TrueWindow(now) \in Windows
        BY <1>2, WindowOfTick
      <4> QED
        BY <1>2, <3>1, <4>1, AfterTheEnd, LimiterAssumption DEF Windows
    <3>3. count[k] = 0 => counted[k] = 0 /\ lives[k] = 0
      BY <1>1, <1>3, <2>1, <3>2 DEF TypeOK, CountsAreReal
    <3>4. lives'[k] = IF count[k] = 0 THEN lives[k] + 1 ELSE lives[k]
      BY <1>5, <2>2, Counting
    <3> QED
      BY <1>1, <1>3, <2>1, <3>1, <3>3, <3>4 DEF TypeOK
  <2>3. CASE k # TrueWindow(stamp[w])
    <3>1. count'[k] = count[k] /\ counted'[k] = counted[k] /\ lives'[k] = lives[k]
      BY <1>5, <2>3, Counting
    <3> QED
      BY <1>3, <1>5, <2>1, <3>1
  <2> QED
    BY <2>2, <2>3
<1>6. CASE Tick
  <2>1. /\ now' = now + 1 /\ UNCHANGED <<counted, lives, disturbed>>
        /\ count'[k] = IF expiry[k] = now + 1 THEN 0 ELSE count[k]
    BY <1>6 DEF Tick, history
  <2>2. expiry[k] = now + 1 => now' >= EndOf(k)
    BY <1>1, <1>2, <2>1 DEF KeysOutliveWindows, NoExpiry
  <2> QED
    BY <1>1, <1>2, <1>3, <2>1, <2>2 DEF TypeOK
<1>7. CASE RedisRestart
  <2>1. k \notin disturbed /\ ~(count[k] > 0) /\ UNCHANGED <<now, counted, lives>>
    BY <1>7 DEF RedisRestart
  <2> QED
    BY <1>1, <1>3, <2>1 DEF TypeOK
<1> QED
  BY <1>4, <1>5, <1>6, <1>7, CounterSteps

-----------------------------------------------------------------------------
\* A request is stamped once and counted once: who waits for INCR and what was
\* counted in a window are together no more than the requests made.
LEMMA CountedOnceStep ==
  ASSUME Inv, [Next]_limiterVars
  PROVE  CountedOnce'
<1>1. TypeOK /\ IsFiniteSet(ToCount)
  BY DEF Inv, CountedOnce
<1>2. /\ Cardinality(ToCount) \in Nat
      /\ \A k \in Windows : counted[k] + Cardinality(ToCount) <= requests
  BY <1>1, FS_CardinalityType DEF Inv, CountedOnce
<1>3. ASSUME ToCount' \subseteq ToCount, UNCHANGED <<counted, requests>>
      PROVE  CountedOnce'
  <2>1. /\ IsFiniteSet(ToCount') /\ Cardinality(ToCount') \in Nat
        /\ Cardinality(ToCount') <= Cardinality(ToCount)
    BY <1>1, <1>3, FS_Subset, FS_CardinalityType
  <2> QED
    BY <1>1, <1>2, <1>3, <2>1 DEF CountedOnce, TypeOK
<1>4. ASSUME NEW w \in Workers, ReadClock(w) PROVE CountedOnce'
  <2>1. ToCount' = ToCount \cup {w} /\ w \notin ToCount
    BY <1>1, <1>4 DEF ReadClock, ToCount, TypeOK
  <2>2. IsFiniteSet(ToCount') /\ Cardinality(ToCount') = Cardinality(ToCount) + 1
    BY <1>1, <2>1, FS_AddElement
  <2>3. requests' = requests + 1 /\ counted' = counted
    BY <1>4 DEF ReadClock, history
  <2> QED
    BY <1>1, <1>2, <2>2, <2>3 DEF CountedOnce, TypeOK
<1>5. ASSUME NEW w \in Workers, pc[w] = "incr", IncrKey(stamp[w]), UNCHANGED requests,
             ToCount' = ToCount \ {w}
      PROVE  CountedOnce'
  <2>1. w \in ToCount
    BY <1>5 DEF ToCount
  <2>2. IsFiniteSet(ToCount') /\ Cardinality(ToCount') = Cardinality(ToCount) - 1
    BY <1>1, <1>5, <2>1, MemberCounts
  <2>3. \A k \in Windows : counted'[k] = counted[k] \/ counted'[k] = counted[k] + 1
    BY <1>5, Counting
  <2>4. ASSUME NEW k \in Windows PROVE counted'[k] + Cardinality(ToCount') <= requests'
    <3>1. counted[k] + Cardinality(ToCount) <= requests /\ counted[k] \in Nat /\ requests \in Nat
      BY <1>1, <1>2, LimiterAssumption DEF TypeOK
    <3> QED
      BY <1>2, <1>5, <2>2, <2>3, <3>1
  <2> QED
    BY <2>2, <2>4 DEF CountedOnce
<1>6. ASSUME NEW w \in Workers, CheckLimit(w), ~ReadClock(w)
      PROVE  CountedOnce'
  <2>1. UNCHANGED requests
    BY <1>6 DEF CheckLimit, Incr, IncrRaises, Expire, ExpireRaises, Decide
  <2>2. CASE pc[w] = "incr"
    <3>1. pc'[w] # "incr" /\ \A v \in Workers : v # w => pc'[v] = pc[v]
      BY <1>1, <1>6, <2>2
      DEF CheckLimit, Incr, IncrRaises, Expire, ExpireRaises, Decide, Answer, TypeOK
    <3>2. ToCount' = ToCount \ {w}
      BY <3>1 DEF ToCount
    <3>3. IncrKey(stamp[w]) \/ UNCHANGED counted
      BY <1>6, <2>2
      DEF CheckLimit, Incr, IncrRaises, Expire, ExpireRaises, Decide, history
    <3> QED
      BY <1>3, <1>5, <2>1, <2>2, <3>2, <3>3
  <2>3. CASE pc[w] # "incr"
    <3>1. UNCHANGED counted /\ \A v \in Workers : pc'[v] = "incr" => pc[v] = "incr"
      BY <1>1, <1>6, <2>3
      DEF CheckLimit, Incr, IncrRaises, Expire, ExpireRaises, Decide, Answer, TypeOK, history
    <3>2. ToCount' \subseteq ToCount
      BY <3>1 DEF ToCount
    <3> QED
      BY <1>3, <2>1, <3>1, <3>2
  <2> QED
    BY <2>2, <2>3
<1>7. CASE Tick \/ RedisRestart \/ ServiceCrash \/ UNCHANGED limiterVars
  <2>1. UNCHANGED <<counted, requests>>
    BY <1>7 DEF Tick, RedisRestart, ServiceCrash, limiterVars, history
  <2>2. \A v \in Workers : pc'[v] = "incr" => pc[v] = "incr"
    <3>1. CASE ServiceCrash
      BY <3>1 DEF ServiceCrash
    <3>2. CASE Tick \/ RedisRestart \/ UNCHANGED limiterVars
      BY <3>2 DEF Tick, RedisRestart, limiterVars, locals
    <3> QED
      BY <1>7, <3>1, <3>2
  <2>3. ToCount' \subseteq ToCount
    BY <2>2 DEF ToCount
  <2> QED
    BY <1>3, <2>1, <2>3
<1> QED
  BY <1>4, <1>6, <1>7 DEF Next

-----------------------------------------------------------------------------
\* A place more for each request that is counted up to Limit, and none is taken
\* back when a counter goes: what is left of its life is written off.
LEMMA PlacesGiven ==
  ASSUME TypeOK, TypeOK', NEW k \in Windows
  PROVE  /\ Given(k) \in Int /\ Given(k)' \in Int
         /\ count'[k] = count[k] /\ lives'[k] = lives[k] => Given(k)' = Given(k)
         /\ count'[k] = 0 /\ lives'[k] = lives[k] => Given(k)' >= Given(k)
         /\ count'[k] = count[k] + 1 /\ lives'[k] = (IF count[k] = 0 THEN lives[k] + 1 ELSE lives[k])
              => Given(k)' = Given(k) + (IF Allowed(count[k] + 1) THEN 1 ELSE 0)
<1>1. /\ count[k] \in Nat /\ count'[k] \in Nat /\ lives[k] \in Nat /\ lives'[k] \in Nat
      /\ Limit \in Nat \ {0}
  BY LimiterAssumption DEF TypeOK
<1>2. ASSUME NEW n \in Nat
      PROVE  /\ Limit * n \in Int /\ Limit * (n - 1) \in Int
             /\ Limit * (n - 1) = Limit * n - Limit
             /\ Limit * (n + 1) = Limit * n + Limit
  BY <1>1
<1>3. Given(k) \in Int /\ Given(k)' \in Int
  <2>1. /\ Limit * lives[k] \in Int /\ Limit * (lives[k] - 1) + count[k] \in Int
        /\ Limit * lives'[k] \in Int /\ Limit * (lives'[k] - 1) + count'[k] \in Int
    <3>1. /\ Limit * lives[k] \in Int /\ Limit * (lives[k] - 1) \in Int
          /\ Limit * lives'[k] \in Int /\ Limit * (lives'[k] - 1) \in Int
      BY <1>1, <1>2, Zenon
    <3> QED
      BY <1>1, <3>1
  <2> QED
    BY <2>1 DEF Given
<1>4. count'[k] = count[k] /\ lives'[k] = lives[k] => Given(k)' = Given(k)
  BY <1>1 DEF Given
<1>5. count'[k] = 0 /\ lives'[k] = lives[k] => Given(k)' >= Given(k)
  <2>1. Limit * (lives[k] - 1) = Limit * lives[k] - Limit /\ Limit * lives[k] \in Int
    BY <1>1, <1>2
  <2>2. Given(k) <= Limit * lives[k]
    BY <1>1, <2>1 DEF Given
  <2>3. count'[k] = 0 /\ lives'[k] = lives[k] => Given(k)' = Limit * lives[k]
    BY DEF Given
  <2> QED
    BY <1>1, <1>3, <2>1, <2>2, <2>3
<1>6. ASSUME count'[k] = count[k] + 1,
             lives'[k] = IF count[k] = 0 THEN lives[k] + 1 ELSE lives[k]
      PROVE  Given(k)' = Given(k) + (IF Allowed(count[k] + 1) THEN 1 ELSE 0)
  <2>1. CASE count[k] = 0
    BY <1>1, <1>2, <1>6, <2>1 DEF Given, Allowed
  <2>2. CASE count[k] # 0
    BY <1>1, <1>2, <1>6, <2>2 DEF Given, Allowed
  <2> QED
    BY <2>1, <2>2
<1> QED
  BY <1>3, <1>4, <1>5, <1>6

\* What PlacesSuffice says of one window.
PlacesOf(k) ==
  /\ IsFiniteSet(Holders(k))
  /\ admitted[k] + Cardinality(Holders(k)) <= counted[k]
  /\ admitted[k] + Cardinality(Passing(k)) <= Given(k)

\* The sets of requests of a window are finite.
LEMMA HoldersAreFinite ==
  ASSUME PlacesSuffice, NEW k \in Windows
  PROVE  /\ PlacesOf(k) /\ Passing(k) \subseteq Holders(k)
         /\ IsFiniteSet(Holders(k)) /\ IsFiniteSet(Passing(k))
         /\ Cardinality(Holders(k)) \in Nat /\ Cardinality(Passing(k)) \in Nat
<1>1. PlacesOf(k) /\ IsFiniteSet(Holders(k)) /\ Passing(k) \subseteq Holders(k)
  BY DEF PlacesSuffice, PlacesOf, Passing
<1> QED
  BY <1>1, FS_Subset, FS_CardinalityType

\* Places suffice when nobody is added to those that hold a count.
LEMMA PlacesStay ==
  ASSUME Inv, TypeOK', NEW k \in Windows, UNCHANGED admitted,
         Holders(k)' \subseteq Holders(k), Passing(k)' \subseteq Passing(k),
         counted'[k] >= counted[k], Given(k)' >= Given(k)
  PROVE  PlacesOf(k)'
<1>1. PlacesSuffice /\ TypeOK
  BY DEF Inv
<1>2. /\ IsFiniteSet(Holders(k)') /\ Cardinality(Holders(k)') <= Cardinality(Holders(k))
      /\ Cardinality(Passing(k)') <= Cardinality(Passing(k))
      /\ Cardinality(Holders(k)') \in Nat /\ Cardinality(Passing(k)') \in Nat
      /\ Cardinality(Holders(k)) \in Nat /\ Cardinality(Passing(k)) \in Nat
  <2>1. /\ IsFiniteSet(Holders(k)) /\ IsFiniteSet(Passing(k))
        /\ Cardinality(Holders(k)) \in Nat /\ Cardinality(Passing(k)) \in Nat
    BY <1>1, HoldersAreFinite
  <2>2. IsFiniteSet(Holders(k)') /\ Cardinality(Holders(k)') <= Cardinality(Holders(k))
    BY <2>1, FS_Subset
  <2>3. IsFiniteSet(Passing(k)') /\ Cardinality(Passing(k)') <= Cardinality(Passing(k))
    BY <2>1, FS_Subset
  <2> QED
    BY <2>1, <2>2, <2>3, FS_CardinalityType
<1>3. /\ admitted[k] + Cardinality(Holders(k)) <= counted[k]
      /\ admitted[k] + Cardinality(Passing(k)) <= Given(k)
  BY <1>1 DEF PlacesSuffice
<1>4. /\ admitted[k] \in Nat /\ counted[k] \in Nat /\ counted'[k] \in Nat
      /\ Given(k) \in Int /\ Given(k)' \in Int
  BY <1>1, PlacesGiven DEF TypeOK
<1>5. admitted'[k] + Cardinality(Holders(k)') <= counted'[k]
  BY <1>2, <1>3, <1>4
<1>6. admitted'[k] + Cardinality(Passing(k)') <= Given(k)'
  BY <1>2, <1>3, <1>4
<1> QED
  BY <1>2, <1>5, <1>6 DEF PlacesOf

\* A request that is counted takes a place if its count is Limit at most.
LEMMA PlaceTaken ==
  ASSUME Inv, TypeOK', NEW w \in Workers, Incr(w), NEW k \in Windows, k = TrueWindow(stamp[w])
  PROVE  PlacesOf(k)'
<1>1. PlacesSuffice /\ TypeOK /\ IncrKey(stamp[w]) /\ pc[w] = "incr" /\ UNCHANGED admitted
  BY DEF Inv, Incr
<1>2. /\ count'[k] = count[k] + 1 /\ counted'[k] = counted[k] + 1
      /\ lives'[k] = IF count[k] = 0 THEN lives[k] + 1 ELSE lives[k]
  BY <1>1, Counting
<1>3. seen' = [seen EXCEPT ![w] = count[k] + 1] /\ stamp' = stamp
      /\ pc' = [pc EXCEPT ![w] = IF count[k] + 1 = 1 THEN "expire" ELSE "decide"]
  <2>1. WindowOf(stamp[w]) = k
    BY <1>1, WindowOfTick DEF TypeOK
  <2> QED
    BY <2>1 DEF Incr
<1>4. w \notin Holders(k) /\ w \notin Passing(k)
  BY <1>1 DEF Holders, Passing
<1>5. Holders(k)' = Holders(k) \cup {w}
  BY <1>1, <1>3 DEF Holders, TypeOK
<1>6. Passing(k)' = IF Allowed(count[k] + 1) THEN Passing(k) \cup {w} ELSE Passing(k)
  BY <1>1, <1>3, <1>4, <1>5 DEF Passing, Allowed, TypeOK
<1>7. /\ IsFiniteSet(Holders(k)) /\ IsFiniteSet(Passing(k)) /\ PlacesOf(k)
      /\ Cardinality(Holders(k)) \in Nat /\ Cardinality(Passing(k)) \in Nat
  BY <1>1, HoldersAreFinite
<1>8. IsFiniteSet(Holders(k)') /\ Cardinality(Holders(k)') = Cardinality(Holders(k)) + 1
  <2>1. /\ IsFiniteSet(Holders(k) \cup {w})
        /\ Cardinality(Holders(k) \cup {w}) = Cardinality(Holders(k)) + 1
    BY <1>4, <1>7, FS_AddElement
  <2> QED
    BY <1>5, <2>1
<1>9. Cardinality(Passing(k)')
        = Cardinality(Passing(k)) + (IF Allowed(count[k] + 1) THEN 1 ELSE 0)
  <2>1. Cardinality(Passing(k) \cup {w}) = Cardinality(Passing(k)) + 1
    BY <1>4, <1>7, FS_AddElement
  <2> QED
    BY <1>6, <1>7, <2>1
<1>10. /\ Given(k) \in Int
       /\ Given(k)' = Given(k) + (IF Allowed(count[k] + 1) THEN 1 ELSE 0)
  BY <1>1, <1>2, PlacesGiven
<1>11. admitted[k] \in Nat /\ counted[k] \in Nat
  BY <1>1 DEF TypeOK
<1>12. admitted'[k] + Cardinality(Holders(k)') <= counted'[k]
  BY <1>1, <1>2, <1>7, <1>8, <1>11 DEF PlacesOf
<1>13. admitted'[k] + Cardinality(Passing(k)') <= Given(k)'
  BY <1>1, <1>7, <1>9, <1>10, <1>11 DEF PlacesOf
<1> QED
  BY <1>8, <1>12, <1>13 DEF PlacesOf

\* A request that is let through had its place; one that is rejected had none.
LEMMA PlaceUsed ==
  ASSUME Inv, TypeOK', NEW w \in Workers, Decide(w), NEW k \in Windows, k = TrueWindow(stamp[w])
  PROVE  PlacesOf(k)'
<1>1. PlacesSuffice /\ TypeOK /\ pc[w] = "decide"
  BY DEF Inv, Decide
<1>2. UNCHANGED <<count, counted, lives>>
  BY DEF Decide, counters, history
<1>3. admitted'[k] = IF Allowed(seen[w]) THEN admitted[k] + 1 ELSE admitted[k]
  BY <1>1 DEF Decide, TypeOK
<1>4. w \in Holders(k) /\ (w \in Passing(k) <=> Allowed(seen[w]))
  BY <1>1 DEF Holders, Passing
<1>5. pc'[w] = "idle" /\ \A v \in Workers \ {w} : /\ pc'[v] = pc[v] /\ seen'[v] = seen[v]
                                                  /\ stamp'[v] = stamp[v]
  BY <1>1 DEF Decide, Answer, TypeOK
<1>6. Holders(k)' = Holders(k) \ {w}
  BY <1>5 DEF Holders
<1>7. Passing(k)' = Passing(k) \ {w}
  BY <1>5, <1>6 DEF Passing, Holders, Allowed
<1>8. /\ IsFiniteSet(Holders(k)) /\ IsFiniteSet(Passing(k)) /\ PlacesOf(k)
      /\ Cardinality(Holders(k)) \in Nat /\ Cardinality(Passing(k)) \in Nat
  BY <1>1, HoldersAreFinite
<1>9. IsFiniteSet(Holders(k)') /\ Cardinality(Holders(k)') = Cardinality(Holders(k)) - 1
  BY <1>4, <1>6, <1>8, MemberCounts
<1>10. Cardinality(Passing(k)')
         = IF Allowed(seen[w]) THEN Cardinality(Passing(k)) - 1 ELSE Cardinality(Passing(k))
  <2>1. CASE Allowed(seen[w])
    BY <1>4, <1>7, <1>8, <2>1, MemberCounts
  <2>2. CASE ~Allowed(seen[w])
    <3>1. Passing(k)' = Passing(k)
      BY <1>4, <1>7, <2>2
    <3> QED
      BY <2>2, <3>1
  <2> QED
    BY <2>1, <2>2
<1>11. /\ Given(k) \in Int /\ Given(k)' = Given(k)
       /\ admitted[k] \in Nat /\ counted[k] \in Nat
  BY <1>1, <1>2, PlacesGiven DEF TypeOK
<1>12. admitted'[k] + Cardinality(Holders(k)') <= counted'[k]
  BY <1>2, <1>3, <1>8, <1>9, <1>11 DEF PlacesOf
<1>13. admitted'[k] + Cardinality(Passing(k)') <= Given(k)'
  BY <1>3, <1>8, <1>10, <1>11 DEF PlacesOf
<1> QED
  BY <1>9, <1>12, <1>13 DEF PlacesOf

\* The counters of a window, seen from its places, in any step.
LEMMA PlacesMonotone ==
  ASSUME Inv, TypeOK', [Next]_limiterVars, NEW k \in Windows
  PROVE  counted'[k] >= counted[k] /\ Given(k)' >= Given(k)
<1>1. TypeOK /\ counted[k] \in Nat /\ Given(k) \in Int
  BY PlacesGiven DEF Inv, TypeOK
<1>2. CASE UNCHANGED <<now, count, counted, lives, disturbed>>
  BY <1>1, <1>2, PlacesGiven
<1>3. ASSUME NEW w \in Workers, IncrKey(stamp[w])
      PROVE  counted'[k] >= counted[k] /\ Given(k)' >= Given(k)
  <2>1. CASE k = TrueWindow(stamp[w])
    <3>1. /\ count'[k] = count[k] + 1 /\ counted'[k] = counted[k] + 1
          /\ lives'[k] = IF count[k] = 0 THEN lives[k] + 1 ELSE lives[k]
      BY <1>3, <2>1, Counting
    <3>2. Given(k)' = Given(k) + (IF Allowed(count[k] + 1) THEN 1 ELSE 0)
      BY <1>1, <3>1, PlacesGiven
    <3> QED
      BY <1>1, <3>1, <3>2
  <2>2. CASE k # TrueWindow(stamp[w])
    <3>1. count'[k] = count[k] /\ counted'[k] = counted[k] /\ lives'[k] = lives[k]
      BY <1>3, <2>2, Counting
    <3>2. Given(k)' = Given(k)
      BY <1>1, <3>1, PlacesGiven
    <3> QED
      BY <1>1, <3>1, <3>2
  <2> QED
    BY <2>1, <2>2
<1>4. CASE Tick \/ RedisRestart
  <2>1. counted' = counted /\ lives' = lives /\ (count'[k] = count[k] \/ count'[k] = 0)
    BY <1>4 DEF Tick, RedisRestart, history
  <2>2. Given(k)' = Given(k) \/ Given(k)' >= Given(k)
    BY <1>1, <2>1, PlacesGiven
  <2> QED
    BY <1>1, <2>1, <2>2
<1> QED
  BY <1>2, <1>3, <1>4, CounterSteps

\* Each step leaves every window with places for those who passed and will.
LEMMA PlacesStep ==
  ASSUME Inv, TypeOK', [Next]_limiterVars
  PROVE  PlacesSuffice'
<1> SUFFICES ASSUME NEW k \in Windows PROVE PlacesOf(k)'
  BY DEF PlacesSuffice, PlacesOf
<1>1. TypeOK /\ counted'[k] >= counted[k] /\ Given(k)' >= Given(k)
  BY PlacesMonotone DEF Inv
<1>2. ASSUME UNCHANGED admitted,
             \A v \in Workers : v \in Holders(k)' =>
                v \in Holders(k) /\ seen'[v] = seen[v]
      PROVE  PlacesOf(k)'
  <2>1. Holders(k)' \subseteq Holders(k)
    BY <1>2 DEF Holders
  <2>2. Passing(k)' \subseteq Passing(k)
    BY <1>2 DEF Passing, Holders, Allowed
  <2> QED
    BY <1>1, <1>2, <2>1, <2>2, PlacesStay
<1>3. ASSUME NEW w \in Workers, CheckLimit(w) PROVE PlacesOf(k)'
  <2>1. CASE Decide(w) /\ k = TrueWindow(stamp[w])
    BY <2>1, PlaceUsed
  <2>2. CASE Incr(w) /\ k = TrueWindow(stamp[w])
    BY <2>2, PlaceTaken
  <2>3. CASE Incr(w) /\ k # TrueWindow(stamp[w])
    <3>1. stamp' = stamp /\ admitted' = admitted
      BY <2>3 DEF Incr
    <3>2. \A v \in Workers : v # w => pc'[v] = pc[v] /\ seen'[v] = seen[v]
      BY <1>1, <2>3 DEF Incr, TypeOK
    <3>3. w \notin Holders(k)'
      BY <2>3, <3>1 DEF Holders
    <3> QED
      BY <1>2, <3>1, <3>2, <3>3 DEF Holders
  <2>4. CASE ReadClock(w)
    <3>1. admitted' = admitted /\ seen' = seen /\ pc'[w] = "incr"
      BY <1>1, <2>4 DEF ReadClock, TypeOK
    <3>2. \A v \in Workers : v # w => pc'[v] = pc[v] /\ stamp'[v] = stamp[v]
      BY <1>1, <2>4 DEF ReadClock, TypeOK
    <3>3. w \notin Holders(k)'
      BY <3>1 DEF Holders
    <3> QED
      BY <1>2, <3>1, <3>2, <3>3 DEF Holders
  <2>5. CASE IncrRaises(w) \/ ExpireRaises(w)
    <3>1. admitted' = admitted /\ pc'[w] = "idle"
      BY <1>1, <2>5 DEF IncrRaises, ExpireRaises, Answer, TypeOK
    <3>2. \A v \in Workers : v # w => pc'[v] = pc[v] /\ seen'[v] = seen[v] /\ stamp'[v] = stamp[v]
      BY <1>1, <2>5 DEF IncrRaises, ExpireRaises, Answer, TypeOK
    <3>3. w \notin Holders(k)'
      BY <3>1 DEF Holders
    <3> QED
      BY <1>2, <3>1, <3>2, <3>3 DEF Holders
  <2>6. CASE Expire(w)
    <3>1. admitted' = admitted /\ seen' = seen /\ stamp' = stamp /\ pc[w] = "expire"
      BY <2>6 DEF Expire
    <3>2. \A v \in Workers : v # w => pc'[v] = pc[v]
      BY <1>1, <2>6 DEF Expire, TypeOK
    <3> QED
      BY <1>2, <3>1, <3>2 DEF Holders
  <2>7. CASE Decide(w) /\ k # TrueWindow(stamp[w])
    <3>1. admitted'[k] = admitted[k] /\ pc'[w] = "idle"
      BY <1>1, <2>7 DEF Decide, Answer, TypeOK
    <3>2. \A v \in Workers : v # w => pc'[v] = pc[v] /\ seen'[v] = seen[v] /\ stamp'[v] = stamp[v]
      BY <1>1, <2>7 DEF Decide, Answer, TypeOK
    <3>3. w \notin Holders(k)' /\ w \notin Holders(k)
      BY <2>7, <3>1 DEF Holders
    <3>4. Holders(k)' = Holders(k)
      BY <3>2, <3>3 DEF Holders
    <3>5. Passing(k)' = Passing(k)
      BY <3>2, <3>3, <3>4 DEF Passing, Allowed, Holders
    <3>6. counted' = counted /\ count' = count /\ lives' = lives
      BY <2>7 DEF Decide, counters, history
    <3>7. Given(k)' = Given(k)
      BY <3>6 DEF Given
    <3> QED
      BY <3>1, <3>4, <3>5, <3>6, <3>7 DEF Inv, PlacesSuffice, PlacesOf
  <2> QED
    BY <1>3, <2>1, <2>2, <2>3, <2>4, <2>5, <2>6, <2>7 DEF CheckLimit
<1>4. CASE ServiceCrash
  <2>1. admitted' = admitted /\ \A v \in Workers : v \notin Holders(k)'
    BY <1>4 DEF ServiceCrash, Holders
  <2> QED
    BY <1>2, <2>1
<1>5. CASE Tick \/ RedisRestart \/ UNCHANGED limiterVars
  <2>1. UNCHANGED <<pc, seen, stamp, admitted>>
    BY <1>5 DEF Tick, RedisRestart, limiterVars, locals
  <2> QED
    BY <1>2, <2>1 DEF Holders
<1> QED
  BY <1>3, <1>4, <1>5 DEF Next

LEMMA InvStep == Inv /\ [Next]_limiterVars => Inv'
<1> SUFFICES ASSUME Inv, [Next]_limiterVars PROVE Inv'
  OBVIOUS
<1>1. TypeOK'
  BY TypeStep
<1> QED
  BY <1>1, StampStep, CountsStep, KeysStep, OneLifeStep, CountedOnceStep, PlacesStep DEF Inv

-----------------------------------------------------------------------------
(* What the invariant says of who is let through.                          *)

LEMMA InvAdmits == Inv => AdmittedPerCounter /\ AdmittedAtMostLimit /\ RejectedOnlyAtLimit
<1> SUFFICES ASSUME Inv PROVE AdmittedPerCounter /\ AdmittedAtMostLimit /\ RejectedOnlyAtLimit
  OBVIOUS
<1>1. TypeOK /\ PlacesSuffice /\ Limit \in Nat \ {0}
  BY LimiterAssumption DEF Inv
<1>2. ASSUME NEW k \in Windows PROVE admitted[k] <= Limit * lives[k]
  <2>1. /\ admitted[k] + Cardinality(Passing(k)) <= Given(k) /\ Cardinality(Passing(k)) \in Nat
        /\ admitted[k] \in Nat /\ lives[k] \in Nat /\ count[k] \in Nat
    BY <1>1, HoldersAreFinite DEF PlacesSuffice, TypeOK
  <2>2. Limit * (lives[k] - 1) = Limit * lives[k] - Limit /\ Limit * lives[k] \in Int
    BY <1>1, <2>1
  <2>3. Given(k) <= Limit * lives[k] /\ Given(k) \in Int
    BY <1>1, <2>1, <2>2 DEF Given
  <2> QED
    BY <2>1, <2>2, <2>3
<1>3. ASSUME NEW k \in Windows, admitted[k] > Limit PROVE k \in disturbed
  <2>1. SUFFICES ASSUME k \notin disturbed PROVE FALSE
    OBVIOUS
  <2>2. lives[k] \in Nat /\ lives[k] <= 1 /\ admitted[k] \in Nat
    BY <1>1, <2>1 DEF Inv, OneLife, TypeOK
  <2>3. lives[k] = 0 \/ lives[k] = 1
    BY <2>2
  <2>4. Limit * lives[k] <= Limit /\ Limit * lives[k] \in Int
    BY <1>1, <2>3
  <2> QED
    BY <1>1, <1>2, <1>3, <2>2, <2>4
<1>4. RejectedOnlyAtLimit
  <2> SUFFICES ASSUME NEW w \in Workers, pc[w] = "decide", ~Allowed(seen[w])
               PROVE  counted[TrueWindow(stamp[w])] > Limit
    BY DEF RejectedOnlyAtLimit
  <2>1. seen[w] <= counted[TrueWindow(stamp[w])]
    BY DEF Inv, CountsAreReal
  <2>2. seen[w] \in Nat /\ counted[TrueWindow(stamp[w])] \in Nat
    BY <1>1, WindowOfTick DEF TypeOK
  <2> QED
    BY <1>1, <2>1, <2>2 DEF Allowed
<1> QED
  BY <1>2, <1>3, <1>4 DEF AdmittedPerCounter, AdmittedAtMostLimit

-----------------------------------------------------------------------------
(* The limiter inside the service.                                         *)

\* What user-service does is, for the limiter, a step of CheckLimit, of its
\* surroundings, or nothing.
LEMMA ServiceStep == [ServiceNext]_serviceVars => [Next]_limiterVars
<1> SUFFICES ASSUME [ServiceNext]_serviceVars PROVE [Next]_limiterVars
  OBVIOUS
<1>1. ASSUME NEW w \in Workers, Request(w) PROVE [Next]_limiterVars
  <2>1. CASE Limited(w)
    BY <2>1 DEF Limited, Next, CheckLimit
  <2>2. CASE Login(w)
    BY <2>2 DEF Login, Next, CheckLimit
  <2>3. CASE Authenticate(w)
    BY <2>3 DEF Authenticate, A!AuthenticateUser, A!FindRaises, limits, limiterVars
  <2>4. CASE GiveToken(w)
    BY <2>4 DEF GiveToken, A!GenerateToken, A!AnswerLogin, limits, limiterVars
  <2>5. CASE Register(w)
    BY <2>5 DEF Register, A!CreateRefused, A!BeginCreate, A!Accept, limits, limiterVars
  <2>6. CASE CreateUser(w)
    BY <2>6 DEF CreateUser, A!InsertOne, A!InsertRaises, limits, limiterVars
  <2>7. CASE GetUser(w)
    BY <2>7 DEF GetUser, A!GetUser, limits, limiterVars
  <2>8. CASE SearchUsers(w)
    BY <2>8 DEF SearchUsers, limits, limiterVars
  <2> QED
    BY <1>1, <2>1, <2>2, <2>3, <2>4, <2>5, <2>6, <2>7, <2>8 DEF Request
<1>2. CASE TimePasses \/ Crash \/ RedisLosesData
  BY <1>2 DEF TimePasses, Crash, RedisLosesData, Next
<1>3. CASE UNCHANGED serviceVars
  BY <1>3 DEF serviceVars
<1> QED
  BY <1>1, <1>2, <1>3 DEF ServiceNext

\* Whatever user-service does, its limiter is RateLimiter: no handler touches
\* a counter but through CheckLimit.
THEOREM LimiterInService == ServiceSpec => Spec
<1>1. ServiceInit => Init
  BY DEF ServiceInit
<1> QED
  BY <1>1, ServiceStep, PTL DEF ServiceSpec, Spec

\* The invariant the theorems below rest on.
LEMMA ServiceInv == ServiceSpec => []Inv
<1>1. Spec => []Inv
  BY InitInv, InvStep, PTL DEF Spec
<1> QED
  BY <1>1, LimiterInService, PTL

\* Every variable of the limiter keeps its type.
THEOREM TypeCorrect == ServiceSpec => []TypeOK
<1>1. Inv => TypeOK
  BY DEF Inv
<1> QED
  BY <1>1, ServiceInv, PTL

\* However logins, failures and crashes interleave, a window admits more than
\* Limit only if its counter was disturbed.
THEOREM LimitHolds == ServiceSpec => []AdmittedAtMostLimit
BY InvAdmits, ServiceInv, PTL

\* A disturbance costs at most Limit for each time the counter began.
THEOREM LimitPerCounter == ServiceSpec => []AdmittedPerCounter
BY InvAdmits, ServiceInv, PTL

\* A login is rejected only if its own window was counted beyond Limit.
THEOREM RejectionsAreDue == ServiceSpec => []RejectedOnlyAtLimit
BY InvAdmits, ServiceInv, PTL

-----------------------------------------------------------------------------
(* The accounts inside the service.                                        *)

\* lab4's user-service, with the same users, requests and tokens, and no parcels.
Lab4 == INSTANCE Lab4System_proofs WITH
          pc <- step, UniqueIndex <- FALSE, Faults <- AccountFaults,
          Clients <- {}, MaxParcels <- 0, ParcelColumns <- {}, parcels <- <<>>,
          sender <- [c \in {} |-> {}],
          told <- [c \in {} |-> [code |-> "none", ids |-> {}]]

\* What lab4 asks of its constants holds of those of the service.
LEMMA Lab4Constants ==
  /\ Life \in Nat /\ MaxTime \in Nat /\ MaxUsers \in Nat /\ MaxTokens \in Nat
  /\ FALSE \in BOOLEAN
  /\ AccountFaults \subseteq {"mongo", "crash"}
  /\ 0 \in Nat
BY LimiterAssumption, ServiceAssumption DEF AccountFaults

LEMMA Lab4Init == ServiceInit => Lab4!SystemInit
<1> SUFFICES ASSUME ServiceInit PROVE Lab4!SystemInit
  OBVIOUS
<1>1. Lab4!Init
  BY DEF ServiceInit, A!Init, Lab4!Init, A!NoReply, Lab4!NoReply, A!Credentials, Lab4!Credentials
<1> QED
  BY <1>1 DEF Lab4!SystemInit

\* Each step of the service is, for the accounts, a step of lab4's user-service
\* or none: the limiter comes before the body of a login is read.
LEMMA Lab4Step == [ServiceNext]_serviceVars => [Lab4!SystemNext]_(Lab4!systemVars)
<1> SUFFICES ASSUME [ServiceNext]_serviceVars PROVE [Lab4!SystemNext]_(Lab4!systemVars)
  OBVIOUS
<1>1. UNCHANGED Lab4!parcelVars
  BY DEF Lab4!parcelVars
<1>2. ASSUME UNCHANGED accounts, now' = now PROVE UNCHANGED Lab4!systemVars
  BY <1>1, <1>2 DEF accounts, Lab4!systemVars, Lab4!accountVars
<1>3. ASSUME NEW w \in Workers, Request(w) PROVE [Lab4!SystemNext]_(Lab4!systemVars)
  <2> USE DEF A!Answer, Lab4!Answer
  <2>1. CASE Limited(w)
    BY <1>2, <2>1 DEF Limited, ReadClock, Incr, IncrRaises, Expire, ExpireRaises
  <2>2. CASE Login(w)
    <3>1. CASE UNCHANGED accounts
      BY <1>2, <2>2, <3>1 DEF Login, Decide
    <3>2. CASE A!LoginRefused(w)
      <4>1. Lab4!LoginRefused(w)
        BY <3>2 DEF A!LoginRefused, Lab4!LoginRefused
      <4> QED
        BY <1>1, <4>1 DEF Lab4!SystemNext, Lab4!Next, Lab4!Session
    <3>3. CASE \E c \in A!Credentials : A!BeginLogin(w, c)
      <4>1. \E c \in Lab4!Credentials : Lab4!BeginLogin(w, c)
        BY <3>3 DEF A!Credentials, Lab4!Credentials, A!BeginLogin, Lab4!BeginLogin,
                    A!Accept, Lab4!Accept, A!NoReply, Lab4!NoReply
      <4> QED
        BY <1>1, <4>1 DEF Lab4!SystemNext, Lab4!Next, Lab4!Session
    <3> QED
      BY <2>2, <3>1, <3>2, <3>3 DEF Login
  <2>3. CASE Authenticate(w)
    <3>1. Lab4!AuthenticateUser(w) \/ Lab4!FindRaises(w)
      BY <2>3 DEF Authenticate, A!AuthenticateUser, Lab4!AuthenticateUser, A!FindRaises,
                  Lab4!FindRaises, A!GetUserByLogin, Lab4!GetUserByLogin, A!Named, Lab4!Named
    <3> QED
      BY <1>1, <3>1 DEF Lab4!SystemNext, Lab4!Next, Lab4!Session
  <2>4. CASE GiveToken(w)
    <3>1. CASE A!GenerateToken(w)
      <4>1. Lab4!GenerateToken(w)
        BY <3>1 DEF A!GenerateToken, Lab4!GenerateToken
      <4> QED
        BY <1>1, <4>1 DEF Lab4!SystemNext, Lab4!Next, Lab4!Session
    <3>2. CASE A!AnswerLogin(w)
      <4>1. Lab4!AnswerLogin(w)
        BY <3>2 DEF A!AnswerLogin, Lab4!AnswerLogin, A!Cardinality, Lab4!Cardinality,
                    A!IsFiniteSet, Lab4!IsFiniteSet
      <4> QED
        BY <1>1, <4>1 DEF Lab4!SystemNext, Lab4!Next, Lab4!Session
    <3> QED
      BY <2>4, <3>1, <3>2 DEF GiveToken
  <2>5. CASE Register(w)
    <3>1. CASE A!CreateRefused(w)
      <4>1. Lab4!CreateRefused(w)
        BY <3>1 DEF A!CreateRefused, Lab4!CreateRefused
      <4> QED
        BY <1>1, <4>1 DEF Lab4!SystemNext, Lab4!Next, Lab4!Registration
    <3>2. CASE \E c \in A!Credentials : A!BeginCreate(w, c)
      <4>1. \E c \in Lab4!Credentials : Lab4!BeginCreate(w, c)
        BY <3>2 DEF A!Credentials, Lab4!Credentials, A!BeginCreate, Lab4!BeginCreate,
                    A!Accept, Lab4!Accept, A!NoReply, Lab4!NoReply
      <4> QED
        BY <1>1, <4>1 DEF Lab4!SystemNext, Lab4!Next, Lab4!Registration
    <3> QED
      BY <2>5, <3>1, <3>2 DEF Register
  <2>6. CASE CreateUser(w)
    <3>1. Lab4!InsertOne(w) \/ Lab4!InsertRaises(w)
      BY <2>6 DEF CreateUser, A!InsertOne, Lab4!InsertOne, A!InsertRaises, Lab4!InsertRaises,
                  A!DuplicateKey, Lab4!DuplicateKey, A!Stored, Lab4!Stored, A!Named, Lab4!Named,
                  A!Cardinality, Lab4!Cardinality, A!IsFiniteSet, Lab4!IsFiniteSet
    <3> QED
      BY <1>1, <3>1 DEF Lab4!SystemNext, Lab4!Next, Lab4!Registration
  <2>7. CASE GetUser(w)
    <3>1. \E l \in Logins : Lab4!GetUser(w, l)
      BY <2>7 DEF GetUser, A!GetUser, Lab4!GetUser, A!GetUserByLogin, Lab4!GetUserByLogin,
                  A!Named, Lab4!Named
    <3> QED
      BY <1>1, <3>1 DEF Lab4!SystemNext, Lab4!Next, Lab4!Session
  <2>8. CASE SearchUsers(w)
    <3>1. Lab4!SearchUsers(w)
      BY <2>8 DEF SearchUsers, Lab4!SearchUsers, SearchUsersByQuery, Lab4!SearchUsersByQuery
    <3> QED
      BY <1>1, <3>1 DEF Lab4!SystemNext
  <2> QED
    BY <1>3, <2>1, <2>2, <2>3, <2>4, <2>5, <2>6, <2>7, <2>8 DEF Request
<1>4. CASE TimePasses
  <2>1. Lab4!Tick
    BY <1>4 DEF TimePasses, Tick, accounts, Lab4!Tick
  <2> QED
    BY <1>1, <2>1 DEF Lab4!SystemNext, Lab4!Next
<1>5. CASE Crash
  <2>1. Lab4!ServiceCrash
    BY <1>5 DEF Crash, A!ServiceCrash, Lab4!ServiceCrash, A!NoReply, Lab4!NoReply
  <2> QED
    BY <1>1, <2>1 DEF Lab4!SystemNext, Lab4!Next
<1>6. CASE RedisLosesData
  BY <1>2, <1>6 DEF RedisLosesData, RedisRestart
<1>7. CASE UNCHANGED serviceVars
  BY <1>2, <1>7 DEF serviceVars, limiterVars
<1> QED
  BY <1>3, <1>4, <1>5, <1>6, <1>7 DEF ServiceNext

\* user-service of lab5 and lab6 is lab4's behind a limiter: to the accounts
\* nothing happens that does not happen without the limiter.
THEOREM ImplementsLab4 == ServiceSpec => Lab4!SystemSpec
BY Lab4Init, Lab4Step, PTL DEF ServiceSpec, Lab4!SystemSpec

\* What lab4 knows of its accounts at every moment holds in the service.
LEMMA AccountsInit == ServiceInit => Lab4!SystemInv
BY Lab4Init, Lab4Constants, Lab4!SystemInitInv DEF Lab4!SystemInitInv

LEMMA AccountsStep ==
  ASSUME Lab4!SystemInv, [ServiceNext]_serviceVars
  PROVE  /\ Lab4!SystemInv'
         /\ (\A w \in Workers : Lab4!Doubled(w)) \/ UNCHANGED Lab4!accountVars
BY Lab4Step, Lab4Constants, Lab4!SystemStepInv DEF Lab4!SystemStepInv

LEMMA AccountsInv == ServiceSpec => []Lab4!SystemInv
BY AccountsInit, AccountsStep, PTL DEF ServiceSpec

\* What Accounts promises of registrations and tokens holds behind the limiter,
\* with its failures, its crashes and the loss of its data.
THEOREM AccountsInService ==
  ServiceSpec => [](A!TypeOK /\ A!CreatedIsOwn /\ A!AcceptedIsBacked)
<1>1. ASSUME Lab4!SystemInv PROVE A!TypeOK
  BY <1>1 DEF Lab4!SystemInv, Lab4!Inv, Lab4!TypeOK, A!TypeOK, A!Times, Lab4!Times,
              A!Users, Lab4!Users, A!Tokens, Lab4!Tokens, A!Credentials, Lab4!Credentials,
              A!Cardinality, Lab4!Cardinality, A!IsFiniteSet, Lab4!IsFiniteSet
<1>2. ASSUME Lab4!SystemInv PROVE A!CreatedIsOwn
  BY <1>2 DEF Lab4!SystemInv, Lab4!Inv, Lab4!Underway, Lab4!Document, A!CreatedIsOwn
<1>3. ASSUME Lab4!SystemInv PROVE A!AcceptedIsBacked
  <2> SUFFICES ASSUME NEW t \in tokens, A!CheckAuth(t).status = "ok"
               PROVE  /\ now <= t.expires_at
                      /\ [id |-> A!CheckAuth(t).user_id, login |-> t.for.login,
                          password |-> t.for.password] \in users
    BY DEF A!AcceptedIsBacked
  <2>1. ~(now > t.exp) /\ A!CheckAuth(t).user_id = t.user_id
    BY DEF A!CheckAuth
  <2>2. Lab4!Inv /\ Lab4!Backed(t)
    BY <1>3 DEF Lab4!SystemInv, Lab4!Inv
  <2>3. t \in Lab4!Tokens /\ now \in Lab4!Times
    BY <2>2 DEF Lab4!Inv, Lab4!TypeOK
  <2>4. now \in Nat /\ t.exp \in Nat /\ t.expires_at \in Nat
    BY <2>3, Lab4Constants DEF Lab4!Tokens, Lab4!Times
  <2>5. t.exp <= t.expires_at /\ Lab4!Document(t.user_id, t.for) \in users
    BY <2>2 DEF Lab4!Backed
  <2> QED
    BY <2>1, <2>4, <2>5 DEF Lab4!Document
<1> QED
  BY <1>1, <1>2, <1>3, AccountsInv, PTL

\* Nor does the limiter make anybody's right password wrong.
THEOREM RefusalMeansDoubled == ServiceSpec => A!RefusedOnlyIfDoubled
<1>1. Lab4!SystemInv /\ [ServiceNext]_serviceVars
        => [\A w \in Workers :
              /\ step[w] = "find" /\ reply'[w].code = "401"
              /\ \E u \in A!Named(asked[w].login) : u.password = asked[w].password
              => A!Cardinality(A!Named(asked[w].login)) > 1]_(A!accountVars)
  BY AccountsStep DEF Lab4!Doubled, A!Named, Lab4!Named, A!accountVars, Lab4!accountVars,
                      A!Cardinality, Lab4!Cardinality, A!IsFiniteSet, Lab4!IsFiniteSet
<1> QED
  BY <1>1, AccountsInv, PTL DEF ServiceSpec, A!RefusedOnlyIfDoubled

-----------------------------------------------------------------------------
(* Tokens behind the limiter.                                              *)

\* Places, tokens and logins can be counted, and but for the logins that Redis
\* failed there are places enough.
TokensHavePlaces ==
  /\ IsFiniteSet(Places) /\ IsFiniteSet(tokens) /\ IsFiniteSet(LoggingIn)
  /\ uncounted \in Nat
  /\ TokensAreAdmitted

\* A step that lets nobody through, begins no login and gives no token.
LEMMA NobodyLetThrough ==
  ASSUME TokensHavePlaces, UNCHANGED <<admitted, tokens>>, LoggingIn' \subseteq LoggingIn,
         uncounted' \in {uncounted, uncounted + 1}
  PROVE  TokensHavePlaces'
<1>1. Places' = Places
  BY DEF Places, Windows
<1>2. /\ IsFiniteSet(LoggingIn') /\ Cardinality(LoggingIn') <= Cardinality(LoggingIn)
      /\ Cardinality(LoggingIn) \in Nat /\ Cardinality(LoggingIn') \in Nat
  BY FS_Subset, FS_CardinalityType DEF TokensHavePlaces
<1>3. Cardinality(tokens) \in Nat /\ Cardinality(Places) \in Nat
  BY FS_CardinalityType DEF TokensHavePlaces
<1> QED
  BY <1>1, <1>2, <1>3 DEF TokensHavePlaces, TokensAreAdmitted

\* A login that is let through begins in the place it was given.
LEMMA LoginTakesPlace ==
  ASSUME Inv, TokensHavePlaces, NEW w \in Workers, Decide(w), step[w] = "idle",
         answer'[w].code = "allowed", UNCHANGED <<tokens, uncounted>>,
         LoggingIn' \subseteq LoggingIn \cup {w}
  PROVE  TokensHavePlaces'
<1> DEFINE k == TrueWindow(stamp[w])
           place == <<k, admitted[k] + 1>>
<1>1. TypeOK /\ k \in Windows
  BY WindowOfTick DEF Inv, TypeOK
<1>2. admitted'[k] = admitted[k] + 1 /\ \A j \in Windows \ {k} : admitted'[j] = admitted[j]
  <2>1. answer'[w].code = IF Allowed(seen[w]) THEN "allowed" ELSE "429"
    BY <1>1 DEF Decide, Answer, TypeOK
  <2>2. Allowed(seen[w])
    BY <2>1
  <2> QED
    BY <1>1, <2>2 DEF Decide, TypeOK
<1>3. admitted[k] \in Nat /\ admitted[k] + 1 <= MaxRequests
  <2>1. admitted[k] + 1 <= counted[k] /\ counted[k] \in 0 .. MaxRequests /\ admitted[k] \in Nat
    BY <1>1, RoomToAdmit DEF Decide, TypeOK
  <2> QED
    BY <2>1, LimiterAssumption
<1>4. Places' = Places \cup {place}
  <2>1. place \in Windows \X (1 .. MaxRequests)
    BY <1>1, <1>3, LimiterAssumption
  <2>2. ASSUME NEW p \in Windows \X (1 .. MaxRequests)
        PROVE  p[2] <= admitted'[p[1]] <=> (p[2] <= admitted[p[1]] \/ p = place)
    <3>1. PICK j \in Windows, i \in 1 .. MaxRequests : p = <<j, i>>
      BY <2>2
    <3>2. CASE j # k
      BY <1>2, <3>1, <3>2
    <3>3. CASE j = k
      BY <1>2, <1>3, <3>1, <3>3, LimiterAssumption
    <3> QED
      BY <3>2, <3>3
  <2> HIDE DEF place
  <2> QED
    BY <2>1, <2>2 DEF Places, Windows
<1>5. place \notin Places
  BY <1>3 DEF Places
<1> HIDE DEF place
<1>6. IsFiniteSet(Places') /\ Cardinality(Places') = Cardinality(Places) + 1
  BY <1>4, <1>5, FS_AddElement DEF TokensHavePlaces
<1>7. w \notin LoggingIn
  BY DEF LoggingIn
<1>8. /\ IsFiniteSet(LoggingIn \cup {w})
      /\ Cardinality(LoggingIn \cup {w}) = Cardinality(LoggingIn) + 1
  BY <1>7, FS_AddElement DEF TokensHavePlaces
<1>9. IsFiniteSet(LoggingIn') /\ Cardinality(LoggingIn') <= Cardinality(LoggingIn) + 1
  BY <1>8, FS_Subset
<1>10. /\ Cardinality(LoggingIn) \in Nat /\ Cardinality(LoggingIn') \in Nat
       /\ Cardinality(tokens) \in Nat /\ Cardinality(Places) \in Nat
  BY <1>9, FS_CardinalityType DEF TokensHavePlaces
<1> QED
  BY <1>6, <1>9, <1>10 DEF TokensHavePlaces, TokensAreAdmitted

\* A token is given in the place of its login, which is over.
LEMMA TokenTakesPlace ==
  ASSUME TokensHavePlaces, NEW w \in Workers, step[w] = "answer",
         UNCHANGED <<admitted, uncounted>>,
         NEW t, tokens' = tokens \cup {t}, LoggingIn' = LoggingIn \ {w}
  PROVE  TokensHavePlaces'
<1>1. Places' = Places
  BY DEF Places, Windows
<1>2. w \in LoggingIn
  BY DEF LoggingIn
<1>3. /\ IsFiniteSet(LoggingIn') /\ Cardinality(LoggingIn') = Cardinality(LoggingIn) - 1
      /\ Cardinality(LoggingIn) \in Nat
  BY <1>2, MemberCounts DEF TokensHavePlaces
<1>4. /\ IsFiniteSet(tokens')
      /\ Cardinality(tokens') = Cardinality(tokens) \/ Cardinality(tokens') = Cardinality(tokens) + 1
      /\ Cardinality(tokens) \in Nat /\ Cardinality(Places) \in Nat
  BY FS_AddElement, FS_CardinalityType DEF TokensHavePlaces
<1> QED
  BY <1>1, <1>3, <1>4 DEF TokensHavePlaces, TokensAreAdmitted

LEMMA TokensInit == ServiceInit => TokensHavePlaces
<1> SUFFICES ASSUME ServiceInit PROVE TokensHavePlaces
  OBVIOUS
<1>1. Places = {}
  BY DEF ServiceInit, Init, Places
<1>2. LoggingIn = {} /\ tokens = {}
  BY DEF ServiceInit, A!Init, LoggingIn
<1>3. uncounted = 0
  BY DEF ServiceInit
<1>4. Cardinality({}) = 0 /\ IsFiniteSet({})
  BY FS_EmptySet
<1> QED
  BY <1>1, <1>2, <1>3, <1>4 DEF TokensHavePlaces, TokensAreAdmitted

\* Each step of the service keeps a place for each login and each token: only
\* Decide gives places, and only to a login that goes on at once.
LEMMA TokensStep ==
  ASSUME Inv, Lab4!SystemInv, TokensHavePlaces, [ServiceNext]_serviceVars
  PROVE  TokensHavePlaces'
<1>1. step \in [Workers -> {"idle", "insert", "find", "sign", "answer"}]
  BY DEF Lab4!SystemInv, Lab4!Inv, Lab4!TypeOK
<1>2. ASSUME UNCHANGED <<admitted, tokens, step>>, uncounted' \in {uncounted, uncounted + 1}
      PROVE  TokensHavePlaces'
  BY <1>2, NobodyLetThrough DEF LoggingIn
<1>3. ASSUME NEW w \in Workers, Request(w) PROVE TokensHavePlaces'
  <2>1. ASSUME NEW s, step' = [step EXCEPT ![w] = s],
               w \in LoggingIn \/ s \notin {"find", "sign", "answer"},
               UNCHANGED <<admitted, tokens, uncounted>>
        PROVE  TokensHavePlaces'
    <3>1. LoggingIn' \subseteq LoggingIn
      BY <1>1, <2>1 DEF LoggingIn
    <3> QED
      BY <2>1, <3>1, NobodyLetThrough
  <2>2. CASE Limited(w)
    BY <1>2, <2>2 DEF Limited, ReadClock, Incr, IncrRaises, Expire, ExpireRaises, accounts
  <2>3. CASE Login(w)
    <3>1. CASE answer'[w].code = "429" /\ UNCHANGED accounts
      <4>1. admitted' = admitted
        <5>1. answer'[w].code = IF Allowed(seen[w]) THEN "allowed" ELSE "429"
          BY <2>3 DEF Login, Decide, Answer, Inv, TypeOK
        <5>2. ~Allowed(seen[w])
          BY <3>1, <5>1
        <5> QED
          BY <2>3, <5>2 DEF Login, Decide, Inv, TypeOK
      <4> QED
        BY <1>2, <2>3, <3>1, <4>1 DEF accounts, Login
    <3>2. CASE /\ answer'[w].code = "allowed"
               /\ A!LoginRefused(w) \/ \E c \in A!Credentials : A!BeginLogin(w, c)
      <4>1. step[w] = "idle" /\ tokens' = tokens
        BY <3>2 DEF A!LoginRefused, A!BeginLogin, A!Accept
      <4>2. LoggingIn' \subseteq LoggingIn \cup {w}
        BY <1>1, <3>2 DEF A!LoginRefused, A!BeginLogin, A!Accept, A!Answer, LoggingIn
      <4>3. Decide(w) /\ UNCHANGED uncounted
        BY <2>3 DEF Login
      <4> QED
        BY <3>2, <4>1, <4>2, <4>3, LoginTakesPlace
    <3> QED
      BY <2>3, <3>1, <3>2 DEF Login
  <2>4. CASE Authenticate(w)
    <3>1. w \in LoggingIn /\ UNCHANGED <<admitted, tokens, uncounted>>
      BY <2>4 DEF Authenticate, A!AuthenticateUser, A!FindRaises, LoggingIn, limits
    <3>2. \E s : step' = [step EXCEPT ![w] = s]
      BY <2>4 DEF Authenticate, A!AuthenticateUser, A!FindRaises, A!Answer
    <3> QED
      BY <2>1, <3>1, <3>2
  <2>5. CASE GiveToken(w)
    <3>1. CASE A!GenerateToken(w)
      BY <2>1, <2>5, <3>1 DEF GiveToken, A!GenerateToken, LoggingIn, limits
    <3>2. CASE A!AnswerLogin(w)
      <4>1. step[w] = "answer" /\ step' = [step EXCEPT ![w] = "idle"]
            /\ UNCHANGED <<admitted, uncounted>>
        BY <2>5, <3>2 DEF GiveToken, A!AnswerLogin, A!Answer, limits
      <4>2. LoggingIn' = LoggingIn \ {w}
        BY <1>1, <4>1 DEF LoggingIn
      <4>3. \E t : tokens' = tokens \cup {t}
        BY <3>2 DEF A!AnswerLogin
      <4> QED
        BY <4>1, <4>2, <4>3, TokenTakesPlace
    <3> QED
      BY <2>5, <3>1, <3>2 DEF GiveToken
  <2>6. CASE Register(w) \/ CreateUser(w)
    <3>1. UNCHANGED <<admitted, tokens, uncounted>>
      BY <2>6 DEF Register, CreateUser, A!CreateRefused, A!BeginCreate, A!Accept, A!InsertOne,
                  A!InsertRaises, limits
    <3>2. step' = [step EXCEPT ![w] = "insert"] \/ step' = [step EXCEPT ![w] = "idle"]
      BY <2>6 DEF Register, CreateUser, A!CreateRefused, A!BeginCreate, A!Accept, A!InsertOne,
                  A!InsertRaises, A!Answer
    <3> QED
      BY <2>1, <3>1, <3>2
  <2>7. CASE GetUser(w) \/ SearchUsers(w)
    BY <2>1, <2>7 DEF GetUser, A!GetUser, SearchUsers, A!Answer, limits
  <2> QED
    BY <1>3, <2>2, <2>3, <2>4, <2>5, <2>6, <2>7 DEF Request
<1>4. CASE Crash
  <2>1. UNCHANGED <<admitted, tokens, uncounted>> /\ LoggingIn' = {}
    BY <1>4 DEF Crash, ServiceCrash, A!ServiceCrash, LoggingIn
  <2> QED
    BY <2>1, NobodyLetThrough
<1>5. CASE TimePasses \/ RedisLosesData \/ UNCHANGED serviceVars
  BY <1>2, <1>5 DEF TimePasses, RedisLosesData, Tick, RedisRestart, accounts, serviceVars, limiterVars
<1> QED
  BY <1>3, <1>4, <1>5 DEF ServiceNext

\* There are never more tokens, and logins that may still get one, than requests
\* the limiter let through and could not count (login_user_handler.cpp:67-75, 101-115).
THEOREM TokensHaveAdmission == ServiceSpec => []TokensAreAdmitted
<1>1. TokensHavePlaces => TokensAreAdmitted
  BY DEF TokensHavePlaces
<1>2. ServiceSpec => []TokensHavePlaces
  BY TokensInit, TokensStep, ServiceInv, AccountsInv, PTL DEF ServiceSpec
<1> QED
  BY <1>1, <1>2, PTL
=============================================================================
