--------------------------- MODULE CacheAside_proofs ---------------------------
(***************************************************************************)
(* What CacheAside promises for every set of users and workers, every      *)
(* bound and every choice of faults: type correctness, and that a parcel   *)
(* is missing from a cached list only for the reasons StaleExplained       *)
(* names.                                                                  *)
(***************************************************************************)
EXTENDS CacheAside, TLAPS

\* A row that waits for its DEL belongs to the user whose key will be deleted.
PendingIsOwn == \A w \in Workers : pc[w] = "delete" => made[w] \in Own(user[w])

Inv == TypeOK /\ PendingIsOwn /\ StaleExplained

-----------------------------------------------------------------------------
\* The table after an INSERT (db.cpp:13-18): one row more, the others as before.
LEMMA InsertedRow ==
  ASSUME TypeOK, NEW u \in Users, InsertRow(u)
  PROVE  /\ parcels' \in Seq(Users)
         /\ Len(parcels') = Len(parcels) + 1
         /\ Len(parcels') <= MaxParcels
         /\ Ids = 1 .. Len(parcels)
         /\ Ids' = Ids \cup {Len(parcels) + 1}
         /\ Len(parcels) + 1 \notin Ids
         /\ \A id \in Ids : parcels'[id] = parcels[id]
         /\ parcels'[Len(parcels) + 1] = u
<1>1. parcels \in Seq(Users) /\ Len(parcels) \in Nat
  BY DEF TypeOK
<1>2. parcels' = Append(parcels, u) /\ Len(parcels) < MaxParcels
  BY DEF InsertRow
<1>3. Ids = 1 .. Len(parcels)
  BY <1>1 DEF Ids
<1>4. parcels' \in Seq(Users) /\ Len(parcels') = Len(parcels) + 1
  BY <1>1, <1>2
<1>5. Ids' = 1 .. Len(parcels')
  BY <1>4 DEF Ids
<1>6. /\ \A id \in 1 .. Len(parcels) : parcels'[id] = parcels[id]
      /\ parcels'[Len(parcels) + 1] = u
  BY <1>1, <1>2
<1>7. 1 .. Len(parcels) + 1 = (1 .. Len(parcels)) \cup {Len(parcels) + 1}
  BY <1>1
<1>8. Len(parcels) + 1 \notin 1 .. Len(parcels)
  BY <1>1
<1>9. Len(parcels') <= MaxParcels
  BY <1>1, <1>2, <1>4, BoundsAssumption
<1> QED
  BY <1>3, <1>4, <1>5, <1>6, <1>7, <1>8, <1>9

\* A cached list lives for at least one tick.
LEMMA TTLIsPositive == TTL \in Nat /\ TTL >= 1
BY BoundsAssumption DEF TTL

\* What POST does after its DEL is a step of the handlers.
LEMMA StepIsTyped == AfterDelete \in Steps
BY AfterDeleteAssumption DEF Steps

-----------------------------------------------------------------------------
\* The empty table and cache satisfy the invariant.
LEMMA InitInv == Init => Inv
<1> SUFFICES ASSUME Init PROVE Inv
  OBVIOUS
<1>1. parcels \in Seq(Users) /\ Len(parcels) = 0 /\ Ids = {}
  BY DEF Init, Ids
<1>2. TypeOK
  BY <1>1, TTLIsPositive, BoundsAssumption DEF Init, TypeOK, Steps, Codes
<1>3. PendingIsOwn
  BY DEF Init, PendingIsOwn
<1>4. StaleExplained
  BY DEF Init, StaleExplained, Cached
<1> QED
  BY <1>2, <1>3, <1>4 DEF Inv

\* Every step keeps every variable in its type.
LEMMA TypeStep ==
  ASSUME TypeOK, PendingIsOwn, [Next]_cacheVars
  PROVE  TypeOK'
<1> USE TTLIsPositive, StepIsTyped
<1>1. ASSUME UNCHANGED cacheVars PROVE TypeOK'
  BY <1>1 DEF TypeOK, Ids, cacheVars
<1>2. ASSUME NEW w \in Workers, NEW code \in Codes, Answer(w, code)
      PROVE  /\ pc' \in [Workers -> Steps]
             /\ made' \in [Workers -> Ids \cup {0}]
             /\ found' \in [Workers -> SUBSET Ids]
             /\ response' \in [Workers -> Codes]
  BY <1>2 DEF TypeOK, Answer, Steps
<1>3. ASSUME NEW u \in Users, DeleteKey(u)
      PROVE  list' \in [Users -> SUBSET Ids] /\ ttl' \in [Users -> 0 .. TTL]
  BY <1>3 DEF TypeOK, DeleteKey
<1>4. ASSUME NEW u \in Users, NEW ids \in SUBSET Ids, SetKey(u, ids)
      PROVE  list' \in [Users -> SUBSET Ids] /\ ttl' \in [Users -> 0 .. TTL]
  BY <1>4 DEF TypeOK, SetKey
<1>5. ASSUME NEW w \in Workers, PostStep(w) PROVE TypeOK'
  <2>1. CASE CreateRefused(w)
    BY <2>1 DEF CreateRefused, TypeOK, Ids, Codes, redis, requests, history
  <2>2. ASSUME NEW u \in Users, CreateInsert(w, u) \/ CreateInsertRaises(w, u)
        PROVE  TypeOK'
    <3>1. InsertRow(u)
      BY <2>2 DEF CreateInsert, CreateInsertRaises
    <3>2. /\ Ids \subseteq Ids' /\ Len(parcels) + 1 \in Ids'
          /\ parcels' \in Seq(Users) /\ Len(parcels') <= MaxParcels
      BY <3>1, InsertedRow
    <3>3. CASE CreateInsert(w, u)
      BY <3>2, <3>3 DEF CreateInsert, TypeOK, Steps, redis, history
    <3>4. CASE CreateInsertRaises(w, u)
      BY <3>2, <3>4 DEF CreateInsertRaises, TypeOK, Codes, redis, requests
    <3> QED
      BY <2>2, <3>3, <3>4
  <2>3. CASE CreateDelete(w)
    <3>1. user[w] \in Users /\ made[w] \in Ids
      BY <2>3 DEF TypeOK, PendingIsOwn, CreateDelete, Own
    <3>2. OvertakenBy(w) \subseteq Ids
      BY <3>1 DEF OvertakenBy
    <3> QED
      BY <1>3, <2>3, <3>1, <3>2 DEF CreateDelete, TypeOK, Ids
  <2>4. CASE CreateDeleteRaises(w)
    <3>1. user[w] \in Users /\ made[w] \in Ids
      BY <2>4 DEF TypeOK, PendingIsOwn, CreateDeleteRaises, Own
    <3>2. OvertakenBy(w) \subseteq Ids
      BY <3>1 DEF OvertakenBy
    <3>3. list' \in [Users -> SUBSET Ids] /\ ttl' \in [Users -> 0 .. TTL]
      BY <1>3, <2>4, <3>1 DEF CreateDeleteRaises, redis, TypeOK
    <3>4. raced' \subseteq Ids /\ skipped' \subseteq Ids
      BY <2>4, <3>1, <3>2 DEF CreateDeleteRaises, TypeOK
    <3>5. Answer(w, "500") /\ UNCHANGED <<parcels, user>>
      BY <2>4 DEF CreateDeleteRaises
    <3> QED
      BY <1>2, <3>3, <3>4, <3>5 DEF TypeOK, Ids, Codes
  <2>5. CASE CreateRespond(w)
    <3>1. Answer(w, "201") /\ UNCHANGED <<parcels, list, ttl, user, raced, skipped>>
      BY <2>5 DEF CreateRespond, redis, history
    <3> QED
      BY <1>2, <3>1 DEF TypeOK, Ids, Codes
  <2> QED
    BY <1>5, <2>1, <2>2, <2>3, <2>4, <2>5 DEF PostStep
<1>6. ASSUME NEW w \in Workers, GetStep(w) PROVE TypeOK'
  <2>1. ASSUME NEW u \in Users, GetHit(w, u) \/ GetRaises(w, u) PROVE TypeOK'
    <3>1. PICK code \in Codes : Answer(w, code)
      BY <2>1 DEF GetHit, GetRaises, Codes
    <3>2. /\ user' = [user EXCEPT ![w] = u]
          /\ UNCHANGED <<parcels, list, ttl, raced, skipped>>
      BY <2>1 DEF GetHit, GetRaises, redis, history
    <3> QED
      BY <1>2, <3>1, <3>2 DEF TypeOK, Ids
  <2>2. ASSUME NEW u \in Users, GetMiss(w, u) PROVE TypeOK'
    BY <2>2 DEF GetMiss, TypeOK, Ids, Steps, redis, history
  <2>3. CASE Select(w)
    BY <2>3 DEF Select, SelectRows, Own, TypeOK, Ids, Steps, redis, history
  <2>4. CASE SelectRaises(w)
    <3>1. Answer(w, "500") /\ UNCHANGED <<parcels, list, ttl, user, raced, skipped>>
      BY <2>4 DEF SelectRaises, redis, history
    <3> QED
      BY <1>2, <3>1 DEF TypeOK, Ids, Codes
  <2>5. CASE Set(w) \/ SetRaises(w)
    <3>1. found[w] \in SUBSET Ids /\ user[w] \in Users
      BY DEF TypeOK
    <3>2. list' \in [Users -> SUBSET Ids] /\ ttl' \in [Users -> 0 .. TTL]
      BY <1>4, <2>5, <3>1 DEF Set, SetRaises, redis, TypeOK
    <3>3. PICK code \in Codes : Answer(w, code)
      BY <2>5 DEF Set, SetRaises, Codes
    <3>4. UNCHANGED <<parcels, user, raced, skipped>>
      BY <2>5 DEF Set, SetRaises, history
    <3> QED
      BY <1>2, <3>2, <3>3, <3>4 DEF TypeOK, Ids
  <2> QED
    BY <1>6, <2>1, <2>2, <2>3, <2>4, <2>5 DEF GetStep
<1>7. CASE Tick
  <2>1. ttl' \in [Users -> 0 .. TTL]
    BY <1>7 DEF Tick, TypeOK, Cached
  <2>2. list' \in [Users -> SUBSET Ids]
    BY <1>7 DEF Tick, TypeOK
  <2> QED
    BY <1>7, <2>1, <2>2 DEF Tick, TypeOK, Ids, requests, history
<1>8. CASE RedisRestart
  BY <1>8 DEF RedisRestart, TypeOK, Ids, requests, history
<1>9. CASE ServiceCrash
  <2>1. Pending \subseteq Ids
    BY DEF Pending, PendingIsOwn, Own
  <2> QED
    BY <1>9, <2>1 DEF ServiceCrash, TypeOK, Ids, Steps, Codes, redis
<1> QED
  BY <1>1, <1>5, <1>6, <1>7, <1>8, <1>9 DEF Next
-----------------------------------------------------------------------------
\* A request enters "delete" with the row it inserted for its own user, and
\* keeps both until its DEL.
LEMMA PendingStep ==
  ASSUME TypeOK, PendingIsOwn, [Next]_cacheVars
  PROVE  PendingIsOwn'
<1> SUFFICES ASSUME NEW v \in Workers, pc'[v] = "delete"
             PROVE  made'[v] \in Ids' /\ parcels'[made'[v]] = user'[v]
  BY DEF PendingIsOwn, Own
<1> USE DEF Ids
<1>1. ASSUME pc[v] = "delete", made'[v] = made[v], user'[v] = user[v], UNCHANGED parcels
      PROVE  made'[v] \in Ids' /\ parcels'[made'[v]] = user'[v]
  BY <1>1 DEF PendingIsOwn, Own
<1>2. ASSUME NEW w \in Workers, NEW u \in Users, CreateInsert(w, u) \/ CreateInsertRaises(w, u)
      PROVE  made'[v] \in Ids' /\ parcels'[made'[v]] = user'[v]
  <2>1. InsertRow(u)
    BY <1>2 DEF CreateInsert, CreateInsertRaises
  <2>2. /\ Len(parcels) + 1 \in Ids' /\ parcels'[Len(parcels) + 1] = u
        /\ \A id \in Ids : id \in Ids' /\ parcels'[id] = parcels[id]
    BY <2>1, InsertedRow
  <2>3. CASE CreateInsert(w, u) /\ v = w
    BY <2>2, <2>3 DEF CreateInsert, TypeOK
  <2>4. CASE CreateInsertRaises(w, u) \/ v # w
    <3>1. pc[v] = "delete" /\ made'[v] = made[v] /\ user'[v] = user[v]
      BY <1>2, <2>4 DEF CreateInsert, CreateInsertRaises, TypeOK, requests
    <3> QED
      BY <2>2, <3>1 DEF PendingIsOwn, Own
  <2> QED
    BY <1>2, <2>3, <2>4
<1>3. ASSUME NEW w \in Workers, PostStep(w)
      PROVE  made'[v] \in Ids' /\ parcels'[made'[v]] = user'[v]
  <2>1. CASE CreateRefused(w)
    BY <1>1, <2>1 DEF CreateRefused, requests
  <2>2. CASE CreateDelete(w)
    BY <1>1, <2>2, AfterDeleteAssumption DEF CreateDelete, TypeOK
  <2>3. CASE CreateDeleteRaises(w) \/ CreateRespond(w)
    BY <1>1, <2>3 DEF CreateDeleteRaises, CreateRespond, Answer, TypeOK
  <2> QED
    BY <1>2, <1>3, <2>1, <2>2, <2>3 DEF PostStep
<1>4. ASSUME NEW w \in Workers, GetStep(w)
      PROVE  made'[v] \in Ids' /\ parcels'[made'[v]] = user'[v]
  <2>1. ASSUME NEW u \in Users, GetHit(w, u) \/ GetRaises(w, u) \/ GetMiss(w, u)
        PROVE  made'[v] \in Ids' /\ parcels'[made'[v]] = user'[v]
    BY <1>1, <2>1 DEF GetHit, GetRaises, GetMiss, Answer, TypeOK
  <2>2. CASE Select(w)
    BY <1>1, <2>2 DEF Select, TypeOK
  <2>3. CASE SelectRaises(w) \/ Set(w) \/ SetRaises(w)
    BY <1>1, <2>3 DEF SelectRaises, Set, SetRaises, Answer, TypeOK
  <2> QED
    BY <1>4, <2>1, <2>2, <2>3 DEF GetStep
<1>5. CASE Tick \/ RedisRestart
  BY <1>1, <1>5 DEF Tick, RedisRestart, requests
<1>6. CASE ServiceCrash
  BY <1>6 DEF ServiceCrash
<1>7. CASE UNCHANGED cacheVars
  BY <1>1, <1>7 DEF cacheVars
<1> QED
  BY <1>3, <1>4, <1>5, <1>6, <1>7 DEF Next

-----------------------------------------------------------------------------
\* A step that inserts no row and excuses no less keeps the lists explained
\* when each list it writes to Redis was held by a GET of that user, and each
\* list it hands to a GET is the whole of the table.
LEMMA ListsMoveOnly ==
  ASSUME StaleExplained, UNCHANGED parcels, Excused \subseteq Excused',
         \A u \in Users : Cached(u)' =>
            \/ Cached(u) /\ list'[u] = list[u]
            \/ \E w \in Workers : pc[w] = "set" /\ user[w] = u /\ list'[u] = found[w],
         \A w \in Workers : pc'[w] = "set" =>
            \/ pc[w] = "set" /\ user'[w] = user[w] /\ found'[w] = found[w]
            \/ found'[w] = Own(user'[w])
  PROVE  StaleExplained'
<1>1. ASSUME NEW u \in Users, Cached(u)' PROVE Missing(u, list[u])' \subseteq Excused'
  BY <1>1 DEF StaleExplained, Missing, Own, Ids
<1>2. ASSUME NEW w \in Workers, pc'[w] = "set"
      PROVE  Missing(user[w], found[w])' \subseteq Excused'
  BY <1>2 DEF StaleExplained, Missing, Own, Ids
<1> QED
  BY <1>1, <1>2 DEF StaleExplained

\* An INSERT makes every list of that user lack one id more, and the request
\* that inserted it owes the DEL, or has skipped it.
LEMMA InsertExplained ==
  ASSUME TypeOK, StaleExplained, NEW w \in Workers, NEW u \in Users,
         CreateInsert(w, u) \/ CreateInsertRaises(w, u)
  PROVE  StaleExplained'
<1> DEFINE new == Len(parcels) + 1
<1>1. InsertRow(u)
  BY DEF CreateInsert, CreateInsertRaises
<1>2. \A x \in Users : Own(x)' \subseteq Own(x) \cup {new}
  BY <1>1, InsertedRow DEF Own
<1>3. Excused \cup {new} \subseteq Excused'
  <2>1. CASE CreateInsert(w, u)
    <3>1. Pending \cup {new} \subseteq Pending'
      BY <2>1 DEF CreateInsert, Pending, TypeOK
    <3> QED
      BY <2>1, <3>1 DEF CreateInsert, Excused, history
  <2>2. CASE CreateInsertRaises(w, u)
    BY <2>2 DEF CreateInsertRaises, Excused, Pending, requests
  <2> QED
    BY <2>1, <2>2
<1>4. UNCHANGED <<list, ttl, found>>
  BY DEF CreateInsert, CreateInsertRaises, redis, requests
<1>5. \A v \in Workers : pc'[v] = "set" => pc[v] = "set" /\ user'[v] = user[v]
  BY DEF CreateInsert, CreateInsertRaises, requests, TypeOK
<1>6. ASSUME NEW x \in Users, Cached(x)' PROVE Missing(x, list[x])' \subseteq Excused'
  <2>1. Missing(x, list[x]) \subseteq Excused
    BY <1>4, <1>6 DEF StaleExplained, Cached
  <2> QED
    BY <1>2, <1>3, <1>4, <2>1 DEF Missing
<1>7. ASSUME NEW v \in Workers, pc'[v] = "set"
      PROVE  Missing(user[v], found[v])' \subseteq Excused'
  <2>1. Missing(user[v], found[v]) \subseteq Excused /\ user[v] \in Users
    BY <1>5, <1>7 DEF StaleExplained, TypeOK
  <2> QED
    BY <1>2, <1>3, <1>4, <1>5, <1>7, <2>1 DEF Missing
<1> QED
  BY <1>6, <1>7 DEF StaleExplained

\* A DEL stops excusing one id.  The user's list is gone, other users never
\* own the id, and a GET that holds a list without it makes it raced.
LEMMA DeleteExplained ==
  ASSUME TypeOK, PendingIsOwn, StaleExplained, NEW w \in Workers,
         pc[w] = "delete", DeleteKey(user[w]), raced' = raced \cup OvertakenBy(w),
         UNCHANGED <<parcels, user, skipped>>,
         \A v \in Workers : v # w => pc'[v] = pc[v] /\ made'[v] = made[v] /\ found'[v] = found[v],
         pc'[w] # "set"
  PROVE  StaleExplained'
<1>1. made[w] \in Own(user[w])
  BY DEF PendingIsOwn
<1>2. Pending \subseteq Pending' \cup {made[w]}
  BY DEF Pending
<1>3. Excused \subseteq Excused' \cup {made[w]}
  BY <1>2 DEF Excused
<1>4. \A x \in Users : Own(x)' = Own(x)
  BY DEF Own, Ids
<1>5. ASSUME NEW x \in Users, Cached(x)' PROVE Missing(x, list[x])' \subseteq Excused'
  <2>1. x # user[w] /\ Cached(x) /\ list'[x] = list[x]
    BY <1>5 DEF DeleteKey, Cached, TypeOK
  <2>2. made[w] \notin Own(x)
    BY <1>1, <2>1 DEF Own
  <2> QED
    BY <1>3, <1>4, <2>1, <2>2 DEF StaleExplained, Missing
<1>6. ASSUME NEW v \in Workers, pc'[v] = "set"
      PROVE  Missing(user[v], found[v])' \subseteq Excused'
  <2>1. v # w /\ pc[v] = "set" /\ found'[v] = found[v] /\ user[v] \in Users /\ user'[v] = user[v]
    BY <1>6 DEF TypeOK
  <2>2. Missing(user[v], found[v]) \subseteq Excused' \cup {made[w]}
    BY <1>3, <2>1 DEF StaleExplained
  <2>3. made[w] \in Missing(user[v], found[v]) => made[w] \in raced'
    BY <1>1, <2>1 DEF Missing, Own, OvertakenBy
  <2> QED
    BY <1>4, <2>1, <2>2, <2>3 DEF Missing, Excused
<1> QED
  BY <1>5, <1>6 DEF StaleExplained

\* Every step keeps each missing parcel explained.
LEMMA StaleStep ==
  ASSUME TypeOK, PendingIsOwn, StaleExplained, [Next]_cacheVars
  PROVE  StaleExplained'
<1>1. ASSUME UNCHANGED <<parcels, list, ttl, user, found, raced, skipped>>,
             \A v \in Workers : pc'[v] = "set" => pc[v] = "set",
             \A v \in Workers : pc[v] = "delete" => pc'[v] = "delete" /\ made'[v] = made[v]
      PROVE  StaleExplained'
  <2>1. Pending \subseteq Pending'
    BY <1>1 DEF Pending
  <2> QED
    BY <1>1, <2>1, ListsMoveOnly DEF Excused, Cached
<1>2. ASSUME NEW w \in Workers, PostStep(w) PROVE StaleExplained'
  <2>1. CASE CreateRefused(w)
    BY <1>1, <2>1 DEF CreateRefused, redis, requests, history
  <2>2. CASE CreateDelete(w)
    BY <2>2, DeleteExplained, AfterDeleteAssumption DEF CreateDelete, TypeOK
  <2>3. CASE CreateDeleteRaises(w)
    <3>1. /\ pc[w] = "delete" /\ Answer(w, "500") /\ UNCHANGED <<parcels, user>>
          /\ pc'[w] = "idle"
          /\ \A v \in Workers : v # w => pc'[v] = pc[v] /\ made'[v] = made[v] /\ found'[v] = found[v]
      BY <2>3 DEF CreateDeleteRaises, Answer, TypeOK
    <3>2. CASE DeleteKey(user[w]) /\ raced' = raced \cup OvertakenBy(w) /\ UNCHANGED skipped
      BY <3>1, <3>2, DeleteExplained
    <3>3. CASE skipped' = skipped \cup {made[w]} /\ UNCHANGED <<redis, raced>>
      <4>1. Excused \subseteq Excused'
        BY <3>1, <3>3 DEF Excused, Pending
      <4> QED
        BY <3>1, <3>3, <4>1, ListsMoveOnly DEF redis, Cached
    <3> QED
      BY <2>3, <3>2, <3>3 DEF CreateDeleteRaises
  <2>4. CASE CreateRespond(w)
    <3>1. \A v \in Workers : v # w => pc'[v] = pc[v] /\ made'[v] = made[v] /\ found'[v] = found[v]
      BY <2>4 DEF CreateRespond, Answer, TypeOK
    <3>2. pc[w] = "respond" /\ pc'[w] = "idle" /\ UNCHANGED <<parcels, list, ttl, user, raced, skipped>>
      BY <2>4 DEF CreateRespond, Answer, TypeOK, redis, history
    <3>3. Excused \subseteq Excused'
      BY <3>1, <3>2 DEF Excused, Pending
    <3> QED
      BY <3>1, <3>2, <3>3, ListsMoveOnly DEF Cached
  <2> QED
    BY <1>2, <2>1, <2>2, <2>3, <2>4, InsertExplained DEF PostStep
<1>3. ASSUME NEW w \in Workers, GetStep(w) PROVE StaleExplained'
  <2>1. /\ pc[w] # "delete" /\ pc'[w] # "delete"
        /\ \A v \in Workers : v # w =>
             pc'[v] = pc[v] /\ made'[v] = made[v] /\ found'[v] = found[v] /\ user'[v] = user[v]
        /\ UNCHANGED <<parcels, raced, skipped>>
    BY <1>3 DEF GetStep, GetHit, GetMiss, GetRaises, Select, SelectRaises, Set, SetRaises,
                Answer, TypeOK, redis, history
  <2>2. Excused \subseteq Excused'
    BY <2>1 DEF Excused, Pending
  <2>3. \A u \in Users : Cached(u)' =>
          \/ Cached(u) /\ list'[u] = list[u]
          \/ \E v \in Workers : pc[v] = "set" /\ user[v] = u /\ list'[u] = found[v]
    BY <1>3 DEF GetStep, GetHit, GetMiss, GetRaises, Select, SelectRaises, Set, SetRaises,
                SetKey, TypeOK, redis, Cached
  <2>4. pc'[w] = "set" => found'[w] = Own(user'[w])
    BY <1>3 DEF GetStep, GetHit, GetMiss, GetRaises, Select, SelectRaises, Set, SetRaises,
                SelectRows, Answer, TypeOK
  <2> QED
    BY <2>1, <2>2, <2>3, <2>4, ListsMoveOnly
<1>4. CASE Tick
  <2>1. Excused \subseteq Excused'
    BY <1>4 DEF Tick, Excused, Pending, requests, history
  <2>2. \A u \in Users : Cached(u)' => Cached(u) /\ list'[u] = list[u]
    BY <1>4 DEF Tick, Cached, TypeOK
  <2> QED
    BY <1>4, <2>1, <2>2, ListsMoveOnly DEF Tick, requests
<1>5. CASE RedisRestart
  <2>1. Excused \subseteq Excused'
    BY <1>5 DEF RedisRestart, Excused, Pending, requests, history
  <2>2. \A u \in Users : ~Cached(u)'
    BY <1>5 DEF RedisRestart, Cached
  <2> QED
    BY <1>5, <2>1, <2>2, ListsMoveOnly DEF RedisRestart, requests
<1>6. CASE ServiceCrash
  <2>1. Excused \subseteq Excused'
    BY <1>6 DEF ServiceCrash, Excused
  <2> QED
    BY <1>6, <2>1, ListsMoveOnly DEF ServiceCrash, redis, Cached
<1>7. CASE UNCHANGED cacheVars
  BY <1>1, <1>7 DEF cacheVars
<1> QED
  BY <1>2, <1>3, <1>4, <1>5, <1>6, <1>7 DEF Next

-----------------------------------------------------------------------------
\* The three parts of Inv hold in every reachable state.
LEMMA InductiveInv == Spec => []Inv
<1>1. Inv /\ [Next]_cacheVars => Inv'
  BY TypeStep, PendingStep, StaleStep DEF Inv
<1> QED
  BY InitInv, <1>1, PTL DEF Spec

\* The type invariant, for all constants.
THEOREM TypeCorrect == Spec => []TypeOK
BY InductiveInv, PTL DEF Inv

\* A parcel is missing from a list that is cached, or about to be, only while
\* its DEL is to come, or if an older read was in flight when its DEL ran, or
\* if its DEL never ran (create_parcel_handler.cpp 41-49).
THEOREM StaleIsExplained == Spec => []StaleExplained
BY InductiveInv, PTL DEF Inv
-----------------------------------------------------------------------------
\* A list that was its user's past stays so while the table only grows.
LEMMA StaysPast ==
  ASSUME TypeOK, NEW u \in Users, NEW ids, Past(u, ids),
         UNCHANGED parcels \/ \E x \in Users : InsertRow(x)
  PROVE  Past(u, ids)'
<1>1. CASE UNCHANGED parcels
  BY <1>1 DEF Past, Own, Ids
<1>2. ASSUME NEW x \in Users, InsertRow(x) PROVE Past(u, ids)'
  <2>1. /\ Len(parcels) \in Nat /\ Len(parcels') = Len(parcels) + 1
        /\ Ids = 1 .. Len(parcels) /\ Ids' = Ids \cup {Len(parcels) + 1}
        /\ \A id \in Ids : parcels'[id] = parcels[id]
    BY <1>2, InsertedRow DEF TypeOK
  <2>2. PICK n \in 0 .. Len(parcels) : ids = {id \in Own(u) : id <= n}
    BY DEF Past
  <2>3. n \in 0 .. Len(parcels')
    BY <2>1
  <2>4. {id \in Own(u)' : id <= n} = {id \in Own(u) : id <= n}
    BY <2>1 DEF Own
  <2> QED
    BY <2>2, <2>3, <2>4 DEF Past
<1> QED
  BY <1>1, <1>2

\* The table itself is such a list.
LEMMA TableIsPast ==
  ASSUME TypeOK, NEW u \in Users
  PROVE  Past(u, Own(u))
<1>1. Len(parcels) \in Nat /\ Own(u) \subseteq 1 .. Len(parcels)
  BY DEF TypeOK, Own, Ids
<1>2. Own(u) = {id \in Own(u) : id <= Len(parcels)}
  BY <1>1
<1> QED
  BY <1>1, <1>2 DEF Past

\* Every step, for the lists: the table only grows, a cached list is one that
\* was cached or that a GET held, and a GET holds what it held or the table.
LEMMA ListSteps ==
  ASSUME TypeOK, [Next]_cacheVars
  PROVE  /\ UNCHANGED parcels \/ \E x \in Users : InsertRow(x)
         /\ \A u \in Users : Cached(u)' =>
              \/ Cached(u) /\ list'[u] = list[u]
              \/ \E v \in Workers : pc[v] = "set" /\ user[v] = u /\ list'[u] = found[v]
         /\ \A v \in Workers : pc'[v] = "set" =>
              \/ pc[v] = "set" /\ user'[v] = user[v] /\ found'[v] = found[v]
              \/ found'[v] = Own(user[v]) /\ UNCHANGED <<parcels, user>>
<1>1. UNCHANGED parcels \/ \E x \in Users : InsertRow(x)
  <2>1. ASSUME NEW w \in Workers, PostStep(w)
        PROVE  UNCHANGED parcels \/ \E x \in Users : InsertRow(x)
    BY <2>1 DEF PostStep, CreateRefused, CreateInsert, CreateInsertRaises, CreateDelete,
                CreateDeleteRaises, CreateRespond
  <2>2. ASSUME NEW w \in Workers, GetStep(w) PROVE UNCHANGED parcels
    BY <2>2 DEF GetStep, GetHit, GetMiss, GetRaises, Select, SelectRaises, Set, SetRaises
  <2> QED
    BY <2>1, <2>2 DEF Next, Tick, RedisRestart, ServiceCrash, cacheVars
<1>2. \A u \in Users : Cached(u)' =>
        \/ Cached(u) /\ list'[u] = list[u]
        \/ \E v \in Workers : pc[v] = "set" /\ user[v] = u /\ list'[u] = found[v]
  <2>1. ASSUME NEW w \in Workers, PostStep(w), NEW u \in Users, Cached(u)'
        PROVE  Cached(u) /\ list'[u] = list[u]
    <3>1. UNCHANGED redis \/ \E x \in Users : DeleteKey(x)
      BY <2>1 DEF PostStep, CreateRefused, CreateInsert, CreateInsertRaises, CreateDelete,
                  CreateDeleteRaises, CreateRespond, redis, TypeOK
    <3> QED
      BY <2>1, <3>1 DEF DeleteKey, redis, Cached, TypeOK
  <2>2. ASSUME NEW w \in Workers, GetStep(w), NEW u \in Users, Cached(u)'
        PROVE  \/ Cached(u) /\ list'[u] = list[u]
               \/ \E v \in Workers : pc[v] = "set" /\ user[v] = u /\ list'[u] = found[v]
    BY <2>2 DEF GetStep, GetHit, GetMiss, GetRaises, Select, SelectRaises, Set, SetRaises,
                SetKey, redis, Cached, TypeOK
  <2>3. ASSUME Tick \/ RedisRestart \/ ServiceCrash \/ UNCHANGED cacheVars,
               NEW u \in Users, Cached(u)'
        PROVE  Cached(u) /\ list'[u] = list[u]
    BY <2>3 DEF Tick, RedisRestart, ServiceCrash, cacheVars, redis, Cached, TypeOK
  <2> QED
    BY <2>1, <2>2, <2>3 DEF Next
<1>3. \A v \in Workers : pc'[v] = "set" =>
        \/ pc[v] = "set" /\ user'[v] = user[v] /\ found'[v] = found[v]
        \/ found'[v] = Own(user[v]) /\ UNCHANGED <<parcels, user>>
  <2>1. ASSUME NEW w \in Workers, PostStep(w), NEW v \in Workers, pc'[v] = "set"
        PROVE  pc[v] = "set" /\ user'[v] = user[v] /\ found'[v] = found[v]
    BY <2>1, AfterDeleteAssumption
       DEF PostStep, CreateRefused, CreateInsert, CreateInsertRaises, CreateDelete,
           CreateDeleteRaises, CreateRespond, Answer, requests, TypeOK
  <2>2. ASSUME NEW w \in Workers, GetStep(w), NEW v \in Workers, pc'[v] = "set"
        PROVE  \/ pc[v] = "set" /\ user'[v] = user[v] /\ found'[v] = found[v]
               \/ found'[v] = Own(user[v]) /\ UNCHANGED <<parcels, user>>
    BY <2>2 DEF GetStep, GetHit, GetMiss, GetRaises, Select, SelectRaises, Set, SetRaises,
                SelectRows, Answer, TypeOK
  <2> QED
    BY <2>1, <2>2 DEF Next, Tick, RedisRestart, ServiceCrash, requests, cacheVars
<1> QED
  BY <1>1, <1>2, <1>3

\* Every step keeps lists past: only SET writes one, and it was a SELECT's.
LEMMA PastStep ==
  ASSUME TypeOK, ListsArePast, [Next]_cacheVars
  PROVE  ListsArePast'
<1>1. UNCHANGED parcels \/ \E x \in Users : InsertRow(x)
  BY ListSteps
<1>2. ASSUME NEW u \in Users, Cached(u)' PROVE Past(u, list[u])'
  BY <1>1, <1>2, ListSteps, StaysPast DEF ListsArePast
<1>3. ASSUME NEW v \in Workers, pc'[v] = "set" PROVE Past(user[v], found[v])'
  <2>1. CASE pc[v] = "set" /\ user'[v] = user[v] /\ found'[v] = found[v]
    BY <1>1, <2>1, StaysPast DEF ListsArePast, TypeOK
  <2>2. CASE found'[v] = Own(user[v]) /\ UNCHANGED <<parcels, user>>
    BY <1>1, <2>2, TableIsPast, StaysPast DEF TypeOK
  <2> QED
    BY <1>3, <2>1, <2>2, ListSteps
<1> QED
  BY <1>2, <1>3 DEF ListsArePast

\* A list in Redis, or held by a GET, is its user's own list as it once was:
\* no row of another user, no gap (get_user_parcels_handler.cpp 30-46).
THEOREM ListsAreOnlyPast == Spec => []ListsArePast
<1>1. Init => ListsArePast
  BY DEF Init, ListsArePast, Cached
<1>2. TypeOK /\ ListsArePast /\ [Next]_cacheVars => ListsArePast'
  BY PastStep
<1> QED
  BY <1>1, <1>2, TypeCorrect, PTL DEF Spec

\* A parcel that no list of its sender lacks is lacked by none after any step.
LEMMA ListedStep ==
  ASSUME TypeOK, [Next]_cacheVars, NEW id \in Ids, Listed(id)
  PROVE  Listed(id)'
<1>1. parcels'[id] = parcels[id] /\ parcels[id] \in Users /\ id \in Own(parcels[id])
  <2>1. parcels[id] \in Users
    BY DEF TypeOK, Ids
  <2> QED
    BY <2>1, ListSteps, InsertedRow DEF Own
<1> DEFINE u == parcels[id]
<1>2. ASSUME Cached(u)' PROVE id \in list'[u]
  BY <1>1, <1>2, ListSteps DEF Listed
<1>3. ASSUME NEW w \in Workers, pc'[w] = "set", user'[w] = u PROVE id \in found'[w]
  <2>1. CASE pc[w] = "set" /\ user'[w] = user[w] /\ found'[w] = found[w]
    BY <1>3, <2>1 DEF Listed
  <2>2. CASE found'[w] = Own(user[w]) /\ UNCHANGED <<parcels, user>>
    BY <1>1, <1>3, <2>2
  <2> QED
    BY <1>3, <2>1, <2>2, ListSteps
<1> QED
  BY <1>1, <1>2, <1>3 DEF Listed

\* Once no list lacks a parcel, none ever will again: the lists of a sender
\* heal for good (get_user_parcels_handler.cpp 37-46).
THEOREM ListsHealForGood == Spec => ListedForGood
<1>1. TypeOK /\ [Next]_cacheVars => [\A id \in Ids : Listed(id) => Listed(id)']_cacheVars
  BY ListedStep
<1> QED
  BY <1>1, TypeCorrect, PTL DEF Spec, ListedForGood
=============================================================================
