------------------------------ MODULE CacheAside ------------------------------
(***************************************************************************)
(* The parcel service of lab5_redis (and of lab6_event_driven, whose       *)
(* parcel handlers differ only in the event they publish): workers that    *)
(* serve POST /api/v1/parcels (create_parcel_handler.cpp) and GET          *)
(* /api/v1/users/{id}/parcels (get_user_parcels_handler.cpp, which takes   *)
(* the user from the token and not from the path) over one Postgres table  *)
(* and one Redis key per user, "parcels:user:{id}".  A request is cut      *)
(* where a handler waits for Postgres or for Redis: between two such       *)
(* waits the other workers of main-task-processor run.                     *)
(***************************************************************************)
EXTENDS Integers, Sequences

CONSTANTS
  Users,         \* the users whose token reaches the handlers
  Workers,       \* the requests that can be in progress at once
  MaxParcels,    \* bound of the model: how many rows may be inserted
  ParcelColumns, \* the columns the table parcels was created with
  TickSeconds,   \* bound of the model: the seconds one Tick stands for
  Faults,        \* which of "redis", "postgres", "crash" may fail
  AfterDelete    \* what POST does after its DEL: "respond" (lab5) or "publish" (lab6)

ASSUME BoundsAssumption ==
  /\ MaxParcels \in Nat
  /\ TickSeconds \in Nat \ {0}
  /\ 300 \div TickSeconds \in Nat \ {0}
ASSUME FaultsAssumption == Faults \subseteq {"redis", "postgres", "crash"}
ASSUME AfterDeleteAssumption == AfterDelete \in {"respond", "publish"}

\* The life of a cached list, in ticks: std::chrono::seconds{300}.
TTL == 300 \div TickSeconds

\* The columns Database::GetUserParcels selects and sorts by.
SelectList == {"id", "sender_id", "full_name", "description", "weight", "created_at"}

VARIABLES
  parcels,  \* the table: parcels[id] is the sender of row id
  list,     \* Redis: list[u] is the set of ids in "parcels:user:u"
  ttl,      \* Redis: ticks until that key expires, 0 if there is no key
  pc,       \* where each request stands
  user,     \* user_id of the request's token
  made,     \* id of the row a POST inserted
  found,    \* ids a GET read from the table
  response, \* the last answer each worker gave
  raced,    \* history: ids whose DEL ran while an older read was in flight
  skipped   \* history: ids inserted whose DEL never ran

redis == <<list, ttl>>
requests == <<pc, user, made, found>>
history == <<raced, skipped>>
cacheVars == <<parcels, list, ttl, pc, user, made, found, response, raced, skipped>>

Codes == {"none", "refused", "200", "201", "500"}
Steps == {"idle", "delete", "publish", "sending", "respond", "get", "select", "set"}

Ids == DOMAIN parcels
Own(u) == {id \in Ids : parcels[id] = u}
Cached(u) == ttl[u] > 0

\* Rows whose DEL is still to come.
Pending == {made[w] : w \in {v \in Workers : pc[v] = "delete"}}

TypeOK ==
  /\ parcels \in Seq(Users) /\ Len(parcels) <= MaxParcels
  /\ list \in [Users -> SUBSET Ids]
  /\ ttl \in [Users -> 0 .. TTL]
  /\ pc \in [Workers -> Steps]
  /\ user \in [Workers -> Users]
  /\ made \in [Workers -> Ids \cup {0}]
  /\ found \in [Workers -> SUBSET Ids]
  /\ response \in [Workers -> Codes]
  /\ raced \subseteq Ids
  /\ skipped \subseteq Ids

-----------------------------------------------------------------------------
(* Redis and Postgres as the handlers use them.                            *)

\* RedisCache::Set: the value and a fresh expiry, in one SET command.
SetKey(u, ids) ==
  /\ list' = [list EXCEPT ![u] = ids]
  /\ ttl' = [ttl EXCEPT ![u] = TTL]

\* RedisCache::Delete.
DeleteKey(u) ==
  /\ list' = [list EXCEPT ![u] = {}]
  /\ ttl' = [ttl EXCEPT ![u] = 0]

\* Database::CreateParcel: one INSERT ... RETURNING in a transaction of its own.
InsertRow(u) ==
  /\ Len(parcels) < MaxParcels
  /\ parcels' = Append(parcels, u)

\* Mutant of SelectRows: no WHERE.
SelectEveryRow(u) == Ids

\* Mutant of SelectRows: a replica that is one row behind.
SelectLagging(u) == Own(u) \ {Len(parcels)}

\* Database::GetUserParcels: the rows of one sender, of a kSlave (db.cpp:52).  The
\* deployment has one host, so that is the table; a replica would be SelectLagging.
SelectRows(u) == Own(u)

SelectFails == ~(SelectList \subseteq ParcelColumns) \/ "postgres" \in Faults

\* The request ends with this answer and its coroutine's locals are gone.
Answer(w, code) ==
  /\ pc' = [pc EXCEPT ![w] = "idle"]
  /\ made' = [made EXCEPT ![w] = 0]
  /\ found' = [found EXCEPT ![w] = {}]
  /\ response' = [response EXCEPT ![w] = code]

\* Ids that a GET in flight for the same user will not list.
OvertakenBy(w) ==
  {id \in {made[w]} : \E r \in Workers :
                        pc[r] = "set" /\ user[r] = user[w] /\ id \notin found[r]}

-----------------------------------------------------------------------------
(* POST /api/v1/parcels.                                                   *)

\* Lines 28-39, and an INSERT the database refuses: nothing is stored.
CreateRefused(w) ==
  /\ pc[w] = "idle"
  /\ response' = [response EXCEPT ![w] = "refused"]
  /\ UNCHANGED <<parcels, redis, requests, history>>

\* Mutant of CreateInsert: the DEL is forgotten.
CreateInsertWithoutDelete(w, u) ==
  /\ pc[w] = "idle"
  /\ InsertRow(u)
  /\ pc' = [pc EXCEPT ![w] = AfterDelete]
  /\ user' = [user EXCEPT ![w] = u]
  /\ made' = [made EXCEPT ![w] = Len(parcels) + 1]
  /\ UNCHANGED <<redis, found, response, history>>

\* Line 41: the row is there as soon as its INSERT is.
CreateInsert(w, u) ==
  /\ pc[w] = "idle"
  /\ InsertRow(u)
  /\ pc' = [pc EXCEPT ![w] = "delete"]
  /\ user' = [user EXCEPT ![w] = u]
  /\ made' = [made EXCEPT ![w] = Len(parcels) + 1]
  /\ UNCHANGED <<redis, found, response, history>>

\* The INSERT commits and Execute raises all the same: the answer of the
\* server was lost, or came after the statement's timeout.
CreateInsertRaises(w, u) ==
  /\ "postgres" \in Faults
  /\ pc[w] = "idle"
  /\ InsertRow(u)
  /\ skipped' = skipped \cup {Len(parcels) + 1}
  /\ response' = [response EXCEPT ![w] = "500"]
  /\ UNCHANGED <<redis, requests, raced>>

CreateDelete(w) ==
  /\ pc[w] = "delete"
  /\ DeleteKey(user[w])
  /\ raced' = raced \cup OvertakenBy(w)
  /\ pc' = [pc EXCEPT ![w] = AfterDelete]
  /\ UNCHANGED <<parcels, user, made, found, response, skipped>>

\* Request::Get() raises; the DEL may have reached Redis or not.
CreateDeleteRaises(w) ==
  /\ "redis" \in Faults
  /\ pc[w] = "delete"
  /\ \/ DeleteKey(user[w]) /\ raced' = raced \cup OvertakenBy(w) /\ UNCHANGED skipped
     \/ skipped' = skipped \cup {made[w]} /\ UNCHANGED <<redis, raced>>
  /\ Answer(w, "500")
  /\ UNCHANGED <<parcels, user>>

CreateRespond(w) ==
  /\ pc[w] = "respond"
  /\ Answer(w, "201")
  /\ UNCHANGED <<parcels, redis, user, history>>

-----------------------------------------------------------------------------
(* GET /api/v1/users/{id}/parcels.                                         *)

\* Mutant of GetHit: a hit gives the list a new life.
GetHitProlongs(w, u) ==
  /\ pc[w] = "idle"
  /\ Cached(u)
  /\ SetKey(u, list[u])
  /\ Answer(w, "200")
  /\ user' = [user EXCEPT ![w] = u]
  /\ UNCHANGED <<parcels, history>>

\* The key is found: its value is the answer.
GetHit(w, u) ==
  /\ pc[w] = "idle"
  /\ Cached(u)
  /\ Answer(w, "200")
  /\ user' = [user EXCEPT ![w] = u]
  /\ UNCHANGED <<parcels, redis, history>>

GetMiss(w, u) ==
  /\ pc[w] = "idle"
  /\ ~Cached(u)
  /\ pc' = [pc EXCEPT ![w] = "select"]
  /\ user' = [user EXCEPT ![w] = u]
  /\ UNCHANGED <<parcels, redis, made, found, response, history>>

GetRaises(w, u) ==
  /\ "redis" \in Faults
  /\ pc[w] = "idle"
  /\ Answer(w, "500")
  /\ user' = [user EXCEPT ![w] = u]
  /\ UNCHANGED <<parcels, redis, history>>

Select(w) ==
  /\ pc[w] = "select"
  /\ SelectList \subseteq ParcelColumns
  /\ found' = [found EXCEPT ![w] = SelectRows(user[w])]
  /\ pc' = [pc EXCEPT ![w] = "set"]
  /\ UNCHANGED <<parcels, redis, user, made, response, history>>

SelectRaises(w) ==
  /\ pc[w] = "select"
  /\ SelectFails
  /\ Answer(w, "500")
  /\ UNCHANGED <<parcels, redis, user, history>>

Set(w) ==
  /\ pc[w] = "set"
  /\ SetKey(user[w], found[w])
  /\ Answer(w, "200")
  /\ UNCHANGED <<parcels, user, history>>

\* The SET may have reached Redis or not; the list that was read is not sent.
SetRaises(w) ==
  /\ "redis" \in Faults
  /\ pc[w] = "set"
  /\ SetKey(user[w], found[w]) \/ UNCHANGED redis
  /\ Answer(w, "500")
  /\ UNCHANGED <<parcels, user, history>>

-----------------------------------------------------------------------------
(* What happens around the handlers.                                       *)

\* Mutant of Tick: a key without time left is not dropped.
TickPastZero ==
  /\ \E u \in Users : Cached(u)
  /\ ttl' = [u \in Users |-> ttl[u] - 1]
  /\ UNCHANGED <<list, parcels, requests, response, history>>

\* TickSeconds pass: Redis drops a key when its time is over.
Tick ==
  /\ \E u \in Users : Cached(u)
  /\ ttl' = [u \in Users |-> IF Cached(u) THEN ttl[u] - 1 ELSE 0]
  /\ list' = [u \in Users |-> IF ttl[u] > 1 THEN list[u] ELSE {}]
  /\ UNCHANGED <<parcels, requests, response, history>>

\* The Redis container restarts without its data.
RedisRestart ==
  /\ "redis" \in Faults
  /\ \E u \in Users : Cached(u)
  /\ list' = [u \in Users |-> {}]
  /\ ttl' = [u \in Users |-> 0]
  /\ UNCHANGED <<parcels, requests, response, history>>

\* The process dies with the requests it was serving and starts again.
ServiceCrash ==
  /\ "crash" \in Faults
  /\ skipped' = skipped \cup Pending
  /\ pc' = [w \in Workers |-> "idle"]
  /\ made' = [w \in Workers |-> 0]
  /\ found' = [w \in Workers |-> {}]
  /\ response' = [w \in Workers |-> "none"]
  /\ UNCHANGED <<parcels, redis, user, raced>>

-----------------------------------------------------------------------------
Init ==
  /\ parcels = <<>>
  /\ list = [u \in Users |-> {}]
  /\ ttl = [u \in Users |-> 0]
  /\ pc = [w \in Workers |-> "idle"]
  /\ user \in [Workers -> Users]
  /\ made = [w \in Workers |-> 0]
  /\ found = [w \in Workers |-> {}]
  /\ response = [w \in Workers |-> "none"]
  /\ raced = {}
  /\ skipped = {}

PostStep(w) ==
  \/ CreateRefused(w)
  \/ \E u \in Users : CreateInsert(w, u) \/ CreateInsertRaises(w, u)
  \/ CreateDelete(w)
  \/ CreateDeleteRaises(w)
  \/ CreateRespond(w)

GetStep(w) ==
  \/ \E u \in Users : GetHit(w, u) \/ GetMiss(w, u) \/ GetRaises(w, u)
  \/ Select(w)
  \/ SelectRaises(w)
  \/ Set(w)
  \/ SetRaises(w)

Next ==
  \/ \E w \in Workers : PostStep(w) \/ GetStep(w)
  \/ Tick
  \/ RedisRestart
  \/ ServiceCrash

Spec == Init /\ [][Next]_cacheVars

\* Time passes whatever the service does.
FairSpec == Spec /\ WF_cacheVars(Tick)
-----------------------------------------------------------------------------
(* What the cache promises.                                                *)

Missing(u, ids) == Own(u) \ ids
Past(u, ids) == \E n \in 0 .. Len(parcels) : ids = {id \in Own(u) : id <= n}
Excused == Pending \cup raced \cup skipped

\* A list in Redis, or about to be written there, is the sender's own list as
\* it once was: no row of another user, no gap (get_user_parcels_handler.cpp
\* 30-46 reads and writes back in two steps while POSTs insert rows).
ListsArePast ==
  /\ \A u \in Users : Cached(u) => Past(u, list[u])
  /\ \A w \in Workers : pc[w] = "set" => Past(user[w], found[w])

\* A parcel is missing from a cached list, or from a list a GET still holds,
\* only while the POST that made it has its DEL ahead of it, or because an
\* older read was in flight when that DEL ran, or because the DEL never ran
\* (create_parcel_handler.cpp 41-49).  In every other case DEL is enough.
StaleExplained ==
  /\ \A u \in Users : Cached(u) => Missing(u, list[u]) \subseteq Excused
  /\ \A w \in Workers : pc[w] = "set" => Missing(user[w], found[w]) \subseteq Excused

\* No list of its sender, cached or held by a GET, lacks the parcel.
Listed(id) ==
  LET u == parcels[id] IN
  /\ Cached(u) => id \in list[u]
  /\ \A w \in Workers : pc[w] = "set" /\ user[w] = u => id \in found[w]

\* Once no list lacks a parcel, none will ever again, whatever is cached, raced,
\* lost or restarted from then on: what StaleExplained excuses is over when the
\* last old list is gone, because each new list is read from the table after it
\* (get_user_parcels_handler.cpp 37-46).
ListedForGood == [][\A id \in Ids : Listed(id) => Listed(id)']_cacheVars

\* Whatever was raced or skipped, in the end every list that is served names
\* the parcel, for good: a hit does not prolong a list's life
\* (get_user_parcels_handler.cpp 32-35 and 46).
EventuallyListed ==
  \A id \in 1 .. MaxParcels :
    <>[](id \in Ids /\ Cached(parcels[id]) => id \in list[parcels[id]])

=============================================================================
