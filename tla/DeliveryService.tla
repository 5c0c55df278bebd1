---------------------------- MODULE DeliveryService ----------------------------
(***************************************************************************)
(* delivery-service of lab4, lab5 and lab6 from its start to its end:      *)
(* POST and GET /api/v1/deliveries over Postgres and, from lab5 on, one    *)
(* key of Redis for each sender and one for each receiver.  A request is   *)
(* cut where its handler waits for a backend; while a backend of Startup   *)
(* is down each command to it raises.  The other programs of Startup start *)
(* and stop here and are asked nothing.                                    *)
(***************************************************************************)
EXTENDS Startup

CONSTANTS
  Workers,    \* requests that can be in progress at once
  Users,      \* ids of users
  Deliveries, \* the rows the table begins with
  NoArg,      \* a query parameter that is missing or empty
  NotANumber  \* one that std::stoll refuses

ASSUME DeliveryAssumption ==
  /\ NoArg \notin Users /\ NotANumber \notin Users /\ NoArg # NotANumber
  /\ \A d \in Deliveries : d.sender \in Users /\ d.receiver \in Users

VARIABLES
  deliveries, \* the table
  cache,      \* Redis: the list under each key that is there
  request     \* where each request stands

vars == <<startupVars, deliveries, cache, request>>

Keys == [by : {"sender", "receiver"}, of : Users]
Codes == {"none", "200", "400", "500"}

\* The end of a request, with the last answer of its worker.
Idle(code) == [at |-> "idle", code |-> code]

Requests ==
  {Idle(code) : code \in Codes}
    \cup [at : {"get", "select"}, key : Keys]
    \cup [at : {"set"}, key : Keys, list : SUBSET deliveries]
    \cup [at : {"insert"}, sender : Users, receiver : Users]

TypeOK ==
  /\ program \in Programs
  /\ process \in {"down", "loading", "serving", "stopping"}
  /\ ready \subseteq program.components
  /\ up \subseteq Backends(program)
  /\ stops \in 0 .. MaxStops
  /\ DOMAIN cache \subseteq Keys /\ \A k \in DOMAIN cache : cache[k] \subseteq deliveries
  /\ request \in [Workers -> Requests]

AsksDeliveries == program.service = "delivery" /\ program.lab >= 4
HasCache == program.lab >= 5

-----------------------------------------------------------------------------
(* Postgres and Redis as the handlers use them.                            *)

\* Both ask for a kSlave (db.cpp:113, 135): the deployment has one host, so the
\* one table is what every SELECT reads.
GetDeliveriesBySender(u) == {d \in deliveries : d.sender = u}
GetDeliveriesByReceiver(u) == {d \in deliveries : d.receiver = u}

Rows(k) ==
  IF k.by = "sender" THEN GetDeliveriesBySender(k.of) ELSE GetDeliveriesByReceiver(k.of)

\* RedisCache::Set.
SetKey(k, l) ==
  cache' = [x \in DOMAIN cache \cup {k} |-> IF x = k THEN l ELSE cache[x]]

\* Redis drops a key: its 300 seconds are over, or Redis lost its data.
DropKey(k) ==
  /\ k \in DOMAIN cache
  /\ cache' = [x \in DOMAIN cache \ {k} |-> cache[x]]
  /\ UNCHANGED <<startupVars, deliveries, request>>

Goes(w, r) ==
  /\ request' = [request EXCEPT ![w] = r]
  /\ UNCHANGED <<startupVars, deliveries>>

\* A request arrives at a server that listens, with a token that passed.
Arrives(w) == AsksDeliveries /\ process = "serving" /\ request[w].at = "idle"

-----------------------------------------------------------------------------
(* GET /api/v1/deliveries.                                                 *)

Args == {NoArg, NotANumber} \cup Users

ExactlyOne(q) == (q.sender = NoArg) # (q.receiver = NoArg)

\* The handler's cache_key: the direction, and the number std::stoll read.
KeyOf(q) ==
  IF q.sender # NoArg THEN [by |-> "sender", of |-> q.sender]
  ELSE [by |-> "receiver", of |-> q.receiver]

\* None or both parameters, or one that is no integer.
GetRefused(w, q) ==
  /\ Arrives(w)
  /\ ~ExactlyOne(q) \/ KeyOf(q).of = NotANumber
  /\ Goes(w, Idle("400"))
  /\ UNCHANGED cache

\* lab4 goes to the table at once.
GetUncached(w, q) ==
  /\ ~HasCache
  /\ Arrives(w)
  /\ ExactlyOne(q) /\ KeyOf(q).of # NotANumber
  /\ Goes(w, [at |-> "select", key |-> KeyOf(q)])
  /\ UNCHANGED cache

\* Mutant of GetCached: whatever std::stoll makes of the parameter is looked up.
GetCachedUnchecked(w, q) ==
  /\ HasCache
  /\ Arrives(w)
  /\ ExactlyOne(q)
  /\ Goes(w, [at |-> "get", key |-> KeyOf(q)])
  /\ UNCHANGED cache

GetCached(w, q) ==
  /\ HasCache
  /\ Arrives(w)
  /\ ExactlyOne(q) /\ KeyOf(q).of # NotANumber
  /\ Goes(w, [at |-> "get", key |-> KeyOf(q)])
  /\ UNCHANGED cache

\* Redis answers: the list, or that there is none.
Get(w) ==
  LET k == request[w].key IN
  /\ request[w].at = "get"
  /\ "redis" \in up
  /\ Goes(w, IF k \in DOMAIN cache THEN Idle("200") ELSE [at |-> "select", key |-> k])
  /\ UNCHANGED cache

Select(w) ==
  LET k == request[w].key IN
  /\ request[w].at = "select"
  /\ "postgres" \in up
  /\ Goes(w, IF HasCache THEN [at |-> "set", key |-> k, list |-> Rows(k)] ELSE Idle("200"))
  /\ UNCHANGED cache

\* Mutant of ReadRaises: what raised is tried again.
ReadRaisesRetries(w) ==
  /\ \/ request[w].at = "get" /\ "redis" \notin up
     \/ request[w].at = "select" /\ "postgres" \notin up
  /\ Goes(w, request[w])
  /\ UNCHANGED cache

\* Both calls are inside the try that is meant for std::stoll: 400.
ReadRaises(w) ==
  /\ \/ request[w].at = "get" /\ "redis" \notin up
     \/ request[w].at = "select" /\ "postgres" \notin up
  /\ Goes(w, Idle("400"))
  /\ UNCHANGED cache

Set(w) ==
  /\ request[w].at = "set"
  /\ "redis" \in up
  /\ SetKey(request[w].key, request[w].list)
  /\ Goes(w, Idle("200"))

\* Outside the try; Redis may have got the command before it went away.
SetRaises(w) ==
  /\ request[w].at = "set"
  /\ "redis" \notin up
  /\ SetKey(request[w].key, request[w].list) \/ UNCHANGED cache
  /\ Goes(w, Idle("500"))

-----------------------------------------------------------------------------
(* POST /api/v1/deliveries.                                                *)

Bodies == [receiver_id : {"absent", "integer", "other"},
           parcel_id : {"absent", "integer", "other"}]

HasMembers(b) == b.receiver_id # "absent" /\ b.parcel_id # "absent"

\* CreateDeliveryRequest::FromJson does not raise.
Converts(b) == b.receiver_id = "integer" /\ b.parcel_id = "integer"

CreateRefused(w, b) ==
  /\ Arrives(w)
  /\ ~(HasMembers(b) /\ Converts(b))
  /\ Goes(w, Idle(IF HasMembers(b) THEN "500" ELSE "400"))
  /\ UNCHANGED cache

CreateBegins(w, u, v) ==
  /\ Arrives(w)
  /\ Goes(w, [at |-> "insert", sender |-> u, receiver |-> v])
  /\ UNCHANGED cache

\* Four arguments for the five places of the statement: Postgres refuses it
\* before it runs, and raises.  The rest of the handler, which would delete the
\* keys of sender and receiver, is never reached: the table stays as it is, and
\* nothing can be said of an invalidation.
CreateDelivery(w) ==
  /\ request[w].at = "insert"
  /\ Goes(w, Idle("500"))
  /\ UNCHANGED cache

-----------------------------------------------------------------------------
Init ==
  /\ StartupInit
  /\ deliveries = Deliveries
  /\ cache = [k \in {} |-> {}]
  /\ request = [w \in Workers |-> Idle("none")]

GetStep(w) == Get(w) \/ Select(w) \/ ReadRaises(w) \/ Set(w) \/ SetRaises(w)

Arrival(w) ==
  \/ \E q \in [sender : Args, receiver : Args] :
       GetRefused(w, q) \/ GetUncached(w, q) \/ GetCached(w, q)
  \/ \E b \in Bodies : CreateRefused(w, b)
  \/ \E u, v \in Users : CreateBegins(w, u, v)

RequestStep(w) == GetStep(w) \/ CreateDelivery(w)

\* A handler is destroyed when it serves no request.
Quiet == \A w \in Workers : request[w].at = "idle"
UnloadStep == \E c \in ready : (c \in Handlers => Quiet) /\ Unload(c)

Lifecycle == Start \/ (\E c \in program.components : Load(c)) \/ Serve \/ UnloadStep \/ Exit

KillStep == Kill /\ request' = [w \in Workers |-> Idle("none")]

Disturbance ==
  \/ \E c \in program.components : LoadRaises(c)
  \/ Stop
  \/ \E b \in Backends(program) : BackendDown(b) \/ BackendUp(b)

Next ==
  \/ \E w \in Workers : Arrival(w) \/ RequestStep(w)
  \/ (Lifecycle \/ Disturbance) /\ UNCHANGED <<deliveries, cache, request>>
  \/ KillStep /\ UNCHANGED <<deliveries, cache>>
  \/ \E k \in Keys : DropKey(k)

Spec == Init /\ [][Next]_vars

\* userver goes on loading or unloading, docker restarts, a request that waits
\* for a backend is answered or its command raises.
FairSpec ==
  /\ Spec
  /\ WF_vars(Lifecycle /\ UNCHANGED <<deliveries, cache, request>>)
  /\ WF_vars(\E w \in Workers : RequestStep(w))

-----------------------------------------------------------------------------
(* What the service promises.                                              *)

\* A request never meets a client that is already destroyed: while the process
\* stops around it, what it still has to call is there, because its handler's
\* constructor found it (get_deliveries_handler.cpp:15-18 against 44-75).
ClientsOutliveRequests ==
  \A w \in Workers :
    /\ request[w].at \in {"get", "set"} => "redis-delivery" \in ready
    /\ request[w].at \in {"select", "insert"} => "postgres-delivery-db" \in ready

\* A stop comes to its end, and so does a start that failed: whatever requests
\* were waiting, whichever stores are away or come and go, each of them is over at
\* last, and no destructor waits for one that waits for it
\* (get_deliveries_handler.cpp:44-75, the lists of the fifteen main.cpp).
StopEnds == process = "stopping" ~> process = "down"
=============================================================================
