# Parcel delivery service: a TLA+ verification project

The repository is one small system, a parcel delivery service in C++ on userver,
written five times over as a course advances: `lab2_rest_api` on SQLite,
`lab3_postgresql` on Postgres, `lab4_mongodb` with users in MongoDB, `lab5_redis`
with a cache and a rate limiter, `lab6_event_driven` with events over RabbitMQ.
(`lab1_structurizr` is a diagram.) Three services, user, parcel and delivery, stand
behind nginx; each serves HTTP requests on the four threads of its
`main-task-processor`, so the requests of one service interleave at every wait.

This directory holds models of the parts in which something can go wrong between
two such waits, the TLC runs that check them, and proofs of most of the results for
every number of users, requests and rows.

## 1. Inventory

| Component | State | Operations | Talks to | What is hard | Correct means |
|---|---|---|---|---|---|
| Parcels and their cache (lab5, lab6: `parcel/*_handler.cpp`, `common/redis_cache.cpp`, `common/db.cpp`) | table `parcels`; Redis key `parcels:user:{id}` with a TTL | POST: INSERT, DEL, answer. GET: Redis GET, on a miss SELECT and SET | Postgres, Redis, (lab6) the producer | a list that is read, then overtaken by an INSERT and its DEL, then stored; DEL that fails; a crash in between | a list is the user's own past list; staleness has a known cause and an end |
| Event bus (lab6: `parcel/producer.cpp`, `delivery/consumer.cpp`, `delivery/main.cpp`) | connection of the producer, exchange, queue, consumer thread | publish; connect, declare, bind, consume, print | RabbitMQ | one connection for four threads; no confirms, no acks, no reconnect; auto_delete; start order of containers | what is printed is a subsequence of what was routed; nothing is printed twice without an overlap; a consumer the broker sends to is on a bound queue |
| Creating a parcel end to end (lab6: `create_parcel_handler.cpp`) | both of the above | INSERT, DEL, publish, answer | all of the above | order of the four steps, crash between them | who hears of a parcel finds it in the list |
| Login limiter (lab5, lab6: `common/rate_limiter.cpp`, `user/login_user_handler.cpp`) | Redis key `rate_limit:login:{ip}:{window}` | read clock, INCR, EXPIRE, decide | Redis, the clock | INCR and EXPIRE are two commands; the clock is read before INCR | not more than the limit pass; nobody pays for another window |
| user-service (lab5, lab6: `user/*_handler.cpp`) | the limiter's keys, the collection `users` | login behind the limiter; registration, GET and search beside it | Redis, MongoDB | two stores and one crash; a count that was taken for a login that never came | each password compared has a place of the limiter, or Redis failed to count it |
| Users and tokens (lab4-6: `common/mongo_db.cpp`, `user/*_handler.cpp`, `auth/*.cpp`) | collection `users`; the clock; tokens with an expiry | CreateUser, AuthenticateUser, GenerateToken, CheckAuth, GetUser | MongoDB, the clock | `_id` is the microsecond clock; nothing in the tree makes logins unique; the clock is read twice for one expiry | ids are not shared; an accepted token is backed by a password and in time |
| lab4 as a whole (`parcel/*_handler.cpp`, `common/db.cpp`, search of users) | the above, table `parcels` | CheckAuth, INSERT, SELECT; search | user-service's tokens, Postgres | users and parcels in two stores, no key and no transaction between them | a parcel's sender is a user whose password was given |
| Deliveries and their caches (lab4-6: `delivery/*_handler.cpp`) | table `deliveries`; a Redis key for each sender and each receiver | POST: INSERT, two DELs; GET as for parcels, with every exception told as 400 | Postgres, Redis | the INSERT is given four arguments for five placeholders, so no POST gets to its DELs; a request waits for a store while the process stops around it | a request ends, and finds its clients until then |
| Start and end of the services (lab2-6: fifteen `main.cpp`, `handlers.cpp`, static configs) | components constructed, phase of the process | construct, fail, serve, stop, be killed, be restarted | all stores, docker | components are built at once and wait for each other by name; they are destroyed while requests wait | nobody waits in a circle; a client outlives the requests that use it; the service ends up serving, and a stop ends |
| SQLite store and services (lab2: `common/db.cpp`, all handlers) | three tables; `last_insert_rowid()` of each connection | InitSchema; CreateUser, CreateParcel, CreateDelivery; login, lookups, lists | one file shared by three processes | a handler's requests share one connection; a create is three calls; a schema whose third statement is wrong; a failing SELECT finds nothing | a create is answered with the row it stored |
| Postgres store and services (lab3: `common/db.cpp`, `schema.sql`, all handlers) | three tables with constraints; the sequences of their ids; tokens | creates, login, lookups, lists: one statement each | Postgres | a statement outlives its request; a violated constraint raises like a lost answer, so clients retry blindly | one account for a login for ever; a parcel has an owner who logged in |
| Models and JSON (`common/models.*`) | none | conversion field by field | all handlers | a body that has its fields and does not convert raises instead of being refused | which answer such a body gets |
| Gateway and deployment (`nginx.conf`, `docker-compose.yaml`) | none | static routes; restart policies | all services | documents, routes and handlers must agree on the operations (they do not: section 4); start order | start order: see start and end of the services |

Interaction in one line: a client's request passes nginx, is authenticated, is served
by a coroutine which waits for Postgres, MongoDB, Redis; a POST of a parcel also writes
to RabbitMQ, from which a thread of delivery-service reads and prints. The services
share no memory with one another; inside a service the requests share the connection
objects their handler owns.

`PROJECT.json` lists, under `hazards`, each place in the code where this is delicate,
with the properties that watch it.

## 2. Modules

    lab2   SqliteStore == refines ==> RowStore           SqliteStore_proofs
    lab3   PostgresStore == refines ==> Directory        PostgresStore_proofs
    lab4   Accounts -- Lab4System                        Lab4System_proofs
    lab5-6 RateLimiter --+
           Accounts -----+-- UserService                 UserService_proofs
             (refines Lab4System, proved there)
           CacheAside ---+                               CacheAside_proofs
                         +-- ParcelSystem (lab6)         ParcelSystem_proofs
                               == refines ==> CacheAside as lab5 has it
    lab6   EventBus -----+                               EventBus_proofs
             == refines ==> LossyFifo
    lab2-6 Startup -- DeliveryService (lab4-6)           DeliveryService_proofs
    MC*    instances for TLC, one for each module that is checked

### CacheAside (lab5, and the parcel handlers of lab6)
`parcels` is the table: a sequence of senders, indexed by id. `list[u]` and `ttl[u]` are
the Redis key of user u and its remaining life. A worker is a request in progress:
`pc` says at which wait it stands, `user`, `made`, `found` are the locals
`user_id`, `parcel->id`, `parcels` of the two handlers. One action per stretch of code
between two waits:

| Code | Action |
|---|---|
| `create_parcel_handler.cpp` 28-39 refusals, or an INSERT refused | `CreateRefused` |
| 41 `db_->CreateParcel` | `CreateInsert`, `CreateInsertRaises` (committed, but the answer is lost) |
| 49 `redis_->Delete` | `CreateDelete`, `CreateDeleteRaises` |
| 51-52 | `CreateRespond` |
| `get_user_parcels_handler.cpp` 28-35 | `GetHit`, `GetMiss`, `GetRaises` |
| 37 | `Select`, `SelectRaises` |
| 46 | `Set`, `SetRaises` |
| Redis expiry, Redis restart, process crash | `Tick`, `RedisRestart`, `ServiceCrash` |

A Redis command that raises may have been carried out or not. `raced` and `skipped` are
history variables: ids whose DEL ran while a GET of the same user held an older list, and
ids whose DEL never ran. `ParcelColumns` is a constant because labs 4-6 mount a
`schema.sql` that is not in the tree: the SELECT names a column `full_name` that the only
schema in the tree, lab3's, does not have.

### EventBus (lab6), LossyFifo
The producer's `connection_` is `down` (no process), `open` or `broken`; every return value
of librabbitmq is ignored by the code, so a broken connection stays broken. `body[w]` is
the event a worker is publishing and `wire[w]` the bodies that may end up in its frames:
alone, its own; with others on the same unlocked connection, any of theirs, or a framing
error that makes the broker close the connection. The consumer walks through `declare`,
`bind`, `consume` into its `loop` (`consumer.cpp` 63-90), whatever the broker answers: no reply is
looked at. What became of its calls is on the broker's side, in `channel`: `open`, `consuming` once the
broker took its subscription, or `closed`, by a call that was refused or with the broker; the loop
then fails for ever. The broker is what these files
ask of it: a durable topic exchange, a queue that is not durable and is deleted with its
last consumer, delivery without acknowledgement. `ghost` is a consumer that died and that
the broker has not noticed yet.

`LossyFifo` says what is left of a channel: events may be lost in stretches, never
invented, repeated or reordered. `ImplementsLossyFifo` is the refinement, with
`chan <- socket \o queue` and `got <- logged`.

### ParcelSystem (lab6)
EXTENDS CacheAside, with `AfterDelete = "publish"`, and INSTANCEs EventBus with the ids of
parcels as events. It adds the two steps of the publish to the POST handler, ties the life
of the producer to the process (the handler owns it: no request is served before its
constructor returns, and a crash takes both), and lets everything else of both modules
interleave. Read the other way, `ImplementsLab5` hides the bus: with `publish` and `sending` seen as
lab5's last step (`Lab5Step`), every step of lab6 is one of lab5 or none.

### RateLimiter (lab5, lab6)
The keys of one client: `count[k]` and `expiry[k]` for each window k. `stamp[w]` is
`now_sec`, `seen[w]` the reply to INCR. `ReadClock`, `Incr`, `Expire`, `Decide` are the four
stretches of `CheckLimit` and its caller; the first two commands may raise, before or after
Redis has carried them out. `lives` counts how often the counter of a window began at 1,
`disturbed` the windows counted in after their end or lost by Redis.

### Accounts (lab4-6)
`users` is the collection: a set of documents, since nothing in the tree gives it an index but
the one on `_id`; `UniqueIndex` is a constant because labs 5 and 6 mount no script that could add
one and lab4's `validation.js` has none. `now` is the clock, in units of which a user's id is one:
`BeginCreate` takes `new_id` from it, `InsertOne` comes any time later. A login is `BeginLogin`,
`AuthenticateUser` (one of the documents with that login, any one), `GenerateToken` (the clock is
read for the expiry inside the token), `AnswerLogin` (and read again for `expires_at`). `CheckAuth`
is an operator: what another service decides about a token at the present time.

### UserService (lab5, lab6)
All four handlers of user-service in one process: EXTENDS RateLimiter and INSTANCEs Accounts, with
`step` for the place of a request in Accounts and one clock for both. A login goes through the
limiter's `pc` first; the step that decides (`Login`) also reads the body and sends the query, because
there is no wait between them. Registration, GET and search do not pass the limiter. A crash takes the
requests of both sides. `uncounted` is a history variable: how many logins ended with 500 because Redis
raised. The design would let those go on (section 4), so `TokensAreAdmitted` asks for no place of theirs.

### Lab4System (lab4)
EXTENDS Accounts by parcel-service: `Accepted` is the set of tokens `CheckAuth` lets pass now, a
request begins with one of them (`BeginParcel`) and keeps only the number in it (`sender`), so
that the token may expire while it waits. `InsertParcel` answers 500 where reading the row
back raises, `InsertParcelRaises` and `ParcelCrash` leave the row there or not. The search of users,
which lab4 has as well, is `SearchUsers`. "mongo" in `Faults` stands for a failure of either store.

### Startup, DeliveryService (lab2-6)
`Programs` are the fifteen programs, each with the components its `main.cpp` appends; `Needs` is
what a component's constructor looks up by `FindComponent`, what its static config makes the base
class look up (`auth: types: jwt-auth`), and what userver's own components need of one another.
`Load` constructs a component whose needs are there, in any order; `LoadRaises` is a constructor
whose store is away; `Serve` waits for all of them; `Stop`, `Kill`, `Unload` and `Exit` end a process;
`Start` is docker or whoever stopped it. A component that a list lacks makes `FindComponent` raise in
userver; here its finder waits for ever, which comes to the same: the service never serves.

DeliveryService puts the requests of delivery-service on top: `request[w]` is at `get`, `select`, `set`
(GET /deliveries) or `insert` (POST), and `up` says which store answers. `ReadRaises` is 400 because
the calls are inside the `try` that is meant for `std::stoll`, `SetRaises` is 500 because SET is outside
of it. `CreateDelivery` has one outcome: Postgres refuses four arguments for five placeholders, so that
the two DELs after it are dead code, the table stays as it was, and nothing is said of what the cached lists
would be if it did not. A handler is destroyed when it serves no request (`Quiet`).

### PostgresStore (lab3), Directory
Each handler runs one statement that commits by itself. `stmt[w]` is the INSERT worker w waits for;
`Execute` carries it out, with the constraints of `schema.sql` (`Taken`, `Allowed`, `Violated`,
which uses up a number of the sequence). `TimedOut` and `RequestDies` end the request and may leave
its statement in `late[w]`, from where `ExecuteLate` carries it out at any later time, with nobody
to be told. Reads are one step: `Login`, `GetUser`, `SearchUsers`, `GetDeliveries`,
`GetUserParcels` (its SELECT names a column that does not exist), `CreateDelivery` (four arguments
for five placeholders, so that nothing is ever stored). `tokens` holds what each client has from
`GenerateToken`, with the login and password that were given for it. The rows of `data.sql` are left
out: nobody in the model uses their logins.

`Directory` is what the users and tokens are to a client: accounts that are never changed or
removed, one for a login and one for an id, and grants that name an account by its own login
and password. `accounts` is the projection of `users`, `grants` is `tokens`.

### SqliteStore (lab2), RowStore
`Tables` is computed from the statements of `InitSchema` by the rule sqlite3_exec follows
(stop at the first failing one). A create is `Insert`, `GetLastInsertId`, `GetById`;
`lastId[k]` belongs to the connection of the handler for rows of kind k, which all its
requests share. `Serves` says which workers may use which connection. Reads are one SELECT each
and one step each (`GetUser`, `Login`, `SearchUsersByQuery`, `GetUserParcels`, `GetDeliveries`); one
that SQLite cannot run finds nothing, as in the code. `RowStore` is the
promise: a create that succeeds is answered with its own row if its worker shares no
connection (`Alone`), otherwise with a row of the same kind that is not older.

### One host behind Postgres
Every SELECT of lab3 and later asks for `ClusterHostType::kSlave` (`common/db.cpp`). The deployment has
one Postgres host, so the models read the one table. That is an assumption: behind a replica that lags,
a list could be read that is older than the INSERT before it, and `ListedForGood` and `StaleExplained`
would not hold. The mutant `SelectLagging` of CacheAside is that case.

A definition under a comment "Mutant of ..." is not part of the model: it is a deliberately wrong
version of the definition below it, one for each property, used to see that the property notices.

## 3. Runs

`tlc -config X.cfg M.tla`; the longest (lab4, delivery_service, sqlite, user_service) take one to three
minutes on two cores.

| Run | Instance | Shows |
|---|---|---|
| cache | 2 users, 2 requests, 2 rows, a life of 2 ticks, all faults | TypeOK; `ListsArePast`; `StaleExplained`; `ListedForGood`; `EventuallyListed` |
| bus | 2 publishers, 3 events, crashes of both services, outages of the broker | TypeOK; `SubscribedIsBound`; `TwiceOnlyIfOverlapped`; `ImplementsLossyFifo`; `KeptWhileCalm`; `QueuedIsLogged` |
| bus_doc_startup | 1 publisher, 1 event, no fault | violated: `ProcessingResumes` |
| system_safety | 1 user, 2 requests, 2 rows, all faults of both sides | `AnnouncedIsListed`; `PublisherMatchesRequest`; `PublishedOnce`; `ImplementsLab5` |
| system_doc_overlap | 1 user, 2 requests, no fault | violated: `EachPublishIsQueued` |
| user_service | 2 requests at once, limit 1, 2 logins in all, two windows of two ticks, a token that outlives the clock, failures of Redis and MongoDB, crashes, loss of Redis's data | TypeOK; `AdmittedAtMostLimit`; `AdmittedPerCounter`; `RejectedOnlyAtLimit`; `TokensAreAdmitted` |
| lab4 | 2 requests of user-service and 1 of parcel-service, 2 documents, 2 tokens that expire, 1 parcel, all faults | TypeOK; `SystemTypeOK`; `CreatedIsOwn`; `AcceptedIsBacked`; `RefusedOnlyIfDoubled`; `SendersAreUsers` |
| accounts_doc_exists | 1 request, no fault | violated: `ExistingUserIsRefused` |
| sqlite | 3 requests, one with a connection of its own, two sharing; 2 rows of each kind, all faults; the two and the values symmetric | TypeOK; `NeverAnOlderRow`; `ImplementsRowStore` |
| sqlite_doc_returned | 2 requests on one connection, no fault | violated: `CreatedIsReturned` |
| postgres | 2 requests, 2 logins, emails and passwords, 2 users, 1 parcel, timeouts and crashes; workers and values symmetric | TypeOK; `ParcelsAreBacked`; `ImplementsDirectory` |
| delivery_service | all fifteen programs, 2 stops or kills, every outage; for delivery-service 2 requests, 2 users, 3 rows, of which one has the same user on both ends | TypeOK; `NobodyWaitsInACircle`; `ClientsOutliveRequests`; `EventuallyServes`; `StopEnds` |

**Why these bounds.** The races of the cache are between a GET that holds a list and a POST that
overtakes it: two requests, of which either may begin anew while the other waits. Two rows let a list
be old in more than one way, two users let lists be mixed up; a life of two ticks lets a list be
prolonged. The safety of the cache is proved for every number of all of these, so that the run may be
small and check liveness with it. Two publishers overlap, three events can be reordered
around a lost one. Two windows are needed to count in the wrong one, and a limit of 1 with two requests
passes it once too often; the limiter, too, is proved for all bounds. Three SQLite requests are
the smallest set with a shared and an
unshared connection. Two requests, two late statements and two users let a statement that was
given up meet its own retry, or another client's registration of the same login, before or after
it; one parcel is enough for a property of each parcel. For accounts the clock need only move
between any two steps of a request, and two documents share an id or a login. A process that is
stopped twice has been stopped while it was loading, serving and stopping. Three deliveries let the two
directions of one user differ; more rows never come, as no INSERT succeeds. Bounds appear only in guards
of actions that create something or end a process: `MaxParcels` in `InsertRow`, `MaxRows` in `Insert`,
`MaxRequests` in `ReadClock`, `MaxTime` in `Tick`, `MaxUsers` and `MaxTokens` in `InsertOne` and
`AnswerLogin`, `MaxStops` in `Stop` and `Kill`, the set `Events`; and in PostgresStore, where a sequence
that has reached `MaxUsers` or `MaxParcels` refuses the INSERT.

**Deadlock.** Checked everywhere except in the runs of EventBus and UserService, which run
out of events, logins and ticks and then rightly stop.

**Fairness.**
- CacheAside: `WF(Tick)` only. Time passes; nothing forces a client to send or a request to
  finish.
- EventBus: weak fairness of the consumer thread's own steps and of the broker's delivery to
  it (`ConsumerFairness`); `StartFairness` adds that both services are started, which their
  `restart: unless-stopped` gives, and that a publish returns. The rabbitmq container has no
  restart policy, so nothing says that it comes back. Crashes, stops and publishes are
  never fair.
- DeliveryService: weak fairness of `Lifecycle` (userver goes on constructing or destroying
  components, docker restarts what ended) and of the steps of a request that waits: its store answers,
  or the command raises. Arrivals, failures of constructors, stops, kills and the stores are never
  fair; `EventuallyServes` takes it as its premise that the stores stay up from some time on.
  `StopEnds` has no premise: stores may come and go for ever, as each command is answered or raises
  and no request arrives at a process that stops.
- ParcelSystem, UserService, Lab4System, SqliteStore and PostgresStore: no liveness is claimed, and
  no fairness assumed.

## 4. Where the code departs from its documents

Four runs show one each (`findings` in PROJECT.json):

1. **A consumer that starts first never consumes.** Only the producer's constructor declares
   the exchange; a bind before that closes the channel, and the loop fails for ever
   (`event_driven_design.md:132`).
2. **Two publishes at once can lose both events**, with nothing failing
   (`event_catalog.md:31`, "at least once").
3. **A login that has an account can be registered again** (`openapi.yaml:29-30` of lab4: '409'
   "User already exists"): MongoDB refuses only a duplicate `_id`, and that is the clock.
4. **A create may be answered with another request's row** (`openapi.yaml:138-143` of lab2),
   because `last_insert_rowid()` is the connection's.

Also read in the code, and built into the models, but not given a run of their own:

- Cache: the explicit invalidation of `performance_design.md:36` can be lost, when a GET that read
  the table before the INSERT stores its list after the DEL (`StaleExplained` names the case); the
  list then lives 300 s where the design says 60 (`get_user_parcels_handler.cpp:46`); no handler
  of parcels catches what Redis raises, so a request fails when Redis does
  (`performance_design.md:114-117`: "fail-open", it is served).
- Limiter: it is not fail-open either. `CheckLimit` lets the exception of INCR or EXPIRE out and
  the login is answered 500 (`rate_limiter.cpp:16, 19`), where `performance_design.md:114-117` of lab5
  calls rate limiting an optimisation without which the service goes on. `TokensAreAdmitted` takes no
  side: it holds of the code, and asks nothing of a login whose count failed.
- Bus: the queue is deleted with its events when its consumer is gone
  (`event_driven_design.md:131` says they are kept); an event published before the queue is bound
  is dropped, and after an outage of the broker neither side connects again.
- Limiter, again: INCR and EXPIRE are not one step (`README.md:37` of lab5): a crash between them leaves a
  key for ever. `RejectedOnlyAtLimit` holds all the same, because the key carries the number of its
  window.
- Operations: `GET /api/v1/parcels` of parcel-service is documented (`performance_design.md:6, 36` and
  `README.md:31` of lab5) and nginx sends it there, but the path has a handler for POST only; the list
  is `GET /api/v1/users/{id}/parcels`. `README.md:65` of lab2 names it `/api/v1/{id}/parcels`, which
  nothing serves. The eight operations of openapi.yaml have a handler each, in the service that nginx
  sends them to. Routes and handlers are constants, so this is by reading; no run is about it.
- Deliveries: `CreateDelivery` of lab3-6 is always 500 (openapi.yaml promises 201), so that the explicit
  invalidation of `performance_design.md:37-38` never happens; the lists live 300 s, not 60;
  `GET /deliveries` tells every failure of Redis's GET or of Postgres as 400 "must be integers".
- lab2: the tables lack `deliveries`, whose CREATE names a column `received_id` that does not exist;
  GetUserParcels selects a column that is not there and so always answers with an empty list; a
  locked file is answered 409 "User already exists"; a SELECT that cannot be prepared makes a user
  who exists 404, or 401. The `data/delivery.db` in the tree, which compose mounts, has the same two tables
  and one user: the model starts from an empty file, from which it gets there.
- lab3 and later: `GetUserParcels` selects `full_name`, which the only `schema.sql` of the tree does
  not have (500); a login that is
  taken is 500, not 409, since a violated UNIQUE raises; `GET /users/{login}` reads a query argument
  `login`, not the path.
- Deployment: the compose files of lab4-6 mount a `schema.sql`, and of lab4 and later a `mongo-init`,
  that are not in the tree; they set `MONGO_URI` where the static config reads `MONGO_DSN` and falls
  back to its own value.

The rate limit itself (`performance_design.md:48`) can be exceeded in one way without any
fault: a request stamped in the last second of a window whose INCR comes after the key has
gone starts a counter anew. `AdmittedAtMostLimit` says that this and a loss of Redis's data
are the only ways, `AdmittedPerCounter` what each costs.

## 5. Proofs

Each `*_proofs` module is checked by `tlapm` to its last leaf. Nothing is assumed but the named
assumptions on the constants, which TLC evaluates in the runs.

### CacheAside_proofs
For every set of users and workers, every `MaxParcels`,
`TickSeconds`, `Faults` and `AfterDelete` allowed by the three assumptions of CacheAside:

- `TypeCorrect`: Spec => []TypeOK.
- `StaleIsExplained`: Spec => []StaleExplained.
- `ListsAreOnlyPast`: Spec => []ListsArePast.
- `ListsHealForGood`: Spec => ListedForGood, an action property.

`BoundsAssumption` says that the bound is a natural number and that a list lives at least
one tick; `FaultsAssumption` and `AfterDeleteAssumption` name the values of two switches.

The inductive invariant is

    Inv == TypeOK /\ PendingIsOwn /\ StaleExplained

`StaleExplained` is not inductive without `PendingIsOwn` (a row that waits for its DEL belongs
to the user whose key will be deleted): when `CreateDelete` takes an id out of `Pending`, the
id must be missing from no list any more. The list of the row's owner has just been dropped,
and lists of other users do not miss the row because it is not theirs. A list that a GET of the
same user holds may miss it, and then the id enters `raced`. Three lemmas carry the argument:
`InsertExplained` (a new row is missing everywhere, and is pending or skipped),
`DeleteExplained` (the case above), and `ListsMoveOnly` (all other steps only drop lists or
hand them on). `ListsArePast` then needs Inv only for types: a past list stays past when the
table grows (`StaysPast`), and the table itself is past (`TableIsPast`).

`StaleExplained` says why a list may lack a parcel, not that this ever ends. `ListedForGood` says it
does not begin again: once no list of its sender, cached or held by a GET, lacks a parcel, none ever
will. It needs no more than Inv: a step makes a list out of the table, out of another list of the same
user, or not at all (`ListSteps`, on which `ListsArePast` rests as well), and the table has the row.
Together with the life of a key that no hit prolongs, which `EventuallyListed` checks by TLC, it is
what makes staleness end.

### EventBus_proofs
Under the three assumptions of EventBus (known faults, `NoEvent` is no event, a Boolean), for all
workers and events and any number of crashes:

- `TypeCorrect`: Spec => []TypeOK.
- `SubscribedHasQueue`: Spec => []SubscribedIsBound.
- `IsALossyFifo`: Spec => ImplementsLossyFifo, the refinement as a step simulation.
- `NeverTwiceAlone`: Spec => []TwiceOnlyIfOverlapped.
- `NothingLostInCalm`: Spec => KeptWhileCalm, an action property.

    Inv == TypeOK /\ OnTheWire \subseteq published /\ ConsumerIsServed

`SubscribedIsBound` is not inductive: at `BasicConsume` the broker checks only that the queue exists.
`ConsumerIsServed` adds that a consumer whose channel is still open between its bind and its consume
finds the queue bound or gone, never declared and unbound, and that no channel is open while the
broker is down. Of the thread's loop the theorem says nothing: that is entered without a subscription as
well, which `bus_doc_startup` shows. In the simulation a step that routes an event is `Send`, `LogEvent`
is `Receive`, a delivery moves an event inside the channel, and a crash on either side is one `Lose`: what
is dropped is a stretch of socket and queue (`DropMiddle`), all of it for an outage that also cuts the
socket.

`NeverTwiceAlone` needs `SentOnce` beside Inv: of an event that never overlapped, at most one request
carries it, and it is on its way to the broker or in the channel, never in both. A loss cannot
double anything (`LossKeepsOnce`), an event that arrives was absent (`SendKeepsOnce`), and a publish
that joins others puts all of their events among the overlapped ones at that moment.

A lossy channel says nothing of when it loses. `KeptWhileCalm` does: no step into a state in which the
connection is open and one living consumer is subscribed loses an event that a request has handed over or
that is further on, unless its publish overlapped another. Only `EndPublish` is of interest (`EndPublishKeeps`):
the publish writes the event it was called with (`AloneOnTheWire`: nobody else's body is in its
frames if nobody was there), and finds the queue bound because a consumer is subscribed
(`ConsumerIsServed`). With `NeverTwiceAlone` this is exactly once, and `EachPublishIsQueued` is the
counterexample without its exception.

### ParcelSystem_proofs
For every instance, from `SystemAssumption` and the assumptions of the two parts:

- `AnnouncedCanBeRead`: SysSpec => []AnnouncedIsListed.
- `PublishesOwnRow`: SysSpec => []PublisherMatchesRequest.
- `StaleIsExplainedInLab6`: SysSpec => []StaleExplained, which CacheAside_proofs shows only of lab5.
- `BusInSystem`: SysSpec => WholeBus!Spec: the composition is an EventBus, step by step, so that what
  is proved of the bus holds in the whole.
- `BusKeepsItsPromises`: SysSpec => [](TypeOK, SubscribedIsBound and TwiceOnlyIfOverlapped of that bus).
- `WholeIsALossyFifo`: SysSpec => WholeBus!ImplementsLossyFifo, two refinements composed.
- `CalmSystemKeepsEvents`: SysSpec => WholeBus!KeptWhileCalm.
- `PublishesOnce`: SysSpec => []PublishedOnce.
- `SystemImplementsLab5`: SysSpec => ImplementsLab5, a refinement as a step simulation.
- `ListsInLab6`: SysSpec => []ListsArePast /\ ListedForGood, of lab6's own lists.

    SysInv == CacheAside's Inv /\ BusHoldsPublished /\ PublishedIsDeleted
                /\ RowsHaveOneRequest /\ PublisherMatchesRequest

All that the bus holds was published, whatever it lost or mixed up, and what was published is an id
outside `Pending` and `skipped`; `StaleExplained` then leaves `raced` as the only excuse of a list. An
id leaves `Pending` for good because one request only has its DEL to do (`RowsHaveOneRequest`).
`PublishesOnce` adds `RowsAreFresh` to it: a row that a request has yet to publish is no other
request's, and nobody has published it. A crash does not disturb that, since it takes the requests and
leaves their rows, and an id is never given twice.

The parts are not proved again: EventBus_proofs and CacheAside_proofs are instantiated, and their
lemmas on the inductive invariants are cited under the instance's name. `SystemImplementsLab5` maps
each step of a POST after its DEL to lab5's answer or to a stutter; a crash, which lab5 has too, maps
to itself whatever it does to the bus.

### UserService_proofs
- `LimiterInService`: ServiceSpec => RateLimiter's Spec; a step of user-service that is none of the
  limiter's leaves it alone.
- `TypeCorrect`, `LimitHolds` (`AdmittedAtMostLimit`), `LimitPerCounter` (`AdmittedPerCounter`),
  `RejectionsAreDue` (`RejectedOnlyAtLimit`): of ServiceSpec, for all requests, limits and windows.
- `ImplementsLab4`: ServiceSpec => Lab4System's specification, with a parcel-service that nobody asks:
  to the accounts nothing happens behind a limiter that does not happen without it.
- `AccountsInService`, `RefusalMeansDoubled`: what Lab4System_proofs shows of Accounts (`TypeOK`,
  `CreatedIsOwn`, `AcceptedIsBacked`, `RefusedOnlyIfDoubled`) holds in user-service of lab5 and lab6.
- `TokensHaveAdmission`: ServiceSpec => []TokensAreAdmitted.

The argument counts places. `Given(k)` is what window k has given away: Limit for each life of its
counter that is over, and what the present one has counted, Limit at most. `PlacesSuffice` says that
those who passed and those who will (`Passing(k)`, who hold a count that is allowed) had a place each.
An INCR gives one place to one request; a key that is lost ends a life, which had given Limit at most.
`OneLife` says that an undisturbed window has one life, because its key expires only after its end
(`KeysOutliveWindows`, which is arithmetic of windows) and nobody stamped in it counts later without
disturbing it. A rejected request saw more than Limit, and no counter shows more than was counted
(`CountsAreReal`).

`TokensAreAdmitted` compares two stores: the tokens that were given, with the logins that may still get
one, against the requests the limiter let through, in all windows together, and those that Redis did not count
(`uncounted`, which only grows). The places of the limiter are
a set (`Places`: the pairs of a window and a number up to what it admitted), so that both sides are
cardinalities; `TokensHavePlaces` adds to the property that all three sets are finite. Only `Login`
makes a login, and the same step takes a place that was free; a login that ends gives up its claim or
leaves a token for it, and a crash only ends logins.

### Lab4System_proofs
Of Accounts alone, under `AccountsAssumption`: `TypeCorrect`, `CreatedOwnAccount` (`CreatedIsOwn`) and
`AcceptedHasBacking` (`AcceptedIsBacked`).

    Inv == TypeOK /\ IsFiniteSet(users) /\ \A w \in Workers : Underway(w) /\ \A t \in tokens : Backed(t)

Between `FindUser` and the answer of a login, other requests and the clock move. `Underway(w)` says
that a login that goes on found a document with its own credentials, and that its token expires no
later than the client is about to be told: the handler reads the clock a second time for
`expires_at`, and the clock only moves on. Both outlive every step of the others because no
document is removed. `OneMoves` is the common shape of all steps of a request; each action then
shows only what it leaves behind. Documents are counted by `TypeOK`, hence `IsFiniteSet`.

Of lab4 as a whole, with `Lab4Assumption`: `SystemTypeCorrect`, `SendersHaveAccounts`
(`SendersAreUsers`) and `RefusalMeansDoubled` (`RefusedOnlyIfDoubled`, an action property).

    SystemInv == Inv /\ WaitsUnanswered /\ ParcelsVouched

A user is `Vouched` for when a token with its id was given for its own credentials. A token vouches for
its user (`TokensVouch`), no step forgets it (`VouchedForGood`), so the sender an INSERT still waits with
is vouched for, however old its token is by then. A right password is refused only if the document that
was found is another one than the document that has it, with the same login (`TwoDocuments`).

### PostgresStore_proofs
Under `PostgresAssumption` (the bounds are natural numbers, `Faults` names known faults), for all
workers, logins, emails and passwords:

- `TypeCorrect`: Spec => []TypeOK.
- `ParcelsHaveBacking`: Spec => []ParcelsAreBacked.
- `IsADirectory`: Spec => ImplementsDirectory, the refinement as a step simulation.

    Inv == TypeOK /\ IdsAreSerial /\ TokensMatch /\ SendersHoldTokens /\ ParcelsAreBacked

A new row gets the next number of its sequence; that this is nobody's id needs `IdsAreSerial`. A
token names a user who is in the table with the login and password given for it (`TokensMatch`);
that this lasts is because no statement changes or removes a user. A parcel that is carried out
late was sent by the holder of a token, who may hold it no less by then: `SendersHoldTokens` says
so of each statement that is waited for or late, and is what makes `ParcelsAreBacked` inductive.

### SqliteStore_proofs
Under `SqliteAssumption` (natural bound, `Serves` a function into kinds, known faults):

- `TypeCorrect`: Spec => []TypeOK.
- `NeverOlder`: Spec => []NeverAnOlderRow.
- `IsARowStore`: Spec => ImplementsRowStore.

    Inv == TypeOK /\ LastIsStored /\ \A w \in Workers : Underway(w)

`Underway(w)` says of each request where its row stands with regard to `lastId` of its connection
and to the id it fetched: equal if it shares the connection with nobody, not older otherwise.
That needs `LastIsStored`, since the next row of a kind is newer than any id a connection can
have. The read-only requests and the failures are one case (`EndKeeps`), whoever ends.

### DeliveryService_proofs
Under `StartupAssumption` and `DeliveryAssumption`, for all users, requests, deliveries and any number of
stops:

- `TypeCorrect`: Spec => []TypeOK.
- `ClientsStay`: Spec => []ClientsOutliveRequests.
- `SomeComponentMoves`: Spec => []NobodyWaitsInACircle.

    Inv == TypeOK /\ ComponentsAreThere /\ HandlersAreThere

A component stays as long as one that found it (`ComponentsAreThere`), and the handlers stay while a
request is served (`HandlersAreThere`): what a request calls is what its handler's constructor found
(`HandlerFinds`), so it is there. A server listens only with all components of its program, which
hold the handlers of its service in each of the fifteen (`ProgramsHaveHandlers`).

`SomeComponentMoves` is what `EventuallyServes` rests on, without its fairness. Components have a place
in an order (`First`, `Second`, `Third`, then the handlers) and wait only for earlier ones
(`NeedsGoDown`); each main() lists what its components wait for (`ListsAreComplete`). So the earliest
missing component can be made, and the latest that is left is found by none.

### What the proofs do not reach
Every safety property of a passing run is a theorem, whether invariant, action property or refinement.
Model-checked only is all liveness: `EventuallyListed`, `QueuedIsLogged`, `EventuallyServes`, `StopEnds`, since
the prover does not handle fairness and ENABLED. The four runs that
expect a violation are counterexamples and need no proof. No module uses a RECURSIVE operator.

## 6. Not modelled

lab1 is a diagram. The JSON and JWT libraries, userver, RabbitMQ, Redis, MongoDB, Postgres and SQLite
themselves are modelled only as far as the code asks something of them. Of the models (`common/models.*`) only
the bodies that a `FromJson` refuses are in the handlers' actions: their `ToJson` and the reading of a row
are assignments field by field. Of the gateway and the deployment, restarts and
outages are; routes, headers, networks, health checks, swagger and Docker files are not. `GetUserById`,
`GetParcelById` and `GetDeliveryById` of lab3 and later are never called. The password hash, the secret of
the tokens and the wording of answers are data no property distinguishes. Connection pools of the stores
are taken as large enough: a request that waits for a connection is a request whose store has not answered
yet.

The consumer thread of lab6's delivery-service is EventBus's and not Startup's: `main.cpp` starts it
before userver and detaches it, and the two share nothing.

## 7. Plan

Done, in the order of the damage a fault does: CacheAside, EventBus, ParcelSystem, RateLimiter,
SqliteStore, Accounts, PostgresStore, Lab4System, UserService, Startup and DeliveryService; proofs of
every safety property that a passing run checks, and of what the parts keep of it in the whole.

Left:
1. The end of user-service and parcel-service with requests in progress, as DeliveryService has it
   for delivery-service; so far Startup only starts and stops them.
2. That PostgresStore, whose statements may be carried out late, promises of its parcels what SqliteStore
   promises of a create; so far only its users have an abstract specification.
