----------------------------- MODULE ParcelSystem -----------------------------
(***************************************************************************)
(* lab6_event_driven from the POST of a parcel to the line that            *)
(* delivery-service prints: the handlers of CacheAside, whose POST, after  *)
(* its DEL, publishes ParcelCreated through the EventBus                   *)
(* (create_parcel_handler.cpp:50-57) before it answers.  The handler owns  *)
(* the producer: no request is served before its constructor has returned, *)
(* and both die together.                                                  *)
(***************************************************************************)
EXTENDS CacheAside

CONSTANTS BusFaults, ExchangeExists

VARIABLES broker, exchange, queueState, queue, ghost, producer, body, wire,
          published, overlapped, consumer, channel, socket, logged

\* An event is known by the id of its parcel; ids begin at 1.
Bus == INSTANCE EventBus WITH
         Events <- 1 .. MaxParcels, NoEvent <- 0, Faults <- BusFaults

\* The process crashes as a whole: ServiceCrash below, never the producer alone.
ASSUME SystemAssumption ==
  /\ AfterDelete = "publish"
  /\ BusFaults \subseteq {"consumer", "broker"}
  /\ ExchangeExists \in BOOLEAN

busState == <<broker, exchange, queueState, queue, ghost, producer, body, wire,
              published, overlapped, consumer, channel, socket, logged>>
allVars == <<cacheVars, busState>>

Serving == producer # "down"

\* Mutant of BeginPublish: a publish that need not wait for the DEL.
BeginPublishEarly(w) ==
  /\ pc[w] \in {"delete", "publish"}
  /\ Bus!BeginPublish(w, made[w])
  /\ pc' = [pc EXCEPT ![w] = "sending"]
  /\ UNCHANGED <<parcels, redis, user, made, found, response, history>>

\* Lines 52-57: the call into the producer ...
BeginPublish(w) ==
  /\ pc[w] = "publish"
  /\ Bus!BeginPublish(w, made[w])
  /\ pc' = [pc EXCEPT ![w] = "sending"]
  /\ UNCHANGED <<parcels, redis, user, made, found, response, history>>

\* Mutant of EndPublish: a publish on a broken connection is tried again.
EndPublishRetries(w) ==
  /\ pc[w] = "sending"
  /\ Bus!EndPublish(w)
  /\ pc' = [pc EXCEPT ![w] = IF producer' = "broken" THEN "publish" ELSE "respond"]
  /\ UNCHANGED <<parcels, redis, user, made, found, response, history>>

\* ... and its return, with nothing to tell how it went.
EndPublish(w) ==
  /\ pc[w] = "sending"
  /\ Bus!EndPublish(w)
  /\ pc' = [pc EXCEPT ![w] = "respond"]
  /\ UNCHANGED <<parcels, redis, user, made, found, response, history>>

\* POST up to the DEL, and its answer.
Create(w) == Serving /\ PostStep(w) /\ UNCHANGED busState

\* GET does not touch the bus.
List(w) == Serving /\ GetStep(w) /\ UNCHANGED busState

Request(w) ==
  \/ Create(w)
  \/ List(w)
  \/ BeginPublish(w)
  \/ EndPublish(w)

\* Mutant of Crash: a connection that outlives the requests.
CrashKeepsConnection == Serving /\ ServiceCrash /\ UNCHANGED busState

\* parcel-service dies; it serves again once StartProducer has run.
Crash ==
  /\ Serving
  /\ ServiceCrash
  /\ producer' = "down"
  /\ body' = [w \in Workers |-> 0]
  /\ wire' = [w \in Workers |-> {}]
  /\ UNCHANGED <<broker, exchange, queueState, queue, ghost, published, overlapped,
                 consumer, channel, socket, logged>>

SysInit == Init /\ Bus!Init

SysNext ==
  \/ \E w \in Workers : Request(w)
  \/ Crash
  \/ (Tick \/ RedisRestart) /\ UNCHANGED busState
  \/ Bus!BusStep /\ UNCHANGED cacheVars

SysSpec == SysInit /\ [][SysNext]_allVars

-----------------------------------------------------------------------------
(* What the whole promises.                                                *)

\* Ids of the events that somebody has, or will have, from the bus.
Announced == {id \in 1 .. MaxParcels :
                id \in Bus!OnTheWire \/ Bus!Places(Bus!Alive, id) # {}}

\* An event tells of a stored parcel whose DEL is done: who hears of it and
\* asks for its sender's parcels is never given a list without it, unless an
\* older read was in flight at that DEL (create_parcel_handler.cpp 42, 50, 52).
AnnouncedIsListed ==
  \A id \in Announced :
    /\ id \in Ids /\ id \notin Pending \cup skipped
    /\ Cached(parcels[id]) /\ id \notin list[parcels[id]] => id \in raced

\* What a request is publishing is the row it inserted, and a request that
\* will answer 201 has published it; a crash takes both sides down at once.
PublisherMatchesRequest ==
  \A w \in Workers :
    /\ body[w] # 0 <=> pc[w] = "sending"
    /\ pc[w] = "sending" => body[w] = made[w]
    /\ pc[w] = "respond" => made[w] \in published

\* A request that comes to its publish is the first to publish its row, and the
\* connection is there and not in its own hands: no crash, failure or reused id
\* makes an event go out twice, or keeps a request from going on
\* (create_parcel_handler.cpp 41-57, producer.cpp 56-83).
PublishedOnce ==
  \A w \in Workers : pc[w] = "publish" =>
    producer # "down" /\ body[w] = 0 /\ made[w] \notin published

\* To a client of lab5 a request that publishes is one that is about to answer.
Lab5Step == [w \in Workers |-> IF pc[w] \in {"publish", "sending"} THEN "respond" ELSE pc[w]]

Lab5 == INSTANCE CacheAside WITH AfterDelete <- "respond", pc <- Lab5Step

\* The bus costs the lists nothing: what the handlers of lab6 do with Postgres,
\* Redis and their clients, whatever happens to a publish, is what those of lab5
\* do (create_parcel_handler.cpp 41-60).
ImplementsLab5 == Lab5!Spec

-----------------------------------------------------------------------------
(* What the documents of the repository say, and the code does not do.     *)

\* event_catalog.md:31: "Delivery guarantee: `at least once`": with a broker
\* that is up and a consumer it sends to, each publish puts an event in its queue.
EachPublishIsQueued ==
  [][\A w \in Workers :
       pc[w] = "sending" /\ pc'[w] = "respond" /\ channel = "consuming"
         => Len(queue') = Len(queue) + 1]_allVars
=============================================================================
