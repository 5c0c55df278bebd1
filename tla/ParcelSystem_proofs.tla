-------------------------- MODULE ParcelSystem_proofs --------------------------
(***************************************************************************)
(* What ParcelSystem promises for every set of users and workers, every    *)
(* bound and every choice of faults: what an event says can be read in its *)
(* sender's lists, and a 201 is never given without a publish.  The part   *)
(* about lists is CacheAside_proofs's; here is what ties it to the bus.    *)
(***************************************************************************)
EXTENDS ParcelSystem, CacheAside_proofs, SequenceTheorems

\* All that the bus holds was published.
BusHoldsPublished ==
  /\ body \in [Workers -> published \cup {0}]
  /\ wire \in [Workers -> SUBSET published]
  /\ queue \in Seq(published)
  /\ socket \in Seq(published)
  /\ logged \in Seq(published)

\* A published row has its DEL behind it.
PublishedIsDeleted ==
  /\ published \subseteq Ids
  /\ published \cap Pending = {}
  /\ published \cap skipped = {}

\* Each row is inserted by one request, which has one DEL to do, and has done
\* it when it publishes.
RowsHaveOneRequest ==
  /\ \A v, w \in Workers :
       pc[v] = "delete" /\ pc[w] = "delete" /\ made[v] = made[w] => v = w
  /\ \A w \in Workers : pc[w] = "delete" => made[w] \notin skipped
  /\ \A w \in Workers : pc[w] \in {"publish", "sending", "respond"} =>
       made[w] \in Ids /\ made[w] \notin Pending /\ made[w] \notin skipped

SysInv ==
  /\ Inv
  /\ BusHoldsPublished
  /\ PublishedIsDeleted
  /\ RowsHaveOneRequest
  /\ PublisherMatchesRequest

-----------------------------------------------------------------------------
\* The two sides start empty.
LEMMA SysInitInv == SysInit => SysInv
<1> SUFFICES ASSUME SysInit PROVE SysInv
  OBVIOUS
<1>1. Inv
  BY InitInv DEF SysInit
<1>2. BusHoldsPublished
  BY EmptySeq DEF SysInit, Bus!Init, BusHoldsPublished
<1>3. PublishedIsDeleted /\ RowsHaveOneRequest /\ PublisherMatchesRequest
  BY DEF SysInit, Init, Bus!Init, PublishedIsDeleted, RowsHaveOneRequest,
         PublisherMatchesRequest
<1> QED
  BY <1>1, <1>2, <1>3 DEF SysInv

-----------------------------------------------------------------------------
(* Steps of the handlers that leave the bus alone.                         *)

\* What concerns one request only, when no other one moves.
LEMMA OthersStay ==
  ASSUME TypeOK, PublishedIsDeleted, RowsHaveOneRequest, PublisherMatchesRequest,
         UNCHANGED <<body, published>>,
         Ids \subseteq Ids', skipped' = skipped,
         NEW w \in Workers,
         pc[w] \notin {"delete", "sending"},
         pc'[w] \notin {"delete", "publish", "sending", "respond"},
         \A v \in Workers : v # w => pc'[v] = pc[v] /\ made'[v] = made[v]
  PROVE  PublishedIsDeleted' /\ RowsHaveOneRequest' /\ PublisherMatchesRequest'
<1>1. Pending' = Pending
  BY DEF Pending
<1>2. PublishedIsDeleted'
  BY <1>1 DEF PublishedIsDeleted
<1>3. RowsHaveOneRequest'
  BY <1>1 DEF RowsHaveOneRequest
<1>4. PublisherMatchesRequest'
  BY DEF PublisherMatchesRequest
<1> QED
  BY <1>2, <1>3, <1>4

\* An INSERT makes a row that nobody published, and that is nobody else's.
LEMMA InsertLinks ==
  ASSUME SysInv, NEW w \in Workers, NEW u \in Users,
         CreateInsert(w, u) \/ CreateInsertRaises(w, u),
         UNCHANGED <<body, published>>
  PROVE  PublishedIsDeleted' /\ RowsHaveOneRequest' /\ PublisherMatchesRequest'
<1> DEFINE new == Len(parcels) + 1
<1>1. TypeOK /\ PendingIsOwn /\ PublishedIsDeleted /\ RowsHaveOneRequest /\ PublisherMatchesRequest
  BY DEF SysInv, Inv
<1>2. Ids \subseteq Ids' /\ new \notin Ids /\ new \in Ids'
  <2>1. InsertRow(u)
    BY DEF CreateInsert, CreateInsertRaises
  <2> QED
    BY <1>1, <2>1, InsertedRow
<1>3. \A v \in Workers : pc[v] = "delete" => made[v] \in Ids
  BY <1>1 DEF PendingIsOwn, Own
<1>4. skipped \subseteq Ids
  BY <1>1 DEF TypeOK
<1> HIDE DEF new
<1>5. CASE CreateInsert(w, u)
  <2>1. /\ pc[w] = "idle" /\ pc'[w] = "delete" /\ made'[w] = new
        /\ \A v \in Workers : v # w => pc'[v] = pc[v] /\ made'[v] = made[v]
        /\ skipped' = skipped
    BY <1>1, <1>5 DEF CreateInsert, TypeOK, history, new
  <2>2. Pending' = Pending \cup {new}
    BY <2>1 DEF Pending
  <2>3. PublishedIsDeleted'
    BY <1>1, <1>2, <2>1, <2>2 DEF PublishedIsDeleted
  <2>4. RowsHaveOneRequest'
    BY <1>1, <1>2, <1>3, <1>4, <2>1, <2>2 DEF RowsHaveOneRequest
  <2>5. PublisherMatchesRequest'
    BY <1>1, <2>1 DEF PublisherMatchesRequest
  <2> QED
    BY <2>3, <2>4, <2>5
<1>6. CASE CreateInsertRaises(w, u)
  <2>1. UNCHANGED <<pc, made>> /\ skipped' = skipped \cup {new}
    BY <1>6 DEF CreateInsertRaises, requests, new
  <2>2. Pending' = Pending
    BY <2>1 DEF Pending
  <2>3. PublishedIsDeleted'
    BY <1>1, <1>2, <2>1, <2>2 DEF PublishedIsDeleted
  <2>4. RowsHaveOneRequest'
    BY <1>1, <1>2, <1>3, <2>1, <2>2 DEF RowsHaveOneRequest
  <2>5. PublisherMatchesRequest'
    BY <1>1, <2>1 DEF PublisherMatchesRequest
  <2> QED
    BY <2>3, <2>4, <2>5
<1> QED
  BY <1>5, <1>6

\* With its DEL a row leaves the pending ones, and is published next, or never.
LEMMA DeleteLinks ==
  ASSUME SysInv, NEW w \in Workers, CreateDelete(w) \/ CreateDeleteRaises(w),
         UNCHANGED <<body, published>>
  PROVE  PublishedIsDeleted' /\ RowsHaveOneRequest' /\ PublisherMatchesRequest'
<1>1. TypeOK /\ PendingIsOwn /\ PublishedIsDeleted /\ RowsHaveOneRequest /\ PublisherMatchesRequest
  BY DEF SysInv, Inv
<1>2. /\ pc[w] = "delete" /\ made[w] \in Ids /\ Ids' = Ids /\ made[w] \in Pending
      /\ \A v \in Workers : v # w => pc'[v] = pc[v] /\ made'[v] = made[v]
  BY <1>1 DEF CreateDelete, CreateDeleteRaises, Answer, PendingIsOwn, Own, Ids, Pending, TypeOK
<1>3. \/ pc'[w] = "publish" /\ made'[w] = made[w] /\ skipped' = skipped
      \/ pc'[w] = "idle" /\ (skipped' = skipped \/ skipped' = skipped \cup {made[w]})
  BY <1>1, SystemAssumption DEF CreateDelete, CreateDeleteRaises, Answer, TypeOK
<1>4. Pending' = Pending \ {made[w]}
  <2>1. \A v \in Workers : pc[v] = "delete" /\ made[v] = made[w] => v = w
    BY <1>1, <1>2 DEF RowsHaveOneRequest
  <2> QED
    BY <1>2, <1>3, <2>1 DEF Pending
<1>5. PublishedIsDeleted'
  BY <1>1, <1>2, <1>3, <1>4 DEF PublishedIsDeleted
<1>6. RowsHaveOneRequest'
  BY <1>1, <1>2, <1>3, <1>4 DEF RowsHaveOneRequest
<1>7. PublisherMatchesRequest'
  BY <1>1, <1>2, <1>3 DEF PublisherMatchesRequest
<1> QED
  BY <1>5, <1>6, <1>7

\* The other steps of a POST end it; those of a GET never make a row.
LEMMA HandlerLinks ==
  ASSUME SysInv, NEW w \in Workers, PostStep(w) \/ GetStep(w),
         UNCHANGED <<body, published>>
  PROVE  PublishedIsDeleted' /\ RowsHaveOneRequest' /\ PublisherMatchesRequest'
<1>1. TypeOK /\ PublishedIsDeleted /\ RowsHaveOneRequest /\ PublisherMatchesRequest
  BY DEF SysInv, Inv
<1>2. CASE CreateRefused(w)
  BY <1>1, <1>2, OthersStay DEF CreateRefused, requests, history, Ids
<1>3. CASE CreateRespond(w)
  <2>1. /\ pc[w] = "respond" /\ pc'[w] = "idle" /\ Ids' = Ids /\ skipped' = skipped
        /\ \A v \in Workers : v # w => pc'[v] = pc[v] /\ made'[v] = made[v]
    BY <1>1, <1>3 DEF CreateRespond, Answer, history, Ids, TypeOK
  <2> QED
    BY <1>1, <2>1, OthersStay
<1>4. CASE GetStep(w)
  <2>1. /\ pc[w] \in {"idle", "select", "set"} /\ pc'[w] \in {"idle", "select", "set"}
        /\ Ids' = Ids /\ skipped' = skipped
        /\ \A v \in Workers : v # w => pc'[v] = pc[v] /\ made'[v] = made[v]
    BY <1>1, <1>4 DEF GetStep, GetHit, GetMiss, GetRaises, Select, SelectRaises, Set, SetRaises,
                      Answer, history, Ids, TypeOK
  <2> QED
    BY <1>1, <2>1, OthersStay
<1> QED
  BY <1>2, <1>3, <1>4, InsertLinks, DeleteLinks DEF PostStep

\* Whatever the handlers, the clock or Redis do, the invariant is kept while the
\* bus stands still.
LEMMA HandlerInv ==
  ASSUME SysInv, (\E w \in Workers : PostStep(w) \/ GetStep(w)) \/ Tick \/ RedisRestart,
         UNCHANGED busState
  PROVE  SysInv'
<1>1. UNCHANGED <<queue, body, wire, published, socket, logged>>
  BY DEF busState
<1>2. BusHoldsPublished'
  BY <1>1 DEF SysInv, BusHoldsPublished
<1>3. Inv'
  BY TypeStep, PendingStep, StaleStep DEF SysInv, Inv, Next
<1>4. CASE \E w \in Workers : PostStep(w) \/ GetStep(w)
  BY <1>1, <1>2, <1>3, <1>4, HandlerLinks DEF SysInv
<1>5. CASE Tick \/ RedisRestart
  <2>1. UNCHANGED <<parcels, pc, made, skipped>>
    BY <1>5 DEF Tick, RedisRestart, requests, history
  <2>2. PublishedIsDeleted' /\ RowsHaveOneRequest' /\ PublisherMatchesRequest'
    BY <1>1, <2>1 DEF SysInv, PublishedIsDeleted, RowsHaveOneRequest, PublisherMatchesRequest,
                      Pending, Ids
  <2> QED
    BY <1>2, <1>3, <2>2 DEF SysInv
<1> QED
  BY <1>4, <1>5

-----------------------------------------------------------------------------
(* Steps of the bus.                                                       *)

\* A request that publishes, or has published, is past its DEL: what it does to
\* the lists and to the rows that wait for a DEL is nothing.
LEMMA PublishKeepsCache ==
  ASSUME Inv, NEW w \in Workers, NEW step \in {"sending", "respond"},
         pc[w] \in {"publish", "sending"}, pc' = [pc EXCEPT ![w] = step],
         UNCHANGED <<parcels, redis, user, made, found, response, history>>
  PROVE  Inv' /\ Pending' = Pending
<1>1. TypeOK'
  BY DEF Inv, TypeOK, redis, history, Ids, Steps
<1>2. \A v \in Workers : /\ pc'[v] = "delete" <=> pc[v] = "delete"
                         /\ pc'[v] = "set" <=> pc[v] = "set"
  BY DEF Inv, TypeOK
<1>3. PendingIsOwn'
  BY <1>2 DEF Inv, PendingIsOwn, Own, Ids
<1>4. Pending' = Pending
  BY <1>2 DEF Pending
<1>5. StaleExplained'
  BY <1>2, <1>4, ListsMoveOnly DEF Inv, Excused, Cached, redis, history
<1> QED
  BY <1>1, <1>3, <1>4, <1>5 DEF Inv

\* What a sequence holds may be counted in a larger set.
LEMMA LargerSeq ==
  ASSUME NEW S, NEW T, S \subseteq T, NEW s \in Seq(S)
  PROVE  s \in Seq(T)
OBVIOUS

\* A publish that begins adds its own row to what was published.
LEMMA BeginPublishSysInv ==
  ASSUME SysInv, NEW w \in Workers, BeginPublish(w)
  PROVE  SysInv'
<1>1. /\ TypeOK /\ Inv /\ BusHoldsPublished /\ PublishedIsDeleted /\ RowsHaveOneRequest
      /\ PublisherMatchesRequest
  BY DEF SysInv, Inv
<1>2. /\ pc[w] = "publish" /\ pc' = [pc EXCEPT ![w] = "sending"]
      /\ UNCHANGED <<parcels, redis, user, made, found, response, history>>
      /\ Bus!BeginPublish(w, made[w])
  BY DEF BeginPublish
<1>3. Inv' /\ Pending' = Pending
  BY <1>1, <1>2, PublishKeepsCache
<1>4. made[w] \in Ids /\ made[w] \notin Pending /\ made[w] \notin skipped
  BY <1>1, <1>2 DEF RowsHaveOneRequest
<1>5. /\ published' = published \cup {made[w]} /\ body' = [body EXCEPT ![w] = made[w]]
      /\ UNCHANGED <<queue, socket, logged>>
  BY <1>2 DEF Bus!BeginPublish, Bus!brokerVars, Bus!queueVars, Bus!consumerVars
<1>6. BusHoldsPublished'
  <2>1. body' \in [Workers -> published' \cup {0}]
    BY <1>1, <1>5 DEF BusHoldsPublished
  <2>2. wire' \in [Workers -> SUBSET published']
    <3>1. Bus!OnTheWire \subseteq published
      BY <1>1 DEF BusHoldsPublished, Bus!OnTheWire, Bus!Publishing
    <3>2. wire' = [v \in Workers |->
                     IF v = w THEN Bus!OnTheWire \cup {made[w]}
                     ELSE IF v \in Bus!Publishing THEN wire[v] \cup {made[w]}
                     ELSE {}]
      BY <1>2 DEF Bus!BeginPublish
    <3> QED
      BY <1>1, <1>5, <3>1, <3>2 DEF BusHoldsPublished
  <2>3. queue' \in Seq(published') /\ socket' \in Seq(published') /\ logged' \in Seq(published')
    BY <1>1, <1>5, LargerSeq DEF BusHoldsPublished
  <2> QED
    BY <2>1, <2>2, <2>3 DEF BusHoldsPublished
<1>7. PublishedIsDeleted'
  BY <1>1, <1>2, <1>3, <1>4, <1>5 DEF PublishedIsDeleted, Ids, history
<1>8. RowsHaveOneRequest'
  BY <1>1, <1>2, <1>3 DEF RowsHaveOneRequest, Ids, history, TypeOK
<1>9. PublisherMatchesRequest'
  <2>1. made[w] # 0
    BY <1>1, <1>4 DEF TypeOK, Ids
  <2> QED
    BY <1>1, <1>2, <1>5, <2>1 DEF PublisherMatchesRequest, TypeOK, BusHoldsPublished
<1> QED
  BY <1>3, <1>6, <1>7, <1>8, <1>9 DEF SysInv

\* One that returns leaves an event that was published in the queue, or none.
LEMMA EndPublishSysInv ==
  ASSUME SysInv, NEW w \in Workers, EndPublish(w)
  PROVE  SysInv'
<1>1. /\ TypeOK /\ Inv /\ BusHoldsPublished /\ PublishedIsDeleted /\ RowsHaveOneRequest
      /\ PublisherMatchesRequest
  BY DEF SysInv, Inv
<1>2. /\ pc[w] = "sending" /\ pc' = [pc EXCEPT ![w] = "respond"]
      /\ UNCHANGED <<parcels, redis, user, made, found, response, history>>
      /\ Bus!EndPublish(w)
  BY DEF EndPublish
<1>3. Inv' /\ Pending' = Pending
  BY <1>1, <1>2, PublishKeepsCache
<1>4. /\ published' = published /\ body' = [body EXCEPT ![w] = 0]
      /\ wire' = [wire EXCEPT ![w] = {}] /\ UNCHANGED <<socket, logged>>
      /\ (\E e \in wire[w] : Bus!Route(e)) \/ queue' = queue
  BY <1>2 DEF Bus!EndPublish, Bus!consumerVars
<1>5. queue' \in Seq(published)
  <2>1. CASE queue' = queue
    BY <1>1, <2>1 DEF BusHoldsPublished
  <2>2. ASSUME NEW e \in wire[w], Bus!Route(e) PROVE queue' \in Seq(published)
    BY <1>1, <2>2, AppendProperties DEF BusHoldsPublished, Bus!Route
  <2> QED
    BY <1>4, <2>1, <2>2
<1>6. BusHoldsPublished'
  BY <1>1, <1>4, <1>5 DEF BusHoldsPublished
<1>7. PublishedIsDeleted'
  BY <1>1, <1>2, <1>3, <1>4 DEF PublishedIsDeleted, Ids, history
<1>8. RowsHaveOneRequest'
  BY <1>1, <1>2, <1>3 DEF RowsHaveOneRequest, Ids, history, TypeOK
<1>9. PublisherMatchesRequest'
  <2>1. made[w] \in published
    BY <1>1, <1>2 DEF PublisherMatchesRequest, BusHoldsPublished
  <2> QED
    BY <1>1, <1>2, <1>4, <2>1 DEF PublisherMatchesRequest, TypeOK, BusHoldsPublished
<1> QED
  BY <1>3, <1>6, <1>7, <1>8, <1>9 DEF SysInv

\* A crash ends every request and every publish; what was published stays so.
LEMMA CrashSysInv ==
  ASSUME SysInv, Crash
  PROVE  SysInv'
<1>1. Inv'
  BY TypeStep, PendingStep, StaleStep DEF SysInv, Inv, Next, Crash
<1>2. BusHoldsPublished'
  BY DEF SysInv, BusHoldsPublished, Crash
<1>3. Pending' = {} /\ skipped' = skipped \cup Pending /\ Ids' = Ids
  BY DEF Crash, ServiceCrash, Pending, Ids
<1>4. PublishedIsDeleted'
  BY <1>3 DEF SysInv, PublishedIsDeleted, Crash
<1>5. RowsHaveOneRequest' /\ PublisherMatchesRequest'
  BY DEF RowsHaveOneRequest, PublisherMatchesRequest, Crash, ServiceCrash
<1> QED
  BY <1>1, <1>2, <1>4, <1>5 DEF SysInv

\* The broker and the consumer move events on, or lose them.
LEMMA BusSysInv ==
  ASSUME SysInv, Bus!BusStep, UNCHANGED cacheVars
  PROVE  SysInv'
<1>1. Inv /\ BusHoldsPublished /\ PublishedIsDeleted /\ RowsHaveOneRequest
      /\ PublisherMatchesRequest
  BY DEF SysInv
<1>2. Inv'
  BY <1>1, TypeStep, PendingStep, StaleStep DEF Inv
<1>3. UNCHANGED <<body, wire, published>>
  BY DEF Bus!BusStep, Bus!StartProducer, Bus!StartConsumer, Bus!DeclareQueue, Bus!BindQueue,
         Bus!BasicConsume, Bus!LogEvent, Bus!ConsumerCrash, Bus!Deliver, Bus!DeliverToGhost,
         Bus!ReapGhost, Bus!BrokerStop, Bus!BrokerStart, Bus!producerVars
<1>4. PublishedIsDeleted' /\ RowsHaveOneRequest' /\ PublisherMatchesRequest'
  BY <1>1, <1>3 DEF PublishedIsDeleted, RowsHaveOneRequest, PublisherMatchesRequest, Pending,
                    Ids, cacheVars
<1>5. queue' \in Seq(published) /\ socket' \in Seq(published) /\ logged' \in Seq(published)
  <2>1. queue \in Seq(published) /\ socket \in Seq(published) /\ logged \in Seq(published)
    BY <1>1 DEF BusHoldsPublished
  <2> USE DEF Bus!brokerVars, Bus!queueVars, Bus!producerVars, Bus!consumerVars
  <2>2. CASE Bus!LogEvent
    <3>1. Head(socket) \in published /\ Tail(socket) \in Seq(published)
      BY <2>1, <2>2, HeadTailProperties DEF Bus!LogEvent
    <3> QED
      BY <2>1, <2>2, <3>1, AppendProperties DEF Bus!LogEvent
  <2>3. CASE Bus!Deliver
    <3>1. Head(queue) \in published /\ Tail(queue) \in Seq(published)
      BY <2>1, <2>3, HeadTailProperties DEF Bus!Deliver
    <3> QED
      BY <2>1, <2>3, <3>1, AppendProperties DEF Bus!Deliver
  <2>4. CASE Bus!DeliverToGhost
    <3>1. Tail(queue) \in Seq(published)
      BY <2>1, <2>4, HeadTailProperties DEF Bus!DeliverToGhost
    <3> QED
      BY <2>1, <2>4, <3>1 DEF Bus!DeliverToGhost
  <2>5. CASE \/ Bus!StartProducer
             \/ Bus!StartConsumer
             \/ Bus!DeclareQueue
             \/ Bus!BindQueue
             \/ Bus!BasicConsume
             \/ Bus!BrokerStart
    BY <2>1, <2>5 DEF Bus!StartProducer, Bus!StartConsumer, Bus!DeclareQueue, Bus!BindQueue,
                      Bus!BasicConsume, Bus!BrokerStart
  <2>6. CASE Bus!ConsumerCrash \/ Bus!ReapGhost \/ Bus!BrokerStop
    BY <2>1, <2>6, EmptySeq DEF Bus!ConsumerCrash, Bus!ReapGhost, Bus!BrokerStop
  <2> QED
    BY <2>2, <2>3, <2>4, <2>5, <2>6 DEF Bus!BusStep
<1>6. BusHoldsPublished'
  BY <1>1, <1>3, <1>5 DEF BusHoldsPublished
<1> QED
  BY <1>2, <1>4, <1>6 DEF SysInv

\* Every step of the whole is one of these.
LEMMA SysStepInv == SysInv /\ [SysNext]_allVars => SysInv'
<1> SUFFICES ASSUME SysInv, [SysNext]_allVars PROVE SysInv'
  OBVIOUS
<1>1. ASSUME NEW w \in Workers, Create(w) \/ List(w) PROVE SysInv'
  BY <1>1, HandlerInv DEF Create, List
<1>2. ASSUME NEW w \in Workers, BeginPublish(w) \/ EndPublish(w) PROVE SysInv'
  BY <1>2, BeginPublishSysInv, EndPublishSysInv
<1>3. CASE Crash
  BY <1>3, CrashSysInv
<1>4. CASE (Tick \/ RedisRestart) /\ UNCHANGED busState
  BY <1>4, HandlerInv
<1>5. CASE Bus!BusStep /\ UNCHANGED cacheVars
  BY <1>5, BusSysInv
<1>6. CASE UNCHANGED allVars
  <2>1. UNCHANGED cacheVars /\ UNCHANGED busState
    BY <1>6 DEF allVars
  <2>2. Inv'
    BY <2>1, TypeStep, PendingStep, StaleStep DEF SysInv, Inv
  <2>3. BusHoldsPublished'
    BY <2>1 DEF SysInv, BusHoldsPublished, busState
  <2>4. PublishedIsDeleted' /\ RowsHaveOneRequest' /\ PublisherMatchesRequest'
    BY <2>1 DEF SysInv, PublishedIsDeleted, RowsHaveOneRequest, PublisherMatchesRequest,
                Pending, Ids, cacheVars, busState
  <2> QED
    BY <2>2, <2>3, <2>4 DEF SysInv
<1> QED
  BY <1>1, <1>2, <1>3, <1>4, <1>5, <1>6 DEF SysNext, Request

\* The invariant of the whole holds throughout.
LEMMA SysInvariance == SysSpec => []SysInv
BY SysInitInv, SysStepInv, PTL DEF SysSpec

-----------------------------------------------------------------------------
\* Whoever hears of a parcel and asks for its sender's list is given it, unless
\* an older read was in flight at its DEL (create_parcel_handler.cpp 41-57).
THEOREM AnnouncedCanBeRead == SysSpec => []AnnouncedIsListed
<1>1. SysInv => AnnouncedIsListed
  <2> SUFFICES ASSUME SysInv, NEW id \in Announced
               PROVE  /\ id \in Ids /\ id \notin Pending \cup skipped
                      /\ Cached(parcels[id]) /\ id \notin list[parcels[id]] => id \in raced
    BY DEF AnnouncedIsListed
  <2>1. id \in published
    <3>1. CASE id \in Bus!OnTheWire
      BY <3>1 DEF SysInv, BusHoldsPublished, Bus!OnTheWire, Bus!Publishing
    <3>2. CASE Bus!Places(Bus!Alive, id) # {}
      <4>1. logged \o socket \o queue \in Seq(published)
        BY ConcatProperties DEF SysInv, BusHoldsPublished
      <4>2. PICK i \in DOMAIN (logged \o socket \o queue) : (logged \o socket \o queue)[i] = id
        BY <3>2 DEF Bus!Places, Bus!Alive
      <4> QED
        BY <4>1, <4>2, ElementOfSeq
    <3> QED
      BY <3>1, <3>2 DEF Announced
  <2>2. id \in Ids /\ id \notin Pending /\ id \notin skipped
    BY <2>1 DEF SysInv, PublishedIsDeleted
  <2>3. ASSUME Cached(parcels[id]), id \notin list[parcels[id]] PROVE id \in raced
    <3>1. parcels[id] \in Users
      BY <2>2 DEF SysInv, Inv, TypeOK, Ids
    <3>2. id \in Missing(parcels[id], list[parcels[id]])
      BY <2>2, <2>3 DEF Missing, Own
    <3>3. id \in Excused
      BY <2>3, <3>1, <3>2 DEF SysInv, Inv, StaleExplained
    <3> QED
      BY <2>2, <3>3 DEF Excused
  <2> QED
    BY <2>2, <2>3
<1> QED
  BY <1>1, SysInvariance, PTL

\* A 201 is never given without a publish, and a publish is never of another
\* request's row (create_parcel_handler.cpp 52-60).
THEOREM PublishesOwnRow == SysSpec => []PublisherMatchesRequest
BY SysInvariance, PTL DEF SysInv

\* What CacheAside says of its lists holds in lab6, whose POST goes on after its
\* DEL.
THEOREM StaleIsExplainedInLab6 == SysSpec => []StaleExplained
BY SysInvariance, PTL DEF SysInv, Inv

-----------------------------------------------------------------------------
(* Each row is published once.                                             *)

\* Requests that have inserted a row.
Posting == {"delete", "publish", "sending", "respond"}

\* Nobody is served without the producer; a row is in the hands of one request,
\* and it is not published before that request comes to it.
RowsAreFresh ==
  /\ producer = "down" => \A w \in Workers : pc[w] = "idle"
  /\ \A v, w \in Workers :
       pc[v] \in Posting /\ pc[w] \in Posting /\ made[v] = made[w] => v = w
  /\ \A w \in Workers : pc[w] \in {"delete", "publish"} => made[w] \notin published

\* A step of one request, with the row it has or without any.
LEMMA RowsStayFresh ==
  ASSUME SysInv, RowsAreFresh, NEW w \in Workers, producer # "down", producer' # "down",
         \A v \in Workers \ {w} : pc'[v] = pc[v] /\ made'[v] = made[v],
         published' \subseteq published \cup {made[w]},
         pc'[w] \in Posting => pc[w] \in Posting /\ made'[w] = made[w],
         pc'[w] \in {"delete", "publish"} => pc[w] = "delete",
         published' = published \/ (pc[w] \in Posting /\ pc'[w] = "sending")
  PROVE  RowsAreFresh'
<1>1. ASSUME NEW v \in Workers, NEW x \in Workers, pc'[v] \in Posting, pc'[x] \in Posting,
             made'[v] = made'[x]
      PROVE  v = x
  BY <1>1 DEF RowsAreFresh
<1>2. ASSUME NEW v \in Workers, pc'[v] \in {"delete", "publish"} PROVE made'[v] \notin published'
  <2>1. CASE v = w
    BY <1>2, <2>1 DEF RowsAreFresh, Posting
  <2>2. CASE v # w /\ published' = published
    BY <1>2, <2>2 DEF RowsAreFresh
  <2>3. CASE v # w /\ pc[w] \in Posting
    BY <1>2, <2>3 DEF RowsAreFresh, Posting
  <2> QED
    BY <2>1, <2>2, <2>3
<1> QED
  BY <1>1, <1>2 DEF RowsAreFresh

\* The row of an INSERT is nobody's yet.
LEMMA InsertedRowIsFresh ==
  ASSUME SysInv, RowsAreFresh, NEW w \in Workers, NEW u \in Users, CreateInsert(w, u),
         producer # "down", UNCHANGED <<producer, published>>
  PROVE  RowsAreFresh'
<1> DEFINE new == Len(parcels) + 1
<1>1. TypeOK /\ new \notin Ids
  BY InsertedRow DEF CreateInsert, SysInv, Inv
<1>2. \A v \in Workers : pc[v] \in Posting => made[v] \in Ids
  BY DEF SysInv, Inv, PendingIsOwn, RowsHaveOneRequest, Posting, Own
<1>3. new \notin published
  BY <1>1 DEF SysInv, PublishedIsDeleted
<1>4. /\ pc'[w] = "delete" /\ made'[w] = new
      /\ \A v \in Workers \ {w} : pc'[v] = pc[v] /\ made'[v] = made[v]
  BY <1>1 DEF CreateInsert, TypeOK
<1> HIDE DEF new
<1> QED
  BY <1>1, <1>2, <1>3, <1>4 DEF RowsAreFresh

\* Every step leaves each row to one request, to be published once.
LEMMA RowsAreFreshStep == SysInv /\ RowsAreFresh /\ [SysNext]_allVars => RowsAreFresh'
<1> SUFFICES ASSUME SysInv, RowsAreFresh, [SysNext]_allVars PROVE RowsAreFresh'
  OBVIOUS
<1>0. TypeOK
  BY DEF SysInv, Inv
<1>1. ASSUME UNCHANGED <<pc, made, published>>, producer' = "down" => producer = "down"
      PROVE  RowsAreFresh'
  BY <1>1 DEF RowsAreFresh
<1>2. ASSUME NEW w \in Workers, Create(w) PROVE RowsAreFresh'
  <2>1. producer # "down" /\ UNCHANGED <<producer, published>>
    BY <1>2 DEF Create, Serving, busState
  <2>2. CASE \E u \in Users : CreateInsert(w, u)
    BY <2>1, <2>2, InsertedRowIsFresh
  <2>3. CASE CreateRefused(w) \/ \E u \in Users : CreateInsertRaises(w, u)
    BY <1>1, <2>1, <2>3 DEF CreateRefused, CreateInsertRaises, requests
  <2>4. CASE CreateDelete(w)
    <3>1. /\ pc[w] = "delete" /\ pc'[w] = "publish" /\ made' = made
          /\ \A v \in Workers \ {w} : pc'[v] = pc[v]
      BY <1>0, <2>4, SystemAssumption DEF CreateDelete, TypeOK
    <3> QED
      BY <2>1, <3>1, RowsStayFresh DEF Posting
  <2>5. CASE CreateDeleteRaises(w) \/ CreateRespond(w)
    <3>1. /\ pc'[w] = "idle"
          /\ \A v \in Workers \ {w} : pc'[v] = pc[v] /\ made'[v] = made[v]
      BY <1>0, <2>5 DEF CreateDeleteRaises, CreateRespond, Answer, TypeOK
    <3> QED
      BY <2>1, <3>1, RowsStayFresh DEF Posting
  <2> QED
    BY <1>2, <2>2, <2>3, <2>4, <2>5 DEF Create, PostStep
<1>3. ASSUME NEW w \in Workers, List(w) PROVE RowsAreFresh'
  <2>1. producer # "down" /\ UNCHANGED <<producer, published>>
    BY <1>3 DEF List, Serving, busState
  <2>2. /\ pc'[w] \in {"idle", "select", "set"}
        /\ \A v \in Workers \ {w} : pc'[v] = pc[v] /\ made'[v] = made[v]
    BY <1>0, <1>3 DEF List, GetStep, GetHit, GetMiss, GetRaises, Select, SelectRaises, Set,
                      SetRaises, Answer, TypeOK
  <2> QED
    BY <2>1, <2>2, RowsStayFresh DEF Posting
<1>4. ASSUME NEW w \in Workers, BeginPublish(w) PROVE RowsAreFresh'
  <2>1. /\ pc[w] = "publish" /\ pc'[w] = "sending" /\ made' = made
        /\ \A v \in Workers \ {w} : pc'[v] = pc[v]
        /\ producer # "down" /\ producer' = producer /\ published' = published \cup {made[w]}
    BY <1>0, <1>4 DEF BeginPublish, Bus!BeginPublish, TypeOK
  <2> QED
    BY <2>1, RowsStayFresh DEF Posting
<1>5. ASSUME NEW w \in Workers, EndPublish(w) PROVE RowsAreFresh'
  <2>1. /\ pc[w] = "sending" /\ pc'[w] = "respond" /\ made' = made
        /\ \A v \in Workers \ {w} : pc'[v] = pc[v]
        /\ published' = published
    BY <1>0, <1>5 DEF EndPublish, Bus!EndPublish, TypeOK
  <2>2. producer # "down" /\ producer' # "down"
    BY <1>5, <2>1 DEF EndPublish, Bus!EndPublish, RowsAreFresh
  <2> QED
    BY <2>1, <2>2, RowsStayFresh DEF Posting
<1>6. CASE Crash
  BY <1>6 DEF Crash, ServiceCrash, RowsAreFresh, Posting
<1>7. CASE (Tick \/ RedisRestart) /\ UNCHANGED busState
  BY <1>1, <1>7 DEF Tick, RedisRestart, requests, busState
<1>8. CASE Bus!BusStep /\ UNCHANGED cacheVars
  <2>1. published' = published /\ (producer' = "down" => producer = "down")
    BY <1>8 DEF Bus!BusStep, Bus!StartProducer, Bus!StartConsumer, Bus!DeclareQueue,
      Bus!BindQueue, Bus!BasicConsume, Bus!LogEvent, Bus!ConsumerCrash, Bus!Deliver,
      Bus!DeliverToGhost, Bus!ReapGhost, Bus!BrokerStop, Bus!BrokerStart, Bus!producerVars
  <2> QED
    BY <1>1, <1>8, <2>1 DEF cacheVars
<1>9. CASE UNCHANGED allVars
  BY <1>1, <1>9 DEF allVars, cacheVars, busState
<1> QED
  BY <1>2, <1>3, <1>4, <1>5, <1>6, <1>7, <1>8, <1>9 DEF SysNext, Request

\* A request that comes to its publish is the first to publish its row, on a
\* connection that is there (create_parcel_handler.cpp 41-57, producer.cpp 54-83).
THEOREM PublishesOnce == SysSpec => []PublishedOnce
<1>1. SysInit => RowsAreFresh
  BY DEF SysInit, Init, RowsAreFresh, Posting
<1>2. SysInv /\ RowsAreFresh => PublishedOnce
  <2> SUFFICES ASSUME SysInv, RowsAreFresh, NEW w \in Workers, pc[w] = "publish"
               PROVE  producer # "down" /\ body[w] = 0 /\ made[w] \notin published
    BY DEF PublishedOnce
  <2> QED
    BY DEF SysInv, PublisherMatchesRequest, RowsAreFresh
<1> QED
  BY <1>1, <1>2, RowsAreFreshStep, SysInvariance, PTL DEF SysSpec

-----------------------------------------------------------------------------
(* The bus of the whole is an EventBus.                                    *)

\* EventBus, in which the producer may die at any time.
WholeBus == INSTANCE EventBus_proofs WITH
              Events <- 1 .. MaxParcels, NoEvent <- 0, Faults <- BusFaults \cup {"producer"}

\* Each step of the whole is one of that bus, or none.
LEMMA BusInSystemStep == SysInv /\ [SysNext]_allVars => [WholeBus!Next]_(WholeBus!busVars)
<1> SUFFICES ASSUME SysInv, [SysNext]_allVars
             PROVE  WholeBus!Next \/ UNCHANGED busState
  BY DEF WholeBus!busVars, WholeBus!brokerVars, WholeBus!queueVars, WholeBus!producerVars,
         WholeBus!consumerVars, busState
<1>1. ASSUME NEW w \in Workers, BeginPublish(w) PROVE WholeBus!Next
  <2>1. made[w] \in 1 .. MaxParcels
    <3>1. made[w] \in Ids
      BY <1>1 DEF BeginPublish, SysInv, RowsHaveOneRequest
    <3>2. parcels \in Seq(Users) /\ Len(parcels) <= MaxParcels
      BY DEF SysInv, Inv, TypeOK
    <3> QED
      BY <3>1, <3>2, BoundsAssumption DEF Ids
  <2>2. WholeBus!BeginPublish(w, made[w])
    BY <1>1 DEF BeginPublish, Bus!BeginPublish, WholeBus!BeginPublish, Bus!Publishing,
                WholeBus!Publishing, Bus!OnTheWire, WholeBus!OnTheWire,
                Bus!brokerVars, WholeBus!brokerVars, Bus!queueVars, WholeBus!queueVars,
                Bus!consumerVars, WholeBus!consumerVars
  <2> QED
    BY <2>1, <2>2 DEF WholeBus!Next
<1>2. ASSUME NEW w \in Workers, EndPublish(w) PROVE WholeBus!Next
  <2>1. Bus!Cardinality(wire[w]) = WholeBus!Cardinality(wire[w])
    BY DEF Bus!Cardinality, WholeBus!Cardinality, Bus!IsFiniteSet, WholeBus!IsFiniteSet
  <2>2. WholeBus!EndPublish(w)
    BY <1>2, <2>1 DEF EndPublish, Bus!EndPublish, WholeBus!EndPublish, Bus!Publishing,
                WholeBus!Publishing, Bus!Route, WholeBus!Route,
                Bus!consumerVars, WholeBus!consumerVars
  <2> QED
    BY <2>2 DEF WholeBus!Next
<1>3. CASE Crash
  <2>1. WholeBus!ProducerCrash
    BY <1>3 DEF Crash, Serving, WholeBus!ProducerCrash, WholeBus!brokerVars,
                WholeBus!queueVars, WholeBus!consumerVars
  <2> QED
    BY <2>1 DEF WholeBus!Next
<1>4. CASE Bus!BusStep
  <2>1. WholeBus!BusStep
    BY <1>4 DEF Bus!BusStep, WholeBus!BusStep,
      Bus!StartProducer, Bus!StartConsumer, Bus!DeclareQueue, Bus!BindQueue,
      Bus!BasicConsume, Bus!LogEvent, Bus!ConsumerCrash, Bus!Deliver, Bus!DeliverToGhost,
      Bus!ReapGhost, Bus!BrokerStop, Bus!BrokerStart, Bus!producerVars, Bus!consumerVars,
      Bus!brokerVars, Bus!queueVars,
      WholeBus!StartProducer, WholeBus!StartConsumer, WholeBus!DeclareQueue,
      WholeBus!BindQueue, WholeBus!BasicConsume, WholeBus!LogEvent,
      WholeBus!ConsumerCrash, WholeBus!Deliver, WholeBus!DeliverToGhost,
      WholeBus!ReapGhost, WholeBus!BrokerStop, WholeBus!BrokerStart,
      WholeBus!producerVars, WholeBus!consumerVars, WholeBus!brokerVars,
      WholeBus!queueVars
  <2> QED
    BY <2>1 DEF WholeBus!Next
<1>5. CASE UNCHANGED allVars
  BY <1>5 DEF allVars
<1> QED
  BY <1>1, <1>2, <1>3, <1>4, <1>5 DEF SysNext, Request, Create, List

LEMMA BusInSystemInit == SysInit => WholeBus!Init
BY DEF SysInit, Bus!Init, WholeBus!Init

\* Whatever the handlers do with it, the bus of the whole is an EventBus.
THEOREM BusInSystem == SysSpec => WholeBus!Spec
BY BusInSystemInit, BusInSystemStep, SysInvariance, PTL DEF SysSpec, WholeBus!Spec

\* What EventBus asks of its constants holds of those of the whole.
LEMMA BusConstants ==
  /\ BusFaults \cup {"producer"} \subseteq {"producer", "consumer", "broker"}
  /\ 0 \notin 1 .. MaxParcels
  /\ ExchangeExists \in BOOLEAN
BY SystemAssumption, BoundsAssumption

\* What the proofs about EventBus know of a bus holds of this one.
LEMMA BusInvariance == SysSpec => [](WholeBus!Inv /\ WholeBus!SentOnce)
<1>1. SysInit => WholeBus!Inv
  BY BusInSystemInit, BusConstants, WholeBus!InitInv DEF WholeBus!InitInv
<1>2. SysInit => WholeBus!SentOnce
  BY BusInSystemInit, BusConstants, WholeBus!InitOnce DEF WholeBus!InitOnce
<1>3. SysInv /\ WholeBus!Inv /\ [SysNext]_allVars => WholeBus!Inv'
  BY BusInSystemStep, BusConstants, WholeBus!StepInv DEF WholeBus!StepInv
<1>4. SysInv /\ WholeBus!Inv /\ WholeBus!SentOnce /\ [SysNext]_allVars => WholeBus!SentOnce'
  BY BusInSystemStep, BusConstants, WholeBus!StepOnce DEF WholeBus!StepOnce
<1> QED
  BY <1>1, <1>2, <1>3, <1>4, SysInvariance, PTL DEF SysSpec

\* Events that requests of lab6 publish, and only those: each variable of the bus
\* keeps its type, a consumer that is sent to has a bound queue, and nothing is
\* printed twice without an overlap of two requests (consumer.cpp 32-61,
\* producer.cpp 74-83).
THEOREM BusKeepsItsPromises ==
  SysSpec => [](Bus!TypeOK /\ Bus!SubscribedIsBound /\ Bus!TwiceOnlyIfOverlapped)
<1>1. WholeBus!Inv => Bus!TypeOK
  BY DEF WholeBus!Inv, WholeBus!TypeOK, Bus!TypeOK, WholeBus!ConsumerSteps, Bus!ConsumerSteps
<1>2. WholeBus!Inv => Bus!SubscribedIsBound
  BY DEF WholeBus!Inv, WholeBus!ConsumerIsServed, WholeBus!TypeOK, Bus!SubscribedIsBound
<1>3. WholeBus!Inv /\ WholeBus!SentOnce => Bus!TwiceOnlyIfOverlapped
  <2> SUFFICES ASSUME WholeBus!Inv, WholeBus!SentOnce PROVE Bus!TwiceOnlyIfOverlapped
    OBVIOUS
  <2>1. WholeBus!TwiceOnlyIfOverlapped
    BY BusConstants, WholeBus!SentOnceMeans DEF WholeBus!SentOnceMeans
  <2>2. \A S : Bus!Cardinality(S) = WholeBus!Cardinality(S)
    BY DEF Bus!Cardinality, WholeBus!Cardinality, Bus!IsFiniteSet, WholeBus!IsFiniteSet
  <2>3. \A s, e : Bus!Places(s, e) = WholeBus!Places(s, e)
    BY DEF Bus!Places, WholeBus!Places
  <2> QED
    BY <2>1, <2>2, <2>3 DEF WholeBus!TwiceOnlyIfOverlapped, Bus!TwiceOnlyIfOverlapped,
                            Bus!Alive, WholeBus!Alive
<1> QED
  BY <1>1, <1>2, <1>3, BusInvariance, PTL

\* From the requests that publish to the line that is printed, the whole is a
\* channel that loses, but never reorders or repeats what was routed.
THEOREM WholeIsALossyFifo == SysSpec => WholeBus!ImplementsLossyFifo
<1>1. SysInit => WholeBus!Fifo!Init
  BY BusInSystemInit DEF WholeBus!Init, WholeBus!Fifo!Init
<1>2. SysInv /\ WholeBus!Inv /\ [SysNext]_allVars => [WholeBus!Fifo!Next]_(WholeBus!Fifo!fifoVars)
  BY BusInSystemStep, BusConstants, WholeBus!StepRefines
  DEF WholeBus!StepRefines, WholeBus!fifo, WholeBus!Fifo!fifoVars
<1> QED
  BY <1>1, <1>2, BusInvariance, SysInvariance, PTL
  DEF SysSpec, WholeBus!ImplementsLossyFifo, WholeBus!Fifo!Spec

\* A row whose publish met no other is on its way, or printed, for as long as the
\* whole stays calm, whatever happens to the lists (create_parcel_handler.cpp 52).
THEOREM CalmSystemKeepsEvents == SysSpec => WholeBus!KeptWhileCalm
<1>1. SysInit => WholeBus!AloneOnTheWire
  BY BusInSystemInit, WholeBus!InitAlone, BusConstants DEF WholeBus!InitAlone
<1>2. SysInv /\ WholeBus!Inv /\ WholeBus!AloneOnTheWire /\ [SysNext]_allVars
        => WholeBus!AloneOnTheWire'
  BY BusInSystemStep, BusConstants, WholeBus!StepAlone DEF WholeBus!StepAlone
<1>3. SysInv /\ WholeBus!Inv /\ WholeBus!AloneOnTheWire /\ [SysNext]_allVars
        => [WholeBus!Calm' => \A e \in 1 .. MaxParcels :
              WholeBus!Kept(e) => WholeBus!Kept(e)' \/ e \in overlapped']_(WholeBus!busVars)
  BY BusInSystemStep, BusConstants, WholeBus!StepKeeps
<1> QED
  BY <1>1, <1>2, <1>3, BusInvariance, SysInvariance, PTL
  DEF SysSpec, WholeBus!KeptWhileCalm

-----------------------------------------------------------------------------
(* The handlers of the whole are those of lab5.                            *)

\* A step of a request, as a client of lab5 sees it.
LEMMA Lab5Moves ==
  ASSUME TypeOK, NEW w \in Workers, NEW s, pc' = [pc EXCEPT ![w] = s]
  PROVE  Lab5Step' = [Lab5Step EXCEPT ![w] = IF s \in {"publish", "sending"} THEN "respond" ELSE s]
BY DEF TypeOK, Lab5Step

\* It reads the other requests only before they publish.
LEMMA Lab5Sees ==
  /\ \A w \in Workers, s \in {"idle", "delete", "get", "select", "set"} :
       Lab5Step[w] = s <=> pc[w] = s
  /\ \A w \in Workers : pc[w] = "respond" => Lab5Step[w] = "respond"
  /\ Lab5!Pending = Pending
  /\ \A w \in Workers : Lab5!OvertakenBy(w) = OvertakenBy(w)
<1>1. \A w \in Workers, s \in {"idle", "delete", "get", "select", "set"} :
        Lab5Step[w] = s <=> pc[w] = s
  BY DEF Lab5Step
<1>2. \A w \in Workers : pc[w] = "respond" => Lab5Step[w] = "respond"
  BY DEF Lab5Step
<1>3. Lab5!Pending = Pending
  BY <1>1 DEF Lab5!Pending, Pending
<1>4. \A w \in Workers : Lab5!OvertakenBy(w) = OvertakenBy(w)
  BY <1>1 DEF Lab5!OvertakenBy, OvertakenBy
<1> QED
  BY <1>1, <1>2, <1>3, <1>4

\* A request ends in lab5 when it ends in lab6.
LEMMA Lab5Answers ==
  ASSUME TypeOK, NEW w \in Workers, NEW code, Answer(w, code)
  PROVE  Lab5!Answer(w, code)
BY Lab5Moves DEF Answer, Lab5!Answer

\* POST up to its DEL, and its answer.
LEMMA Lab5Posts ==
  ASSUME TypeOK, NEW w \in Workers, PostStep(w)
  PROVE  Lab5!PostStep(w)
<1> USE DEF redis, requests, history, Lab5!redis, Lab5!requests, Lab5!history
<1>1. CASE CreateRefused(w)
  <2>1. Lab5!CreateRefused(w)
    BY <1>1, Lab5Sees DEF CreateRefused, Lab5!CreateRefused, Lab5Step
  <2> QED
    BY <2>1 DEF Lab5!PostStep
<1>2. ASSUME NEW u \in Users, CreateInsert(w, u) PROVE Lab5!PostStep(w)
  <2>1. Lab5Step' = [Lab5Step EXCEPT ![w] = "delete"]
    BY <1>2, Lab5Moves DEF CreateInsert
  <2>2. Lab5!CreateInsert(w, u)
    BY <1>2, <2>1, Lab5Sees DEF CreateInsert, Lab5!CreateInsert, InsertRow, Lab5!InsertRow
  <2> QED
    BY <2>2 DEF Lab5!PostStep
<1>3. ASSUME NEW u \in Users, CreateInsertRaises(w, u) PROVE Lab5!PostStep(w)
  <2>1. Lab5!CreateInsertRaises(w, u)
    BY <1>3, Lab5Sees DEF CreateInsertRaises, Lab5!CreateInsertRaises, InsertRow,
                          Lab5!InsertRow, Lab5Step
  <2> QED
    BY <2>1 DEF Lab5!PostStep
<1>4. CASE CreateDelete(w)
  <2>1. Lab5Step' = [Lab5Step EXCEPT ![w] = "respond"]
    BY <1>4, Lab5Moves, SystemAssumption DEF CreateDelete
  <2>2. Lab5!CreateDelete(w)
    BY <1>4, <2>1, Lab5Sees DEF CreateDelete, Lab5!CreateDelete, DeleteKey, Lab5!DeleteKey
  <2> QED
    BY <2>2 DEF Lab5!PostStep
<1>5. CASE CreateDeleteRaises(w)
  <2>1. Lab5!Answer(w, "500")
    BY <1>5, Lab5Answers DEF CreateDeleteRaises
  <2>2. Lab5!CreateDeleteRaises(w)
    BY <1>5, <2>1, Lab5Sees DEF CreateDeleteRaises, Lab5!CreateDeleteRaises, DeleteKey,
                                Lab5!DeleteKey
  <2> QED
    BY <2>2 DEF Lab5!PostStep
<1>6. CASE CreateRespond(w)
  <2>1. Lab5!Answer(w, "201")
    BY <1>6, Lab5Answers DEF CreateRespond
  <2>2. Lab5!CreateRespond(w)
    BY <1>6, <2>1, Lab5Sees DEF CreateRespond, Lab5!CreateRespond
  <2> QED
    BY <2>2 DEF Lab5!PostStep
<1> QED
  BY <1>1, <1>2, <1>3, <1>4, <1>5, <1>6 DEF PostStep

\* GET.
LEMMA Lab5Gets ==
  ASSUME TypeOK, NEW w \in Workers, GetStep(w)
  PROVE  Lab5!GetStep(w)
<1> USE DEF redis, history, Lab5!redis, Lab5!history, Cached, Lab5!Cached
<1>1. ASSUME NEW u \in Users, GetHit(w, u) \/ GetRaises(w, u) PROVE Lab5!GetStep(w)
  <2>1. Lab5!GetHit(w, u) \/ Lab5!GetRaises(w, u)
    BY <1>1, Lab5Answers, Lab5Sees DEF GetHit, Lab5!GetHit, GetRaises, Lab5!GetRaises
  <2> QED
    BY <2>1 DEF Lab5!GetStep
<1>2. ASSUME NEW u \in Users, GetMiss(w, u) PROVE Lab5!GetStep(w)
  <2>1. Lab5Step' = [Lab5Step EXCEPT ![w] = "select"]
    BY <1>2, Lab5Moves DEF GetMiss
  <2>2. Lab5!GetMiss(w, u)
    BY <1>2, <2>1, Lab5Sees DEF GetMiss, Lab5!GetMiss
  <2> QED
    BY <2>2 DEF Lab5!GetStep
<1>3. CASE Select(w)
  <2>1. Lab5Step' = [Lab5Step EXCEPT ![w] = "set"]
    BY <1>3, Lab5Moves DEF Select
  <2>2. Lab5!SelectRows(user[w]) = SelectRows(user[w]) /\ Lab5!SelectList = SelectList
    BY DEF SelectRows, Lab5!SelectRows, Own, Lab5!Own, Ids, Lab5!Ids, SelectList, Lab5!SelectList
  <2>3. Lab5!Select(w)
    BY <1>3, <2>1, <2>2, Lab5Sees DEF Select, Lab5!Select
  <2> QED
    BY <2>3 DEF Lab5!GetStep
<1>4. CASE SelectRaises(w) \/ Set(w) \/ SetRaises(w)
  <2>1. TTL = Lab5!TTL /\ SelectFails = Lab5!SelectFails
    BY DEF TTL, Lab5!TTL, SelectFails, Lab5!SelectFails, SelectList, Lab5!SelectList
  <2>2. Lab5!SelectRaises(w) \/ Lab5!Set(w) \/ Lab5!SetRaises(w)
    BY <1>4, <2>1, Lab5Answers, Lab5Sees
    DEF SelectRaises, Lab5!SelectRaises, Set, Lab5!Set, SetRaises, Lab5!SetRaises,
        SetKey, Lab5!SetKey
  <2> QED
    BY <2>2 DEF Lab5!GetStep
<1> QED
  BY <1>1, <1>2, <1>3, <1>4 DEF GetStep

\* Each step of the whole is one of lab5's handlers or surroundings, or none.
LEMMA Lab5StepInSystem ==
  ASSUME TypeOK, [SysNext]_allVars
  PROVE  [Lab5!Next]_(Lab5!cacheVars)
<1> USE DEF redis, history, Lab5!redis, Lab5!history
<1>1. ASSUME Lab5Step' = Lab5Step,
             UNCHANGED <<parcels, list, ttl, user, made, found, response, raced, skipped>>
      PROVE  UNCHANGED Lab5!cacheVars
  BY <1>1 DEF Lab5!cacheVars
<1>2. ASSUME NEW w \in Workers, Create(w) \/ List(w) PROVE Lab5!Next
  BY <1>2, Lab5Posts, Lab5Gets DEF Create, List, Lab5!Next
<1>3. ASSUME NEW w \in Workers, BeginPublish(w) \/ EndPublish(w)
      PROVE  UNCHANGED Lab5!cacheVars
  <2>1. \E s \in {"sending", "respond"} : pc' = [pc EXCEPT ![w] = s]
    BY <1>3 DEF BeginPublish, EndPublish
  <2>2. Lab5Step' = [Lab5Step EXCEPT ![w] = "respond"] /\ Lab5Step[w] = "respond"
    BY <1>3, <2>1, Lab5Moves DEF BeginPublish, EndPublish, Lab5Step
  <2>3. Lab5Step' = Lab5Step
    BY <2>2 DEF Lab5Step
  <2> QED
    BY <1>1, <1>3, <2>3 DEF BeginPublish, EndPublish
<1>4. CASE Crash
  <2>1. Lab5Step' = [v \in Workers |-> "idle"]
    BY <1>4 DEF Crash, ServiceCrash, Lab5Step
  <2>2. Lab5!ServiceCrash
    BY <1>4, <2>1, Lab5Sees DEF Crash, ServiceCrash, Lab5!ServiceCrash
  <2> QED
    BY <2>2 DEF Lab5!Next
<1>5. CASE Tick \/ RedisRestart
  <2>1. Lab5Step' = Lab5Step
    BY <1>5 DEF Tick, RedisRestart, requests, Lab5Step
  <2>2. Lab5!Tick \/ Lab5!RedisRestart
    BY <1>5, <2>1 DEF Tick, RedisRestart, requests, Lab5!Tick, Lab5!RedisRestart,
                      Lab5!requests, Cached, Lab5!Cached
  <2> QED
    BY <2>2 DEF Lab5!Next
<1>6. CASE UNCHANGED cacheVars
  BY <1>1, <1>6 DEF cacheVars, Lab5Step
<1> QED
  BY <1>2, <1>3, <1>4, <1>5, <1>6 DEF SysNext, Request, allVars

\* Whatever happens on the bus, the handlers of lab6 treat Postgres, Redis and
\* their clients as those of lab5 do (create_parcel_handler.cpp 41-60).
THEOREM SystemImplementsLab5 == SysSpec => ImplementsLab5
<1>1. SysInit => Lab5!Init
  BY DEF SysInit, Init, Lab5!Init, Lab5Step
<1>2. SysInv /\ [SysNext]_allVars => [Lab5!Next]_(Lab5!cacheVars)
  BY Lab5StepInSystem DEF SysInv, Inv
<1> QED
  BY <1>1, <1>2, SysInvariance, PTL DEF SysSpec, ImplementsLab5, Lab5!Spec

\* The lists are lab5's too: a list in Redis, or held by a GET, is its user's own
\* as it once was, and once no list lacks a parcel none ever will again
\* (get_user_parcels_handler.cpp 30-46).
THEOREM ListsInLab6 == SysSpec => []ListsArePast /\ ListedForGood
<1>1. SysInit => ListsArePast
  BY DEF SysInit, Init, ListsArePast, Cached
<1>2. ASSUME SysInv, [SysNext]_allVars
      PROVE  \/ [Next]_cacheVars
             \/ /\ UNCHANGED <<parcels, list, ttl, user, found>>
                /\ \A w \in Workers : pc'[w] = "set" <=> pc[w] = "set"
  <2>1. ASSUME NEW w \in Workers, BeginPublish(w) \/ EndPublish(w)
        PROVE  /\ UNCHANGED <<parcels, list, ttl, user, found>>
               /\ \A v \in Workers : pc'[v] = "set" <=> pc[v] = "set"
    <3>1. /\ UNCHANGED <<parcels, list, ttl, user, found>>
          /\ pc[w] \in {"publish", "sending"}
          /\ \E s \in {"sending", "respond"} : pc' = [pc EXCEPT ![w] = s]
      BY <2>1 DEF BeginPublish, EndPublish, redis
    <3>2. pc \in [Workers -> Steps]
      BY <1>2 DEF SysInv, Inv, TypeOK
    <3> QED
      BY <3>1, <3>2
  <2>2. ASSUME NEW w \in Workers, Create(w) \/ List(w) PROVE Next
    BY <2>2 DEF Create, List, Next
  <2>3. Crash => Next
    BY DEF Crash, Next
  <2>4. Tick \/ RedisRestart => Next
    BY DEF Next
  <2> QED
    BY <1>2, <2>1, <2>2, <2>3, <2>4 DEF SysNext, Request, allVars
<1>3. SysInv /\ ListsArePast /\ [SysNext]_allVars => ListsArePast'
  <2> SUFFICES ASSUME SysInv, ListsArePast, [SysNext]_allVars PROVE ListsArePast'
    OBVIOUS
  <2>1. CASE [Next]_cacheVars
    BY <2>1, PastStep DEF SysInv, Inv
  <2>2. CASE /\ UNCHANGED <<parcels, list, ttl, user, found>>
             /\ \A w \in Workers : pc'[w] = "set" <=> pc[w] = "set"
    BY <2>2 DEF ListsArePast, Past, Own, Ids, Cached
  <2> QED
    BY <1>2, <2>1, <2>2
<1>4. SysInv /\ [SysNext]_allVars => [\A id \in Ids : Listed(id) => Listed(id)']_cacheVars
  <2> SUFFICES ASSUME SysInv, [SysNext]_allVars, NEW id \in Ids, Listed(id) PROVE Listed(id)'
    OBVIOUS
  <2>1. CASE [Next]_cacheVars
    BY <2>1, ListedStep DEF SysInv, Inv
  <2>2. CASE /\ UNCHANGED <<parcels, list, ttl, user, found>>
             /\ \A w \in Workers : pc'[w] = "set" <=> pc[w] = "set"
    BY <2>2 DEF Listed, Cached
  <2> QED
    BY <1>2, <2>1, <2>2
<1> QED
  BY <1>1, <1>3, <1>4, SysInvariance, PTL DEF SysSpec, ListedForGood
=============================================================================
