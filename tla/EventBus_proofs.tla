---------------------------- MODULE EventBus_proofs ----------------------------
(***************************************************************************)
(* What EventBus promises holds for every number of publishers and events, *)
(* and whichever of its parts fail.                                        *)
(***************************************************************************)
EXTENDS EventBus, SequenceTheorems, FiniteSetTheorems, TLAPS

\* A broker that is up has the channel, and what was bound on it is deleted, but
\* never unbound, before its consumer subscribes.
ConsumerIsServed ==
  /\ broker = "down" => channel = "closed"
  /\ channel = "open" /\ consumer = "consume" => queueState # "declared"
  /\ channel = "consuming" => queueState = "bound"

Inv ==
  /\ TypeOK
  /\ OnTheWire \subseteq published
  /\ ConsumerIsServed

fifo == <<socket \o queue, logged>>

-----------------------------------------------------------------------------
(* Sequences that lose a stretch.                                          *)

\* A sequence after the loss of what follows place i, up to place j.
Without(s, i, j) == SubSeq(s, 1, i) \o SubSeq(s, j + 1, Len(s))

\* Without its middle, a sequence is what is before and what is after it.
LEMMA DropMiddle ==
  ASSUME NEW a \in Seq(Events), NEW b \in Seq(Events), NEW c \in Seq(Events)
  PROVE  /\ Len((a \o b) \o c) = Len(a) + Len(b) + Len(c)
         /\ a \o c = Without((a \o b) \o c, Len(a), Len(a) + Len(b))
  <1> DEFINE s == (a \o b) \o c
             n == Len(a) + Len(b)
             left == SubSeq(s, 1, Len(a))
             right == SubSeq(s, n + 1, Len(s))
  <1>1. Len(a) \in Nat /\ Len(b) \in Nat /\ Len(c) \in Nat
    BY LenProperties
  <1>2. /\ a \o b \in Seq(Events) /\ Len(a \o b) = n
        /\ \A i \in 1 .. n : (a \o b)[i] = IF i <= Len(a) THEN a[i] ELSE b[i - Len(a)]
    BY ConcatProperties
  <1>3. /\ s \in Seq(Events) /\ Len(s) = n + Len(c)
        /\ \A i \in 1 .. n + Len(c) : s[i] = IF i <= n THEN (a \o b)[i] ELSE c[i - n]
    BY <1>2, ConcatProperties
  <1>4. \A i \in 1 .. Len(s) : s[i] \in Events
    BY <1>3, ElementOfSeq
  <1>5. left \in Seq(Events) /\ Len(left) = Len(a) /\ \A i \in 1 .. Len(a) : left[i] = a[i]
    <2>1. \A i \in 1 .. Len(a) : s[i] = a[i] /\ s[i] \in Events
      BY <1>1, <1>2, <1>3, <1>4
    <2>2. /\ left \in Seq(Events) /\ Len(left) = IF 1 <= Len(a) THEN Len(a) - 1 + 1 ELSE 0
          /\ \A i \in 1 .. Len(a) - 1 + 1 : left[i] = s[1 + i - 1]
      BY <1>1, <2>1, SubSeqProperties
    <2> HIDE DEF left, s
    <2> QED BY <1>1, <2>1, <2>2
  <1>6. right \in Seq(Events) /\ Len(right) = Len(c) /\ \A i \in 1 .. Len(c) : right[i] = c[i]
    <2>1. \A i \in n + 1 .. Len(s) : s[i] = c[i - n] /\ s[i] \in Events
      BY <1>1, <1>3, <1>4
    <2>2. /\ right \in Seq(Events)
          /\ Len(right) = IF n + 1 <= Len(s) THEN Len(s) - (n + 1) + 1 ELSE 0
          /\ \A i \in 1 .. Len(s) - (n + 1) + 1 : right[i] = s[n + 1 + i - 1]
      BY <1>1, <1>3, <2>1, SubSeqProperties
    <2> HIDE DEF right, s
    <2>3. \A i \in 1 .. Len(c) : i \in 1 .. Len(s) - (n + 1) + 1 /\ n + 1 + i - 1 = n + i
                                 /\ n + i \in n + 1 .. Len(s) /\ n + i - n = i
      BY <1>1, <1>3
    <2>4. ASSUME NEW i \in 1 .. Len(c) PROVE right[i] = c[i]
      <3>1. right[i] = s[n + i]
        BY <2>2, <2>3
      <3>2. s[n + i] = c[i]
        BY <2>1, <2>3
      <3> QED BY <3>1, <3>2
    <2>5. Len(right) = Len(c)
      BY <1>1, <1>3, <2>2
    <2> QED BY <2>2, <2>4, <2>5
  <1>7. left = a
    BY <1>5, SeqEqual
  <1>8. right = c
    BY <1>6, SeqEqual
  <1> QED BY <1>3, <1>7, <1>8 DEF Without

\* A step after which the middle of what is under way is missing is a loss.
LEMMA LoseMiddle ==
  ASSUME NEW a \in Seq(Events), NEW b \in Seq(Events), NEW c \in Seq(Events),
         socket \o queue = (a \o b) \o c, (socket \o queue)' = a \o c, logged' = logged
  PROVE  Fifo!Next
  <1> DEFINE i == Len(a)
             j == Len(a) + Len(b)
  <1>1. Len(a) \in Nat /\ Len(b) \in Nat /\ Len(c) \in Nat
    BY LenProperties
  <1>2. /\ Len(socket \o queue) = Len(a) + Len(b) + Len(c)
        /\ a \o c = Without(socket \o queue, i, j)
    <2>1. Len((a \o b) \o c) = Len(a) + Len(b) + Len(c)
      BY DropMiddle
    <2>2. a \o c = Without((a \o b) \o c, i, j)
      BY DropMiddle
    <2> QED BY <2>1, <2>2, Zenon
  <1>3. i \in 0 .. Len(socket \o queue) /\ j \in 0 .. Len(socket \o queue) /\ i <= j
    BY <1>1, <1>2
  <1>4. Fifo!Lose(i, j)
    BY <1>2, <1>3 DEF Fifo!Lose, Without
  <1> QED BY <1>3, <1>4 DEF Fifo!Next

\* Nothing before, nothing after.
LEMMA Surroundings ==
  ASSUME NEW s \in Seq(Events), NEW t \in Seq(Events)
  PROVE  /\ <<>> \in Seq(Events)
         /\ (s \o t) \o <<>> = s \o t /\ s \o <<>> = s
         /\ (<<>> \o s) \o t = s \o t /\ <<>> \o t = t
  BY ConcatEmptySeq, ConcatProperties, EmptySeq

\* The first event of a queue and the rest of it.
LEMMA FirstAndRest ==
  ASSUME NEW q \in Seq(Events), q # <<>>
  PROVE  /\ Head(q) \in Events /\ Tail(q) \in Seq(Events)
         /\ <<Head(q)>> \in Seq(Events) /\ q = <<Head(q)>> \o Tail(q)
  BY HeadTailProperties

-----------------------------------------------------------------------------
(* The invariant.                                                          *)

\* Everything starts in its type, with nothing published and nothing bound.
LEMMA InitInv == Init => Inv
  <1> SUFFICES ASSUME Init PROVE Inv
    OBVIOUS
  <1>1. TypeOK
    BY ExchangeAssumption, EmptySeq DEF Init, TypeOK, ConsumerSteps
  <1>2. OnTheWire = {}
    BY DEF Init, OnTheWire, Publishing
  <1> QED BY <1>1, <1>2 DEF Init, Inv, ConsumerIsServed

\* What an exchange does with an event leaves a queue of events.
LEMMA RouteInv ==
  ASSUME TypeOK, NEW e \in Events, Route(e)
  PROVE  queue' \in Seq(Events)
  BY AppendProperties DEF TypeOK, Route

\* A publish that begins is the first of its event, and the ones it overlaps
\* had begun.
LEMMA BeginPublishInv ==
  ASSUME Inv, NEW w \in Workers, NEW e \in Events, BeginPublish(w, e)
  PROVE  Inv'
  <1> USE DEF Inv
  <1>1. OnTheWire \cup {e} \subseteq published'
    BY DEF BeginPublish
  <1>2. OnTheWire' \subseteq OnTheWire \cup {e}
    BY DEF BeginPublish, TypeOK, OnTheWire, Publishing
  <1>3. OnTheWire \subseteq Events
    BY DEF TypeOK
  <1>4. wire' \in [Workers -> SUBSET Events]
    BY <1>3 DEF BeginPublish, TypeOK
  <1>5. body' \in [Workers -> Events \cup {NoEvent}]
    BY DEF BeginPublish, TypeOK
  <1>6. published' \subseteq Events /\ overlapped' \subseteq published'
    BY <1>1 DEF BeginPublish, TypeOK
  <1>7. TypeOK'
    BY <1>4, <1>5, <1>6 DEF BeginPublish, TypeOK, brokerVars, queueVars, consumerVars
  <1>8. ConsumerIsServed'
    BY DEF BeginPublish, ConsumerIsServed, brokerVars, queueVars, consumerVars
  <1> QED BY <1>1, <1>2, <1>7, <1>8

\* A publish that ends takes its body off the wire.
LEMMA EndPublishInv ==
  ASSUME Inv, NEW w \in Workers, EndPublish(w)
  PROVE  Inv'
  <1> USE DEF Inv
  <1>1. queue' \in Seq(Events) /\ producer' \in {"down", "open", "broken"}
    <2>1. CASE \E e \in wire[w] : Route(e) /\ UNCHANGED producer
      <3>1. PICK e \in wire[w] : Route(e)
        BY <2>1
      <3>2. e \in Events
        BY <3>1 DEF TypeOK
      <3> QED BY <2>1, <3>1, <3>2, RouteInv DEF TypeOK
    <2>2. CASE UNCHANGED queue
      BY <2>2 DEF EndPublish, TypeOK
    <2> QED BY <2>1, <2>2 DEF EndPublish
  <1>2. body' \in [Workers -> Events \cup {NoEvent}] /\ wire' \in [Workers -> SUBSET Events]
    BY DEF EndPublish, TypeOK
  <1>3. OnTheWire' \subseteq OnTheWire /\ published' = published
    BY DEF EndPublish, TypeOK, OnTheWire, Publishing
  <1>4. TypeOK'
    BY <1>1, <1>2 DEF EndPublish, TypeOK, consumerVars
  <1>5. ConsumerIsServed'
    BY DEF EndPublish, ConsumerIsServed, consumerVars
  <1> QED BY <1>3, <1>4, <1>5

\* With its process, what the producer had on the wire is gone.
LEMMA ProducerCrashInv ==
  ASSUME Inv, ProducerCrash
  PROVE  Inv'
  <1> USE DEF Inv, brokerVars, queueVars, consumerVars
  <1>1. TypeOK'
    BY DEF ProducerCrash, TypeOK
  <1>2. OnTheWire' = {}
    BY DEF ProducerCrash, OnTheWire, Publishing
  <1>3. ConsumerIsServed'
    BY DEF ProducerCrash, ConsumerIsServed
  <1> QED BY <1>1, <1>2, <1>3

\* The steps of the two services' connections and of the broker leave what is
\* being published alone, and a consumer that goes on is on a live queue.
LEMMA BusStepInv ==
  ASSUME Inv, BusStep
  PROVE  Inv'
  <1> USE DEF Inv, brokerVars, queueVars, producerVars, consumerVars
  <1>1. OnTheWire' \subseteq published'
    <2>1. UNCHANGED <<body, published>>
      BY DEF BusStep, StartProducer, StartConsumer, DeclareQueue, BindQueue, BasicConsume,
             LogEvent, ConsumerCrash, Deliver, DeliverToGhost, ReapGhost, BrokerStop,
             BrokerStart
    <2> QED BY <2>1 DEF OnTheWire, Publishing
  <1>2. CASE StartProducer
    BY <1>1, <1>2 DEF StartProducer, TypeOK, ConsumerIsServed
  <1>3. CASE StartConsumer
    BY <1>1, <1>3 DEF StartConsumer, TypeOK, ConsumerIsServed, ConsumerSteps
  <1>4. CASE DeclareQueue
    BY <1>1, <1>4 DEF DeclareQueue, TypeOK, ConsumerIsServed, ConsumerSteps
  <1>5. CASE BindQueue
    BY <1>1, <1>5 DEF BindQueue, TypeOK, ConsumerIsServed, ConsumerSteps
  <1>6. CASE BasicConsume
    BY <1>1, <1>6 DEF BasicConsume, TypeOK, ConsumerIsServed, ConsumerSteps
  <1>7. CASE LogEvent
    <2>1. Head(socket) \in Events /\ socket' \in Seq(Events)
      BY <1>7, HeadTailProperties DEF LogEvent, TypeOK
    <2>2. logged' \in Seq(Events)
      BY <1>7, <2>1, AppendProperties DEF LogEvent, TypeOK
    <2> QED BY <1>1, <1>7, <2>1, <2>2 DEF LogEvent, TypeOK, ConsumerIsServed
  <1>8. CASE ConsumerCrash
    BY <1>1, <1>8, EmptySeq DEF ConsumerCrash, TypeOK, ConsumerIsServed, ConsumerSteps
  <1>9. CASE Deliver
    <2>1. Head(queue) \in Events /\ queue' \in Seq(Events)
      BY <1>9, HeadTailProperties DEF Deliver, TypeOK
    <2>2. socket' \in Seq(Events)
      BY <1>9, <2>1, AppendProperties DEF Deliver, TypeOK
    <2> QED BY <1>1, <1>9, <2>1, <2>2 DEF Deliver, TypeOK, ConsumerIsServed
  <1>10. CASE DeliverToGhost
    <2>1. queue' \in Seq(Events)
      BY <1>10, HeadTailProperties DEF DeliverToGhost, TypeOK
    <2> QED BY <1>1, <1>10, <2>1 DEF DeliverToGhost, TypeOK, ConsumerIsServed
  <1>11. CASE ReapGhost
    BY <1>1, <1>11, EmptySeq DEF ReapGhost, TypeOK, ConsumerIsServed
  <1>12. CASE BrokerStop
    BY <1>1, <1>12, EmptySeq DEF BrokerStop, TypeOK, ConsumerIsServed, ConsumerSteps
  <1>13. CASE BrokerStart
    BY <1>1, <1>13 DEF BrokerStart, TypeOK, ConsumerIsServed
  <1> QED
    BY <1>2, <1>3, <1>4, <1>5, <1>6, <1>7, <1>8, <1>9, <1>10, <1>11, <1>12, <1>13
    DEF BusStep

\* Nothing that happens, or does not, breaks the invariant.
LEMMA StepInv == Inv /\ [Next]_busVars => Inv'
  <1> SUFFICES ASSUME Inv, [Next]_busVars PROVE Inv'
    OBVIOUS
  <1>1. ASSUME NEW w \in Workers, EndPublish(w) PROVE Inv'
    BY <1>1, EndPublishInv
  <1>2. ASSUME NEW w \in Workers, NEW e \in Events, BeginPublish(w, e) PROVE Inv'
    BY <1>2, BeginPublishInv
  <1>3. CASE ProducerCrash
    BY <1>3, ProducerCrashInv
  <1>4. CASE BusStep
    BY <1>4, BusStepInv
  <1>5. CASE UNCHANGED busVars
    BY <1>5 DEF busVars, brokerVars, queueVars, producerVars, consumerVars, Inv, TypeOK,
                ConsumerIsServed, OnTheWire, Publishing
  <1> QED BY <1>1, <1>2, <1>3, <1>4, <1>5 DEF Next

\* The invariant holds throughout.
LEMMA Invariance == Spec => []Inv
  BY InitInv, StepInv, PTL DEF Spec

\* Every variable of the bus keeps its type, whatever fails.
THEOREM TypeCorrect == Spec => []TypeOK
  BY Invariance, PTL DEF Inv

\* However the three calls of a consumer meet the deletion of its queue and the
\* stop of the broker (consumer.cpp 32-61), they end in a subscription to a bound
\* queue or in none.
THEOREM SubscribedHasQueue == Spec => []SubscribedIsBound
  <1>1. Inv => SubscribedIsBound
    BY DEF Inv, ConsumerIsServed, TypeOK, SubscribedIsBound
  <1> QED BY <1>1, Invariance, PTL

-----------------------------------------------------------------------------
(* The consumer's view is a LossyFifo.                                     *)

\* A publish that returns sends one event into the channel, or none.
LEMMA EndPublishRefines ==
  ASSUME Inv, NEW w \in Workers, EndPublish(w)
  PROVE  [Fifo!Next]_fifo
  <1> USE DEF fifo
  <1>1. socket \in Seq(Events) /\ queue \in Seq(Events)
    BY DEF Inv, TypeOK
  <1>2. UNCHANGED <<socket, logged>>
    BY DEF EndPublish, consumerVars
  <1>3. CASE UNCHANGED queue
    BY <1>2, <1>3
  <1>4. CASE \E e \in wire[w] : Route(e)
    <2>1. PICK e \in wire[w] : Route(e)
      BY <1>4
    <2>2. e \in Events
      BY <2>1 DEF Inv, TypeOK
    <2>3. CASE queue' = Append(queue, e)
      <3>1. socket \o Append(queue, e) = Append(socket \o queue, e)
        BY <1>1, <2>2
      <3>2. Fifo!Send(e)
        BY <1>2, <2>3, <3>1 DEF Fifo!Send
      <3> QED BY <2>2, <3>2 DEF Fifo!Next
    <2> QED BY <1>2, <2>1, <2>3 DEF Route
  <1> QED BY <1>3, <1>4 DEF EndPublish

\* The broker and the consumer pass the oldest event on, or lose a stretch.
LEMMA BusStepRefines ==
  ASSUME Inv, BusStep
  PROVE  [Fifo!Next]_fifo
  <1> USE DEF fifo, brokerVars, queueVars, producerVars, consumerVars
  <1>1. socket \in Seq(Events) /\ queue \in Seq(Events)
    BY DEF Inv, TypeOK
  <1>2. CASE StartProducer \/ StartConsumer \/ DeclareQueue \/ BindQueue \/ BasicConsume
             \/ BrokerStart
    BY <1>2 DEF StartProducer, StartConsumer, DeclareQueue, BindQueue, BasicConsume,
                BrokerStart
  <1>3. CASE LogEvent
    <2>1. /\ socket \o queue # <<>> /\ Head(socket \o queue) = Head(socket)
          /\ Tail(socket \o queue) = Tail(socket) \o queue
      BY <1>1, <1>3 DEF LogEvent
    <2>2. Fifo!Receive
      BY <1>3, <2>1 DEF LogEvent, Fifo!Receive
    <2> QED BY <2>2 DEF Fifo!Next
  <1>4. CASE ConsumerCrash
    BY <1>1, <1>4, LoseMiddle, Surroundings DEF ConsumerCrash
  <1>5. CASE Deliver
    <2>1. Append(socket, Head(queue)) \o Tail(queue) = socket \o queue
      BY <1>1, <1>5 DEF Deliver
    <2> QED BY <1>5, <2>1 DEF Deliver
  <1>6. CASE DeliverToGhost
    <2>1. /\ <<Head(queue)>> \in Seq(Events) /\ Tail(queue) \in Seq(Events)
          /\ queue = <<Head(queue)>> \o Tail(queue)
      BY <1>1, <1>6, FirstAndRest DEF DeliverToGhost
    <2>2. socket \o queue = (socket \o <<Head(queue)>>) \o Tail(queue)
      BY <1>1, <2>1
    <2> QED BY <1>1, <1>6, <2>1, <2>2, LoseMiddle DEF DeliverToGhost
  <1>7. CASE ReapGhost
    BY <1>1, <1>7, LoseMiddle, Surroundings DEF ReapGhost
  <1>8. CASE BrokerStop
    <2>1. CASE socket' = socket
      BY <1>1, <1>8, <2>1, LoseMiddle, Surroundings DEF BrokerStop
    <2>2. CASE socket' = <<>>
      <3>1. socket \o queue \in Seq(Events) /\ <<>> \in Seq(Events)
        BY <1>1, Surroundings, ConcatProperties
      <3>2. socket \o queue = (<<>> \o (socket \o queue)) \o <<>>
        BY <3>1, Surroundings
      <3>3. (socket \o queue)' = <<>> \o <<>> /\ logged' = logged
        BY <1>8, <2>2, <3>1, Surroundings DEF BrokerStop
      <3> QED BY <3>1, <3>2, <3>3, LoseMiddle
    <2> QED BY <1>8, <2>1, <2>2 DEF BrokerStop
  <1> QED BY <1>2, <1>3, <1>4, <1>5, <1>6, <1>7, <1>8 DEF BusStep

\* Every step of the bus is one of the channel, or leaves it alone.
LEMMA StepRefines == Inv /\ [Next]_busVars => [Fifo!Next]_fifo
  <1> SUFFICES ASSUME Inv, [Next]_busVars PROVE [Fifo!Next]_fifo
    OBVIOUS
  <1> USE DEF fifo
  <1>1. ASSUME NEW w \in Workers, EndPublish(w) PROVE [Fifo!Next]_fifo
    BY <1>1, EndPublishRefines
  <1>2. ASSUME NEW w \in Workers, NEW e \in Events, BeginPublish(w, e)
        PROVE  [Fifo!Next]_fifo
    BY <1>2 DEF BeginPublish, brokerVars, queueVars, consumerVars
  <1>3. CASE ProducerCrash
    BY <1>3 DEF ProducerCrash, brokerVars, queueVars, consumerVars
  <1>4. CASE BusStep
    BY <1>4, BusStepRefines
  <1>5. CASE UNCHANGED busVars
    BY <1>5 DEF busVars, brokerVars, queueVars, consumerVars
  <1> QED BY <1>1, <1>2, <1>3, <1>4, <1>5 DEF Next

\* Whatever the broker, the connections and the processes do, the consumer
\* prints what was routed in its order, with stretches missing: nothing is
\* reordered or repeated by the bus (producer.cpp 74-83, consumer.cpp 66-93).
THEOREM IsALossyFifo == Spec => ImplementsLossyFifo
  <1>1. Init => Fifo!Init
    BY DEF Init, Fifo!Init
  <1>2. Inv /\ [Next]_busVars => [Fifo!Next]_(Fifo!fifoVars)
    BY StepRefines DEF fifo, Fifo!fifoVars
  <1> QED BY <1>1, <1>2, Invariance, PTL DEF Spec, ImplementsLossyFifo, Fifo!Spec

-----------------------------------------------------------------------------
(* Nothing is printed twice without an overlap.                            *)

\* An event is in no place of a sequence, or in one at most.
Absent(e, s) == \A i \in DOMAIN s : s[i] # e
Once(e, s) == \A i, j \in DOMAIN s : s[i] = e /\ s[j] = e => i = j

\* Publishes that do not overlap carry their own event only, each event is
\* published by one request, and it is on its way to the broker or there.
SentOnce ==
  /\ \A v, w \in Publishing : body[v] = body[w] => v = w
  /\ \A w \in Publishing : wire[w] \subseteq {body[w]} \cup overlapped
  /\ \A i \in DOMAIN Alive : Alive[i] \in published
  /\ \A e \in Events \ overlapped :
       Once(e, Alive) /\ (e \in OnTheWire => Absent(e, Alive))

\* A sequence that loses a stretch holds no event more often than before.
LEMMA LossKeepsOnce ==
  ASSUME NEW a \in Seq(Events), NEW b \in Seq(Events), NEW c \in Seq(Events), NEW e
  PROVE  /\ Once(e, (a \o b) \o c) => Once(e, a \o c)
         /\ Absent(e, (a \o b) \o c) => Absent(e, a \o c)
         /\ \A i \in DOMAIN (a \o c) :
              \E j \in DOMAIN ((a \o b) \o c) : (a \o c)[i] = ((a \o b) \o c)[j]
  <1> DEFINE s == (a \o b) \o c
             t == a \o c
             at(i) == IF i <= Len(a) THEN i ELSE i + Len(b)
  <1>1. Len(a) \in Nat /\ Len(b) \in Nat /\ Len(c) \in Nat
    BY LenProperties
  <1>2. DOMAIN s = 1 .. Len(a) + Len(b) + Len(c) /\ DOMAIN t = 1 .. Len(a) + Len(c)
    BY <1>1
  <1>3. ASSUME NEW i \in DOMAIN t PROVE at(i) \in DOMAIN s /\ t[i] = s[at(i)]
    BY <1>1, <1>2
  <1>4. \A i, j \in DOMAIN t : at(i) = at(j) => i = j
    BY <1>1, <1>2
  <1> HIDE DEF s, t, at
  <1>5. Once(e, s) => Once(e, t)
    BY <1>3, <1>4 DEF Once
  <1>6. Absent(e, s) => Absent(e, t)
    BY <1>3 DEF Absent
  <1>7. \A i \in DOMAIN t : \E j \in DOMAIN s : t[i] = s[j]
    BY <1>3
  <1> QED BY <1>5, <1>6, <1>7 DEF s, t

\* One more event at the end of a sequence in which it is absent.
LEMMA SendKeepsOnce ==
  ASSUME NEW s \in Seq(Events), NEW f \in Events, NEW e
  PROVE  /\ Once(e, s) /\ (e = f => Absent(e, s)) => Once(e, Append(s, f))
         /\ Absent(e, s) /\ e # f => Absent(e, Append(s, f))
  BY DEF Once, Absent

\* At the start nothing is anywhere.
LEMMA InitOnce == Init => SentOnce
  <1> SUFFICES ASSUME Init PROVE SentOnce
    OBVIOUS
  <1>1. Publishing = {} /\ OnTheWire = {}
    BY DEF Init, Publishing, OnTheWire
  <1>2. DOMAIN Alive = {}
    BY DEF Init, Alive
  <1> QED BY <1>1, <1>2 DEF SentOnce, Once

\* An event is published once; publishes it meets are overlapped from then on.
LEMMA BeginPublishOnce ==
  ASSUME Inv, SentOnce, NEW w \in Workers, NEW e \in Events, BeginPublish(w, e)
  PROVE  SentOnce'
  <1>1. Alive' = Alive
    BY DEF BeginPublish, Alive, brokerVars, queueVars, consumerVars
  <1>2. /\ w \notin Publishing /\ e \notin published /\ e # NoEvent
        /\ OnTheWire \subseteq published /\ body \in [Workers -> Events \cup {NoEvent}]
        /\ body' = [body EXCEPT ![w] = e] /\ published' = published \cup {e}
    BY NoEventAssumption DEF BeginPublish, Inv, TypeOK
  <1>3. Publishing' = Publishing \cup {w} /\ OnTheWire' = OnTheWire \cup {e}
    BY <1>2 DEF Publishing, OnTheWire
  <1>4. \A v \in Publishing : body'[v] = body[v] /\ body[v] \in OnTheWire
    BY <1>2 DEF Publishing, OnTheWire
  <1>5. \A u, v \in Publishing' : body'[u] = body'[v] => u = v
    BY <1>2, <1>3, <1>4 DEF SentOnce, Publishing
  <1>6. /\ wire' = [v \in Workers |-> IF v = w THEN OnTheWire \cup {e}
                                      ELSE IF v \in Publishing THEN wire[v] \cup {e}
                                      ELSE {}]
        /\ overlapped' = IF Publishing = {} THEN overlapped
                         ELSE overlapped \cup {e} \cup OnTheWire
    BY DEF BeginPublish
  <1>7. \A v \in Publishing' : wire'[v] \subseteq {body'[v]} \cup overlapped'
    <2>1. CASE Publishing = {}
      <3>1. OnTheWire = {}
        BY <2>1 DEF OnTheWire
      <3> QED BY <1>2, <1>3, <1>6, <2>1, <3>1
    <2>2. CASE Publishing # {}
      BY <1>2, <1>3, <1>4, <1>6, <2>2 DEF SentOnce, Publishing
    <2> QED BY <2>1, <2>2
  <1>8. \A i \in DOMAIN Alive' : Alive'[i] \in published'
    BY <1>1, <1>2 DEF SentOnce
  <1>9. ASSUME NEW f \in Events \ overlapped'
        PROVE  Once(f, Alive') /\ (f \in OnTheWire' => Absent(f, Alive'))
    <2>1. f \notin overlapped /\ Once(f, Alive) /\ (f \in OnTheWire => Absent(f, Alive))
      BY <1>6, <1>9 DEF SentOnce
    <2>2. Absent(e, Alive)
      BY <1>2 DEF SentOnce, Absent
    <2> QED BY <1>1, <1>3, <2>1, <2>2
  <1> QED BY <1>5, <1>7, <1>8, <1>9 DEF SentOnce

\* A publish that returns leaves the wire, and its event, or one of those that
\* overlapped, is the newest at the broker.
LEMMA EndPublishOnce ==
  ASSUME Inv, SentOnce, NEW w \in Workers, EndPublish(w)
  PROVE  SentOnce'
  <1>1. /\ w \in Publishing /\ body \in [Workers -> Events \cup {NoEvent}]
        /\ wire \in [Workers -> SUBSET Events]
        /\ body' = [body EXCEPT ![w] = NoEvent] /\ wire' = [wire EXCEPT ![w] = {}]
        /\ UNCHANGED <<published, overlapped, logged, socket>>
    BY DEF EndPublish, Inv, TypeOK, consumerVars
  <1>2. Publishing' = Publishing \ {w} /\ w \in Workers
    BY <1>1 DEF Publishing
  <1>3. \A v \in Publishing' : v \in Publishing /\ body'[v] = body[v] /\ wire'[v] = wire[v]
    BY <1>1, <1>2 DEF Publishing
  <1>4. OnTheWire' \subseteq OnTheWire \ {body[w]}
    BY <1>1, <1>2, <1>3 DEF SentOnce, OnTheWire
  <1>5. \A u, v \in Publishing' : body'[u] = body'[v] => u = v
    BY <1>3 DEF SentOnce
  <1>6. \A v \in Publishing' : wire'[v] \subseteq {body'[v]} \cup overlapped'
    BY <1>1, <1>3 DEF SentOnce
  <1>7. Alive \in Seq(Events)
    BY ConcatProperties DEF Inv, TypeOK, Alive
  <1>8. \/ Alive' = Alive
        \/ \E f \in wire[w] : Alive' = Append(Alive, f)
    <2>1. logged \in Seq(Events) /\ socket \in Seq(Events) /\ queue \in Seq(Events)
      BY DEF Inv, TypeOK
    <2>2. CASE UNCHANGED queue
      BY <1>1, <2>2 DEF Alive
    <2>3. ASSUME NEW f \in wire[w], Route(f), queueState = "bound"
          PROVE  Alive' = Append(Alive, f)
      <3>1. f \in Events
        BY <1>1, <1>2
      <3>2. queue' = Append(queue, f)
        BY <2>3 DEF Route
      <3>3. logged \o socket \o Append(queue, f) = Append(logged \o socket \o queue, f)
        BY <2>1, <3>1
      <3> QED BY <1>1, <3>2, <3>3 DEF Alive
    <2>4. UNCHANGED queue \/ \E f \in wire[w] : Route(f)
      BY DEF EndPublish
    <2> QED BY <2>2, <2>3, <2>4 DEF Route
  <1>9. CASE Alive' = Alive
    <2>1. \A e \in Events \ overlapped' :
            Once(e, Alive') /\ (e \in OnTheWire' => Absent(e, Alive'))
      BY <1>1, <1>4, <1>9 DEF SentOnce
    <2>2. \A i \in DOMAIN Alive' : Alive'[i] \in published'
      BY <1>1, <1>9 DEF SentOnce
    <2> QED BY <1>5, <1>6, <2>1, <2>2 DEF SentOnce
  <1>10. ASSUME NEW f \in wire[w], Alive' = Append(Alive, f) PROVE SentOnce'
    <2>1. f \in Events /\ (f = body[w] \/ f \in overlapped)
      BY <1>1, <1>2 DEF SentOnce
    <2>2. body[w] \in OnTheWire /\ OnTheWire \subseteq published /\ overlapped \subseteq published
      BY <1>1 DEF OnTheWire, Inv, TypeOK
    <2>3. \A i \in DOMAIN Alive' : Alive'[i] \in published'
      <3>1. \A i \in DOMAIN Alive : Alive[i] \in published
        BY DEF SentOnce
      <3>2. f \in published
        BY <2>1, <2>2
      <3> QED BY <1>1, <1>7, <1>10, <2>1, <3>1, <3>2
    <2>4. ASSUME NEW e \in Events \ overlapped'
          PROVE  Once(e, Alive') /\ (e \in OnTheWire' => Absent(e, Alive'))
      <3>1. e \notin overlapped /\ Once(e, Alive) /\ (e \in OnTheWire => Absent(e, Alive))
        BY <1>1, <2>4 DEF SentOnce
      <3>2. e = f => Absent(e, Alive)
        BY <2>1, <2>2, <3>1
      <3>3. Once(e, Append(Alive, f))
        BY <1>7, <2>1, <3>1, <3>2, SendKeepsOnce
      <3>4. e \in OnTheWire' => e # f /\ Absent(e, Alive)
        BY <1>4, <2>1, <3>1
      <3>5. e \in OnTheWire' => Absent(e, Append(Alive, f))
        BY <1>7, <2>1, <3>4, SendKeepsOnce
      <3> QED BY <1>10, <3>3, <3>5
    <2> QED BY <1>5, <1>6, <2>3, <2>4 DEF SentOnce
  <1> QED BY <1>8, <1>9, <1>10

\* When the publishes stay, it is enough that what is alive loses a stretch.
LEMMA OnceAfterLoss ==
  ASSUME Inv, SentOnce, UNCHANGED <<body, wire, published, overlapped>>,
         NEW a \in Seq(Events), NEW b \in Seq(Events), NEW c \in Seq(Events),
         Alive = (a \o b) \o c, Alive' = a \o c
  PROVE  SentOnce'
  <1>1. UNCHANGED <<Publishing, OnTheWire>>
    BY DEF Publishing, OnTheWire
  <1>2. \A i \in DOMAIN Alive' : \E j \in DOMAIN Alive : Alive'[i] = Alive[j]
    BY LossKeepsOnce
  <1>3. /\ \A v, w \in Publishing' : body'[v] = body'[w] => v = w
        /\ \A w \in Publishing' : wire'[w] \subseteq {body'[w]} \cup overlapped'
    BY <1>1 DEF SentOnce
  <1>4. \A i \in DOMAIN Alive' : Alive'[i] \in published'
    BY <1>2 DEF SentOnce
  <1>5. ASSUME NEW e \in Events \ overlapped'
        PROVE  Once(e, Alive') /\ (e \in OnTheWire' => Absent(e, Alive'))
    <2>1. Once(e, Alive) /\ (e \in OnTheWire => Absent(e, Alive))
      BY DEF SentOnce
    <2>2. /\ Once(e, (a \o b) \o c) => Once(e, a \o c)
          /\ Absent(e, (a \o b) \o c) => Absent(e, a \o c)
      BY LossKeepsOnce
    <2> QED BY <1>1, <2>1, <2>2
  <1> QED BY <1>3, <1>4, <1>5 DEF SentOnce

\* A delivery moves the oldest event on.
LEMMA DeliverMoves ==
  ASSUME logged \in Seq(Events), socket \in Seq(Events), queue \in Seq(Events), Deliver
  PROVE  Alive' = Alive
  <1>1. socket \o queue = Append(socket, Head(queue)) \o Tail(queue)
    BY DEF Deliver
  <1>2. Append(socket, Head(queue)) \in Seq(Events) /\ Tail(queue) \in Seq(Events)
    BY HeadTailProperties, AppendProperties DEF Deliver
  <1>3. (logged \o socket) \o queue = logged \o (socket \o queue)
    BY ConcatAssociative
  <1>4. (logged \o Append(socket, Head(queue))) \o Tail(queue)
          = logged \o (Append(socket, Head(queue)) \o Tail(queue))
    <2> DEFINE s == Append(socket, Head(queue))
               t == Tail(queue)
    <2>1. s \in Seq(Events) /\ t \in Seq(Events)
      BY <1>2
    <2> HIDE DEF s, t
    <2>2. (logged \o s) \o t = logged \o (s \o t)
      BY <2>1, ConcatAssociative
    <2> QED BY <2>2 DEF s, t
  <1> QED BY <1>1, <1>3, <1>4 DEF Deliver, Alive

\* The broker and the consumer move what is alive on, or lose a stretch of it.
LEMMA BusStepOnce ==
  ASSUME Inv, SentOnce, BusStep
  PROVE  SentOnce'
  <1> USE DEF brokerVars, queueVars, producerVars, consumerVars
  <1>1. UNCHANGED <<body, wire, published, overlapped>>
    BY DEF BusStep, StartProducer, StartConsumer, DeclareQueue, BindQueue, BasicConsume,
           LogEvent, ConsumerCrash, Deliver, DeliverToGhost, ReapGhost, BrokerStop, BrokerStart
  <1>2. logged \in Seq(Events) /\ socket \in Seq(Events) /\ queue \in Seq(Events)
    BY DEF Inv, TypeOK
  <1>3. Alive \in Seq(Events) /\ logged \o socket \in Seq(Events)
    BY <1>2, ConcatProperties DEF Alive
  <1>4. ASSUME Alive' = Alive PROVE SentOnce'
    <2>1. Alive = (Alive \o <<>>) \o <<>> /\ Alive' = Alive \o <<>> /\ <<>> \in Seq(Events)
      BY <1>3, <1>4, Surroundings
    <2> QED BY <1>1, <1>3, <2>1, OnceAfterLoss
  <1>5. CASE \/ StartProducer
             \/ StartConsumer
             \/ DeclareQueue
             \/ BindQueue
             \/ BasicConsume
             \/ BrokerStart
    <2>1. Alive' = Alive
      BY <1>5 DEF StartProducer, StartConsumer, DeclareQueue, BindQueue, BasicConsume,
                  BrokerStart, Alive
    <2> QED BY <1>4, <2>1
  <1>6. CASE LogEvent
    <2>1. logged \o socket = Append(logged, Head(socket)) \o Tail(socket)
      BY <1>2, <1>6 DEF LogEvent
    <2>2. Alive' = Alive
      BY <1>6, <2>1 DEF LogEvent, Alive
    <2> QED BY <1>4, <2>2
  <1>7. CASE Deliver
    BY <1>2, <1>4, <1>7, DeliverMoves
  <1>8. CASE DeliverToGhost
    <2>1. <<Head(queue)>> \in Seq(Events) /\ Tail(queue) \in Seq(Events)
          /\ queue = <<Head(queue)>> \o Tail(queue)
      BY <1>2, <1>8, FirstAndRest DEF DeliverToGhost
    <2>2. (logged \o socket) \o queue = ((logged \o socket) \o <<Head(queue)>>) \o Tail(queue)
      BY <1>3, <2>1
    <2> QED BY <1>1, <1>3, <1>8, <2>1, <2>2, OnceAfterLoss DEF DeliverToGhost, Alive
  <1>9. ASSUME logged' = logged, socket' = <<>> \/ socket' = socket,
               queue' = <<>> \/ queue' = queue
        PROVE  SentOnce'
    <2>1. <<>> \in Seq(Events) /\ Alive = ((logged \o socket) \o queue) \o <<>>
          /\ Alive = ((logged \o socket) \o queue)
      BY <1>2, <1>3, Surroundings DEF Alive
    <2>2. CASE socket' = socket /\ queue' = queue
      BY <1>4, <1>9, <2>2 DEF Alive
    <2>3. CASE socket' = socket /\ queue' = <<>>
      <3>1. Alive' = (logged \o socket) \o <<>>
        BY <1>9, <2>3 DEF Alive
      <3> QED BY <1>1, <1>2, <1>3, <2>1, <3>1, OnceAfterLoss
    <2>4. CASE socket' = <<>> /\ queue' = queue
      <3>1. Alive' = logged \o queue
        BY <1>2, <1>9, <2>4, Surroundings DEF Alive
      <3> QED BY <1>1, <1>2, <2>1, <3>1, OnceAfterLoss
    <2>5. CASE socket' = <<>> /\ queue' = <<>>
      <3>1. socket \o queue \in Seq(Events)
        BY <1>2, ConcatProperties
      <3>2. Alive = (logged \o (socket \o queue)) \o <<>>
        BY <1>2, <2>1
      <3>3. Alive' = logged \o <<>>
        BY <1>2, <1>9, <2>5, Surroundings DEF Alive
      <3> QED BY <1>1, <1>2, <2>1, <3>1, <3>2, <3>3, OnceAfterLoss
    <2> QED BY <1>9, <2>2, <2>3, <2>4, <2>5
  <1>10. CASE ConsumerCrash \/ ReapGhost \/ BrokerStop
    BY <1>9, <1>10 DEF ConsumerCrash, ReapGhost, BrokerStop
  <1> QED BY <1>5, <1>6, <1>7, <1>8, <1>10 DEF BusStep

\* Every step keeps what does not overlap apart.
LEMMA StepOnce == Inv /\ SentOnce /\ [Next]_busVars => SentOnce'
  <1> SUFFICES ASSUME Inv, SentOnce, [Next]_busVars PROVE SentOnce'
    OBVIOUS
  <1>1. ASSUME NEW w \in Workers, EndPublish(w) PROVE SentOnce'
    BY <1>1, EndPublishOnce
  <1>2. ASSUME NEW w \in Workers, NEW e \in Events, BeginPublish(w, e) PROVE SentOnce'
    BY <1>2, BeginPublishOnce
  <1>3. CASE ProducerCrash
    <2>1. Publishing' = {} /\ OnTheWire' = {}
      BY <1>3 DEF ProducerCrash, Publishing, OnTheWire
    <2>2. Alive' = Alive /\ UNCHANGED <<published, overlapped>>
      BY <1>3 DEF ProducerCrash, Alive, brokerVars, queueVars, consumerVars
    <2> QED BY <2>1, <2>2 DEF SentOnce
  <1>4. CASE BusStep
    BY <1>4, BusStepOnce
  <1>5. CASE UNCHANGED busVars
    <2>1. UNCHANGED <<Publishing, OnTheWire, Alive, published, overlapped, body, wire>>
      BY <1>5 DEF busVars, brokerVars, queueVars, producerVars, consumerVars, Alive,
                  OnTheWire, Publishing
    <2> QED BY <2>1 DEF SentOnce
  <1> QED BY <1>1, <1>2, <1>3, <1>4, <1>5 DEF Next

\* What SentOnce says of what is printed.
LEMMA SentOnceMeans == Inv /\ SentOnce => TwiceOnlyIfOverlapped
  <1> SUFFICES ASSUME Inv, SentOnce, NEW e \in Events, e \notin overlapped
               PROVE  ~(Cardinality(Places(Alive, e)) > 1)
    BY DEF TwiceOnlyIfOverlapped
  <1>1. \A i, j \in Places(Alive, e) : i = j
    BY DEF SentOnce, Once, Places
  <1>2. CASE Places(Alive, e) = {}
    <2>1. Cardinality(Places(Alive, e)) = 0
      BY <1>2, FS_EmptySet
    <2> QED BY <2>1
  <1>3. CASE Places(Alive, e) # {}
    <2>1. PICK i : Places(Alive, e) = {i}
      BY <1>1, <1>3
    <2>2. Cardinality({i}) = 1
      BY FS_Singleton
    <2> QED BY <2>1, <2>2
  <1> QED BY <1>2, <1>3

\* An event is printed twice only if its publish overlapped another one on the
\* connection that the workers share (producer.cpp 74-83).
THEOREM NeverTwiceAlone == Spec => []TwiceOnlyIfOverlapped
  BY SentOnceMeans, InitOnce, StepOnce, Invariance, PTL DEF Spec

-----------------------------------------------------------------------------
(* What is lost while all is calm.                                         *)

\* A publish that never met another one carries its own event.
AloneOnTheWire == \A w \in Publishing : body[w] \in overlapped \/ wire[w] = {body[w]}

LEMMA InitAlone == Init => AloneOnTheWire
  BY DEF Init, AloneOnTheWire, Publishing

LEMMA StepAlone == Inv /\ AloneOnTheWire /\ [Next]_busVars => AloneOnTheWire'
  <1> SUFFICES ASSUME Inv, AloneOnTheWire, [Next]_busVars PROVE AloneOnTheWire'
    OBVIOUS
  <1>1. /\ body \in [Workers -> Events \cup {NoEvent}] /\ wire \in [Workers -> SUBSET Events]
        /\ NoEvent \notin Events
    BY NoEventAssumption DEF Inv, TypeOK
  <1>2. ASSUME NEW w \in Workers, NEW e \in Events, BeginPublish(w, e) PROVE AloneOnTheWire'
    <2>1. /\ body' = [body EXCEPT ![w] = e]
          /\ wire' = [v \in Workers |-> IF v = w THEN OnTheWire \cup {e}
                                        ELSE IF v \in Publishing THEN wire[v] \cup {e}
                                        ELSE {}]
          /\ overlapped' = IF Publishing = {} THEN overlapped
                           ELSE overlapped \cup {e} \cup OnTheWire
      BY <1>2 DEF BeginPublish
    <2>2. Publishing' = Publishing \cup {w}
      BY <1>1, <2>1 DEF Publishing
    <2>3. CASE Publishing = {}
      <3>1. OnTheWire = {}
        BY <2>3 DEF OnTheWire
      <3> QED BY <1>1, <2>1, <2>2, <2>3, <3>1 DEF AloneOnTheWire
    <2>4. CASE Publishing # {}
      <3>1. \A v \in Publishing : body[v] \in OnTheWire
        BY DEF OnTheWire
      <3>2. \A v \in Publishing' : body'[v] = e \/ body'[v] \in OnTheWire
        BY <1>1, <2>1, <2>2, <3>1 DEF Publishing
      <3> QED BY <2>1, <2>4, <3>2 DEF AloneOnTheWire
    <2> QED BY <2>3, <2>4
  <1>3. ASSUME NEW w \in Workers, EndPublish(w) PROVE AloneOnTheWire'
    <2>1. /\ body' = [body EXCEPT ![w] = NoEvent] /\ wire' = [wire EXCEPT ![w] = {}]
          /\ UNCHANGED overlapped
      BY <1>3 DEF EndPublish
    <2>2. \A v \in Publishing' : v \in Publishing /\ body'[v] = body[v] /\ wire'[v] = wire[v]
      BY <1>1, <2>1 DEF Publishing
    <2> QED BY <2>1, <2>2 DEF AloneOnTheWire
  <1>4. CASE ProducerCrash
    BY <1>4 DEF ProducerCrash, AloneOnTheWire, Publishing
  <1>5. CASE BusStep \/ UNCHANGED busVars
    <2>1. UNCHANGED <<body, wire, overlapped>>
      BY <1>5 DEF BusStep, StartProducer, StartConsumer, DeclareQueue, BindQueue, BasicConsume,
             LogEvent, ConsumerCrash, Deliver, DeliverToGhost, ReapGhost, BrokerStop,
             BrokerStart, busVars, brokerVars, queueVars, producerVars, consumerVars
    <2> QED BY <2>1 DEF AloneOnTheWire, Publishing
  <1> QED BY <1>2, <1>3, <1>4, <1>5 DEF Next

\* The channel, an event at its end included, holds what it held.
LEMMA AppendKeeps ==
  ASSUME NEW s \in Seq(Events), NEW f \in Events
  PROVE  /\ Places(Append(s, f), f) # {}
         /\ \A e : Places(s, e) # {} => Places(Append(s, f), e) # {}
  BY DEF Places

\* While all is calm, a step of the broker or the consumer moves what is alive.
LEMMA BusStepMoves ==
  ASSUME Inv, BusStep, Calm'
  PROVE  Alive' = Alive /\ OnTheWire' = OnTheWire
  <1> USE DEF brokerVars, queueVars, producerVars, consumerVars
  <1>1. OnTheWire' = OnTheWire
    <2>1. UNCHANGED body
      BY DEF BusStep, StartProducer, StartConsumer, DeclareQueue, BindQueue, BasicConsume,
             LogEvent, ConsumerCrash, Deliver, DeliverToGhost, ReapGhost, BrokerStop, BrokerStart
    <2> QED BY <2>1 DEF OnTheWire, Publishing
  <1>2. logged \in Seq(Events) /\ socket \in Seq(Events) /\ queue \in Seq(Events)
    BY DEF Inv, TypeOK
  <1>3. CASE LogEvent
    <2>1. logged \o socket = Append(logged, Head(socket)) \o Tail(socket)
      BY <1>2, <1>3 DEF LogEvent
    <2> QED BY <1>1, <1>3, <2>1 DEF LogEvent, Alive
  <1>4. CASE Deliver
    <2>1. Alive' = Alive
      BY <1>2, <1>4, DeliverMoves
    <2> QED BY <1>1, <2>1
  <1>5. CASE ReapGhost
    BY <1>1, <1>5 DEF ReapGhost, Calm, Alive
  <1>6. ~ConsumerCrash /\ ~DeliverToGhost /\ ~BrokerStop
    BY DEF ConsumerCrash, DeliverToGhost, BrokerStop, Calm, Inv, TypeOK
  <1>7. CASE \/ StartProducer
             \/ StartConsumer
             \/ DeclareQueue
             \/ BindQueue
             \/ BasicConsume
             \/ BrokerStart
    BY <1>1, <1>7 DEF StartProducer, StartConsumer, DeclareQueue, BindQueue, BasicConsume,
                      BrokerStart, Alive
  <1> QED BY <1>3, <1>4, <1>5, <1>6, <1>7 DEF BusStep

\* A publish that returns into a calm bus puts its own event there, unless it
\* met another one.
LEMMA EndPublishKeeps ==
  ASSUME Inv, AloneOnTheWire, NEW w \in Workers, EndPublish(w), Calm',
         NEW e \in Events, Kept(e), e \notin overlapped
  PROVE  Kept(e)'
  <1>1. /\ w \in Publishing /\ body \in [Workers -> Events \cup {NoEvent}]
        /\ body' = [body EXCEPT ![w] = NoEvent]
        /\ UNCHANGED <<logged, socket, queueState, channel>>
        /\ producer' = "open"
    BY DEF EndPublish, Inv, TypeOK, consumerVars, Calm
  <1>2. logged \in Seq(Events) /\ socket \in Seq(Events) /\ queue \in Seq(Events)
    BY DEF Inv, TypeOK
  <1>3. Alive \in Seq(Events)
    BY <1>2, ConcatProperties DEF Alive
  <1>4. PICK f \in wire[w] : Route(f) \/ (UNCHANGED queue /\ FALSE)
    BY <1>1 DEF EndPublish
  <1>5. queueState = "bound" /\ f \in Events
    BY <1>1, <1>4 DEF Inv, ConsumerIsServed, Calm, TypeOK
  <1>6. Alive' = Append(Alive, f)
    <2>1. queue' = Append(queue, f)
      BY <1>4, <1>5 DEF Route
    <2>2. logged \o socket \o Append(queue, f) = Append(logged \o socket \o queue, f)
      BY <1>2, <1>5
    <2> QED BY <1>1, <2>1, <2>2 DEF Alive
  <1>7. CASE Places(Alive, e) # {}
    BY <1>3, <1>5, <1>6, <1>7, AppendKeeps DEF Kept
  <1>8. ASSUME NEW v \in Publishing, body[v] = e, v # w PROVE Kept(e)'
    <2>1. v \in Publishing' /\ body'[v] = e
      BY <1>1, <1>8 DEF Publishing
    <2> QED BY <2>1 DEF Kept, OnTheWire
  <1>9. CASE body[w] = e
    <2>1. f = e
      BY <1>1, <1>4, <1>9 DEF AloneOnTheWire
    <2> QED BY <1>3, <1>5, <1>6, <2>1, AppendKeeps DEF Kept
  <1> QED BY <1>7, <1>8, <1>9 DEF Kept, OnTheWire

\* A step after which all is calm has lost nothing but what overlapped.
LEMMA StepKeeps ==
  ASSUME Inv, AloneOnTheWire, [Next]_busVars, Calm', NEW e \in Events, Kept(e)
  PROVE  Kept(e)' \/ e \in overlapped'
  <1>1. ASSUME NEW w \in Workers, NEW f \in Events, BeginPublish(w, f) PROVE Kept(e)'
    <2>1. Alive' = Alive /\ w \notin Publishing /\ body' = [body EXCEPT ![w] = f]
      BY <1>1 DEF BeginPublish, Alive, brokerVars, queueVars, consumerVars
    <2>2. \A v \in Publishing : v \in Publishing' /\ body'[v] = body[v]
      BY <2>1 DEF Publishing, Inv, TypeOK
    <2>3. OnTheWire \subseteq OnTheWire'
      BY <2>2 DEF OnTheWire
    <2> QED BY <2>1, <2>3 DEF Kept
  <1>2. ASSUME NEW w \in Workers, EndPublish(w) PROVE Kept(e)' \/ e \in overlapped'
    BY <1>2, EndPublishKeeps DEF EndPublish
  <1>3. ~ProducerCrash
    BY DEF ProducerCrash, Calm
  <1>4. CASE BusStep
    BY <1>4, BusStepMoves DEF Kept
  <1>5. CASE UNCHANGED busVars
    BY <1>5 DEF busVars, brokerVars, queueVars, producerVars, consumerVars, Kept, Alive,
                OnTheWire, Publishing
  <1> QED BY <1>1, <1>2, <1>3, <1>4, <1>5 DEF Next

\* What event_catalog.md:31 promises of every event holds of those that meet no
\* other on the connection, from the call of the producer to the printed line,
\* while nothing fails (producer.cpp 74-83, consumer.cpp 55-88).
THEOREM NothingLostInCalm == Spec => KeptWhileCalm
  <1>1. Spec => [](Inv /\ AloneOnTheWire)
    BY InitAlone, StepAlone, Invariance, PTL DEF Spec
  <1>2. Inv /\ AloneOnTheWire /\ [Next]_busVars
          => [Calm' => \A e \in Events : Kept(e) => Kept(e)' \/ e \in overlapped']_busVars
    BY StepKeeps
  <1> QED BY <1>1, <1>2, PTL DEF Spec, KeptWhileCalm
=============================================================================
