------------------------------- MODULE EventBus -------------------------------
(***************************************************************************)
(* The ParcelCreated events of lab6_event_driven: the producer that the    *)
(* POST handler of parcel-service owns (parcel/producer.cpp), the consumer *)
(* thread of delivery-service (delivery/consumer.cpp, delivery/main.cpp),  *)
(* and between them the RabbitMQ broker, an external program of which only *)
(* what these two files ask of it is here.  Neither file looks at a return *)
(* value: what fails is noticed by nobody, the consumer goes on to its     *)
(* loop, and only the broker knows whether it sends there (channel).       *)
(***************************************************************************)
EXTENDS Naturals, Sequences, FiniteSets

CONSTANTS
  Workers,       \* requests of parcel-service that can publish at once
  Events,        \* ParcelCreated events, by parcel_id
  NoEvent,       \* no event
  Faults,        \* which of "producer", "consumer", "broker" may fail
  ExchangeExists \* whether a broker of an earlier deployment left the exchange

ASSUME BusFaultsAssumption == Faults \subseteq {"producer", "consumer", "broker"}
ASSUME NoEventAssumption == NoEvent \notin Events
ASSUME ExchangeAssumption == ExchangeExists \in BOOLEAN

VARIABLES
  broker,     \* "up" or "down"
  exchange,   \* whether delivery.events is declared; durable
  queueState, \* parcel.queue: "absent", "declared" or "bound"; not durable
  queue,      \* the events in it
  ghost,      \* whether the broker still counts a consumer that died
  producer,   \* connection_ of producer.cpp: "down" (no process), "open", "broken"
  body,       \* the event each worker is publishing, or NoEvent
  wire,       \* the bodies that a worker's frames may carry
  published,  \* history: events whose publish has begun
  overlapped, \* history: events published while another publish was under way
  consumer,   \* where the thread in StartConsuming stands
  channel,    \* the broker's side of its channel: "closed", "open", "consuming"
  socket,     \* events the broker has sent to the consumer and forgotten
  logged      \* events the consumer has printed

queueVars == <<queueState, queue, ghost>>
brokerVars == <<broker, exchange, queueState, queue, ghost>>
producerVars == <<producer, body, wire, published, overlapped>>
consumerVars == <<consumer, channel, socket, logged>>
busVars == <<brokerVars, producerVars, consumerVars>>

ConsumerSteps == {"down", "declare", "bind", "consume", "loop"}

TypeOK ==
  /\ broker \in {"up", "down"}
  /\ exchange \in BOOLEAN
  /\ queueState \in {"absent", "declared", "bound"}
  /\ queue \in Seq(Events)
  /\ ghost \in BOOLEAN
  /\ producer \in {"down", "open", "broken"}
  /\ body \in [Workers -> Events \cup {NoEvent}]
  /\ wire \in [Workers -> SUBSET Events]
  /\ published \subseteq Events
  /\ overlapped \subseteq published
  /\ consumer \in ConsumerSteps
  /\ channel \in {"closed", "open", "consuming"}
  /\ socket \in Seq(Events)
  /\ logged \in Seq(Events)

Publishing == {w \in Workers : body[w] # NoEvent}
OnTheWire == {body[w] : w \in Publishing}

-----------------------------------------------------------------------------
(* parcel-service.                                                         *)

\* The constructor: connect, log in, open channel 1, declare the exchange.
StartProducer ==
  /\ producer = "down"
  /\ IF broker = "up"
       THEN producer' = "open" /\ exchange' = TRUE
       ELSE producer' = "broken" /\ UNCHANGED exchange
  /\ UNCHANGED <<broker, queueVars, body, wire, published, overlapped, consumerVars>>

\* PublishParcelCreated hands the body to the one connection_, whose buffer
\* and socket every worker thread uses without a lock.
BeginPublish(w, e) ==
  /\ producer # "down"
  /\ w \notin Publishing
  /\ e \notin published
  /\ published' = published \cup {e}
  /\ body' = [body EXCEPT ![w] = e]
  /\ wire' = [v \in Workers |->
                IF v = w THEN OnTheWire \cup {e}
                ELSE IF v \in Publishing THEN wire[v] \cup {e}
                ELSE {}]
  /\ overlapped' = IF Publishing = {} THEN overlapped
                   ELSE overlapped \cup {e} \cup OnTheWire
  /\ UNCHANGED <<producer, brokerVars, consumerVars>>

\* Mutant of Route: the newest event goes first.
RouteToFront(e) ==
  queue' = IF queueState = "bound" THEN <<e>> \o queue ELSE queue

\* The topic exchange: without a bound queue the event is dropped (mandatory
\* is 0, so nobody is told).
Route(e) ==
  queue' = IF queueState = "bound" THEN Append(queue, e) ELSE queue

\* Mutant of EndPublish: the body is released before its frames are written.
EndPublishReleased(w) ==
  /\ w \in Publishing
  /\ body' = [body EXCEPT ![w] = NoEvent]
  /\ wire' = [wire EXCEPT ![w] = {}]
  /\ Route(body'[w])
  /\ UNCHANGED <<broker, exchange, queueState, ghost, producer, published, overlapped,
                 consumerVars>>

\* The publish returns.  Alone on the connection it sends its own event; the
\* frames of publishes that overlap may carry each other's bodies, or make the
\* broker close the connection.
EndPublish(w) ==
  /\ w \in Publishing
  /\ body' = [body EXCEPT ![w] = NoEvent]
  /\ wire' = [wire EXCEPT ![w] = {}]
  /\ \/ /\ producer = "open"
        /\ \E e \in wire[w] : Route(e)
        /\ UNCHANGED producer
     \/ /\ producer = "open" /\ Cardinality(wire[w]) > 1
        /\ producer' = "broken"
        /\ UNCHANGED queue
     \/ /\ producer = "broken"
        /\ UNCHANGED <<producer, queue>>
  /\ UNCHANGED <<broker, exchange, queueState, ghost, published, overlapped, consumerVars>>

ProducerCrash ==
  /\ "producer" \in Faults
  /\ producer # "down"
  /\ producer' = "down"
  /\ body' = [w \in Workers |-> NoEvent]
  /\ wire' = [w \in Workers |-> {}]
  /\ UNCHANGED <<brokerVars, published, overlapped, consumerVars>>

-----------------------------------------------------------------------------
(* delivery-service: StartConsuming, in a thread detached before           *)
(* DaemonMain.  No call is checked: the thread goes through all of them to *)
(* its loop, also after the broker has closed the channel.                 *)

\* Connect, log in, open channel 1.
StartConsumer ==
  /\ consumer = "down"
  /\ consumer' = "declare"
  /\ channel' = IF broker = "up" THEN "open" ELSE "closed"
  /\ UNCHANGED <<brokerVars, producerVars, socket, logged>>

DeclareQueue ==
  /\ consumer = "declare"
  /\ consumer' = "bind"
  /\ queueState' = IF channel = "open" /\ queueState = "absent" THEN "declared"
                   ELSE queueState
  /\ UNCHANGED <<broker, exchange, queue, ghost, producerVars, channel, socket, logged>>

\* Without the exchange, or the queue, the broker closes the channel: 404.
BindQueue ==
  /\ consumer = "bind"
  /\ consumer' = "consume"
  /\ \/ /\ channel = "open" /\ exchange /\ queueState # "absent"
        /\ queueState' = "bound"
        /\ UNCHANGED channel
     \/ /\ ~(channel = "open" /\ exchange /\ queueState # "absent")
        /\ channel' = "closed"
        /\ UNCHANGED queueState
  /\ UNCHANGED <<broker, exchange, queue, ghost, producerVars, socket, logged>>

\* Mutant of BasicConsume: a queue that is gone is declared again, not bound.
BasicConsumeRedeclares ==
  /\ consumer = "consume"
  /\ consumer' = "loop"
  /\ channel' = IF channel = "open" THEN "consuming" ELSE "closed"
  /\ queueState' = IF channel = "open" /\ queueState = "absent" THEN "declared"
                   ELSE queueState
  /\ UNCHANGED <<broker, exchange, queue, ghost, producerVars, socket, logged>>

\* A queue that was deleted in between is 404, too; the loop is entered anyway.
BasicConsume ==
  /\ consumer = "consume"
  /\ consumer' = "loop"
  /\ channel' = IF channel = "open" /\ queueState # "absent" THEN "consuming" ELSE "closed"
  /\ UNCHANGED <<brokerVars, producerVars, socket, logged>>

\* amqp_consume_message returns an event and it is printed.  What had arrived
\* when the connection died can still be read; with a channel that is closed
\* the call fails, and is tried again, for ever.
LogEvent ==
  /\ consumer = "loop"
  /\ socket # <<>>
  /\ logged' = Append(logged, Head(socket))
  /\ socket' = Tail(socket)
  /\ UNCHANGED <<brokerVars, producerVars, consumer, channel>>

ConsumerCrash ==
  /\ "consumer" \in Faults
  /\ consumer # "down"
  /\ consumer' = "down"
  /\ channel' = "closed"
  /\ socket' = <<>>
  /\ ghost' = (ghost \/ channel = "consuming")
  /\ UNCHANGED <<broker, exchange, queueState, queue, producerVars, logged>>

-----------------------------------------------------------------------------
(* RabbitMQ.                                                               *)

\* Mutant of Deliver: with acknowledgements that are never given.
DeliverUnacked ==
  /\ channel = "consuming"
  /\ queue # <<>>
  /\ socket' = Append(socket, Head(queue))
  /\ UNCHANGED <<brokerVars, producerVars, consumer, channel, logged>>

\* Mutant of Deliver: one event at a time, each to be acknowledged before the
\* next; nothing acknowledges.
DeliverPrefetchOne ==
  /\ channel = "consuming"
  /\ queue # <<>>
  /\ socket \o logged = <<>>
  /\ socket' = Append(socket, Head(queue))
  /\ queue' = Tail(queue)
  /\ UNCHANGED <<broker, exchange, queueState, ghost, producerVars, consumer, channel, logged>>

\* no_ack = 1: an event is gone from the queue as soon as it is sent.
Deliver ==
  /\ channel = "consuming"
  /\ queue # <<>>
  /\ socket' = Append(socket, Head(queue))
  /\ queue' = Tail(queue)
  /\ UNCHANGED <<broker, exchange, queueState, ghost, producerVars, consumer, channel, logged>>

\* Until the broker notices that a consumer died, it sends to that one too.
DeliverToGhost ==
  /\ ghost
  /\ queue # <<>>
  /\ queue' = Tail(queue)
  /\ UNCHANGED <<broker, exchange, queueState, ghost, producerVars, consumerVars>>

\* The broker closes the dead connection.  auto_delete = 1: a queue that has
\* lost its last consumer is deleted with what is in it.
ReapGhost ==
  /\ ghost
  /\ ghost' = FALSE
  /\ IF channel = "consuming"
       THEN UNCHANGED <<queueState, queue>>
       ELSE queueState' = "absent" /\ queue' = <<>>
  /\ UNCHANGED <<broker, exchange, producerVars, consumerVars>>

\* Connections die; the queue is not durable; what the consumer has not read
\* may be lost with its connection.
BrokerStop ==
  /\ "broker" \in Faults
  /\ broker = "up"
  /\ broker' = "down"
  /\ queueState' = "absent"
  /\ queue' = <<>>
  /\ ghost' = FALSE
  /\ producer' = IF producer = "open" THEN "broken" ELSE producer
  /\ channel' = "closed"
  /\ socket' = socket \/ socket' = <<>>
  /\ UNCHANGED <<exchange, body, wire, published, overlapped, consumer, logged>>

BrokerStart ==
  /\ broker = "down"
  /\ broker' = "up"
  /\ UNCHANGED <<exchange, queueVars, producerVars, consumerVars>>

-----------------------------------------------------------------------------
Init ==
  /\ broker = "up"
  /\ exchange = ExchangeExists
  /\ queueState = "absent"
  /\ queue = <<>>
  /\ ghost = FALSE
  /\ producer = "down"
  /\ body = [w \in Workers |-> NoEvent]
  /\ wire = [w \in Workers |-> {}]
  /\ published = {}
  /\ overlapped = {}
  /\ consumer = "down"
  /\ channel = "closed"
  /\ socket = <<>>
  /\ logged = <<>>

\* What happens without a request of parcel-service.
BusStep ==
  \/ StartProducer
  \/ StartConsumer
  \/ DeclareQueue
  \/ BindQueue
  \/ BasicConsume
  \/ LogEvent
  \/ ConsumerCrash
  \/ Deliver
  \/ DeliverToGhost
  \/ ReapGhost
  \/ BrokerStop
  \/ BrokerStart

Next ==
  \/ \E w \in Workers : EndPublish(w) \/ \E e \in Events : BeginPublish(w, e)
  \/ ProducerCrash
  \/ BusStep

Spec == Init /\ [][Next]_busVars

\* The consumer's thread runs, and so does the broker while it is up.
ConsumerFairness ==
  /\ WF_busVars(DeclareQueue)
  /\ WF_busVars(BindQueue)
  /\ WF_busVars(BasicConsume)
  /\ WF_busVars(LogEvent)
  /\ WF_busVars(Deliver)

\* In addition, both services are started (restart: unless-stopped, which the
\* rabbitmq container does not have) and calls return.
StartFairness ==
  /\ WF_busVars(StartProducer)
  /\ WF_busVars(StartConsumer)
  /\ \A w \in Workers : WF_busVars(EndPublish(w))

FairSpec == Spec /\ ConsumerFairness /\ StartFairness

-----------------------------------------------------------------------------
(* What the bus promises.                                                  *)

Places(s, e) == {i \in DOMAIN s : s[i] = e}

\* The events that have reached the broker and are not lost, oldest first.
Alive == logged \o socket \o queue

\* Whom the broker sends to, its queue receives events: between the three calls
\* of a new consumer the queue of the old one may be deleted, and the broker
\* stop, but that leaves it without a subscription, never with one to a queue
\* that nothing is routed to (consumer.cpp 32-61).  Of the thread's loop it says
\* nothing: that is entered, and spins, without a subscription as well (63-90).
SubscribedIsBound == channel = "consuming" => broker = "up" /\ queueState = "bound"

\* An event is printed twice only if its publish overlapped another one on the
\* shared connection_ (producer.cpp 74-83).
TwiceOnlyIfOverlapped ==
  \A e \in Events : Cardinality(Places(Alive, e)) > 1 => e \in overlapped

\* A consumer that the broker sends to, and nobody else, and an open connection.
Calm == producer = "open" /\ channel = "consuming" /\ ~ghost

\* An event that a request hands over, or that has come further.
Kept(e) == e \in OnTheWire \/ Places(Alive, e) # {}

\* The catalog's "at least once" where it does hold: no step after which all is
\* calm has lost an event, be it with the body that the frames are made of, in
\* the exchange, or on its way to the consumer, unless its publish overlapped
\* another (producer.cpp 74-83, consumer.cpp 55-88).
KeptWhileCalm ==
  [][Calm' => \A e \in Events : Kept(e) => Kept(e)' \/ e \in overlapped']_busVars

\* The consumer sees a channel that loses but never reorders or repeats what
\* was routed, through crashes and restarts on both sides.
Fifo == INSTANCE LossyFifo WITH chan <- socket \o queue, got <- logged
ImplementsLossyFifo == Fifo!Spec

\* An event in the queue while no consumer is dead unnoticed is printed, whatever
\* parcel-service does, unless there comes a time when the broker sends to nobody.
QueuedIsLogged ==
  \A e \in Events :
    ~ghost /\ Places(queue, e) # {}
      ~> Places(logged, e) # {} \/ channel = "closed"

-----------------------------------------------------------------------------
(* What the documents of the repository say, and the code does not do.     *)

\* event_driven_design.md:132: "обработка продолжается после восстановления
\* сервиса": a delivery-service that is up is sent events again.
ProcessingResumes == []<>(channel = "consuming")
=============================================================================
