-------------------------------- MODULE Startup --------------------------------
(***************************************************************************)
(* How a service of lab2 .. lab6 comes up and goes down.  main() builds a  *)
(* list of components and hands it to userver, which constructs them all   *)
(* at once; a constructor that calls FindComponent waits for the component *)
(* it names.  If one raises, all are destroyed and the process ends;       *)
(* docker starts it again.  Destruction runs against the order in which    *)
(* components found each other.  One process of one lab is followed.       *)
(***************************************************************************)
EXTENDS Naturals

CONSTANT MaxStops \* bound of the model: how often the process is stopped or killed

ASSUME StartupAssumption == MaxStops \in Nat

VARIABLES
  program, \* which of Programs this process runs
  process, \* what userver is doing
  ready,   \* the components that are constructed
  up,      \* the backends that can be reached
  stops    \* how often the process was stopped or killed

startupVars == <<program, process, ready, up, stops>>

-----------------------------------------------------------------------------
(* The fifteen programs.                                                   *)

UserHandlers == {"handler-create-user", "handler-get-user", "handler-search-users",
                 "handler-login"}
ParcelHandlers == {"handler-create-parcel", "handler-get-user-parcels"}

DeliveryHandlers == {"handler-create-delivery", "handler-get-deliveries"}
Handlers == UserHandlers \cup ParcelHandlers \cup DeliveryHandlers

\* The minimal list and the seven components each main() appends to it: they
\* need each other only, and stand for one here.
Common == {"userver"}
Jwt == {"jwt-auth-component"}
Postgres == {"postgres-delivery-db"}
Mongo == {"mongo-delivery-db"}

\* Mutant of Redis: the list lacks what the client takes its settings from.
RedisAlone == {"redis-delivery"}

Redis == {"redis-delivery", "secdist", "default-secdist-provider"}

Program(lab, service, components) ==
  [lab |-> lab, service |-> service, components |-> components]

Lab2User == Program(2, "user", Common \cup UserHandlers)
Lab2Parcel == Program(2, "parcel", Common \cup Jwt \cup ParcelHandlers)
Lab2Delivery == Program(2, "delivery", Common \cup Jwt \cup DeliveryHandlers)
Lab3User == Program(3, "user", Common \cup Postgres \cup UserHandlers)
Lab3Parcel == Program(3, "parcel", Common \cup Jwt \cup Postgres \cup ParcelHandlers)
Lab3Delivery == Program(3, "delivery", Common \cup Jwt \cup Postgres \cup DeliveryHandlers)
Lab4User == Program(4, "user", Common \cup Mongo \cup UserHandlers)
Lab4Parcel == Program(4, "parcel", Common \cup Jwt \cup Postgres \cup ParcelHandlers)
Lab4Delivery == Program(4, "delivery", Common \cup Jwt \cup Postgres \cup DeliveryHandlers)
Lab5User == Program(5, "user", Common \cup Mongo \cup Redis \cup UserHandlers)
Lab5Parcel == Program(5, "parcel", Common \cup Jwt \cup Postgres \cup Redis \cup ParcelHandlers)
Lab5Delivery ==
  Program(5, "delivery", Common \cup Jwt \cup Postgres \cup Redis \cup DeliveryHandlers)
Lab6User == Program(6, "user", Common \cup Mongo \cup Redis \cup UserHandlers)
Lab6Parcel == Program(6, "parcel", Common \cup Jwt \cup Postgres \cup Redis \cup ParcelHandlers)

\* The thread with the consumer, which main() starts first, is EventBus's.
Lab6Delivery ==
  Program(6, "delivery", Common \cup Jwt \cup Postgres \cup Redis \cup DeliveryHandlers)

Programs == {Lab2User, Lab2Parcel, Lab2Delivery, Lab3User, Lab3Parcel, Lab3Delivery,
             Lab4User, Lab4Parcel, Lab4Delivery, Lab5User, Lab5Parcel, Lab5Delivery,
             Lab6User, Lab6Parcel, Lab6Delivery}

-----------------------------------------------------------------------------
(* What a constructor waits for.                                           *)

\* Users are in MongoDB from lab4 on.
LooksUpMongo(p, c) == p.lab >= 4 /\ c \in UserHandlers

LooksUpPostgres(p, c) ==
  p.lab >= 3 /\ c \in Handlers /\ ~LooksUpMongo(p, c)

\* Mutant of LooksUpRedis: the delivery handlers fetch their client when asked.
LooksUpRedisLazily(p, c) == p.lab >= 5 /\ c \in ParcelHandlers \cup {"handler-login"}

LooksUpRedis(p, c) ==
  p.lab >= 5 /\ c \in ParcelHandlers \cup DeliveryHandlers \cup {"handler-login"}

\* "auth: types: jwt-auth" in the static config: the handler's base class has
\* the factory main() registered make a checker.
LooksUpJwt(p, c) == c \in ParcelHandlers \cup DeliveryHandlers

\* userver: what its own components look up.
LibraryNeeds(c) ==
  CASE c = "redis-delivery" -> {"userver", "secdist"}
    [] c = "secdist" -> {"default-secdist-provider"}
    [] c \in {"userver", "default-secdist-provider"} -> {}
    [] OTHER -> {"userver"}

Needs(p, c) ==
  LibraryNeeds(c)
    \cup {n \in Mongo : LooksUpMongo(p, c)}
    \cup {n \in Postgres : LooksUpPostgres(p, c)}
    \cup {n \in {"redis-delivery"} : LooksUpRedis(p, c)}
    \cup {n \in Jwt : LooksUpJwt(p, c)}

\* The backend without which the constructor of c may raise: Postgres and
\* MongoDB, if userver gives up on their first connections, and in lab2 the file
\* that each handler's Database opens.  The client of Redis connects later.
RaisesWithout(p, c) ==
  CASE c = "postgres-delivery-db" -> {"postgres"}
    [] c = "mongo-delivery-db" -> {"mongo"}
    [] p.lab = 2 /\ c \in Handlers -> {"file"}
    [] OTHER -> {}

\* What the process talks to.
Backends(p) ==
  UNION {RaisesWithout(p, c) : c \in p.components}
    \cup {b \in {"redis"} : "redis-delivery" \in p.components}

-----------------------------------------------------------------------------
(* Coming up and going down.                                               *)

\* docker: "restart: unless-stopped", and whoever stopped it starts it again.
Start ==
  /\ process = "down"
  /\ process' = "loading"
  /\ UNCHANGED <<program, ready, up, stops>>

\* FindComponent waits for a component that is still to be constructed.  One that
\* the list lacks makes it raise; here the constructor waits for ever, which comes
\* to the same: the service does not serve.
Constructible(c) ==
  /\ process = "loading"
  /\ c \in program.components \ ready
  /\ Needs(program, c) \subseteq ready

\* sqlite3_open has to succeed; a pool may be made without its backend.
Load(c) ==
  /\ Constructible(c)
  /\ RaisesWithout(program, c) \cap {"file"} \subseteq up
  /\ ready' = ready \cup {c}
  /\ UNCHANGED <<program, process, up, stops>>

\* A constructor raises: userver cancels the others and destroys what there is.
LoadRaises(c) ==
  /\ Constructible(c)
  /\ ~(RaisesWithout(program, c) \subseteq up)
  /\ process' = "stopping"
  /\ UNCHANGED <<program, ready, up, stops>>

\* The server listens once every component is constructed.
Serve ==
  /\ process = "loading"
  /\ ready = program.components
  /\ process' = "serving"
  /\ UNCHANGED <<program, ready, up, stops>>

\* SIGTERM: no request is accepted any more.
Stop ==
  /\ process = "serving"
  /\ stops < MaxStops
  /\ stops' = stops + 1
  /\ process' = "stopping"
  /\ UNCHANGED <<program, ready, up>>

\* A component is destroyed when none is left that found it.
Unload(c) ==
  /\ process = "stopping"
  /\ c \in ready
  /\ \A d \in ready : c \notin Needs(program, d)
  /\ ready' = ready \ {c}
  /\ UNCHANGED <<program, process, up, stops>>

Exit ==
  /\ process = "stopping"
  /\ ready = {}
  /\ process' = "down"
  /\ UNCHANGED <<program, ready, up, stops>>

Kill ==
  /\ process # "down"
  /\ stops < MaxStops
  /\ stops' = stops + 1
  /\ process' = "down"
  /\ ready' = {}
  /\ UNCHANGED <<program, up>>

BackendDown(b) ==
  /\ b \in up
  /\ up' = up \ {b}
  /\ UNCHANGED <<program, process, ready, stops>>

BackendUp(b) ==
  /\ b \in Backends(program) \ up
  /\ up' = up \cup {b}
  /\ UNCHANGED <<program, process, ready, stops>>

StartupInit ==
  /\ program \in Programs
  /\ process = "down"
  /\ ready = {}
  /\ up \in SUBSET Backends(program)
  /\ stops = 0

-----------------------------------------------------------------------------
(* What coming up and going down promise.                                  *)

\* No deadlock between constructors, and none between destructors: while the
\* process loads some component has found all it waits for, and while it stops
\* some component is found by none that is left, whichever of them went first
\* (the lists of the fifteen main.cpp against every FindComponent).
NobodyWaitsInACircle ==
  /\ process = "loading" /\ ready # program.components =>
       \E c \in program.components : Constructible(c)
  /\ process = "stopping" /\ ready # {} =>
       \E c \in ready : \A d \in ready : c \notin Needs(program, d)

\* As long as its stores stay up from some time on, a service ends up serving,
\* after any number of failed starts, kills, and whatever becomes of Redis: no
\* component waits for one that is not in its program's list, or for itself
\* (main.cpp and the FindComponent calls of each handler).
EventuallyServes ==
  <>[](Backends(program) \ {"redis"} \subseteq up) => <>[](process = "serving")
=============================================================================
