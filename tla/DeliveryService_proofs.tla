------------------------- MODULE DeliveryService_proofs -------------------------
(***************************************************************************)
(* What DeliveryService promises for every set of users, requests and      *)
(* deliveries, and however often its processes are stopped: the clients    *)
(* its requests call are there, and no component waits for itself.  That   *)
(* it ends up serving, and that a stop ends, is liveness, and TLC's.       *)
(***************************************************************************)
EXTENDS DeliveryService, TLAPS

\* A component stays as long as one that found it, and a server listens only
\* with all of them.
ComponentsAreThere ==
  /\ \A c \in ready : Needs(program, c) \subseteq ready
  /\ process = "serving" => ready = program.components
  /\ process = "down" => ready = {}

\* While a request is served, the handlers of its program stay, and what it
\* waits for is something its handler calls.
HandlersAreThere ==
  \A w \in Workers : request[w].at # "idle" =>
    /\ AsksDeliveries
    /\ DeliveryHandlers \subseteq ready
    /\ request[w].at \in {"get", "set"} => HasCache

Inv == TypeOK /\ ComponentsAreThere /\ HandlersAreThere

-----------------------------------------------------------------------------
(* The programs.                                                           *)

\* The program of a service has that service's handlers.
LEMMA ProgramsHaveHandlers ==
  ASSUME NEW p \in Programs
  PROVE  /\ p.lab \in Nat
         /\ p.service = "user" => UserHandlers \subseteq p.components
         /\ p.service = "parcel" => ParcelHandlers \subseteq p.components
         /\ p.service = "delivery" => DeliveryHandlers \subseteq p.components
BY DEF Programs, Program, Lab2User, Lab2Parcel, Lab2Delivery, Lab3User, Lab3Parcel,
       Lab3Delivery, Lab4User, Lab4Parcel, Lab4Delivery, Lab5User, Lab5Parcel, Lab5Delivery,
       Lab6User, Lab6Parcel, Lab6Delivery

\* A delivery handler that was made found what it calls.
LEMMA HandlerFinds ==
  ASSUME program \in Programs, ComponentsAreThere, AsksDeliveries, DeliveryHandlers \subseteq ready
  PROVE  /\ HasCache => "redis-delivery" \in ready
         /\ "postgres-delivery-db" \in ready
<1> DEFINE h == "handler-get-deliveries"
<1>1. h \in ready /\ h \in Handlers /\ h \in DeliveryHandlers /\ h \notin UserHandlers
  BY DEF DeliveryHandlers, Handlers, UserHandlers
<1>2. HasCache => "redis-delivery" \in Needs(program, h)
  BY <1>1 DEF Needs, LooksUpRedis, HasCache
<1>3. program.lab >= 3
  BY ProgramsHaveHandlers DEF AsksDeliveries
<1>4. LooksUpPostgres(program, h)
  BY <1>1, <1>3 DEF LooksUpPostgres, LooksUpMongo
<1>5. "postgres-delivery-db" \in Needs(program, h)
  BY <1>4 DEF Needs, Postgres
<1> QED
  BY <1>1, <1>2, <1>5 DEF ComponentsAreThere

-----------------------------------------------------------------------------
(* Who waits for whom.                                                     *)

\* The components by how long a chain of constructors may end in them; the
\* handlers come last.
First == {"userver", "default-secdist-provider"}
Second == {"secdist"} \cup Jwt \cup Postgres \cup Mongo
Third == {"redis-delivery"}

\* A component waits for components before it only.
LEMMA NeedsGoDown ==
  ASSUME NEW p, NEW c \in First \cup Second \cup Third \cup Handlers
  PROVE  /\ c \in First => Needs(p, c) = {}
         /\ c \in Second => Needs(p, c) \subseteq First
         /\ c \in Third => Needs(p, c) \subseteq First \cup Second
         /\ Needs(p, c) \subseteq First \cup Second \cup Third
<1> USE DEF First, Second, Third, Jwt, Postgres, Mongo
<1>1. c \notin Handlers => Needs(p, c) = LibraryNeeds(c)
  BY DEF Needs, LooksUpMongo, LooksUpPostgres, LooksUpRedis, LooksUpJwt, Handlers
<1>2. c \in First \cup Second \cup Third => c \notin Handlers
  BY DEF Handlers, UserHandlers, ParcelHandlers, DeliveryHandlers
<1>3. /\ c \in First => LibraryNeeds(c) = {}
      /\ c \in Second => LibraryNeeds(c) \subseteq First
      /\ c \in Third => LibraryNeeds(c) \subseteq First \cup Second
  BY DEF LibraryNeeds
<1>4. c \in Handlers => LibraryNeeds(c) \subseteq First
  BY DEF LibraryNeeds, Handlers, UserHandlers, ParcelHandlers, DeliveryHandlers
<1>5. c \in Handlers => Needs(p, c) \subseteq First \cup Second \cup Third
  BY <1>4 DEF Needs
<1> QED
  BY <1>1, <1>2, <1>3, <1>5

\* Each main() lists what the constructors of its list look up.
LEMMA ListsAreComplete ==
  ASSUME NEW p \in Programs
  PROVE  /\ p.components \subseteq First \cup Second \cup Third \cup Handlers
         /\ \A c \in p.components : Needs(p, c) \subseteq p.components
<1> USE DEF First, Second, Third, Jwt, Postgres, Mongo
<1> DEFINE has == p.components
<1>1. /\ p.lab \in Nat
      /\ has \subseteq First \cup Second \cup Third \cup Handlers
      /\ "userver" \in has
      /\ "secdist" \in has => "default-secdist-provider" \in has
      /\ "redis-delivery" \in has => "secdist" \in has
      /\ p.lab >= 5 => "redis-delivery" \in has
      /\ p.service = "user" =>
           /\ has \cap Handlers \subseteq UserHandlers
           /\ p.lab >= 4 => "mongo-delivery-db" \in has
           /\ p.lab = 3 => "postgres-delivery-db" \in has
      /\ p.service # "user" =>
           /\ has \cap Handlers \subseteq ParcelHandlers \cup DeliveryHandlers
           /\ "jwt-auth-component" \in has
           /\ p.lab >= 3 => "postgres-delivery-db" \in has
  BY DEF Programs, Program, Common, Redis, Handlers, UserHandlers, ParcelHandlers,
         DeliveryHandlers, Lab2User, Lab2Parcel, Lab2Delivery, Lab3User, Lab3Parcel,
         Lab3Delivery, Lab4User, Lab4Parcel, Lab4Delivery, Lab5User, Lab5Parcel,
         Lab5Delivery, Lab6User, Lab6Parcel, Lab6Delivery
<1> HIDE DEF has
<1>2. ASSUME NEW c \in has PROVE LibraryNeeds(c) \subseteq has
  BY <1>1, <1>2 DEF LibraryNeeds
<1>3. UserHandlers \cap (ParcelHandlers \cup DeliveryHandlers) = {}
  BY DEF UserHandlers, ParcelHandlers, DeliveryHandlers
<1>4. ASSUME NEW c \in has
      PROVE  /\ LooksUpMongo(p, c) => Mongo \subseteq has
             /\ LooksUpPostgres(p, c) => Postgres \subseteq has
             /\ LooksUpRedis(p, c) => "redis-delivery" \in has
             /\ LooksUpJwt(p, c) => Jwt \subseteq has
  BY <1>1, <1>3, <1>4
     DEF LooksUpMongo, LooksUpPostgres, LooksUpRedis, LooksUpJwt, Handlers
<1>5. \A c \in has : Needs(p, c) \subseteq has
  BY <1>2, <1>4 DEF Needs
<1> QED
  BY <1>1, <1>5 DEF has

-----------------------------------------------------------------------------
(* The invariant.                                                          *)

\* A process that is down has nothing, and nobody asks it.
LEMMA InitInv == Init => Inv
<1> SUFFICES ASSUME Init PROVE Inv
  OBVIOUS
<1> USE DEF Init, StartupInit
<1>1. \A w \in Workers : request[w] = Idle("none") /\ request[w].at = "idle"
  BY DEF Idle
<1>2. TypeOK
  <2>1. request \in [Workers -> Requests]
    BY DEF Requests, Codes
  <2> QED
    BY <2>1, StartupAssumption DEF TypeOK
<1>3. ComponentsAreThere
  BY DEF ComponentsAreThere
<1>4. HandlersAreThere
  BY <1>1 DEF HandlersAreThere
<1> QED
  BY <1>2, <1>3, <1>4 DEF Inv

\* A request that arrives, or goes on, to a state its program allows.
LEMMA GoesInv ==
  ASSUME Inv, NEW w \in Workers, NEW r \in Requests, Goes(w, r), UNCHANGED cache,
         r.at # "idle" =>
           /\ AsksDeliveries
           /\ DeliveryHandlers \subseteq ready
           /\ r.at \in {"get", "set"} => HasCache
  PROVE  Inv'
<1> USE DEF Inv
<1>1. /\ UNCHANGED <<program, process, ready, up, stops, deliveries, cache>>
      /\ request' = [request EXCEPT ![w] = r]
  BY DEF Goes, startupVars
<1>2. request' \in [Workers -> Requests] /\ Requests' = Requests
  BY <1>1 DEF TypeOK, Requests
<1>3. TypeOK'
  BY <1>1, <1>2 DEF TypeOK
<1>4. ComponentsAreThere'
  BY <1>1 DEF ComponentsAreThere
<1>5. HandlersAreThere'
  BY <1>1 DEF HandlersAreThere, TypeOK, AsksDeliveries, HasCache
<1> QED
  BY <1>3, <1>4, <1>5

\* A list that is stored goes under a key of its own.
LEMMA SetInv ==
  ASSUME Inv, NEW w \in Workers, request[w].at = "set", NEW code \in Codes,
         Goes(w, Idle(code)), SetKey(request[w].key, request[w].list)
  PROVE  Inv'
<1> USE DEF Inv
<1>1. /\ UNCHANGED <<program, process, ready, up, stops, deliveries>>
      /\ request' = [request EXCEPT ![w] = Idle(code)]
  BY DEF Goes, startupVars
<1>2. request[w] \in Requests /\ Idle(code) \in Requests
  BY DEF TypeOK, Requests
<1>3. request[w].key \in Keys /\ request[w].list \subseteq deliveries
  BY <1>2 DEF Requests, Idle
<1>4. Requests' = Requests
  BY <1>1 DEF Requests
<1>5. TypeOK'
  <2>1. DOMAIN cache' \subseteq Keys /\ \A k \in DOMAIN cache' : cache'[k] \subseteq deliveries
    BY <1>3 DEF SetKey, TypeOK
  <2> QED
    BY <1>1, <1>2, <1>4, <2>1 DEF TypeOK
<1>6. ComponentsAreThere'
  BY <1>1 DEF ComponentsAreThere
<1>7. HandlersAreThere'
  BY <1>1 DEF HandlersAreThere, TypeOK, AsksDeliveries, HasCache, Idle
<1> QED
  BY <1>5, <1>6, <1>7

\* What a request may arrive as, and what it finds.
LEMMA ArrivalInv ==
  ASSUME Inv, NEW w \in Workers, Arrival(w)
  PROVE  Inv'
<1>1. AsksDeliveries /\ DeliveryHandlers \subseteq ready
  <2>1. AsksDeliveries /\ process = "serving"
    BY DEF Arrival, GetRefused, GetUncached, GetCached, CreateRefused, CreateBegins, Arrives
  <2> QED
    BY <2>1, ProgramsHaveHandlers DEF Inv, TypeOK, ComponentsAreThere, AsksDeliveries
<1>2. ASSUME NEW code \in Codes, Goes(w, Idle(code)), UNCHANGED cache PROVE Inv'
  <2>1. Idle(code) \in Requests /\ Idle(code).at = "idle"
    BY DEF Requests, Idle
  <2> QED
    BY <1>2, <2>1, GoesInv
<1>3. ASSUME NEW q \in [sender : Args, receiver : Args], GetRefused(w, q) PROVE Inv'
  BY <1>2, <1>3 DEF GetRefused, Codes
<1>4. ASSUME NEW b \in Bodies, CreateRefused(w, b) PROVE Inv'
  BY <1>2, <1>4 DEF CreateRefused, Codes
<1>5. ASSUME NEW q \in [sender : Args, receiver : Args], GetUncached(w, q) \/ GetCached(w, q)
      PROVE  Inv'
  <2>1. KeyOf(q) \in Keys
    BY <1>5 DEF GetUncached, GetCached, ExactlyOne, KeyOf, Keys, Args
  <2>2. CASE GetUncached(w, q)
    <3> DEFINE r == [at |-> "select", key |-> KeyOf(q)]
    <3>1. r \in Requests /\ r.at = "select"
      BY <2>1 DEF Requests
    <3>2. Goes(w, r) /\ UNCHANGED cache
      BY <2>2 DEF GetUncached
    <3> HIDE DEF r
    <3> QED
      BY <1>1, <3>1, <3>2, GoesInv
  <2>3. CASE GetCached(w, q)
    <3> DEFINE r == [at |-> "get", key |-> KeyOf(q)]
    <3>1. r \in Requests /\ r.at = "get"
      BY <2>1 DEF Requests
    <3>2. Goes(w, r) /\ UNCHANGED cache /\ HasCache
      BY <2>3 DEF GetCached
    <3> HIDE DEF r
    <3> QED
      BY <1>1, <3>1, <3>2, GoesInv
  <2> QED
    BY <1>5, <2>2, <2>3
<1>6. ASSUME NEW u \in Users, NEW v \in Users, CreateBegins(w, u, v) PROVE Inv'
  <2> DEFINE r == [at |-> "insert", sender |-> u, receiver |-> v]
  <2>1. r \in Requests /\ r.at = "insert"
    BY DEF Requests
  <2>2. Goes(w, r) /\ UNCHANGED cache
    BY <1>6 DEF CreateBegins
  <2> HIDE DEF r
  <2> QED
    BY <1>1, <2>1, <2>2, GoesInv
<1> QED
  BY <1>3, <1>4, <1>5, <1>6 DEF Arrival

\* A request that goes on is answered, or reads the table for its own key.
LEMMA RequestStepInv ==
  ASSUME Inv, NEW w \in Workers, RequestStep(w)
  PROVE  Inv'
<1>1. request[w] \in Requests
  BY DEF Inv, TypeOK
<1>2. request[w].at # "idle"
  BY DEF RequestStep, GetStep, Get, Select, ReadRaises, Set, SetRaises, CreateDelivery
<1>3. /\ AsksDeliveries /\ DeliveryHandlers \subseteq ready
      /\ request[w].at \in {"get", "set"} => HasCache
  BY <1>2 DEF Inv, HandlersAreThere
<1>4. ASSUME NEW code \in Codes, Goes(w, Idle(code)), UNCHANGED cache PROVE Inv'
  <2>1. Idle(code) \in Requests /\ Idle(code).at = "idle"
    BY DEF Requests, Idle
  <2> QED
    BY <1>4, <2>1, GoesInv
<1>5. request[w].at \in {"get", "select"} => request[w].key \in Keys
  BY <1>1 DEF Requests, Idle
<1>6. CASE Get(w)
  <2> DEFINE r == [at |-> "select", key |-> request[w].key]
  <2>1. CASE Goes(w, Idle("200"))
    BY <1>4, <1>6, <2>1 DEF Get, Codes
  <2>2. CASE Goes(w, r)
    <3>1. r \in Requests /\ r.at = "select"
      BY <1>5, <1>6 DEF Requests, Get
    <3>2. UNCHANGED cache
      BY <1>6 DEF Get
    <3> HIDE DEF r
    <3> QED
      BY <1>3, <2>2, <3>1, <3>2, GoesInv
  <2> QED
    BY <1>6, <2>1, <2>2 DEF Get
<1>7. CASE Select(w)
  <2> DEFINE r == [at |-> "set", key |-> request[w].key, list |-> Rows(request[w].key)]
  <2>1. CASE ~HasCache
    BY <1>4, <1>7, <2>1 DEF Select, Codes
  <2>2. CASE HasCache
    <3>1. Rows(request[w].key) \subseteq deliveries
      BY DEF Rows, GetDeliveriesBySender, GetDeliveriesByReceiver
    <3>2. r \in Requests /\ r.at = "set"
      BY <1>5, <1>7, <3>1 DEF Requests, Select
    <3>3. Goes(w, r) /\ UNCHANGED cache
      BY <1>7, <2>2 DEF Select
    <3> HIDE DEF r
    <3> QED
      BY <1>3, <2>2, <3>2, <3>3, GoesInv
  <2> QED
    BY <2>1, <2>2
<1>8. CASE ReadRaises(w) \/ CreateDelivery(w)
  BY <1>4, <1>8 DEF ReadRaises, CreateDelivery, Codes
<1>9. CASE Set(w)
  BY <1>9, SetInv DEF Set, Codes
<1>10. CASE SetRaises(w)
  <2>1. request[w].at = "set" /\ Goes(w, Idle("500")) /\ "500" \in Codes
    BY <1>10 DEF SetRaises, Codes
  <2>2. CASE SetKey(request[w].key, request[w].list)
    BY <2>1, <2>2, SetInv
  <2>3. CASE UNCHANGED cache
    BY <1>4, <2>1, <2>3
  <2> QED
    BY <1>10, <2>2, <2>3 DEF SetRaises
<1> QED
  BY <1>6, <1>7, <1>8, <1>9, <1>10 DEF RequestStep, GetStep

\* The type of a state in which only the process has moved.
LEMMA ProcessTyped ==
  ASSUME TypeOK, UNCHANGED <<program, deliveries, cache, request>>,
         process' \in {"down", "loading", "serving", "stopping"},
         ready' \subseteq program.components, up' \subseteq Backends(program),
         stops' \in 0 .. MaxStops
  PROVE  TypeOK'
BY DEF TypeOK, Requests

\* While the process moves, requests stay as they are; their handlers do too.
LEMMA LifecycleInv ==
  ASSUME Inv, Lifecycle \/ Disturbance, UNCHANGED <<deliveries, cache, request>>
  PROVE  Inv'
<1> USE DEF Inv
<1>1. ASSUME UNCHANGED <<program, ready>>, stops' \in 0 .. MaxStops,
             process' \in {"down", "loading", "serving", "stopping"},
             up' \subseteq Backends(program),
             process' = "serving" => ready = program.components,
             process' = "down" => ready = {}
      PROVE  Inv'
  <2>1. TypeOK'
    BY <1>1, ProcessTyped DEF TypeOK
  <2>2. ComponentsAreThere'
    BY <1>1 DEF ComponentsAreThere
  <2>3. HandlersAreThere'
    BY <1>1 DEF HandlersAreThere, AsksDeliveries, HasCache
  <2> QED
    BY <2>1, <2>2, <2>3
<1>2. CASE Start \/ Serve \/ Exit
  BY <1>1, <1>2 DEF Start, Serve, Exit, TypeOK
<1>3. CASE (\E c \in program.components : LoadRaises(c)) \/ Stop
  BY <1>1, <1>3, StartupAssumption DEF LoadRaises, Stop, TypeOK
<1>4. ASSUME NEW b \in Backends(program), BackendDown(b) \/ BackendUp(b) PROVE Inv'
  BY <1>1, <1>4 DEF BackendDown, BackendUp, TypeOK, ComponentsAreThere
<1>5. ASSUME NEW c \in program.components, Load(c) PROVE Inv'
  <2>1. /\ UNCHANGED <<program, process, up, stops>> /\ process = "loading"
        /\ ready' = ready \cup {c} /\ Needs(program, c) \subseteq ready
    BY <1>5 DEF Load, Constructible
  <2>2. TypeOK'
    BY <2>1, ProcessTyped DEF TypeOK
  <2>3. ComponentsAreThere'
    BY <2>1 DEF ComponentsAreThere
  <2>4. HandlersAreThere'
    BY <2>1 DEF HandlersAreThere, AsksDeliveries, HasCache
  <2> QED
    BY <2>2, <2>3, <2>4
<1>6. ASSUME NEW c \in ready, c \in Handlers => Quiet, Unload(c) PROVE Inv'
  <2>1. /\ UNCHANGED <<program, process, up, stops>> /\ process = "stopping"
        /\ ready' = ready \ {c} /\ \A d \in ready : c \notin Needs(program, d)
    BY <1>6 DEF Unload
  <2>2. TypeOK'
    BY <2>1, ProcessTyped DEF TypeOK
  <2>3. ComponentsAreThere'
    BY <2>1 DEF ComponentsAreThere
  <2>4. HandlersAreThere'
    BY <1>6, <2>1 DEF HandlersAreThere, AsksDeliveries, HasCache, Quiet, Handlers
  <2> QED
    BY <2>2, <2>3, <2>4
<1> QED
  BY <1>2, <1>3, <1>4, <1>5, <1>6 DEF Lifecycle, Disturbance, UnloadStep

\* A killed process takes its requests with it.
LEMMA KillInv ==
  ASSUME Inv, KillStep, UNCHANGED <<deliveries, cache>>
  PROVE  Inv'
<1> USE DEF Inv
<1>1. /\ UNCHANGED <<program, up>> /\ process' = "down" /\ ready' = {}
      /\ stops' \in 0 .. MaxStops
      /\ request' = [w \in Workers |-> Idle("none")]
  BY StartupAssumption DEF KillStep, Kill, TypeOK
<1>2. \A w \in Workers : request'[w].at = "idle"
  BY <1>1 DEF Idle
<1>3. request' \in [Workers -> Requests] /\ Requests' = Requests
  BY <1>1 DEF Requests, Codes
<1>4. TypeOK'
  BY <1>1, <1>3 DEF TypeOK
<1>5. ComponentsAreThere' /\ HandlersAreThere'
  BY <1>1, <1>2 DEF ComponentsAreThere, HandlersAreThere
<1> QED
  BY <1>4, <1>5

\* A key that goes leaves the others.
LEMMA DropKeyInv ==
  ASSUME Inv, NEW k \in Keys, DropKey(k)
  PROVE  Inv'
<1> USE DEF Inv
<1>1. /\ UNCHANGED <<program, process, ready, up, stops, deliveries, request>>
      /\ DOMAIN cache' \subseteq DOMAIN cache /\ \A x \in DOMAIN cache' : cache'[x] = cache[x]
  BY DEF DropKey, startupVars
<1>2. TypeOK'
  BY <1>1 DEF TypeOK, Requests
<1>3. ComponentsAreThere' /\ HandlersAreThere'
  BY <1>1 DEF ComponentsAreThere, HandlersAreThere, AsksDeliveries, HasCache
<1> QED
  BY <1>2, <1>3

\* Every step is one of these.
LEMMA StepInv == Inv /\ [Next]_vars => Inv'
<1> SUFFICES ASSUME Inv, [Next]_vars PROVE Inv'
  OBVIOUS
<1>1. ASSUME NEW w \in Workers, Arrival(w) \/ RequestStep(w) PROVE Inv'
  BY <1>1, ArrivalInv, RequestStepInv
<1>2. CASE (Lifecycle \/ Disturbance) /\ UNCHANGED <<deliveries, cache, request>>
  BY <1>2, LifecycleInv
<1>3. CASE KillStep /\ UNCHANGED <<deliveries, cache>>
  BY <1>3, KillInv
<1>4. ASSUME NEW k \in Keys, DropKey(k) PROVE Inv'
  BY <1>4, DropKeyInv
<1>5. CASE UNCHANGED vars
  <2>1. UNCHANGED <<program, process, ready, up, stops, deliveries, cache, request>>
    BY <1>5 DEF vars, startupVars
  <2>2. TypeOK'
    BY <2>1 DEF Inv, TypeOK, Requests
  <2>3. ComponentsAreThere' /\ HandlersAreThere'
    BY <2>1 DEF Inv, ComponentsAreThere, HandlersAreThere, AsksDeliveries, HasCache
  <2> QED
    BY <2>2, <2>3 DEF Inv
<1> QED
  BY <1>1, <1>2, <1>3, <1>4, <1>5 DEF Next

\* The invariant holds throughout.
LEMMA Invariance == Spec => []Inv
BY InitInv, StepInv, PTL DEF Spec

-----------------------------------------------------------------------------
\* Every variable of the process, the table, the cache and the requests keeps
\* its type.
THEOREM TypeCorrect == Spec => []TypeOK
BY Invariance, PTL DEF Inv

\* However the process is stopped around it, a request finds the clients it has
\* still to call (get_deliveries_handler.cpp 15-18 against 44-75).
THEOREM ClientsStay == Spec => []ClientsOutliveRequests
<1>1. Inv => ClientsOutliveRequests
  <2> SUFFICES ASSUME Inv, NEW w \in Workers, request[w].at # "idle"
               PROVE  /\ request[w].at \in {"get", "set"} => "redis-delivery" \in ready
                      /\ "postgres-delivery-db" \in ready
    BY DEF ClientsOutliveRequests
  <2>1. /\ AsksDeliveries /\ DeliveryHandlers \subseteq ready
        /\ request[w].at \in {"get", "set"} => HasCache
    BY DEF Inv, HandlersAreThere
  <2> QED
    BY <2>1, HandlerFinds DEF Inv, TypeOK
<1> QED
  BY <1>1, Invariance, PTL

\* While a process loads, the earliest component that is missing can be made;
\* while it stops, the latest that is left can go (the fifteen main.cpp against
\* every FindComponent).
THEOREM SomeComponentMoves == Spec => []NobodyWaitsInACircle
<1>1. ASSUME Inv, NEW c \in program.components
      PROVE  /\ c \in First \cup Second \cup Third \cup Handlers
             /\ Needs(program, c) \subseteq program.components
  BY <1>1, ListsAreComplete DEF Inv, TypeOK
<1>2. ASSUME Inv, process = "loading", ready # program.components
      PROVE  \E c \in program.components : Constructible(c)
  <2> DEFINE missing == program.components \ ready
  <2>1. missing # {}
    BY <1>2 DEF Inv, TypeOK
  <2>2. \A c \in missing : c \in First \cup Second \cup Third \cup Handlers
    BY <1>1, <1>2
  <2>3. ASSUME NEW c \in missing, Needs(program, c) \cap missing = {}
        PROVE  \E d \in program.components : Constructible(d)
    BY <1>1, <1>2, <2>3 DEF Constructible
  <2> HIDE DEF missing
  <2>4. CASE \E c \in missing : c \in First
    BY <2>2, <2>3, <2>4, NeedsGoDown
  <2>5. CASE missing \cap First = {} /\ \E c \in missing : c \in Second
    <3> PICK c \in missing : c \in Second
      BY <2>5
    <3>1. Needs(program, c) \subseteq First
      BY <2>2, NeedsGoDown
    <3> QED
      BY <2>3, <2>5, <3>1
  <2>6. CASE missing \cap (First \cup Second) = {} /\ \E c \in missing : c \in Third
    <3> PICK c \in missing : c \in Third
      BY <2>6
    <3>1. Needs(program, c) \subseteq First \cup Second
      BY <2>2, NeedsGoDown
    <3> QED
      BY <2>3, <2>6, <3>1
  <2>7. CASE missing \cap (First \cup Second \cup Third) = {}
    <3> PICK c \in missing : TRUE
      BY <2>1
    <3>1. Needs(program, c) \subseteq First \cup Second \cup Third
      BY <2>2, NeedsGoDown
    <3> QED
      BY <2>3, <2>7, <3>1
  <2> QED
    BY <2>4, <2>5, <2>6, <2>7
<1>3. ASSUME Inv, ready # {}
      PROVE  \E c \in ready : \A d \in ready : c \notin Needs(program, d)
  <2>1. \A d \in ready : d \in First \cup Second \cup Third \cup Handlers
    BY <1>1, <1>3 DEF Inv, TypeOK
  <2>2. First \cap Second = {} /\ (First \cup Second) \cap Third = {}
        /\ (First \cup Second \cup Third) \cap Handlers = {}
    BY DEF First, Second, Third, Jwt, Postgres, Mongo, Handlers, UserHandlers,
           ParcelHandlers, DeliveryHandlers
  <2>3. \A d \in ready : Needs(program, d) \subseteq First \cup Second \cup Third
    BY <2>1, NeedsGoDown
  <2>4. CASE \E c \in ready : c \in Handlers
    BY <2>2, <2>3, <2>4
  <2>5. CASE ready \cap Handlers = {} /\ \E c \in ready : c \in Third
    <3>1. \A d \in ready : Needs(program, d) \subseteq First \cup Second
      BY <2>1, <2>5, NeedsGoDown
    <3> QED
      BY <2>2, <2>5, <3>1
  <2>6. CASE ready \cap (Handlers \cup Third) = {} /\ \E c \in ready : c \in Second
    <3>1. \A d \in ready : Needs(program, d) \subseteq First
      BY <2>1, <2>6, NeedsGoDown
    <3> QED
      BY <2>2, <2>6, <3>1
  <2>7. CASE ready \cap (Handlers \cup Third \cup Second) = {}
    <3>1. \A d \in ready : Needs(program, d) = {}
      BY <2>1, <2>7, NeedsGoDown
    <3> QED
      BY <1>3, <3>1
  <2> QED
    BY <2>4, <2>5, <2>6, <2>7
<1>4. Inv => NobodyWaitsInACircle
  BY <1>2, <1>3 DEF NobodyWaitsInACircle
<1> QED
  BY <1>4, Invariance, PTL
=============================================================================
