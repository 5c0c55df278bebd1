---------------------------- MODULE PostgresStore ----------------------------
(***************************************************************************)
(* The three services of lab3_postgresql over one Postgres database.  Each *)
(* handler runs one statement that commits by itself.  The driver may stop *)
(* waiting for it, or the service may die: the request is over, and the    *)
(* statement may still be carried out later, when its client has long      *)
(* tried again.                                                            *)
(***************************************************************************)
EXTENDS Integers, Sequences, FiniteSets

CONSTANTS
  Workers,    \* requests that can be in progress at once
  Logins,
  Emails,
  Passwords,
  MaxUsers,   \* bound of the model: the last number of the sequence of users
  MaxParcels, \* bound of the model: the last number of that of parcels
  Faults      \* which of "timeout", "crash" may happen

ASSUME PostgresAssumption ==
  /\ MaxUsers \in Nat /\ MaxParcels \in Nat
  /\ Faults \subseteq {"timeout", "crash"}

VARIABLES
  users,    \* the table; the rows of data.sql, whose logins nobody uses, left out
  parcels,  \* the table
  serial,   \* the sequences behind the two BIGSERIAL columns
  stmt,     \* the INSERT that each request waits for
  late,     \* a statement whose request is over; one for each worker is a bound
  reply,    \* status of the last answer to each worker
  tokens    \* tokens that clients hold, with the login and password they gave

storeVars == <<users, parcels, serial, stmt, late, reply, tokens>>

Nothing == [op |-> "none"]
CreateUserRequests ==
  [op : {"create_user"}, login : Logins, email : Emails, password : Passwords]
CreateParcelRequests ==
  [op : {"create_parcel"}, sender_id : 1 .. MaxUsers, weight : {0, 1}]
Statements == CreateUserRequests \cup CreateParcelRequests

Users == [id : 1 .. MaxUsers, login : Logins, email : Emails, password : Passwords]
Parcels == [id : 1 .. MaxParcels, sender_id : 1 .. MaxUsers]
Tokens == [user_id : 1 .. MaxUsers, login : Logins, password : Passwords]
Codes == {"none", "200", "201", "400", "401", "403", "404", "500"}

TypeOK ==
  /\ users \subseteq Users
  /\ parcels \subseteq Parcels
  /\ serial \in [users : 0 .. MaxUsers, parcels : 0 .. MaxParcels]
  /\ stmt \in [Workers -> Statements \cup {Nothing}]
  /\ late \in [Workers -> Statements \cup {Nothing}]
  /\ reply \in [Workers -> Codes]
  /\ tokens \subseteq Tokens

-----------------------------------------------------------------------------
(* Postgres, with the tables and constraints of schema.sql.                *)

\* UNIQUE of login and of email.
Taken(s) == \E u \in users : u.login = s.login \/ u.email = s.email

\* REFERENCES users(id), and CHECK (weight > 0).
Allowed(s) == (\E u \in users : u.id = s.sender_id) /\ s.weight > 0

\* Mutant of InsertUser: INSERT ... ON CONFLICT (login) DO UPDATE.
UpsertUser(s) ==
  /\ s.op = "create_user"
  /\ serial.users < MaxUsers
  /\ serial' = [serial EXCEPT !.users = @ + 1]
  /\ users' = {u \in users : u.login # s.login}
                \cup {[id |-> serial.users + 1, login |-> s.login,
                       email |-> s.email, password |-> s.password]}
  /\ UNCHANGED parcels

\* The statement succeeds, and its row is returned.
InsertUser(s) ==
  /\ s.op = "create_user" /\ ~Taken(s)
  /\ serial.users < MaxUsers
  /\ serial' = [serial EXCEPT !.users = @ + 1]
  /\ users' = users \cup {[id |-> serial.users + 1, login |-> s.login,
                           email |-> s.email, password |-> s.password]}
  /\ UNCHANGED parcels

InsertParcel(s) ==
  /\ s.op = "create_parcel" /\ Allowed(s)
  /\ serial.parcels < MaxParcels
  /\ serial' = [serial EXCEPT !.parcels = @ + 1]
  /\ parcels' = parcels \cup {[id |-> serial.parcels + 1, sender_id |-> s.sender_id]}
  /\ UNCHANGED users

\* A constraint refuses the row, and the number taken from the sequence is gone;
\* or there was none left.
Violated(s) ==
  /\ \/ /\ s.op = "create_user" /\ Taken(s) /\ serial.users < MaxUsers
        /\ serial' = [serial EXCEPT !.users = @ + 1]
     \/ /\ s.op = "create_parcel" /\ ~Allowed(s) /\ serial.parcels < MaxParcels
        /\ serial' = [serial EXCEPT !.parcels = @ + 1]
     \/ /\ \/ s.op = "create_user" /\ serial.users = MaxUsers
           \/ s.op = "create_parcel" /\ serial.parcels = MaxParcels
        /\ UNCHANGED serial
  /\ UNCHANGED <<users, parcels>>

-----------------------------------------------------------------------------
(* The handlers.                                                           *)

Answer(w, code) ==
  /\ stmt' = [stmt EXCEPT ![w] = Nothing]
  /\ reply' = [reply EXCEPT ![w] = code]

\* A request that is answered on the spot, by a read or without one.
AnswerNow(w, code) ==
  /\ stmt[w] = Nothing
  /\ Answer(w, code)
  /\ UNCHANGED <<users, parcels, serial, late>>

\* A missing or empty field or argument is answered 400; a body that cannot be
\* read raises in the handler, which is 500.
Refused(w) == (\E code \in {"400", "500"} : AnswerNow(w, code)) /\ UNCHANGED tokens

\* CheckAuth: no token, one that is wrong or late, or one that cannot be read.
Unauthorized(w) == (\E code \in {"401", "403"} : AnswerNow(w, code)) /\ UNCHANGED tokens

Send(w, s) ==
  /\ stmt[w] = Nothing
  /\ stmt' = [stmt EXCEPT ![w] = s]
  /\ reply' = [reply EXCEPT ![w] = "none"]
  /\ UNCHANGED <<users, parcels, serial, late, tokens>>

\* POST /api/v1/users.
CreateUser(w) == \E s \in CreateUserRequests : Send(w, s)

\* Mutant of CreateParcel: the sender is read from the body.
CreateParcelFromBody(w) == \E s \in CreateParcelRequests : Send(w, s)

\* Mutant of CreateParcel: user 0 for a caller without a user_id.
CreateParcelAnonymous(w) ==
  Send(w, [op |-> "create_parcel", sender_id |-> 0, weight |-> 1])

\* POST /api/v1/parcels: the sender is the user in the caller's token.
CreateParcel(w) ==
  \E t \in tokens, weight \in {0, 1} :
    Send(w, [op |-> "create_parcel", sender_id |-> t.user_id, weight |-> weight])

\* The INSERT is carried out while its request waits.  Reading the NUMERIC
\* weight of the row into a double may raise when the row is stored.
Execute(w) ==
  /\ \/ InsertUser(stmt[w]) /\ Answer(w, "201")
     \/ InsertParcel(stmt[w]) /\ \E code \in {"201", "500"} : Answer(w, code)
     \/ Violated(stmt[w]) /\ Answer(w, "500")
  /\ UNCHANGED <<late, tokens>>

\* The driver raises after its timeout, or on a lost connection: 500, and no
\* handler takes the statement back.
TimedOut(w) ==
  /\ "timeout" \in Faults
  /\ stmt[w] # Nothing /\ late[w] = Nothing
  /\ late' \in {late, [late EXCEPT ![w] = stmt[w]]}
  /\ Answer(w, "500")
  /\ UNCHANGED <<users, parcels, serial, tokens>>

\* The service of a request dies.
RequestDies(w) ==
  /\ "crash" \in Faults
  /\ stmt[w] # Nothing /\ late[w] = Nothing
  /\ late' \in {late, [late EXCEPT ![w] = stmt[w]]}
  /\ Answer(w, "none")
  /\ UNCHANGED <<users, parcels, serial, tokens>>

\* Nobody is told how it ended.
ExecuteLate(w) ==
  /\ InsertUser(late[w]) \/ InsertParcel(late[w]) \/ Violated(late[w])
  /\ late' = [late EXCEPT ![w] = Nothing]
  /\ UNCHANGED <<stmt, reply, tokens>>

\* A kSlave is asked (db.cpp:48): with one host, the table itself.
GetUserByLogin(l) == {u \in users : u.login = l}

\* Mutant of GenerateToken: the id last taken from the sequence.
GenerateTokenForLast(u, p) == [user_id |-> serial.users, login |-> u.login, password |-> p]

\* The user_id in a token, with what was given for it.
GenerateToken(u, p) == [user_id |-> u.id, login |-> u.login, password |-> p]

\* POST /api/v1/auth/login.
Login(w, l, p) ==
  /\ \/ \E u \in GetUserByLogin(l) :
          /\ u.password = p
          /\ tokens' = tokens \cup {GenerateToken(u, p)}
          /\ AnswerNow(w, "200")
     \/ /\ \A u \in GetUserByLogin(l) : u.password # p
        /\ AnswerNow(w, "401")
        /\ UNCHANGED tokens

\* GET /api/v1/users/{login}.
GetUser(w, l) ==
  /\ AnswerNow(w, IF GetUserByLogin(l) = {} THEN "404" ELSE "200")
  /\ UNCHANGED tokens

\* GET /api/v1/users/search: the names a mask selects are not modelled.
SearchUsers(w) == AnswerNow(w, "200") /\ UNCHANGED tokens

\* GET /api/v1/deliveries: whatever the driver raises is told as an argument
\* that is no integer.
GetDeliveries(w) ==
  /\ \/ AnswerNow(w, "200")
     \/ "timeout" \in Faults /\ AnswerNow(w, "400")
  /\ UNCHANGED tokens

\* The SELECT of any other handler raises.
ReadRaises(w) ==
  /\ "timeout" \in Faults
  /\ AnswerNow(w, "500")
  /\ UNCHANGED tokens

\* GET /api/v1/users/{id}/parcels: the column full_name does not exist.
ParcelColumns == {"id", "sender_id", "description", "weight", "created_at"}
ParcelSelect == {"id", "sender_id", "full_name", "description", "weight", "created_at"}
GetUserParcels(w) ==
  /\ tokens # {}
  /\ ~(ParcelSelect \subseteq ParcelColumns)
  /\ AnswerNow(w, "500")
  /\ UNCHANGED tokens

\* POST /api/v1/deliveries: four arguments are bound to five placeholders.
DeliveryArguments == <<"sender_id", "receiver_id", "receiver_id", "cost">>
DeliveryPlaceholders == 5
CreateDelivery(w) ==
  /\ tokens # {}
  /\ Len(DeliveryArguments) # DeliveryPlaceholders
  /\ AnswerNow(w, "500")
  /\ UNCHANGED tokens

-----------------------------------------------------------------------------
Init ==
  /\ users = {}
  /\ parcels = {}
  /\ serial = [users |-> 0, parcels |-> 0]
  /\ stmt = [w \in Workers |-> Nothing]
  /\ late = [w \in Workers |-> Nothing]
  /\ reply = [w \in Workers |-> "none"]
  /\ tokens = {}

Write(w) ==
  \/ CreateUser(w)
  \/ CreateParcel(w)
  \/ Execute(w)
  \/ TimedOut(w)
  \/ RequestDies(w)
  \/ ExecuteLate(w)

Read(w) ==
  \/ Refused(w)
  \/ Unauthorized(w)
  \/ \E l \in Logins, p \in Passwords : Login(w, l, p)
  \/ \E l \in Logins : GetUser(w, l)
  \/ SearchUsers(w)
  \/ GetDeliveries(w)
  \/ ReadRaises(w)
  \/ GetUserParcels(w)
  \/ CreateDelivery(w)

Next == \E w \in Workers : Write(w) \/ Read(w)

Spec == Init /\ [][Next]_storeVars

-----------------------------------------------------------------------------
(* What the store promises.                                                *)

\* Whatever is retried after a timeout and carried out late, the users are a
\* Directory: a login never has a second account or another password, and a
\* token names the account whose password was given for it (db.cpp:24-44 and
\* 107-111, schema.sql:3-4, login_user_handler.cpp:58-69).
Account(u) == [id |-> u.id, login |-> u.login, password |-> u.password]
Dir == INSTANCE Directory WITH
            Ids <- 1 .. MaxUsers,
            accounts <- {Account(u) : u \in users},
            grants <- tokens
ImplementsDirectory == Dir!Spec

\* Each parcel that is ever stored, late or not, belongs to a user for whom
\* somebody gave that user's own login and password
\* (create_parcel_handler.cpp:25-36 takes the sender from the token).
ParcelsAreBacked ==
  \A p \in parcels : \E u \in users, t \in tokens :
    /\ u.id = p.sender_id /\ t.user_id = p.sender_id
    /\ t.login = u.login /\ t.password = u.password

\* What the first two rest on: what is stored has a number that the sequence
\* has passed, and one row for each key.
IdsAreSerial ==
  /\ \A u \in users : u.id <= serial.users
  /\ \A u, v \in users : u.id = v.id \/ u.login = v.login \/ u.email = v.email => u = v
  /\ \A p \in parcels : p.id <= serial.parcels
=============================================================================
