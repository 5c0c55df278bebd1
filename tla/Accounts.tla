------------------------------- MODULE Accounts -------------------------------
(***************************************************************************)
(* Users and tokens of lab4_mongodb (lab5 and lab6 differ only in the rate *)
(* limit before a login): user-service registers users in a MongoDB        *)
(* collection and signs a token for who logs in; parcel-service and        *)
(* delivery-service check tokens, each on its own.  A handler waits for    *)
(* MongoDB, and reads the clock before or after that wait.                 *)
(***************************************************************************)
EXTENDS Naturals, FiniteSets

CONSTANTS
  Workers,     \* requests of user-service that can be in progress at once
  Logins,
  Passwords,
  Life,        \* life of a token in ticks; 24 hours in the code
  MaxTime,     \* bound of the model: the last tick
  MaxUsers,    \* bound of the model: how many users may be stored
  MaxTokens,   \* bound of the model: how many tokens may be given out
  UniqueIndex, \* whether somebody made logins unique in MongoDB; no file does
  Faults       \* which of "mongo", "crash" may happen

ASSUME AccountsAssumption ==
  /\ Life \in Nat /\ MaxTime \in Nat /\ MaxUsers \in Nat /\ MaxTokens \in Nat
  /\ UniqueIndex \in BOOLEAN
  /\ Faults \subseteq {"mongo", "crash"}

VARIABLES
  now,    \* the clock; a user's id is what it shows, in microseconds
  users,  \* the collection
  pc,     \* where each request stands
  asked,  \* login and password in its body
  id,     \* new_id of a registration, or the id of the user a login found
  exp,    \* the expiry inside the token a login has signed
  reply,  \* the last answer of each worker
  tokens  \* tokens that clients hold

accountVars == <<now, users, pc, asked, id, exp, reply, tokens>>

Times == 0 .. MaxTime
Credentials == [login : Logins, password : Passwords]
Users == [id : Times, login : Logins, password : Passwords]
\* expires_at is what the client is told; "for" is a history of the login's body.
Tokens == [user_id : Times, exp : 0 .. MaxTime + Life, expires_at : 0 .. MaxTime + Life,
           for : Credentials]

NoReply == [code |-> "none", id |-> 0]
Named(l) == {u \in users : u.login = l}

TypeOK ==
  /\ now \in Times
  /\ users \subseteq Users /\ Cardinality(users) <= MaxUsers
  /\ pc \in [Workers -> {"idle", "insert", "find", "sign", "answer"}]
  /\ asked \in [Workers -> Credentials]
  /\ id \in [Workers -> Times]
  /\ exp \in [Workers -> 0 .. MaxTime + Life]
  /\ reply \in [Workers -> [code : {"none", "200", "201", "400", "401", "404", "409", "500"},
                            id : Times]]
  /\ tokens \subseteq Tokens /\ Cardinality(tokens) <= MaxTokens

-----------------------------------------------------------------------------
\* The request ends and its locals are gone.
Answer(w, code, i) ==
  /\ pc' = [pc EXCEPT ![w] = "idle"]
  /\ reply' = [reply EXCEPT ![w] = [code |-> code, id |-> i]]
  /\ id' = [id EXCEPT ![w] = 0]
  /\ exp' = [exp EXCEPT ![w] = 0]

\* A body is read and goes on to wait for step s.
Accept(w, s, c) ==
  /\ pc[w] = "idle"
  /\ pc' = [pc EXCEPT ![w] = s]
  /\ asked' = [asked EXCEPT ![w] = c]
  /\ reply' = [reply EXCEPT ![w] = NoReply]
  /\ UNCHANGED <<now, users, exp, tokens>>

\* A missing or empty field, or an email without "@", is answered 400; a body
\* that cannot be read raises, which is 500.  Nothing else happens.
CreateRefused(w) ==
  /\ pc[w] = "idle"
  /\ \E code \in {"400", "500"} : Answer(w, code, 0)
  /\ UNCHANGED <<now, users, asked, tokens>>

LoginRefused(w) ==
  /\ pc[w] = "idle"
  /\ \E code \in {"400", "500"} : Answer(w, code, 0)
  /\ UNCHANGED <<now, users, asked, tokens>>

-----------------------------------------------------------------------------
(* POST /api/v1/users.                                                     *)

\* The clock is read for new_id, then InsertOne is waited for.
BeginCreate(w, c) ==
  /\ Accept(w, "insert", c)
  /\ id' = [id EXCEPT ![w] = now]

\* The primary key _id, and the index on login if there is one.
DuplicateKey(i, c) ==
  \/ \E u \in users : u.id = i
  \/ UniqueIndex /\ Named(c.login) # {}

Stored(i, c) == users \cup {[id |-> i, login |-> c.login, password |-> c.password]}

\* Mutant of InsertOne: an update by _id, with upsert.
InsertUpserts(w) ==
  /\ pc[w] = "insert"
  /\ Cardinality(users) < MaxUsers
  /\ users' = {u \in users : u.id # id[w]}
                \cup {[id |-> id[w], login |-> asked[w].login, password |-> asked[w].password]}
  /\ Answer(w, "201", id[w])
  /\ UNCHANGED <<now, asked, tokens>>

InsertOne(w) ==
  /\ pc[w] = "insert"
  /\ \/ /\ DuplicateKey(id[w], asked[w])
        /\ Answer(w, "409", 0)
        /\ UNCHANGED users
     \/ /\ ~DuplicateKey(id[w], asked[w])
        /\ Cardinality(users) < MaxUsers
        /\ users' = Stored(id[w], asked[w])
        /\ Answer(w, "201", id[w])
  /\ UNCHANGED <<now, asked, tokens>>

\* Any other exception of the driver: the document may be there or not.
InsertRaises(w) ==
  /\ "mongo" \in Faults
  /\ pc[w] = "insert"
  /\ \/ UNCHANGED users
     \/ /\ ~DuplicateKey(id[w], asked[w]) /\ Cardinality(users) < MaxUsers
        /\ users' = Stored(id[w], asked[w])
  /\ Answer(w, "500", 0)
  /\ UNCHANGED <<now, asked, tokens>>

-----------------------------------------------------------------------------
(* POST /api/v1/auth/login.                                                *)

BeginLogin(w, c) == Accept(w, "find", c) /\ UNCHANGED id

\* FindOne by login: any one of the documents that match.
GetUserByLogin(l) == Named(l)

\* Mutant of AuthenticateUser: the read is served by a lagging secondary.
AuthenticateStale(w) ==
  LET old == {u \in GetUserByLogin(asked[w].login) : u.id < now} IN
  /\ pc[w] = "find"
  /\ \/ \E u \in old :
          /\ u.password = asked[w].password
          /\ pc' = [pc EXCEPT ![w] = "sign"]
          /\ id' = [id EXCEPT ![w] = u.id]
          /\ UNCHANGED <<exp, reply>>
     \/ /\ old = {} \/ \E u \in old : u.password # asked[w].password
        /\ Answer(w, "401", 0)
  /\ UNCHANGED <<now, users, asked, tokens>>

\* One document is fetched and its hash compared.
AuthenticateUser(w) ==
  LET found == GetUserByLogin(asked[w].login) IN
  /\ pc[w] = "find"
  /\ \/ \E u \in found :
          /\ u.password = asked[w].password
          /\ pc' = [pc EXCEPT ![w] = "sign"]
          /\ id' = [id EXCEPT ![w] = u.id]
          /\ UNCHANGED <<exp, reply>>
     \/ /\ found = {} \/ \E u \in found : u.password # asked[w].password
        /\ Answer(w, "401", 0)
  /\ UNCHANGED <<now, users, asked, tokens>>

FindRaises(w) ==
  /\ "mongo" \in Faults
  /\ pc[w] = "find"
  /\ Answer(w, "500", 0)
  /\ UNCHANGED <<now, users, asked, tokens>>

\* Mutant of GenerateToken: two lives.
GenerateLongToken(w) ==
  /\ pc[w] = "sign"
  /\ pc' = [pc EXCEPT ![w] = "answer"]
  /\ exp' = [exp EXCEPT ![w] = now + 2 * Life]
  /\ UNCHANGED <<now, users, asked, id, reply, tokens>>

\* GenerateToken: the expiry inside the token is counted from its own clock ...
GenerateToken(w) ==
  /\ pc[w] = "sign"
  /\ pc' = [pc EXCEPT ![w] = "answer"]
  /\ exp' = [exp EXCEPT ![w] = now + Life]
  /\ UNCHANGED <<now, users, asked, id, reply, tokens>>

\* ... and the one the client is told from a later one.
AnswerLogin(w) ==
  /\ pc[w] = "answer"
  /\ tokens' = tokens \cup
       {[user_id |-> id[w], exp |-> exp[w], expires_at |-> now + Life, for |-> asked[w]]}
  /\ Cardinality(tokens') <= MaxTokens
  /\ Answer(w, "200", id[w])
  /\ UNCHANGED <<now, users, asked>>

\* GET /api/v1/users/{login}: one of the matching documents, 404, or 500.
GetUser(w, l) ==
  /\ pc[w] = "idle"
  /\ \/ \E u \in GetUserByLogin(l) : Answer(w, "200", u.id)
     \/ GetUserByLogin(l) = {} /\ Answer(w, "404", 0)
     \/ "mongo" \in Faults /\ Answer(w, "500", 0)
  /\ UNCHANGED <<now, users, asked, tokens>>

-----------------------------------------------------------------------------
(* The other services, and what happens around them all.                   *)

\* Mutant of CheckAuth: the signature and the issuer, and nothing else.
CheckSignature(t) == [status |-> "ok", user_id |-> t.user_id]

\* The verdict on a token with our signature and issuer, which jwt-cpp finds
\* expired when exp is past; "ok" hands user_id to the handler.
CheckAuth(t) ==
  IF now > t.exp THEN [status |-> "invalid_token"]
  ELSE [status |-> "ok", user_id |-> t.user_id]

Tick ==
  /\ now < MaxTime
  /\ now' = now + 1
  /\ UNCHANGED <<users, pc, asked, id, exp, reply, tokens>>

\* user-service dies with its requests.
ServiceCrash ==
  /\ "crash" \in Faults
  /\ pc' = [w \in Workers |-> "idle"]
  /\ id' = [w \in Workers |-> 0]
  /\ exp' = [w \in Workers |-> 0]
  /\ reply' = [w \in Workers |-> NoReply]
  /\ UNCHANGED <<now, users, asked, tokens>>

-----------------------------------------------------------------------------
Init ==
  /\ now = 0
  /\ users = {}
  /\ pc = [w \in Workers |-> "idle"]
  /\ asked \in [Workers -> Credentials]
  /\ id = [w \in Workers |-> 0]
  /\ exp = [w \in Workers |-> 0]
  /\ reply = [w \in Workers |-> NoReply]
  /\ tokens = {}

Registration(w) ==
  \/ CreateRefused(w)
  \/ \E c \in Credentials : BeginCreate(w, c)
  \/ InsertOne(w)
  \/ InsertRaises(w)

Session(w) ==
  \/ LoginRefused(w)
  \/ \E c \in Credentials : BeginLogin(w, c)
  \/ AuthenticateUser(w)
  \/ FindRaises(w)
  \/ GenerateToken(w)
  \/ AnswerLogin(w)
  \/ \E l \in Logins : GetUser(w, l)

Next ==
  \/ \E w \in Workers : Registration(w) \/ Session(w)
  \/ Tick
  \/ ServiceCrash

Spec == Init /\ [][Next]_accountVars

-----------------------------------------------------------------------------
(* What accounts promise.                                                  *)

\* A registration that is answered 201 is told the id of a document that holds
\* its own login and password, for good: when two registrations read the same
\* microsecond, one of them is refused and neither is given the other's account
\* (mongo_db.cpp:28-49: the id is taken before the wait, not after it).
CreatedIsOwn ==
  \A w \in Workers : reply[w].code = "201" =>
    \E u \in users : u.id = reply[w].id /\ u.login = asked[w].login
                                        /\ u.password = asked[w].password

\* A request that passes CheckAuth acts for a user whose own password was given
\* to user-service, and not after the time its client was told
\* (login_user_handler.cpp:58-69 reads the clock twice after the wait for
\* MongoDB; jwt_auth_checker.cpp:33-44 decides in another process).
AcceptedIsBacked ==
  \A t \in tokens : CheckAuth(t).status = "ok" =>
    /\ now <= t.expires_at
    /\ [id |-> CheckAuth(t).user_id, login |-> t.for.login, password |-> t.for.password]
         \in users

\* The right password is refused only if its login was registered twice
\* (mongo_db.cpp:63-77, 120-124: the hash of one document is compared).
RefusedOnlyIfDoubled ==
  [][\A w \in Workers :
       /\ pc[w] = "find" /\ reply'[w].code = "401"
       /\ \E u \in Named(asked[w].login) : u.password = asked[w].password
       => Cardinality(Named(asked[w].login)) > 1]_accountVars

-----------------------------------------------------------------------------
(* What the documents of the repository say, and the code does not do.     *)

\* openapi.yaml:29-30 of lab4: '409' "User already exists": a login that has an
\* account is not registered again.
ExistingUserIsRefused ==
  [][\A w \in Workers :
       pc[w] = "insert" /\ reply'[w].code = "201" => Named(asked[w].login) = {}]_accountVars
=============================================================================
