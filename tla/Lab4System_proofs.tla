-------------------------- MODULE Lab4System_proofs --------------------------
(***************************************************************************)
(* What Accounts promises of ids and tokens holds for every number of      *)
(* requests, users and tokens, and however far the clock moves between two *)
(* steps of a request; and what lab4 as a whole promises rests on it:      *)
(* parcels in Postgres belong to users in MongoDB.                         *)
(***************************************************************************)
EXTENDS Lab4System, FiniteSetTheorems, TLAPS

\* The document that credentials c were stored in under id i.
Document(i, c) == [id |-> i, login |-> c.login, password |-> c.password]

\* Where a request stands: a login that goes on found a document with its own
\* credentials, its token expires no later than the client will be told, and a
\* registration that succeeded has its own document.
Underway(w) ==
  /\ pc[w] \in {"sign", "answer"} => Document(id[w], asked[w]) \in users
  /\ pc[w] = "answer" => exp[w] <= now + Life
  /\ reply[w].code = "201" => Document(reply[w].id, asked[w]) \in users

Backed(t) == t.exp <= t.expires_at /\ Document(t.user_id, t.for) \in users

Inv ==
  /\ TypeOK
  /\ IsFiniteSet(users)
  /\ \A w \in Workers : Underway(w)
  /\ \A t \in tokens : Backed(t)

Replies == [code : {"none", "200", "201", "400", "401", "404", "409", "500"}, id : Times]
States == {"idle", "insert", "find", "sign", "answer"}

-----------------------------------------------------------------------------
(* One request takes a step.                                               *)

\* A step of w that leaves the clock alone and removes nothing keeps Inv if
\* what it leaves behind is right for w and for the tokens it gives out.
LEMMA OneMoves ==
  ASSUME AccountsAssumption, Inv, NEW w \in Workers,
         NEW s \in States, NEW c \in Credentials, NEW i \in Times,
         NEW e \in 0 .. MaxTime + Life, NEW r \in Replies,
         pc' = [pc EXCEPT ![w] = s], asked' = [asked EXCEPT ![w] = c],
         id' = [id EXCEPT ![w] = i], exp' = [exp EXCEPT ![w] = e],
         reply' = [reply EXCEPT ![w] = r], now' = now,
         users \subseteq users', users' \subseteq Users,
         IsFiniteSet(users'), Cardinality(users') <= MaxUsers,
         tokens' \subseteq Tokens, Cardinality(tokens') <= MaxTokens,
         \A t \in tokens' \ tokens : Backed(t),
         s \in {"sign", "answer"} => Document(i, c) \in users,
         s = "answer" => e <= now + Life,
         r.code = "201" => Document(r.id, c) \in users'
  PROVE  Inv'
  <1>1. TypeOK'
    BY DEF Inv, TypeOK, States, Replies
  <1>2. ASSUME NEW v \in Workers PROVE Underway(v)'
    <2>1. CASE v = w
      <3>1. /\ pc'[v] = s /\ asked'[v] = c /\ id'[v] = i /\ exp'[v] = e /\ reply'[v] = r
        BY <2>1 DEF Inv, TypeOK
      <3> QED BY <3>1 DEF Underway, Document
    <2>2. CASE v # w
      <3>1. /\ pc'[v] = pc[v] /\ asked'[v] = asked[v] /\ id'[v] = id[v]
            /\ exp'[v] = exp[v] /\ reply'[v] = reply[v]
        BY <2>2 DEF Inv, TypeOK
      <3> QED BY <3>1 DEF Inv, Underway, Document
    <2> QED BY <2>1, <2>2
  <1>3. ASSUME NEW t \in tokens' PROVE Backed(t)'
    BY DEF Inv, Backed, Document
  <1> QED BY <1>1, <1>2, <1>3 DEF Inv

\* A request ends without an account or a token.
LEMMA OneEnds ==
  ASSUME AccountsAssumption, Inv, NEW w \in Workers,
         NEW code \in {"200", "400", "401", "404", "409", "500"}, NEW i \in Times,
         Answer(w, code, i), UNCHANGED <<now, users, asked, tokens>>
  PROVE  Inv'
  <1>1. asked[w] \in Credentials /\ asked' = [asked EXCEPT ![w] = asked[w]]
    BY DEF Inv, TypeOK
  <1>2. [code |-> code, id |-> i] \in Replies /\ 0 \in Times /\ 0 \in 0 .. MaxTime + Life
    BY DEF Replies, Times, AccountsAssumption
  <1>3. "idle" \in States
    BY DEF States
  <1> QED BY <1>1, <1>2, <1>3, OneMoves DEF Answer, Inv, TypeOK

\* A login goes on, and nobody hears of it yet.
LEMMA OneGoesOn ==
  ASSUME AccountsAssumption, Inv, NEW w \in Workers, NEW s \in {"sign", "answer"},
         NEW i \in Times, NEW e \in 0 .. MaxTime + Life,
         pc' = [pc EXCEPT ![w] = s], id' = [id EXCEPT ![w] = i], exp' = [exp EXCEPT ![w] = e],
         UNCHANGED <<now, users, asked, reply, tokens>>,
         Document(i, asked[w]) \in users, s = "answer" => e <= now + Life
  PROVE  Inv'
  <1>1. PICK c \in Credentials, r \in Replies : c = asked[w] /\ r = reply[w]
    BY DEF Inv, TypeOK, Replies
  <1>2. asked' = [asked EXCEPT ![w] = c] /\ reply' = [reply EXCEPT ![w] = r]
    BY <1>1 DEF Inv, TypeOK
  <1>3. /\ Document(i, c) \in users
        /\ r.code = "201" => Document(r.id, c) \in users
    BY <1>1 DEF Inv, Underway
  <1>4. s \in States
    BY DEF States
  <1>5. /\ users \subseteq Users /\ IsFiniteSet(users) /\ Cardinality(users) <= MaxUsers
        /\ tokens \subseteq Tokens /\ Cardinality(tokens) <= MaxTokens
    BY DEF Inv, TypeOK
  <1> QED BY <1>2, <1>3, <1>4, <1>5, OneMoves

\* A request begins to wait for MongoDB.
LEMMA OneBegins ==
  ASSUME AccountsAssumption, Inv, NEW w \in Workers, NEW s \in {"insert", "find"},
         NEW c \in Credentials, Accept(w, s, c), NEW i \in Times,
         id' = [id EXCEPT ![w] = i]
  PROVE  Inv'
  <1>1. exp[w] \in 0 .. MaxTime + Life /\ exp' = [exp EXCEPT ![w] = exp[w]]
    BY DEF Accept, Inv, TypeOK
  <1>2. NoReply \in Replies /\ NoReply.code # "201"
    BY DEF NoReply, Replies, Times, AccountsAssumption
  <1>3. s \in States
    BY DEF States
  <1> QED BY <1>1, <1>2, <1>3, OneMoves DEF Accept, Inv, TypeOK

\* One document more, whether its request hears of it or not.
LEMMA StoredKeeps ==
  ASSUME AccountsAssumption, Inv, NEW w \in Workers,
         Cardinality(users) < MaxUsers, users' = Stored(id[w], asked[w])
  PROVE  /\ users \subseteq users' /\ users' \subseteq Users
         /\ IsFiniteSet(users') /\ Cardinality(users') <= MaxUsers
         /\ Document(id[w], asked[w]) \in users'
  <1>1. Document(id[w], asked[w]) \in Users
    BY DEF Inv, TypeOK, Document, Users, Credentials
  <1>2. users' = users \cup {Document(id[w], asked[w])}
    BY DEF Stored, Document
  <1>3. IsFiniteSet(users) /\ Cardinality(users) \in Nat
    BY FS_CardinalityType DEF Inv
  <1>4. /\ IsFiniteSet(users')
        /\ Cardinality(users') <= Cardinality(users) + 1
    BY <1>2, <1>3, FS_AddElement
  <1>5. Cardinality(users') \in Nat
    BY <1>4, FS_CardinalityType
  <1>6. Cardinality(users') <= MaxUsers
    BY <1>3, <1>4, <1>5 DEF AccountsAssumption
  <1> QED BY <1>1, <1>2, <1>4, <1>6 DEF Inv, TypeOK

-----------------------------------------------------------------------------
(* Registration.                                                           *)

\* Each step of a registration.
LEMMA RegistrationKeeps ==
  ASSUME AccountsAssumption, Inv, NEW w \in Workers, Registration(w)
  PROVE  Inv'
  <1>0. 0 \in Times /\ now \in Times /\ id[w] \in Times
    BY DEF AccountsAssumption, Inv, TypeOK, Times
  <1>1. CASE CreateRefused(w)
    BY <1>0, <1>1, OneEnds DEF CreateRefused
  <1>2. CASE \E c \in Credentials : BeginCreate(w, c)
    BY <1>0, <1>2, OneBegins DEF BeginCreate
  <1>3. ASSUME NEW code \in {"201", "500"}, NEW i \in Times, Answer(w, code, i),
               UNCHANGED <<now, asked, tokens>>, code = "201" => i = id[w],
               Cardinality(users) < MaxUsers, users' = Stored(id[w], asked[w])
        PROVE  Inv'
    <2>1. asked[w] \in Credentials /\ asked' = [asked EXCEPT ![w] = asked[w]]
      BY <1>3 DEF Inv, TypeOK
    <2>2. [code |-> code, id |-> i] \in Replies /\ 0 \in 0 .. MaxTime + Life
      BY <1>3 DEF Replies, AccountsAssumption
    <2>3. "idle" \in States
      BY DEF States
    <2> QED BY <1>0, <1>3, <2>1, <2>2, <2>3, StoredKeeps, OneMoves DEF Answer, Inv, TypeOK
  <1>4. CASE InsertOne(w)
    <2>1. CASE Answer(w, "409", 0) /\ UNCHANGED users
      BY <1>0, <1>4, <2>1, OneEnds DEF InsertOne
    <2>2. CASE /\ Answer(w, "201", id[w]) /\ Cardinality(users) < MaxUsers
               /\ users' = Stored(id[w], asked[w])
      BY <1>0, <1>3, <1>4, <2>2 DEF InsertOne
    <2> QED BY <1>4, <2>1, <2>2 DEF InsertOne
  <1>5. CASE InsertRaises(w)
    <2>1. CASE UNCHANGED users
      BY <1>0, <1>5, <2>1, OneEnds DEF InsertRaises
    <2>2. CASE Cardinality(users) < MaxUsers /\ users' = Stored(id[w], asked[w])
      BY <1>0, <1>3, <1>5, <2>2 DEF InsertRaises
    <2> QED BY <1>5, <2>1, <2>2 DEF InsertRaises
  <1> QED BY <1>1, <1>2, <1>4, <1>5 DEF Registration

-----------------------------------------------------------------------------
(* Login and lookup.                                                       *)

\* Each step of a login, and a lookup.
LEMMA SessionKeeps ==
  ASSUME AccountsAssumption, Inv, NEW w \in Workers, Session(w)
  PROVE  Inv'
  <1>0. /\ 0 \in Times /\ now \in Times /\ id[w] \in Times /\ id = [id EXCEPT ![w] = id[w]]
        /\ asked[w] \in Credentials /\ asked = [asked EXCEPT ![w] = asked[w]]
        /\ exp[w] \in 0 .. MaxTime + Life /\ exp = [exp EXCEPT ![w] = exp[w]]
        /\ reply[w] \in Replies /\ reply = [reply EXCEPT ![w] = reply[w]]
    BY DEF AccountsAssumption, Inv, TypeOK, Times, Replies
  <1>1. CASE LoginRefused(w)
    BY <1>0, <1>1, OneEnds DEF LoginRefused
  <1>2. CASE \E c \in Credentials : BeginLogin(w, c)
    BY <1>0, <1>2, OneBegins DEF BeginLogin
  <1>3. CASE AuthenticateUser(w)
    <2>1. CASE Answer(w, "401", 0)
      BY <1>0, <1>3, <2>1, OneEnds DEF AuthenticateUser
    <2>2. CASE \E u \in GetUserByLogin(asked[w].login) :
                 /\ u.password = asked[w].password
                 /\ pc' = [pc EXCEPT ![w] = "sign"]
                 /\ id' = [id EXCEPT ![w] = u.id]
                 /\ UNCHANGED <<exp, reply>>
      <3>1. PICK u \in GetUserByLogin(asked[w].login) :
                 /\ u.password = asked[w].password
                 /\ pc' = [pc EXCEPT ![w] = "sign"]
                 /\ id' = [id EXCEPT ![w] = u.id]
                 /\ UNCHANGED <<exp, reply>>
        BY <2>2
      <3>2. u \in users /\ u \in Users /\ u.login = asked[w].login
        BY DEF GetUserByLogin, Named, Inv, TypeOK
      <3>3. u = Document(u.id, asked[w]) /\ u.id \in Times
        BY <3>1, <3>2 DEF Document, Users
      <3>4. exp' = [exp EXCEPT ![w] = exp[w]] /\ Document(u.id, asked[w]) \in users
        BY <1>0, <3>1, <3>2, <3>3
      <3>5. UNCHANGED <<now, users, asked, reply, tokens>>
        BY <1>3, <3>1 DEF AuthenticateUser
      <3> QED BY <1>0, <3>1, <3>3, <3>4, <3>5, OneGoesOn
    <2> QED BY <1>3, <2>1, <2>2 DEF AuthenticateUser
  <1>4. CASE FindRaises(w)
    BY <1>0, <1>4, OneEnds DEF FindRaises
  <1>5. CASE GenerateToken(w)
    <2>1. /\ pc[w] = "sign" /\ pc' = [pc EXCEPT ![w] = "answer"]
          /\ exp' = [exp EXCEPT ![w] = now + Life]
          /\ UNCHANGED <<now, users, asked, id, reply, tokens>>
      BY <1>5 DEF GenerateToken
    <2>2. now + Life \in 0 .. MaxTime + Life
      BY <1>0 DEF Times, AccountsAssumption
    <2>3. Document(id[w], asked[w]) \in users
      BY <2>1 DEF Inv, Underway
    <2>4. id' = [id EXCEPT ![w] = id[w]] /\ now + Life <= now + Life
      BY <1>0, <2>1, <2>2
    <2> QED BY <1>0, <2>1, <2>2, <2>3, <2>4, OneGoesOn
  <1>6. CASE AnswerLogin(w)
    <2> DEFINE t == [user_id |-> id[w], exp |-> exp[w], expires_at |-> now + Life,
                     for |-> asked[w]]
    <2>1. /\ pc[w] = "answer" /\ tokens' = tokens \cup {t}
          /\ Cardinality(tokens') <= MaxTokens
          /\ Answer(w, "200", id[w]) /\ UNCHANGED <<now, users, asked>>
      BY <1>6 DEF AnswerLogin
    <2>2. now + Life \in 0 .. MaxTime + Life /\ 0 \in 0 .. MaxTime + Life
      BY <1>0 DEF Times, AccountsAssumption
    <2>3. t \in Tokens
      BY <1>0, <2>2 DEF Tokens
    <2>4. Backed(t)
      BY <2>1 DEF Inv, Underway, Backed
    <2>5. /\ [code |-> "200", id |-> id[w]] \in Replies
          /\ "idle" \in States
      BY <1>0 DEF Replies, States
    <2>6. tokens' \subseteq Tokens /\ \A x \in tokens' \ tokens : Backed(x)
      BY <2>1, <2>3, <2>4 DEF Inv, TypeOK
    <2> HIDE DEF t
    <2> QED BY <1>0, <2>1, <2>2, <2>5, <2>6, OneMoves DEF Answer, Inv, TypeOK
  <1>7. CASE \E l \in Logins : GetUser(w, l)
    <2>1. PICK l \in Logins : GetUser(w, l)
      BY <1>7
    <2>2. \A u \in GetUserByLogin(l) : u.id \in Times
      BY DEF GetUserByLogin, Named, Inv, TypeOK, Users
    <2> QED BY <1>0, <2>1, <2>2, OneEnds DEF GetUser
  <1> QED BY <1>1, <1>2, <1>3, <1>4, <1>5, <1>6, <1>7 DEF Session

-----------------------------------------------------------------------------
(* The invariant.                                                          *)

\* Nobody is registered at first.
LEMMA InitInv == ASSUME AccountsAssumption, Init PROVE Inv
  <1>1. Cardinality(users) = 0 /\ Cardinality(tokens) = 0 /\ IsFiniteSet(users)
    BY FS_EmptySet DEF Init
  <1>2. TypeOK
    BY <1>1 DEF AccountsAssumption, Init, TypeOK, Times, NoReply
  <1>3. (\A w \in Workers : Underway(w)) /\ \A t \in tokens : Backed(t)
    BY DEF Init, Underway, NoReply
  <1> QED BY <1>1, <1>2, <1>3 DEF Inv

\* Every step keeps Inv; the clock only brings expiries nearer.
LEMMA StepInv == ASSUME AccountsAssumption, Inv, [Next]_accountVars PROVE Inv'
  <1>1. CASE \E w \in Workers : Registration(w) \/ Session(w)
    BY <1>1, RegistrationKeeps, SessionKeeps
  <1>2. CASE Tick
    <2>1. TypeOK'
      BY <1>2 DEF AccountsAssumption, Inv, TypeOK, Tick, Times
    <2>2. ASSUME NEW w \in Workers PROVE Underway(w)'
      <3>1. Underway(w) /\ exp[w] \in Nat /\ now \in Nat /\ Life \in Nat /\ now' = now + 1
        BY <1>2 DEF AccountsAssumption, Inv, TypeOK, Tick, Times
      <3>2. UNCHANGED <<users, pc, asked, id, exp, reply>>
        BY <1>2 DEF Tick
      <3>3. pc[w] = "answer" => exp[w] <= now' + Life
        BY <3>1 DEF Underway
      <3> QED BY <3>1, <3>2, <3>3 DEF Underway, Document
    <2>3. \A t \in tokens' : Backed(t)'
      BY <1>2 DEF Inv, Tick, Backed, Document
    <2> QED BY <1>2, <2>1, <2>2, <2>3 DEF Inv, Tick
  <1>3. CASE ServiceCrash
    <2>1. TypeOK'
      BY <1>3 DEF AccountsAssumption, Inv, TypeOK, ServiceCrash, Times, NoReply
    <2>2. \A w \in Workers : Underway(w)'
      BY <1>3 DEF ServiceCrash, Underway, NoReply
    <2>3. \A t \in tokens' : Backed(t)'
      BY <1>3 DEF Inv, ServiceCrash, Backed, Document
    <2> QED BY <1>3, <2>1, <2>2, <2>3 DEF Inv, ServiceCrash
  <1>4. CASE UNCHANGED accountVars
    BY <1>4 DEF accountVars, Inv, TypeOK, Underway, Backed, Document
  <1> QED BY <1>1, <1>2, <1>3, <1>4 DEF Next

\* Inv holds for good.
LEMMA Invariance == Spec => []Inv
  <1>1. Init => Inv
    BY InitInv, AccountsAssumption
  <1>2. Inv /\ [Next]_accountVars => Inv'
    BY StepInv, AccountsAssumption
  <1> QED BY <1>1, <1>2, PTL DEF Spec

-----------------------------------------------------------------------------
(* The results.                                                            *)

\* Every variable keeps its type (common/models.hpp, mongo_db.cpp).
THEOREM TypeCorrect == Spec => []TypeOK
  <1>1. Inv => TypeOK
    BY DEF Inv
  <1> QED BY <1>1, Invariance, PTL

\* A registration that is answered 201 has its own document, whoever else read
\* the same microsecond (mongo_db.cpp:28-49).
THEOREM CreatedOwnAccount == Spec => []CreatedIsOwn
  <1>1. ASSUME Inv PROVE CreatedIsOwn
    <2>1. ASSUME NEW w \in Workers, reply[w].code = "201"
          PROVE  \E u \in users : u.id = reply[w].id /\ u.login = asked[w].login
                                                     /\ u.password = asked[w].password
      <3>1. Document(reply[w].id, asked[w]) \in users
        BY <1>1, <2>1 DEF Inv, Underway
      <3> QED BY <3>1 DEF Document
    <2> QED BY <2>1 DEF CreatedIsOwn
  <1> QED BY <1>1, Invariance, PTL

\* A request that passes CheckAuth acts for a user whose password was given, and
\* in time (login_user_handler.cpp:58-69, jwt_auth_checker.cpp:33-44).
THEOREM AcceptedHasBacking == Spec => []AcceptedIsBacked
  <1>1. ASSUME Inv PROVE AcceptedIsBacked
    <2>1. ASSUME NEW t \in tokens, CheckAuth(t).status = "ok"
          PROVE  /\ now <= t.expires_at
                 /\ [id |-> CheckAuth(t).user_id, login |-> t.for.login,
                     password |-> t.for.password] \in users
      <3>1. ~(now > t.exp) /\ CheckAuth(t).user_id = t.user_id
        BY <2>1 DEF CheckAuth
      <3>2. t.exp <= t.expires_at /\ Document(t.user_id, t.for) \in users
        BY <1>1, <2>1 DEF Inv, Backed
      <3>3. t.exp \in Nat /\ t.expires_at \in Nat /\ now \in Nat
        BY <1>1, <2>1 DEF Inv, TypeOK, Tokens, Times, AccountsAssumption
      <3> QED BY <3>1, <3>2, <3>3 DEF Document
    <2> QED BY <2>1 DEF AcceptedIsBacked
  <1> QED BY <1>1, Invariance, PTL

-----------------------------------------------------------------------------
(* Accounts and parcels together.                                          *)

\* Ids of users for whose credentials a token was given.
Vouched ==
  {i \in Times : \E u \in users, t \in tokens :
     /\ u.id = i /\ t.user_id = u.id
     /\ t.for = [login |-> u.login, password |-> u.password]}

\* No request that waits for a document has been refused already.
WaitsUnanswered == \A w \in Workers : pc[w] = "find" => reply[w] = NoReply

\* Who sends a row, and who sent one, is vouched for.
ParcelsVouched ==
  /\ SystemTypeOK
  /\ \A c \in Clients : sender[c] \subseteq Vouched
  /\ \A n \in DOMAIN parcels : parcels[n] \in Vouched

SystemInv == Inv /\ WaitsUnanswered /\ ParcelsVouched

\* A token stands for a user: what CheckAuth reads from it is vouched for.
LEMMA TokensVouch ==
  ASSUME Inv, NEW t \in tokens
  PROVE  t.user_id \in Vouched
  <1>1. t.user_id \in Times /\ t.for \in Credentials
    BY DEF Inv, TypeOK, Tokens
  <1>2. Document(t.user_id, t.for) \in users
    BY DEF Inv, Backed
  <1>3. t.for = [login |-> t.for.login, password |-> t.for.password]
    BY <1>1 DEF Credentials
  <1>4. /\ Document(t.user_id, t.for).id = t.user_id
        /\ Document(t.user_id, t.for).login = t.for.login
        /\ Document(t.user_id, t.for).password = t.for.password
    BY DEF Document
  <1> QED BY <1>1, <1>2, <1>3, <1>4 DEF Vouched

\* Search answers like any other read.
LEMMA SearchKeeps ==
  ASSUME Inv, NEW w \in Workers, SearchUsers(w)
  PROVE  Inv'
  <1>1. UNCHANGED <<now, users, asked, tokens>>
    BY DEF SearchUsers
  <1>2. PICK code \in {"200", "400", "500"}, i \in Times : Answer(w, code, i)
    <2>1. 0 \in Times
      BY AccountsAssumption DEF Times
    <2>2. \A u \in users : u.id \in Times
      BY DEF Inv, TypeOK, Users
    <2> QED BY <2>1, <2>2 DEF SearchUsers, SearchUsersByQuery
  <1> QED BY <1>1, <1>2, OneEnds, AccountsAssumption

\* Neither users nor tokens are ever lost, whatever either service does.
LEMMA NothingIsForgotten ==
  ASSUME [SystemNext]_systemVars
  PROVE  users \subseteq users' /\ tokens \subseteq tokens'
  <1>1. ASSUME NEW c \in Clients, ParcelRequest(c) PROVE UNCHANGED accountVars
    BY <1>1 DEF ParcelRequest, Unauthorized, ParcelRefused, BeginParcel, InsertParcel,
                InsertParcelRaises, ListParcels, ListRaises, ParcelCrash, TellNow
  <1>2. ASSUME NEW w \in Workers, Registration(w) PROVE users \subseteq users' /\ tokens' = tokens
    BY <1>2 DEF Registration, CreateRefused, BeginCreate, Accept, InsertOne, InsertRaises, Stored
  <1>3. ASSUME NEW w \in Workers, Session(w) PROVE users' = users /\ tokens \subseteq tokens'
    BY <1>3 DEF Session, LoginRefused, BeginLogin, Accept, AuthenticateUser, FindRaises,
                GenerateToken, AnswerLogin, GetUser
  <1>4. CASE Tick \/ ServiceCrash \/ \E w \in Workers : SearchUsers(w)
    BY <1>4 DEF Tick, ServiceCrash, SearchUsers
  <1> QED BY <1>1, <1>2, <1>3, <1>4 DEF SystemNext, Next, systemVars, accountVars

\* Who is vouched for stays vouched for.
LEMMA VouchedForGood ==
  ASSUME users \subseteq users', tokens \subseteq tokens'
  PROVE  Vouched \subseteq Vouched'
  BY DEF Vouched

\* The requests of parcel-service: whom CheckAuth named is who sends the row,
\* however late the row is inserted (create_parcel_handler.cpp:25-38).
LEMMA ParcelKeeps ==
  ASSUME Inv, ParcelsVouched, NEW c \in Clients, ParcelRequest(c)
  PROVE  ParcelsVouched' /\ UNCHANGED accountVars
  <1>1. UNCHANGED accountVars
    BY DEF ParcelRequest, Unauthorized, ParcelRefused, BeginParcel, InsertParcel,
           InsertParcelRaises, ListParcels, ListRaises, ParcelCrash, TellNow
  <1> SUFFICES ParcelsVouched'
    BY <1>1
  <1>2. Vouched' = Vouched
    BY <1>1 DEF accountVars, Vouched
  <1>3. MaxParcels \in Nat /\ parcels \in Seq(Times) /\ Len(parcels) \in Nat
    BY Lab4Assumption DEF ParcelsVouched, SystemTypeOK
  <1>4. \A u : GetUserParcels(u) \subseteq 1 .. MaxParcels
    BY <1>3 DEF GetUserParcels, ParcelsVouched, SystemTypeOK
  <1>5. ASSUME NEW code \in {"none", "200", "201", "400", "401", "403", "500"},
               NEW ids \in SUBSET (1 .. MaxParcels), Tell(c, code, ids)
        PROVE  told' \in [Clients -> [code : {"none", "200", "201", "400", "401", "403", "500"},
                                      ids : SUBSET (1 .. MaxParcels)]]
    BY <1>5 DEF Tell, ParcelsVouched, SystemTypeOK
  <1>6. ASSUME NEW code \in {"none", "200", "201", "400", "401", "403", "500"},
               NEW ids \in SUBSET (1 .. MaxParcels), TellNow(c, code, ids)
        PROVE  ParcelsVouched'
    <2>1. UNCHANGED <<parcels, sender>> /\ Tell(c, code, ids)
      BY <1>6 DEF TellNow
    <2> QED BY <1>2, <1>5, <2>1 DEF ParcelsVouched, SystemTypeOK
  <1>7. ASSUME InsertRow(c)
        PROVE  /\ parcels' \in Seq(Times) /\ Len(parcels') <= MaxParcels
               /\ Len(parcels) + 1 \in 1 .. MaxParcels
               /\ \A n \in DOMAIN parcels' : parcels'[n] \in Vouched
    <2>1. PICK u \in sender[c] : parcels' = Append(parcels, u)
      BY <1>7 DEF InsertRow
    <2>2. u \in Times /\ u \in Vouched
      BY <2>1 DEF ParcelsVouched, SystemTypeOK
    <2>3. /\ parcels' \in Seq(Times) /\ Len(parcels') = Len(parcels) + 1
          /\ \A n \in 1 .. Len(parcels) : parcels'[n] = parcels[n]
          /\ parcels'[Len(parcels) + 1] = u
          /\ DOMAIN parcels = 1 .. Len(parcels) /\ DOMAIN parcels' = 1 .. Len(parcels')
      BY <1>3, <2>1, <2>2
    <2>4. ASSUME NEW n \in DOMAIN parcels' PROVE parcels'[n] \in Vouched
      <3>1. n \in DOMAIN parcels \/ n = Len(parcels) + 1
        BY <1>3, <2>3
      <3> QED BY <2>2, <2>3, <3>1 DEF ParcelsVouched
    <2>5. Len(parcels) < MaxParcels
      BY <1>7 DEF InsertRow
    <2> QED BY <1>3, <2>3, <2>4, <2>5
  <1>8. ASSUME NEW code \in {"201", "500"}, NEW ids \in SUBSET {Len(parcels) + 1},
               InsertRow(c), sender' = [sender EXCEPT ![c] = {}], Tell(c, code, ids)
        PROVE  ParcelsVouched'
    <2>1. ids \in SUBSET (1 .. MaxParcels)
      BY <1>7, <1>8
    <2>2. /\ sender' \in [Clients -> SUBSET Times]
          /\ \A d \in Clients : sender'[d] \subseteq Vouched
      BY <1>8 DEF ParcelsVouched, SystemTypeOK
    <2>3. told' \in [Clients -> [code : {"none", "200", "201", "400", "401", "403", "500"},
                                 ids : SUBSET (1 .. MaxParcels)]]
      BY <1>5, <1>8, <2>1
    <2> QED BY <1>2, <1>7, <1>8, <2>2, <2>3 DEF ParcelsVouched, SystemTypeOK
  <1>9. CASE Unauthorized(c) \/ ParcelRefused(c) \/ ListRaises(c)
    BY <1>6, <1>9 DEF Unauthorized, ParcelRefused, ListRaises
  <1>10. CASE ListParcels(c)
    BY <1>4, <1>6, <1>10 DEF ListParcels
  <1>11. CASE BeginParcel(c)
    <2>1. PICK t \in Accepted : /\ sender' = [sender EXCEPT ![c] = {CheckAuth(t).user_id}]
                                /\ Tell(c, "none", {}) /\ UNCHANGED parcels
      BY <1>11 DEF BeginParcel
    <2>2. t \in tokens /\ CheckAuth(t).user_id = t.user_id
      BY <2>1 DEF Accepted, CheckAuth
    <2>3. t.user_id \in Vouched /\ Vouched \subseteq Times
      BY <2>2, TokensVouch DEF Vouched
    <2>4. /\ sender' \in [Clients -> SUBSET Times]
          /\ \A d \in Clients : sender'[d] \subseteq Vouched
      BY <2>1, <2>2, <2>3 DEF ParcelsVouched, SystemTypeOK
    <2> QED BY <1>2, <1>5, <2>1, <2>4 DEF ParcelsVouched, SystemTypeOK
  <1>12. CASE InsertParcel(c)
    BY <1>8, <1>12 DEF InsertParcel
  <1>13. CASE InsertParcelRaises(c)
    <2>1. CASE InsertRow(c)
      BY <1>8, <1>13, <2>1 DEF InsertParcelRaises
    <2>2. CASE UNCHANGED parcels
      <3>1. sender' = [sender EXCEPT ![c] = {}] /\ Tell(c, "500", {})
        BY <1>13 DEF InsertParcelRaises
      <3>2. /\ sender' \in [Clients -> SUBSET Times]
            /\ \A d \in Clients : sender'[d] \subseteq Vouched
        BY <3>1 DEF ParcelsVouched, SystemTypeOK
      <3> QED BY <1>2, <1>5, <2>2, <3>1, <3>2 DEF ParcelsVouched, SystemTypeOK
    <2> QED BY <1>13, <2>1, <2>2 DEF InsertParcelRaises
  <1>14. CASE ParcelCrash(c)
    <2>1. /\ sender' \in [Clients -> SUBSET Times] /\ \A d \in Clients : sender'[d] = {}
          /\ told' \in [Clients -> [code : {"none", "200", "201", "400", "401", "403", "500"},
                                    ids : SUBSET (1 .. MaxParcels)]]
      BY <1>14 DEF ParcelCrash
    <2>2. /\ parcels' \in Seq(Times) /\ Len(parcels') <= MaxParcels
          /\ \A n \in DOMAIN parcels' : parcels'[n] \in Vouched
      BY <1>7, <1>14 DEF ParcelCrash, ParcelsVouched, SystemTypeOK
    <2> QED BY <1>2, <2>1, <2>2 DEF ParcelsVouched, SystemTypeOK
  <1> QED BY <1>1, <1>9, <1>10, <1>11, <1>12, <1>13, <1>14 DEF ParcelRequest

-----------------------------------------------------------------------------
\* A right password that was refused: found, and not by itself.
Doubled(w) ==
  /\ pc[w] = "find" /\ reply'[w].code = "401"
  /\ \E u \in Named(asked[w].login) : u.password = asked[w].password
  => Cardinality(Named(asked[w].login)) > 1

\* Two documents with different passwords are two.
LEMMA TwoDocuments ==
  ASSUME NEW S, IsFiniteSet(S), NEW u \in S, NEW v \in S, u # v
  PROVE  Cardinality(S) > 1
  <1>1. /\ IsFiniteSet(S \ {u}) /\ Cardinality(S \ {u}) = Cardinality(S) - 1
        /\ Cardinality(S) \in Nat /\ Cardinality(S \ {u}) \in Nat
    BY FS_RemoveElement, FS_CardinalityType
  <1>2. Cardinality(S \ {u}) # 0
    BY <1>1, FS_EmptySet
  <1> QED BY <1>1, <1>2

\* A request of user-service and the requests that wait for a document: one
\* that begins to wait has no answer, and 401 is given only after a look at a
\* document with another password (mongo_db.cpp:63-77, 120-124).
LEMMA WaitsStep ==
  ASSUME Inv, WaitsUnanswered, NEW v \in Workers,
         Registration(v) \/ Session(v) \/ SearchUsers(v), NEW w \in Workers
  PROVE  (pc'[w] = "find" => reply'[w] = NoReply) /\ Doubled(w)
  <1>1. TypeOK /\ (pc[w] = "find" => reply[w] = NoReply)
    BY DEF Inv, WaitsUnanswered
  <1>2. NoReply.code # "401"
    BY DEF NoReply
  <1>3. CASE v # w
    <2>1. pc'[w] = pc[w] /\ reply'[w] = reply[w]
      <3>1. CASE Registration(v)
        BY <1>1, <1>3, <3>1
        DEF Registration, CreateRefused, BeginCreate, Accept, InsertOne, InsertRaises, Answer, TypeOK
      <3>2. CASE Session(v)
        BY <1>1, <1>3, <3>2
        DEF Session, LoginRefused, BeginLogin, Accept, AuthenticateUser, FindRaises,
            GenerateToken, AnswerLogin, GetUser, Answer, TypeOK
      <3>3. CASE SearchUsers(v)
        BY <1>1, <1>3, <3>3 DEF SearchUsers, Answer, TypeOK
      <3> QED BY <3>1, <3>2, <3>3
    <2> QED BY <1>1, <1>2, <2>1 DEF Doubled
  <1>4. CASE v = w /\ AuthenticateUser(w)
    <2> DEFINE found == GetUserByLogin(asked[w].login)
    <2>1. IsFiniteSet(Named(asked[w].login))
      BY FS_Subset DEF Inv, Named
    <2>2. CASE /\ found = {} \/ \E u \in found : u.password # asked[w].password
               /\ Answer(w, "401", 0)
      <3>1. pc'[w] = "idle"
        BY <1>1, <2>2 DEF Answer, TypeOK
      <3>2. ASSUME NEW u \in Named(asked[w].login), u.password = asked[w].password
            PROVE  Cardinality(Named(asked[w].login)) > 1
        <4>1. PICK x \in Named(asked[w].login) : x.password # asked[w].password
          BY <2>2, <3>2 DEF GetUserByLogin
        <4> QED BY <2>1, <3>2, <4>1, TwoDocuments
      <3> QED BY <3>1, <3>2 DEF Doubled
    <2>3. CASE pc' = [pc EXCEPT ![w] = "sign"] /\ UNCHANGED reply /\ pc[w] = "find"
      <3>1. pc'[w] = "sign" /\ reply'[w] = NoReply
        BY <1>1, <2>3 DEF TypeOK
      <3> QED BY <1>2, <3>1 DEF Doubled
    <2> QED BY <1>4, <2>2, <2>3 DEF AuthenticateUser
  <1>5. CASE v = w /\ ~AuthenticateUser(w)
    <2>1. CASE Registration(w)
      <3>1. pc[w] # "find" /\ pc'[w] # "find"
        BY <1>1, <2>1
        DEF Registration, CreateRefused, BeginCreate, Accept, InsertOne, InsertRaises, Answer, TypeOK
      <3> QED BY <3>1 DEF Doubled
    <2>2. CASE \E c \in Credentials : BeginLogin(w, c)
      <3>1. pc[w] # "find" /\ reply'[w] = NoReply
        BY <1>1, <2>2 DEF BeginLogin, Accept, TypeOK
      <3> QED BY <3>1 DEF Doubled
    <2>3. CASE FindRaises(w)
      <3>1. pc'[w] = "idle" /\ reply'[w].code = "500"
        BY <1>1, <2>3 DEF FindRaises, Answer, TypeOK
      <3> QED BY <3>1 DEF Doubled
    <2>4. CASE \/ LoginRefused(w) \/ GenerateToken(w) \/ AnswerLogin(w)
               \/ (\E l \in Logins : GetUser(w, l)) \/ SearchUsers(w)
      <3>1. pc[w] # "find" /\ pc'[w] # "find"
        BY <1>1, <2>4
        DEF LoginRefused, GenerateToken, AnswerLogin, GetUser, SearchUsers, Answer, TypeOK
      <3> QED BY <3>1 DEF Doubled
    <2> QED BY <1>5, <2>1, <2>2, <2>3, <2>4 DEF Session
  <1> QED BY <1>3, <1>4, <1>5

\* Lab4 begins with the invariant, and every step of it keeps the invariant and
\* refuses no password that is right by itself.
LEMMA SystemInitInv == SystemInit => SystemInv
  <1> SUFFICES ASSUME SystemInit PROVE SystemInv
    OBVIOUS
  <1>1. Inv
    BY InitInv, AccountsAssumption DEF SystemInit
  <1>2. WaitsUnanswered
    BY DEF SystemInit, Init, WaitsUnanswered
  <1>3. parcels \in Seq(Times) /\ Len(parcels) = 0 /\ DOMAIN parcels = {}
    BY DEF SystemInit
  <1>4. ParcelsVouched
    BY <1>3, Lab4Assumption DEF SystemInit, ParcelsVouched, SystemTypeOK
  <1> QED BY <1>1, <1>2, <1>4 DEF SystemInv

LEMMA SystemStepInv ==
  ASSUME SystemInv, [SystemNext]_systemVars
  PROVE  SystemInv' /\ ((\A w \in Workers : Doubled(w)) \/ UNCHANGED accountVars)
  <1>1. Inv /\ WaitsUnanswered /\ ParcelsVouched
    BY DEF SystemInv
  <1>2. ASSUME UNCHANGED accountVars, ParcelsVouched' PROVE SystemInv'
    <2>1. Inv'
      BY <1>1, <1>2, StepInv, AccountsAssumption
    <2>2. WaitsUnanswered'
      BY <1>1, <1>2 DEF WaitsUnanswered, accountVars
    <2> QED BY <1>2, <2>1, <2>2 DEF SystemInv
  <1>3. ASSUME NEW c \in Clients, ParcelRequest(c)
        PROVE  SystemInv' /\ UNCHANGED accountVars
    BY <1>1, <1>2, <1>3, ParcelKeeps
  <1>4. UNCHANGED parcelVars => ParcelsVouched'
    <2>1. Vouched \subseteq Vouched'
      BY NothingIsForgotten, VouchedForGood
    <2> QED BY <1>1, <2>1 DEF parcelVars, ParcelsVouched, SystemTypeOK, Times
  <1>5. ASSUME NEW v \in Workers, Registration(v) \/ Session(v) \/ SearchUsers(v),
               UNCHANGED parcelVars
        PROVE  SystemInv' /\ \A w \in Workers : Doubled(w)
    <2>1. Inv'
      <3>1. CASE Registration(v)
        BY <1>1, <3>1, RegistrationKeeps, AccountsAssumption
      <3>2. CASE Session(v)
        BY <1>1, <3>2, SessionKeeps, AccountsAssumption
      <3>3. CASE SearchUsers(v)
        BY <1>1, <3>3, SearchKeeps
      <3> QED BY <1>5, <3>1, <3>2, <3>3
    <2>2. \A w \in Workers : (pc'[w] = "find" => reply'[w] = NoReply) /\ Doubled(w)
      BY <1>1, <1>5, WaitsStep
    <2>3. WaitsUnanswered'
      BY <2>2 DEF WaitsUnanswered, NoReply
    <2> QED BY <1>4, <1>5, <2>1, <2>2, <2>3 DEF SystemInv
  <1>6. CASE (Tick \/ ServiceCrash) /\ UNCHANGED parcelVars
    <2>1. Inv'
      BY <1>1, <1>6, StepInv, AccountsAssumption DEF Next
    <2>2. WaitsUnanswered' /\ \A w \in Workers : Doubled(w)
      <3>1. CASE Tick
        BY <1>1, <3>1 DEF Tick, WaitsUnanswered, Doubled, NoReply
      <3>2. CASE ServiceCrash
        BY <3>2 DEF ServiceCrash, WaitsUnanswered, Doubled, NoReply
      <3> QED BY <1>6, <3>1, <3>2
    <2> QED BY <1>4, <1>6, <2>1, <2>2 DEF SystemInv
  <1>7. CASE UNCHANGED systemVars
    BY <1>2, <1>4, <1>7 DEF systemVars, parcelVars
  <1> QED BY <1>3, <1>5, <1>6, <1>7 DEF SystemNext, Next

LEMMA SystemInvariance == SystemSpec => []SystemInv
  BY SystemInitInv, SystemStepInv, PTL DEF SystemSpec

-----------------------------------------------------------------------------
(* The results about lab4.                                                 *)

\* Every variable of both services keeps its type, and what Accounts promises
\* of registrations and tokens holds in lab4, next to parcels and search.
THEOREM SystemTypeCorrect ==
  SystemSpec => [](SystemTypeOK /\ TypeOK)
  <1>1. SystemInv => SystemTypeOK /\ TypeOK
    BY DEF SystemInv, ParcelsVouched, Inv
  <1> QED BY <1>1, SystemInvariance, PTL

\* Each parcel in Postgres, however its request ended, belongs to a user in
\* MongoDB for whose own login and password a token had been given
\* (create_parcel_handler.cpp:25-38).
THEOREM SendersHaveAccounts == SystemSpec => []SendersAreUsers
  <1>1. SystemInv => SendersAreUsers
    BY DEF SystemInv, ParcelsVouched, Vouched, SendersAreUsers
  <1> QED BY <1>1, SystemInvariance, PTL

\* A right password is refused only if its login was registered twice
\* (mongo_db.cpp:63-77, 120-124).
THEOREM RefusalMeansDoubled == SystemSpec => RefusedOnlyIfDoubled
  <1>1. SystemInv /\ [SystemNext]_systemVars
          => [\A w \in Workers :
                /\ pc[w] = "find" /\ reply'[w].code = "401"
                /\ \E u \in Named(asked[w].login) : u.password = asked[w].password
                => Cardinality(Named(asked[w].login)) > 1]_accountVars
    BY SystemStepInv DEF Doubled
  <1> QED BY <1>1, SystemInvariance, PTL DEF SystemSpec, RefusedOnlyIfDoubled
=============================================================================
