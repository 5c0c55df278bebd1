------------------------- MODULE PostgresStore_proofs -------------------------
(***************************************************************************)
(* What PostgresStore promises holds for every number of requests, logins, *)
(* emails, passwords and rows, and whatever is carried out late.           *)
(***************************************************************************)
EXTENDS PostgresStore, TLAPS

\* A token names an account and carries its login and password.
TokensMatch ==
  \A t \in tokens : \E u \in users :
    u.id = t.user_id /\ u.login = t.login /\ u.password = t.password

\* The sender in a statement comes from a token, on both sides of a timeout.
FromToken(s) ==
  s.op = "create_parcel" => \E t \in tokens : t.user_id = s.sender_id
SendersHoldTokens == \A w \in Workers : FromToken(stmt[w]) /\ FromToken(late[w])

Inv ==
  /\ TypeOK
  /\ IdsAreSerial
  /\ TokensMatch
  /\ SendersHoldTokens
  /\ ParcelsAreBacked

-----------------------------------------------------------------------------
(* What one statement does, on time or late.                               *)

\* A statement of a request is one of the two INSERTs or none.
LEMMA StatementKinds ==
  ASSUME NEW s \in Statements \cup {Nothing}
  PROVE  /\ s.op = "create_user" => s \in CreateUserRequests
         /\ s.op = "create_parcel" => s \in CreateParcelRequests
  BY DEF Statements, Nothing, CreateUserRequests, CreateParcelRequests

\* A registration adds one account, with a number and a login of its own.
LEMMA InsertUserKeeps ==
  ASSUME PostgresAssumption, Inv, UNCHANGED tokens,
         NEW s \in Statements \cup {Nothing}, InsertUser(s)
  PROVE  /\ users' \subseteq Users /\ parcels' = parcels
         /\ serial' \in [users : 0 .. MaxUsers, parcels : 0 .. MaxParcels]
         /\ IdsAreSerial' /\ TokensMatch' /\ ParcelsAreBacked'
         /\ Dir!Next
  <1> DEFINE i == serial.users + 1
             new == [id |-> i, login |-> s.login, email |-> s.email, password |-> s.password]
  <1>1. s \in CreateUserRequests
    BY StatementKinds DEF InsertUser
  <1>2. /\ s.login \in Logins /\ s.email \in Emails /\ s.password \in Passwords
    BY <1>1 DEF CreateUserRequests
  <1>3. i \in 1 .. MaxUsers /\ serial.users \in Nat
    BY DEF PostgresAssumption, Inv, TypeOK, InsertUser
  <1>4. new \in Users
    BY <1>2, <1>3 DEF Users
  <1>5. users' = users \cup {new} /\ parcels' = parcels /\ tokens' = tokens
    BY DEF InsertUser
  <1>6. /\ serial' \in [users : 0 .. MaxUsers, parcels : 0 .. MaxParcels]
        /\ serial'.users = i /\ serial'.parcels = serial.parcels
    BY <1>3 DEF Inv, TypeOK, InsertUser
  <1>7. users' \subseteq Users
    BY <1>4, <1>5 DEF Inv, TypeOK
  <1>8. \A u \in users : u.id # i /\ u.id <= i /\ u.login # s.login /\ u.email # s.email
    BY <1>3 DEF Inv, TypeOK, IdsAreSerial, Users, InsertUser, Taken
  <1>9. IdsAreSerial'
    BY <1>3, <1>5, <1>6, <1>8 DEF Inv, IdsAreSerial
  <1>10. TokensMatch' /\ ParcelsAreBacked'
    BY <1>5 DEF Inv, TokensMatch, ParcelsAreBacked
  <1>11. Dir!Register(i, s.login, s.password)
    <2>1. \A a \in {Account(u) : u \in users} : a.id # i /\ a.login # s.login
      BY <1>8 DEF Account
    <2>2. {Account(u) : u \in users'}
            = {Account(u) : u \in users} \cup {Account(new)}
      BY <1>5
    <2>3. Account(new) = [id |-> i, login |-> s.login, password |-> s.password]
      BY DEF Account
    <2> QED BY <1>5, <2>1, <2>2, <2>3 DEF Dir!Register
  <1> QED BY <1>2, <1>3, <1>5, <1>6, <1>7, <1>9, <1>10, <1>11 DEF Dir!Next

\* A parcel's sender is a user, and holds a token for its own password.
LEMMA InsertParcelKeeps ==
  ASSUME PostgresAssumption, Inv, UNCHANGED tokens,
         NEW s \in Statements \cup {Nothing}, InsertParcel(s), FromToken(s)
  PROVE  /\ users' = users /\ parcels' \subseteq Parcels
         /\ serial' \in [users : 0 .. MaxUsers, parcels : 0 .. MaxParcels]
         /\ IdsAreSerial' /\ TokensMatch' /\ ParcelsAreBacked'
  <1> DEFINE new == [id |-> serial.parcels + 1, sender_id |-> s.sender_id]
  <1>1. s \in CreateParcelRequests
    BY StatementKinds DEF InsertParcel
  <1>2. users' = users /\ parcels' = parcels \cup {new} /\ tokens' = tokens
    BY DEF InsertParcel
  <1>3. /\ serial.parcels \in Nat /\ serial.parcels + 1 \in 1 .. MaxParcels
        /\ serial' \in [users : 0 .. MaxUsers, parcels : 0 .. MaxParcels]
        /\ serial'.parcels = serial.parcels + 1 /\ serial'.users = serial.users
    BY DEF PostgresAssumption, Inv, TypeOK, InsertParcel
  <1>4. new \in Parcels
    BY <1>1, <1>3 DEF CreateParcelRequests, Parcels
  <1>5. \A p \in parcels : p.id <= serial.parcels /\ p.id \in Nat
    BY DEF Inv, TypeOK, IdsAreSerial, Parcels
  <1>6. IdsAreSerial'
    BY <1>2, <1>3, <1>5 DEF Inv, IdsAreSerial
  <1>7. PICK t \in tokens : t.user_id = s.sender_id
    BY DEF FromToken, InsertParcel
  <1>8. PICK u \in users : u.id = t.user_id /\ u.login = t.login /\ u.password = t.password
    BY DEF Inv, TokensMatch
  <1>9. ParcelsAreBacked'
    BY <1>2, <1>7, <1>8 DEF Inv, ParcelsAreBacked
  <1> QED BY <1>2, <1>3, <1>4, <1>6, <1>9 DEF Inv, TypeOK, TokensMatch

\* A refused statement only takes a number.
LEMMA ViolatedKeeps ==
  ASSUME PostgresAssumption, Inv, UNCHANGED tokens, NEW s, Violated(s)
  PROVE  /\ users' = users /\ parcels' = parcels
         /\ serial' \in [users : 0 .. MaxUsers, parcels : 0 .. MaxParcels]
         /\ IdsAreSerial' /\ TokensMatch' /\ ParcelsAreBacked'
  <1>1. users' = users /\ parcels' = parcels /\ tokens' = tokens
    BY DEF Violated
  <1>2. /\ serial' \in [users : 0 .. MaxUsers, parcels : 0 .. MaxParcels]
        /\ serial.users <= serial'.users /\ serial.parcels <= serial'.parcels
        /\ serial.users \in Nat /\ serial.parcels \in Nat
        /\ serial'.users \in Nat /\ serial'.parcels \in Nat
    BY DEF PostgresAssumption, Inv, TypeOK, Violated
  <1>3. \A u \in users : u.id \in Nat
    BY DEF Inv, TypeOK, Users
  <1>4. \A p \in parcels : p.id \in Nat
    BY DEF Inv, TypeOK, Parcels
  <1>5. IdsAreSerial'
    BY <1>1, <1>2, <1>3, <1>4 DEF Inv, IdsAreSerial
  <1> QED BY <1>1, <1>2, <1>5 DEF Inv, TokensMatch, ParcelsAreBacked

-----------------------------------------------------------------------------
(* The invariant, and the step simulation of Directory.                    *)

\* A step that leaves the tables, the sequences and the tokens alone, and puts
\* on the wire only what was there or comes from a token, keeps Inv.
LEMMA OnlyStatementsMove ==
  ASSUME Inv, UNCHANGED <<users, parcels, serial, tokens>>,
         stmt' \in [Workers -> Statements \cup {Nothing}],
         late' \in [Workers -> Statements \cup {Nothing}],
         reply' \in [Workers -> Codes],
         \A w \in Workers : FromToken(stmt'[w]) /\ FromToken(late'[w])
  PROVE  Inv' /\ UNCHANGED <<{Account(u) : u \in users}, tokens>>
  <1>1. TypeOK' /\ IdsAreSerial'
    BY DEF Inv, TypeOK, IdsAreSerial
  <1>2. TokensMatch' /\ SendersHoldTokens' /\ ParcelsAreBacked'
    BY DEF Inv, TokensMatch, SendersHoldTokens, FromToken, ParcelsAreBacked
  <1> QED BY <1>1, <1>2 DEF Inv

\* A read or a refusal writes at most a token for an account.
LEMMA ReadKeeps ==
  ASSUME PostgresAssumption, Inv, NEW w \in Workers, Read(w)
  PROVE  Inv' /\ (Dir!Next \/ UNCHANGED <<{Account(u) : u \in users}, tokens>>)
  <1>1. ASSUME NEW code \in Codes, AnswerNow(w, code), UNCHANGED tokens
        PROVE  Inv' /\ UNCHANGED <<{Account(u) : u \in users}, tokens>>
    <2>1. UNCHANGED <<users, parcels, serial, stmt, late, tokens>>
      <3>1. stmt' = [stmt EXCEPT ![w] = Nothing] /\ stmt[w] = Nothing
        BY <1>1 DEF AnswerNow, Answer
      <3>2. stmt' = stmt
        BY <3>1 DEF Inv, TypeOK
      <3> QED BY <1>1, <3>2 DEF AnswerNow
    <2>2. reply' \in [Workers -> Codes]
      BY <1>1 DEF AnswerNow, Answer, Inv, TypeOK
    <2>3. \A v \in Workers : FromToken(stmt'[v]) /\ FromToken(late'[v])
      BY <2>1 DEF Inv, SendersHoldTokens
    <2> QED BY <2>1, <2>2, <2>3, OnlyStatementsMove DEF Inv, TypeOK
  <1>2. CASE \E l \in Logins, p \in Passwords : Login(w, l, p)
    <2>1. PICK l \in Logins, p \in Passwords : Login(w, l, p)
      BY <1>2
    <2>2. CASE AnswerNow(w, "401") /\ UNCHANGED tokens
      BY <1>1, <2>2 DEF Codes
    <2>3. CASE \E u \in GetUserByLogin(l) :
                 /\ u.password = p
                 /\ tokens' = tokens \cup {GenerateToken(u, p)}
                 /\ AnswerNow(w, "200")
      <3>1. PICK u \in users : /\ u.login = l /\ u.password = p
                               /\ tokens' = tokens \cup {GenerateToken(u, p)}
                               /\ AnswerNow(w, "200")
        BY <2>3 DEF GetUserByLogin
      <3> DEFINE t == GenerateToken(u, p)
      <3>2. t = [user_id |-> u.id, login |-> u.login, password |-> u.password]
        BY <3>1 DEF GenerateToken
      <3>3. u \in Users
        BY DEF Inv, TypeOK
      <3>4. t \in Tokens
        BY <3>2, <3>3 DEF Tokens, Users
      <3>5. UNCHANGED <<users, parcels, serial, late>> /\ tokens' = tokens \cup {t}
        BY <3>1 DEF AnswerNow
      <3>6. stmt' = stmt /\ reply' \in [Workers -> Codes]
        BY <3>1 DEF AnswerNow, Answer, Inv, TypeOK, Codes
      <3>7. TypeOK'
        BY <3>4, <3>5, <3>6 DEF Inv, TypeOK
      <3>8. TokensMatch'
        BY <3>2, <3>5 DEF Inv, TokensMatch
      <3>9. IdsAreSerial' /\ SendersHoldTokens' /\ ParcelsAreBacked'
        BY <3>5, <3>6
        DEF Inv, IdsAreSerial, SendersHoldTokens, FromToken, ParcelsAreBacked
      <3>10. Dir!Grant(Account(u))
        BY <3>2, <3>5 DEF Dir!Grant, Account
      <3> QED BY <3>7, <3>8, <3>9, <3>10 DEF Inv, Dir!Next
    <2> QED BY <2>1, <2>2, <2>3 DEF Login
  <1>3. CASE \E l \in Logins : GetUser(w, l)
    <2>1. PICK l \in Logins : GetUser(w, l)
      BY <1>3
    <2>2. CASE GetUserByLogin(l) = {}
      BY <1>1, <2>1, <2>2 DEF GetUser, Codes
    <2>3. CASE GetUserByLogin(l) # {}
      BY <1>1, <2>1, <2>3 DEF GetUser, Codes
    <2> QED BY <2>2, <2>3
  <1>4. CASE \/ Refused(w) \/ Unauthorized(w) \/ SearchUsers(w) \/ GetDeliveries(w) \/ ReadRaises(w)
              \/ GetUserParcels(w) \/ CreateDelivery(w)
    BY <1>1, <1>4 DEF Refused, Unauthorized, SearchUsers, GetDeliveries, ReadRaises, GetUserParcels,
                      CreateDelivery, Codes
  <1> QED BY <1>2, <1>3, <1>4 DEF Read

\* A write sends a statement, gives one up, or sees one carried out.
LEMMA WriteKeeps ==
  ASSUME PostgresAssumption, Inv, NEW w \in Workers, Write(w)
  PROVE  Inv' /\ (Dir!Next \/ UNCHANGED <<{Account(u) : u \in users}, tokens>>)
  <1> USE DEF Inv
  <1>1. ASSUME NEW s \in Statements, FromToken(s), Send(w, s)
        PROVE  Inv' /\ UNCHANGED <<{Account(u) : u \in users}, tokens>>
    <2>1. /\ stmt' = [stmt EXCEPT ![w] = s] /\ late' = late
          /\ stmt' \in [Workers -> Statements \cup {Nothing}]
          /\ reply' \in [Workers -> Codes]
      BY <1>1 DEF Send, TypeOK, Codes
    <2>2. \A v \in Workers : FromToken(stmt'[v]) /\ FromToken(late'[v])
      BY <1>1, <2>1 DEF SendersHoldTokens, TypeOK
    <2> QED BY <1>1, <2>1, <2>2, OnlyStatementsMove DEF Send, TypeOK
  <1>2. CASE CreateUser(w)
    <2>1. \A s \in CreateUserRequests : s \in Statements /\ FromToken(s)
      BY DEF Statements, CreateUserRequests, FromToken
    <2> QED BY <1>1, <1>2, <2>1 DEF CreateUser
  <1>3. CASE CreateParcel(w)
    <2>1. PICK t \in tokens, weight \in {0, 1} :
            Send(w, [op |-> "create_parcel", sender_id |-> t.user_id, weight |-> weight])
      BY <1>3 DEF CreateParcel
    <2> DEFINE s == [op |-> "create_parcel", sender_id |-> t.user_id, weight |-> weight]
    <2>2. s \in Statements
      BY DEF TypeOK, Tokens, Statements, CreateParcelRequests
    <2>3. FromToken(s)
      BY DEF FromToken
    <2> QED BY <1>1, <2>1, <2>2, <2>3
  <1>4. ASSUME stmt' \in {stmt, [stmt EXCEPT ![w] = Nothing]},
               late' \in {late, [late EXCEPT ![w] = Nothing], [late EXCEPT ![w] = stmt[w]]}
        PROVE  /\ stmt' \in [Workers -> Statements \cup {Nothing}]
               /\ late' \in [Workers -> Statements \cup {Nothing}]
               /\ UNCHANGED tokens => \A v \in Workers : FromToken(stmt'[v]) /\ FromToken(late'[v])
    <2>1. FromToken(Nothing)
      BY DEF FromToken, Nothing
    <2>2. \A v \in Workers : stmt'[v] \in {stmt[v], Nothing}
                          /\ late'[v] \in {late[v], stmt[v], Nothing}
      BY <1>4 DEF TypeOK
    <2>3. /\ stmt' \in [Workers -> Statements \cup {Nothing}]
          /\ late' \in [Workers -> Statements \cup {Nothing}]
      BY <1>4 DEF TypeOK
    <2>4. \A v \in Workers : FromToken(stmt'[v]) /\ FromToken(late'[v])
      BY <2>1, <2>2 DEF SendersHoldTokens
    <2> QED BY <2>3, <2>4
  <1>5. CASE TimedOut(w) \/ RequestDies(w)
    <2>1. /\ UNCHANGED <<users, parcels, serial, tokens>>
          /\ stmt' = [stmt EXCEPT ![w] = Nothing]
          /\ late' \in {late, [late EXCEPT ![w] = stmt[w]]}
          /\ reply' \in [Workers -> Codes]
      BY <1>5 DEF TimedOut, RequestDies, Answer, TypeOK, Codes
    <2> QED BY <1>4, <2>1, OnlyStatementsMove
  <1>6. ASSUME NEW s \in Statements \cup {Nothing}, FromToken(s),
               InsertUser(s) \/ InsertParcel(s) \/ Violated(s),
               stmt' \in {stmt, [stmt EXCEPT ![w] = Nothing]},
               late' \in {late, [late EXCEPT ![w] = Nothing]},
               reply' \in [Workers -> Codes], UNCHANGED tokens
        PROVE  Inv' /\ (Dir!Next \/ UNCHANGED <<{Account(u) : u \in users}, tokens>>)
    <2>1. /\ stmt' \in [Workers -> Statements \cup {Nothing}]
          /\ late' \in [Workers -> Statements \cup {Nothing}]
          /\ SendersHoldTokens'
      BY <1>4, <1>6 DEF SendersHoldTokens, FromToken
    <2>2. CASE InsertUser(s)
      <3>1. /\ users' \subseteq Users /\ parcels' = parcels
            /\ serial' \in [users : 0 .. MaxUsers, parcels : 0 .. MaxParcels]
            /\ IdsAreSerial' /\ TokensMatch' /\ ParcelsAreBacked' /\ Dir!Next
        BY <1>6, <2>2, InsertUserKeeps
      <3> QED BY <1>6, <2>1, <3>1 DEF TypeOK
    <2>3. CASE InsertParcel(s)
      <3>1. /\ users' = users /\ parcels' \subseteq Parcels
            /\ serial' \in [users : 0 .. MaxUsers, parcels : 0 .. MaxParcels]
            /\ IdsAreSerial' /\ TokensMatch' /\ ParcelsAreBacked'
        BY <1>6, <2>3, InsertParcelKeeps
      <3> QED BY <1>6, <2>1, <3>1 DEF TypeOK
    <2>4. CASE Violated(s)
      <3>1. /\ users' = users /\ parcels' = parcels
            /\ serial' \in [users : 0 .. MaxUsers, parcels : 0 .. MaxParcels]
            /\ IdsAreSerial' /\ TokensMatch' /\ ParcelsAreBacked'
        BY <1>6, <2>4, ViolatedKeeps
      <3> QED BY <1>6, <2>1, <3>1 DEF TypeOK
    <2> QED BY <1>6, <2>2, <2>3, <2>4
  <1>7. CASE Execute(w)
    <2>1. stmt[w] \in Statements \cup {Nothing} /\ FromToken(stmt[w])
      BY DEF TypeOK, SendersHoldTokens
    <2>2. /\ InsertUser(stmt[w]) \/ InsertParcel(stmt[w]) \/ Violated(stmt[w])
          /\ stmt' = [stmt EXCEPT ![w] = Nothing] /\ UNCHANGED <<late, tokens>>
          /\ reply' \in [Workers -> Codes]
      BY <1>7 DEF Execute, Answer, TypeOK, Codes
    <2> QED BY <1>6, <2>1, <2>2
  <1>8. CASE ExecuteLate(w)
    <2>1. late[w] \in Statements \cup {Nothing} /\ FromToken(late[w])
      BY DEF TypeOK, SendersHoldTokens
    <2>2. /\ InsertUser(late[w]) \/ InsertParcel(late[w]) \/ Violated(late[w])
          /\ late' = [late EXCEPT ![w] = Nothing] /\ UNCHANGED <<stmt, tokens>>
          /\ reply' \in [Workers -> Codes]
      BY <1>8 DEF ExecuteLate, TypeOK
    <2> QED BY <1>6, <2>1, <2>2
  <1> QED BY <1>2, <1>3, <1>5, <1>7, <1>8 DEF Write

\* Nothing is stored, sent or given out at first.
LEMMA InitInv == ASSUME PostgresAssumption, Init PROVE Inv /\ Dir!Init
  <1>1. TypeOK
    BY DEF PostgresAssumption, Init, TypeOK, Codes
  <1>2. IdsAreSerial /\ TokensMatch /\ ParcelsAreBacked
    BY DEF Init, IdsAreSerial, TokensMatch, ParcelsAreBacked
  <1>3. SendersHoldTokens
    BY DEF Init, SendersHoldTokens, FromToken, Nothing
  <1>4. Dir!Init
    BY DEF Init, Dir!Init
  <1> QED BY <1>1, <1>2, <1>3, <1>4 DEF Inv

\* Every step keeps Inv, and is a step of Directory or none.
LEMMA StepInv ==
  ASSUME PostgresAssumption, Inv, [Next]_storeVars
  PROVE  Inv' /\ [Dir!Next]_<<{Account(u) : u \in users}, tokens>>
  <1>1. CASE Next
    BY <1>1, ReadKeeps, WriteKeeps DEF Next
  <1>2. CASE UNCHANGED storeVars
    BY <1>2 DEF storeVars, Inv, TypeOK, IdsAreSerial, TokensMatch, SendersHoldTokens,
                FromToken, ParcelsAreBacked
  <1> QED BY <1>1, <1>2

\* Inv holds for good.
LEMMA Invariance == Spec => []Inv
  <1>1. Init => Inv
    BY InitInv, PostgresAssumption
  <1>2. Inv /\ [Next]_storeVars => Inv'
    BY StepInv, PostgresAssumption
  <1> QED BY <1>1, <1>2, PTL DEF Spec

-----------------------------------------------------------------------------
(* The results.                                                            *)

\* Every variable keeps its type, whatever number of requests there is
\* (common/models.hpp, schema.sql).
THEOREM TypeCorrect == Spec => []TypeOK
  <1>1. Inv => TypeOK
    BY DEF Inv
  <1> QED BY <1>1, Invariance, PTL

\* Each stored parcel has a sender whose own password was given for a token
\* (create_parcel_handler.cpp, login_user_handler.cpp of lab3).
THEOREM ParcelsHaveBacking == Spec => []ParcelsAreBacked
  <1>1. Inv => ParcelsAreBacked
    BY DEF Inv
  <1> QED BY <1>1, Invariance, PTL

\* Users and tokens of lab3 are a Directory, whatever times out and is carried
\* out late (db.cpp and schema.sql of lab3).
THEOREM IsADirectory == Spec => ImplementsDirectory
  <1>1. Init => Dir!Init
    BY InitInv, PostgresAssumption
  <1>2. Inv /\ [Next]_storeVars => [Dir!Next]_<<{Account(u) : u \in users}, tokens>>
    BY StepInv, PostgresAssumption
  <1> QED BY <1>1, <1>2, Invariance, PTL DEF Spec, ImplementsDirectory, Dir!Spec
=============================================================================
