------------------------------ MODULE SqliteStore ------------------------------
(***************************************************************************)
(* Database of lab2_rest_api (common/db.cpp): three services on one SQLite *)
(* file.  The create handler of each kind of row owns one connection that  *)
(* all of its requests share.  CreateX is three calls into SQLite: INSERT, *)
(* last_insert_rowid() of the connection, and a SELECT by that id; between *)
(* two calls another request may use the connection.                       *)
(***************************************************************************)
EXTENDS Naturals, Sequences

CONSTANTS
  Workers, \* requests that can be in progress at once
  Values,  \* what rows hold: the login of a user, the sender of a parcel
  Serves,  \* Serves[w]: the kinds of rows that requests of w create
  MaxRows, \* bound of the model: rows of each kind
  Faults   \* which of "busy", "io", "crash" may happen

Kinds == {"user", "parcel", "delivery"}

ASSUME SqliteAssumption ==
  /\ MaxRows \in Nat
  /\ Serves \in [Workers -> SUBSET Kinds]
  /\ Faults \subseteq {"busy", "io", "crash"}

VARIABLES
  rows,   \* the tables: rows[k][id]
  lastId, \* last_insert_rowid() of the connection of each create handler
  pc,     \* where each request stands
  kind,   \* what it creates
  mine,   \* history: the id of the row it inserted; the code does not keep it
  id,     \* what GetLastInsertId returned
  reply   \* the last answer: its code and the ids of the rows in it

sqliteVars == <<rows, lastId, pc, kind, mine, id, reply>>

-----------------------------------------------------------------------------
(* InitSchema: sqlite3_exec runs the statements in turn and stops at the   *)
(* first that fails; ExecuteSQL's FALSE is dropped.                        *)

CreateTables == <<
  [table |-> "user", keys |-> {},
   columns |-> {"id", "login", "email", "first_name", "last_name", "password_hash",
                "created_at"}],
  [table |-> "parcel", keys |-> {"sender_id"},
   columns |-> {"id", "sender_id", "description", "weight", "created_at"}],
  [table |-> "delivery", keys |-> {"sender_id", "received_id", "parcel_id"},
   columns |-> {"id", "sender_id", "receiver_id", "parcel_id", "status", "cost",
                "created_at"}] >>

\* SQLite refuses a foreign key over a column the table does not have.
Succeeds(i) == CreateTables[i].keys \subseteq CreateTables[i].columns

Tables == {CreateTables[i].table : i \in {j \in DOMAIN CreateTables :
                                            \A h \in 1 .. j : Succeeds(h)}}

\* The columns GetUserParcels selects.
ParcelSelect == {"id", "sender_id", "full_name", "description", "weight", "created_at"}
ParcelSelectWorks ==
  \E i \in DOMAIN CreateTables :
    CreateTables[i].table = "parcel" /\ ParcelSelect \subseteq CreateTables[i].columns

\* UNIQUE of users.login (and email).
Taken(k, v) == k = "user" /\ \E i \in DOMAIN rows[k] : rows[k][i] = v

-----------------------------------------------------------------------------
TypeOK ==
  /\ rows \in [Kinds -> Seq(Values)] /\ \A k \in Kinds : Len(rows[k]) <= MaxRows
  /\ lastId \in [Kinds -> 0 .. MaxRows]
  /\ pc \in [Workers -> {"idle", "lastid", "lookup"}]
  /\ kind \in [Workers -> Kinds]
  /\ mine \in [Workers -> 0 .. MaxRows]
  /\ id \in [Workers -> 0 .. MaxRows]
  /\ reply \in [Workers -> [code : {"none", "200", "201", "400", "401", "403", "404", "409",
                                    "500"},
                            ids : SUBSET (1 .. MaxRows)]]

Answer(w, code, ids) ==
  /\ pc' = [pc EXCEPT ![w] = "idle"]
  /\ reply' = [reply EXCEPT ![w] = [code |-> code, ids |-> ids]]

\* The handlers answer 409 to whatever made CreateX return nullopt.
Conflict(w) ==
  /\ Answer(w, "409", {})
  /\ mine' = [mine EXCEPT ![w] = 0]

-----------------------------------------------------------------------------
\* Mutant of Insert: a statement prepared on another handler's connection.
InsertElsewhere(w, k, v) ==
  /\ pc[w] = "idle" /\ k \in Serves[w]
  /\ k \in Tables /\ ~Taken(k, v)
  /\ Len(rows[k]) < MaxRows
  /\ rows' = [rows EXCEPT ![k] = Append(@, v)]
  /\ lastId' = [lastId EXCEPT !["user"] = Len(rows[k]) + 1]
  /\ mine' = [mine EXCEPT ![w] = Len(rows[k]) + 1]
  /\ kind' = [kind EXCEPT ![w] = k]
  /\ pc' = [pc EXCEPT ![w] = "lastid"]
  /\ reply' = [reply EXCEPT ![w] = [code |-> "none", ids |-> {}]]
  /\ UNCHANGED id

\* Prepare and step of the INSERT.
Insert(w, k, v) ==
  /\ pc[w] = "idle" /\ k \in Serves[w]
  /\ k \in Tables /\ ~Taken(k, v)
  /\ Len(rows[k]) < MaxRows
  /\ rows' = [rows EXCEPT ![k] = Append(@, v)]
  /\ lastId' = [lastId EXCEPT ![k] = Len(rows[k]) + 1]
  /\ mine' = [mine EXCEPT ![w] = Len(rows[k]) + 1]
  /\ kind' = [kind EXCEPT ![w] = k]
  /\ pc' = [pc EXCEPT ![w] = "lastid"]
  /\ reply' = [reply EXCEPT ![w] = [code |-> "none", ids |-> {}]]
  /\ UNCHANGED id

\* No table, a login that is taken, or the file locked for five seconds by
\* another service.
InsertFails(w, k, v) ==
  /\ pc[w] = "idle" /\ k \in Serves[w]
  /\ k \notin Tables \/ Taken(k, v) \/ "busy" \in Faults
  /\ kind' = [kind EXCEPT ![w] = k]
  /\ Conflict(w)
  /\ UNCHANGED <<rows, lastId, id>>

\* Mutant of GetLastInsertId: the id the next row will have.
NextInsertId(w) ==
  /\ pc[w] = "lastid"
  /\ id' = [id EXCEPT ![w] = lastId[kind[w]] + 1]
  /\ pc' = [pc EXCEPT ![w] = "lookup"]
  /\ UNCHANGED <<rows, lastId, kind, mine, reply>>

\* Mutant of GetLastInsertId: one connection for all kinds of rows.
SharedInsertId(w) ==
  /\ pc[w] = "lastid"
  /\ \E k \in Kinds : lastId[k] # 0 /\ id' = [id EXCEPT ![w] = lastId[k]]
  /\ pc' = [pc EXCEPT ![w] = "lookup"]
  /\ UNCHANGED <<rows, lastId, kind, mine, reply>>

\* SELECT last_insert_rowid(): of the connection, whoever inserted last.
GetLastInsertId(w) ==
  /\ pc[w] = "lastid"
  /\ id' = [id EXCEPT ![w] = lastId[kind[w]]]
  /\ pc' = [pc EXCEPT ![w] = "lookup"]
  /\ UNCHANGED <<rows, lastId, kind, mine, reply>>

\* GetUserById, GetParcelById, GetDeliveryById.
GetById(w) ==
  /\ pc[w] = "lookup"
  /\ id[w] \in DOMAIN rows[kind[w]]
  /\ Answer(w, "201", {id[w]})
  /\ mine' = [mine EXCEPT ![w] = 0]
  /\ id' = [id EXCEPT ![w] = 0]
  /\ UNCHANGED <<rows, lastId, kind>>

\* A statement cannot be prepared or stepped: the row stays, the answer is 409.
LookupFails(w) ==
  /\ "io" \in Faults
  /\ pc[w] \in {"lastid", "lookup"}
  /\ Conflict(w)
  /\ id' = [id EXCEPT ![w] = 0]
  /\ UNCHANGED <<rows, lastId, kind>>

CreateUser(w) == \E login \in Values : Insert(w, "user", login) \/ InsertFails(w, "user", login)

\* The sender is the user in the caller's token.
CreateParcel(w) == \E u \in Values : Insert(w, "parcel", u) \/ InsertFails(w, "parcel", u)

CreateDelivery(w) == \E u \in Values : Insert(w, "delivery", u) \/ InsertFails(w, "delivery", u)

-----------------------------------------------------------------------------
(* Requests that only read, each over one SELECT on its own handler's      *)
(* connection: nothing can come between.  A SELECT that cannot be prepared *)
(* finds nothing, and the client is told so.                               *)

ReadOnly(w, code, ids) ==
  /\ pc[w] = "idle"
  /\ Answer(w, code, ids)
  /\ UNCHANGED <<rows, lastId, kind, mine, id>>

\* A missing or empty field or argument is answered 400; a body that cannot be
\* read raises in the handler, which is 500.
Refused(w) == \E code \in {"400", "500"} : ReadOnly(w, code, {})

\* CheckAuth: no token, one that is wrong or late, or one that cannot be read.
Unauthorized(w) == \E code \in {"401", "403"} : ReadOnly(w, code, {})

GetUserByLogin(l) == {i \in DOMAIN rows["user"] : rows["user"][i] = l}

\* What GetUserByLogin may return: the user, or nothing when SQLite fails.
Looked(l) == {GetUserByLogin(l)} \cup (IF "io" \in Faults THEN {{}} ELSE {})

GetUser(w, l) ==
  \E found \in Looked(l) : ReadOnly(w, IF found = {} THEN "404" ELSE "200", found)

\* A password that is right or not, for a login that exists or not.
Login(w, l) ==
  \/ \E found \in Looked(l) : found # {} /\ ReadOnly(w, "200", found)
  \/ ReadOnly(w, "401", {})

\* The names a mask selects are not modelled: any of the users.
SearchUsersByQuery == SUBSET DOMAIN rows["user"]

SearchUsers(w) == \E found \in SearchUsersByQuery : ReadOnly(w, "200", found)

\* The SELECT of GetUserParcels, for the user in the token.
ParcelsOf(u) ==
  IF ParcelSelectWorks THEN {i \in DOMAIN rows["parcel"] : rows["parcel"][i] = u} ELSE {}

GetUserParcels(w, u) == ReadOnly(w, "200", ParcelsOf(u))

\* GetDeliveriesBySender; by receiver it is the same, over another column.
DeliveriesOf(u) ==
  IF "delivery" \in Tables THEN {i \in DOMAIN rows["delivery"] : rows["delivery"][i] = u}
  ELSE {}

GetDeliveries(w, u) == ReadOnly(w, "200", DeliveriesOf(u))

-----------------------------------------------------------------------------
\* The service of kind k dies and opens its connection anew.
Crash(k) ==
  /\ "crash" \in Faults
  /\ lastId' = [lastId EXCEPT ![k] = 0]
  /\ LET dead == {w \in Workers : kind[w] = k} IN
     /\ pc' = [w \in Workers |-> IF w \in dead THEN "idle" ELSE pc[w]]
     /\ mine' = [w \in Workers |-> IF w \in dead THEN 0 ELSE mine[w]]
     /\ id' = [w \in Workers |-> IF w \in dead THEN 0 ELSE id[w]]
     /\ reply' = [w \in Workers |-> IF w \in dead THEN [code |-> "none", ids |-> {}]
                                    ELSE reply[w]]
  /\ UNCHANGED <<rows, kind>>

-----------------------------------------------------------------------------
\* An empty data directory.  The file that lies in lab2's data/ has the same two
\* tables and one user: a state that a CreateUser and a Crash lead to.
Init ==
  /\ rows = [k \in Kinds |-> <<>>]
  /\ lastId = [k \in Kinds |-> 0]
  /\ pc = [w \in Workers |-> "idle"]
  /\ kind = [w \in Workers |-> "user"]
  /\ mine = [w \in Workers |-> 0]
  /\ id = [w \in Workers |-> 0]
  /\ reply = [w \in Workers |-> [code |-> "none", ids |-> {}]]

Request(w) ==
  \/ CreateUser(w) \/ CreateParcel(w) \/ CreateDelivery(w)
  \/ GetLastInsertId(w)
  \/ GetById(w)
  \/ LookupFails(w)
  \/ Refused(w)
  \/ Unauthorized(w)
  \/ \E l \in Values : GetUser(w, l) \/ Login(w, l)
  \/ SearchUsers(w)
  \/ \E u \in Values : GetUserParcels(w, u) \/ GetDeliveries(w, u)

Next == (\E w \in Workers : Request(w)) \/ \E k \in Kinds : Crash(k)

Spec == Init /\ [][Next]_sqliteVars

-----------------------------------------------------------------------------
(* What the store promises.                                                *)

\* However requests interleave on a connection, a create is never answered
\* with a row older than its own, nor with one that is not stored
\* (db.cpp:232-246: INSERT, last_insert_rowid, SELECT).
NeverAnOlderRow ==
  \A w \in Workers :
    /\ pc[w] = "lastid" => mine[w] <= lastId[kind[w]]
    /\ pc[w] = "lookup" => mine[w] <= id[w] /\ id[w] \in DOMAIN rows[kind[w]]

\* The three calls of a create look like one to a client whose request shares
\* its connection with nobody: it is answered with its own row, whatever else
\* fails or crashes.  To the others they look like RowStore's weaker promise.
ToldId(w) == IF reply[w].code = "201" THEN CHOOSE i \in reply[w].ids : TRUE ELSE 0
Alone == {w \in Workers : \A v \in Workers \ {w} : Serves[v] \cap Serves[w] = {}}
Store == INSTANCE RowStore WITH told <- [w \in Workers |-> ToldId(w)]
ImplementsRowStore == Store!Spec

-----------------------------------------------------------------------------
(* What the documents of the repository say, and the code does not do.     *)

\* openapi.yaml:138-143 of lab2: '201' "Parcel created successfully", with the
\* Parcel: it is the one this request created.
CreatedIsReturned ==
  [][\A w \in Workers : pc[w] = "lookup" /\ reply'[w].code = "201"
       => reply'[w].ids = {mine[w]}]_sqliteVars
=============================================================================
