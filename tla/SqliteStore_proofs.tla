-------------------------- MODULE SqliteStore_proofs --------------------------
(***************************************************************************)
(* What SqliteStore promises holds for every number of requests and rows   *)
(* and every way of sharing connections.                                   *)
(***************************************************************************)
EXTENDS SqliteStore, SequenceTheorems, TLAPS

\* What is known of a create that is under way: its row is stored, the ids it
\* reads are not older, and they are its own if it shares its connection.
Underway(w) ==
  /\ pc[w] = "idle" => mine[w] = 0
  /\ pc[w] # "idle" => /\ kind[w] \in Serves[w]
                       /\ mine[w] \in 1 .. Len(rows[kind[w]])
  /\ pc[w] = "lastid" => mine[w] <= lastId[kind[w]]
  /\ pc[w] = "lookup" => mine[w] <= id[w] /\ id[w] <= Len(rows[kind[w]])
  /\ w \in Alone /\ pc[w] = "lastid" => lastId[kind[w]] = mine[w]
  /\ w \in Alone /\ pc[w] = "lookup" => id[w] = mine[w]

LastIsStored == \A k \in Kinds : lastId[k] <= Len(rows[k])

Inv ==
  /\ TypeOK
  /\ LastIsStored
  /\ \A w \in Workers : Underway(w)

told == [w \in Workers |-> ToldId(w)]
StoreVars == <<rows, kind, mine, told>>

-----------------------------------------------------------------------------
(* Steps that end a create, or that are about none.                        *)

\* The workers of W end without naming a row; the others stand where they were.
LEMMA EndKeeps ==
  ASSUME SqliteAssumption, Inv, NEW W \in SUBSET Workers,
         UNCHANGED rows,
         pc' = [w \in Workers |-> IF w \in W THEN "idle" ELSE pc[w]],
         mine' = [w \in Workers |-> IF w \in W THEN 0 ELSE mine[w]],
         id' \in [Workers -> 0 .. MaxRows],
         \A w \in Workers \ W : id'[w] = id[w],
         kind' \in [Workers -> Kinds],
         \A w \in Workers \ W : kind'[w] = kind[w],
         lastId' \in [Kinds -> 0 .. MaxRows],
         \A k \in Kinds :
           \/ lastId'[k] = lastId[k]
           \/ /\ lastId'[k] = 0
              /\ \A w \in Workers \ W : (pc[w] = "idle" \/ kind[w] # k),
         reply' \in [Workers -> [code : {"none", "200", "201", "400", "401", "403", "404",
                                         "409", "500"},
                                 ids : SUBSET (1 .. MaxRows)]],
         \A w \in W : reply'[w].code # "201",
         \A w \in Workers \ W : reply'[w] = reply[w]
  PROVE  Inv' /\ Store!GiveUp(W)
  <1>1. TypeOK'
    BY DEF Inv, TypeOK, SqliteAssumption
  <1>2. LastIsStored'
    <2>1. \A k \in Kinds : Len(rows[k]) \in Nat
      BY LenProperties DEF Inv, TypeOK
    <2>2. ASSUME NEW k \in Kinds PROVE lastId'[k] <= Len(rows'[k])
      <3>1. rows'[k] = rows[k] /\ lastId'[k] \in {lastId[k], 0}
        OBVIOUS
      <3>2. lastId[k] <= Len(rows[k])
        BY DEF Inv, LastIsStored
      <3> QED BY <2>1, <3>1, <3>2
    <2> QED BY <2>2 DEF LastIsStored
  <1>3. ASSUME NEW w \in Workers PROVE Underway(w)'
    <2>1. CASE w \in W
      BY <2>1 DEF Underway
    <2>2. CASE w \notin W
      <3>1. /\ pc'[w] = pc[w] /\ mine'[w] = mine[w] /\ id'[w] = id[w]
            /\ kind'[w] = kind[w] /\ kind[w] \in Kinds /\ rows' = rows
        BY <2>2 DEF Inv, TypeOK
      <3>2. pc[w] # "idle" => lastId'[kind[w]] = lastId[kind[w]]
        BY <2>2, <3>1
      <3>3. Underway(w)
        BY DEF Inv
      <3>4. (w \in Alone)' <=> w \in Alone
        BY DEF Alone
      <3> QED BY <3>1, <3>2, <3>3, <3>4 DEF Underway
    <2> QED BY <2>1, <2>2
  <1>4. told' = [w \in Workers |-> IF w \in W THEN 0 ELSE told[w]]
    <2>1. ASSUME NEW w \in Workers
          PROVE  ToldId(w)' = IF w \in W THEN 0 ELSE ToldId(w)
      <3>1. CASE w \in W
        BY <3>1 DEF ToldId
      <3>2. CASE w \notin W
        <4>1. reply'[w] = reply[w]
          BY <3>2
        <4> QED BY <3>2, <4>1 DEF ToldId
      <3> QED BY <3>1, <3>2
    <2> QED BY <2>1 DEF told
  <1>5. Store!GiveUp(W)
    BY <1>4 DEF Store!GiveUp, told
  <1> QED BY <1>1, <1>2, <1>3, <1>5 DEF Inv

Replies == [code : {"none", "200", "201", "400", "401", "403", "404", "409", "500"},
            ids : SUBSET (1 .. MaxRows)]

\* One request ends without naming a row.
LEMMA OneEnds ==
  ASSUME SqliteAssumption, Inv, NEW w \in Workers, NEW r \in Replies, r.code # "201",
         UNCHANGED <<rows, lastId>>,
         pc' = [pc EXCEPT ![w] = "idle"],
         mine' = [mine EXCEPT ![w] = 0],
         reply' = [reply EXCEPT ![w] = r],
         id' \in {id, [id EXCEPT ![w] = 0]},
         NEW k \in Kinds, kind' \in {kind, [kind EXCEPT ![w] = k]}
  PROVE  Inv' /\ Store!GiveUp({w})
  <1>1. {w} \in SUBSET Workers
    OBVIOUS
  <1>2. /\ pc' = [v \in Workers |-> IF v \in {w} THEN "idle" ELSE pc[v]]
        /\ mine' = [v \in Workers |-> IF v \in {w} THEN 0 ELSE mine[v]]
    BY DEF Inv, TypeOK
  <1>3. /\ id' \in [Workers -> 0 .. MaxRows]
        /\ \A v \in Workers \ {w} : id'[v] = id[v]
    <2>1. id \in [Workers -> 0 .. MaxRows] /\ 0 \in 0 .. MaxRows
      BY DEF Inv, TypeOK, SqliteAssumption
    <2> QED BY <2>1
  <1>4. /\ kind' \in [Workers -> Kinds]
        /\ \A v \in Workers \ {w} : kind'[v] = kind[v]
    BY DEF Inv, TypeOK
  <1>5. lastId' \in [Kinds -> 0 .. MaxRows] /\ \A j \in Kinds : lastId'[j] = lastId[j]
    BY DEF Inv, TypeOK
  <1>6. /\ reply' \in [Workers -> Replies]
        /\ \A v \in Workers \ {w} : reply'[v] = reply[v]
        /\ \A v \in {w} : reply'[v].code # "201"
    BY DEF Inv, TypeOK, Replies
  <1> QED BY <1>1, <1>2, <1>3, <1>4, <1>5, <1>6, EndKeeps DEF Replies

\* A read names rows, but creates none.
LEMMA ReadKeeps ==
  ASSUME SqliteAssumption, Inv, NEW w \in Workers,
         NEW code \in {"200", "400", "401", "403", "404", "500"},
         NEW ids \in SUBSET (1 .. MaxRows), ReadOnly(w, code, ids)
  PROVE  Inv' /\ Store!GiveUp({w})
  <1>1. pc[w] = "idle" /\ mine[w] = 0
    BY DEF ReadOnly, Inv, Underway
  <1>2. mine' = [mine EXCEPT ![w] = 0]
    BY <1>1 DEF ReadOnly, Inv, TypeOK
  <1>3. [code |-> code, ids |-> ids] \in Replies
    BY DEF Replies
  <1>4. kind[w] \in Kinds
    BY DEF Inv, TypeOK
  <1>5. /\ UNCHANGED <<rows, lastId>> /\ pc' = [pc EXCEPT ![w] = "idle"]
        /\ reply' = [reply EXCEPT ![w] = [code |-> code, ids |-> ids]]
        /\ id' = id /\ kind' = kind
    BY DEF ReadOnly, Answer
  <1> QED BY <1>2, <1>3, <1>4, <1>5, OneEnds

\* The ids that reads name are those of rows.
LEMMA ReadsNameRows ==
  ASSUME SqliteAssumption, Inv, NEW k \in Kinds
  PROVE  DOMAIN rows[k] \in SUBSET (1 .. MaxRows)
  <1>1. rows[k] \in Seq(Values) /\ Len(rows[k]) <= MaxRows
    BY DEF Inv, TypeOK
  <1>2. Len(rows[k]) \in Nat /\ DOMAIN rows[k] = 1 .. Len(rows[k])
    BY <1>1, LenProperties
  <1> QED BY <1>1, <1>2 DEF SqliteAssumption

\* Each request that only reads.
LEMMA ReadsKeep ==
  ASSUME SqliteAssumption, Inv, NEW w \in Workers, NEW v,
         Refused(w) \/ Unauthorized(w) \/ GetUser(w, v) \/ Login(w, v) \/ SearchUsers(w)
           \/ GetUserParcels(w, v) \/ GetDeliveries(w, v)
  PROVE  Inv' /\ Store!GiveUp({w})
  <1>1. {"user", "parcel", "delivery"} \subseteq Kinds
    BY DEF Kinds
  <1>2. CASE Refused(w) \/ Unauthorized(w)
    BY <1>2, ReadKeeps DEF Refused, Unauthorized
  <1>3. \A found \in Looked(v) : found \in SUBSET (1 .. MaxRows)
    BY <1>1, ReadsNameRows DEF Looked, GetUserByLogin
  <1>4. CASE GetUser(w, v)
    <2>1. PICK found \in Looked(v) :
            ReadOnly(w, IF found = {} THEN "404" ELSE "200", found)
      BY <1>4 DEF GetUser
    <2> QED BY <1>3, <2>1, ReadKeeps
  <1>5. CASE Login(w, v)
    BY <1>3, <1>5, ReadKeeps DEF Login
  <1>6. CASE SearchUsers(w)
    <2>1. PICK found \in SUBSET DOMAIN rows["user"] : ReadOnly(w, "200", found)
      BY <1>6 DEF SearchUsers, SearchUsersByQuery
    <2>2. found \in SUBSET (1 .. MaxRows)
      BY <1>1, <2>1, ReadsNameRows
    <2> QED BY <2>1, <2>2, ReadKeeps
  <1>7. CASE GetUserParcels(w, v)
    <2>1. ParcelsOf(v) \in SUBSET (1 .. MaxRows)
      BY <1>1, ReadsNameRows DEF ParcelsOf
    <2> QED BY <1>7, <2>1, ReadKeeps DEF GetUserParcels
  <1>8. CASE GetDeliveries(w, v)
    <2>1. DeliveriesOf(v) \in SUBSET (1 .. MaxRows)
      BY <1>1, ReadsNameRows DEF DeliveriesOf
    <2> QED BY <1>8, <2>1, ReadKeeps DEF GetDeliveries
  <1> QED BY <1>2, <1>4, <1>5, <1>6, <1>7, <1>8

\* A create that fails at its INSERT, or after it.
LEMMA FailuresKeep ==
  ASSUME SqliteAssumption, Inv, NEW w \in Workers, NEW k \in Kinds, NEW v \in Values,
         InsertFails(w, k, v) \/ LookupFails(w)
  PROVE  Inv' /\ Store!GiveUp({w})
  <1>1. [code |-> "409", ids |-> {}] \in Replies
    BY DEF Replies
  <1>2. /\ UNCHANGED <<rows, lastId>>
        /\ pc' = [pc EXCEPT ![w] = "idle"] /\ mine' = [mine EXCEPT ![w] = 0]
        /\ reply' = [reply EXCEPT ![w] = [code |-> "409", ids |-> {}]]
        /\ id' \in {id, [id EXCEPT ![w] = 0]}
        /\ kind' \in {kind, [kind EXCEPT ![w] = k]}
    BY DEF InsertFails, LookupFails, Conflict, Answer
  <1> QED BY <1>1, <1>2, OneEnds

\* A crash ends the creates of one kind of row, and its connection's memory.
LEMMA CrashKeeps ==
  ASSUME SqliteAssumption, Inv, NEW k \in Kinds, Crash(k)
  PROVE  Inv' /\ \E W \in SUBSET Workers : Store!GiveUp(W)
  <1> DEFINE W == {w \in Workers : kind[w] = k}
  <1>1. W \in SUBSET Workers /\ UNCHANGED <<rows, kind>>
    BY DEF Crash
  <1>2. /\ pc' = [w \in Workers |-> IF w \in W THEN "idle" ELSE pc[w]]
        /\ mine' = [w \in Workers |-> IF w \in W THEN 0 ELSE mine[w]]
        /\ id' = [w \in Workers |-> IF w \in W THEN 0 ELSE id[w]]
        /\ reply' = [w \in Workers |-> IF w \in W THEN [code |-> "none", ids |-> {}]
                                       ELSE reply[w]]
    BY DEF Crash
  <1>3. /\ id' \in [Workers -> 0 .. MaxRows] /\ kind' \in [Workers -> Kinds]
        /\ \A w \in Workers \ W : id'[w] = id[w] /\ kind'[w] = kind[w]
    BY <1>1, <1>2 DEF Inv, TypeOK, SqliteAssumption
  <1>4. /\ lastId' \in [Kinds -> 0 .. MaxRows]
        /\ \A j \in Kinds : lastId'[j] = lastId[j] \/ (j = k /\ lastId'[j] = 0)
    <2>1. lastId \in [Kinds -> 0 .. MaxRows] /\ 0 \in 0 .. MaxRows
      BY DEF Inv, TypeOK, SqliteAssumption
    <2> QED BY <2>1 DEF Crash
  <1>5. /\ reply' \in [Workers -> Replies]
        /\ \A w \in W : reply'[w].code # "201"
        /\ \A w \in Workers \ W : reply'[w] = reply[w]
    BY <1>2 DEF Inv, TypeOK, Replies
  <1>6. \A j \in Kinds :
          \/ lastId'[j] = lastId[j]
          \/ /\ lastId'[j] = 0
             /\ \A w \in Workers \ W : (pc[w] = "idle" \/ kind[w] # j)
    BY <1>4
  <1>7. mine' = [w \in Workers |-> IF w \in W THEN 0 ELSE mine[w]]
    BY <1>2
  <1> HIDE DEF W
  <1>8. Inv' /\ Store!GiveUp(W)
    BY <1>1, <1>2, <1>3, <1>4, <1>5, <1>6, <1>7, EndKeeps DEF Replies
  <1> QED BY <1>1, <1>8

-----------------------------------------------------------------------------
(* The three calls of a create.                                            *)

\* INSERT: the connection's last id is the new row's.  Another create on the
\* same connection is now further behind, and so not alone.
LEMMA InsertKeeps ==
  ASSUME SqliteAssumption, Inv, NEW w \in Workers, NEW k \in Kinds, NEW v \in Values,
         Insert(w, k, v)
  PROVE  Inv' /\ Store!Store(w, k, v)
  <1> DEFINE n == Len(rows[k])
  <1>1. /\ rows[k] \in Seq(Values) /\ n \in Nat /\ n + 1 \in 0 .. MaxRows
        /\ \A j \in Kinds : rows[j] \in Seq(Values) /\ Len(rows[j]) \in Nat
    BY LenProperties DEF Inv, TypeOK, Insert, SqliteAssumption
  <1>2. /\ rows' = [rows EXCEPT ![k] = Append(rows[k], v)]
        /\ lastId' = [lastId EXCEPT ![k] = n + 1]
        /\ mine' = [mine EXCEPT ![w] = n + 1]
        /\ kind' = [kind EXCEPT ![w] = k]
        /\ pc' = [pc EXCEPT ![w] = "lastid"]
        /\ reply' = [reply EXCEPT ![w] = [code |-> "none", ids |-> {}]]
        /\ id' = id
    BY DEF Insert
  <1>3. Append(rows[k], v) \in Seq(Values) /\ Len(Append(rows[k], v)) = n + 1
    BY <1>1, AppendProperties
  <1>4. /\ rows' \in [Kinds -> Seq(Values)]
        /\ \A j \in Kinds : Len(rows'[j]) = IF j = k THEN n + 1 ELSE Len(rows[j])
    BY <1>2, <1>3 DEF Inv, TypeOK
  <1>5. [code |-> "none", ids |-> {}] \in Replies
    BY DEF Replies
  <1>6. TypeOK'
    <2>1. reply' \in [Workers -> Replies]
      BY <1>2, <1>5 DEF Inv, TypeOK, Replies
    <2>2. /\ lastId' \in [Kinds -> 0 .. MaxRows] /\ mine' \in [Workers -> 0 .. MaxRows]
          /\ kind' \in [Workers -> Kinds]
          /\ pc' \in [Workers -> {"idle", "lastid", "lookup"}]
          /\ id' \in [Workers -> 0 .. MaxRows]
      BY <1>1, <1>2 DEF Inv, TypeOK
    <2>3. \A j \in Kinds : Len(rows'[j]) <= MaxRows
      BY <1>1, <1>4 DEF Inv, TypeOK, SqliteAssumption
    <2> QED BY <1>4, <2>1, <2>2, <2>3 DEF TypeOK, Replies
  <1>7. LastIsStored'
    <2>1. ASSUME NEW j \in Kinds PROVE lastId'[j] <= Len(rows'[j])
      <3>1. CASE j = k
        BY <1>1, <1>2, <1>4, <3>1 DEF Inv, TypeOK
      <3>2. CASE j # k
        BY <1>1, <1>2, <1>4, <3>2 DEF Inv, TypeOK, LastIsStored
      <3> QED BY <3>1, <3>2
    <2> QED BY <2>1 DEF LastIsStored
  <1>8. Underway(w)'
    BY <1>1, <1>2, <1>4 DEF Inv, TypeOK, Underway, Insert
  <1>9. ASSUME NEW u \in Workers, u # w PROVE Underway(u)'
    <2>1. /\ pc'[u] = pc[u] /\ mine'[u] = mine[u] /\ id'[u] = id[u] /\ kind'[u] = kind[u]
          /\ kind[u] \in Kinds /\ mine[u] \in Nat /\ id[u] \in Nat
          /\ lastId[kind[u]] \in Nat
      BY <1>2, <1>9 DEF Inv, TypeOK
    <2>2. Underway(u)
      BY DEF Inv
    <2>3. Len(rows'[kind[u]]) >= Len(rows[kind[u]])
      BY <1>1, <1>4, <2>1
    <2>4. lastId'[kind[u]] = IF kind[u] = k THEN n + 1 ELSE lastId[kind[u]]
      BY <1>2, <2>1 DEF Inv, TypeOK
    <2>5. pc[u] # "idle" /\ kind[u] = k => u \notin Alone
      BY <1>9, <2>2 DEF Underway, Alone, Insert
    <2>6. (u \in Alone)' <=> u \in Alone
      BY DEF Alone
    <2>7. Len(rows'[kind[u]]) \in Nat /\ Len(rows[kind[u]]) \in Nat
      BY <1>1, <1>4, <2>1
    <2> QED BY <1>1, <2>1, <2>2, <2>3, <2>4, <2>5, <2>6, <2>7 DEF Underway
  <1>10. told' = [told EXCEPT ![w] = 0]
    <2>1. ASSUME NEW u \in Workers
          PROVE  ToldId(u)' = IF u = w THEN 0 ELSE ToldId(u)
      <3>1. CASE u = w
        BY <1>2, <3>1 DEF ToldId, Inv, TypeOK
      <3>2. CASE u # w
        <4>1. reply'[u] = reply[u]
          BY <1>2, <3>2 DEF Inv, TypeOK
        <4> QED BY <3>2, <4>1 DEF ToldId
      <3> QED BY <3>1, <3>2
    <2> QED BY <2>1 DEF told
  <1>11. mine[w] = 0
    BY DEF Inv, Underway, Insert
  <1>12. Store!Store(w, k, v)
    BY <1>2, <1>10, <1>11 DEF Store!Store, told
  <1> QED BY <1>6, <1>7, <1>8, <1>9, <1>12 DEF Inv

\* last_insert_rowid(): not older than the request's own row.
LEMMA GetLastInsertIdKeeps ==
  ASSUME SqliteAssumption, Inv, NEW w \in Workers, GetLastInsertId(w)
  PROVE  Inv' /\ UNCHANGED StoreVars
  <1>1. /\ pc[w] = "lastid"
        /\ id' = [id EXCEPT ![w] = lastId[kind[w]]] /\ pc' = [pc EXCEPT ![w] = "lookup"]
        /\ UNCHANGED <<rows, lastId, kind, mine, reply>>
    BY DEF GetLastInsertId
  <1>2. kind[w] \in Kinds /\ lastId[kind[w]] \in 0 .. MaxRows
    BY DEF Inv, TypeOK
  <1>3. TypeOK' /\ LastIsStored'
    BY <1>1, <1>2 DEF Inv, TypeOK, LastIsStored
  <1>4. Underway(w)'
    <2>1. /\ id'[w] = lastId[kind[w]] /\ pc'[w] = "lookup" /\ mine'[w] = mine[w]
          /\ kind'[w] = kind[w] /\ rows' = rows
      BY <1>1 DEF Inv, TypeOK
    <2>2. Underway(w) /\ lastId[kind[w]] <= Len(rows[kind[w]])
      BY <1>2 DEF Inv, LastIsStored
    <2>3. (w \in Alone)' <=> w \in Alone
      BY DEF Alone
    <2> QED BY <1>1, <2>1, <2>2, <2>3 DEF Underway
  <1>5. ASSUME NEW u \in Workers, u # w PROVE Underway(u)'
    <2>1. pc'[u] = pc[u] /\ id'[u] = id[u]
      BY <1>1, <1>5 DEF Inv, TypeOK
    <2>2. (u \in Alone)' <=> u \in Alone
      BY DEF Alone
    <2> QED BY <1>1, <2>1, <2>2 DEF Inv, Underway
  <1>6. UNCHANGED StoreVars
    BY <1>1 DEF StoreVars, told, ToldId
  <1> QED BY <1>3, <1>4, <1>5, <1>6 DEF Inv

\* The SELECT by id: the answer names that row.
LEMMA GetByIdKeeps ==
  ASSUME SqliteAssumption, Inv, NEW w \in Workers, GetById(w)
  PROVE  Inv' /\ Store!Tell(w)
  <1>1. /\ pc[w] = "lookup" /\ UNCHANGED <<rows, lastId, kind>>
        /\ pc' = [pc EXCEPT ![w] = "idle"] /\ mine' = [mine EXCEPT ![w] = 0]
        /\ reply' = [reply EXCEPT ![w] = [code |-> "201", ids |-> {id[w]}]]
        /\ id' = [id EXCEPT ![w] = 0]
    BY DEF GetById, Answer
  <1>2. /\ Underway(w) /\ kind[w] \in Kinds /\ id[w] \in 0 .. MaxRows /\ 0 \in 0 .. MaxRows
        /\ Len(rows[kind[w]]) \in Nat
    BY LenProperties DEF Inv, TypeOK, SqliteAssumption
  <1>3. mine[w] \in 1 .. Len(rows[kind[w]]) /\ id[w] \in mine[w] .. Len(rows[kind[w]])
    BY <1>1, <1>2 DEF Underway
  <1>4. [code |-> "201", ids |-> {id[w]}] \in Replies
    BY <1>2, <1>3 DEF Replies
  <1>5. TypeOK'
    <2>1. reply' \in [Workers -> Replies]
      BY <1>1, <1>4 DEF Inv, TypeOK, Replies
    <2>2. /\ mine' \in [Workers -> 0 .. MaxRows] /\ id' \in [Workers -> 0 .. MaxRows]
          /\ pc' \in [Workers -> {"idle", "lastid", "lookup"}]
      BY <1>1, <1>2 DEF Inv, TypeOK
    <2> QED BY <1>1, <2>1, <2>2 DEF Inv, TypeOK, Replies
  <1>6. LastIsStored'
    BY <1>1 DEF Inv, LastIsStored
  <1>7. ASSUME NEW u \in Workers PROVE Underway(u)'
    <2>1. CASE u = w
      BY <1>1, <2>1 DEF Inv, TypeOK, Underway
    <2>2. CASE u # w
      <3>1. pc'[u] = pc[u] /\ id'[u] = id[u] /\ mine'[u] = mine[u]
        BY <1>1, <2>2 DEF Inv, TypeOK
      <3>2. (u \in Alone)' <=> u \in Alone
        BY DEF Alone
      <3> QED BY <1>1, <3>1, <3>2 DEF Inv, Underway
    <2> QED BY <2>1, <2>2
  <1>8. told' = [told EXCEPT ![w] = id[w]]
    <2>1. ASSUME NEW u \in Workers
          PROVE  ToldId(u)' = IF u = w THEN id[w] ELSE ToldId(u)
      <3>1. CASE u = w
        <4>1. reply'[u].code = "201" /\ reply'[u].ids = {id[w]}
          BY <1>1, <3>1 DEF Inv, TypeOK
        <4>2. (CHOOSE i \in {id[w]} : TRUE) = id[w]
          OBVIOUS
        <4> QED BY <3>1, <4>1, <4>2 DEF ToldId
      <3>2. CASE u # w
        <4>1. reply'[u] = reply[u]
          BY <1>1, <3>2 DEF Inv, TypeOK
        <4> QED BY <3>2, <4>1 DEF ToldId
      <3> QED BY <3>1, <3>2
    <2> QED BY <2>1 DEF told
  <1>9. id[w] \in IF w \in Alone THEN {mine[w]} ELSE mine[w] .. Len(rows[kind[w]])
    BY <1>1, <1>2, <1>3 DEF Underway
  <1>10. Store!Tell(w)
    <2>1. mine[w] # 0
      BY <1>2, <1>3
    <2>2. \E i \in IF w \in Alone THEN {mine[w]} ELSE mine[w] .. Len(rows[kind[w]]) :
            told' = [told EXCEPT ![w] = i]
      BY <1>8, <1>9
    <2> QED BY <1>1, <2>1, <2>2 DEF Store!Tell, told
  <1> QED BY <1>5, <1>6, <1>7, <1>10 DEF Inv

-----------------------------------------------------------------------------
(* The invariant, and the step simulation of RowStore.                     *)

\* No row is stored and no create is under way at first.
LEMMA InitInv == ASSUME SqliteAssumption, Init PROVE Inv /\ Store!Init
  <1>1. \A k \in Kinds : rows[k] = <<>> /\ Len(rows[k]) = 0
    BY EmptySeq DEF Init
  <1>2. TypeOK
    <2>1. rows \in [Kinds -> Seq(Values)]
      BY EmptySeq DEF Init
    <2>2. "user" \in Kinds
      BY DEF Kinds
    <2>3. reply \in [Workers -> Replies]
      BY DEF Init, Replies
    <2> QED BY <1>1, <2>1, <2>2, <2>3 DEF Init, TypeOK, SqliteAssumption, Replies
  <1>3. LastIsStored
    BY <1>1 DEF Init, LastIsStored
  <1>4. \A w \in Workers : Underway(w)
    BY DEF Init, Underway
  <1>5. told = [w \in Workers |-> 0]
    BY DEF told, ToldId, Init
  <1>6. Store!Init
    BY <1>2, <1>5 DEF Init, Store!Init, TypeOK, told
  <1> QED BY <1>2, <1>3, <1>4, <1>6 DEF Inv

\* Every step keeps Inv, and is a step of RowStore or none.
LEMMA StepInv ==
  ASSUME SqliteAssumption, Inv, [Next]_sqliteVars
  PROVE  Inv' /\ [Store!Next]_StoreVars
  <1>1. ASSUME NEW w \in Workers, Request(w)
        PROVE  Inv' /\ (Store!Next \/ UNCHANGED StoreVars)
    <2>1. CASE \E k \in Kinds, v \in Values : Insert(w, k, v)
      BY <2>1, InsertKeeps DEF Store!Next
    <2>2. CASE \E k \in Kinds, v \in Values : InsertFails(w, k, v)
      <3>1. Inv' /\ Store!GiveUp({w})
        BY <2>2, FailuresKeep
      <3> QED BY <3>1 DEF Store!Next
    <2>3. CASE GetLastInsertId(w)
      BY <2>3, GetLastInsertIdKeeps
    <2>4. CASE GetById(w)
      BY <2>4, GetByIdKeeps DEF Store!Next
    <2>5. CASE LookupFails(w)
      <3>1. UNCHANGED <<rows, lastId, kind>> /\ kind[w] \in Kinds
        BY <2>5 DEF LookupFails, Inv, TypeOK
      <3>2. [code |-> "409", ids |-> {}] \in Replies
        BY DEF Replies
      <3>3. /\ pc' = [pc EXCEPT ![w] = "idle"] /\ mine' = [mine EXCEPT ![w] = 0]
            /\ reply' = [reply EXCEPT ![w] = [code |-> "409", ids |-> {}]]
            /\ id' = [id EXCEPT ![w] = 0]
        BY <2>5 DEF LookupFails, Conflict, Answer
      <3>4. Inv' /\ Store!GiveUp({w})
        BY <3>1, <3>2, <3>3, OneEnds
      <3> QED BY <3>4 DEF Store!Next
    <2>6. CASE \/ Refused(w) \/ Unauthorized(w) \/ SearchUsers(w)
               \/ \E v \in Values : GetUser(w, v) \/ Login(w, v)
                                      \/ GetUserParcels(w, v) \/ GetDeliveries(w, v)
      <3>1. Inv' /\ Store!GiveUp({w})
        BY <2>6, ReadsKeep
      <3> QED BY <3>1 DEF Store!Next
    <2>7. CASE CreateUser(w) \/ CreateParcel(w) \/ CreateDelivery(w)
      <3>1. {"user", "parcel", "delivery"} \subseteq Kinds
        BY DEF Kinds
      <3>2. \E k \in Kinds, v \in Values : Insert(w, k, v) \/ InsertFails(w, k, v)
        BY <2>7, <3>1 DEF CreateUser, CreateParcel, CreateDelivery
      <3> QED BY <2>1, <2>2, <3>2
    <2> QED BY <1>1, <2>3, <2>4, <2>5, <2>6, <2>7 DEF Request
  <1>2. ASSUME NEW k \in Kinds, Crash(k) PROVE Inv' /\ Store!Next
    BY <1>2, CrashKeeps DEF Store!Next
  <1>3. CASE UNCHANGED sqliteVars
    <2>1. Inv'
      BY <1>3 DEF sqliteVars, Inv, TypeOK, LastIsStored, Underway, Alone
    <2>2. UNCHANGED StoreVars
      BY <1>3 DEF sqliteVars, StoreVars, told, ToldId
    <2> QED BY <2>1, <2>2
  <1> QED BY <1>1, <1>2, <1>3 DEF Next

\* Inv holds for good.
LEMMA Invariance == Spec => []Inv
  <1>1. Init => Inv
    BY InitInv, SqliteAssumption
  <1>2. Inv /\ [Next]_sqliteVars => Inv'
    BY StepInv, SqliteAssumption
  <1> QED BY <1>1, <1>2, PTL DEF Spec

-----------------------------------------------------------------------------
(* The results.                                                            *)

\* Every variable keeps its type (common/db.cpp of lab2).
THEOREM TypeCorrect == Spec => []TypeOK
  <1>1. Inv => TypeOK
    BY DEF Inv
  <1> QED BY <1>1, Invariance, PTL

\* A create is never answered with an older row than its own, nor with one that
\* is not stored, whoever shares its connection (db.cpp:232-246 of lab2).
THEOREM NeverOlder == Spec => []NeverAnOlderRow
  <1>1. Inv => NeverAnOlderRow
    <2> SUFFICES ASSUME Inv, NEW w \in Workers
                 PROVE  /\ pc[w] = "lastid" => mine[w] <= lastId[kind[w]]
                        /\ pc[w] = "lookup" => mine[w] <= id[w] /\ id[w] \in DOMAIN rows[kind[w]]
      BY DEF NeverAnOlderRow
    <2>1. Underway(w) /\ kind[w] \in Kinds /\ id[w] \in Nat
      BY DEF Inv, TypeOK
    <2>2. rows[kind[w]] \in Seq(Values)
      BY <2>1 DEF Inv, TypeOK
    <2>3. DOMAIN rows[kind[w]] = 1 .. Len(rows[kind[w]]) /\ Len(rows[kind[w]]) \in Nat
      BY <2>2, LenProperties
    <2> QED BY <2>1, <2>3 DEF Underway
  <1> QED BY <1>1, Invariance, PTL

\* The three calls of a create look like one to a request that shares its
\* connection with nobody, and like RowStore's weaker promise to the others.
THEOREM IsARowStore == Spec => ImplementsRowStore
  <1>1. Init => Store!Init
    BY InitInv, SqliteAssumption
  <1>2. Inv /\ [Next]_sqliteVars => [Store!Next]_StoreVars
    BY StepInv, SqliteAssumption
  <1>3. StoreVars = <<rows, kind, mine, [w \in Workers |-> ToldId(w)]>>
    BY DEF StoreVars, told
  <1> QED
    BY <1>1, <1>2, <1>3, Invariance, PTL
    DEF Spec, ImplementsRowStore, Store!Spec, Store!storeVars, StoreVars, told
=============================================================================
