------------------------------ MODULE Lab4System ------------------------------
(***************************************************************************)
(* lab4_mongodb as a whole: the users of Accounts, in MongoDB, and the     *)
(* parcels that parcel-service keeps for them in Postgres.  The services   *)
(* share no transaction and no foreign key: all that ties a parcel to a    *)
(* user is the number in the token that CheckAuth accepted when the        *)
(* request began.  Deliveries are in DeliveryService.                      *)
(***************************************************************************)
EXTENDS Accounts, Sequences

CONSTANTS
  Clients,      \* requests of parcel-service that can be in progress at once
  MaxParcels,   \* bound of the model: how many rows may be inserted
  ParcelColumns \* the columns the table parcels was created with

\* parcel-service fails with the faults of Accounts: "mongo" stands for either store.
ASSUME Lab4Assumption == MaxParcels \in Nat

VARIABLES
  parcels, \* the table: the sender of each row
  sender,  \* whose INSERT a request waits for; {} if it waits for none
  told     \* the last answer to each client: its code and the ids of its rows

parcelVars == <<parcels, sender, told>>
systemVars == <<accountVars, parcelVars>>

SystemTypeOK ==
  /\ parcels \in Seq(Times) /\ Len(parcels) <= MaxParcels
  /\ sender \in [Clients -> SUBSET Times]
  /\ told \in [Clients -> [code : {"none", "200", "201", "400", "401", "403", "500"},
                           ids : SUBSET (1 .. MaxParcels)]]

-----------------------------------------------------------------------------
Tell(c, code, ids) == told' = [told EXCEPT ![c] = [code |-> code, ids |-> ids]]

\* An answer without a wait, to a request that has done nothing.
TellNow(c, code, ids) ==
  /\ sender[c] = {}
  /\ Tell(c, code, ids)
  /\ UNCHANGED <<accountVars, parcels, sender>>

\* Tokens with which a request may begin now.
Accepted == {t \in tokens : CheckAuth(t).status = "ok"}

\* userver asks CheckAuth before the handler: no token, one that does not pass, or
\* one that cannot be read.
Unauthorized(c) == \E code \in {"401", "403"} : TellNow(c, code, {})

\* POST /api/v1/parcels: a missing field is 400, a body that cannot be read or
\* converted raises.
CreateParcelRequests == [description : {"absent", "string", "other"},
                         weight : {"absent", "number", "other"}]
Readable(b) == b.description = "string" /\ b.weight = "number"

ParcelRefused(c) ==
  \E t \in Accepted, b \in CreateParcelRequests :
    /\ ~Readable(b)
    /\ TellNow(c, IF "absent" \in {b.description, b.weight} THEN "400" ELSE "500", {})

\* Mutant of BeginParcel: a caller without a user_id is user 0.
BeginParcelAnyone(c) ==
  /\ sender[c] = {}
  /\ sender' = [sender EXCEPT ![c] = {0}]
  /\ Tell(c, "none", {})
  /\ UNCHANGED <<accountVars, parcels>>

BeginParcel(c) ==
  \E t \in Accepted :
    /\ sender[c] = {}
    /\ sender' = [sender EXCEPT ![c] = {CheckAuth(t).user_id}]
    /\ Tell(c, "none", {})
    /\ UNCHANGED <<accountVars, parcels>>

\* Database::CreateParcel: one INSERT ... RETURNING, which commits by itself.
InsertRow(c) ==
  /\ Len(parcels) < MaxParcels
  /\ \E u \in sender[c] : parcels' = Append(parcels, u)

\* Mutant of InsertParcel: the rows are numbered from 0.
InsertFromZero(c) ==
  /\ InsertRow(c)
  /\ sender' = [sender EXCEPT ![c] = {}]
  /\ Tell(c, "201", {Len(parcels)})
  /\ UNCHANGED accountVars

\* Reading the row into the Parcel may raise when it is stored.
InsertParcel(c) ==
  /\ InsertRow(c)
  /\ sender' = [sender EXCEPT ![c] = {}]
  /\ Tell(c, "201", {Len(parcels) + 1}) \/ Tell(c, "500", {})
  /\ UNCHANGED accountVars

\* Postgres refuses the row, or fails: it may be there or not.
InsertParcelRaises(c) ==
  /\ sender[c] # {}
  /\ \/ InsertRow(c) /\ "mongo" \in Faults
     \/ UNCHANGED parcels
  /\ sender' = [sender EXCEPT ![c] = {}]
  /\ Tell(c, "500", {})
  /\ UNCHANGED accountVars

\* GET /api/v1/users/{id}/parcels: of the user in the token, not of the path; of a
\* kSlave, which with one host is the table.
GetUserParcels(u) == {i \in DOMAIN parcels : parcels[i] = u}

SelectList == {"id", "sender_id", "full_name", "description", "weight", "created_at"}

ListParcels(c) ==
  \E t \in Accepted :
    IF SelectList \subseteq ParcelColumns
    THEN TellNow(c, "200", GetUserParcels(CheckAuth(t).user_id))
    ELSE TellNow(c, "500", {})

ListRaises(c) == "mongo" \in Faults /\ Accepted # {} /\ TellNow(c, "500", {})

\* parcel-service dies; an INSERT it was waiting for is carried out or not.
ParcelCrash(c) ==
  /\ "crash" \in Faults
  /\ InsertRow(c) \/ UNCHANGED parcels
  /\ sender' = [d \in Clients |-> {}]
  /\ told' = [d \in Clients |-> [code |-> "none", ids |-> {}]]
  /\ UNCHANGED accountVars

-----------------------------------------------------------------------------
(* GET /api/v1/users/search, of user-service.                              *)

\* SearchUsersByQuery: a mask selects any of the documents.
SearchUsersByQuery == SUBSET users

\* An answer holds the ids of what was found: one of them stands for all.  No
\* query is 400, and one that is no regular expression raises.
SearchUsers(w) ==
  /\ pc[w] = "idle"
  /\ \/ \E found \in SearchUsersByQuery :
          \/ found = {} /\ Answer(w, "200", 0)
          \/ \E u \in found : Answer(w, "200", u.id)
     \/ \E code \in {"400", "500"} : Answer(w, code, 0)
  /\ UNCHANGED <<now, users, asked, tokens>>

-----------------------------------------------------------------------------
SystemInit ==
  /\ Init
  /\ parcels = <<>>
  /\ sender = [c \in Clients |-> {}]
  /\ told = [c \in Clients |-> [code |-> "none", ids |-> {}]]

ParcelRequest(c) ==
  \/ Unauthorized(c)
  \/ ParcelRefused(c)
  \/ BeginParcel(c)
  \/ InsertParcel(c)
  \/ InsertParcelRaises(c)
  \/ ListParcels(c)
  \/ ListRaises(c)
  \/ ParcelCrash(c)

SystemNext ==
  \/ \E c \in Clients : ParcelRequest(c)
  \/ (Next \/ \E w \in Workers : SearchUsers(w)) /\ UNCHANGED parcelVars

SystemSpec == SystemInit /\ [][SystemNext]_systemVars

-----------------------------------------------------------------------------
(* What the two stores promise together.                                   *)

\* Every parcel in Postgres, however its request ended, was sent by a user who
\* is in MongoDB and whose own login and password had been given to
\* user-service: no key ties the two stores, only the number in a token
\* (create_parcel_handler.cpp:25-38, mongo_db.cpp:120-124).
SendersAreUsers ==
  \A i \in DOMAIN parcels : \E u \in users, t \in tokens :
    /\ u.id = parcels[i] /\ t.user_id = u.id
    /\ t.for = [login |-> u.login, password |-> u.password]
=============================================================================
