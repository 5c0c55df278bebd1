------------------------------- MODULE RowStore -------------------------------
(***************************************************************************)
(* What Database of lab2_rest_api promises the create handlers: a create   *)
(* stores one row, and a create that succeeds is answered with that row    *)
(* or, when another request may use the connection meanwhile, with one of  *)
(* the same kind that is not older.                                        *)
(***************************************************************************)
EXTENDS Naturals, Sequences

CONSTANTS
  Kinds, Values, Workers,
  Alone \* the workers whose connection no other worker uses

VARIABLES
  rows, \* per kind, the values stored, by id
  kind, \* per worker, the kind of row its create is about
  mine, \* per worker, the id its create stored, 0 without one
  told  \* per worker, the id its last create was answered with, 0 without one

storeVars == <<rows, kind, mine, told>>

Init ==
  /\ rows = [k \in Kinds |-> <<>>]
  /\ kind \in [Workers -> Kinds]
  /\ mine = [w \in Workers |-> 0]
  /\ told = [w \in Workers |-> 0]

Store(w, k, v) ==
  /\ mine[w] = 0
  /\ rows' = [rows EXCEPT ![k] = Append(@, v)]
  /\ kind' = [kind EXCEPT ![w] = k]
  /\ mine' = [mine EXCEPT ![w] = Len(rows[k]) + 1]
  /\ told' = [told EXCEPT ![w] = 0]

Tell(w) ==
  /\ mine[w] # 0
  /\ \E i \in IF w \in Alone THEN {mine[w]} ELSE mine[w] .. Len(rows[kind[w]]) :
       told' = [told EXCEPT ![w] = i]
  /\ mine' = [mine EXCEPT ![w] = 0]
  /\ UNCHANGED <<rows, kind>>

\* The creates of some workers end without an answer that names a row.
GiveUp(W) ==
  /\ mine' = [w \in Workers |-> IF w \in W THEN 0 ELSE mine[w]]
  /\ told' = [w \in Workers |-> IF w \in W THEN 0 ELSE told[w]]
  /\ kind' \in [Workers -> Kinds]
  /\ \A w \in Workers \ W : kind'[w] = kind[w]
  /\ UNCHANGED rows

Next ==
  \/ \E w \in Workers, k \in Kinds, v \in Values : Store(w, k, v)
  \/ \E w \in Workers : Tell(w)
  \/ \E W \in SUBSET Workers : GiveUp(W)

Spec == Init /\ [][Next]_storeVars
=============================================================================
