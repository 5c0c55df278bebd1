---------------------------- MODULE MCSqliteStore ----------------------------
(* SqliteStore with a few requests and two values.                         *)
EXTENDS SqliteStore, TLC

CONSTANTS w1, w2, w3, v1, v2

\* Every request may create every kind of row.
ServesAll == [w \in Workers |-> Kinds]

\* One request has its connection to itself, the other two share theirs.
ServesMixed == w1 :> {"user"} @@ w2 :> {"parcel", "delivery"} @@ w3 :> {"parcel", "delivery"}

\* The two that share, and the values, are interchangeable.
Symmetric == Permutations({w2, w3}) \cup Permutations({v1, v2})
=============================================================================
