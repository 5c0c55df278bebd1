--------------------------- MODULE MCPostgresStore ---------------------------
(* PostgresStore with a few requests, logins and passwords.                *)
EXTENDS PostgresStore, TLC

CONSTANTS w1, w2, l1, l2, e1, e2, p1, p2

\* Nothing but equality is asked of any of them.
Symmetric == Permutations({w1, w2}) \cup Permutations({l1, l2})
               \cup Permutations({e1, e2}) \cup Permutations({p1, p2})
=============================================================================
