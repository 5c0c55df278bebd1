------------------------------ MODULE Directory ------------------------------
(***************************************************************************)
(* What a store of users promises the rest of the system: a login has at   *)
(* most one account, an account never changes, no two share an id, and a   *)
(* token is given for the login and password of the account it names.      *)
(***************************************************************************)
CONSTANTS Logins, Passwords, Ids

VARIABLES
  accounts, \* records of id, login and password
  grants    \* tokens given out, with the login and password given for them

Init == accounts = {} /\ grants = {}

Register(i, l, p) ==
  /\ \A a \in accounts : a.id # i /\ a.login # l
  /\ accounts' = accounts \cup {[id |-> i, login |-> l, password |-> p]}
  /\ UNCHANGED grants

Grant(a) ==
  /\ grants' = grants \cup {[user_id |-> a.id, login |-> a.login, password |-> a.password]}
  /\ UNCHANGED accounts

Next ==
  \/ \E i \in Ids, l \in Logins, p \in Passwords : Register(i, l, p)
  \/ \E a \in accounts : Grant(a)

Spec == Init /\ [][Next]_<<accounts, grants>>
=============================================================================
