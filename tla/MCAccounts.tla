------------------------------ MODULE MCAccounts ------------------------------
(* Accounts with one or two requests and two passwords.                    *)
EXTENDS Accounts, TLC

CONSTANTS w1, w2, l1, p1, p2

Symmetry == Permutations(Workers) \cup Permutations(Passwords)
=============================================================================
