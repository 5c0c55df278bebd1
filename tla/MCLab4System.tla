------------------------------ MODULE MCLab4System ------------------------------
(* Lab4System with two requests of user-service and one of parcel-service. *)
EXTENDS Lab4System, TLC

CONSTANTS w1, w2, l1, p1, p2, c1

\* Every read of the table succeeds: it has the column full_name.
WithFullName == SelectList

Symmetry == Permutations(Workers) \cup Permutations(Passwords)
=============================================================================
