---------------------------- MODULE MCParcelSystem ----------------------------
(* ParcelSystem on one or two users, with a few requests and parcels.      *)
EXTENDS ParcelSystem, TLC

CONSTANTS u1, u2, w1, w2

\* Every read of the table succeeds: it has the column full_name.
WithFullName == SelectList

Symmetry == Permutations(Users) \cup Permutations(Workers)
=============================================================================
