----------------------------- MODULE MCCacheAside -----------------------------
(* CacheAside on small sets of users, workers and parcels.                 *)
EXTENDS CacheAside, TLC

CONSTANTS u1, u2, w1, w2, w3

\* Every read of the table succeeds: it has the column full_name.
WithFullName == SelectList

\* Users and workers are interchangeable.
Symmetry == Permutations(Users) \cup Permutations(Workers)
=============================================================================
