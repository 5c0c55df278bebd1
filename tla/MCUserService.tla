---------------------------- MODULE MCUserService ----------------------------
(* UserService with two requests at once, of one client, and windows of two *)
(* ticks.                                                                   *)
EXTENDS UserService, TLC

CONSTANTS w1, w2, l1, p1

Symmetry == Permutations(Workers)
=============================================================================
