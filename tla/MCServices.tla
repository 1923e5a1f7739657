------------------------------ MODULE MCServices ------------------------------
(***************************************************************************)
(* A small instance of Services for TLC.                                   *)
(***************************************************************************)
EXTENDS Services, TLC

CONSTANTS r1, r2, t1, f1, f2, x1, x2

Symmetry == Permutations(Requests) \cup Permutations(Ids) \cup Permutations(Scopes)
=============================================================================
