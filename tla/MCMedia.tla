------------------------------ MODULE MCMedia ------------------------------
(* Media for TLC. *)
EXTENDS Media, TLC

CONSTANTS p1, p2

Ports == Permutations({p1, p2})
=============================================================================
