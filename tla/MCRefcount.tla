----------------------------- MODULE MCRefcount -----------------------------
(* Refcount for TLC.  All objects share a list, or each has its own. *)
EXTENDS Refcount, TLC

CONSTANTS o1, o2, b1, b2

OneBucket == [o \in Object |-> b1]
OwnBucket == (o1 :> b1) @@ (o2 :> b2)
OneType   == [o \in Object |-> 1]

ObjectSymmetry == Permutations(Thread) \cup Permutations(Object)
ObjectSwaps == Permutations(Object)
=============================================================================
