---------------------------- MODULE MCParkingLot ----------------------------
(* ParkingLot for TLC: the devices all have a button for the same lot. *)
EXTENDS ParkingLot, TLC

CONSTANTS d1, d2, ph1, ph2, cl1, cl2, c1

Devices == [t \in Phone \cup Cleaner |-> IF t \in {ph1, cl1} THEN d1 ELSE d2]
OneName == [d \in Device |-> c1]

(* Nothing distinguishes the places where a lot can be allocated, the workers, *)
(* or the devices, each with its threads.                                      *)
Twins == (d1 :> d2) @@ (d2 :> d1) @@ (ph1 :> ph2) @@ (ph2 :> ph1) @@ (cl1 :> cl2) @@ (cl2 :> cl1)
Swaps == {f @@ g : f \in Permutations(Address), g \in Permutations(Worker)}
TwinSwaps == Swaps \cup {f @@ Twins : f \in Swaps}
=============================================================================
