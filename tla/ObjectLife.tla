----------------------------- MODULE ObjectLife -----------------------------
(***************************************************************************)
(* What reference counting promises its users (rules 1 to 5 at the head of *)
(* src/src/sccp_refcount.c): an object is born with one reference, can be  *)
(* acquired while somebody holds it, dies with its last reference, never   *)
(* comes back, and is destroyed once and only after its death.             *)
(***************************************************************************)
EXTENDS Naturals

CONSTANT Object

VARIABLES life,     \* "absent", "live", "dead" or "gone"
          holders   \* how many references there are

Init ==
    /\ life = [o \in Object |-> "absent"]
    /\ holders = [o \in Object |-> 0]

Create(o) ==
    /\ life[o] = "absent"
    /\ life' = [life EXCEPT ![o] = "live"]
    /\ holders' = [holders EXCEPT ![o] = 1]

Acquire(o) ==
    /\ life[o] = "live"
    /\ holders' = [holders EXCEPT ![o] = @ + 1]
    /\ UNCHANGED life

Drop(o) ==
    /\ life[o] = "live"
    /\ holders' = [holders EXCEPT ![o] = @ - 1]
    /\ life' = [life EXCEPT ![o] = IF holders[o] = 1 THEN "dead" ELSE "live"]

Reclaim(o) ==
    /\ life[o] = "dead"
    /\ life' = [life EXCEPT ![o] = "gone"]
    /\ UNCHANGED holders

Next == \E o \in Object : Create(o) \/ Acquire(o) \/ Drop(o) \/ Reclaim(o)

LifeSpec == Init /\ [][Next]_<<life, holders>>
=============================================================================
