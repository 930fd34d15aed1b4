--------------------------- MODULE RefcountProofs ---------------------------
(* Proofs about Refcount. *)
EXTENDS Refcount, FiniteSetTheorems, TLAPS

(* The type invariant, for the variables the proofs below read. *)
Shape ==
    /\ linked \subseteq Object /\ made \subseteq Object
    /\ quarantine \subseteq Object /\ batch \subseteq Object
    /\ buckets \subseteq Bucket
    /\ destructions \in [Object -> Nat]
    /\ pc \in [Thread -> PC]
    /\ obj \in [Thread -> Object]

(* A thread that alone knows of an object: it allocates or disposes of it. *)
Owns(t, o) ==
    pc[t] \in {"create", "append", "park", "insert", "destroy"} /\ obj[t] = o

(* An object is in one place: with the one thread that allocates it, in its *)
(* list, with the one thread that disposes of it, in quarantine, with the   *)
(* reaper, or destroyed.                                                    *)
OneOwner == \A t, u \in Thread : \A o \in Object : Owns(t, o) /\ Owns(u, o) => t = u

OwnedElsewhere ==
    \A t \in Thread : \A o \in Object : Owns(t, o) =>
        /\ o \in made /\ o \notin linked /\ o \notin quarantine /\ o \notin batch
        /\ destructions[o] = 0

OnePlace ==
    \A o \in Object :
        /\ o \in linked => o \notin quarantine /\ o \notin batch
        /\ o \in quarantine => o \notin batch
        /\ o \in linked \cup quarantine \cup batch => o \in made /\ destructions[o] = 0
        /\ destructions[o] # 0 => o \in made
        /\ destructions[o] <= 1

PlaceInv == Shape /\ OneOwner /\ OwnedElsewhere /\ OnePlace

(* Nothing else than the calls, the steps and the reaper touches objects. *)
LEMMA InitPlaces == Init => PlaceInv
BY DEF Init, PlaceInv, Shape, OneOwner, OwnedElsewhere, OnePlace, Owns, PC

LEMMA CallPlaces ==
    ASSUME PlaceInv, NEW t \in Thread, NEW o \in Object, Call(t, o)
    PROVE  PlaceInv'
<1> USE DEF PlaceInv, Shape, At, Up, PC
<1>1. CASE AllocCheck(t, o)
  <2>1. Shape'
    BY <1>1 DEF AllocCheck, Start, Goto, tableVars, reapVars
  <2>2. OneOwner'
    BY <1>1 DEF AllocCheck, Start, Goto, tableVars, reapVars, OneOwner, OwnedElsewhere, Owns
  <2>3. OwnedElsewhere'
    BY <1>1 DEF AllocCheck, Start, Goto, tableVars, reapVars, OwnedElsewhere, OnePlace, Owns
  <2>4. OnePlace'
    BY <1>1 DEF AllocCheck, tableVars, reapVars, OnePlace
  <2> QED BY <2>1, <2>2, <2>3, <2>4
<1>2. CASE ListAdd(t, o) \/ ListRemove(t, o) \/ Retain(t, o)
  BY <1>2 DEF ListAdd, ListRemove, Retain, tableVars, reapVars, OneOwner, OwnedElsewhere,
              OnePlace, Owns
<1>3. CASE Peek(t, o)
  BY <1>3 DEF Peek, Start, Goto, tableVars, reapVars, OneOwner, OwnedElsewhere, OnePlace, Owns
<1>4. CASE Release(t, o)
  BY <1>4 DEF Release, Goto, tableVars, reapVars, OneOwner, OwnedElsewhere, OnePlace, Owns
<1> QED BY <1>1, <1>2, <1>3, <1>4 DEF Call

LEMMA AllocPlaces ==
    ASSUME PlaceInv, NEW t \in Thread, AllocCreate(t) \/ AllocAppend(t) \/ AllocAlive(t)
    PROVE  PlaceInv'
<1> USE DEF PlaceInv, Shape, At, Up, PC, Goto, tableVars, reapVars
<1>1. CASE AllocCreate(t)
  <2>1. Shape'
    BY <1>1, RefcountAssumption DEF AllocCreate
  <2>2. OneOwner' /\ OwnedElsewhere'
    BY <1>1 DEF AllocCreate, OneOwner, OwnedElsewhere, Owns
  <2>3. OnePlace'
    BY <1>1 DEF AllocCreate, OwnedElsewhere, OnePlace, Owns
  <2> QED BY <2>1, <2>2, <2>3
<1>2. CASE AllocAppend(t)
  <2>1. Shape'
    BY <1>2 DEF AllocAppend
  <2>2. OneOwner' /\ OwnedElsewhere'
    BY <1>2 DEF AllocAppend, OneOwner, OwnedElsewhere, Owns
  <2>3. OnePlace'
    BY <1>2 DEF AllocAppend, OwnedElsewhere, OnePlace, Owns
  <2> QED BY <2>1, <2>2, <2>3
<1>3. CASE AllocAlive(t)
  BY <1>3 DEF AllocAlive, OneOwner, OwnedElsewhere, OnePlace, Owns
<1> QED BY <1>1, <1>2, <1>3

LEMMA UsePlaces ==
    ASSUME PlaceInv, NEW t \in Thread,
           Look(t) \/ Incr(t) \/ Dec(t) \/ Kill(t) \/ Seek(t) \/ Cleanup(t)
    PROVE  PlaceInv'
<1> USE DEF PlaceInv, Shape, At, Up, PC, Goto, tableVars, reapVars, OneOwner, OwnedElsewhere,
            OnePlace, Owns
<1>1. CASE Look(t)
  BY <1>1 DEF Look
<1>2. CASE Incr(t)
  BY <1>2 DEF Incr
<1>3. CASE Dec(t)
  BY <1>3 DEF Dec
<1>4. CASE Kill(t)
  BY <1>4 DEF Kill
<1>5. CASE Seek(t)
  BY <1>5 DEF Seek
<1>6. CASE Cleanup(t)
  BY <1>6 DEF Cleanup
<1> QED BY <1>1, <1>2, <1>3, <1>4, <1>5, <1>6

LEMMA DisposePlaces ==
    ASSUME PlaceInv, NEW t \in Thread,
           Unlink(t) \/ Park(t) \/ Insert(t) \/ Destroy(t)
    PROVE  PlaceInv'
<1> USE DEF PlaceInv, Shape, At, Up, PC, Goto, tableVars, reapVars
<1>1. CASE Unlink(t)
  <2>1. Shape'
    BY <1>1 DEF Unlink
  <2>2. OneOwner'
    BY <1>1 DEF Unlink, OneOwner, OwnedElsewhere, Owns
  <2>3. OwnedElsewhere'
    BY <1>1 DEF Unlink, OwnedElsewhere, OnePlace, Owns
  <2>4. OnePlace'
    BY <1>1 DEF Unlink, OnePlace
  <2> QED BY <2>1, <2>2, <2>3, <2>4
<1>2. CASE Park(t)
  BY <1>2 DEF Park, OneOwner, OwnedElsewhere, OnePlace, Owns
<1>3. CASE Insert(t)
  BY <1>3 DEF Insert, OneOwner, OwnedElsewhere, OnePlace, Owns
<1>4. CASE Destroy(t)
  <2>1. Shape'
    BY <1>4 DEF Destroy
  <2>2. OneOwner' /\ OwnedElsewhere'
    BY <1>4 DEF Destroy, OneOwner, OwnedElsewhere, Owns
  <2>3. OnePlace'
    BY <1>4 DEF Destroy, OwnedElsewhere, OnePlace, Owns
  <2> QED BY <2>1, <2>2, <2>3
<1> QED BY <1>1, <1>2, <1>3, <1>4

LEMMA ReapPlaces ==
    ASSUME PlaceInv, Reap \/ ReapOne
    PROVE  PlaceInv'
<1> USE DEF PlaceInv, Shape, Up, PC, tableVars, reapVars
<1>1. CASE Reap
  BY <1>1 DEF Reap, OneOwner, OwnedElsewhere, OnePlace, Owns
<1>2. CASE ReapOne
  <2>1. Shape'
    BY <1>2 DEF ReapOne
  <2>2. OneOwner' /\ OwnedElsewhere'
    BY <1>2 DEF ReapOne, OneOwner, OwnedElsewhere, OnePlace, Owns
  <2>3. OnePlace'
    BY <1>2 DEF ReapOne, OnePlace
  <2> QED BY <2>1, <2>2, <2>3
<1> QED BY <1>1, <1>2

LEMMA ShutPlaces ==
    ASSUME PlaceInv, ShutNext
    PROVE  PlaceInv'
<1> USE DEF PlaceInv, Shape, PC, tableVars, reapVars
<1>1. CASE Stop
  BY <1>1 DEF Stop, OneOwner, OwnedElsewhere, OnePlace, Owns
<1>2. CASE Join
  BY <1>2 DEF Join, OneOwner, OwnedElsewhere, OnePlace, Owns
<1>3. CASE Drain
  <2>1. Shape'
    BY <1>3 DEF Drain
  <2>2. OneOwner' /\ OwnedElsewhere'
    BY <1>3 DEF Drain, OneOwner, OwnedElsewhere, Owns
  <2>3. OnePlace'
    BY <1>3 DEF Drain, OnePlace
  <2> QED BY <2>1, <2>2, <2>3
<1>4. CASE Sweep
  <2>1. Shape'
    BY <1>4 DEF Sweep
  <2>2. OneOwner' /\ OwnedElsewhere'
    BY <1>4 DEF Sweep, OneOwner, OwnedElsewhere, Owns
  <2>3. OnePlace'
    BY <1>4 DEF Sweep, OnePlace
  <2> QED BY <2>1, <2>2, <2>3
<1> QED BY <1>1, <1>2, <1>3, <1>4 DEF ShutNext

LEMMA StepPlaces == PlaceInv /\ [RunNext \/ ShutNext]_vars => PlaceInv'
<1> SUFFICES ASSUME PlaceInv, [RunNext \/ ShutNext]_vars PROVE PlaceInv'
    OBVIOUS
<1>1. CASE \E t \in Thread : Step(t)
  BY <1>1, AllocPlaces, UsePlaces, DisposePlaces DEF Step
<1>2. CASE \E t \in Thread : \E o \in Object : Call(t, o)
  BY <1>2, CallPlaces
<1>3. CASE Reap \/ ReapOne
  BY <1>3, ReapPlaces
<1>4. CASE ShutNext
  BY <1>4, ShutPlaces
<1>5. CASE UNCHANGED vars
  BY <1>5 DEF vars, PlaceInv, Shape, OneOwner, OwnedElsewhere, OnePlace, Owns
<1> QED BY <1>1, <1>2, <1>3, <1>4, <1>5 DEF RunNext

(* No object is destroyed twice, whoever believes to have released the last *)
(* reference, for any number of threads, objects and lists.                 *)
THEOREM NoneDestroyedTwice == Spec => []DestroyedOnce
<1>1. PlaceInv => DestroyedOnce
  BY DEF PlaceInv, OnePlace, DestroyedOnce
<1> QED BY <1>1, InitPlaces, StepPlaces, PTL DEF Spec

-----------------------------------------------------------------------------
(* The lists. *)
BucketInv == Shape /\ BucketsWhole /\ (shut # "up" => runState # "running")

LEMMA StepBuckets ==
    BucketInv /\ PlaceInv' /\ [RunNext \/ ShutNext]_vars => BucketInv'
<1> SUFFICES ASSUME BucketInv, PlaceInv', [RunNext \/ ShutNext]_vars PROVE BucketInv'
    OBVIOUS
<1> USE DEF BucketInv, BucketsWhole, At, Up
<1>0. Shape'
  BY DEF PlaceInv
<1>1. CASE \E t \in Thread : AllocCreate(t) \/ AllocAppend(t) \/ AllocAlive(t)
  BY <1>0, <1>1, RefcountAssumption
     DEF AllocCreate, AllocAppend, AllocAlive, Shape, runVars, tableVars
<1>2. CASE \E t \in Thread : Look(t) \/ Incr(t) \/ Dec(t) \/ Kill(t) \/ Seek(t) \/ Park(t)
                             \/ Insert(t) \/ Destroy(t)
  BY <1>0, <1>2 DEF Look, Incr, Dec, Kill, Seek, Park, Insert, Destroy, runVars, tableVars
<1>3. CASE \E t \in Thread : Unlink(t)
  BY <1>0, <1>3 DEF Unlink, runVars
<1>4. CASE \E t \in Thread : Cleanup(t)
  BY <1>0, <1>4, RefcountAssumption DEF Cleanup, StillEmpty, InList, Shape, runVars
<1>5. CASE \E t \in Thread : \E o \in Object : Call(t, o)
  BY <1>0, <1>5
     DEF Call, AllocCheck, ListAdd, ListRemove, Retain, Peek, Release, runVars, tableVars
<1>6. CASE Reap \/ ReapOne
  BY <1>0, <1>6 DEF Reap, ReapOne, runVars, tableVars
<1>7. CASE ShutNext
  BY <1>0, <1>7 DEF ShutNext, Stop, Join, Drain, Sweep, tableVars
<1>8. CASE UNCHANGED vars
  BY <1>0, <1>8 DEF vars
<1> QED BY <1>1, <1>2, <1>3, <1>4, <1>5, <1>6, <1>7, <1>8 DEF RunNext, Step

(* While the table runs, no list is freed with an object in it. *)
THEOREM NoListLost == Spec => []BucketsWhole
<1>1. Init => BucketInv
  BY InitPlaces DEF Init, PlaceInv, BucketInv, BucketsWhole
<1>2. BucketInv => BucketsWhole
  BY DEF BucketInv
<1> QED BY <1>1, <1>2, InitPlaces, StepPlaces, StepBuckets, PTL DEF Spec
-----------------------------------------------------------------------------
(* The counts.  Who allocates an object, who is about to kill it, who disposes *)
(* of it; an object nobody has a reference to, or nobody who keeps the rules;  *)
(* an object that is not coming back to life.                                  *)
Making(t, o) == pc[t] \in {"create", "append", "alive"} /\ obj[t] = o
Killing(t, o) == pc[t] = "kill" /\ obj[t] = o
Disposing(t, o) == pc[t] \in {"park", "insert", "destroy"} /\ obj[t] = o

Unused(o) == o \notin listed /\ \A t \in Thread : refs[t][o] = 0
Unheld(o) == o \notin listed /\ \A t \in Thread \ Raw : refs[t][o] = 0
Dead(o) == o \in made /\ ~Live(o) /\ \A t \in Thread : ~Making(t, o)

(* A reference is given up by who has it. *)
DecHolds == \A t \in Thread : pc[t] = "dec" => refs[t][obj[t]] > 0

(* Pointers held no lock for are read by some threads only. *)
LooksRaw == \A t \in Thread : pc[t] \in {"look", "incr"} => t \in Raw

(* Before it is allocated an object is unknown, and while it is allocated     *)
(* known to one thread.                                                       *)
Unknown ==
    \A o \in Object \ made :
        alive[o] = 0 /\ Unused(o) /\ \A t \in Thread : pc[t] # "idle" => obj[t] # o
BeingMade ==
    \A t \in Thread : \A o \in Object : Making(t, o) =>
        /\ refcount[o] = 1 /\ alive[o] = 0 /\ Unused(o)
        /\ \A u \in Thread : pc[u] # "idle" /\ obj[u] = o => u = t
AliveOnce == \A o \in Object : alive[o] <= 1

(* The last reference of the rules is gone before the object is killed, an    *)
(* object is disposed of only when killed, and there is no way back.          *)
DeadUnheld ==
    \A o \in Object : Dead(o) \/ (\E t \in Thread : Killing(t, o)) => Unheld(o)
DisposedDead ==
    \A o \in Object :
        o \in quarantine \cup batch \/ (\E t \in Thread : Disposing(t, o)) => Dead(o)
GoneDead == shut \notin {"sweep", "down"} => \A o \in Object : Gone(o) => Dead(o)

LifeInv ==
    /\ DecHolds /\ LooksRaw /\ Unknown /\ BeingMade /\ AliveOnce
    /\ DeadUnheld /\ DisposedDead /\ GoneDead

CountInv == TypeOK /\ CountsMatch /\ LifeInv

(* The references to an object can be counted. *)
LEMMA ReferencesFinite ==
    ASSUME TypeOK, NEW o \in Object
    PROVE  IsFiniteSet(References(o)) /\ Cardinality(References(o)) \in Nat
<1> DEFINE Of(t) == {t} \X (1 .. refs[t][o])
           Sets == {Of(t) : t \in Thread}
<1>1. IsFiniteSet(Sets)
  <2>1. [t \in Thread |-> Of(t)] \in Surjection(Thread, Sets)
    BY DEF Surjection
  <2> QED BY <2>1, FS_Surjection, RefcountAssumption
<1>2. \A t \in Thread : IsFiniteSet(Of(t))
  <2> SUFFICES ASSUME NEW t \in Thread PROVE IsFiniteSet(Of(t))
      OBVIOUS
  <2>1. IsFiniteSet({t})
    BY FS_Singleton
  <2>2. refs[t][o] \in Int
    BY DEF TypeOK
  <2>3. IsFiniteSet(1 .. refs[t][o])
    BY <2>2, FS_Interval
  <2> QED BY <2>1, <2>3, FS_Product
<1>3. IsFiniteSet(UNION Sets)
  <2>1. \A T \in Sets : IsFiniteSet(T)
    BY <1>2
  <2> HIDE DEF Sets
  <2> QED BY <1>1, <2>1, FS_UNION
<1>4. References(o) = UNION Sets
  BY DEF References
<1> QED BY <1>3, <1>4, FS_CardinalityType

LEMMA InReferences ==
    ASSUME NEW o \in Object
    PROVE  \A r : r \in References(o) <=>
                     \E t \in Thread : \E i \in 1 .. refs[t][o] : r = <<t, i>>
BY DEF References

LEMMA NoReferences ==
    ASSUME TypeOK, NEW o \in Object
    PROVE  Cardinality(References(o)) = 0 <=> \A t \in Thread : refs[t][o] = 0
<1>1. Cardinality(References(o)) = 0 <=> References(o) = {}
  BY ReferencesFinite, FS_EmptySet
<1>2. ASSUME NEW t \in Thread, refs[t][o] # 0 PROVE References(o) # {}
  <2>1. 1 \in 1 .. refs[t][o]
    BY <1>2 DEF TypeOK
  <2> QED BY <2>1, InReferences
<1>3. ASSUME NEW r \in References(o) PROVE \E t \in Thread : refs[t][o] # 0
  BY <1>3, InReferences DEF TypeOK
<1> QED BY <1>1, <1>2, <1>3

(* A reference gained or lost is one more or one less of that object only. *)
LEMMA OneMore ==
    ASSUME TypeOK, NEW t \in Thread, NEW o \in Object, Gain(t, o)
    PROVE  /\ refs' \in [Thread -> [Object -> Nat]]
           /\ refs'[t][o] = refs[t][o] + 1
           /\ \A u \in Thread, p \in Object : u # t \/ p # o => refs'[u][p] = refs[u][p]
           /\ \A p \in Object : Cardinality(References(p)') =
                   IF p = o THEN Cardinality(References(p)) + 1 ELSE Cardinality(References(p))
<1>1. refs' \in [Thread -> [Object -> Nat]]
  BY DEF TypeOK, Gain
<1>2. refs'[t][o] = refs[t][o] + 1
  BY DEF TypeOK, Gain
<1>3. \A u \in Thread, p \in Object : u # t \/ p # o => refs'[u][p] = refs[u][p]
  BY DEF TypeOK, Gain
<1>4. refs[t][o] \in Nat
  BY DEF TypeOK
<1>5. References(o)' = References(o) \cup {<<t, refs[t][o] + 1>>}
  <2>1. \A i : i \in 1 .. refs'[t][o] <=> i \in 1 .. refs[t][o] \/ i = refs[t][o] + 1
    BY <1>2, <1>4
  <2> QED BY <2>1, <1>3, InReferences DEF References
<1>6. <<t, refs[t][o] + 1>> \notin References(o)
  BY <1>4, InReferences
<1>7. Cardinality(References(o)') = Cardinality(References(o)) + 1
  BY <1>5, <1>6, ReferencesFinite, FS_AddElement
<1>8. ASSUME NEW p \in Object \ {o} PROVE References(p)' = References(p)
  BY <1>3 DEF References
<1> QED BY <1>1, <1>2, <1>3, <1>7, <1>8

LEMMA OneLess ==
    ASSUME TypeOK, NEW t \in Thread, NEW o \in Object, refs[t][o] > 0, Lose(t, o)
    PROVE  /\ refs' \in [Thread -> [Object -> Nat]]
           /\ refs'[t][o] = refs[t][o] - 1
           /\ \A u \in Thread, p \in Object : u # t \/ p # o => refs'[u][p] = refs[u][p]
           /\ \A p \in Object : Cardinality(References(p)') =
                   IF p = o THEN Cardinality(References(p)) - 1 ELSE Cardinality(References(p))
<1>4. refs[t][o] \in Nat
  BY DEF TypeOK
<1>1. refs' \in [Thread -> [Object -> Nat]]
  BY <1>4 DEF TypeOK, Lose
<1>2. refs'[t][o] = refs[t][o] - 1
  BY DEF TypeOK, Lose
<1>3. \A u \in Thread, p \in Object : u # t \/ p # o => refs'[u][p] = refs[u][p]
  BY DEF TypeOK, Lose
<1>5. References(o)' = References(o) \ {<<t, refs[t][o]>>}
  <2>1. \A i : i \in 1 .. refs'[t][o] <=> i \in 1 .. refs[t][o] /\ i # refs[t][o]
    BY <1>2, <1>4
  <2> QED BY <2>1, <1>3, InReferences DEF References
<1>6. <<t, refs[t][o]>> \in References(o)
  <2>1. refs[t][o] \in 1 .. refs[t][o]
    BY <1>4
  <2> QED BY <2>1, InReferences
<1>7. Cardinality(References(o)') = Cardinality(References(o)) - 1
  <2>1. IsFiniteSet(References(o))
    BY ReferencesFinite
  <2>2. Cardinality(References(o) \ {<<t, refs[t][o]>>}) = Cardinality(References(o)) - 1
    BY <1>6, <2>1, FS_RemoveElement
  <2> QED BY <1>5, <2>2
<1>8. ASSUME NEW p \in Object \ {o} PROVE References(p)' = References(p)
  BY <1>3 DEF References
<1> QED BY <1>1, <1>2, <1>3, <1>7, <1>8

LEMMA CountsKept ==
    ASSUME CountsMatch, UNCHANGED <<made, refcount, alive, listed, refs>>
    PROVE  CountsMatch'
BY DEF CountsMatch, Live, References

(* Calls. *)
LEMMA AllocCheckCounts ==
    ASSUME CountInv, NEW t \in Thread, NEW o \in Object, AllocCheck(t, o)
    PROVE  CountInv'
<1> USE DEF CountInv, TypeOK, PC, Shut, At, Up, Goto, tableVars, reapVars, runVars
<1>1. TypeOK'
  BY DEF AllocCheck, Start, FirstCount
<1>2. CountsMatch'
  BY DEF AllocCheck, CountsMatch, Live, References, LifeInv, Unknown
<1>3. LifeInv'
  BY <1>1
     DEF AllocCheck, Start, FirstCount, LifeInv, DecHolds, LooksRaw, Unknown, Unused,
         BeingMade, Making, AliveOnce, DeadUnheld, Dead, Unheld, Killing, Live,
         DisposedDead, Disposing, GoneDead, Gone
<1> QED BY <1>1, <1>2, <1>3

LEMMA ListCounts ==
    ASSUME CountInv, NEW t \in Thread, NEW o \in Object,
           ListAdd(t, o) \/ ListRemove(t, o) \/ Retain(t, o)
    PROVE  CountInv'
<1> USE DEF CountInv, TypeOK, PC, Shut, At, Up, Goto, tableVars, reapVars, runVars
<1>1. \A p \in Object : Cardinality(References(p)) \in Nat
  BY ReferencesFinite
<1>2. CASE ListAdd(t, o)
  <2>1. TypeOK'
    BY <1>2 DEF ListAdd
  <2>2. CountsMatch'
    <3>1. \A p \in Object : Cardinality(References(p))' = Cardinality(References(p))
      BY <1>2 DEF ListAdd, References
    <3> QED BY <1>1, <1>2, <3>1 DEF ListAdd, CountsMatch, Live
  <2>3. LifeInv'
    BY <1>2, <2>1
       DEF ListAdd, LifeInv, DecHolds, LooksRaw, Unknown, Unused, BeingMade, Making,
           AliveOnce, DeadUnheld, Dead, Unheld, Killing, Live, DisposedDead, Disposing,
           GoneDead, Gone
  <2> QED BY <2>1, <2>2, <2>3
<1>3. CASE ListRemove(t, o)
  <2>1. Gain(t, o)
    BY <1>3 DEF ListRemove
  <2>2. TypeOK'
    BY <1>3, <2>1, OneMore DEF ListRemove
  <2>3. CountsMatch'
    BY <1>1, <1>3, <2>1, OneMore DEF ListRemove, CountsMatch, Live
  <2>4. LifeInv'
    BY <1>3, <2>1, <2>2, OneMore
       DEF ListRemove, LifeInv, DecHolds, LooksRaw, Unknown, Unused, BeingMade, Making,
           AliveOnce, DeadUnheld, Dead, Unheld, Killing, Live, DisposedDead, Disposing,
           GoneDead, Gone
  <2> QED BY <2>2, <2>3, <2>4
<1>4. CASE Retain(t, o)
  <2>1. Gain(t, o) /\ alive[o] = 1
    BY <1>4 DEF Retain, Live
  <2>2. TypeOK'
    BY <1>4, <2>1, OneMore DEF Retain
  <2>3. CountsMatch'
    BY <1>1, <1>4, <2>1, OneMore DEF Retain, CountsMatch, Live
  <2>4. (DecHolds /\ LooksRaw /\ Unknown /\ BeingMade /\ AliveOnce)'
    <3>1. \A u \in Thread, p \in Object :
              /\ refs[u][p] > 0 => refs'[u][p] > 0
              /\ p # o => refs'[u][p] = refs[u][p]
      BY <2>1, OneMore
    <3>2. \A p \in Object \ {o} : Unused(p) => Unused(p)'
      BY <1>4, <3>1 DEF Retain, Unused
    <3>3. DecHolds' /\ LooksRaw' /\ AliveOnce'
      BY <1>4, <2>2, <3>1 DEF Retain, LifeInv, DecHolds, LooksRaw, AliveOnce
    <3>4. Unknown'
      BY <1>4, <2>1, <3>2 DEF Retain, LifeInv, Unknown
    <3>5. BeingMade'
      BY <1>4, <2>1, <3>2 DEF Retain, LifeInv, BeingMade, Making
    <3> QED BY <3>3, <3>4, <3>5
  <2>5. o \in listed \/ refs[t][o] > 0
    BY <1>4 DEF Retain
  <2>6. DeadUnheld'
    BY <1>4, <2>1, <2>5, OneMore
       DEF Retain, LifeInv, DeadUnheld, Dead, Unheld, Making, Killing, Live
  <2>7. (DisposedDead /\ GoneDead)'
    BY <1>4 DEF Retain, LifeInv, DisposedDead, Disposing, GoneDead, Gone, Dead, Making, Live
  <2> QED BY <2>2, <2>3, <2>4, <2>6, <2>7 DEF LifeInv
<1> QED BY <1>2, <1>3, <1>4

(* A reference to an object in use is found valid. *)
LEMMA HeldIsCounted ==
    ASSUME CountInv, NEW t \in Thread, NEW o \in Object, refs[t][o] > 0, Live(o)
    PROVE  refcount[o] > 0
<1>1. o \in made
  BY DEF CountInv, LifeInv, Unknown, Unused
<1>2. Cardinality(References(o)) \in Nat \ {0}
  BY NoReferences, ReferencesFinite DEF CountInv
<1> QED BY <1>1, <1>2 DEF CountInv, CountsMatch

LEMMA ReleaseCounts ==
    ASSUME CountInv, NEW t \in Thread, NEW o \in Object, Release(t, o)
    PROVE  CountInv'
<1> USE DEF CountInv, TypeOK, PC, Shut, At, Up, Goto, tableVars, reapVars, runVars
<1>1. CASE Live(o)
  <2>1. UNCHANGED refs /\ Goto(t, "dec")
    BY <1>1, HeldIsCounted DEF Release
  <2>2. TypeOK' /\ CountsMatch'
    BY <2>1, CountsKept DEF Release, Fault
  <2>3. LifeInv'
    BY <2>1, <2>2
       DEF Release, LifeInv, DecHolds, LooksRaw, Unknown, Unused, BeingMade, Making,
           AliveOnce, DeadUnheld, Dead, Unheld, Killing, Live, DisposedDead, Disposing,
           GoneDead, Gone
  <2> QED BY <2>2, <2>3
<1>2. CASE ~Live(o)
  <2>1. Lose(t, o) /\ refs[t][o] > 0
    BY <1>2 DEF Release
  <2>2. TypeOK'
    BY <1>2, <2>1, OneLess DEF Release, Fault
  <2>3. CountsMatch'
    BY <1>2, <2>1, OneLess DEF Release, CountsMatch, Live
  <2>4. \A u \in Thread, p \in Object : refs[u][p] = 0 => refs'[u][p] = 0
    BY <2>1, OneLess
  <2>5. (DecHolds /\ LooksRaw /\ Unknown /\ BeingMade /\ AliveOnce)'
    BY <1>2, <2>1, <2>4, OneLess
       DEF Release, LifeInv, DecHolds, LooksRaw, Unknown, Unused, BeingMade, Making, AliveOnce
  <2>6. (DeadUnheld /\ DisposedDead /\ GoneDead)'
    BY <1>2, <2>1, <2>4
       DEF Release, LifeInv, DeadUnheld, Dead, Unheld, Making, Killing, Live, DisposedDead,
           Disposing, GoneDead, Gone
  <2> QED BY <2>2, <2>3, <2>5, <2>6 DEF LifeInv
<1> QED BY <1>1, <1>2

LEMMA CallCounts ==
    ASSUME CountInv, NEW t \in Thread, NEW o \in Object, Call(t, o)
    PROVE  CountInv'
<1> USE DEF CountInv, TypeOK, PC, Shut, At, Up, Goto, tableVars, reapVars, runVars
<1>1. CASE Peek(t, o)
  <2>1. TypeOK' /\ CountsMatch'
    BY <1>1, CountsKept, RefcountAssumption DEF Peek, Start
  <2>2. LifeInv'
    BY <1>1, <2>1
       DEF Peek, Start, LifeInv, DecHolds, LooksRaw, Unknown, Unused, BeingMade, Making,
           AliveOnce, DeadUnheld, Dead, Unheld, Killing, Live, DisposedDead, Disposing,
           GoneDead, Gone
  <2> QED BY <2>1, <2>2
<1> QED BY <1>1, AllocCheckCounts, ListCounts, ReleaseCounts DEF Call

(* Steps of a call. *)
LEMMA AllocCounts ==
    ASSUME CountInv, NEW t \in Thread, AllocCreate(t) \/ AllocAppend(t) \/ AllocAlive(t)
    PROVE  CountInv'
<1> USE DEF CountInv, TypeOK, PC, Shut, At, Up, Goto, tableVars, reapVars, runVars
<1>1. CASE AllocCreate(t)
  <2>1. TypeOK' /\ CountsMatch'
    BY <1>1, CountsKept, RefcountAssumption DEF AllocCreate
  <2>2. (DecHolds /\ LooksRaw /\ Unknown /\ BeingMade /\ AliveOnce)'
    BY <1>1, <2>1
       DEF AllocCreate, LifeInv, DecHolds, LooksRaw, Unknown, Unused, BeingMade, Making, AliveOnce
  <2>3. (DeadUnheld /\ DisposedDead /\ GoneDead)'
    BY <1>1 DEF AllocCreate, LifeInv, DeadUnheld, Dead, Unheld, Making, Killing, Live,
                DisposedDead, Disposing, GoneDead, Gone
  <2> QED BY <2>1, <2>2, <2>3 DEF LifeInv
<1>2. CASE AllocAppend(t)
  <2>1. TypeOK' /\ CountsMatch'
    BY <1>2, CountsKept, RefcountAssumption DEF AllocAppend, Fault
  <2>2. LifeInv'
    BY <1>2, <2>1
       DEF AllocAppend, Fault, LifeInv, DecHolds, LooksRaw, Unknown, Unused, BeingMade,
           Making, AliveOnce, DeadUnheld, Dead, Unheld, Killing, Live, DisposedDead,
           Disposing, GoneDead, Gone
  <2> QED BY <2>1, <2>2
<1>3. CASE AllocAlive(t)
  <2>1. PICK o \in Object : o = obj[t]
    OBVIOUS
  <2>2. Gain(t, o)
    BY <1>3, <2>1 DEF AllocAlive
  <2>3. alive' = [alive EXCEPT ![o] = 1] /\ pc' = [pc EXCEPT ![t] = "idle"]
    BY <1>3, <2>1 DEF AllocAlive
  <2>4. refcount[o] = 1 /\ Unused(o)
    BY <1>3, <2>1 DEF AllocAlive, LifeInv, BeingMade, Making
  <2>5. TypeOK'
    BY <1>3, <2>2, <2>3, OneMore DEF AllocAlive
  <2>6. CountsMatch'
    <3>1. Cardinality(References(o)) = 0
      BY <2>4, NoReferences DEF Unused
    <3>2. Cardinality(References(o))' = 1
      BY <2>2, <3>1, OneMore
    <3>3. \A p \in Object \ {o} : Cardinality(References(p))' = Cardinality(References(p))
      BY <2>2, OneMore
    <3> QED BY <1>3, <2>3, <2>4, <3>2, <3>3 DEF AllocAlive, CountsMatch, Live, Unused
  <2>7. LifeInv'
    BY <1>3, <2>1, <2>2, <2>3, <2>5, OneMore
       DEF AllocAlive, LifeInv, DecHolds, LooksRaw, Unknown, Unused, BeingMade, Making,
           AliveOnce, DeadUnheld, Dead, Unheld, Killing, Live, DisposedDead, Disposing,
           GoneDead, Gone
  <2> QED BY <2>5, <2>6, <2>7
<1> QED BY <1>1, <1>2, <1>3

LEMMA LookCounts ==
    ASSUME CountInv, NEW t \in Thread, Look(t) \/ Incr(t)
    PROVE  CountInv'
<1> USE DEF CountInv, TypeOK, PC, Shut, At, Up, Goto, tableVars, reapVars, runVars
<1>1. CASE Look(t)
  <2>1. TypeOK' /\ CountsMatch'
    BY <1>1, CountsKept, RefcountAssumption DEF Look, Touch, Fault
  <2>2. LifeInv'
    BY <1>1, <2>1
       DEF Look, Touch, Fault, LifeInv, DecHolds, LooksRaw, Unknown, Unused, BeingMade,
           Making, AliveOnce, DeadUnheld, Dead, Unheld, Killing, Live, DisposedDead,
           Disposing, GoneDead, Gone
  <2> QED BY <2>1, <2>2
<1>2. CASE Incr(t)
  <2>1. PICK o \in Object : o = obj[t]
    OBVIOUS
  <2>2. Gain(t, o)
    BY <1>2, <2>1 DEF Incr
  <2>3. refcount' = [refcount EXCEPT ![o] = @ + 1] /\ pc' = [pc EXCEPT ![t] = "idle"]
    BY <1>2, <2>1 DEF Incr
  <2>4. TypeOK'
    BY <1>2, <2>2, <2>3, OneMore DEF Incr, Touch, Fault
  <2>5. CountsMatch'
    BY <1>2, <2>2, <2>3, OneMore, ReferencesFinite DEF Incr, CountsMatch, Live
  <2>6. LifeInv'
    BY <1>2, <2>1, <2>2, <2>3, <2>4, OneMore
       DEF Incr, LifeInv, DecHolds, LooksRaw, Unknown, Unused, BeingMade, Making,
           AliveOnce, DeadUnheld, Dead, Unheld, Killing, Live, DisposedDead, Disposing,
           GoneDead, Gone
  <2> QED BY <2>4, <2>5, <2>6
<1> QED BY <1>1, <1>2

(* The last reference: there was no other one, and the list had none. *)
LEMMA LastIsLast ==
    ASSUME CountInv, NEW t \in Thread, NEW o \in Object, o \in made, Live(o),
           refs[t][o] > 0, refcount[o] = 1, Lose(t, o)
    PROVE  o \notin listed /\ \A u \in Thread : refs'[u][o] = 0
<1>1. Cardinality(References(o)) \in Nat \ {0}
  BY NoReferences, ReferencesFinite DEF CountInv
<1>2. o \notin listed /\ Cardinality(References(o)) = 1
  BY <1>1 DEF CountInv, CountsMatch
<1>3. \E r : References(o) = {r}
  BY <1>2, FS_Singleton, ReferencesFinite DEF CountInv
<1>4. <<t, refs[t][o]>> \in References(o) /\ <<t, 1>> \in References(o)
  <2>1. refs[t][o] \in 1 .. refs[t][o] /\ 1 \in 1 .. refs[t][o]
    BY DEF CountInv, TypeOK
  <2> QED BY <2>1, InReferences
<1>5. refs'[t][o] = 0
  BY <1>3, <1>4, OneLess DEF CountInv
<1>6. ASSUME NEW u \in Thread \ {t} PROVE refs'[u][o] = 0
  <2>1. SUFFICES ASSUME refs[u][o] # 0 PROVE FALSE
    BY OneLess DEF CountInv
  <2>2. 1 \in 1 .. refs[u][o]
    BY <2>1 DEF CountInv, TypeOK
  <2>3. <<u, 1>> \in References(o)
    BY <2>2, InReferences
  <2> QED BY <1>3, <1>4, <2>3
<1> QED BY <1>2, <1>5, <1>6

LEMMA DecCounts ==
    ASSUME CountInv, NEW t \in Thread, Dec(t)
    PROVE  CountInv'
<1> USE DEF CountInv, TypeOK, PC, Shut, At, Up, Goto, tableVars, reapVars, runVars
<1>1. PICK o \in Object : o = obj[t]
  OBVIOUS
<1>2. o \in made /\ refs[t][o] > 0 /\ Lose(t, o) /\ ~Making(t, o)
  BY <1>1 DEF Dec, LifeInv, DecHolds, Unknown, Making
<1>3. refcount' = [refcount EXCEPT ![o] = @ - 1]
  BY <1>1 DEF Dec
<1>4. pc' = [pc EXCEPT ![t] = IF refcount[o] = 1 THEN "kill" ELSE "idle"]
  BY <1>1 DEF Dec, LastReference
<1>5. TypeOK'
  BY <1>2, <1>3, <1>4, OneLess DEF Dec, Touch, Fault
<1>6. CountsMatch'
  <2>1. \A p \in Object : Cardinality(References(p)) \in Nat
    BY ReferencesFinite
  <2>2. \A p \in Object : Cardinality(References(p))' =
            IF p = o THEN Cardinality(References(p)) - 1 ELSE Cardinality(References(p))
    BY <1>2, OneLess
  <2> QED BY <1>3, <2>1, <2>2 DEF Dec, CountsMatch, Live
<1>7. refcount[o] = 1 => Unheld(o)'
  <2>1. CASE Live(o)
    BY <1>2, <2>1, LastIsLast DEF Dec, Unheld
  <2>2. CASE ~Live(o)
    <3>1. Dead(o)
      BY <1>1, <1>2, <2>2 DEF Dec, Dead, LifeInv, BeingMade, Making, Unused
    <3>2. Unheld(o)
      BY <3>1 DEF LifeInv, DeadUnheld
    <3>3. t \in Raw
      BY <1>2, <3>2 DEF Unheld
    <3>4. \A u \in Thread \ {t} : refs'[u][o] = refs[u][o]
      BY <1>2, OneLess
    <3> QED BY <3>2, <3>3, <3>4 DEF Dec, Unheld
  <2> QED BY <2>1, <2>2
<1>8. \A u \in Thread, p \in Object : refs[u][p] = 0 => refs'[u][p] = 0
  <2>1. \A u \in Thread, p \in Object : u # t \/ p # o => refs'[u][p] = refs[u][p]
    BY <1>2, OneLess
  <2> QED BY <1>2, <2>1
<1>9. (DecHolds /\ LooksRaw /\ Unknown /\ BeingMade /\ AliveOnce)'
  BY <1>1, <1>2, <1>3, <1>4, <1>5, <1>8, OneLess
     DEF Dec, LifeInv, DecHolds, LooksRaw, Unknown, Unused, BeingMade, Making, AliveOnce
<1>10. DeadUnheld'
  BY <1>1, <1>4, <1>7, <1>8
     DEF Dec, LifeInv, DeadUnheld, Dead, Unheld, Making, Killing, Live
<1>11. (DisposedDead /\ GoneDead)'
  BY <1>4 DEF Dec, LifeInv, DisposedDead, Disposing, GoneDead, Gone, Dead, Making, Live
<1> QED BY <1>5, <1>6, <1>9, <1>10, <1>11 DEF LifeInv

LEMMA KillCounts ==
    ASSUME CountInv, NEW t \in Thread, Kill(t)
    PROVE  CountInv'
<1> USE DEF CountInv, TypeOK, PC, Shut, At, Up, Goto, tableVars, reapVars, runVars
<1>1. TypeOK'
  BY DEF Kill, Touch, Fault
<1>2. CountsMatch'
  <2>1. \A p \in Object : Cardinality(References(p))' = Cardinality(References(p))
    BY DEF Kill, References
  <2>2. \A p \in Object : Live(p)' => Live(p)
    BY DEF Kill, Live, LifeInv, AliveOnce
  <2> QED BY <2>1, <2>2 DEF Kill, CountsMatch
<1>3. \A p \in Object : ~Live(p) => ~Live(p)'
  BY DEF Kill, Live, LifeInv, AliveOnce
<1>4. \A p \in Object : ~Live(p)' => ~Live(p) \/ p = obj[t]
  BY DEF Kill, Live
<1>5. (DecHolds /\ LooksRaw /\ Unknown /\ BeingMade /\ AliveOnce)'
  BY <1>1 DEF Kill, LifeInv, DecHolds, LooksRaw, Unknown, Unused, BeingMade, Making, AliveOnce
<1>6. DeadUnheld'
  BY <1>4 DEF Kill, LifeInv, DeadUnheld, Dead, Unheld, Making, Killing
<1>7. (DisposedDead /\ GoneDead)'
  BY <1>3 DEF Kill, LifeInv, DisposedDead, Disposing, GoneDead, Gone, Dead, Making
<1> QED BY <1>1, <1>2, <1>5, <1>6, <1>7 DEF LifeInv

LEMMA DisposeCounts ==
    ASSUME CountInv, NEW t \in Thread,
           Seek(t) \/ Unlink(t) \/ Park(t) \/ Insert(t) \/ Destroy(t) \/ Cleanup(t)
    PROVE  CountInv'
<1> USE DEF CountInv, TypeOK, PC, Shut, At, Up, Goto, tableVars, reapVars, runVars
<1>1. CASE Seek(t)
  <2>1. TypeOK' /\ CountsMatch'
    BY <1>1, CountsKept, RefcountAssumption DEF Seek
  <2>2. (DecHolds /\ LooksRaw /\ Unknown /\ BeingMade /\ AliveOnce)'
    BY <1>1, <2>1
       DEF Seek, LifeInv, DecHolds, LooksRaw, Unknown, Unused, BeingMade, Making,
           AliveOnce
  <2>3. (DeadUnheld /\ DisposedDead /\ GoneDead)'
    BY <1>1, <2>1
       DEF Seek, LifeInv, DeadUnheld, Dead, Unheld, Making, Killing, Live, DisposedDead,
           Disposing, GoneDead, Gone
  <2> QED BY <2>1, <2>2, <2>3 DEF LifeInv
<1>2. CASE Unlink(t)
  <2>1. linked' \subseteq linked /\ pc' \in [Thread -> PC] /\ tidy' \in [Thread -> BOOLEAN]
    BY <1>2 DEF Unlink
  <2>2. TypeOK' /\ CountsMatch'
    BY <1>2, <2>1, CountsKept DEF Unlink, Fault
  <2>3. LifeInv'
    BY <1>2, <2>2
       DEF Unlink, Killed, LifeInv, DecHolds, LooksRaw, Unknown, Unused, BeingMade, Making,
           AliveOnce, DeadUnheld, Dead, Unheld, Killing, Live, DisposedDead, Disposing,
           GoneDead, Gone
  <2> QED BY <2>2, <2>3
<1>3. CASE Park(t)
  <2>1. TypeOK' /\ CountsMatch'
    BY <1>3, CountsKept, RefcountAssumption DEF Park
  <2>2. (DecHolds /\ LooksRaw /\ Unknown /\ BeingMade /\ AliveOnce)'
    BY <1>3, <2>1
       DEF Park, LifeInv, DecHolds, LooksRaw, Unknown, Unused, BeingMade, Making,
           AliveOnce
  <2>3. (DeadUnheld /\ DisposedDead /\ GoneDead)'
    BY <1>3, <2>1
       DEF Park, LifeInv, DeadUnheld, Dead, Unheld, Making, Killing, Live, DisposedDead,
           Disposing, GoneDead, Gone
  <2> QED BY <2>1, <2>2, <2>3 DEF LifeInv
<1>4. CASE Insert(t)
  <2>1. TypeOK' /\ CountsMatch'
    BY <1>4, CountsKept, RefcountAssumption DEF Insert
  <2>2. (DecHolds /\ LooksRaw /\ Unknown /\ BeingMade /\ AliveOnce)'
    BY <1>4, <2>1
       DEF Insert, LifeInv, DecHolds, LooksRaw, Unknown, Unused, BeingMade, Making,
           AliveOnce
  <2>3. (DeadUnheld /\ DisposedDead /\ GoneDead)'
    BY <1>4, <2>1
       DEF Insert, LifeInv, DeadUnheld, Dead, Unheld, Making, Killing, Live, DisposedDead,
           Disposing, GoneDead, Gone
  <2> QED BY <2>1, <2>2, <2>3 DEF LifeInv
<1>5. CASE Destroy(t)
  <2>1. TypeOK' /\ CountsMatch'
    BY <1>5, CountsKept, RefcountAssumption DEF Destroy
  <2>2. (DecHolds /\ LooksRaw /\ Unknown /\ BeingMade /\ AliveOnce)'
    BY <1>5, <2>1
       DEF Destroy, LifeInv, DecHolds, LooksRaw, Unknown, Unused, BeingMade, Making,
           AliveOnce
  <2>3. (DeadUnheld /\ DisposedDead /\ GoneDead)'
    BY <1>5, <2>1
       DEF Destroy, LifeInv, DeadUnheld, Dead, Unheld, Making, Killing, Live, DisposedDead,
           Disposing, GoneDead, Gone
  <2> QED BY <2>1, <2>2, <2>3 DEF LifeInv
<1>6. CASE Cleanup(t)
  <2>1. TypeOK' /\ CountsMatch'
    BY <1>6, CountsKept, RefcountAssumption DEF Cleanup
  <2>2. (DecHolds /\ LooksRaw /\ Unknown /\ BeingMade /\ AliveOnce)'
    BY <1>6, <2>1
       DEF Cleanup, LifeInv, DecHolds, LooksRaw, Unknown, Unused, BeingMade, Making,
           AliveOnce
  <2>3. (DeadUnheld /\ DisposedDead /\ GoneDead)'
    BY <1>6, <2>1
       DEF Cleanup, LifeInv, DeadUnheld, Dead, Unheld, Making, Killing, Live, DisposedDead,
           Disposing, GoneDead, Gone
  <2> QED BY <2>1, <2>2, <2>3 DEF LifeInv
<1> QED BY <1>1, <1>2, <1>3, <1>4, <1>5, <1>6

(* The reaper and the shutdown. *)
LEMMA ReapCounts ==
    ASSUME CountInv, Reap \/ ReapOne \/ ShutNext
    PROVE  CountInv'
<1> USE DEF CountInv, TypeOK, PC, Shut, At, Up, Goto, tableVars, reapVars, runVars
<1>1. CASE Reap
  <2>1. TypeOK' /\ CountsMatch'
    BY <1>1, CountsKept, RefcountAssumption DEF Reap
  <2>2. LifeInv'
    BY <1>1, <2>1
       DEF Reap, LifeInv, DecHolds, LooksRaw, Unknown, Unused, BeingMade, Making,
           AliveOnce, DeadUnheld, Dead, Unheld, Killing, Live, DisposedDead, Disposing,
           GoneDead, Gone
  <2> QED BY <2>1, <2>2
<1>2. CASE ReapOne
  <2>1. TypeOK' /\ CountsMatch'
    BY <1>2, CountsKept, RefcountAssumption DEF ReapOne
  <2>2. LifeInv'
    BY <1>2, <2>1
       DEF ReapOne, LifeInv, DecHolds, LooksRaw, Unknown, Unused, BeingMade, Making,
           AliveOnce, DeadUnheld, Dead, Unheld, Killing, Live, DisposedDead, Disposing,
           GoneDead, Gone
  <2> QED BY <2>1, <2>2
<1>3. CASE Stop
  <2>1. TypeOK' /\ CountsMatch'
    BY <1>3, CountsKept, RefcountAssumption DEF Stop
  <2>2. LifeInv'
    BY <1>3, <2>1
       DEF Stop, LifeInv, DecHolds, LooksRaw, Unknown, Unused, BeingMade, Making,
           AliveOnce, DeadUnheld, Dead, Unheld, Killing, Live, DisposedDead, Disposing,
           GoneDead, Gone
  <2> QED BY <2>1, <2>2
<1>4. CASE Join
  <2>1. TypeOK' /\ CountsMatch'
    BY <1>4, CountsKept, RefcountAssumption DEF Join
  <2>2. LifeInv'
    BY <1>4, <2>1
       DEF Join, LifeInv, DecHolds, LooksRaw, Unknown, Unused, BeingMade, Making,
           AliveOnce, DeadUnheld, Dead, Unheld, Killing, Live, DisposedDead, Disposing,
           GoneDead, Gone
  <2> QED BY <2>1, <2>2
<1>5. CASE Drain
  <2>1. TypeOK' /\ CountsMatch'
    BY <1>5, CountsKept, RefcountAssumption DEF Drain
  <2>2. LifeInv'
    BY <1>5, <2>1
       DEF Drain, LifeInv, DecHolds, LooksRaw, Unknown, Unused, BeingMade, Making,
           AliveOnce, DeadUnheld, Dead, Unheld, Killing, Live, DisposedDead, Disposing,
           GoneDead, Gone
  <2> QED BY <2>1, <2>2
<1>6. CASE Sweep
  <2>1. TypeOK' /\ CountsMatch'
    BY <1>6, CountsKept, RefcountAssumption DEF Sweep, LastRound
  <2>2. LifeInv'
    BY <1>6, <2>1
       DEF Sweep, LastRound, LifeInv, DecHolds, LooksRaw, Unknown, Unused, BeingMade,
           Making, AliveOnce, DeadUnheld, Dead, Unheld, Killing, Live, DisposedDead,
           Disposing, GoneDead, Gone
  <2> QED BY <2>1, <2>2
<1> QED BY <1>1, <1>2, <1>3, <1>4, <1>5, <1>6 DEF ShutNext

LEMMA StepCounts == CountInv /\ [RunNext \/ ShutNext]_vars => CountInv'
<1> SUFFICES ASSUME CountInv, [RunNext \/ ShutNext]_vars PROVE CountInv'
    OBVIOUS
<1>1. CASE \E t \in Thread : Step(t)
  BY <1>1, AllocCounts, LookCounts, DecCounts, KillCounts, DisposeCounts DEF Step
<1>2. CASE \E t \in Thread : \E o \in Object : Call(t, o)
  BY <1>2, CallCounts
<1>3. CASE Reap \/ ReapOne \/ ShutNext
  BY <1>3, ReapCounts
<1>4. CASE UNCHANGED vars
  <2>1. TypeOK' /\ CountsMatch'
    BY <1>4, CountsKept DEF vars, CountInv, TypeOK
  <2>2. LifeInv'
    BY <1>4
       DEF vars, CountInv, LifeInv, DecHolds, LooksRaw, Unknown, Unused, BeingMade, Making,
           AliveOnce, DeadUnheld, Dead, Unheld, Killing, Live, DisposedDead, Disposing,
           GoneDead, Gone
  <2> QED BY <2>1, <2>2 DEF CountInv
<1> QED BY <1>1, <1>2, <1>3, <1>4 DEF RunNext

LEMMA InitCounts == Init => CountInv
<1> SUFFICES ASSUME Init PROVE CountInv
    OBVIOUS
<1>1. TypeOK
  BY RefcountAssumption DEF Init, TypeOK, PC, Shut
<1>2. CountsMatch
  BY DEF Init, CountsMatch
<1>3. LifeInv
  BY
     DEF Init, LifeInv, DecHolds, LooksRaw, Unknown, Unused, BeingMade, Making, AliveOnce,
         DeadUnheld, Dead, Unheld, Killing, Live, DisposedDead, Disposing, GoneDead, Gone
<1> QED BY <1>1, <1>2, <1>3 DEF CountInv

(* Every variable of the table keeps its type, and no thread has less than no *)
(* reference.                                                                  *)
THEOREM TypeCorrect == Spec => []TypeOK
<1>1. CountInv => TypeOK
  BY DEF CountInv
<1> QED BY <1>1, InitCounts, StepCounts, PTL DEF Spec

(* The count of an object in use is the number of references to it, for every *)
(* number of threads that retain, release and read raw pointers at any time.   *)
THEOREM CountsAreReferences == Spec => []CountsMatch
<1>1. CountInv => CountsMatch
  BY DEF CountInv
<1> QED BY <1>1, InitCounts, StepCounts, PTL DEF Spec

(* Who retains by the rules never holds, nor finds in a list, an object that  *)
(* has been destroyed before the sweep of the shutdown.                        *)
THEOREM HeldStays == Spec => []HeldNotDestroyed
<1>1. CountInv => HeldNotDestroyed
  <2> SUFFICES ASSUME CountInv, shut \notin {"sweep", "down"}, NEW o \in made, Gone(o)
               PROVE  Unheld(o)
      BY DEF HeldNotDestroyed, Unheld
  <2> QED BY DEF CountInv, TypeOK, LifeInv, DeadUnheld, GoneDead
<1> QED BY <1>1, InitCounts, StepCounts, PTL DEF Spec
-----------------------------------------------------------------------------
(* The life of an object, while the module stays loaded and everybody retains *)
(* by the rules: an object that is dead, or about to be killed, has no         *)
(* reference left.                                                             *)
DeadCounts ==
    \A o \in Object : Dead(o) \/ (\E t \in Thread : Killing(t, o)) => refcount[o] = 0

RunInv == PlaceInv /\ CountInv /\ DeadCounts /\ shut = "up"

(* Who has a reference has it to a live object, which has been counted. *)
LEMMA UsedIsCounted ==
    ASSUME RunInv, Raw = {}, NEW o \in Object,
           (\E t \in Thread : refs[t][o] > 0) \/ (o \in listed /\ Live(o))
    PROVE  /\ o \in made /\ refcount[o] \in Nat \ {0} /\ Live(o) /\ ~Gone(o)
           /\ \A t \in Thread : ~Killing(t, o)
<1> USE DEF RunInv, CountInv
<1>1. o \in made /\ \A t \in Thread : ~Making(t, o)
  BY DEF LifeInv, Unknown, BeingMade, Unused
<1>2. Live(o)
  <2>1. CASE \E t \in Thread : refs[t][o] > 0
    BY <1>1, <2>1 DEF LifeInv, DeadUnheld, Dead, Unheld
  <2> QED BY <2>1
<1>3. refcount[o] > 0
  <2>1. CASE \E t \in Thread : refs[t][o] > 0
    BY <1>2, <2>1, HeldIsCounted
  <2>2. CASE o \in listed
    BY <1>1, <1>2, <2>2, ReferencesFinite DEF CountsMatch
  <2> QED BY <2>1, <2>2
<1>4. ~Gone(o) /\ \A t \in Thread : ~Killing(t, o)
  BY <1>2, <1>3 DEF LifeInv, GoneDead, Dead, DeadCounts
<1> QED BY <1>1, <1>2, <1>3, <1>4 DEF TypeOK

(* What a step of the table does to the life of the objects. *)
Born(o) ==
    /\ o \notin made /\ made' = made \cup {o}
    /\ refcount' = [refcount EXCEPT ![o] = 1] /\ UNCHANGED destructions
Acquired(o) ==
    /\ o \in made /\ refcount[o] > 0 /\ refcount' = [refcount EXCEPT ![o] = @ + 1]
    /\ UNCHANGED <<made, destructions>>
Dropped(o) ==
    /\ o \in made /\ refcount[o] > 0 /\ ~Gone(o)
    /\ refcount' = [refcount EXCEPT ![o] = @ - 1] /\ UNCHANGED <<made, destructions>>
Reclaims(o) ==
    /\ o \in made /\ refcount[o] = 0 /\ ~Gone(o)
    /\ destructions' = [destructions EXCEPT ![o] = @ + 1] /\ UNCHANGED <<made, refcount>>
Lives ==
    \/ UNCHANGED <<made, refcount, destructions>>
    \/ \E o \in Object : Born(o) \/ Acquired(o) \/ Dropped(o) \/ Reclaims(o)

LEMMA StepLives ==
    ASSUME RunInv, Raw = {}, [RunNext]_vars
    PROVE  Lives
<1> USE DEF RunInv, CountInv, TypeOK, Lives, reapVars
<1>1. ASSUME NEW t \in Thread, Step(t) PROVE Lives
  <2>1. CASE AllocCreate(t) \/ AllocAppend(t) \/ AllocAlive(t) \/ Look(t) \/ Kill(t) \/ Seek(t)
    BY <2>1 DEF AllocCreate, AllocAppend, AllocAlive, Look, Kill, Seek
  <2>2. CASE Unlink(t) \/ Park(t) \/ Insert(t) \/ Cleanup(t)
    BY <2>2 DEF Unlink, Park, Insert, Cleanup
  <2>3. CASE Incr(t)
    BY <2>3 DEF Incr, At, LifeInv, LooksRaw
  <2>4. CASE Dec(t)
    <3>1. refs[t][obj[t]] > 0 /\ obj[t] \in Object
      BY <2>4 DEF Dec, At, LifeInv, DecHolds
    <3>2. Dropped(obj[t])
      BY <2>4, <3>1, UsedIsCounted DEF Dec, Dropped
    <3> QED BY <3>1, <3>2
  <2>5. CASE Destroy(t)
    <3>1. obj[t] \in Object /\ Dead(obj[t])
      BY <2>5 DEF Destroy, At, LifeInv, DisposedDead, Disposing
    <3>2. destructions[obj[t]] = 0
      BY <2>5 DEF Destroy, At, PlaceInv, OwnedElsewhere, Owns
    <3>3. Reclaims(obj[t])
      BY <2>5, <3>1, <3>2 DEF Destroy, Reclaims, Gone, DeadCounts, Dead
    <3> QED BY <3>1, <3>3
  <2> QED BY <1>1, <2>1, <2>2, <2>3, <2>4, <2>5 DEF Step
<1>2. ASSUME NEW t \in Thread, NEW o \in Object, Call(t, o) PROVE Lives
  <2>1. CASE AllocCheck(t, o)
    BY <2>1 DEF AllocCheck, FirstCount, Born
  <2>2. CASE ListAdd(t, o)
    <3>1. o \in made /\ refcount[o] > 0
      BY <2>2, UsedIsCounted DEF ListAdd
    <3>2. Acquired(o)
      BY <2>2, <3>1 DEF ListAdd, Acquired
    <3> QED BY <3>2
  <2>3. CASE Retain(t, o)
    <3>1. o \in made /\ refcount[o] > 0
      BY <2>3, UsedIsCounted DEF Retain
    <3>2. Acquired(o)
      BY <2>3, <3>1 DEF Retain, Acquired
    <3> QED BY <3>2
  <2>4. CASE ListRemove(t, o) \/ Peek(t, o) \/ Release(t, o)
    BY <2>4 DEF ListRemove, Peek, Release
  <2> QED BY <1>2, <2>1, <2>2, <2>3, <2>4 DEF Call
<1>3. CASE Reap
  BY <1>3 DEF Reap
<1>4. CASE ReapOne
  <2>1. PICK o \in batch : destructions' = [destructions EXCEPT ![o] = @ + 1]
    BY <1>4 DEF ReapOne
  <2>2. o \in Object /\ Dead(o) /\ destructions[o] = 0
    BY <2>1 DEF LifeInv, DisposedDead, PlaceInv, OnePlace
  <2>3. Reclaims(o)
    <3>1. UNCHANGED <<made, refcount>>
      BY <1>4 DEF ReapOne
    <3>2. o \in made /\ refcount[o] = 0
      BY <2>2 DEF DeadCounts, Dead
    <3> QED BY <2>1, <2>2, <3>1, <3>2 DEF Reclaims, Gone
  <2> QED BY <2>2, <2>3
<1>5. CASE UNCHANGED vars
  BY <1>5 DEF vars
<1> QED BY <1>1, <1>2, <1>3, <1>4, <1>5 DEF RunNext

(* Nothing dies but by the loss of its last reference. *)
Ends(o) == Dead(o) \/ \E t \in Thread : Killing(t, o)

LEMMA EndsByLoss ==
    ASSUME RunInv, Raw = {}, [RunNext]_vars, NEW o \in Object, Ends(o)'
    PROVE  Ends(o) \/ refcount'[o] = 0
<1> USE DEF RunInv, CountInv, TypeOK, PC, Ends, Dead, Killing, Making, Live, At, Goto, reapVars
<1>1. ASSUME NEW t \in Thread, Step(t) PROVE Ends(o) \/ refcount'[o] = 0
  <2>1. CASE AllocCreate(t) \/ AllocAppend(t)
    BY <2>1 DEF AllocCreate, AllocAppend
  <2>2. CASE AllocAlive(t)
    BY <2>2 DEF AllocAlive
  <2>3. CASE Look(t) \/ Seek(t) \/ Cleanup(t) \/ Park(t) \/ Insert(t) \/ Destroy(t)
    BY <2>3 DEF Look, Seek, Cleanup, Park, Insert, Destroy
  <2>4. CASE Unlink(t)
    BY <2>4 DEF Unlink
  <2>5. CASE Incr(t)
    BY <2>5 DEF Incr, LifeInv, LooksRaw
  <2>6. CASE Dec(t)
    BY <2>6 DEF Dec, LastReference
  <2>7. CASE Kill(t)
    BY <2>7 DEF Kill
  <2> QED BY <1>1, <2>1, <2>2, <2>3, <2>4, <2>5, <2>6, <2>7 DEF Step
<1>2. ASSUME NEW t \in Thread, NEW p \in Object, Call(t, p) PROVE Ends(o)
  <2>1. CASE AllocCheck(t, p)
    BY <2>1 DEF AllocCheck, Start, LifeInv, Unknown
  <2>2. CASE ListAdd(t, p) \/ ListRemove(t, p) \/ Retain(t, p)
    BY <2>2 DEF ListAdd, ListRemove, Retain
  <2>3. CASE Peek(t, p)
    BY <2>3 DEF Peek
  <2>4. CASE Release(t, p)
    BY <2>4 DEF Release
  <2> QED BY <1>2, <2>1, <2>2, <2>3, <2>4 DEF Call
<1>3. CASE Reap \/ ReapOne \/ UNCHANGED vars
  BY <1>3 DEF Reap, ReapOne, vars
<1> QED BY <1>1, <1>2, <1>3 DEF RunNext

LEMMA StepRun ==
    ASSUME RunInv, Raw = {}, [RunNext]_vars
    PROVE  RunInv'
<1>1. PlaceInv' /\ CountInv'
  BY StepPlaces, StepCounts DEF RunInv
<1>2. shut' = "up"
  <2> USE DEF RunInv, runVars
  <2>1. ASSUME NEW t \in Thread, Step(t) PROVE UNCHANGED shut
    BY <2>1 DEF Step, AllocCreate, AllocAppend, AllocAlive, Look, Incr, Dec, Kill, Seek, Unlink,
                Park, Insert, Destroy, Cleanup
  <2>2. ASSUME NEW t \in Thread, NEW o \in Object, Call(t, o) PROVE UNCHANGED shut
    BY <2>2 DEF Call, AllocCheck, ListAdd, ListRemove, Retain, Peek, Release
  <2> QED BY <2>1, <2>2 DEF RunNext, Reap, ReapOne, vars
<1>3. DeadCounts'
  <2> SUFFICES ASSUME NEW o \in Object, Ends(o)' PROVE refcount'[o] = 0
      BY DEF DeadCounts, Ends
  <2>1. CASE Ends(o)
    <3>1. o \in made /\ refcount[o] = 0
      BY <2>1 DEF RunInv, CountInv, LifeInv, Unknown, DeadCounts, Ends, Dead, Killing
    <3>2. \A p \in Object : Born(p) \/ Acquired(p) \/ Dropped(p) => p # o
      BY <3>1 DEF Born, Acquired, Dropped
    <3> QED BY <3>1, <3>2, StepLives
            DEF Lives, Born, Acquired, Dropped, Reclaims, RunInv, CountInv, TypeOK
  <2> QED BY <2>1, EndsByLoss
<1> QED BY <1>1, <1>2, <1>3 DEF RunInv

(* The table, its users and its reaper implement ObjectLife, for any number of *)
(* objects, threads and lists, while the module stays loaded and everybody     *)
(* retains by the rules: what is made comes to life once, is acquired and      *)
(* dropped while it is live, dies with its last reference and is destroyed once *)
(* after that.                                                                  *)
THEOREM RefinesObjectLife ==
    ASSUME Raw = {}
    PROVE  RunSpec => LifeSpec
<1> DEFINE life == [o \in Object |-> IF o \notin made THEN "absent"
                                     ELSE IF refcount[o] > 0 THEN "live"
                                     ELSE IF Gone(o) THEN "gone" ELSE "dead"]
<1>1. Init => RunInv /\ Life!Init
  <2> SUFFICES ASSUME Init PROVE RunInv /\ Life!Init
      OBVIOUS
  <2>1. DeadCounts /\ shut = "up"
    BY DEF Init, DeadCounts
  <2>2. Life!Init
    BY DEF Init, Life!Init
  <2> QED BY <2>1, <2>2, InitPlaces, InitCounts DEF RunInv
<1>2. RunInv /\ [RunNext]_vars => RunInv'
  BY StepRun
<1>3. RunInv /\ [RunNext]_vars => [Life!Next]_<<life, refcount>>
  <2> SUFFICES ASSUME RunInv, [RunNext]_vars PROVE [Life!Next]_<<life, refcount>>
      OBVIOUS
  <2> USE DEF RunInv, CountInv, TypeOK, Gone
  <2>1. CASE UNCHANGED <<made, refcount, destructions>>
    BY <2>1
  <2>2. ASSUME NEW o \in Object, Born(o) PROVE Life!Create(o)
    <3>1. life[o] = "absent"
      BY <2>2 DEF Born
    <3>2. \A p \in Object : life'[p] = IF p = o THEN "live" ELSE life[p]
      BY <2>2 DEF Born
    <3>3. life' = [life EXCEPT ![o] = "live"]
      BY <3>2
    <3> QED BY <2>2, <3>1, <3>3 DEF Born, Life!Create
  <2>3. ASSUME NEW o \in Object, Acquired(o) PROVE Life!Acquire(o)
    BY <2>3 DEF Acquired, Life!Acquire
  <2>4. ASSUME NEW o \in Object, Dropped(o) PROVE Life!Drop(o)
    <3>1. life[o] = "live"
      BY <2>4 DEF Dropped
    <3>2. \A p \in Object : life'[p] = IF p = o THEN IF refcount[o] = 1 THEN "dead" ELSE "live" ELSE life[p]
      BY <2>4 DEF Dropped
    <3>3. life' = [life EXCEPT ![o] = IF refcount[o] = 1 THEN "dead" ELSE "live"]
      BY <3>2
    <3> QED BY <2>4, <3>1, <3>3 DEF Dropped, Life!Drop
  <2>5. ASSUME NEW o \in Object, Reclaims(o) PROVE Life!Reclaim(o)
    <3>1. life[o] = "dead"
      BY <2>5 DEF Reclaims
    <3>2. \A p \in Object : life'[p] = IF p = o THEN "gone" ELSE life[p]
      BY <2>5 DEF Reclaims
    <3>3. life' = [life EXCEPT ![o] = "gone"]
      BY <3>2
    <3> QED BY <2>5, <3>1, <3>3 DEF Reclaims, Life!Reclaim
  <2> QED BY <2>1, <2>2, <2>3, <2>4, <2>5, StepLives DEF Lives, Life!Next
<1> QED BY <1>1, <1>2, <1>3, PTL DEF RunSpec, LifeSpec, Life!LifeSpec
=============================================================================
