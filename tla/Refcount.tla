------------------------------ MODULE Refcount ------------------------------
(***************************************************************************)
(* src/src/sccp_refcount.c: reference counted objects in a hash table,     *)
(* their deferred destruction and the shutdown of the table.               *)
(*                                                                         *)
(* The table is guarded by objectslock and a lock per bucket.  A critical  *)
(* section of either is one step; what the code does between two of them,  *)
(* and every atomic operation on a counter, is a step of its own.  The     *)
(* users of an object are threads with references of their own and one     *)
(* list per object (GLOB(devices), GLOB(lines), ...) that holds a          *)
(* reference for as long as the object is in it.                           *)
(*                                                                         *)
(* The three seconds of grace are abstract: an object is taken out of the  *)
(* quarantine only when no thread is inside a call on it.                  *)
(***************************************************************************)
EXTENDS Integers, FiniteSets

CONSTANTS Object,      \* the allocations of a behaviour; an address is not used twice
          Bucket,      \* hash values
          BucketOf,    \* SCCP_SIMPLE_HASH
          NTypes,      \* the types are 1 .. NTypes
          TypeOf,      \* the type of each object
          Thread,
          MaxRefs,     \* bound on the references a thread holds on one object
          Raw,         \* threads that retain objects through pointers they hold no lock for
          HasReaper    \* does the reaper thread start? the possible answers

ASSUME RefcountAssumption ==
    /\ BucketOf \in [Object -> Bucket]
    /\ NTypes \in Nat
    /\ TypeOf \in [Object -> 1 .. NTypes]
    /\ MaxRefs \in Nat \ {0}
    /\ IsFiniteSet(Thread) /\ Raw \subseteq Thread
    /\ HasReaper \subseteq BOOLEAN /\ HasReaper # {}

VARIABLES
    runState,     \* "running", "stopped" or "destroyed"
    reaping,      \* reaper_running
    buckets,      \* the hash values with a list, objects[hash] # NULL
    linked,       \* objects in the list of their bucket
    made,         \* objects allocated
    refcount,     \* obj->refcount
    alive,        \* obj->alive in units of SCCP_LIVE_MARKER
    quarantine, batch,   \* dead objects waiting, and in the hands of the reaper
    destructions, \* how often an object was destroyed
    listed,       \* objects in a list of their users
    refs,         \* references held by each thread
    pc, obj,      \* what each thread is doing, and to which object
    tidy,         \* cleanup_objects: has the thread left the list empty?
    fault,        \* invalid memory accesses: "bucket" or "object"
    shut, round   \* progress of sccp_refcount_destroy, and of its sweep

vars == <<runState, reaping, buckets, linked, made, refcount, alive, quarantine, batch,
          destructions, listed, refs, pc, obj, tidy, fault, shut, round>>

tableVars == <<buckets, linked>>
reapVars  == <<quarantine, batch, destructions>>
runVars   == <<runState, reaping, shut, round>>

PC == {"idle", "create", "append", "alive", "look", "incr", "dec", "kill", "seek",
       "unlink", "park", "insert", "destroy", "cleanup"}
Shut == {"up", "join", "drain", "sweep", "down"}

TypeOK ==
    /\ runState \in {"running", "stopped", "destroyed"}
    /\ reaping \in BOOLEAN
    /\ buckets \subseteq Bucket
    /\ linked \subseteq Object /\ made \subseteq Object /\ listed \subseteq Object
    /\ quarantine \subseteq Object /\ batch \subseteq Object
    /\ refcount \in [Object -> Int]
    /\ alive \in [Object -> Int]
    /\ destructions \in [Object -> Nat]
    /\ refs \in [Thread -> [Object -> Nat]]
    /\ pc \in [Thread -> PC]
    /\ obj \in [Thread -> Object]
    /\ tidy \in [Thread -> BOOLEAN]
    /\ fault \subseteq {"bucket", "object"}
    /\ shut \in Shut /\ round \in 0 .. NTypes

Init ==
    /\ runState = "running" /\ reaping \in HasReaper
    /\ buckets = {} /\ linked = {} /\ made = {} /\ listed = {}
    /\ quarantine = {} /\ batch = {}
    /\ refcount = [o \in Object |-> 0]
    /\ alive = [o \in Object |-> 0]
    /\ destructions = [o \in Object |-> 0]
    /\ refs = [t \in Thread |-> [o \in Object |-> 0]]
    /\ pc = [t \in Thread |-> "idle"]
    /\ obj \in [Thread -> Object]
    /\ tidy = [t \in Thread |-> FALSE]
    /\ fault = {}
    /\ shut = "up" /\ round = 0

Live(o) == alive[o] = 1
Gone(o) == destructions[o] > 0
InList(b) == {o \in linked : BucketOf[o] = b}
Inside(o) == {t \in Thread : pc[t] # "idle" /\ obj[t] = o}

Up == fault = {} /\ shut # "down"
At(t, where) == Up /\ pc[t] = where
Goto(t, where) == pc' = [pc EXCEPT ![t] = where]
Start(t, o, where) == Goto(t, where) /\ obj' = [obj EXCEPT ![t] = o]
Gain(t, o) == refs' = [refs EXCEPT ![t][o] = @ + 1]
Lose(t, o) == refs' = [refs EXCEPT ![t][o] = @ - 1]
Fault(what) == fault' = fault \cup {what}

(* Reading the header of an object that has been freed. *)
Touch(t) == IF Gone(obj[t]) THEN Fault("object") ELSE UNCHANGED fault

(***************************************************************************)
(* sccp_refcount_object_alloc                                              *)
(***************************************************************************)

Uncounted == 0
FirstCount == 1

(* The object is set up, and objects[hash] is looked at without a lock. *)
AllocCheck(t, o) ==
    /\ At(t, "idle") /\ o \notin made /\ runState # "stopped"
    /\ made' = made \cup {o}
    /\ refcount' = [refcount EXCEPT ![o] = FirstCount]
    /\ Start(t, o, IF BucketOf[o] \in buckets THEN "append" ELSE "create")
    /\ UNCHANGED <<tableVars, alive, reapVars, listed, refs, tidy, fault,
                   runVars>>

(* Under objectslock: the list is created, and the object put into it, unless *)
(* another thread has created the list in the meantime.                       *)
AllocCreate(t) ==
    /\ At(t, "create")
    /\ IF BucketOf[obj[t]] \in buckets
       THEN UNCHANGED tableVars
       ELSE /\ buckets' = buckets \cup {BucketOf[obj[t]]}
            /\ linked' = linked \cup {obj[t]}
    /\ Goto(t, "alive")
    /\ UNCHANGED <<made, refcount, alive, reapVars, listed, refs, obj, fault, runVars, tidy>>

(* Under objectslock and the lock of the list, which may be gone by now. *)
AllocAppend(t) ==
    /\ At(t, "append")
    /\ IF BucketOf[obj[t]] \in buckets
       THEN linked' = linked \cup {obj[t]} /\ UNCHANGED fault
       ELSE UNCHANGED linked /\ Fault("bucket")
    /\ Goto(t, "alive")
    /\ UNCHANGED <<buckets, made, refcount, alive, reapVars, listed, refs, obj, tidy,
                   runVars>>

AllocAlive(t) ==
    /\ At(t, "alive")
    /\ alive' = [alive EXCEPT ![obj[t]] = 1]
    /\ Gain(t, obj[t])
    /\ Goto(t, "idle")
    /\ UNCHANGED <<tableVars, made, refcount, reapVars, listed, obj, fault, runVars, tidy>>

(***************************************************************************)
(* Users                                                                   *)
(***************************************************************************)

(* Added without being retained. *)
AddUncounted(t, o) ==
    /\ t \notin Raw /\ At(t, "idle") /\ refs[t][o] > 0 /\ o \notin listed /\ Live(o)
    /\ listed' = listed \cup {o}
    /\ UNCHANGED <<tableVars, made, refcount, alive, reapVars, refs, pc, obj, fault, runVars, tidy>>

(* Adding an object to its list, which readers do not do, retains it for the *)
(* list ...                                                                  *)
ListAdd(t, o) ==
    /\ t \notin Raw /\ At(t, "idle") /\ refs[t][o] > 0 /\ o \notin listed /\ Live(o)
    /\ refcount' = [refcount EXCEPT ![o] = @ + 1]
    /\ listed' = listed \cup {o}
    /\ UNCHANGED <<tableVars, made, alive, reapVars, refs, pc, obj, fault, runVars, tidy>>

(* ... and whoever takes it out, under the lock of the list, has the list's *)
(* reference to release.                                                    *)
ListRemove(t, o) ==
    /\ At(t, "idle") /\ o \in listed /\ refs[t][o] < MaxRefs
    /\ listed' = listed \ {o}
    /\ Gain(t, o)
    /\ UNCHANGED <<tableVars, made, refcount, alive, reapVars, pc, obj, fault, runVars, tidy>>

(* sccp_refcount_retain by a caller that has a reference, or reads the list *)
(* under its lock: the count cannot reach zero meanwhile.                   *)
Retain(t, o) ==
    /\ At(t, "idle") /\ refs[t][o] < MaxRefs
    /\ refs[t][o] > 0 \/ o \in listed
    /\ Live(o)
    /\ refcount' = [refcount EXCEPT ![o] = @ + 1]
    /\ Gain(t, o)
    /\ UNCHANGED <<tableVars, made, alive, reapVars, listed, pc, obj, fault, runVars, tidy>>

(* sccp_refcount_retain through a pointer read without a lock, as in         *)
(* sccp_session_getDevice: the pointer is read ...                           *)
Peek(t, o) ==
    /\ t \in Raw /\ At(t, "idle") /\ o \in listed /\ refs[t][o] < MaxRefs
    /\ Start(t, o, "look")
    /\ UNCHANGED <<tableVars, made, refcount, alive, reapVars, listed, refs, tidy, fault,
                   runVars>>

(* ... sccp_refcount_find_obj looks at the marker ... *)
Look(t) ==
    /\ At(t, "look")
    /\ Touch(t)
    /\ Goto(t, IF Live(obj[t]) THEN "incr" ELSE "idle")
    /\ UNCHANGED <<tableVars, made, refcount, alive, reapVars, listed, refs, obj, tidy,
                   runVars>>

(* ... and the count goes up. *)
Incr(t) ==
    /\ At(t, "incr")
    /\ Touch(t)
    /\ refcount' = [refcount EXCEPT ![obj[t]] = @ + 1]
    /\ Gain(t, obj[t])
    /\ Goto(t, "idle")
    /\ UNCHANGED <<tableVars, made, alive, reapVars, listed, obj, runVars, tidy>>

(***************************************************************************)
(* sccp_refcount_release and sccp_refcount_remove_obj                      *)
(***************************************************************************)

(* The reference is found valid, or given up with an alarm. *)
Release(t, o) ==
    /\ At(t, "idle") /\ refs[t][o] > 0
    /\ obj' = [obj EXCEPT ![t] = o]
    /\ IF Gone(o) THEN Fault("object") ELSE UNCHANGED fault
    /\ IF Live(o) /\ refcount[o] > 0
       THEN Goto(t, "dec") /\ UNCHANGED refs
       ELSE Lose(t, o) /\ UNCHANGED pc
    /\ UNCHANGED <<tableVars, made, refcount, alive, reapVars, listed, runVars, tidy>>

NearlyLast(o) == refcount[o] <= 2
LastReference(o) == refcount[o] = 1

(* The compare-and-swap that succeeds. *)
Dec(t) ==
    /\ At(t, "dec")
    /\ Touch(t)
    /\ refcount' = [refcount EXCEPT ![obj[t]] = @ - 1]
    /\ Lose(t, obj[t])
    /\ Goto(t, IF LastReference(obj[t]) THEN "kill" ELSE "idle")
    /\ UNCHANGED <<tableVars, made, alive, reapVars, listed, obj, runVars, tidy>>

Kill(t) ==
    /\ At(t, "kill")
    /\ Touch(t)
    /\ alive' = [alive EXCEPT ![obj[t]] = @ - 1]
    /\ Goto(t, "seek")
    /\ UNCHANGED <<tableVars, made, refcount, reapVars, listed, refs, obj, tidy,
                   runVars>>

(* objects[hash] is looked at without a lock. *)
Seek(t) ==
    /\ At(t, "seek")
    /\ Goto(t, IF BucketOf[obj[t]] \in buckets THEN "unlink" ELSE "idle")
    /\ UNCHANGED <<tableVars, made, refcount, alive, reapVars, listed, refs, obj, tidy, fault,
                   runVars>>

(* Taken without looking whether the object was there. *)
UnlinkAnyway(t) ==
    /\ At(t, "unlink")
    /\ linked' = linked \ {obj[t]}
    /\ tidy' = [tidy EXCEPT ![t] = TRUE]
    /\ Goto(t, "park")
    /\ UNCHANGED <<buckets, made, refcount, alive, reapVars, listed, refs, obj, fault, runVars>>

Killed(o) == ~Live(o)

(* Under the lock of the list, which may be gone by now: the dead object is    *)
(* looked up and taken out, and the length of the list noted.  The thread that *)
(* found the object there is the one to dispose of it.                         *)
Unlink(t) ==
    /\ At(t, "unlink")
    /\ LET o == obj[t]
           found == o \in linked /\ Killed(o)
           rest == IF found THEN linked \ {o} ELSE linked
       IN IF BucketOf[o] \in buckets
          THEN /\ linked' = rest
               /\ tidy' = [tidy EXCEPT ![t] = \A p \in rest : BucketOf[p] # BucketOf[o]]
               /\ Goto(t, IF found THEN "park" ELSE "cleanup")
               /\ UNCHANGED fault
          ELSE Fault("bucket") /\ UNCHANGED <<linked, tidy, pc>>
    /\ UNCHANGED <<buckets, made, refcount, alive, reapVars, listed, refs, obj, runVars>>

(* Quarantine it, or destroy it here and now. *)
Park(t) ==
    /\ At(t, "park")
    /\ Goto(t, IF reaping /\ runState = "running" THEN "insert" ELSE "destroy")
    /\ UNCHANGED <<tableVars, made, refcount, alive, reapVars, listed, refs, obj, tidy, fault,
                   runVars>>

(* The object is left out of the quarantine. *)
InsertNothing(t) ==
    /\ At(t, "insert")
    /\ Goto(t, "cleanup")
    /\ UNCHANGED <<tableVars, made, refcount, alive, reapVars, listed, refs, obj, tidy, fault,
                   runVars>>

Insert(t) ==
    /\ At(t, "insert")
    /\ quarantine' = quarantine \cup {obj[t]}
    /\ Goto(t, "cleanup")
    /\ UNCHANGED <<tableVars, made, refcount, alive, batch, destructions, listed, refs, obj, tidy,
                   fault, runVars>>

Destroy(t) ==
    /\ At(t, "destroy")
    /\ destructions' = [destructions EXCEPT ![obj[t]] = @ + 1]
    /\ Goto(t, "cleanup")
    /\ UNCHANGED <<tableVars, made, refcount, alive, quarantine, batch, listed, refs, obj, tidy,
                   fault, runVars>>

RechecksNothing(b) == TRUE
StillEmpty(b) == InList(b) = {}

(* A list left empty is freed, under objectslock and the lock of the list,    *)
(* which is looked at again.                                                  *)
Cleanup(t) ==
    /\ At(t, "cleanup")
    /\ LET b == BucketOf[obj[t]]
       IN buckets' = IF tidy[t] /\ runState = "running" /\ StillEmpty(b)
                     THEN buckets \ {b} ELSE buckets
    /\ tidy' = [tidy EXCEPT ![t] = FALSE]
    /\ Goto(t, "idle")
    /\ UNCHANGED <<linked, made, refcount, alive, reapVars, listed, refs, obj, fault, runVars>>

(***************************************************************************)
(* The reaper                                                              *)
(***************************************************************************)

(* Every 250 ms: what has been in quarantine long enough is taken out ... *)
Reap ==
    /\ Up /\ reaping /\ batch = {}
    /\ \E S \in SUBSET {o \in quarantine : Inside(o) = {}} :
          /\ S # {}
          /\ batch' = S
          /\ quarantine' = quarantine \ S
    /\ UNCHANGED <<tableVars, made, refcount, alive, destructions, listed, refs, pc, obj, fault,
                   runVars, tidy>>

(* ... and destroyed outside the lock. *)
ReapOne ==
    /\ Up
    /\ \E o \in batch :
          /\ batch' = batch \ {o}
          /\ destructions' = [destructions EXCEPT ![o] = @ + 1]
    /\ UNCHANGED <<tableVars, made, refcount, alive, quarantine, listed, refs, pc, obj, fault,
                   runVars, tidy>>

(***************************************************************************)
(* sccp_refcount_destroy                                                   *)
(***************************************************************************)
Stop ==
    /\ fault = {} /\ shut = "up"
    /\ runState' = "stopped"
    /\ shut' = IF reaping THEN "join" ELSE "drain"
    /\ UNCHANGED <<reaping, round, tableVars, made, refcount, alive, reapVars, listed, refs, pc,
                   obj, fault, tidy>>

Join ==
    /\ fault = {} /\ shut = "join" /\ batch = {}
    /\ reaping' = FALSE
    /\ shut' = "drain"
    /\ UNCHANGED <<runState, round, tableVars, made, refcount, alive, reapVars, listed, refs, pc,
                   obj, fault, tidy>>

(* sccp_refcount_reap(TRUE). *)
Drain ==
    /\ fault = {} /\ shut = "drain"
    /\ quarantine' = {}
    /\ destructions' = [o \in Object |->
                          IF o \in quarantine THEN destructions[o] + 1 ELSE destructions[o]]
    /\ shut' = "sweep"
    /\ UNCHANGED <<runState, reaping, round, tableVars, made, refcount, alive, batch, listed, refs,
                   pc, obj, fault, tidy>>

RoundTooMany == round > NTypes
LastRound == round = NTypes

(* One round of the sweep, under objectslock: what is left of one type is     *)
(* destroyed in every list there is, and every list there is freed.           *)
Sweep ==
    /\ fault = {} /\ shut = "sweep"
    /\ LET found == {o \in linked : BucketOf[o] \in buckets /\ TypeOf[o] = round}
       IN destructions' = [o \in Object |->
                             IF o \in found THEN destructions[o] + 1 ELSE destructions[o]]
    /\ linked' = {o \in linked : BucketOf[o] \notin buckets}
    /\ buckets' = {}
    /\ IF LastRound
       THEN shut' = "down" /\ runState' = "destroyed" /\ UNCHANGED round
       ELSE round' = round + 1 /\ UNCHANGED <<shut, runState>>
    /\ UNCHANGED <<reaping, made, refcount, alive, quarantine, batch, listed, refs, pc, obj,
                   fault, tidy>>

-----------------------------------------------------------------------------
Call(t, o) ==
    AllocCheck(t, o) \/ ListAdd(t, o) \/ ListRemove(t, o) \/ Retain(t, o) \/ Peek(t, o)
    \/ Release(t, o)

Step(t) ==
    AllocCreate(t) \/ AllocAppend(t) \/ AllocAlive(t) \/ Look(t) \/ Incr(t) \/ Dec(t) \/ Kill(t)
    \/ Seek(t) \/ Unlink(t) \/ Park(t) \/ Insert(t) \/ Destroy(t) \/ Cleanup(t)

RunNext ==
    \/ \E t \in Thread : Step(t) \/ \E o \in Object : Call(t, o)
    \/ Reap \/ ReapOne

ShutNext == Stop \/ Join \/ Drain \/ Sweep

Spec == Init /\ [][RunNext \/ ShutNext]_vars

(* While the module stays loaded: calls that have begun go on, and the reaper *)
(* keeps coming back.                                                         *)
RunSpec ==
    /\ Init /\ [][RunNext]_vars
    /\ \A t \in Thread : WF_vars(Step(t))
    /\ WF_vars(Reap) /\ WF_vars(ReapOne)
-----------------------------------------------------------------------------
(***************************************************************************)
(* Properties                                                              *)
(***************************************************************************)

(* The count of an object in use is the number of references there are: its  *)
(* users' and that of the list it is in.                                      *)
References(o) == UNION {{t} \X (1 .. refs[t][o]) : t \in Thread}
CountsMatch ==
    \A o \in made : Live(o) =>
        refcount[o] = Cardinality(References(o)) + (IF o \in listed THEN 1 ELSE 0)

(* Until the sweep at shutdown no list shows an object that has been destroyed, *)
(* and nobody who retains by the rules holds one, whatever the readers of raw   *)
(* pointers do to its count.                                                    *)
HeldNotDestroyed ==
    shut \notin {"sweep", "down"} =>
        \A o \in made : Gone(o) => o \notin listed /\ \A t \in Thread \ Raw : refs[t][o] = 0

(* An object is destroyed once, however many threads believe that theirs was  *)
(* the last reference, and although the reaper, the releasing thread and the  *)
(* shutdown all destroy objects.                                              *)
DestroyedOnce == \A o \in Object : destructions[o] <= 1

(* A list is not freed with objects in it: between the test that found it      *)
(* empty and the lock, another object may have been put there.                *)
BucketsWhole == runState = "running" => \A o \in linked : BucketOf[o] \in buckets

(* A dead object is destroyed in the end. *)
Reclaimed ==
    \A o \in Object : (o \in made /\ refcount[o] = 0) ~> Gone(o)

(* While the module stays loaded, users that retain under a reference or a    *)
(* lock of their own see the life of an object that ObjectLife promises.      *)
Life == INSTANCE ObjectLife WITH
    life <- [o \in Object |-> IF o \notin made THEN "absent"
                              ELSE IF refcount[o] > 0 THEN "live"
                              ELSE IF Gone(o) THEN "gone" ELSE "dead"],
    holders <- refcount

LifeSpec == Life!LifeSpec

(***************************************************************************)
(* What the source says and the code does not keep                         *)
(***************************************************************************)

(* "a dead object (alive != marker and already unlinked from its hash bucket, *)
(* so retain() can no longer find it)": what retain returns stays valid for   *)
(* as long as it is held.                                                     *)
RetainedStays == \A t \in Thread, o \in Object : refs[t][o] > 0 => ~Gone(o)

(* "check again after getting the lock, to see if another thread did not      *)
(* create the head already": either way the object ends up in the table.      *)
Registered == \A t \in Thread : pc[t] = "alive" /\ fault = {} => obj[t] \in linked

(* "recheck under objectslock: a concurrent release may have freed this       *)
(* bucket": no list is used that has been freed.                              *)
NoFreedBucket == "bucket" \notin fault

(* "unwind in order of type priority": the sweep at shutdown destroys what    *)
(* was not released.                                                          *)
SweptAll == shut = "down" /\ (\A t \in Thread : pc[t] = "idle") => \A o \in made : Gone(o)
=============================================================================
