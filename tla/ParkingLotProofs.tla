-------------------------- MODULE ParkingLotProofs --------------------------
(***************************************************************************)
(* Proofs about ParkingLot: its types, that what is listed is allocated,   *)
(* that a context has one lot, that the locks are never waited for in a    *)
(* circle, and, from a second invariant, that no change of what is parked  *)
(* is missed by those who watch (NewsReachesAll).                          *)
(***************************************************************************)
EXTENDS ParkingLot, FiniteSetTheorems, TLAPS

(* What a thread is busy with, by where it is. *)
Configuring == {"attach", "notify", "detach"}
Looking == {"find", "scan", "create", "adopt"}
TaskOK ==
    \A t \in Thread :
        /\ pc[t] = "config" => task[t].op \in {"attach", "detach"}
        /\ pc[t] \in Looking => task[t].op \in Op
        /\ pc[t] \in Op => task[t].op = pc[t]
        /\ pc[t] = "each" => task[t].op = "job"
        /\ pc[t] = "tell" => task[t].op \in {"notify", "job"} /\ task[t].device \in Device
        /\ pc[t] = "unconfig" => task[t].op \in Configuring
        /\ pc[t] \in Holding \cup Talking \cup {"unlist", "recheck", "free"} => lot[t] \in Address
        /\ task[t].op \in Configuring => task[t].device \in Device

(* Who holds the lock of the list, of a lot, of the buttons of a device. *)
ListHeld ==
    /\ writer # Nobody => readers = {}
    /\ \A t \in Thread : /\ pc[t] = "scan" <=> t \in readers
                         /\ pc[t] \in {"adopt", "recheck"} <=> writer = t

LotHeld ==
    \A t \in Thread : \A p \in Address :
        lotLock[p] = t <=> pc[t] \in Holding /\ lot[t] = p

ConfigHeld ==
    \A t \in Thread : \A d \in Device : configLock[d] = t =>
        /\ pc[t] \notin {"idle", "config"}
        /\ task[t].op \in Configuring /\ task[t].device = d

(* The lots a thread has yet to look at are in the list, one it frees is not. *)
ScanListed == \A t \in Thread : pc[t] = "scan" => todo[t] \subseteq lots
FreedUnlisted == \A t \in Thread : pc[t] = "free" => lot[t] \notin lots

(* A lot counts the threads that will lock it again. *)
Talkers(p) == {t \in Thread : pc[t] \in Talking /\ lot[t] = p}
TalkCount == \A p \in Address : inflight[p] = Cardinality(Talkers(p))

LockInv == TaskOK /\ ListHeld /\ LotHeld /\ ConfigHeld
ListInv == ScanListed /\ FreedUnlisted /\ StillListed /\ TalkCount
IInv == TypeOK /\ LockInv /\ ListInv
(* A thread does what it was asked to. *)
LEMMA TaskStep == TypeOK /\ TaskOK /\ Next => TaskOK'
<1> SUFFICES ASSUME TypeOK /\ TaskOK, NEW t \in Thread,
                    Asked(t) \/ FindStep(t) \/ WatchStep(t) \/ SlotStep(t) \/ TellStep(t)
             PROVE  TaskOK'
  BY DEF Next
<1> USE ParkingAssumption
        DEF TypeOK, ThreadTypes, LockTypes, LotTypes, Task, TaskOK, At, Goto, lockVars,
            fieldVars, phoneVars, PC, Op, Holding, Talking, Looking, Configuring, NoTask
<1>1. CASE Asked(t)
  <2>1. CASE Register(t)
    BY <2>1 DEF Register, Begin
  <2>2. CASE Clean(t)
    BY <2>2 DEF Clean, Begin
  <2>3. CASE Press(t)
    BY <2>3 DEF Press, Begin
  <2>4. CASE Report(t)
    BY <2>4 DEF Report, Begin
  <2>5. CASE TakeJob(t)
    BY <2>5 DEF TakeJob, Begin
  <2> QED BY <1>1, <2>1, <2>2, <2>3, <2>4, <2>5 DEF Asked
<1>2. CASE FindStep(t)
  <2>1. CASE ReadList(t)
    BY <2>1 DEF ReadList
  <2>2. CASE Visit(t)
    BY <2>2 DEF Visit, Lock, Unlocked
  <2>3. CASE NotFound(t)
    BY <2>3 DEF NotFound, Finish, Creates
  <2>4. CASE WriteList(t)
    BY <2>4 DEF WriteList
  <2>5. CASE Adopt(t)
    BY <2>5 DEF Adopt, Lock, Unlocked, Named
  <2>6. CASE Insert(t)
    BY <2>6 DEF Insert, Reset, Lock, InUse, Missing, Named
  <2> QED BY <1>2, <2>1, <2>2, <2>3, <2>4, <2>5, <2>6 DEF FindStep
<1>3. CASE WatchStep(t)
  <2>1. CASE LockConfig(t)
    BY <2>1 DEF LockConfig
  <2>2. CASE Attach(t)
    BY <2>2 DEF Attach, Unlock
  <2>3. CASE Detach(t)
    BY <2>3 DEF Detach, Finish, Unlock
  <2>4. CASE Recheck(t)
    BY <2>4 DEF Recheck, Finish, Unlocked, Busy, Watched
  <2>5. CASE Free(t)
    BY <2>5 DEF Free, Reset, Finish
  <2>6. CASE UnlockConfig(t)
    BY <2>6 DEF UnlockConfig
  <2> QED BY <1>3, <2>1, <2>2, <2>3, <2>4, <2>5, <2>6 DEF WatchStep
<1>4. CASE SlotStep(t)
  <2>1. CASE AddSlot(t)
    BY <2>1 DEF AddSlot, Notify, Finish, Unlock
  <2>2. CASE RemoveSlot(t)
    BY <2>2 DEF RemoveSlot, Notify, Finish, Unlock
  <2> QED BY <1>4, <2>1, <2>2 DEF SlotStep
<1>5. CASE TellStep(t)
  <2>1. CASE RunJob(t)
    BY <2>1 DEF RunJob, Watched
  <2>2. CASE NotifyDevice(t)
    BY <2>2 DEF NotifyDevice, Look, Depart, Unlock, Finish
  <2>3. CASE NotifyNext(t)
    BY <2>3 DEF NotifyNext, Look, Depart, Unlock
  <2>4. CASE JobOver(t)
    BY <2>4 DEF JobOver, Unlock, Finish
  <2>5. CASE Tell(t)
    BY <2>5 DEF Tell
  <2>6. CASE Retake(t)
    <3>1. CASE task[t].op = "job"
      <4>1. pc'[t] = "each" /\ task'[t].op = "job" /\ lot'[t] = lot[t]
        BY <2>6, <3>1 DEF Retake
      <4>2. \A u \in Thread \ {t} : pc'[u] = pc[u] /\ task'[u] = task[u] /\ lot'[u] = lot[u]
        BY <2>6, <3>1 DEF Retake
      <4>3. pc[t] = "retake"
        BY <2>6 DEF Retake
      <4> QED BY <4>1, <4>2, <4>3
    <3>2. CASE task[t].op # "job"
      BY <2>6, <3>2 DEF Retake, Finish
    <3> QED BY <3>1, <3>2
  <2>7. CASE Window(t)
    BY <2>7 DEF Window, Depart, Unlock, Finish
  <2> QED BY <1>5, <2>1, <2>2, <2>3, <2>4, <2>5, <2>6, <2>7 DEF TellStep
<1> QED BY <1>1, <1>2, <1>3, <1>4, <1>5

(* Locks are held where the code says they are. *)
LEMMA LockStep ==
    TypeOK /\ TaskOK /\ ListHeld /\ LotHeld /\ ConfigHeld /\ StillListed /\ Next
    => ListHeld' /\ LotHeld' /\ ConfigHeld'
<1> SUFFICES ASSUME TypeOK /\ TaskOK /\ ListHeld /\ LotHeld /\ ConfigHeld /\ StillListed,
                    NEW t \in Thread,
                    Asked(t) \/ FindStep(t) \/ WatchStep(t) \/ SlotStep(t) \/ TellStep(t)
             PROVE  ListHeld' /\ LotHeld' /\ ConfigHeld'
  BY DEF Next
<1> USE ParkingAssumption
        DEF TypeOK, ThreadTypes, LockTypes, LotTypes, Task, TaskOK, ListHeld, LotHeld,
            ConfigHeld, At, Goto, lockVars, fieldVars, phoneVars, PC, Op, Holding, Talking,
            Looking, Configuring, NoTask
<1>1. CASE Asked(t)
  <2>1. CASE Register(t)
    BY <2>1 DEF Register, Begin
  <2>2. CASE Clean(t)
    BY <2>2 DEF Clean, Begin
  <2>3. CASE Press(t)
    BY <2>3 DEF Press, Begin
  <2>4. CASE Report(t)
    BY <2>4 DEF Report, Begin
  <2>5. CASE TakeJob(t)
    BY <2>5 DEF TakeJob, Begin
  <2> QED BY <1>1, <2>1, <2>2, <2>3, <2>4, <2>5 DEF Asked
<1>2. CASE FindStep(t)
  <2>1. CASE ReadList(t)
    BY <2>1 DEF ReadList
  <2>2. CASE Visit(t)
    <3>1. ListHeld'
      <4>1. \/ UNCHANGED <<pc, readers>>
            \/ readers' = readers \ {t} /\ pc' = [pc EXCEPT ![t] = task[t].op]
        BY <2>2 DEF Visit
      <4>2. pc[t] = "scan" /\ UNCHANGED writer
        BY <2>2 DEF Visit
      <4>3. task[t].op \notin {"scan", "adopt", "recheck"} /\ writer = Nobody
        BY <4>2
      <4>4. CASE UNCHANGED <<pc, readers>>
        BY <4>2, <4>4
      <4>5. CASE readers' = readers \ {t} /\ pc' = [pc EXCEPT ![t] = task[t].op]
        <5>1. pc'[t] = task[t].op /\ \A u \in Thread \ {t} : pc'[u] = pc[u]
          BY <4>5
        <5> QED BY <4>2, <4>3, <4>5, <5>1
      <4> QED BY <4>1, <4>4, <4>5
    <3>2. LotHeld'
      <4>1. PICK p \in todo[t] : /\ lotLock[p] = Nobody
                                 /\ \/ UNCHANGED <<pc, lot, lotLock>>
                                    \/ /\ lotLock' = [lotLock EXCEPT ![p] = t]
                                       /\ lot' = [lot EXCEPT ![t] = p]
                                       /\ pc' = [pc EXCEPT ![t] = task[t].op]
        BY <2>2 DEF Visit, Lock, Unlocked
      <4>2. pc[t] = "scan" /\ p \in Address
        BY <2>2 DEF Visit
      <4> QED BY <4>1, <4>2
    <3>3. ConfigHeld'
      BY <2>2 DEF Visit
    <3> QED BY <3>1, <3>2, <3>3
  <2>3. CASE NotFound(t)
    BY <2>3 DEF NotFound, Finish, Creates
  <2>4. CASE WriteList(t)
    BY <2>4 DEF WriteList
  <2>5. CASE Adopt(t)
    BY <2>5 DEF Adopt, Lock, Unlocked, Named
  <2>6. CASE Insert(t)
    <3>1. ListHeld'
      BY <2>6 DEF Insert, Reset, Lock, InUse, Missing, Named
    <3>2. LotHeld'
      <4>1. PICK p \in Address \ lots : /\ lotLock' = [lotLock EXCEPT ![p] = t]
                                        /\ lot' = [lot EXCEPT ![t] = p]
                                        /\ pc' = [pc EXCEPT ![t] = task[t].op]
        BY <2>6 DEF Insert, Lock, InUse
      <4>2. pc[t] = "adopt"
        BY <2>6 DEF Insert
      <4>3. \A u \in Thread : pc[u] \in Holding => lot[u] # p
        BY <4>1 DEF StillListed, InHand
      <4> QED BY <4>1, <4>2, <4>3
    <3>3. ConfigHeld'
      BY <2>6 DEF Insert, Reset, Lock, InUse, Missing, Named
    <3> QED BY <3>1, <3>2, <3>3
  <2> QED BY <1>2, <2>1, <2>2, <2>3, <2>4, <2>5, <2>6 DEF FindStep
<1>3. CASE WatchStep(t)
  <2>1. CASE LockConfig(t)
    BY <2>1 DEF LockConfig
  <2>2. CASE Attach(t)
    BY <2>2 DEF Attach, Unlock
  <2>3. CASE Detach(t)
    <3>1. ListHeld'
      BY <2>3 DEF Detach, Finish, Unlock
    <3>2. LotHeld'
      BY <2>3 DEF Detach, Finish, Unlock
    <3>3. ConfigHeld'
      BY <2>3 DEF Detach, Finish, Unlock
    <3> QED BY <3>1, <3>2, <3>3
  <2>4. CASE Recheck(t)
    <3>1. ListHeld'
      BY <2>4 DEF Recheck, Finish
    <3>2. LotHeld'
      BY <2>4 DEF Recheck, Finish
    <3>3. ConfigHeld'
      BY <2>4 DEF Recheck, Finish
    <3> QED BY <3>1, <3>2, <3>3
  <2>5. CASE Free(t)
    BY <2>5 DEF Free, Reset, Finish
  <2>6. CASE UnlockConfig(t)
    BY <2>6 DEF UnlockConfig
  <2> QED BY <1>3, <2>1, <2>2, <2>3, <2>4, <2>5, <2>6 DEF WatchStep
<1>4. CASE SlotStep(t)
  <2>1. CASE AddSlot(t)
    BY <2>1 DEF AddSlot, Finish, Unlock
  <2>2. CASE RemoveSlot(t)
    BY <2>2 DEF RemoveSlot, Finish, Unlock
  <2> QED BY <1>4, <2>1, <2>2 DEF SlotStep
<1>5. CASE TellStep(t)
  <2>1. CASE RunJob(t)
    BY <2>1 DEF RunJob, Watched
  <2>2. CASE NotifyDevice(t)
    <3>1. CASE Look(t, task[t].device) /\ UNCHANGED <<task, lot>>
      BY <2>2, <3>1 DEF NotifyDevice, Look, Depart, Unlock
    <3>2. CASE Unlock(lot[t]) /\ Finish(t)
      BY <2>2, <3>2 DEF NotifyDevice, Unlock, Finish
    <3> QED BY <2>2, <3>1, <3>2 DEF NotifyDevice
  <2>3. CASE NotifyNext(t)
    BY <2>3 DEF NotifyNext, Look, Depart, Unlock
  <2>4. CASE JobOver(t)
    BY <2>4 DEF JobOver, Unlock, Finish
  <2>5. CASE Tell(t)
    BY <2>5 DEF Tell
  <2>6. CASE Retake(t)
    <3>1. ListHeld'
      BY <2>6 DEF Retake, Lock, Unlocked, Finish
    <3>2. LotHeld'
      BY <2>6 DEF Retake, Lock, Unlocked, Finish
    <3>3. ConfigHeld'
      BY <2>6 DEF Retake, Lock, Unlocked, Finish
    <3> QED BY <3>1, <3>2, <3>3
  <2>7. CASE Window(t)
    <3>1. ListHeld'
      BY <2>7 DEF Window, Depart, Unlock, Finish
    <3>2. LotHeld'
      BY <2>7 DEF Window, Depart, Unlock, Finish
    <3>3. ConfigHeld'
      BY <2>7 DEF Window, Depart, Unlock, Finish
    <3> QED BY <3>1, <3>2, <3>3
  <2> QED BY <1>5, <2>1, <2>2, <2>3, <2>4, <2>5, <2>6, <2>7 DEF TellStep
<1> QED BY <1>1, <1>2, <1>3, <1>4, <1>5

(* A notification that comes or goes is counted at its lot. *)
LEMMA SameTalkers ==
    ASSUME TalkCount, UNCHANGED inflight,
           \A u \in Thread : /\ pc'[u] \in Talking <=> pc[u] \in Talking
                             /\ pc[u] \in Talking => lot'[u] = lot[u]
    PROVE  TalkCount'
<1>1. \A p \in Address : Talkers(p)' = Talkers(p)
  BY DEF Talkers
<1> QED BY <1>1 DEF TalkCount

LEMMA MoreTalkers ==
    ASSUME TypeOK, TalkCount, NEW t \in Thread, NEW p \in Address,
           pc[t] \notin Talking, pc'[t] \in Talking, lot'[t] = p,
           \A u \in Thread \ {t} : pc'[u] = pc[u] /\ lot'[u] = lot[u],
           inflight' = [inflight EXCEPT ![p] = @ + 1]
    PROVE  TalkCount'
<1>1. Talkers(p)' = Talkers(p) \cup {t} /\ t \notin Talkers(p)
  BY DEF Talkers
<1>2. \A q \in Address \ {p} : Talkers(q)' = Talkers(q)
  BY DEF Talkers
<1>3. IsFiniteSet(Talkers(p))
  BY ParkingAssumption, FS_Subset, Talkers(p) \subseteq Thread DEF Talkers
<1>4. Cardinality(Talkers(p) \cup {t}) = Cardinality(Talkers(p)) + 1
  BY <1>1, <1>3, FS_AddElement
<1>5. inflight'[p] = inflight[p] + 1 /\ \A q \in Address \ {p} : inflight'[q] = inflight[q]
  BY DEF TypeOK, ThreadTypes, LockTypes, LotTypes
<1> QED BY <1>1, <1>2, <1>4, <1>5 DEF TalkCount

LEMMA TalkerCounted ==
    ASSUME TypeOK, TalkCount, NEW t \in Thread, NEW p \in Address,
           pc[t] \in Talking, lot[t] = p
    PROVE  /\ inflight[p] - 1 \in Nat
           /\ Cardinality(Talkers(p) \ {t}) = inflight[p] - 1
<1>1. IsFiniteSet(Talkers(p)) /\ t \in Talkers(p)
  BY ParkingAssumption, FS_Subset, Talkers(p) \subseteq Thread DEF Talkers
<1>2. Cardinality(Talkers(p) \ {t}) = Cardinality(Talkers(p)) - 1
  BY <1>1, FS_RemoveElement
<1>3. Cardinality(Talkers(p) \ {t}) \in Nat
  BY <1>1, FS_RemoveElement, FS_CardinalityType
<1> QED BY <1>2, <1>3 DEF TalkCount

LEMMA FewerTalkers ==
    ASSUME TypeOK, TalkCount, NEW t \in Thread, NEW p \in Address,
           pc[t] \in Talking, pc'[t] \notin Talking, lot[t] = p,
           \A u \in Thread \ {t} : pc'[u] = pc[u] /\ lot'[u] = lot[u],
           inflight' = [inflight EXCEPT ![p] = @ - 1]
    PROVE  TalkCount'
<1>1. Talkers(p)' = Talkers(p) \ {t}
  BY DEF Talkers
<1>2. \A q \in Address \ {p} : Talkers(q)' = Talkers(q)
  BY DEF Talkers
<1>3. inflight'[p] = inflight[p] - 1 /\ \A q \in Address \ {p} : inflight'[q] = inflight[q]
  BY DEF TypeOK, ThreadTypes, LockTypes, LotTypes
<1> QED BY <1>1, <1>2, <1>3, TalkerCounted DEF TalkCount

(* Nobody will come back to a lot that is not in the list. *)
LEMMA NoTalkers ==
    ASSUME TypeOK, TalkCount, StillListed, NEW p \in Address \ lots,
           \A u \in Thread : /\ pc'[u] \in Talking <=> pc[u] \in Talking
                             /\ pc[u] \in Talking => lot'[u] = lot[u],
           inflight' = [inflight EXCEPT ![p] = 0]
    PROVE  TalkCount'
<1>1. \A q \in Address : Talkers(q)' = Talkers(q)
  BY DEF Talkers
<1>2. Talkers(p) = {}
  BY DEF Talkers, StillListed, InHand
<1>3. inflight'[p] = 0 /\ \A q \in Address \ {p} : inflight'[q] = inflight[q]
  BY DEF TypeOK, ThreadTypes, LockTypes, LotTypes
<1> QED BY <1>1, <1>2, <1>3, FS_EmptySet DEF TalkCount

(* So the count of a lot is right. *)
LEMMA CountStep ==
    TypeOK /\ TaskOK /\ StillListed /\ FreedUnlisted /\ TalkCount /\ Next => TalkCount'
<1> SUFFICES ASSUME TypeOK /\ TaskOK /\ StillListed /\ FreedUnlisted /\ TalkCount, NEW t \in Thread,
                    Asked(t) \/ FindStep(t) \/ WatchStep(t) \/ SlotStep(t) \/ TellStep(t)
             PROVE  TalkCount'
  BY DEF Next
<1> USE ParkingAssumption
        DEF TypeOK, ThreadTypes, LockTypes, LotTypes, Task, TaskOK, At, Goto, lockVars,
            fieldVars, phoneVars, PC, Op, Holding, Talking, Looking, Configuring, NoTask,
            FreedUnlisted
<1>1. CASE Asked(t)
  <2>1. CASE Register(t)
    BY <2>1, SameTalkers DEF Register, Begin
  <2>2. CASE Clean(t)
    BY <2>2, SameTalkers DEF Clean, Begin
  <2>3. CASE Press(t)
    BY <2>3, SameTalkers DEF Press, Begin
  <2>4. CASE Report(t)
    BY <2>4, SameTalkers DEF Report, Begin
  <2>5. CASE TakeJob(t)
    BY <2>5, SameTalkers DEF TakeJob, Begin
  <2> QED BY <1>1, <2>1, <2>2, <2>3, <2>4, <2>5 DEF Asked
<1>2. CASE FindStep(t)
  <2>1. CASE ReadList(t)
    BY <2>1, SameTalkers DEF ReadList
  <2>2. CASE Visit(t)
    <3>1. task[t].op \notin Talking /\ pc[t] \notin Talking
      BY <2>2 DEF Visit
    <3>2. \A u \in Thread : /\ pc'[u] \in Talking <=> pc[u] \in Talking
                            /\ pc[u] \in Talking => lot'[u] = lot[u]
      BY <2>2, <3>1 DEF Visit
    <3> QED BY <2>2, <3>2, SameTalkers DEF Visit
  <2>3. CASE NotFound(t)
    BY <2>3, SameTalkers DEF NotFound, Finish, Creates
  <2>4. CASE WriteList(t)
    BY <2>4, SameTalkers DEF WriteList
  <2>5. CASE Adopt(t)
    <3>1. task[t].op \notin Talking /\ pc[t] \notin Talking
      BY <2>5 DEF Adopt
    <3>2. \A u \in Thread : /\ pc'[u] \in Talking <=> pc[u] \in Talking
                            /\ pc[u] \in Talking => lot'[u] = lot[u]
      BY <2>5, <3>1 DEF Adopt
    <3> QED BY <2>5, <3>2, SameTalkers DEF Adopt
  <2>6. CASE Insert(t)
    <3>1. PICK p \in Address \ lots : inflight' = [inflight EXCEPT ![p] = 0]
      BY <2>6 DEF Insert, InUse, Reset
    <3>2. task[t].op \notin Talking /\ pc[t] \notin Talking
      BY <2>6 DEF Insert
    <3>3. \A u \in Thread : /\ pc'[u] \in Talking <=> pc[u] \in Talking
                            /\ pc[u] \in Talking => lot'[u] = lot[u]
      BY <2>6, <3>2 DEF Insert
    <3> QED BY <3>1, <3>3, NoTalkers
  <2> QED BY <1>2, <2>1, <2>2, <2>3, <2>4, <2>5, <2>6 DEF FindStep
<1>3. CASE WatchStep(t)
  <2>1. CASE LockConfig(t)
    BY <2>1, SameTalkers DEF LockConfig
  <2>2. CASE Attach(t)
    BY <2>2, SameTalkers DEF Attach, Unlock
  <2>3. CASE Detach(t)
    BY <2>3, SameTalkers DEF Detach, Finish, Unlock
  <2>4. CASE Recheck(t)
    BY <2>4, SameTalkers DEF Recheck, Finish, Unlocked, Busy, Watched
  <2>5. CASE Free(t)
    <3>1. lot[t] \in Address \ lots /\ inflight' = [inflight EXCEPT ![lot[t]] = 0]
      BY <2>5 DEF Free, Reset
    <3>2. \A u \in Thread : /\ pc'[u] \in Talking <=> pc[u] \in Talking
                            /\ pc[u] \in Talking => lot'[u] = lot[u]
      BY <2>5 DEF Free, Finish
    <3> QED BY <3>1, <3>2, NoTalkers
  <2>6. CASE UnlockConfig(t)
    BY <2>6, SameTalkers DEF UnlockConfig
  <2> QED BY <1>3, <2>1, <2>2, <2>3, <2>4, <2>5, <2>6 DEF WatchStep
<1>4. CASE SlotStep(t)
  <2>1. CASE AddSlot(t)
    BY <2>1, SameTalkers DEF AddSlot, Notify, Finish, Unlock
  <2>2. CASE RemoveSlot(t)
    BY <2>2, SameTalkers DEF RemoveSlot, Notify, Finish, Unlock
  <2> QED BY <1>4, <2>1, <2>2 DEF SlotStep
<1>5. CASE TellStep(t)
  <2>1. CASE RunJob(t)
    BY <2>1, SameTalkers DEF RunJob, Watched
  <2>2. CASE NotifyDevice(t)
    <3>1. CASE Look(t, task[t].device) /\ UNCHANGED <<task, lot>>
      <4>1. /\ pc[t] \notin Talking /\ pc'[t] \in Talking /\ lot'[t] = lot[t] /\ lot[t] \in Address
            /\ inflight' = [inflight EXCEPT ![lot[t]] = @ + 1]
            /\ \A u \in Thread \ {t} : pc'[u] = pc[u] /\ lot'[u] = lot[u]
        BY <2>2, <3>1 DEF NotifyDevice, Look, Depart
      <4> QED BY <4>1, MoreTalkers
    <3>2. CASE Finish(t) /\ UNCHANGED inflight
      BY <2>2, <3>2, SameTalkers DEF NotifyDevice, Finish
    <3> QED BY <2>2, <3>1, <3>2 DEF NotifyDevice
  <2>3. CASE NotifyNext(t)
    <3>1. ASSUME NEW d \in told[t], Look(t, d)
          PROVE  TalkCount'
      <4>1. /\ pc[t] \notin Talking /\ pc'[t] \in Talking /\ lot'[t] = lot[t] /\ lot[t] \in Address
            /\ inflight' = [inflight EXCEPT ![lot[t]] = @ + 1]
            /\ \A u \in Thread \ {t} : pc'[u] = pc[u] /\ lot'[u] = lot[u]
        BY <2>3, <3>1 DEF NotifyNext, Look, Depart
      <4> QED BY <4>1, MoreTalkers
    <3>2. CASE UNCHANGED <<pc, lot, inflight>>
      BY <2>3, <3>2, SameTalkers
    <3> QED BY <2>3, <3>1, <3>2 DEF NotifyNext
  <2>4. CASE JobOver(t)
    BY <2>4, SameTalkers DEF JobOver, Unlock, Finish
  <2>5. CASE Tell(t)
    BY <2>5, SameTalkers DEF Tell
  <2>6. CASE Retake(t)
    <3>1. /\ pc[t] \in Talking /\ pc'[t] \notin Talking
          /\ inflight' = [inflight EXCEPT ![lot[t]] = @ - 1]
          /\ \A u \in Thread \ {t} : pc'[u] = pc[u] /\ lot'[u] = lot[u]
      BY <2>6 DEF Retake, Finish
    <3> QED BY <3>1, FewerTalkers
  <2>7. CASE Window(t)
    <3>1. CASE Depart(t, lot[t], "retake") /\ UNCHANGED <<task, lot>>
      BY <2>7, <3>1, MoreTalkers DEF Window, Depart
    <3>2. CASE Finish(t) /\ UNCHANGED inflight
      BY <2>7, <3>2, SameTalkers DEF Window, Finish
    <3> QED BY <2>7, <3>1, <3>2 DEF Window
  <2> QED BY <1>5, <2>1, <2>2, <2>3, <2>4, <2>5, <2>6, <2>7 DEF TellStep
<1> QED BY <1>1, <1>2, <1>3, <1>4, <1>5

(* What the end of an operation leaves, and what a change of the slots does. *)
LEMMA FinishTypes ==
    ASSUME ThreadTypes, NEW t \in Thread, Finish(t)
    PROVE  /\ pc' \in [Thread -> PC] /\ lot' \in [Thread -> Address \cup {Nobody}]
           /\ task' \in [Thread -> Task]
           /\ pc'[t] \in {"idle", "unconfig"}
           /\ \A u \in Thread \ {t} : pc'[u] = pc[u] /\ lot'[u] = lot[u]
<1> USE DEF ThreadTypes, Finish, Goto, PC
<1>1. CASE Goto(t, "unconfig") /\ UNCHANGED task
  BY <1>1
<1>2. CASE Goto(t, "idle") /\ task' = [task EXCEPT ![t] = NoTask]
  <2>1. NoTask \in Task
    BY DEF NoTask, Task
  <2> QED BY <1>2, <2>1
<1> QED BY <1>1, <1>2

LEMMA TaskTypes ==
    ASSUME ThreadTypes, NEW t \in Thread
    PROVE  /\ \A d \in Device \cup {Nobody} : [task EXCEPT ![t].device = d] \in [Thread -> Task]
           /\ \A o \in Op : [task EXCEPT ![t].op = o] \in [Thread -> Task]
<1>1. \A d \in Device \cup {Nobody} : [task[t] EXCEPT !.device = d] \in Task
  BY DEF ThreadTypes, Task
<1>2. \A o \in Op : [task[t] EXCEPT !.op = o] \in Task
  BY DEF ThreadTypes, Task
<1> QED BY <1>1, <1>2 DEF ThreadTypes

LEMMA NotifyTypes ==
    ASSUME TypeOK, NEW p \in Address, Notify(p)
    PROVE  notifyPending' \in [Address -> BOOLEAN] /\ jobs' \in [Context -> Nat]
<1> USE DEF TypeOK, LotTypes, Notify
<1>1. notifyPending' \in [Address -> BOOLEAN]
  <2>1. CASE notifyPending' = [notifyPending EXCEPT ![p] = TRUE]
    BY <2>1
  <2> QED BY <2>1
<1>2. jobs' \in [Context -> Nat]
  <2>1. CASE jobs' = [jobs EXCEPT ![context[p]] = @ + 1]
    <3>1. CASE context[p] \in Context
      BY <2>1, <3>1
    <3>2. CASE context[p] \notin Context
      BY <2>1, <3>2
    <3> QED BY <3>1, <3>2
  <2> QED BY <2>1
<1> QED BY <1>1, <1>2

(* Every variable keeps its type. *)
LEMMA TypeStep == TypeOK /\ TaskOK /\ TalkCount /\ Next => TypeOK'
<1> SUFFICES ASSUME TypeOK /\ TaskOK /\ TalkCount, NEW t \in Thread,
                    Asked(t) \/ FindStep(t) \/ WatchStep(t) \/ SlotStep(t) \/ TellStep(t)
             PROVE  TypeOK'
  BY DEF Next
<1> USE ParkingAssumption
        DEF TypeOK, ThreadTypes, LockTypes, LotTypes, Task, TaskOK, At, Goto, lockVars,
            fieldVars, phoneVars, PC, Op, Holding, Talking, Looking, Configuring, NoTask
<1>1. CASE Asked(t)
  <2>1. CASE Register(t)
    BY <2>1 DEF Register, Begin
  <2>2. CASE Clean(t)
    BY <2>2 DEF Clean, Begin
  <2>3. CASE Press(t)
    BY <2>3 DEF Press, Begin
  <2>4. CASE Report(t)
    BY <2>4 DEF Report, Begin
  <2>5. CASE TakeJob(t)
    BY <2>5 DEF TakeJob, Begin
  <2> QED BY <1>1, <2>1, <2>2, <2>3, <2>4, <2>5 DEF Asked
<1>2. CASE FindStep(t)
  <2>1. CASE ReadList(t)
    BY <2>1 DEF ReadList
  <2>2. CASE Visit(t)
    <3>1. task[t].op \in PC /\ todo[t] \subseteq Address
      BY <2>2 DEF Visit
    <3>2. ASSUME NEW p \in todo[t], todo' = [todo EXCEPT ![t] = @ \ {p}],
                 UNCHANGED <<pc, lot, lotLock, readers>>
          PROVE  ThreadTypes' /\ LockTypes'
      BY <2>2, <3>1, <3>2 DEF Visit
    <3>3. ASSUME NEW p \in todo[t], Lock(p, t), lot' = [lot EXCEPT ![t] = p],
                 readers' = readers \ {t}, todo' = [todo EXCEPT ![t] = {}], Goto(t, task[t].op)
          PROVE  ThreadTypes' /\ LockTypes'
      <4>1. p \in Address
        BY <3>1
      <4>2. ThreadTypes'
        BY <2>2, <3>1, <3>3, <4>1 DEF Visit
      <4>3. LockTypes'
        BY <2>2, <3>3, <4>1 DEF Visit, Lock
      <4> QED BY <4>2, <4>3
    <3>4. ThreadTypes' /\ LockTypes'
      BY <2>2, <3>2, <3>3 DEF Visit
    <3> QED BY <2>2, <3>4 DEF Visit
  <2>3. CASE NotFound(t)
    <3>1. CASE Creates(task[t].op)
      BY <2>3, <3>1 DEF NotFound
    <3>2. CASE ~Creates(task[t].op)
      BY <2>3, <3>2, FinishTypes DEF NotFound
    <3> QED BY <3>1, <3>2
  <2>4. CASE WriteList(t)
    BY <2>4 DEF WriteList
  <2>5. CASE Adopt(t)
    BY <2>5 DEF Adopt, Lock, Unlocked, Named
  <2>6. CASE Insert(t)
    BY <2>6 DEF Insert, Reset, Lock, InUse, Missing, Named
  <2> QED BY <1>2, <2>1, <2>2, <2>3, <2>4, <2>5, <2>6 DEF FindStep
<1>3. CASE WatchStep(t)
  <2>1. CASE LockConfig(t)
    BY <2>1 DEF LockConfig
  <2>2. CASE Attach(t)
    <3>1. lot[t] \in Address /\ task[t].device \in Device
      BY <2>2 DEF Attach
    <3>2. observers' \in [Address -> [Device -> Nat]]
      <4>1. [observers[lot[t]] EXCEPT ![task[t].device] = @ + 1] \in [Device -> Nat]
        BY <3>1
      <4> QED BY <2>2, <3>1, <4>1 DEF Attach
    <3>3. task' \in [Thread -> Task]
      BY <2>2, TaskTypes DEF Attach
    <3> QED BY <2>2, <3>2, <3>3 DEF Attach, Unlock
  <2>3. CASE Detach(t)
    <3>0. observers' \in [Address -> [Device -> Nat]]
      <4>1. lot[t] \in Address /\ task[t].device \in Device
        BY <2>3 DEF Detach
      <4>2. [observers[lot[t]] EXCEPT ![task[t].device] = Fewer(@)] \in [Device -> Nat]
        BY <4>1 DEF Fewer
      <4> QED BY <2>3, <4>1, <4>2 DEF Detach
    <3>1. CASE Goto(t, "unlist") /\ UNCHANGED <<task, lot>>
      <4>1. ThreadTypes'
        BY <2>3, <3>1 DEF Detach, Unlock
      <4>2. LockTypes'
        BY <2>3, <3>1 DEF Detach, Unlock
      <4>3. LotTypes'
        BY <2>3, <3>0 DEF Detach
      <4> QED BY <2>3, <3>1, <4>1, <4>2, <4>3 DEF Detach
    <3>2. CASE Finish(t)
      <4>1. ThreadTypes'
        BY <2>3, <3>2, FinishTypes DEF Detach, Unlock
      <4>2. LockTypes'
        BY <2>3, <3>2 DEF Detach, Unlock
      <4>3. LotTypes'
        BY <2>3, <3>0 DEF Detach
      <4> QED BY <2>3, <3>2, <4>1, <4>2, <4>3 DEF Detach
    <3> QED BY <2>3, <3>1, <3>2 DEF Detach
  <2>4. CASE Recheck(t)
    <3>1. CASE /\ lots' = lots \ {lot[t]} /\ Goto(t, "free")
               /\ UNCHANGED <<task, lot>>
      BY <2>4, <3>1 DEF Recheck
    <3>2. CASE Finish(t) /\ UNCHANGED lots
      BY <2>4, <3>2, FinishTypes DEF Recheck
    <3> QED BY <2>4, <3>1, <3>2 DEF Recheck
  <2>5. CASE Free(t)
    <3>1. /\ context' \in [Address -> Context \cup {Nobody}]
          /\ observers' \in [Address -> [Device -> Nat]] /\ slots' \in [Address -> SUBSET Slot]
          /\ notifyPending' \in [Address -> BOOLEAN] /\ inflight' \in [Address -> Nat]
      BY <2>5 DEF Free, Reset
    <3> QED BY <2>5, <3>1, FinishTypes DEF Free
  <2>6. CASE UnlockConfig(t)
    BY <2>6 DEF UnlockConfig
  <2> QED BY <1>3, <2>1, <2>2, <2>3, <2>4, <2>5, <2>6 DEF WatchStep
<1>4. CASE SlotStep(t)
  <2>1. CASE AddSlot(t)
    <3>1. ThreadTypes' /\ LockTypes' /\ UNCHANGED <<lots, context, observers, inflight, phoneVars>>
      BY <2>1, FinishTypes DEF AddSlot, Unlock
    <3>2. slots' \in [Address -> SUBSET Slot]
      BY <2>1 DEF AddSlot
    <3>3. notifyPending' \in [Address -> BOOLEAN] /\ jobs' \in [Context -> Nat]
      BY <2>1, NotifyTypes DEF AddSlot
    <3> QED BY <3>1, <3>2, <3>3
  <2>2. CASE RemoveSlot(t)
    <3>1. ThreadTypes' /\ LockTypes' /\ UNCHANGED <<lots, context, observers, inflight, phoneVars>>
      BY <2>2, FinishTypes DEF RemoveSlot, Unlock
    <3>2. slots' \in [Address -> SUBSET Slot]
      <4>1. \/ \E r \in Slot : slots' = [slots EXCEPT ![lot[t]] = @ \ {r}]
            \/ UNCHANGED slots
        BY <2>2 DEF RemoveSlot
      <4>2. CASE UNCHANGED slots
        BY <4>2
      <4>3. ASSUME NEW r \in Slot, slots' = [slots EXCEPT ![lot[t]] = @ \ {r}]
            PROVE  slots' \in [Address -> SUBSET Slot]
        BY <4>3
      <4> QED BY <4>1, <4>2, <4>3
    <3>3. notifyPending' \in [Address -> BOOLEAN] /\ jobs' \in [Context -> Nat]
      BY <2>2, NotifyTypes DEF RemoveSlot
    <3> QED BY <3>1, <3>2, <3>3
  <2> QED BY <1>4, <2>1, <2>2 DEF SlotStep
<1>5. CASE TellStep(t)
  <2>1. CASE RunJob(t)
    BY <2>1 DEF RunJob, Watched
  <2>2. CASE NotifyDevice(t)
    <3>1. CASE Look(t, task[t].device) /\ UNCHANGED <<task, lot>>
      BY <2>2, <3>1 DEF NotifyDevice, Look, Depart, Unlock
    <3>2. CASE /\ Unlock(lot[t]) /\ Finish(t)
               /\ UNCHANGED <<inflight, lit, heard>>
      BY <2>2, <3>2, FinishTypes DEF NotifyDevice, Unlock
    <3> QED BY <2>2, <3>1, <3>2 DEF NotifyDevice
  <2>3. CASE NotifyNext(t)
    <3>1. ASSUME NEW d \in told[t], Look(t, d), task' = [task EXCEPT ![t].device = d],
                 told' = [told EXCEPT ![t] = @ \ {d}]
          PROVE  TypeOK'
      <4>1. ThreadTypes'
        BY <2>3, <3>1, TaskTypes DEF NotifyNext, Look, Depart
      <4>2. LockTypes'
        BY <2>3, <3>1 DEF NotifyNext, Look, Depart, Unlock
      <4>3. LotTypes'
        BY <2>3, <3>1 DEF NotifyNext, Look, Depart, Unlock
      <4> QED BY <2>3, <3>1, <4>1, <4>2, <4>3 DEF NotifyNext, Look
    <3>2. ASSUME NEW d \in told[t], UNCHANGED <<pc, task, lotLock, inflight, lit, heard>>,
                 told' = [told EXCEPT ![t] = @ \ {d}]
          PROVE  TypeOK'
      BY <2>3, <3>2 DEF NotifyNext
    <3> QED BY <2>3, <3>1, <3>2 DEF NotifyNext
  <2>4. CASE JobOver(t)
    BY <2>4, FinishTypes DEF JobOver, Unlock
  <2>5. CASE Tell(t)
    BY <2>5 DEF Tell
  <2>6. CASE Retake(t)
    <3>1. CASE task[t].op = "job"
      <4>1. ThreadTypes'
        <5>0. task' = [task EXCEPT ![t].device = Nobody]
          BY <2>6, <3>1 DEF Retake
        <5>1. task' \in [Thread -> Task]
          BY <5>0, TaskTypes
        <5>2. pc' = [pc EXCEPT ![t] = "each"] /\ UNCHANGED <<lot, todo, told, lit>>
          BY <2>6, <3>1 DEF Retake
        <5> QED BY <5>1, <5>2
      <4>2. LockTypes'
        BY <2>6, <3>1, TalkerCounted DEF Retake, Lock
      <4>3. LotTypes'
        BY <2>6, <3>1, TalkerCounted DEF Retake, Lock
      <4> QED BY <2>6, <3>1, TalkerCounted, <4>1, <4>2, <4>3 DEF Retake
    <3>2. CASE task[t].op # "job"
      BY <2>6, <3>2, FinishTypes, TalkerCounted DEF Retake
    <3> QED BY <3>1, <3>2
  <2>7. CASE Window(t)
    <3>1. CASE Depart(t, lot[t], "retake") /\ UNCHANGED <<task, lot>>
      BY <2>7, <3>1 DEF Window, Depart, Unlock
    <3>2. CASE Unlock(lot[t]) /\ Finish(t) /\ UNCHANGED inflight
      BY <2>7, <3>2, FinishTypes DEF Window, Unlock
    <3> QED BY <2>7, <3>1, <3>2 DEF Window
  <2> QED BY <1>5, <2>1, <2>2, <2>3, <2>4, <2>5, <2>6, <2>7 DEF TellStep
<1> QED BY <1>1, <1>2, <1>3, <1>4, <1>5

(* A step that leaves the list alone and takes nothing else in hand. *)
KeepsPlace(u) ==
    /\ pc'[u] = "scan" => \/ pc[u] = "scan" /\ todo'[u] \subseteq todo[u]
                         \/ todo'[u] \subseteq lots
    /\ pc'[u] = "free" => pc[u] = "free" /\ lot'[u] = lot[u]
    /\ pc'[u] \in Holding \cup Talking =>
           \/ pc[u] \in Holding \cup Talking /\ lot'[u] = lot[u]
           \/ lot'[u] \in lots

LEMMA ListKept ==
    ASSUME ScanListed, FreedUnlisted, StillListed, OneLotPerContext, lots' = lots,
           \A p \in lots : context'[p] = context[p],
           \A u \in Thread : KeepsPlace(u)
    PROVE  ScanListed' /\ FreedUnlisted' /\ StillListed' /\ OneLotPerContext'
<1>1. ScanListed'
  BY DEF ScanListed, KeepsPlace
<1>2. FreedUnlisted'
  BY DEF FreedUnlisted, KeepsPlace
<1>3. StillListed'
  BY DEF StillListed, InHand, KeepsPlace
<1>4. OneLotPerContext'
  BY DEF OneLotPerContext
<1> QED BY <1>1, <1>2, <1>3, <1>4

LEMMA FinishKeeps ==
    ASSUME ThreadTypes, NEW t \in Thread, Finish(t), UNCHANGED todo
    PROVE  \A u \in Thread : KeepsPlace(u)
<1>1. pc'[t] \notin {"scan", "free"} \cup Holding \cup Talking
  BY FinishTypes DEF Holding, Talking, Op
<1>2. \A u \in Thread \ {t} : pc'[u] = pc[u] /\ lot'[u] = lot[u]
  BY FinishTypes
<1> QED BY <1>1, <1>2 DEF KeepsPlace

LEMMA GoKeeps ==
    ASSUME ThreadTypes, NEW t \in Thread, NEW where \in PC \ {"scan", "free"}, Goto(t, where),
           \A u \in Thread \ {t} : lot'[u] = lot[u] /\ todo'[u] = todo[u],
           where \in Holding \cup Talking =>
               \/ pc[t] \in Holding \cup Talking /\ lot'[t] = lot[t]
               \/ lot'[t] \in lots
    PROVE  \A u \in Thread : KeepsPlace(u)
<1>1. pc'[t] = where /\ \A u \in Thread \ {t} : pc'[u] = pc[u]
  BY DEF Goto, ThreadTypes
<1> QED BY <1>1 DEF KeepsPlace

(* What is in use is listed, and a lot is listed once. *)
LEMMA ListStep ==
    TypeOK /\ LockInv /\ ListInv /\ OneLotPerContext /\ Next
    => ScanListed' /\ FreedUnlisted' /\ StillListed' /\ OneLotPerContext'
<1> SUFFICES ASSUME TypeOK /\ LockInv /\ ListInv /\ OneLotPerContext, NEW t \in Thread,
                    Asked(t) \/ FindStep(t) \/ WatchStep(t) \/ SlotStep(t) \/ TellStep(t)
             PROVE  ScanListed' /\ FreedUnlisted' /\ StillListed' /\ OneLotPerContext'
  BY DEF Next
<1> USE ParkingAssumption
        DEF TypeOK, ThreadTypes, LockTypes, LotTypes, Task, TaskOK, At, Goto, lockVars,
            fieldVars, phoneVars, PC, Op, Holding, Talking, Looking, Configuring, NoTask,
            LockInv, ListInv, ListHeld, LotHeld, ScanListed, FreedUnlisted, StillListed, InHand,
            OneLotPerContext
<1>1. CASE Asked(t)
  <2>1. CASE Register(t)
    <3>1. \A u \in Thread : KeepsPlace(u)
      BY <2>1 DEF Register, Begin, KeepsPlace
    <3>2. lots' = lots /\ \A p \in lots : context'[p] = context[p]
      BY <2>1 DEF Register
    <3> QED BY <3>1, <3>2, ListKept
  <2>2. CASE Clean(t)
    <3>1. \A u \in Thread : KeepsPlace(u)
      BY <2>2 DEF Clean, Begin, KeepsPlace
    <3>2. lots' = lots /\ \A p \in lots : context'[p] = context[p]
      BY <2>2 DEF Clean
    <3> QED BY <3>1, <3>2, ListKept
  <2>3. CASE Press(t)
    <3>1. \A u \in Thread : KeepsPlace(u)
      BY <2>3 DEF Press, Begin, KeepsPlace
    <3>2. lots' = lots /\ \A p \in lots : context'[p] = context[p]
      BY <2>3 DEF Press
    <3> QED BY <3>1, <3>2, ListKept
  <2>4. CASE Report(t)
    <3>1. \A u \in Thread : KeepsPlace(u)
      BY <2>4 DEF Report, Begin, KeepsPlace
    <3>2. lots' = lots /\ \A p \in lots : context'[p] = context[p]
      BY <2>4 DEF Report
    <3> QED BY <3>1, <3>2, ListKept
  <2>5. CASE TakeJob(t)
    <3>1. \A u \in Thread : KeepsPlace(u)
      BY <2>5 DEF TakeJob, Begin, KeepsPlace
    <3>2. lots' = lots /\ \A p \in lots : context'[p] = context[p]
      BY <2>5 DEF TakeJob
    <3> QED BY <3>1, <3>2, ListKept
  <2> QED BY <1>1, <2>1, <2>2, <2>3, <2>4, <2>5 DEF Asked
<1>2. CASE FindStep(t)
  <2>1. CASE ReadList(t)
    <3>1. \A u \in Thread : KeepsPlace(u)
      <4>1. /\ pc'[t] = "scan" /\ todo'[t] = lots /\ UNCHANGED lot
            /\ \A u \in Thread \ {t} : pc'[u] = pc[u] /\ todo'[u] = todo[u]
        BY <2>1 DEF ReadList
      <4> QED BY <4>1 DEF KeepsPlace
    <3>2. lots' = lots /\ \A p \in lots : context'[p] = context[p]
      BY <2>1 DEF ReadList
    <3> QED BY <3>1, <3>2, ListKept
  <2>2. CASE Visit(t)
    <3>1. \A u \in Thread : KeepsPlace(u)
      <4>1. ASSUME NEW p \in todo[t], todo' = [todo EXCEPT ![t] = @ \ {p}], UNCHANGED <<pc, lot>>
            PROVE  \A u \in Thread : KeepsPlace(u)
        <5>1. \A u \in Thread : todo'[u] \subseteq todo[u]
          BY <4>1
        <5> QED BY <4>1, <5>1 DEF KeepsPlace
      <4>2. ASSUME NEW p \in todo[t], lot' = [lot EXCEPT ![t] = p],
                   todo' = [todo EXCEPT ![t] = {}], Goto(t, task[t].op)
            PROVE  \A u \in Thread : KeepsPlace(u)
        <5>1. task[t].op \in PC \ {"scan", "free"} /\ todo[t] \subseteq lots
          BY <2>2 DEF Visit
        <5>2. lot'[t] \in lots /\ \A u \in Thread \ {t} : lot'[u] = lot[u] /\ todo'[u] = todo[u]
          BY <4>2, <5>1
        <5>3. pc'[t] = task[t].op /\ \A u \in Thread \ {t} : pc'[u] = pc[u]
          BY <4>2
        <5> QED BY <5>1, <5>2, <5>3 DEF KeepsPlace
      <4> QED BY <2>2, <4>1, <4>2 DEF Visit
    <3>2. lots' = lots /\ \A p \in lots : context'[p] = context[p]
      BY <2>2 DEF Visit
    <3> QED BY <3>1, <3>2, ListKept
  <2>3. CASE NotFound(t)
    <3>1. \A u \in Thread : KeepsPlace(u)
      <4>1. CASE Goto(t, "create") /\ UNCHANGED <<task, lot>>
        BY <2>3, <4>1, GoKeeps DEF NotFound
      <4>2. CASE Finish(t)
        BY <2>3, <4>2, FinishKeeps DEF NotFound
      <4> QED BY <2>3, <4>1, <4>2 DEF NotFound
    <3>2. lots' = lots /\ \A p \in lots : context'[p] = context[p]
      BY <2>3 DEF NotFound
    <3> QED BY <3>1, <3>2, ListKept
  <2>4. CASE WriteList(t)
    <3>1. \A u \in Thread : KeepsPlace(u)
      BY <2>4 DEF WriteList, KeepsPlace
    <3>2. lots' = lots /\ \A p \in lots : context'[p] = context[p]
      BY <2>4 DEF WriteList
    <3> QED BY <3>1, <3>2, ListKept
  <2>5. CASE Adopt(t)
    <3>1. \A u \in Thread : KeepsPlace(u)
      <4>1. task[t].op \in PC \ {"scan", "free"}
        BY <2>5 DEF Adopt
      <4>2. /\ lot'[t] \in lots /\ UNCHANGED todo
            /\ \A u \in Thread \ {t} : lot'[u] = lot[u]
        BY <2>5 DEF Adopt, Named
      <4>3. pc'[t] = task[t].op /\ \A u \in Thread \ {t} : pc'[u] = pc[u]
        BY <2>5 DEF Adopt
      <4> QED BY <4>1, <4>2, <4>3 DEF KeepsPlace
    <3>2. lots' = lots /\ \A p \in lots : context'[p] = context[p]
      BY <2>5 DEF Adopt
    <3> QED BY <3>1, <3>2, ListKept
  <2>6. CASE Insert(t)
    BY <2>6 DEF Insert, Reset, Lock, InUse, Missing, Named
  <2> QED BY <1>2, <2>1, <2>2, <2>3, <2>4, <2>5, <2>6 DEF FindStep
<1>3. CASE WatchStep(t)
  <2>1. CASE LockConfig(t)
    <3>1. \A u \in Thread : KeepsPlace(u)
      BY <2>1 DEF LockConfig, KeepsPlace
    <3>2. lots' = lots /\ \A p \in lots : context'[p] = context[p]
      BY <2>1 DEF LockConfig
    <3> QED BY <3>1, <3>2, ListKept
  <2>2. CASE Attach(t)
    <3>1. \A u \in Thread : KeepsPlace(u)
      BY <2>2 DEF Attach, KeepsPlace
    <3>2. lots' = lots /\ \A p \in lots : context'[p] = context[p]
      BY <2>2 DEF Attach
    <3> QED BY <3>1, <3>2, ListKept
  <2>3. CASE Detach(t)
    <3>1. \A u \in Thread : KeepsPlace(u)
      <4>1. CASE Goto(t, "unlist") /\ UNCHANGED <<task, lot>>
        BY <2>3, <4>1, GoKeeps DEF Detach
      <4>2. CASE Finish(t)
        BY <2>3, <4>2, FinishKeeps DEF Detach
      <4> QED BY <2>3, <4>1, <4>2 DEF Detach
    <3>2. lots' = lots /\ \A p \in lots : context'[p] = context[p]
      BY <2>3 DEF Detach
    <3> QED BY <3>1, <3>2, ListKept
  <2>4. CASE Recheck(t)
    <3>1. CASE Finish(t) /\ UNCHANGED lots
      <4>1. \A u \in Thread : KeepsPlace(u)
        BY <2>4, <3>1, FinishKeeps DEF Recheck
      <4> QED BY <2>4, <3>1, <4>1, ListKept DEF Recheck
    <3>2. CASE /\ lot[t] \in lots /\ ~Busy(lot[t]) /\ lots' = lots \ {lot[t]}
               /\ Goto(t, "free") /\ UNCHANGED <<task, lot>>
      <4>1. \A u \in Thread : ~(InHand(u) /\ lot[u] = lot[t])
        <5>1. SUFFICES ASSUME NEW u \in Thread, InHand(u), lot[u] = lot[t]
                       PROVE  FALSE
          OBVIOUS
        <5>2. lotLock[lot[t]] = Nobody /\ lot[t] \in Address
          BY <2>4, <3>2 DEF Recheck, Unlocked
        <5>3. inflight[lot[t]] = 0
          BY <3>2 DEF Busy
        <5>4. pc[u] \in Talking
          BY <5>1, <5>2
        <5>5. inflight[lot[t]] - 1 \in Nat
          BY <5>1, <5>2, <5>4, TalkerCounted
        <5> QED BY <5>3, <5>5
      <4>2. readers = {} /\ pc[t] = "recheck"
        BY <2>4 DEF Recheck
      <4>3. \A u \in Thread \ {t} : pc'[u] = pc[u] /\ lot'[u] = lot[u] /\ pc'[t] = "free"
        BY <3>2
      <4>4. ScanListed'
        BY <3>2, <4>2, <4>3
      <4>5. FreedUnlisted'
        BY <3>2, <4>2, <4>3
      <4>6. StillListed'
        BY <3>2, <4>1, <4>2, <4>3
      <4>7. OneLotPerContext'
        BY <2>4, <3>2 DEF Recheck
      <4> QED BY <4>4, <4>5, <4>6, <4>7
    <3> QED BY <2>4, <3>1, <3>2 DEF Recheck
  <2>5. CASE Free(t)
    <3>1. \A u \in Thread : KeepsPlace(u)
      BY <2>5, FinishKeeps DEF Free
    <3>2. lots' = lots /\ \A p \in lots : context'[p] = context[p]
      BY <2>5 DEF Free, Reset
    <3> QED BY <3>1, <3>2, ListKept
  <2>6. CASE UnlockConfig(t)
    <3>1. \A u \in Thread : KeepsPlace(u)
      BY <2>6 DEF UnlockConfig, KeepsPlace
    <3>2. lots' = lots /\ \A p \in lots : context'[p] = context[p]
      BY <2>6 DEF UnlockConfig
    <3> QED BY <3>1, <3>2, ListKept
  <2> QED BY <1>3, <2>1, <2>2, <2>3, <2>4, <2>5, <2>6 DEF WatchStep
<1>4. CASE SlotStep(t)
  <2>1. CASE AddSlot(t)
    <3>1. \A u \in Thread : KeepsPlace(u)
      BY <2>1, FinishKeeps DEF AddSlot
    <3>2. lots' = lots /\ \A p \in lots : context'[p] = context[p]
      BY <2>1 DEF AddSlot
    <3> QED BY <3>1, <3>2, ListKept
  <2>2. CASE RemoveSlot(t)
    <3>1. \A u \in Thread : KeepsPlace(u)
      BY <2>2, FinishKeeps DEF RemoveSlot
    <3>2. lots' = lots /\ \A p \in lots : context'[p] = context[p]
      BY <2>2 DEF RemoveSlot
    <3> QED BY <3>1, <3>2, ListKept
  <2> QED BY <1>4, <2>1, <2>2 DEF SlotStep
<1>5. CASE TellStep(t)
  <2>1. CASE RunJob(t)
    <3>1. \A u \in Thread : KeepsPlace(u)
      BY <2>1 DEF RunJob, KeepsPlace
    <3>2. lots' = lots /\ \A p \in lots : context'[p] = context[p]
      BY <2>1 DEF RunJob
    <3> QED BY <3>1, <3>2, ListKept
  <2>2. CASE NotifyDevice(t)
    <3>1. \A u \in Thread : KeepsPlace(u)
      <4>1. CASE Look(t, task[t].device) /\ UNCHANGED <<task, lot>>
        BY <2>2, <4>1, GoKeeps DEF NotifyDevice, Look, Depart
      <4>2. CASE Finish(t)
        BY <2>2, <4>2, FinishKeeps DEF NotifyDevice
      <4> QED BY <2>2, <4>1, <4>2 DEF NotifyDevice
    <3>2. lots' = lots /\ \A p \in lots : context'[p] = context[p]
      BY <2>2 DEF NotifyDevice
    <3> QED BY <3>1, <3>2, ListKept
  <2>3. CASE NotifyNext(t)
    <3>1. \A u \in Thread : KeepsPlace(u)
      BY <2>3 DEF NotifyNext, Look, Depart, KeepsPlace
    <3>2. lots' = lots /\ \A p \in lots : context'[p] = context[p]
      BY <2>3 DEF NotifyNext
    <3> QED BY <3>1, <3>2, ListKept
  <2>4. CASE JobOver(t)
    <3>1. \A u \in Thread : KeepsPlace(u)
      BY <2>4, FinishKeeps DEF JobOver
    <3>2. lots' = lots /\ \A p \in lots : context'[p] = context[p]
      BY <2>4 DEF JobOver
    <3> QED BY <3>1, <3>2, ListKept
  <2>5. CASE Tell(t)
    <3>1. \A u \in Thread : KeepsPlace(u)
      BY <2>5 DEF Tell, KeepsPlace
    <3>2. lots' = lots /\ \A p \in lots : context'[p] = context[p]
      BY <2>5 DEF Tell
    <3> QED BY <3>1, <3>2, ListKept
  <2>6. CASE Retake(t)
    <3>1. \A u \in Thread : KeepsPlace(u)
      <4>1. CASE Goto(t, "each") /\ UNCHANGED lot
        BY <2>6, <4>1, GoKeeps DEF Retake
      <4>2. CASE Finish(t)
        BY <2>6, <4>2, FinishKeeps DEF Retake
      <4> QED BY <2>6, <4>1, <4>2 DEF Retake
    <3>2. lots' = lots /\ \A p \in lots : context'[p] = context[p]
      BY <2>6 DEF Retake
    <3> QED BY <3>1, <3>2, ListKept
  <2>7. CASE Window(t)
    <3>1. \A u \in Thread : KeepsPlace(u)
      <4>1. CASE Depart(t, lot[t], "retake") /\ UNCHANGED <<task, lot>>
        BY <2>7, <4>1, GoKeeps DEF Window, Depart
      <4>2. CASE Finish(t)
        BY <2>7, <4>2, FinishKeeps DEF Window
      <4> QED BY <2>7, <4>1, <4>2 DEF Window
    <3>2. lots' = lots /\ \A p \in lots : context'[p] = context[p]
      BY <2>7 DEF Window
    <3> QED BY <3>1, <3>2, ListKept
  <2> QED BY <1>5, <2>1, <2>2, <2>3, <2>4, <2>5, <2>6, <2>7 DEF TellStep
<1> QED BY <1>1, <1>2, <1>3, <1>4, <1>5

(***************************************************************************)
(* The theorems                                                            *)
(***************************************************************************)
LEMMA InitInv == Init => IInv /\ OneLotPerContext
<1> SUFFICES ASSUME Init
             PROVE  IInv /\ OneLotPerContext
  OBVIOUS
<1>1. TypeOK
  BY ParkingAssumption DEF Init, TypeOK, ThreadTypes, LockTypes, LotTypes, Task, NoTask, PC
<1>2. LockInv
  BY ParkingAssumption
  DEF Init, LockInv, TaskOK, ListHeld, LotHeld, ConfigHeld, NoTask, PC, Op, Holding, Talking,
      Looking, Configuring
<1>3. ScanListed /\ FreedUnlisted /\ StillListed /\ OneLotPerContext
  BY DEF Init, ScanListed, FreedUnlisted, StillListed, InHand, OneLotPerContext, Op, Holding,
         Talking
<1>4. TalkCount
  <2>1. \A p \in Address : Talkers(p) = {}
    BY DEF Init, Talkers, Talking
  <2> QED BY <2>1, FS_EmptySet DEF Init, TalkCount
<1> QED BY <1>1, <1>2, <1>3, <1>4 DEF IInv, ListInv

LEMMA StepInv == IInv /\ OneLotPerContext /\ [Next]_vars => IInv' /\ OneLotPerContext'
<1> SUFFICES ASSUME IInv, OneLotPerContext, [Next]_vars
             PROVE  IInv' /\ OneLotPerContext'
  OBVIOUS
<1>1. CASE Next
  <2>1. TypeOK' /\ TalkCount'
    BY <1>1, TypeStep, CountStep DEF IInv, LockInv, ListInv
  <2>2. LockInv'
    BY <1>1, TaskStep, LockStep DEF IInv, LockInv, ListInv
  <2>3. ScanListed' /\ FreedUnlisted' /\ StillListed' /\ OneLotPerContext'
    BY <1>1, ListStep DEF IInv
  <2> QED BY <2>1, <2>2, <2>3 DEF IInv, ListInv
<1>2. CASE UNCHANGED vars
  BY <1>2 DEF vars, threadVars, lockVars, fieldVars, phoneVars, IInv, LockInv, ListInv,
     TypeOK, ThreadTypes, LockTypes, LotTypes, TaskOK, ListHeld, LotHeld, ConfigHeld, ScanListed,
     FreedUnlisted, StillListed, InHand, TalkCount, Talkers, OneLotPerContext
<1> QED BY <1>1, <1>2

LEMMA Invariants == Spec => [](IInv /\ OneLotPerContext)
BY InitInv, StepInv, PTL DEF Spec

(* Every variable has its type, and the count of notifications of a lot does  *)
(* not fall below zero.                                                       *)
THEOREM TypeCorrect == Spec => []TypeOK
<1>1. IInv => TypeOK
  BY DEF IInv
<1> QED BY <1>1, Invariants, PTL

(* However many phones, jobs and cleaned devices there are: a lot that is      *)
(* locked, or will be locked again after talking to a phone, is listed, so     *)
(* removeParkinglot has not freed it.                                         *)
THEOREM ListedIsAlive == Spec => []StillListed
<1>1. IInv => StillListed
  BY DEF IInv, ListInv
<1> QED BY <1>1, Invariants, PTL

(* addParkinglot does not make a second lot of a name. *)
THEOREM OneLot == Spec => []OneLotPerContext
BY Invariants, PTL

(* A thread that owns a lot waits for nobody, nor do then the readers and the  *)
(* writer of the list; a thread that registers or cleans a device does not     *)
(* wait for its own lock.  So nobody can be in a circle.                       *)
LEMMA NobodyInCircle == IInv => NoLockCircle
<1> SUFFICES ASSUME IInv, NEW C \in (SUBSET Thread) \ {{}},
                    \A t \in C : WaitsFor(t) \cap C # {}
             PROVE  FALSE
  BY DEF NoLockCircle
<1> USE ParkingAssumption DEF IInv, LockInv
<1>1. \A t \in C : pc[t] \notin Holding
  BY DEF WaitsFor, Holding, Op
<1>2. \A t \in C : \A p \in Address : lotLock[p] \notin C
  BY <1>1 DEF LotHeld
<1>3. \A t \in C : pc[t] \notin {"scan", "adopt", "recheck", "retake"}
  <2>1. SUFFICES ASSUME NEW t \in C, pc[t] \in {"scan", "adopt", "recheck", "retake"}
                 PROVE  FALSE
    OBVIOUS
  <2>2. CASE pc[t] = "scan"
    BY <1>2, <2>2 DEF WaitsFor, TypeOK, ThreadTypes
  <2>3. CASE pc[t] = "adopt"
    BY <1>2, <2>3 DEF WaitsFor, Named, TypeOK, LotTypes
  <2>4. CASE pc[t] \in {"recheck", "retake"}
    BY <1>2, <2>4 DEF WaitsFor, TaskOK, Talking
  <2> QED BY <2>1, <2>2, <2>3, <2>4
<1>4. \A t \in C : t \notin readers /\ t # writer
  BY <1>3 DEF ListHeld
<1>5. \A t \in C : pc[t] \notin {"find", "create", "unlist"}
  BY <1>4 DEF WaitsFor
<1>6. \A t \in C : pc[t] \in {"config", "tell"}
  BY <1>3, <1>5 DEF WaitsFor
<1>7. PICK t \in C : TRUE
  OBVIOUS
<1>8. PICK u \in C : u \in WaitsFor(t)
  BY <1>7
<1>9. configLock[task[t].device] = u /\ task[t].device \in Device
  BY <1>6, <1>8 DEF WaitsFor, TaskOK, Configuring
<1>10. pc[u] = "tell" /\ configLock[task[u].device] = u
  BY <1>6, <1>9 DEF ConfigHeld
<1>11. WaitsFor(u) = {}
  BY <1>10 DEF WaitsFor
<1> QED BY <1>11

(* For every number of devices and threads: the buttonconfig lock, the lock of *)
(* the list and the lock of a lot are never waited for in a circle             *)
(* (removeParkinglot, _notifyHelper, notifyLocked).                            *)
THEOREM NeverACircle == Spec => []NoLockCircle
BY Invariants, NobodyInCircle, PTL

(***************************************************************************)
(* No change is missed                                                     *)
(***************************************************************************)
(* Phones attach themselves and look, workers do jobs; whoever is asked to   *)
(* do something is told for which lot.                                        *)
AskOK ==
    \A t \in Thread :
        /\ task[t].op # "none" => task[t].context \in Context
        /\ task[t].op \in {"attach", "notify"} =>
              t \in Phone /\ task[t].context = ContextOf[task[t].device]
        /\ t \in Worker => task[t].op \in {"none", "job"}
        /\ task[t].op = "job" => t \in Worker

(* Who comes back from talking to a phone has something to do. *)
BackOK == \A t \in Thread : pc[t] = "retake" => task[t].op # "none"

(* The lot a thread has found is the one it was looking for, and the ones it *)
(* has walked past are not.                                                  *)
FoundNamed == \A t \in Thread : pc[t] \in Op => context[lot[t]] = task[t].context
Passed ==
    \A t \in Thread : pc[t] = "scan" =>
        \A p \in lots : p \in todo[t] \/ context[p] # task[t].context

(* A device watches the lot it is configured for. *)
WatchedNamed ==
    \A p \in lots : /\ context[p] \in Context
                    /\ \A d \in Watched(p) : context[p] = ContextOf[d]

NameInv == AskOK /\ BackOK /\ FoundNamed /\ Passed /\ WatchedNamed

(* A thread that will tell a device about a lot, and one that has its job. *)
Tells(t, d, p) ==
    \/ t \in Worker /\ pc[t] \in {"each"} \cup Talking /\ lot[t] = p /\ d \in told[t]
    \/ /\ t \in Phone /\ task[t].device = d /\ task[t].op = "notify"
       /\ pc[t] \in {"find", "scan", "create", "adopt", "notify"}
Works(t, p) ==
    /\ t \in Worker /\ task[t].op = "job" /\ task[t].context = context[p]
    /\ pc[t] \in {"find", "scan", "job"}

(* Expected and Pended, by one thread at a time. *)
LEMMA WhoTells ==
    /\ \A d, p : Expected(d, p) <=> notifyPending[p] \/ \E t \in Thread : Tells(t, d, p)
    /\ \A p : Pended(p) <=> jobs[context[p]] > 0 \/ \E t \in Thread : Works(t, p)
BY DEF Expected, Pended, Tells, Works, Thread

(* At the end of an operation nothing is asked. *)
LEMMA FinishAsk ==
    ASSUME ThreadTypes, AskOK, NEW t \in Thread, Finish(t)
    PROVE  AskOK'
<1>1. \A u \in Thread : task'[u] = task[u] \/ task'[u] = NoTask
  BY DEF Finish, ThreadTypes
<1> QED BY <1>1 DEF AskOK, NoTask

(* Who is asked what. *)
LEMMA AskStep ==
    TypeOK /\ TaskOK /\ AskOK /\ Next => AskOK'
<1> SUFFICES ASSUME TypeOK /\ TaskOK /\ AskOK, NEW t \in Thread,
                    Asked(t) \/ FindStep(t) \/ WatchStep(t) \/ SlotStep(t) \/ TellStep(t)
             PROVE  AskOK'
  BY DEF Next
<1> USE ParkingAssumption
        DEF TypeOK, TaskOK, ThreadTypes, Task, PC, Op, NoTask, At, Goto, lockVars, fieldVars,
            phoneVars
<1>1. CASE Asked(t)
  <2>1. CASE Register(t)
    BY <2>1 DEF Register, Begin, AskOK, Task, ThreadTypes, LockTypes
  <2>2. CASE Clean(t)
    BY <2>2 DEF Clean, Begin, AskOK, Task, ThreadTypes, LockTypes
  <2>3. CASE Press(t)
    BY <2>3 DEF Press, Begin, AskOK, Task, ThreadTypes, LockTypes
  <2>4. CASE Report(t)
    BY <2>4 DEF Report, Begin, AskOK, Task, ThreadTypes, LockTypes
  <2>5. CASE TakeJob(t)
    BY <2>5 DEF TakeJob, Begin, AskOK, Task, ThreadTypes, LockTypes
  <2> QED BY <1>1, <2>1, <2>2, <2>3, <2>4, <2>5 DEF Asked
<1>2. CASE FindStep(t)
  <2>1. CASE ReadList(t)
    BY <2>1 DEF ReadList, AskOK, Task, ThreadTypes, LockTypes
  <2>2. CASE Visit(t)
    BY <2>2 DEF Visit, AskOK, Task, ThreadTypes, LockTypes
  <2>3. CASE NotFound(t)
    <3>1. CASE UNCHANGED task
      BY <3>1 DEF AskOK
    <3>2. CASE Finish(t)
      BY <3>2, FinishAsk
    <3> QED BY <2>3, <3>1, <3>2 DEF NotFound
  <2>4. CASE WriteList(t)
    BY <2>4 DEF WriteList, AskOK, Task, ThreadTypes, LockTypes
  <2>5. CASE Adopt(t)
    BY <2>5 DEF Adopt, Named, AskOK, Task, ThreadTypes, LockTypes
  <2>6. CASE Insert(t)
    BY <2>6 DEF Insert, InUse, Missing, Named, AskOK, Task, ThreadTypes, LockTypes
  <2> QED BY <1>2, <2>1, <2>2, <2>3, <2>4, <2>5, <2>6 DEF FindStep
<1>3. CASE WatchStep(t)
  <2>1. CASE LockConfig(t)
    BY <2>1 DEF LockConfig, AskOK, Task, ThreadTypes, LockTypes
  <2>2. CASE Attach(t)
    BY <2>2 DEF Attach, AskOK, Task, ThreadTypes, LockTypes
  <2>3. CASE Detach(t)
    <3>1. CASE UNCHANGED task
      BY <3>1 DEF AskOK
    <3>2. CASE Finish(t)
      BY <3>2, FinishAsk
    <3> QED BY <2>3, <3>1, <3>2 DEF Detach
  <2>4. CASE Recheck(t)
    <3>1. CASE UNCHANGED task
      BY <3>1 DEF AskOK
    <3>2. CASE Finish(t)
      BY <3>2, FinishAsk
    <3> QED BY <2>4, <3>1, <3>2 DEF Recheck
  <2>5. CASE Free(t)
    BY <2>5, FinishAsk DEF Free, ThreadTypes
  <2>6. CASE UnlockConfig(t)
    BY <2>6 DEF UnlockConfig, AskOK, Task, ThreadTypes, LockTypes
  <2> QED BY <1>3, <2>1, <2>2, <2>3, <2>4, <2>5, <2>6 DEF WatchStep
<1>4. CASE SlotStep(t)
  <2>1. CASE AddSlot(t)
    BY <2>1, FinishAsk DEF AddSlot, ThreadTypes
  <2>2. CASE RemoveSlot(t)
    BY <2>2, FinishAsk DEF RemoveSlot, ThreadTypes
  <2> QED BY <1>4, <2>1, <2>2 DEF SlotStep
<1>5. CASE TellStep(t)
  <2>1. CASE RunJob(t)
    BY <2>1 DEF RunJob, AskOK, Task, ThreadTypes, LockTypes
  <2>2. CASE NotifyDevice(t)
    <3>1. CASE UNCHANGED task
      BY <3>1 DEF AskOK
    <3>2. CASE Finish(t)
      BY <3>2, FinishAsk
    <3> QED BY <2>2, <3>1, <3>2 DEF NotifyDevice, Look, Depart
  <2>3. CASE NotifyNext(t)
    <3>1. \A u \in Thread : task'[u].op = task[u].op /\ task'[u].context = task[u].context
      BY <2>3 DEF NotifyNext, Task, ThreadTypes
    <3>2. \A u \in Thread \ {t} : task'[u] = task[u]
      BY <2>3 DEF NotifyNext, ThreadTypes
    <3>3. task[t].op = "job"
      BY <2>3 DEF NotifyNext
    <3> QED BY <3>1, <3>2, <3>3 DEF AskOK
  <2>4. CASE JobOver(t)
    BY <2>4, FinishAsk DEF JobOver, ThreadTypes
  <2>5. CASE Tell(t)
    BY <2>5 DEF Tell, AskOK, Task, ThreadTypes, LockTypes
  <2>6. CASE Retake(t)
    <3>1. CASE task[t].op = "job"
      <4>1. task' = [task EXCEPT ![t].device = Nobody]
        BY <2>6, <3>1 DEF Retake
      <4>2. \A u \in Thread : task'[u].op = task[u].op /\ task'[u].context = task[u].context
        BY <4>1 DEF Task, ThreadTypes
      <4>3. \A u \in Thread \ {t} : task'[u] = task[u]
        BY <4>1 DEF ThreadTypes
      <4> QED BY <3>1, <4>2, <4>3 DEF AskOK
    <3>2. CASE Finish(t)
      BY <3>2, FinishAsk
    <3> QED BY <2>6, <3>1, <3>2 DEF Retake
  <2>7. CASE Window(t)
    <3>1. CASE UNCHANGED task
      BY <3>1 DEF AskOK
    <3>2. CASE Finish(t)
      BY <3>2, FinishAsk
    <3> QED BY <2>7, <3>1, <3>2 DEF Window
  <2> QED BY <1>5, <2>1, <2>2, <2>3, <2>4, <2>5, <2>6, <2>7 DEF TellStep
<1> QED BY <1>1, <1>2, <1>3, <1>4, <1>5

(* Only who is talking comes back. *)
LEMMA BackStep == TypeOK /\ TaskOK /\ BackOK /\ Next => BackOK'
<1> SUFFICES ASSUME TypeOK /\ TaskOK /\ BackOK, NEW t \in Thread,
                    Asked(t) \/ FindStep(t) \/ WatchStep(t) \/ SlotStep(t) \/ TellStep(t)
             PROVE  BackOK'
  BY DEF Next
<1> USE ParkingAssumption
        DEF TypeOK, ThreadTypes, Task, TaskOK, BackOK, At, Goto, PC, Op, NoTask, lockVars,
            fieldVars, phoneVars
<1>1. CASE Asked(t)
  <2>1. CASE Register(t)
    BY <2>1 DEF Register, Begin
  <2>2. CASE Clean(t)
    BY <2>2 DEF Clean, Begin
  <2>3. CASE Press(t)
    BY <2>3 DEF Press, Begin
  <2>4. CASE Report(t)
    BY <2>4 DEF Report, Begin
  <2>5. CASE TakeJob(t)
    BY <2>5 DEF TakeJob, Begin
  <2> QED BY <1>1, <2>1, <2>2, <2>3, <2>4, <2>5 DEF Asked
<1>2. CASE FindStep(t)
  <2>1. CASE ReadList(t)
    BY <2>1 DEF ReadList
  <2>2. CASE Visit(t)
    BY <2>2 DEF Visit, Lock, Unlocked
  <2>3. CASE NotFound(t)
    BY <2>3 DEF NotFound, Finish, Creates
  <2>4. CASE WriteList(t)
    BY <2>4 DEF WriteList
  <2>5. CASE Adopt(t)
    BY <2>5 DEF Adopt, Lock, Unlocked, Named
  <2>6. CASE Insert(t)
    BY <2>6 DEF Insert, Reset, Lock, InUse, Missing, Named
  <2> QED BY <1>2, <2>1, <2>2, <2>3, <2>4, <2>5, <2>6 DEF FindStep
<1>3. CASE WatchStep(t)
  <2>1. CASE LockConfig(t)
    BY <2>1 DEF LockConfig
  <2>2. CASE Attach(t)
    BY <2>2 DEF Attach, Unlock
  <2>3. CASE Detach(t)
    BY <2>3 DEF Detach, Finish, Unlock
  <2>4. CASE Recheck(t)
    BY <2>4 DEF Recheck, Finish, Unlocked, Busy, Watched
  <2>5. CASE Free(t)
    BY <2>5 DEF Free, Reset, Finish
  <2>6. CASE UnlockConfig(t)
    BY <2>6 DEF UnlockConfig
  <2> QED BY <1>3, <2>1, <2>2, <2>3, <2>4, <2>5, <2>6 DEF WatchStep
<1>4. CASE SlotStep(t)
  <2>1. CASE AddSlot(t)
    BY <2>1 DEF AddSlot, Notify, Finish, Unlock
  <2>2. CASE RemoveSlot(t)
    BY <2>2 DEF RemoveSlot, Notify, Finish, Unlock
  <2> QED BY <1>4, <2>1, <2>2 DEF SlotStep
<1>5. CASE TellStep(t)
  <2>1. CASE RunJob(t)
    BY <2>1 DEF RunJob, Watched
  <2>2. CASE NotifyDevice(t)
    BY <2>2 DEF NotifyDevice, Look, Depart, Unlock, Finish
  <2>3. CASE NotifyNext(t)
    BY <2>3 DEF NotifyNext, Look, Depart, Unlock
  <2>4. CASE JobOver(t)
    BY <2>4 DEF JobOver, Unlock, Finish
  <2>5. CASE Tell(t)
    BY <2>5 DEF Tell
  <2>6. CASE Retake(t)
    <3>1. CASE task[t].op = "job"
      <4>1. pc'[t] = "each" /\ task'[t].op = "job" /\ lot'[t] = lot[t]
        BY <2>6, <3>1 DEF Retake
      <4>2. \A u \in Thread \ {t} : pc'[u] = pc[u] /\ task'[u] = task[u] /\ lot'[u] = lot[u]
        BY <2>6, <3>1 DEF Retake
      <4>3. pc[t] = "retake"
        BY <2>6 DEF Retake
      <4> QED BY <4>1, <4>2, <4>3
    <3>2. CASE task[t].op # "job"
      BY <2>6, <3>2 DEF Retake, Finish
    <3> QED BY <3>1, <3>2
  <2>7. CASE Window(t)
    BY <2>7 DEF Window, Depart, Unlock, Finish
  <2> QED BY <1>5, <2>1, <2>2, <2>3, <2>4, <2>5, <2>6, <2>7 DEF TellStep
<1> QED BY <1>1, <1>2, <1>3, <1>4, <1>5

(* Nobody finds or walks past a lot he had not, and no lot gets a name. *)
KeepsName(u) ==
    /\ pc'[u] \in Op => pc'[u] = pc[u] /\ lot'[u] = lot[u] /\ task'[u].context = task[u].context
    /\ pc'[u] = "scan" => pc[u] = "scan" /\ todo'[u] = todo[u] /\ task'[u].context = task[u].context

(* The names stay right when everybody keeps to it. *)
LEMMA NamesKept ==
    ASSUME NameInv, StillListed, lots' \subseteq lots,
           \A p \in lots : context'[p] = context[p] /\ Watched(p)' \subseteq Watched(p),
           \A u \in Thread : KeepsName(u)
    PROVE  FoundNamed' /\ Passed' /\ WatchedNamed'
<1>1. FoundNamed'
  BY DEF NameInv, FoundNamed, KeepsName, StillListed, InHand, Holding
<1>2. Passed'
  BY DEF NameInv, Passed, KeepsName
<1>3. WatchedNamed'
  BY DEF NameInv, WatchedNamed
<1> QED BY <1>1, <1>2, <1>3

(* The end of an operation leaves nobody with a name. *)
LEMMA FinishKeepsName ==
    ASSUME ThreadTypes, NEW t \in Thread, Finish(t), UNCHANGED todo
    PROVE  \A u \in Thread : KeepsName(u)
<1>1. pc'[t] \in {"idle", "unconfig"}
  BY FinishTypes
<1>2. \A u \in Thread \ {t} : pc'[u] = pc[u] /\ lot'[u] = lot[u] /\ task'[u] = task[u]
  BY DEF Finish, Goto, ThreadTypes
<1> QED BY <1>1, <1>2 DEF KeepsName, Op

(* What is found, walked past and watched, action by action. *)
LEMMA NameStep ==
    IInv /\ OneLotPerContext /\ NameInv /\ Next => FoundNamed' /\ Passed' /\ WatchedNamed'
<1> SUFFICES ASSUME IInv /\ OneLotPerContext /\ NameInv, NEW t \in Thread,
                    Asked(t) \/ FindStep(t) \/ WatchStep(t) \/ SlotStep(t) \/ TellStep(t)
             PROVE  FoundNamed' /\ Passed' /\ WatchedNamed'
  BY DEF Next
<1> USE ParkingAssumption
        DEF IInv, TypeOK, LockInv, ListInv, PC, At, Goto, lockVars, fieldVars, phoneVars
<1>1. CASE Asked(t)
  <2>1. CASE Register(t)
    <3>1. /\ lots' \subseteq lots
          /\ \A p \in lots : context'[p] = context[p] /\ Watched(p)' \subseteq Watched(p)
      BY <2>1 DEF Register, Watched, LotTypes, Begin
    <3>2. \A u \in Thread : KeepsName(u)
      BY <2>1 DEF Register, Begin, KeepsName, ThreadTypes, Op
    <3> QED BY <3>1, <3>2, NamesKept
  <2>2. CASE Clean(t)
    <3>1. /\ lots' \subseteq lots
          /\ \A p \in lots : context'[p] = context[p] /\ Watched(p)' \subseteq Watched(p)
      BY <2>2 DEF Clean, Watched, LotTypes, Begin
    <3>2. \A u \in Thread : KeepsName(u)
      BY <2>2 DEF Clean, Begin, KeepsName, ThreadTypes, Op
    <3> QED BY <3>1, <3>2, NamesKept
  <2>3. CASE Press(t)
    <3>1. /\ lots' \subseteq lots
          /\ \A p \in lots : context'[p] = context[p] /\ Watched(p)' \subseteq Watched(p)
      BY <2>3 DEF Press, Watched, LotTypes, Begin
    <3>2. \A u \in Thread : KeepsName(u)
      BY <2>3 DEF Press, Begin, KeepsName, ThreadTypes, Op
    <3> QED BY <3>1, <3>2, NamesKept
  <2>4. CASE Report(t)
    <3>1. /\ lots' \subseteq lots
          /\ \A p \in lots : context'[p] = context[p] /\ Watched(p)' \subseteq Watched(p)
      BY <2>4 DEF Report, Watched, LotTypes, Begin
    <3>2. \A u \in Thread : KeepsName(u)
      BY <2>4 DEF Report, Begin, KeepsName, ThreadTypes, Op
    <3> QED BY <3>1, <3>2, NamesKept
  <2>5. CASE TakeJob(t)
    <3>1. /\ lots' \subseteq lots
          /\ \A p \in lots : context'[p] = context[p] /\ Watched(p)' \subseteq Watched(p)
      BY <2>5 DEF TakeJob, Watched, LotTypes, Begin
    <3>2. \A u \in Thread : KeepsName(u)
      BY <2>5 DEF TakeJob, Begin, KeepsName, ThreadTypes, Op
    <3> QED BY <3>1, <3>2, NamesKept
  <2> QED BY <1>1, <2>1, <2>2, <2>3, <2>4, <2>5 DEF Asked
<1>2. CASE FindStep(t)
  <2>1. CASE ReadList(t)
    <3>1. FoundNamed' /\ WatchedNamed'
      BY <2>1 DEF ReadList, NameInv, FoundNamed, WatchedNamed, Watched, Op, ThreadTypes
    <3>2. todo'[t] = lots /\ \A u \in Thread \ {t} : todo'[u] = todo[u] /\ pc'[u] = pc[u]
      BY <2>1 DEF ReadList, ThreadTypes
    <3>3. Passed'
      BY <2>1, <3>2 DEF ReadList, NameInv, Passed
    <3> QED BY <3>1, <3>3
  <2>2. CASE Visit(t)
    <3>1. PICK p \in todo[t] :
              \/ /\ context[p] # task[t].context
                 /\ todo' = [todo EXCEPT ![t] = @ \ {p}] /\ UNCHANGED <<pc, lot>>
              \/ /\ context[p] = task[t].context
                 /\ lot' = [lot EXCEPT ![t] = p] /\ todo' = [todo EXCEPT ![t] = {}]
                 /\ pc' = [pc EXCEPT ![t] = task[t].op]
      BY <2>2 DEF Visit
    <3>2. UNCHANGED <<task, lots, context, observers>> /\ pc[t] = "scan"
      BY <2>2 DEF Visit
    <3>3. task[t].op \in Op /\ task[t].op # "scan"
      BY <3>2 DEF TaskOK, Looking, Op
    <3>4. FoundNamed'
      BY <3>1, <3>2 DEF NameInv, FoundNamed, ThreadTypes, Op
    <3>5. Passed'
      BY <3>1, <3>2, <3>3 DEF NameInv, Passed, ThreadTypes
    <3>6. WatchedNamed'
      BY <3>2 DEF NameInv, WatchedNamed, Watched
    <3> QED BY <3>4, <3>5, <3>6
  <2>3. CASE NotFound(t)
    <3>1. /\ lots' \subseteq lots
          /\ \A p \in lots : context'[p] = context[p] /\ Watched(p)' \subseteq Watched(p)
      BY <2>3 DEF NotFound, Watched, LotTypes
    <3>2. CASE Finish(t)
      BY <2>3, <3>1, <3>2, FinishKeepsName, NamesKept DEF NotFound
    <3>3. CASE ~Finish(t)
      <4>1. \A u \in Thread : KeepsName(u)
        BY <2>3, <3>3 DEF NotFound, KeepsName, ThreadTypes, Op, Look, Depart, Creates
      <4> QED BY <3>1, <4>1, NamesKept
    <3> QED BY <3>2, <3>3
  <2>4. CASE WriteList(t)
    <3>1. /\ lots' \subseteq lots
          /\ \A p \in lots : context'[p] = context[p] /\ Watched(p)' \subseteq Watched(p)
      BY <2>4 DEF WriteList, Watched, LotTypes
    <3>2. \A u \in Thread : KeepsName(u)
      BY <2>4 DEF WriteList, KeepsName, ThreadTypes, Op
    <3> QED BY <3>1, <3>2, NamesKept
  <2>5. CASE Adopt(t)
    <3>1. PICK p \in lots : context[p] = task[t].context /\ lot' = [lot EXCEPT ![t] = p]
      BY <2>5 DEF Adopt, Named
    <3>2. /\ UNCHANGED <<task, todo, lots, context, observers>>
          /\ pc[t] = "adopt" /\ pc' = [pc EXCEPT ![t] = task[t].op]
      BY <2>5 DEF Adopt
    <3>3. task[t].op \in Op /\ task[t].op # "scan"
      BY <3>2 DEF TaskOK, Looking, Op
    <3>4. FoundNamed'
      BY <3>1, <3>2 DEF NameInv, FoundNamed, ThreadTypes
    <3>5. Passed'
      BY <3>2, <3>3 DEF NameInv, Passed, ThreadTypes
    <3>6. WatchedNamed'
      BY <3>2 DEF NameInv, WatchedNamed, Watched
    <3> QED BY <3>4, <3>5, <3>6
  <2>6. CASE Insert(t)
    <3>1. PICK p \in Address \ lots :
              /\ lots' = lots \cup {p} /\ lot' = [lot EXCEPT ![t] = p]
              /\ context' = [context EXCEPT ![p] = task[t].context]
              /\ observers' = [observers EXCEPT ![p] = [d \in Device |-> 0]]
      BY <2>6 DEF Insert, Reset, InUse
    <3>2. /\ UNCHANGED <<task, todo>>
          /\ pc[t] = "adopt" /\ pc' = [pc EXCEPT ![t] = task[t].op]
      BY <2>6 DEF Insert
    <3>3. task[t].op \in Op /\ task[t].op \notin {"scan", "none"} /\ task[t].context \in Context
      BY <3>2 DEF TaskOK, Looking, Op, NameInv, AskOK
    <3>4. \A u \in Thread : pc[u] \in Op => lot[u] \in lots
      BY DEF StillListed, InHand, Holding
    <3>5. \A q \in lots : context'[q] = context[q] /\ observers'[q] = observers[q]
      BY <3>1 DEF LotTypes
    <3>6. context'[p] = task[t].context /\ \A d \in Device : observers'[p][d] = 0
      BY <3>1 DEF LotTypes
    <3>7. FoundNamed'
      BY <3>1, <3>2, <3>4, <3>5, <3>6 DEF NameInv, FoundNamed, ThreadTypes
    <3>8. \A u \in Thread : pc[u] # "scan"
      BY <3>2, ParkingAssumption DEF ListHeld
    <3>9. Passed'
      BY <3>2, <3>3, <3>8 DEF Passed, ThreadTypes
    <3>10. WatchedNamed'
      BY <3>1, <3>3, <3>5, <3>6 DEF NameInv, WatchedNamed, Watched
    <3> QED BY <3>7, <3>9, <3>10
  <2> QED BY <1>2, <2>1, <2>2, <2>3, <2>4, <2>5, <2>6 DEF FindStep
<1>3. CASE WatchStep(t)
  <2>1. CASE LockConfig(t)
    <3>1. /\ lots' \subseteq lots
          /\ \A p \in lots : context'[p] = context[p] /\ Watched(p)' \subseteq Watched(p)
      BY <2>1 DEF LockConfig, Watched, LotTypes
    <3>2. \A u \in Thread : KeepsName(u)
      BY <2>1 DEF LockConfig, KeepsName, ThreadTypes, Op
    <3> QED BY <3>1, <3>2, NamesKept
  <2>2. CASE Attach(t)
    <3>1. /\ UNCHANGED <<todo, lots, context>>
          /\ pc[t] = "attach" /\ pc' = [pc EXCEPT ![t] = "find"]
          /\ observers' = [observers EXCEPT ![lot[t]][task[t].device] = @ + 1]
      BY <2>2 DEF Attach
    <3>2. \A u \in Thread \ {t} : lot'[u] = lot[u] /\ task'[u] = task[u] /\ pc'[u] = pc[u]
      BY <2>2 DEF Attach, ThreadTypes
    <3>3. pc'[t] = "find"
      BY <3>1 DEF ThreadTypes
    <3>4. FoundNamed' /\ Passed'
      BY <3>1, <3>2, <3>3 DEF NameInv, FoundNamed, Passed, Op
    <3>5. context[lot[t]] = ContextOf[task[t].device]
      BY <3>1 DEF NameInv, FoundNamed, AskOK, TaskOK, Op
    <3>6. \A p \in lots, d \in Device :
              observers'[p][d] = observers[p][d] \/ (p = lot[t] /\ d = task[t].device)
      BY <3>1 DEF LotTypes
    <3>7. WatchedNamed'
      BY <3>1, <3>5, <3>6 DEF NameInv, WatchedNamed, Watched
    <3> QED BY <3>4, <3>7
  <2>3. CASE Detach(t)
    <3>1. /\ lots' \subseteq lots
          /\ \A p \in lots : context'[p] = context[p] /\ Watched(p)' \subseteq Watched(p)
      BY <2>3 DEF Detach, Watched, LotTypes, Fewer
    <3>2. CASE Finish(t)
      BY <2>3, <3>1, <3>2, FinishKeepsName, NamesKept DEF Detach
    <3>3. CASE ~Finish(t)
      <4>1. \A u \in Thread : KeepsName(u)
        BY <2>3, <3>3 DEF Detach, KeepsName, ThreadTypes, Op, Look, Depart, Creates
      <4> QED BY <3>1, <4>1, NamesKept
    <3> QED BY <3>2, <3>3
  <2>4. CASE Recheck(t)
    <3>1. /\ lots' \subseteq lots
          /\ \A p \in lots : context'[p] = context[p] /\ Watched(p)' \subseteq Watched(p)
      BY <2>4 DEF Recheck, Watched, LotTypes
    <3>2. CASE Finish(t)
      BY <2>4, <3>1, <3>2, FinishKeepsName, NamesKept DEF Recheck
    <3>3. CASE ~Finish(t)
      <4>1. \A u \in Thread : KeepsName(u)
        BY <2>4, <3>3 DEF Recheck, KeepsName, ThreadTypes, Op, Look, Depart, Creates
      <4> QED BY <3>1, <4>1, NamesKept
    <3> QED BY <3>2, <3>3
  <2>5. CASE Free(t)
    <3>1. /\ lots' \subseteq lots
          /\ \A p \in lots : context'[p] = context[p] /\ Watched(p)' \subseteq Watched(p)
      BY <2>5 DEF Free, Watched, LotTypes, Reset, FreedUnlisted
    <3>2. \A u \in Thread : KeepsName(u)
      BY <2>5, FinishKeepsName DEF Free
    <3> QED BY <3>1, <3>2, NamesKept
  <2>6. CASE UnlockConfig(t)
    <3>1. /\ lots' \subseteq lots
          /\ \A p \in lots : context'[p] = context[p] /\ Watched(p)' \subseteq Watched(p)
      BY <2>6 DEF UnlockConfig, Watched, LotTypes
    <3>2. \A u \in Thread : KeepsName(u)
      BY <2>6 DEF UnlockConfig, KeepsName, ThreadTypes, Op
    <3> QED BY <3>1, <3>2, NamesKept
  <2> QED BY <1>3, <2>1, <2>2, <2>3, <2>4, <2>5, <2>6 DEF WatchStep
<1>4. CASE SlotStep(t)
  <2>1. CASE AddSlot(t)
    <3>1. /\ lots' \subseteq lots
          /\ \A p \in lots : context'[p] = context[p] /\ Watched(p)' \subseteq Watched(p)
      BY <2>1 DEF AddSlot, Watched, LotTypes
    <3>2. \A u \in Thread : KeepsName(u)
      BY <2>1, FinishKeepsName DEF AddSlot
    <3> QED BY <3>1, <3>2, NamesKept
  <2>2. CASE RemoveSlot(t)
    <3>1. /\ lots' \subseteq lots
          /\ \A p \in lots : context'[p] = context[p] /\ Watched(p)' \subseteq Watched(p)
      BY <2>2 DEF RemoveSlot, Watched, LotTypes
    <3>2. \A u \in Thread : KeepsName(u)
      BY <2>2, FinishKeepsName DEF RemoveSlot
    <3> QED BY <3>1, <3>2, NamesKept
  <2> QED BY <1>4, <2>1, <2>2 DEF SlotStep
<1>5. CASE TellStep(t)
  <2>1. CASE RunJob(t)
    <3>1. /\ lots' \subseteq lots
          /\ \A p \in lots : context'[p] = context[p] /\ Watched(p)' \subseteq Watched(p)
      BY <2>1 DEF RunJob, Watched, LotTypes
    <3>2. \A u \in Thread : KeepsName(u)
      BY <2>1 DEF RunJob, KeepsName, ThreadTypes, Op
    <3> QED BY <3>1, <3>2, NamesKept
  <2>2. CASE NotifyDevice(t)
    <3>1. /\ lots' \subseteq lots
          /\ \A p \in lots : context'[p] = context[p] /\ Watched(p)' \subseteq Watched(p)
      BY <2>2 DEF NotifyDevice, Watched, LotTypes
    <3>2. CASE Finish(t)
      BY <2>2, <3>1, <3>2, FinishKeepsName, NamesKept DEF NotifyDevice
    <3>3. CASE ~Finish(t)
      <4>1. \A u \in Thread : KeepsName(u)
        BY <2>2, <3>3 DEF NotifyDevice, KeepsName, ThreadTypes, Op, Look, Depart, Creates
      <4> QED BY <3>1, <4>1, NamesKept
    <3> QED BY <3>2, <3>3
  <2>3. CASE NotifyNext(t)
    <3>1. /\ lots' \subseteq lots
          /\ \A p \in lots : context'[p] = context[p] /\ Watched(p)' \subseteq Watched(p)
      BY <2>3 DEF NotifyNext, Watched, LotTypes
    <3>2. CASE Finish(t)
      BY <2>3, <3>1, <3>2, FinishKeepsName, NamesKept DEF NotifyNext
    <3>3. CASE ~Finish(t)
      <4>1. \A u \in Thread : KeepsName(u)
        BY <2>3, <3>3 DEF NotifyNext, KeepsName, ThreadTypes, Op, Look, Depart, Creates
      <4> QED BY <3>1, <4>1, NamesKept
    <3> QED BY <3>2, <3>3
  <2>4. CASE JobOver(t)
    <3>1. /\ lots' \subseteq lots
          /\ \A p \in lots : context'[p] = context[p] /\ Watched(p)' \subseteq Watched(p)
      BY <2>4 DEF JobOver, Watched, LotTypes
    <3>2. \A u \in Thread : KeepsName(u)
      BY <2>4, FinishKeepsName DEF JobOver
    <3> QED BY <3>1, <3>2, NamesKept
  <2>5. CASE Tell(t)
    <3>1. /\ lots' \subseteq lots
          /\ \A p \in lots : context'[p] = context[p] /\ Watched(p)' \subseteq Watched(p)
      BY <2>5 DEF Tell, Watched, LotTypes
    <3>2. \A u \in Thread : KeepsName(u)
      BY <2>5 DEF Tell, KeepsName, ThreadTypes, Op
    <3> QED BY <3>1, <3>2, NamesKept
  <2>6. CASE Retake(t)
    <3>1. /\ lots' \subseteq lots
          /\ \A p \in lots : context'[p] = context[p] /\ Watched(p)' \subseteq Watched(p)
      BY <2>6 DEF Retake, Watched, LotTypes
    <3>2. CASE Finish(t)
      BY <2>6, <3>1, <3>2, FinishKeepsName, NamesKept DEF Retake
    <3>3. CASE ~Finish(t)
      <4>1. \A u \in Thread : KeepsName(u)
        BY <2>6, <3>3 DEF Retake, KeepsName, ThreadTypes, Op, Look, Depart, Creates
      <4> QED BY <3>1, <4>1, NamesKept
    <3> QED BY <3>2, <3>3
  <2>7. CASE Window(t)
    <3>1. /\ lots' \subseteq lots
          /\ \A p \in lots : context'[p] = context[p] /\ Watched(p)' \subseteq Watched(p)
      BY <2>7 DEF Window, Watched, LotTypes
    <3>2. CASE Finish(t)
      BY <2>7, <3>1, <3>2, FinishKeepsName, NamesKept DEF Window
    <3>3. CASE ~Finish(t)
      <4>1. \A u \in Thread : KeepsName(u)
        BY <2>7, <3>3 DEF Window, KeepsName, ThreadTypes, Op, Look, Depart, Creates
      <4> QED BY <3>1, <4>1, NamesKept
    <3> QED BY <3>2, <3>3
  <2> QED BY <1>5, <2>1, <2>2, <2>3, <2>4, <2>5, <2>6, <2>7 DEF TellStep
<1> QED BY <1>1, <1>2, <1>3, <1>4, <1>5

(* What NoChangeMissed says of one lot, and how a step leaves it alone. *)
KnowsNews(p) ==
    /\ \A d \in Watched(p) : heard[d] = (slots[p] # {}) \/ Expected(d, p)
    /\ notifyPending[p] => Pended(p)

KeepsNews(p) ==
    /\ context'[p] = context[p] /\ slots'[p] = slots[p] /\ notifyPending'[p] = notifyPending[p]
    /\ \A d \in Watched(p)' : d \in Watched(p) /\ heard'[d] = heard[d]
    /\ jobs[context[p]] > 0 => Pended(p)'
    /\ \A u \in Thread : /\ Works(u, p) => Works(u, p)'
                         /\ \A d \in Watched(p) : Tells(u, d, p) => Tells(u, d, p)'

(* A job that is pending stays so, or has become a job that is done. *)
LEMMA WorkGoesOn ==
    ASSUME NEW p, Pended(p), jobs[context[p]] > 0 => Pended(p)',
           \A u \in Thread : Works(u, p) => Works(u, p)'
    PROVE  Pended(p)'
BY DEF Pended, Works, Thread

(* Such a step keeps what is said of the lot. *)
LEMMA NewsKept ==
    ASSUME NoChangeMissed, NEW p \in lots, KeepsNews(p)
    PROVE  KnowsNews(p)'
<1>1. ASSUME NEW d \in Watched(p)' PROVE heard'[d] = (slots'[p] # {}) \/ Expected(d, p)'
  <2>1. d \in Watched(p) /\ heard'[d] = heard[d] /\ slots'[p] = slots[p]
    BY <1>1 DEF KeepsNews
  <2>2. CASE heard[d] = (slots[p] # {})
    BY <2>1, <2>2
  <2>3. CASE notifyPending[p]
    BY <2>3 DEF KeepsNews, Expected
  <2>4. CASE \E u \in Thread : Tells(u, d, p)
    <3>1. \E u \in Thread : Tells(u, d, p)'
      BY <2>1, <2>4 DEF KeepsNews
    <3> QED BY <3>1 DEF Tells, Expected
  <2> QED BY <2>1, <2>2, <2>3, <2>4, WhoTells DEF NoChangeMissed
<1>2. notifyPending'[p] => Pended(p)'
  BY WorkGoesOn DEF NoChangeMissed, KeepsNews
<1> QED BY <1>1, <1>2 DEF KnowsNews

(* No lot is left out. *)
LEMMA AllKeep ==
    ASSUME NoChangeMissed, lots' \subseteq lots, \A p \in lots' : KeepsNews(p)
    PROVE  NoChangeMissed'
<1>1. \A p \in lots' : KnowsNews(p)'
  BY NewsKept
<1> QED BY <1>1 DEF NoChangeMissed, KnowsNews

(* A device watches one lot. *)
LEMMA OneWatched ==
    ASSUME WatchedNamed, OneLotPerContext, NEW p \in lots, NEW q \in lots,
           NEW d \in Watched(p), d \in Watched(q)
    PROVE  p = q
BY DEF WatchedNamed, OneLotPerContext

(* A phone is told what is parked: of the lot it watches, and there is no other. *)
LEMMA LookNews ==
    ASSUME IInv, OneLotPerContext, NameInv, NoChangeMissed, NEW t \in Thread,
           NEW d \in Watched(lot[t]), lot[t] \in lots, Look(t, d),
           UNCHANGED <<lot, lots, context, observers, slots, notifyPending, jobs>>,
           pc[t] \in {"each", "notify"},
           \A u \in Thread : \A e \in Device : e # d /\ e \in told[u] => e \in told'[u],
           pc[t] = "notify" => d = task[t].device,
           \A u \in Thread \ {t} : task'[u] = task[u]
    PROVE  NoChangeMissed'
<1> USE DEF IInv, TypeOK, PC
<1>1. pc' = [pc EXCEPT ![t] = "tell"] /\ heard' = [heard EXCEPT ![d] = slots[lot[t]] # {}]
  BY DEF Look, Depart, Goto
<1>2. \A u \in Thread : \A p \in lots : \A e \in Device \ {d} :
          Tells(u, e, p) => Tells(u, e, p)'
  BY <1>1 DEF Tells, Talking, ThreadTypes
<1>3. \A u \in Thread : \A p \in lots : Works(u, p) => Works(u, p)'
  BY <1>1 DEF Works, ThreadTypes
<1>4. d \in Device /\ heard'[d] = (slots[lot[t]] # {})
  BY <1>1 DEF Watched
<1>5. ASSUME NEW p \in lots \ {lot[t]} PROVE KnowsNews(p)'
  <2>1. d \notin Watched(p)
    BY OneWatched DEF NameInv
  <2>2. KeepsNews(p)
    BY <1>1, <1>2, <1>3, <2>1 DEF KeepsNews, Watched, Pended
  <2> QED BY <2>2, NewsKept
<1>6. KnowsNews(lot[t])'
  <2>1. notifyPending[lot[t]] => Pended(lot[t])'
    BY <1>3, WorkGoesOn DEF NoChangeMissed, Pended
  <2>2. ASSUME NEW e \in Watched(lot[t]), e # d
        PROVE  heard'[e] = (slots[lot[t]] # {}) \/ Expected(e, lot[t])'
    <3>1. e \in Device /\ heard'[e] = heard[e]
      BY <1>1, <2>2 DEF Watched
    <3>2. CASE notifyPending[lot[t]]
      BY <3>2 DEF Expected
    <3>3. CASE \E u \in Thread : Tells(u, e, lot[t])
      <4>1. \E u \in Thread : Tells(u, e, lot[t])'
        BY <1>2, <2>2, <3>1, <3>3
      <4> QED BY <4>1 DEF Tells, Expected
    <3> QED BY <3>1, <3>2, <3>3, WhoTells DEF NoChangeMissed
  <2> QED BY <1>4, <2>1, <2>2 DEF KnowsNews, Watched
<1> QED BY <1>5, <1>6 DEF NoChangeMissed, KnowsNews

(* No step loses a change, action by action. *)
LEMMA NewsStep ==
    IInv /\ OneLotPerContext /\ NameInv /\ NoChangeMissed /\ Next => NoChangeMissed'
<1> SUFFICES ASSUME IInv /\ OneLotPerContext /\ NameInv /\ NoChangeMissed, NEW t \in Thread,
                    Asked(t) \/ FindStep(t) \/ WatchStep(t) \/ SlotStep(t) \/ TellStep(t)
             PROVE  NoChangeMissed'
  BY DEF Next
<1> USE ParkingAssumption
        DEF IInv, TypeOK, LockInv, ListInv, PC, Op, Talking, At, Goto, lockVars, fieldVars,
            phoneVars
<1>1. CASE Asked(t)
  <2>1. CASE Register(t)
    <3>1. /\ lots' \subseteq lots /\ UNCHANGED <<context, slots, notifyPending, jobs, heard>>
          /\ \A p \in lots : Watched(p)' \subseteq Watched(p)
      BY <2>1 DEF Register, Watched, LotTypes, Begin
    <3>2. \A p \in lots : \A u \in Thread :
              /\ Works(u, p) => Works(u, p)'
              /\ \A d \in Watched(p) : Tells(u, d, p) => Tells(u, d, p)'
      BY <2>1, <3>1 DEF Register, Begin, Tells, Works, ThreadTypes
    <3>3. \A p \in lots' : KeepsNews(p)
      BY <3>1, <3>2 DEF KeepsNews, Pended
    <3> QED BY <3>1, <3>3, AllKeep
  <2>2. CASE Clean(t)
    <3>1. /\ lots' \subseteq lots /\ UNCHANGED <<context, slots, notifyPending, jobs, heard>>
          /\ \A p \in lots : Watched(p)' \subseteq Watched(p)
      BY <2>2 DEF Clean, Watched, LotTypes, Begin
    <3>2. \A p \in lots : \A u \in Thread :
              /\ Works(u, p) => Works(u, p)'
              /\ \A d \in Watched(p) : Tells(u, d, p) => Tells(u, d, p)'
      BY <2>2, <3>1 DEF Clean, Begin, Tells, Works, ThreadTypes
    <3>3. \A p \in lots' : KeepsNews(p)
      BY <3>1, <3>2 DEF KeepsNews, Pended
    <3> QED BY <3>1, <3>3, AllKeep
  <2>3. CASE Press(t)
    <3>1. /\ lots' \subseteq lots /\ UNCHANGED <<context, slots, notifyPending, jobs, heard>>
          /\ \A p \in lots : Watched(p)' \subseteq Watched(p)
      BY <2>3 DEF Press, Watched, LotTypes, Begin
    <3>2. \A p \in lots : \A u \in Thread :
              /\ Works(u, p) => Works(u, p)'
              /\ \A d \in Watched(p) : Tells(u, d, p) => Tells(u, d, p)'
      BY <2>3, <3>1 DEF Press, Begin, Tells, Works, ThreadTypes
    <3>3. \A p \in lots' : KeepsNews(p)
      BY <3>1, <3>2 DEF KeepsNews, Pended
    <3> QED BY <3>1, <3>3, AllKeep
  <2>4. CASE Report(t)
    <3>1. /\ lots' \subseteq lots /\ UNCHANGED <<context, slots, notifyPending, jobs, heard>>
          /\ \A p \in lots : Watched(p)' \subseteq Watched(p)
      BY <2>4 DEF Report, Watched, LotTypes, Begin
    <3>2. \A p \in lots : \A u \in Thread :
              /\ Works(u, p) => Works(u, p)'
              /\ \A d \in Watched(p) : Tells(u, d, p) => Tells(u, d, p)'
      BY <2>4, <3>1 DEF Report, Begin, Tells, Works, ThreadTypes
    <3>3. \A p \in lots' : KeepsNews(p)
      BY <3>1, <3>2 DEF KeepsNews, Pended
    <3> QED BY <3>1, <3>3, AllKeep
  <2>5. CASE TakeJob(t)
    <3>1. PICK c \in Context :
              jobs' = [jobs EXCEPT ![c] = @ - 1] /\ Begin(t, "job", "find", Nobody, c)
      BY <2>5 DEF TakeJob
    <3>2. UNCHANGED <<lots, fieldVars, heard>> /\ t \in Worker /\ pc[t] = "idle"
      BY <2>5 DEF TakeJob
    <3>3. ASSUME NEW p \in lots' PROVE KeepsNews(p)
      <4>1. jobs[context[p]] > 0 => Pended(p)'
        <5>1. CASE context[p] = c
          BY <3>1, <3>2, <5>1 DEF Begin, ThreadTypes, Pended
        <5>2. CASE context[p] # c
          BY <3>1, <3>2, <5>2 DEF Pended
        <5> QED BY <5>1, <5>2
      <4>2. \A u \in Thread : /\ Works(u, p) => Works(u, p)'
                              /\ \A d \in Watched(p) : Tells(u, d, p) => Tells(u, d, p)'
        BY <3>1, <3>2 DEF Begin, ThreadTypes, Works, Tells
      <4> QED BY <3>2, <4>1, <4>2 DEF KeepsNews, Watched
    <3> QED BY <3>2, <3>3, AllKeep
  <2> QED BY <1>1, <2>1, <2>2, <2>3, <2>4, <2>5 DEF Asked
<1>2. CASE FindStep(t)
  <2>1. CASE ReadList(t)
    <3>1. /\ lots' \subseteq lots /\ UNCHANGED <<context, slots, notifyPending, jobs, heard>>
          /\ \A p \in lots : Watched(p)' \subseteq Watched(p)
      BY <2>1 DEF ReadList, Watched, LotTypes
    <3>2. \A p \in lots : \A u \in Thread :
              /\ Works(u, p) => Works(u, p)'
              /\ \A d \in Watched(p) : Tells(u, d, p) => Tells(u, d, p)'
      BY <2>1, <3>1 DEF ReadList, Tells, Works, ThreadTypes
    <3>3. \A p \in lots' : KeepsNews(p)
      BY <3>1, <3>2 DEF KeepsNews, Pended
    <3> QED BY <3>1, <3>3, AllKeep
  <2>2. CASE Visit(t)
    <3>1. /\ lots' \subseteq lots /\ UNCHANGED <<context, slots, notifyPending, jobs, heard>>
          /\ \A p \in lots : Watched(p)' \subseteq Watched(p)
      BY <2>2 DEF Visit, Watched, LotTypes
    <3>2. \A p \in lots : \A u \in Thread :
              /\ Works(u, p) => Works(u, p)'
              /\ \A d \in Watched(p) : Tells(u, d, p) => Tells(u, d, p)'
      BY <2>2, <3>1 DEF Visit, Tells, Works, ThreadTypes
    <3>3. \A p \in lots' : KeepsNews(p)
      BY <3>1, <3>2 DEF KeepsNews, Pended
    <3> QED BY <3>1, <3>3, AllKeep
  <2>3. CASE NotFound(t)
    <3>1. UNCHANGED <<lots, fieldVars, jobs, heard, told>> /\ pc[t] = "scan" /\ todo[t] = {}
      BY <2>3 DEF NotFound
    <3>2. \A p \in lots : context[p] # task[t].context
      BY <3>1 DEF NameInv, Passed
    <3>3. \A u \in Thread \ {t} : pc'[u] = pc[u] /\ lot'[u] = lot[u] /\ task'[u] = task[u]
      BY <2>3, FinishTypes DEF NotFound, Finish, ThreadTypes
    <3>4. task[t].op = "notify" => pc'[t] = "create" /\ UNCHANGED task
      BY <2>3 DEF NotFound, Creates, ThreadTypes
    <3>5. \A p \in lots : \A u \in Thread :
              /\ Works(u, p) => Works(u, p)'
              /\ \A d \in Watched(p) : Tells(u, d, p) => Tells(u, d, p)'
      BY <3>1, <3>2, <3>3, <3>4 DEF Works, Tells
    <3>6. \A p \in lots' : KeepsNews(p)
      BY <3>1, <3>5 DEF KeepsNews, Watched, Pended
    <3> QED BY <3>1, <3>6, AllKeep
  <2>4. CASE WriteList(t)
    <3>1. /\ lots' \subseteq lots /\ UNCHANGED <<context, slots, notifyPending, jobs, heard>>
          /\ \A p \in lots : Watched(p)' \subseteq Watched(p)
      BY <2>4 DEF WriteList, Watched, LotTypes
    <3>2. \A p \in lots : \A u \in Thread :
              /\ Works(u, p) => Works(u, p)'
              /\ \A d \in Watched(p) : Tells(u, d, p) => Tells(u, d, p)'
      BY <2>4, <3>1 DEF WriteList, Tells, Works, ThreadTypes
    <3>3. \A p \in lots' : KeepsNews(p)
      BY <3>1, <3>2 DEF KeepsNews, Pended
    <3> QED BY <3>1, <3>3, AllKeep
  <2>5. CASE Adopt(t)
    <3>1. /\ lots' \subseteq lots /\ UNCHANGED <<context, slots, notifyPending, jobs, heard>>
          /\ \A p \in lots : Watched(p)' \subseteq Watched(p)
      BY <2>5 DEF Adopt, Watched, LotTypes
    <3>2. \A p \in lots : \A u \in Thread :
              /\ Works(u, p) => Works(u, p)'
              /\ \A d \in Watched(p) : Tells(u, d, p) => Tells(u, d, p)'
      BY <2>5, <3>1 DEF Adopt, Named, Tells, Works, ThreadTypes
    <3>3. \A p \in lots' : KeepsNews(p)
      BY <3>1, <3>2 DEF KeepsNews, Pended
    <3> QED BY <3>1, <3>3, AllKeep
  <2>6. CASE Insert(t)
    <3>1. PICK p \in Address \ lots :
              /\ lots' = lots \cup {p} /\ lot' = [lot EXCEPT ![t] = p]
              /\ context' = [context EXCEPT ![p] = task[t].context]
              /\ observers' = [observers EXCEPT ![p] = [d \in Device |-> 0]]
              /\ slots' = [slots EXCEPT ![p] = {}]
              /\ notifyPending' = [notifyPending EXCEPT ![p] = FALSE]
      BY <2>6 DEF Insert, Reset, InUse
    <3>2. /\ UNCHANGED <<task, told, jobs, heard>>
          /\ pc[t] = "adopt" /\ pc' = [pc EXCEPT ![t] = task[t].op]
      BY <2>6 DEF Insert
    <3>3. ASSUME NEW q \in lots PROVE KnowsNews(q)'
      <4>1. /\ context'[q] = context[q] /\ observers'[q] = observers[q]
            /\ slots'[q] = slots[q] /\ notifyPending'[q] = notifyPending[q]
        BY <3>1 DEF LotTypes
      <4>2. \A u \in Thread : /\ Works(u, q) => Works(u, q)'
                              /\ \A d \in Watched(q) : Tells(u, d, q) => Tells(u, d, q)'
        BY <3>1, <3>2, <4>1 DEF Works, Tells, ThreadTypes
      <4>3. KeepsNews(q)
        BY <3>2, <4>1, <4>2 DEF KeepsNews, Watched, Pended
      <4> QED BY <4>3, NewsKept
    <3>4. KnowsNews(p)'
      BY <3>1 DEF KnowsNews, Watched, LotTypes
    <3> QED BY <3>1, <3>3, <3>4 DEF NoChangeMissed, KnowsNews
  <2> QED BY <1>2, <2>1, <2>2, <2>3, <2>4, <2>5, <2>6 DEF FindStep
<1>3. CASE WatchStep(t)
  <2>1. CASE LockConfig(t)
    <3>1. /\ lots' \subseteq lots /\ UNCHANGED <<context, slots, notifyPending, jobs, heard>>
          /\ \A p \in lots : Watched(p)' \subseteq Watched(p)
      BY <2>1 DEF LockConfig, Watched, LotTypes
    <3>2. \A p \in lots : \A u \in Thread :
              /\ Works(u, p) => Works(u, p)'
              /\ \A d \in Watched(p) : Tells(u, d, p) => Tells(u, d, p)'
      BY <2>1, <3>1 DEF LockConfig, Tells, Works, ThreadTypes
    <3>3. \A p \in lots' : KeepsNews(p)
      BY <3>1, <3>2 DEF KeepsNews, Pended
    <3> QED BY <3>1, <3>3, AllKeep
  <2>2. CASE Attach(t)
    <3>1. /\ UNCHANGED <<lots, context, slots, notifyPending, jobs, heard, told>>
          /\ pc[t] = "attach" /\ pc' = [pc EXCEPT ![t] = "find"]
          /\ observers' = [observers EXCEPT ![lot[t]][task[t].device] = @ + 1]
          /\ task' = [task EXCEPT ![t].op = "notify"]
          /\ lot' = [lot EXCEPT ![t] = Nobody]
      BY <2>2 DEF Attach
    <3>2. task[t].op = "attach" /\ t \in Phone
      BY <3>1 DEF TaskOK, NameInv, AskOK
    <3>3. pc'[t] = "find" /\ task'[t].op = "notify" /\ task'[t].device = task[t].device
      BY <3>1 DEF ThreadTypes, Task
    <3>4. \A u \in Thread \ {t} : pc'[u] = pc[u] /\ task'[u] = task[u] /\ lot'[u] = lot[u]
      BY <3>1 DEF ThreadTypes
    <3>5. \A p \in lots, d \in Device :
              d # task[t].device => observers'[p][d] = observers[p][d]
      BY <3>1 DEF LotTypes
    <3>6. ASSUME NEW p \in lots PROVE KnowsNews(p)'
      <4>1. Expected(task[t].device, p)'
        BY <3>2, <3>3 DEF Expected
      <4>2. \A u \in Thread : Works(u, p) => Works(u, p)'
        BY <3>1, <3>2, <3>4 DEF Works
      <4>3. \A d \in Device : \A u \in Thread : Tells(u, d, p) => Tells(u, d, p)'
        BY <3>1, <3>2, <3>3, <3>4 DEF Tells
      <4>4. ASSUME NEW d \in Watched(p), Expected(d, p) PROVE Expected(d, p)'
        BY <3>1, <4>3, <4>4, WhoTells DEF Watched, Tells, Expected
      <4>5. ASSUME NEW d \in Watched(p)', d # task[t].device PROVE d \in Watched(p)
        BY <3>5, <4>5 DEF Watched
      <4>6. notifyPending[p] => Pended(p)'
        BY <3>1, <4>2, WorkGoesOn DEF NoChangeMissed, Pended
      <4> QED BY <3>1, <4>1, <4>4, <4>5, <4>6 DEF KnowsNews, NoChangeMissed
    <3> QED BY <3>1, <3>6 DEF NoChangeMissed, KnowsNews
  <2>3. CASE Detach(t)
    <3>1. /\ lots' \subseteq lots /\ UNCHANGED <<context, slots, notifyPending, jobs, heard>>
          /\ \A p \in lots : Watched(p)' \subseteq Watched(p)
      BY <2>3 DEF Detach, Watched, LotTypes, Fewer
    <3>2. \A p \in lots : \A u \in Thread :
              /\ Works(u, p) => Works(u, p)'
              /\ \A d \in Watched(p) : Tells(u, d, p) => Tells(u, d, p)'
      BY <2>3, <3>1 DEF Detach, Finish, Tells, Works, ThreadTypes
    <3>3. \A p \in lots' : KeepsNews(p)
      BY <3>1, <3>2 DEF KeepsNews, Pended
    <3> QED BY <3>1, <3>3, AllKeep
  <2>4. CASE Recheck(t)
    <3>1. /\ lots' \subseteq lots /\ UNCHANGED <<context, slots, notifyPending, jobs, heard>>
          /\ \A p \in lots : Watched(p)' \subseteq Watched(p)
      BY <2>4 DEF Recheck, Watched, LotTypes
    <3>2. \A p \in lots : \A u \in Thread :
              /\ Works(u, p) => Works(u, p)'
              /\ \A d \in Watched(p) : Tells(u, d, p) => Tells(u, d, p)'
      BY <2>4, <3>1 DEF Recheck, Finish, Tells, Works, ThreadTypes
    <3>3. \A p \in lots' : KeepsNews(p)
      BY <3>1, <3>2 DEF KeepsNews, Pended
    <3> QED BY <3>1, <3>3, AllKeep
  <2>5. CASE Free(t)
    <3>1. UNCHANGED <<lots, jobs, heard, told>> /\ Finish(t) /\ pc[t] = "free" /\ lot[t] \notin lots
      BY <2>5 DEF Free, FreedUnlisted
    <3>2. \A p \in lots : /\ context'[p] = context[p] /\ slots'[p] = slots[p]
                          /\ notifyPending'[p] = notifyPending[p] /\ observers'[p] = observers[p]
      BY <2>5, <3>1 DEF Free, Reset, LotTypes
    <3>3. \A p \in lots : \A u \in Thread :
              /\ Works(u, p) => Works(u, p)'
              /\ \A d \in Watched(p) : Tells(u, d, p) => Tells(u, d, p)'
      BY <3>1, <3>2 DEF Works, Tells, Finish, ThreadTypes
    <3>4. \A p \in lots' : KeepsNews(p)
      BY <3>1, <3>2, <3>3 DEF KeepsNews, Watched, Pended
    <3> QED BY <3>1, <3>4, AllKeep
  <2>6. CASE UnlockConfig(t)
    <3>1. /\ lots' \subseteq lots /\ UNCHANGED <<context, slots, notifyPending, jobs, heard>>
          /\ \A p \in lots : Watched(p)' \subseteq Watched(p)
      BY <2>6 DEF UnlockConfig, Watched, LotTypes
    <3>2. \A p \in lots : \A u \in Thread :
              /\ Works(u, p) => Works(u, p)'
              /\ \A d \in Watched(p) : Tells(u, d, p) => Tells(u, d, p)'
      BY <2>6, <3>1 DEF UnlockConfig, Tells, Works, ThreadTypes
    <3>3. \A p \in lots' : KeepsNews(p)
      BY <3>1, <3>2 DEF KeepsNews, Pended
    <3> QED BY <3>1, <3>3, AllKeep
  <2> QED BY <1>3, <2>1, <2>2, <2>3, <2>4, <2>5, <2>6 DEF WatchStep
<1>4. CASE SlotStep(t)
  <2>1. CASE AddSlot(t)
    <3>1. /\ UNCHANGED <<lots, context, observers, heard, told>> /\ Finish(t)
          /\ pc[t] = "park" /\ task[t].op = "park" /\ lot[t] \in lots
      BY <2>1 DEF AddSlot, TaskOK, StillListed, InHand, Holding
    <3>2. \A p \in lots : \A u \in Thread :
              /\ Works(u, p) => Works(u, p)'
              /\ \A d \in Device : Tells(u, d, p) => Tells(u, d, p)'
      BY <3>1 DEF Works, Tells, Finish, ThreadTypes
    <3>3. \A p \in lots \ {lot[t]} : slots'[p] = slots[p] /\ context[p] = context'[p]
      BY <2>1, <3>1 DEF AddSlot, LotTypes
    <3>4. CASE Notify(lot[t])
      <4>1. ASSUME NEW p \in lots \ {lot[t]} PROVE KeepsNews(p)
        <5>1. /\ notifyPending'[p] = notifyPending[p]
              /\ (jobs[context[p]] > 0 => jobs'[context[p]] > 0)
          BY <3>4, NameInv DEF Notify, LotTypes, NameInv, WatchedNamed
        <5> QED BY <3>1, <3>2, <3>3, <5>1 DEF KeepsNews, Watched, Pended
      <4>2. ASSUME NEW q \in lots, q = lot[t] PROVE KnowsNews(q)'
        <5>1. Watched(q)' = Watched(q) /\ context'[q] = context[q]
          BY <3>1 DEF Watched
        <5>2. CASE Watched(q) = {} \/ notifyPending[q]
          <6>1. notifyPending' = notifyPending /\ jobs' = jobs
            BY <3>4, <4>2, <5>2 DEF Notify
          <6>2. jobs[context[q]] > 0 => Pended(q)'
            BY <5>1, <6>1 DEF Pended
          <6>3. \A u \in Thread : Works(u, q) => Works(u, q)'
            BY <3>1, <3>2
          <6>4. notifyPending[q] => Pended(q)
            BY <3>1 DEF NoChangeMissed
          <6>5. notifyPending'[q] => Pended(q)'
            BY <6>1, <6>2, <6>3, <6>4, WorkGoesOn
          <6>6. ASSUME NEW d \in Watched(q)' PROVE Expected(d, q)'
            BY <5>1, <5>2, <6>1, <6>6 DEF Expected
          <6> QED BY <6>5, <6>6 DEF KnowsNews
        <5>3. CASE Watched(q) # {} /\ ~notifyPending[q]
          <6>1. notifyPending'[q] = TRUE /\ jobs'[context[q]] > 0
            BY <3>1, <3>4, <4>2, <5>3 DEF Notify, LotTypes, NameInv, WatchedNamed
          <6>2. Pended(q)' /\ \A d : Expected(d, q)'
            BY <5>1, <6>1 DEF Expected, Pended
          <6> QED BY <6>2 DEF KnowsNews
        <5> QED BY <5>2, <5>3
      <4>3. \A p \in lots : KnowsNews(p)'
        BY <4>1, <4>2, NewsKept
      <4> QED BY <3>1, <4>3 DEF NoChangeMissed, KnowsNews
    <3> QED BY <2>1, <3>4 DEF AddSlot
  <2>2. CASE RemoveSlot(t)
    <3>1. /\ UNCHANGED <<lots, context, observers, heard, told>> /\ Finish(t)
          /\ pc[t] = "unpark" /\ task[t].op = "unpark" /\ lot[t] \in lots
      BY <2>2 DEF RemoveSlot, TaskOK, StillListed, InHand, Holding
    <3>2. \A p \in lots : \A u \in Thread :
              /\ Works(u, p) => Works(u, p)'
              /\ \A d \in Device : Tells(u, d, p) => Tells(u, d, p)'
      BY <3>1 DEF Works, Tells, Finish, ThreadTypes
    <3>3. \A p \in lots \ {lot[t]} : slots'[p] = slots[p] /\ context[p] = context'[p]
      BY <2>2, <3>1 DEF RemoveSlot, LotTypes
    <3>4. CASE Notify(lot[t])
      <4>1. ASSUME NEW p \in lots \ {lot[t]} PROVE KeepsNews(p)
        <5>1. /\ notifyPending'[p] = notifyPending[p]
              /\ (jobs[context[p]] > 0 => jobs'[context[p]] > 0)
          BY <3>4, NameInv DEF Notify, LotTypes, NameInv, WatchedNamed
        <5> QED BY <3>1, <3>2, <3>3, <5>1 DEF KeepsNews, Watched, Pended
      <4>2. ASSUME NEW q \in lots, q = lot[t] PROVE KnowsNews(q)'
        <5>1. Watched(q)' = Watched(q) /\ context'[q] = context[q]
          BY <3>1 DEF Watched
        <5>2. CASE Watched(q) = {} \/ notifyPending[q]
          <6>1. notifyPending' = notifyPending /\ jobs' = jobs
            BY <3>4, <4>2, <5>2 DEF Notify
          <6>2. jobs[context[q]] > 0 => Pended(q)'
            BY <5>1, <6>1 DEF Pended
          <6>3. \A u \in Thread : Works(u, q) => Works(u, q)'
            BY <3>1, <3>2
          <6>4. notifyPending[q] => Pended(q)
            BY <3>1 DEF NoChangeMissed
          <6>5. notifyPending'[q] => Pended(q)'
            BY <6>1, <6>2, <6>3, <6>4, WorkGoesOn
          <6>6. ASSUME NEW d \in Watched(q)' PROVE Expected(d, q)'
            BY <5>1, <5>2, <6>1, <6>6 DEF Expected
          <6> QED BY <6>5, <6>6 DEF KnowsNews
        <5>3. CASE Watched(q) # {} /\ ~notifyPending[q]
          <6>1. notifyPending'[q] = TRUE /\ jobs'[context[q]] > 0
            BY <3>1, <3>4, <4>2, <5>3 DEF Notify, LotTypes, NameInv, WatchedNamed
          <6>2. Pended(q)' /\ \A d : Expected(d, q)'
            BY <5>1, <6>1 DEF Expected, Pended
          <6> QED BY <6>2 DEF KnowsNews
        <5> QED BY <5>2, <5>3
      <4>3. \A p \in lots : KnowsNews(p)'
        BY <4>1, <4>2, NewsKept
      <4> QED BY <3>1, <4>3 DEF NoChangeMissed, KnowsNews
    <3>5. CASE UNCHANGED <<slots, notifyPending, jobs>>
      <4>1. \A p \in lots' : KeepsNews(p)
        BY <3>1, <3>2, <3>5 DEF KeepsNews, Watched, Pended
      <4> QED BY <3>1, <4>1, AllKeep
    <3> QED BY <2>2, <3>4, <3>5 DEF RemoveSlot
  <2> QED BY <1>4, <2>1, <2>2 DEF SlotStep
<1>5. CASE TellStep(t)
  <2>1. CASE RunJob(t)
    <3>1. /\ UNCHANGED <<task, lot, lots, context, observers, slots, jobs, heard>>
          /\ pc[t] = "job" /\ pc' = [pc EXCEPT ![t] = "each"]
          /\ notifyPending' = [notifyPending EXCEPT ![lot[t]] = FALSE]
          /\ told' = [told EXCEPT ![t] = Watched(lot[t])]
      BY <2>1 DEF RunJob
    <3>2. lot[t] \in lots /\ t \in Worker /\ task[t].op = "job" /\ context[lot[t]] = task[t].context
      BY <3>1 DEF TaskOK, NameInv, AskOK, FoundNamed, StillListed, InHand, Holding
    <3>3. KnowsNews(lot[t])'
      <4>1. \A d \in Watched(lot[t])' : Expected(d, lot[t])'
        BY <3>1, <3>2 DEF Expected, Watched, ThreadTypes
      <4>2. notifyPending'[lot[t]] = FALSE
        BY <3>1, <3>2 DEF LotTypes
      <4> QED BY <3>1, <4>1, <4>2 DEF KnowsNews
    <3>4. ASSUME NEW p \in lots \ {lot[t]} PROVE KeepsNews(p)
      <4>1. context[p] # task[t].context
        BY <3>2 DEF OneLotPerContext
      <4>2. \A u \in Thread : /\ Works(u, p) => Works(u, p)'
                              /\ \A d \in Watched(p) : Tells(u, d, p) => Tells(u, d, p)'
        BY <3>1, <3>2, <4>1 DEF Works, Tells, ThreadTypes
      <4> QED BY <3>1, <4>2 DEF KeepsNews, Watched, Pended, LotTypes
    <3> QED BY <3>1, <3>3, <3>4, NewsKept DEF NoChangeMissed, KnowsNews
  <2>2. CASE NotifyDevice(t)
    <3>1. /\ UNCHANGED <<lots, context, observers, slots, notifyPending, jobs, told>>
          /\ pc[t] = "notify" /\ task[t].op = "notify" /\ t \in Phone /\ lot[t] \in lots
          /\ context[lot[t]] = ContextOf[task[t].device]
      BY <2>2 DEF NotifyDevice, TaskOK, NameInv, AskOK, FoundNamed, StillListed, InHand, Holding
    <3>2. CASE task[t].device \in Watched(lot[t])
      <4>1. Look(t, task[t].device) /\ UNCHANGED <<task, lot>>
        BY <2>2, <3>2 DEF NotifyDevice
      <4> QED BY <3>1, <3>2, <4>1, LookNews
    <3>3. CASE task[t].device \notin Watched(lot[t])
      <4>1. Finish(t) /\ UNCHANGED heard
        BY <2>2, <3>3 DEF NotifyDevice
      <4>2. ASSUME NEW p \in lots PROVE task[t].device \notin Watched(p)
        BY <3>1, <3>3 DEF NameInv, WatchedNamed, OneLotPerContext
      <4>3. \A p \in lots : \A u \in Thread :
                /\ Works(u, p) => Works(u, p)'
                /\ \A d \in Watched(p) : Tells(u, d, p) => Tells(u, d, p)'
        BY <3>1, <4>1, <4>2, ParkingAssumption DEF Works, Tells, Finish, ThreadTypes
      <4>4. \A p \in lots' : KeepsNews(p)
        BY <3>1, <4>1, <4>3 DEF KeepsNews, Watched, Pended
      <4> QED BY <3>1, <4>4, AllKeep
    <3> QED BY <3>2, <3>3
  <2>3. CASE NotifyNext(t)
    <3>1. PICK d \in told[t] :
              /\ told' = [told EXCEPT ![t] = @ \ {d}]
              /\ \/ d \in Watched(lot[t]) /\ Look(t, d) /\ task' = [task EXCEPT ![t].device = d]
                 \/ d \notin Watched(lot[t]) /\ UNCHANGED <<pc, task, heard>>
      BY <2>3 DEF NotifyNext
    <3>2. /\ UNCHANGED <<lot, lots, context, observers, slots, notifyPending, jobs>>
          /\ pc[t] = "each" /\ lot[t] \in lots
      BY <2>3 DEF NotifyNext, StillListed, InHand, Holding
    <3>3. CASE d \in Watched(lot[t]) /\ Look(t, d) /\ task' = [task EXCEPT ![t].device = d]
      <4>1. \A u \in Thread \ {t} : task'[u] = task[u]
        BY <3>3 DEF ThreadTypes
      <4>2. \A u \in Thread : \A e \in Device : e # d /\ e \in told[u] => e \in told'[u]
        BY <3>1 DEF ThreadTypes
      <4> QED BY <3>2, <3>3, <4>1, <4>2, LookNews
    <3>4. CASE d \notin Watched(lot[t]) /\ UNCHANGED <<pc, task, heard>>
      <4>1. \A p \in lots : \A u \in Thread :
                /\ Works(u, p) => Works(u, p)'
                /\ \A e \in Watched(p) : Tells(u, e, p) => Tells(u, e, p)'
        BY <3>1, <3>2, <3>4 DEF Works, Tells, ThreadTypes
      <4>2. \A p \in lots' : KeepsNews(p)
        BY <3>2, <3>4, <4>1 DEF KeepsNews, Watched, Pended
      <4> QED BY <3>2, <4>2, AllKeep
    <3> QED BY <3>1, <3>3, <3>4
  <2>4. CASE JobOver(t)
    <3>1. /\ lots' \subseteq lots /\ UNCHANGED <<context, slots, notifyPending, jobs, heard>>
          /\ \A p \in lots : Watched(p)' \subseteq Watched(p)
      BY <2>4 DEF JobOver, Watched, LotTypes
    <3>2. \A p \in lots : \A u \in Thread :
              /\ Works(u, p) => Works(u, p)'
              /\ \A d \in Watched(p) : Tells(u, d, p) => Tells(u, d, p)'
      BY <2>4, <3>1 DEF JobOver, Finish, Tells, Works, ThreadTypes
    <3>3. \A p \in lots' : KeepsNews(p)
      BY <3>1, <3>2 DEF KeepsNews, Pended
    <3> QED BY <3>1, <3>3, AllKeep
  <2>5. CASE Tell(t)
    <3>1. /\ lots' \subseteq lots /\ UNCHANGED <<context, slots, notifyPending, jobs, heard>>
          /\ \A p \in lots : Watched(p)' \subseteq Watched(p)
      BY <2>5 DEF Tell, Watched, LotTypes
    <3>2. \A p \in lots : \A u \in Thread :
              /\ Works(u, p) => Works(u, p)'
              /\ \A d \in Watched(p) : Tells(u, d, p) => Tells(u, d, p)'
      BY <2>5, <3>1 DEF Tell, Tells, Works, ThreadTypes
    <3>3. \A p \in lots' : KeepsNews(p)
      BY <3>1, <3>2 DEF KeepsNews, Pended
    <3> QED BY <3>1, <3>3, AllKeep
  <2>6. CASE Retake(t)
    <3>1. /\ UNCHANGED <<lots, context, observers, slots, notifyPending, jobs, heard, told>>
          /\ pc[t] = "retake"
      BY <2>6 DEF Retake
    <3>2. \A u \in Thread \ {t} : pc'[u] = pc[u] /\ lot'[u] = lot[u] /\ task'[u] = task[u]
      BY <2>6, FinishTypes DEF Retake, Finish, ThreadTypes
    <3>3. t \in Worker => pc'[t] = "each" /\ lot'[t] = lot[t]
      BY <2>6, <3>1 DEF Retake, ThreadTypes, NameInv, AskOK, BackOK
    <3>4. \A p \in lots : \A u \in Thread :
              /\ Works(u, p) => Works(u, p)'
              /\ \A d \in Watched(p) : Tells(u, d, p) => Tells(u, d, p)'
      BY <3>1, <3>2, <3>3 DEF Works, Tells
    <3>5. \A p \in lots' : KeepsNews(p)
      BY <3>1, <3>4 DEF KeepsNews, Watched, Pended
    <3> QED BY <3>1, <3>5, AllKeep
  <2>7. CASE Window(t)
    <3>1. /\ lots' \subseteq lots /\ UNCHANGED <<context, slots, notifyPending, jobs, heard>>
          /\ \A p \in lots : Watched(p)' \subseteq Watched(p)
      BY <2>7 DEF Window, Watched, LotTypes
    <3>2. \A p \in lots : \A u \in Thread :
              /\ Works(u, p) => Works(u, p)'
              /\ \A d \in Watched(p) : Tells(u, d, p) => Tells(u, d, p)'
      BY <2>7, <3>1 DEF Window, Depart, Finish, Tells, Works, ThreadTypes
    <3>3. \A p \in lots' : KeepsNews(p)
      BY <3>1, <3>2 DEF KeepsNews, Pended
    <3> QED BY <3>1, <3>3, AllKeep
  <2> QED BY <1>5, <2>1, <2>2, <2>3, <2>4, <2>5, <2>6, <2>7 DEF TellStep
<1> QED BY <1>1, <1>2, <1>3, <1>4, <1>5

(* The invariant, with what it needs of names. *)
LEMMA NewsInvariant == Spec => [](NameInv /\ NoChangeMissed)
<1>1. Init => NameInv /\ NoChangeMissed
  BY DEF Init, NameInv, AskOK, BackOK, FoundNamed, Passed, WatchedNamed, NoChangeMissed,
         NoTask, Op
<1>2. IInv /\ OneLotPerContext /\ NameInv /\ NoChangeMissed /\ [Next]_vars
      => NameInv' /\ NoChangeMissed'
  <2> SUFFICES ASSUME IInv, OneLotPerContext, NameInv, NoChangeMissed, [Next]_vars
               PROVE  NameInv' /\ NoChangeMissed'
      OBVIOUS
  <2>1. CASE Next
    BY <2>1, AskStep, BackStep, NameStep, NewsStep DEF IInv, LockInv, NameInv
  <2>2. CASE UNCHANGED vars
    BY <2>2 DEF vars, threadVars, fieldVars, phoneVars, NameInv, AskOK, BackOK, FoundNamed, Passed,
                WatchedNamed, Watched, NoChangeMissed, Expected, Pended
  <2> QED BY <2>1, <2>2
<1> QED BY <1>1, <1>2, Invariants, PTL DEF Spec

(* Whoever watches a lot has been told of its present state by a notification *)
(* that read it, or will be: for any number of phones, parked calls, workers   *)
(* and names, and however the notifications are coalesced into jobs.           *)
THEOREM NewsReachesAll == Spec => []NoChangeMissed
BY NewsInvariant, PTL
===========================================================================
