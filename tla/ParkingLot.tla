----------------------------- MODULE ParkingLot -----------------------------
(***************************************************************************)
(* src/src/sccp_featureParkingLot.c: parking lots, the phones that watch   *)
(* them and the jobs that tell the phones what is parked.                  *)
(*                                                                         *)
(* Three kinds of lock are involved, and all of them are explicit: the     *)
(* buttonconfig lock of a device, under which a phone attaches itself and  *)
(* a device that is cleaned is detached (sccp_device.c); the lock of the   *)
(* list of lots, for reading or writing; and the lock of each lot.  What a *)
(* thread does under the lock of a lot is one step.                        *)
(*                                                                         *)
(* A lot is an address, and an address can be used again after it was      *)
(* freed.  What a phone shows is abstracted to its lamp; its window is sent *)
(* and recorded at the same points.  A device has one button, one thread   *)
(* that reads its messages, and is told once by a job however often it is  *)
(* attached.  The pool takes every job: it refuses them when the module is *)
(* unloaded, which is left out.  The call control behind a press that dials *)
(* the only parked call, with the lot locked, is not followed.             *)
(***************************************************************************)
EXTENDS Naturals, FiniteSets

CONSTANTS Phone,      \* threads that register a device and handle what its user does
          Cleaner,    \* threads that clean a device
          Parker,     \* threads on which the PBX reports parked calls
          Worker,     \* threads of the pool
          Device,
          DeviceOf,   \* the device of each phone and cleaner
          Context,    \* the names of parking lots
          ContextOf,  \* the lot the button of a device is configured for
          Slot,       \* parking spaces
          Address,    \* where a lot can be allocated
          MaxWatch,   \* bound: how often a device is attached to its lot
          MaxJobs,    \* bound: the PBX reports nothing while so many jobs wait
          Nobody      \* no thread, no lot, no device, no context

Thread == Phone \cup Cleaner \cup Parker \cup Worker

ASSUME ParkingAssumption ==
    /\ IsFiniteSet(Thread)
    /\ Phone \cap (Cleaner \cup Parker \cup Worker) = {}
    /\ Cleaner \cap (Parker \cup Worker) = {}
    /\ Parker \cap Worker = {}
    /\ DeviceOf \in [Phone \cup Cleaner -> Device]
    /\ ContextOf \in [Device -> Context]
    /\ MaxWatch \in Nat \ {0} /\ MaxJobs \in Nat \ {0}
    /\ Nobody \notin Thread \cup Address \cup Device \cup Context

VARIABLES
    pc,           \* where each thread is
    task,         \* in which operation, for which device and context
    lot,          \* the lot it has a pointer to
    todo,         \* the lots it has yet to walk past
    told,         \* the devices a job has yet to tell
    lit,          \* were calls parked when it looked?
    configLock, lotLock,   \* the owner of each lock
    readers, writer,       \* who holds the lock of the list
    lots,         \* the lots in the list
    context, observers, slots, notifyPending, inflight,   \* the fields of a lot
    jobs,         \* jobs queued in the pool, by context
    registered,   \* devices that have registered and not been cleaned since
    lamp,         \* what the button of each device shows
    heard         \* what the last notification of each device had read

threadVars == <<pc, task, lot, todo, told, lit>>
lockVars   == <<configLock, lotLock, readers, writer>>
fieldVars  == <<context, observers, slots, notifyPending, inflight>>
phoneVars  == <<registered, lamp, heard>>
vars == <<threadVars, lockVars, lots, fieldVars, jobs, phoneVars>>

(* Under the lock of a lot; between giving it up and taking it back. *)
Op == {"attach", "notify", "press", "hide", "park", "unpark", "detach", "job"}
Holding == Op \cup {"each"}
Talking == {"tell", "retake"}
PC == {"idle", "config", "find", "scan", "create", "adopt", "unlist", "recheck", "free",
       "unconfig"} \cup Holding \cup Talking

Task == [op : Op \cup {"none"}, device : Device \cup {Nobody}, context : Context \cup {Nobody}]

ThreadTypes ==
    /\ pc \in [Thread -> PC]
    /\ task \in [Thread -> Task]
    /\ lot \in [Thread -> Address \cup {Nobody}]
    /\ todo \in [Thread -> SUBSET Address] /\ told \in [Thread -> SUBSET Device]
    /\ lit \in [Thread -> BOOLEAN]

LockTypes ==
    /\ configLock \in [Device -> Thread \cup {Nobody}]
    /\ lotLock \in [Address -> Thread \cup {Nobody}]
    /\ readers \subseteq Thread /\ writer \in Thread \cup {Nobody}

LotTypes ==
    /\ lots \subseteq Address
    /\ context \in [Address -> Context \cup {Nobody}]
    /\ observers \in [Address -> [Device -> Nat]]
    /\ slots \in [Address -> SUBSET Slot]
    /\ notifyPending \in [Address -> BOOLEAN]
    /\ inflight \in [Address -> Nat]

TypeOK ==
    /\ ThreadTypes /\ LockTypes /\ LotTypes
    /\ jobs \in [Context -> Nat]
    /\ registered \subseteq Device
    /\ lamp \in [Device -> BOOLEAN] /\ heard \in [Device -> BOOLEAN]

NoTask == [op |-> "none", device |-> Nobody, context |-> Nobody]

Init ==
    /\ pc = [t \in Thread |-> "idle"] /\ task = [t \in Thread |-> NoTask]
    /\ lot = [t \in Thread |-> Nobody]
    /\ todo = [t \in Thread |-> {}] /\ told = [t \in Thread |-> {}]
    /\ lit = [t \in Thread |-> FALSE]
    /\ configLock = [d \in Device |-> Nobody] /\ lotLock = [p \in Address |-> Nobody]
    /\ readers = {} /\ writer = Nobody
    /\ lots = {}
    /\ context = [p \in Address |-> Nobody]
    /\ observers = [p \in Address |-> [d \in Device |-> 0]]
    /\ slots = [p \in Address |-> {}]
    /\ notifyPending = [p \in Address |-> FALSE]
    /\ inflight = [p \in Address |-> 0]
    /\ jobs = [c \in Context |-> 0]
    /\ registered = {}
    /\ lamp = [d \in Device |-> FALSE] /\ heard = [d \in Device |-> FALSE]

At(t, where) == pc[t] = where
Goto(t, where) == pc' = [pc EXCEPT ![t] = where]
Unlocked(p) == lotLock[p] = Nobody
Lock(p, t) == lotLock' = [lotLock EXCEPT ![p] = t]
Unlock(p) == lotLock' = [lotLock EXCEPT ![p] = Nobody]
Watched(p) == {d \in Device : observers[p][d] > 0}
Named(c) == {p \in lots : context[p] = c}
Creates(o) == o \notin {"job", "detach"}

Begin(t, o, where, d, c) ==
    /\ Goto(t, where)
    /\ task' = [task EXCEPT ![t] = [op |-> o, device |-> d, context |-> c]]
    /\ UNCHANGED <<lot, todo, told, lit>>

(* An operation is over, but for the buttonconfig lock it may hold. *)
Finish(t) ==
    /\ lot' = [lot EXCEPT ![t] = Nobody]
    /\ IF task[t].op \in {"attach", "notify", "detach"}
       THEN Goto(t, "unconfig") /\ UNCHANGED task
       ELSE Goto(t, "idle") /\ task' = [task EXCEPT ![t] = NoTask]

(***************************************************************************)
(* What the threads are asked to do                                        *)
(***************************************************************************)

(* sccp_dev_postregistration and _sccp_dev_clean walk the buttons of a device. *)
Register(t) ==
    /\ t \in Phone /\ At(t, "idle")
    /\ LET d == DeviceOf[t]
       IN /\ d \notin registered
          /\ \A p \in lots : observers[p][d] < MaxWatch
          /\ registered' = registered \cup {d}
          /\ Begin(t, "attach", "config", d, ContextOf[d])
    /\ UNCHANGED <<lockVars, lots, fieldVars, jobs, lamp, heard>>

Clean(t) ==
    /\ t \in Cleaner /\ At(t, "idle")
    /\ LET d == DeviceOf[t]
       IN d \in registered /\ Begin(t, "detach", "config", d, ContextOf[d])
    /\ UNCHANGED <<lockVars, lots, fieldVars, jobs, phoneVars>>

(* handleButtonPress, and the softkey that closes the window. *)
Press(t) ==
    /\ t \in Phone /\ At(t, "idle")
    /\ LET d == DeviceOf[t]
       IN d \in registered /\ \E o \in {"press", "hide"} : Begin(t, o, "find", d, ContextOf[d])
    /\ UNCHANGED <<lockVars, lots, fieldVars, jobs, phoneVars>>

(* The PBX reports a call parked in some space, or gone from there. *)
Report(t) ==
    /\ t \in Parker /\ At(t, "idle")
    /\ \A c \in Context : jobs[c] < MaxJobs
    /\ \E c \in Context, o \in {"park", "unpark"} : Begin(t, o, "find", Nobody, c)
    /\ UNCHANGED <<lockVars, lots, fieldVars, jobs, phoneVars>>

TakeJob(t) ==
    /\ t \in Worker /\ At(t, "idle")
    /\ \E c \in Context :
          /\ jobs[c] > 0 /\ jobs' = [jobs EXCEPT ![c] = @ - 1]
          /\ Begin(t, "job", "find", Nobody, c)
    /\ UNCHANGED <<lockVars, lots, fieldVars, phoneVars>>

LockConfig(t) ==
    /\ At(t, "config") /\ configLock[task[t].device] = Nobody
    /\ configLock' = [configLock EXCEPT ![task[t].device] = t]
    /\ Goto(t, "find")
    /\ UNCHANGED <<task, lot, todo, told, lit, lotLock, readers, writer, lots,
                   fieldVars, jobs, phoneVars>>

UnlockConfig(t) ==
    /\ At(t, "unconfig")
    /\ configLock' = [configLock EXCEPT ![task[t].device] = Nobody]
    /\ registered' = IF task[t].op = "detach" THEN registered \ {task[t].device} ELSE registered
    /\ Goto(t, "idle") /\ task' = [task EXCEPT ![t] = NoTask]
    /\ UNCHANGED <<lot, todo, told, lit, lotLock, readers, writer, lots,
                   fieldVars, jobs, lamp, heard>>

(***************************************************************************)
(* findParkinglotByContext and addParkinglot: return with the lot locked   *)
(***************************************************************************)
ReadList(t) ==
    /\ At(t, "find") /\ writer = Nobody
    /\ readers' = readers \cup {t}
    /\ todo' = [todo EXCEPT ![t] = lots]
    /\ Goto(t, "scan")
    /\ UNCHANGED <<task, lot, told, lit, configLock, lotLock, writer, lots, fieldVars,
                   jobs, phoneVars>>

(* Every lot on the way is locked to look at its name. *)
Visit(t) ==
    /\ At(t, "scan")
    /\ \E p \in todo[t] :
          /\ Unlocked(p)
          /\ \/ /\ context[p] # task[t].context
                /\ todo' = [todo EXCEPT ![t] = @ \ {p}]
                /\ UNCHANGED <<pc, lot, lotLock, readers>>
             \/ /\ context[p] = task[t].context
                /\ Lock(p, t) /\ lot' = [lot EXCEPT ![t] = p]
                /\ readers' = readers \ {t} /\ todo' = [todo EXCEPT ![t] = {}]
                /\ Goto(t, task[t].op)
    /\ UNCHANGED <<task, told, lit, configLock, writer, lots, fieldVars, jobs,
                   phoneVars>>

NotFound(t) ==
    /\ At(t, "scan") /\ todo[t] = {}
    /\ readers' = readers \ {t}
    /\ IF Creates(task[t].op) THEN Goto(t, "create") /\ UNCHANGED <<task, lot>> ELSE Finish(t)
    /\ UNCHANGED <<todo, told, lit, configLock, lotLock, writer, lots,
                   fieldVars, jobs, phoneVars>>

(* The list is locked for writing, here and in removeParkinglot. *)
WriteList(t) ==
    /\ At(t, "create") \/ At(t, "unlist")
    /\ readers = {} /\ writer = Nobody
    /\ writer' = t
    /\ Goto(t, IF At(t, "create") THEN "adopt" ELSE "recheck")
    /\ UNCHANGED <<task, lot, todo, told, lit, configLock, lotLock, readers, lots,
                   fieldVars, jobs, phoneVars>>

(* Another thread has created the lot meanwhile. *)
Adopt(t) ==
    /\ At(t, "adopt")
    /\ \E p \in Named(task[t].context) :
          /\ Unlocked(p) /\ Lock(p, t)
          /\ lot' = [lot EXCEPT ![t] = p]
    /\ writer' = Nobody
    /\ Goto(t, task[t].op)
    /\ UNCHANGED <<task, todo, told, lit, configLock, readers, lots, fieldVars, jobs,
                   phoneVars>>

(* A lot as it is allocated, and, with no name, the memory of a freed one. *)
Reset(p, c) ==
    /\ context' = [context EXCEPT ![p] = c]
    /\ observers' = [observers EXCEPT ![p] = [d \in Device |-> 0]]
    /\ slots' = [slots EXCEPT ![p] = {}]
    /\ notifyPending' = [notifyPending EXCEPT ![p] = FALSE]
    /\ inflight' = [inflight EXCEPT ![p] = 0]

NeverMet(c) == TRUE   \* the list is not looked at again
Missing(c) == Named(c) = {}
InUse == lots \cup {lot[u] : u \in {v \in Thread : pc[v] = "free"}}

Insert(t) ==
    /\ At(t, "adopt") /\ Missing(task[t].context)
    /\ \E p \in Address \ InUse :
          /\ lots' = lots \cup {p}
          /\ Reset(p, task[t].context)
          /\ Lock(p, t) /\ lot' = [lot EXCEPT ![t] = p]
    /\ writer' = Nobody
    /\ Goto(t, task[t].op)
    /\ UNCHANGED <<task, todo, told, lit, configLock, readers, jobs, phoneVars>>

(***************************************************************************)
(* attachObserver, then notifyDevice; detachObserver and removeParkinglot  *)
(***************************************************************************)
Attach(t) ==
    /\ At(t, "attach")
    /\ observers' = [observers EXCEPT ![lot[t]][task[t].device] = @ + 1]
    /\ Unlock(lot[t])
    /\ lot' = [lot EXCEPT ![t] = Nobody]
    /\ task' = [task EXCEPT ![t].op = "notify"]
    /\ Goto(t, "find")
    /\ UNCHANGED <<todo, told, lit, configLock, readers, writer, lots, context, slots,
                   notifyPending, inflight, jobs, phoneVars>>

NoneLess(n) == n - 1   \* the entry is taken to be there

(* One entry of the device is taken out, if there is one. *)
Fewer(n) == IF n = 0 THEN 0 ELSE n - 1

(* The lock of the lot is given up before the one of the list is taken. *)
Detach(t) ==
    /\ At(t, "detach")
    /\ observers' = [observers EXCEPT ![lot[t]][task[t].device] = Fewer(@)]
    /\ IF \A d \in Device : observers'[lot[t]][d] = 0
       THEN Goto(t, "unlist") /\ UNCHANGED <<task, lot>>
       ELSE Finish(t)
    /\ Unlock(lot[t])
    /\ UNCHANGED <<todo, told, lit, configLock, readers, writer, lots, context,
                   slots, notifyPending, inflight, jobs, phoneVars>>

WatchedOnly(p) == Watched(p) # {}   \* notifications are not waited for
Busy(p) == Watched(p) # {} \/ inflight[p] # 0

(* Is it still there, is it still unused? *)
Recheck(t) ==
    /\ At(t, "recheck")
    /\ lot[t] \in lots => Unlocked(lot[t])
    /\ IF lot[t] \in lots /\ ~Busy(lot[t])
       THEN lots' = lots \ {lot[t]} /\ Goto(t, "free") /\ UNCHANGED <<task, lot>>
       ELSE Finish(t) /\ UNCHANGED lots
    /\ writer' = Nobody
    /\ UNCHANGED <<todo, told, lit, configLock, lotLock, readers, fieldVars, jobs,
                   phoneVars>>

Free(t) ==
    /\ At(t, "free")
    /\ Reset(lot[t], Nobody)
    /\ Finish(t)
    /\ UNCHANGED <<todo, told, lit, lockVars, lots, jobs, phoneVars>>

(***************************************************************************)
(* addSlot and removeSlot                                                  *)
(***************************************************************************)

(* notifyLocked *)
Notify(p) ==
    IF notifyPending[p] \/ Watched(p) = {}
    THEN UNCHANGED <<notifyPending, jobs>>
    ELSE /\ notifyPending' = [notifyPending EXCEPT ![p] = TRUE]
         /\ jobs' = [jobs EXCEPT ![context[p]] = @ + 1]

AddSlot(t) ==
    /\ At(t, "park")
    /\ \E s \in Slot : slots' = [slots EXCEPT ![lot[t]] = @ \cup {s}]
    /\ Notify(lot[t])
    /\ Unlock(lot[t]) /\ Finish(t)
    /\ UNCHANGED <<todo, told, lit, configLock, readers, writer, lots, context,
                   observers, inflight, phoneVars>>

RemoveSlot(t) ==
    /\ At(t, "unpark")
    /\ \E s \in Slot :
          \/ /\ s \in slots[lot[t]]
             /\ slots' = [slots EXCEPT ![lot[t]] = @ \ {s}]
             /\ Notify(lot[t])
          \/ s \notin slots[lot[t]] /\ UNCHANGED <<slots, notifyPending, jobs>>
    /\ Unlock(lot[t]) /\ Finish(t)
    /\ UNCHANGED <<todo, told, lit, configLock, readers, writer, lots, context,
                   observers, inflight, phoneVars>>

(***************************************************************************)
(* notifyWorker, notifyDevice and _notifyHelper                            *)
(***************************************************************************)

(* The flag is left set. *)
RunPending(t) ==
    /\ At(t, "job")
    /\ told' = [told EXCEPT ![t] = Watched(lot[t])]
    /\ Goto(t, "each")
    /\ UNCHANGED <<task, lot, todo, lit, lockVars, lots, fieldVars, jobs, phoneVars>>

(* The devices are copied, to be told one after the other. *)
RunJob(t) ==
    /\ At(t, "job")
    /\ notifyPending' = [notifyPending EXCEPT ![lot[t]] = FALSE]
    /\ told' = [told EXCEPT ![t] = Watched(lot[t])]
    /\ Goto(t, "each")
    /\ UNCHANGED <<task, lot, todo, lit, lockVars, lots, context, observers, slots,
                   inflight, jobs, phoneVars>>

(* The phone is talked to with the lot locked. *)
DepartLocked(t, p, where) ==
    /\ inflight' = [inflight EXCEPT ![p] = @ + 1]
    /\ Goto(t, where)
    /\ UNCHANGED lotLock

Depart(t, p, where) ==
    /\ inflight' = [inflight EXCEPT ![p] = @ + 1]
    /\ Unlock(p)
    /\ Goto(t, where)

(* The number of parked calls is read, and the lock given up to talk to the phone. *)
Look(t, d) ==
    /\ Depart(t, lot[t], "tell")
    /\ lit' = [lit EXCEPT ![t] = slots[lot[t]] # {}]
    /\ heard' = [heard EXCEPT ![d] = slots[lot[t]] # {}]

NotifyDevice(t) ==
    /\ At(t, "notify")
    /\ \/ task[t].device \in Watched(lot[t]) /\ Look(t, task[t].device) /\ UNCHANGED <<task, lot>>
       \/ /\ task[t].device \notin Watched(lot[t])
          /\ Unlock(lot[t]) /\ Finish(t) /\ UNCHANGED <<inflight, lit, heard>>
    /\ UNCHANGED <<todo, told, configLock, readers, writer, lots, context,
                   observers, slots, notifyPending, jobs, registered, lamp>>

NotifyNext(t) ==
    /\ At(t, "each")
    /\ \E d \in told[t] :
          /\ told' = [told EXCEPT ![t] = @ \ {d}]
          /\ \/ d \in Watched(lot[t]) /\ Look(t, d) /\ task' = [task EXCEPT ![t].device = d]
             \/ d \notin Watched(lot[t]) /\ UNCHANGED <<pc, task, lotLock, inflight, lit, heard>>
    /\ UNCHANGED <<lot, todo, configLock, readers, writer, lots, context, observers,
                   slots, notifyPending, jobs, registered, lamp>>

JobOver(t) ==
    /\ At(t, "each") /\ told[t] = {}
    /\ Unlock(lot[t]) /\ Finish(t)
    /\ UNCHANGED <<todo, told, lit, configLock, readers, writer, lots, fieldVars,
                   jobs, phoneVars>>

(* Under the buttonconfig lock, which a phone that registers has already. *)
Tell(t) ==
    /\ At(t, "tell") /\ configLock[task[t].device] \in {Nobody, t}
    /\ lamp' = [lamp EXCEPT ![task[t].device] = lit[t]]
    /\ lit' = [lit EXCEPT ![t] = FALSE]
    /\ Goto(t, "retake")
    /\ UNCHANGED <<task, lot, todo, told, lockVars, lots, fieldVars, jobs,
                   registered, heard>>

(* A job goes on to the next device, everybody else is done. *)
Retake(t) ==
    /\ At(t, "retake") /\ Unlocked(lot[t])
    /\ inflight' = [inflight EXCEPT ![lot[t]] = @ - 1]
    /\ IF task[t].op = "job"
       THEN /\ Lock(lot[t], t) /\ Goto(t, "each") /\ UNCHANGED lot
            /\ task' = [task EXCEPT ![t].device = Nobody]
       ELSE Finish(t) /\ UNCHANGED lotLock
    /\ UNCHANGED <<todo, told, lit, configLock, readers, writer, lots, context,
                   observers, slots, notifyPending, jobs, phoneVars>>

(***************************************************************************)
(* handleButtonPress and hideVisualParkingLot                              *)
(***************************************************************************)

(* Nothing is parked, or the only call is dialled with the lock held, or the *)
(* window is shown, or closed.                                               *)
Window(t) ==
    /\ At(t, "press") \/ At(t, "hide")
    /\ \/ /\ At(t, "press") /\ Cardinality(slots[lot[t]]) < 2
          /\ Unlock(lot[t]) /\ Finish(t) /\ UNCHANGED inflight
       \/ /\ At(t, "press") => slots[lot[t]] # {}
          /\ Depart(t, lot[t], "retake") /\ UNCHANGED <<task, lot>>
    /\ UNCHANGED <<todo, told, lit, configLock, readers, writer, lots, context,
                   observers, slots, notifyPending, jobs, phoneVars>>

-----------------------------------------------------------------------------
Asked(t) == Register(t) \/ Clean(t) \/ Press(t) \/ Report(t) \/ TakeJob(t)
FindStep(t) == ReadList(t) \/ Visit(t) \/ NotFound(t) \/ WriteList(t) \/ Adopt(t) \/ Insert(t)
WatchStep(t) == LockConfig(t) \/ Attach(t) \/ Detach(t) \/ Recheck(t) \/ Free(t) \/ UnlockConfig(t)
SlotStep(t) == AddSlot(t) \/ RemoveSlot(t)
TellStep(t) == RunJob(t) \/ NotifyDevice(t) \/ NotifyNext(t) \/ JobOver(t) \/ Tell(t) \/ Retake(t)
               \/ Window(t)

Next == \E t \in Thread : Asked(t) \/ FindStep(t) \/ WatchStep(t) \/ SlotStep(t) \/ TellStep(t)

Spec == Init /\ [][Next]_vars

(***************************************************************************)
(* Properties                                                              *)
(***************************************************************************)

(* "still listed" means "still alive" (removeParkinglot): a lot that a thread *)
(* has locked, or will lock again after talking to a phone, is in the list,   *)
(* and nobody frees it meanwhile.                                             *)
InHand(t) == pc[t] \in Holding \cup Talking
StillListed == \A t \in Thread : InHand(t) => lot[t] \in lots

(* Observers and parked calls are not split between two lots of one name      *)
(* (addParkinglot looks again under the write lock).                          *)
OneLotPerContext == \A p, q \in lots : context[p] = context[q] => p = q

(* Threads never wait for each other in a circle: a phone that registers, a   *)
(* device that is cleaned, a call being parked and the jobs take the three    *)
(* kinds of lock in one order (removeParkinglot, _notifyHelper).              *)
WaitsFor(t) ==
    CASE pc[t] = "config" -> {configLock[task[t].device]}
      [] pc[t] = "tell" -> {configLock[task[t].device]} \ {t}
      [] pc[t] = "find" -> {writer}
      [] pc[t] \in {"create", "unlist"} -> readers \cup {writer}
      [] pc[t] = "scan" -> {lotLock[p] : p \in todo[t]}
      [] pc[t] = "adopt" -> {lotLock[p] : p \in Named(task[t].context)}
      [] pc[t] \in {"recheck", "retake"} -> {lotLock[lot[t]]}
      [] OTHER -> {}
NoLockCircle == ~ \E C \in (SUBSET Thread) \ {{}} : \A t \in C : WaitsFor(t) \cap C # {}

(* A change of what is parked is not lost between the jobs it is coalesced    *)
(* into (notifyLocked, notifyWorker): whoever watches the lot has been told   *)
(* of the present state by a notification that read it, or will be.           *)
Expected(d, p) ==
    \/ notifyPending[p]
    \/ \E t \in Worker : pc[t] \in {"each"} \cup Talking /\ lot[t] = p /\ d \in told[t]
    \/ \E t \in Phone : /\ task[t].device = d /\ task[t].op = "notify"
                       /\ pc[t] \in {"find", "scan", "create", "adopt", "notify"}
Pended(p) ==
    \/ jobs[context[p]] > 0
    \/ \E t \in Worker : /\ task[t].op = "job" /\ task[t].context = context[p]
                        /\ pc[t] \in {"find", "scan", "job"}
NoChangeMissed ==
    \A p \in lots :
        /\ \A d \in Watched(p) : heard[d] = (slots[p] # {}) \/ Expected(d, p)
        /\ notifyPending[p] => Pended(p)

(***************************************************************************)
(* What the source says and the code does not keep                         *)
(***************************************************************************)

(* "bring every observer of the parkinglot up to date with its current state" *)
(* (notifyWorker): when nobody is notifying any more, the lamps are right.     *)
Quiet == (\A c \in Context : jobs[c] = 0) /\ \A t \in Thread : pc[t] = "idle"
LampsRight == Quiet => \A p \in lots : \A d \in Watched(p) : lamp[d] = (slots[p] # {})

(* "will destroy pl" (detachObserver): a device that was cleaned is not        *)
(* observed any longer.                                                        *)
NoneLeftBehind == Quiet => \A p \in lots : Watched(p) \subseteq registered
=============================================================================
