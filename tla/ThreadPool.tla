----------------------------- MODULE ThreadPool -----------------------------
(***************************************************************************)
(* The worker pool of src/src/sccp_threadpool.c: jobs are appended to a    *)
(* FIFO queue, detached worker threads take them off, the pool is resized  *)
(* by the workers themselves and torn down by sccp_threadpool_destroy.     *)
(*                                                                         *)
(* Two mutexes are involved and never nested.  The jobs lock guards the    *)
(* queue and is the one the condition variable `work' is used with; it is  *)
(* explicit here (jobsLock), because a worker tests the queue and falls    *)
(* asleep in two steps while holding it.  Every critical section of the    *)
(* threads lock is one step.                                               *)
(*                                                                         *)
(* Time is abstract: whether a resize interval has passed, and when a      *)
(* timed wait ends, is a nondeterministic choice.                          *)
(***************************************************************************)
EXTENDS Naturals, Sequences, FiniteSets, SequencesExt

CONSTANTS Worker,      \* the worker threads that can exist at one time
          Job,         \* the jobs submitted in a behaviour
          MinSize,     \* THREADPOOL_MIN_SIZE, the size the pool is created with
          MaxSize,     \* THREADPOOL_MAX_SIZE, also the bound on destroy's wait loop
          Nobody       \* no thread holds the jobs lock

ASSUME PoolAssumption ==
    /\ MinSize \in Nat \ {0}
    /\ MaxSize \in Nat /\ MinSize <= MaxSize
    /\ IsFiniteSet(Worker)
    /\ Cardinality(Worker) >= MaxSize
    /\ Nobody \notin Worker

VARIABLES
    queue,      \* tp_p->jobs, head first
    jobState,   \* what has become of each job
    threads,    \* tp_p->threads, head first
    die,        \* tp_thread->die
    canceled,   \* a pthread_cancel is pending on the worker
    pc,         \* where each worker is in sccp_threadpool_thread_do
    held,       \* the job a worker is executing
    seen,       \* the queue length sccp_threadpool_check_size has read
    jobsLock,   \* owner of the jobs lock
    unsignaled, \* jobs queued whose pbx_cond_signal(work) is still to come
    shuttingdown,
    dpc,        \* where the caller of sccp_threadpool_destroy is
    tries       \* iterations of its wait loop

vars == <<queue, jobState, threads, die, canceled, pc, held, seen, jobsLock,
          unsignaled, shuttingdown, dpc, tries>>

queueVars   == <<queue, jobState, unsignaled>>
workerVars  == <<threads, die, canceled, pc, held, seen>>
destroyVars == <<shuttingdown, dpc, tries>>

WorkerPC  == {"off", "top", "enter", "test", "sleepy", "wait", "awake", "run", "check",
              "resize", "end", "signal"}
DestroyPC == {"idle", "mark", "poll", "loop", "twait", "lwait", "free", "freed"}
JobStates == {"idle", "adding", "queued", "running", "done", "dropped", "denied"}

Listed == Range(threads)

TypeOK ==
    /\ queue \in Seq(Job)
    /\ jobState \in [Job -> JobStates]
    /\ threads \in Seq(Worker)
    /\ die \in [Worker -> BOOLEAN]
    /\ canceled \in [Worker -> BOOLEAN]
    /\ pc \in [Worker -> WorkerPC]
    /\ held \in [Worker -> SUBSET Job]
    /\ seen \in [Worker -> Nat]
    /\ jobsLock \in Worker \cup {Nobody}
    /\ unsignaled \subseteq Job
    /\ shuttingdown \in BOOLEAN
    /\ dpc \in DestroyPC
    /\ tries \in 0 .. MaxSize

(* sccp_threadpool_init: the pool starts with MinSize workers. *)
Init ==
    /\ queue = <<>>
    /\ jobState = [j \in Job |-> "idle"]
    /\ \E first \in [1 .. MinSize -> Worker] :
          /\ \A m, n \in 1 .. MinSize : m # n => first[m] # first[n]
          /\ threads = first
          /\ pc = [w \in Worker |-> IF \E n \in 1 .. MinSize : first[n] = w
                                    THEN "top" ELSE "off"]
    /\ die = [w \in Worker |-> FALSE]
    /\ canceled = [w \in Worker |-> FALSE]
    /\ held = [w \in Worker |-> {}]
    /\ seen = [w \in Worker |-> 0]
    /\ jobsLock = Nobody
    /\ unsignaled = {}
    /\ shuttingdown = FALSE
    /\ dpc = "idle"
    /\ tries = 0

(***************************************************************************)
(* Condition variable `work'                                               *)
(***************************************************************************)
Sleeping == {w \in Worker : pc[w] = "wait"}

Broadcast(pcs) == [w \in Worker |-> IF pcs[w] = "wait" THEN "awake" ELSE pcs[w]]

SignalNobody == UNCHANGED pc

(* pbx_cond_signal: one waiter, if there is one, leaves pbx_cond_wait. *)
SignalWork ==
    IF Sleeping = {} THEN UNCHANGED pc
    ELSE \E w \in Sleeping : pc' = [pc EXCEPT ![w] = "awake"]

(***************************************************************************)
(* Submitting work                                                         *)
(***************************************************************************)

(* sccp_threadpool_add_work: the first, unlocked look at shuttingdown. *)
AddWork(j) ==
    /\ dpc # "freed"
    /\ jobState[j] = "idle"
    /\ jobState' = [jobState EXCEPT ![j] = IF shuttingdown THEN "denied" ELSE "adding"]
    /\ UNCHANGED <<queue, unsignaled, workerVars, jobsLock, destroyVars>>

RefusesNoJobs == FALSE
RefusesJobs == shuttingdown

QueueAddUnlocked(j) ==
    /\ dpc # "freed"
    /\ jobState[j] = "adding"
    /\ IF RefusesJobs
       THEN /\ jobState' = [jobState EXCEPT ![j] = "dropped"]
            /\ UNCHANGED <<queue, unsignaled>>
       ELSE /\ jobState' = [jobState EXCEPT ![j] = "queued"]
            /\ queue' = Append(queue, j)
            /\ unsignaled' = unsignaled \cup {j}
    /\ UNCHANGED <<workerVars, jobsLock, destroyVars>>

(* sccp_threadpool_jobqueue_add up to its unlock: the second look. *)
QueueAdd(j) ==
    /\ dpc # "freed"
    /\ jobState[j] = "adding"
    /\ jobsLock = Nobody
    /\ IF RefusesJobs
       THEN /\ jobState' = [jobState EXCEPT ![j] = "dropped"]
            /\ UNCHANGED <<queue, unsignaled>>
       ELSE /\ jobState' = [jobState EXCEPT ![j] = "queued"]
            /\ queue' = Append(queue, j)
            /\ unsignaled' = unsignaled \cup {j}
    /\ UNCHANGED <<workerVars, jobsLock, destroyVars>>

(* ... and its pbx_cond_signal, which comes after the unlock. *)
QueueSignal(j) ==
    /\ j \in unsignaled
    /\ unsignaled' = unsignaled \ {j}
    /\ SignalWork
    /\ UNCHANGED <<queue, jobState, threads, die, canceled, held, seen, jobsLock,
                   destroyVars>>

(***************************************************************************)
(* Workers                                                                 *)
(***************************************************************************)

(* pthread_testcancel at the top of the loop, the only cancellation point a *)
(* worker reaches with cancellation enabled: the condition wait and the job *)
(* both run with PTHREAD_CANCEL_DISABLE.                                    *)
Cancelled(w) ==
    /\ pc[w] = "top" /\ canceled[w]
    /\ pc' = [pc EXCEPT ![w] = "end"]
    /\ UNCHANGED <<queueVars, threads, die, canceled, held, seen, jobsLock, destroyVars>>

(* ... which a cancel that comes a moment later no longer stops. *)
Begin(w) ==
    /\ pc[w] = "top" /\ ~canceled[w]
    /\ pc' = [pc EXCEPT ![w] = "enter"]
    /\ UNCHANGED <<queueVars, threads, die, canceled, held, seen, jobsLock, destroyVars>>

(* Take the jobs lock, on the way in or when pbx_cond_wait returns. *)
Enter(w) ==
    /\ pc[w] \in {"enter", "awake"}
    /\ jobsLock = Nobody
    /\ jobsLock' = w
    /\ pc' = [pc EXCEPT ![w] = "test"]
    /\ UNCHANGED <<queueVars, threads, die, canceled, held, seen, destroyVars>>

LeavesOnDie(w) == die[w]
LeavesEmptyQueueOnly(w) == die[w] /\ queue = <<>>

TestPeek(w) ==
    /\ pc[w] = "test"
    /\ \/ /\ LeavesEmptyQueueOnly(w)
          /\ pc' = [pc EXCEPT ![w] = "end"]
          /\ jobsLock' = Nobody
          /\ UNCHANGED <<jobState, held>>
       \/ /\ queue = <<>> /\ ~die[w]
          /\ pc' = [pc EXCEPT ![w] = "sleepy"]
          /\ UNCHANGED <<jobState, held, jobsLock>>
       \/ /\ queue # <<>>
          /\ jobState' = [jobState EXCEPT ![Head(queue)] = "running"]
          /\ held' = [held EXCEPT ![w] = {Head(queue)}]
          /\ pc' = [pc EXCEPT ![w] = "run"]
          /\ jobsLock' = Nobody
    /\ UNCHANGED <<queue, unsignaled, threads, die, canceled, seen, destroyVars>>

(* The jobs lock is held and the loop condition evaluated. *)
Test(w) ==
    /\ pc[w] = "test"
    /\ \/ /\ LeavesEmptyQueueOnly(w)
          /\ pc' = [pc EXCEPT ![w] = "end"]
          /\ jobsLock' = Nobody
          /\ UNCHANGED <<queue, jobState, held>>
       \/ /\ queue = <<>> /\ ~die[w]
          /\ pc' = [pc EXCEPT ![w] = "sleepy"]
          /\ UNCHANGED <<queue, jobState, held, jobsLock>>
       \/ /\ queue # <<>> /\ ~LeavesEmptyQueueOnly(w)
          /\ queue' = Tail(queue)
          /\ jobState' = [jobState EXCEPT ![Head(queue)] = "running"]
          /\ held' = [held EXCEPT ![w] = {Head(queue)}]
          /\ pc' = [pc EXCEPT ![w] = "run"]
          /\ jobsLock' = Nobody
    /\ UNCHANGED <<unsignaled, threads, die, canceled, seen, destroyVars>>

(* pbx_cond_wait lets go of the jobs lock and sleeps, in one step.  What was *)
(* tested one step ago may have changed, unless it needs the jobs lock.      *)
Sleep(w) ==
    /\ pc[w] = "sleepy"
    /\ pc' = [pc EXCEPT ![w] = "wait"]
    /\ jobsLock' = Nobody
    /\ UNCHANGED <<queueVars, threads, die, canceled, held, seen, destroyVars>>

(* POSIX allows pbx_cond_wait to return without a signal. *)
SpuriousWake(w) ==
    /\ pc[w] = "wait"
    /\ pc' = [pc EXCEPT ![w] = "awake"]
    /\ UNCHANGED <<queueVars, threads, die, canceled, held, seen, jobsLock, destroyVars>>

(* The job returns.  Whether THREADPOOL_RESIZE_INTERVAL has passed decides  *)
(* if the size is checked, which a pool that is shutting down never does.   *)
Finish(w) ==
    /\ pc[w] = "run"
    /\ jobState' = [j \in Job |-> IF j \in held[w] THEN "done" ELSE jobState[j]]
    /\ held' = [held EXCEPT ![w] = {}]
    /\ \/ pc' = [pc EXCEPT ![w] = "top"]
       \/ ~shuttingdown /\ pc' = [pc EXCEPT ![w] = "check"]
    /\ UNCHANGED <<queue, unsignaled, threads, die, canceled, seen, jobsLock, destroyVars>>

(* sccp_threadpool_check_size reads the queue length under the jobs lock ... *)
ReadSize(w) ==
    /\ pc[w] = "check"
    /\ jobsLock = Nobody
    /\ seen' = [seen EXCEPT ![w] = Len(queue)]
    /\ pc' = [pc EXCEPT ![w] = "resize"]
    /\ UNCHANGED <<queueVars, threads, die, canceled, held, jobsLock, destroyVars>>

MayAlwaysGrow == TRUE
MayGrow == ~shuttingdown

(* sccp_threadpool_grow_locked(tp_p, 1). *)
Grow(w) ==
    IF MayGrow
    THEN \E n \in {x \in Worker : pc[x] = "off"} :
            /\ threads' = <<n>> \o threads
            /\ die' = [die EXCEPT ![n] = FALSE]
            /\ canceled' = [canceled EXCEPT ![n] = FALSE]
            /\ pc' = Broadcast([pc EXCEPT ![w] = "top", ![n] = "top"])
    ELSE /\ pc' = [pc EXCEPT ![w] = "top"]
         /\ UNCHANGED <<threads, die, canceled>>

(* sccp_threadpool_shrink_locked(tp_p, 1): the first worker of the list not *)
(* yet dying is told to.                                                     *)
Shrink(w) ==
    LET alive == {n \in DOMAIN threads : ~die[threads[n]]}
    IN IF ~shuttingdown /\ alive # {}
       THEN LET n == CHOOSE i \in alive : \A k \in alive : i <= k
            IN /\ die' = [die EXCEPT ![threads[n]] = TRUE]
               /\ pc' = Broadcast([pc EXCEPT ![w] = "top"])
       ELSE /\ pc' = [pc EXCEPT ![w] = "top"]
            /\ UNCHANGED die

TooSmall(n) == n > 2 * Len(threads) /\ Len(threads) < MaxSize
TooLarge(n) == Len(threads) > MinSize /\ n < Len(threads) \div 2

(* ... and resizes under the threads lock, by what it read before. *)
Resize(w) ==
    /\ pc[w] = "resize"
    /\ \/ /\ TooSmall(seen[w])
          /\ Grow(w)
       \/ /\ ~TooSmall(seen[w]) /\ TooLarge(seen[w])
          /\ Shrink(w)                       \* long enough since the last resize
          /\ UNCHANGED <<threads, canceled>>
       \/ /\ ~TooSmall(seen[w])              \* nothing to do, or too early to shrink
          /\ pc' = [pc EXCEPT ![w] = "top"]
          /\ UNCHANGED <<threads, die, canceled>>
    /\ seen' = [seen EXCEPT ![w] = 0]
    /\ UNCHANGED <<queueVars, held, jobsLock, destroyVars>>

(* sccp_threadpool_thread_end up to its unlock: the worker's entry goes ... *)
Unlist(w) ==
    /\ pc[w] = "end"
    /\ \E n \in DOMAIN threads :
          /\ threads[n] = w
          /\ threads' = RemoveAt(threads, n)
    /\ pc' = [pc EXCEPT ![w] = "signal"]
    /\ UNCHANGED <<queueVars, die, canceled, held, seen, jobsLock, destroyVars>>

(* ... and pbx_cond_signal(&tp_p->exit), the last use of the pool. *)
SignalExit(w) ==
    /\ pc[w] = "signal"
    /\ pc' = [pc EXCEPT ![w] = "off"]
    /\ UNCHANGED <<queueVars, threads, die, canceled, held, seen, jobsLock, destroyVars>>

(***************************************************************************)
(* sccp_threadpool_destroy                                                 *)
(***************************************************************************)
Shutdown ==
    /\ dpc = "idle" /\ jobsLock = Nobody
    /\ shuttingdown' = TRUE
    /\ dpc' = "mark"
    /\ UNCHANGED <<queueVars, workerVars, jobsLock, tries>>

MarkAll ==
    /\ dpc = "mark"
    /\ die' = [w \in Worker |-> die[w] \/ w \in Listed]
    /\ pc' = IF threads = <<>> THEN pc ELSE Broadcast(pc)
    /\ dpc' = "poll"
    /\ UNCHANGED <<queueVars, threads, canceled, held, seen, jobsLock, shuttingdown, tries>>

(* The broadcast and the unlocked look at the size of the thread list. *)
Poll ==
    /\ dpc = "poll"
    /\ pc' = Broadcast(pc)
    /\ dpc' = IF threads = <<>> THEN "free" ELSE "loop"
    /\ UNCHANGED <<queueVars, threads, die, canceled, held, seen, jobsLock, shuttingdown,
                   tries>>

WaitOnceMore ==
    /\ dpc = "loop" /\ threads # <<>> /\ tries <= MaxSize
    /\ tries' = tries + 1
    /\ pc' = Broadcast(pc)
    /\ dpc' = "twait"
    /\ UNCHANGED <<queueVars, threads, die, canceled, held, seen, jobsLock, shuttingdown>>

WaitForever ==
    /\ dpc = "loop" /\ threads # <<>>
    /\ tries' = tries
    /\ pc' = Broadcast(pc)
    /\ dpc' = "twait"
    /\ UNCHANGED <<queueVars, threads, die, canceled, held, seen, jobsLock, shuttingdown>>

(* One round of the wait loop: broadcast again, then wait a second at most.  *)
WaitRound ==
    /\ dpc = "loop" /\ threads # <<>> /\ tries < MaxSize
    /\ tries' = tries + 1
    /\ pc' = Broadcast(pc)
    /\ dpc' = "twait"
    /\ UNCHANGED <<queueVars, threads, die, canceled, held, seen, jobsLock, shuttingdown>>

EndRound ==
    /\ dpc = "twait"
    /\ dpc' = "loop"
    /\ UNCHANGED <<queueVars, workerVars, jobsLock, shuttingdown, tries>>

(* Out of rounds: cancel whoever is left and wait once more, for a while. *)
CancelAll ==
    /\ dpc = "loop" /\ threads # <<>> /\ tries >= MaxSize
    /\ canceled' = [w \in Worker |-> canceled[w] \/ w \in Listed]
    /\ dpc' = "lwait"
    /\ UNCHANGED <<queueVars, threads, die, pc, held, seen, jobsLock, shuttingdown, tries>>

Drained ==
    /\ dpc \in {"loop", "lwait"} /\ threads = <<>>
    /\ dpc' = "free"
    /\ UNCHANGED <<queueVars, workerVars, jobsLock, shuttingdown, tries>>

GiveUp ==
    /\ dpc = "lwait" /\ threads # <<>>
    /\ dpc' = "free"
    /\ UNCHANGED <<queueVars, workerVars, jobsLock, shuttingdown, tries>>

(* The conditions and list heads are destroyed and the pool freed. *)
Free ==
    /\ dpc = "free"
    /\ dpc' = "freed"
    /\ UNCHANGED <<queueVars, workerVars, jobsLock, shuttingdown, tries>>

-----------------------------------------------------------------------------
WorkerStep(w) ==
    \/ Cancelled(w) \/ Begin(w) \/ Enter(w) \/ Test(w) \/ Sleep(w) \/ Finish(w) \/ ReadSize(w)
    \/ Resize(w) \/ Unlist(w) \/ SignalExit(w)

DestroyStep ==
    \/ MarkAll \/ Poll \/ WaitRound \/ EndRound \/ CancelAll \/ Drained \/ GiveUp \/ Free

Submit(j) == AddWork(j) \/ QueueAdd(j) \/ QueueSignal(j)

Next ==
    \/ \E j \in Job : Submit(j)
    \/ \E w \in Worker : WorkerStep(w) \/ SpuriousWake(w)
    \/ Shutdown
    \/ DestroyStep

Spec == Init /\ [][Next]_vars

(* The thread that unloads the module keeps running.  Of the workers nothing *)
(* is assumed: a job may block for ever.                                     *)
FairSpec ==
    /\ Spec
    /\ WF_vars(DestroyStep)

(* What jobs need to be executed: each of them returns, and workers and      *)
(* submitters keep running.  A job is signalled for once, so that one         *)
(* condition for all of them is enough.                                       *)
WorkersRun ==
    /\ \A w \in Worker : WF_vars(WorkerStep(w))
    /\ WF_vars(\E j \in Job : QueueSignal(j))
-----------------------------------------------------------------------------
(***************************************************************************)
(* Properties                                                              *)
(***************************************************************************)

(* "After this point, no new jobs can be added" (sccp_threadpool_destroy): a *)
(* submitter that looked at shuttingdown before it was set, and reaches the  *)
(* queue after, must not get its job in.                                     *)
NoNewJobsAfterShutdown ==
    [][shuttingdown => \A j \in Job : jobState'[j] = "queued" => jobState[j] = "queued"]_vars

(* Once destroy has walked the thread list every listed worker is dying: the *)
(* pool cannot be resized past the walk by a worker that read the size        *)
(* before it.                                                                *)
AllMarked ==
    dpc \notin {"idle", "mark"} => \A w \in Listed : die[w]

Active(w) == pc[w] \in {"top", "enter", "test", "awake", "run", "check", "resize"}
MayBeCanceled == \E w \in Worker : canceled[w]

(* No lost wake-up: when jobs are queued and every submitter has signalled,  *)
(* some worker is on its way to the queue, unless all of them are leaving.   *)
(* The wait loop tests the queue and sleeps in two steps, the submitter adds *)
(* and signals in two steps, and a signal may wake a worker that is dying.   *)
NoLostWakeup ==
    /\ queue # <<>> /\ unsignaled = {} /\ ~MayBeCanceled
    /\ \E w \in Worker : pc[w] \notin {"off", "end", "signal"}
    => \E w \in Worker : Active(w)

(* What it rests on: the jobs lock is held exactly by a worker between its   *)
(* test and its sleep, which therefore sleeps on an empty queue only; and     *)
(* nobody is cancelled before the pool shuts down.                            *)
LockHeld == \A w \in Worker : (jobsLock = w) <=> (pc[w] \in {"test", "sleepy"})
SleepsOnEmpty == \A w \in Worker : pc[w] = "sleepy" => queue = <<>>
CancelledLate == MayBeCanceled \/ dpc # "idle" => shuttingdown

WakeupInv == LockHeld /\ SleepsOnEmpty /\ CancelledLate /\ NoLostWakeup

(* A job is queued once, or held by one worker, or neither: never run twice, *)
(* whichever workers wake for it.                                            *)
JobsConserved ==
    /\ \A m, n \in DOMAIN queue : queue[m] = queue[n] => m = n
    /\ \A j \in Job : (jobState[j] = "queued") <=> (j \in Range(queue))
    /\ \A j \in Job : (jobState[j] = "running") <=> (\E w \in Worker : j \in held[w])
    /\ \A v, w \in Worker : v # w => held[v] \cap held[w] = {}

(* A pool that was never left without workers (Staffed) and winds down by     *)
(* itself, nobody cancelled, leaves no job behind: the last worker to go has  *)
(* seen the queue empty, and nothing is queued after that                     *)
(* (sccp_threadpool_thread_do, sccp_threadpool_jobqueue_add).                 *)
CleanDrain ==
    shuttingdown /\ threads = <<>> /\ ~MayBeCanceled
    => queue = <<>> /\ \A j \in Job : jobState[j] # "running"

(* Until the shutdown some worker has not left its loop.  A pool that cannot  *)
(* be resized is always staffed; one that can may tell its last workers to    *)
(* die (NeverWithoutWorkers, below).                                          *)
Gone(w) == pc[w] \in {"off", "end", "signal"}
Staffed == shuttingdown \/ \E w \in Worker : ~Gone(w)

(* What the two rest on: a worker holds a job only while it runs it; a worker *)
(* is listed until it leaves; and when the shutdown finds a worker at work,    *)
(* the last one to leave its loop after it leaves the queue empty.             *)
HeldByRunning == \A w \in Worker : held[w] # {} => pc[w] = "run"
JobsInv == JobsConserved /\ HeldByRunning

ListedUntilEnd == \A w \in Worker : pc[w] \notin {"off", "signal"} => w \in Listed
LeftDrained == shuttingdown /\ ~MayBeCanceled /\ (\A w \in Worker : Gone(w)) => queue = <<>>
DrainInv == ListedUntilEnd /\ LeftDrained

(* If jobs return and workers run, every job queued in a pool of fixed size  *)
(* is executed, before or after the shutdown, unless destroy runs out of      *)
(* patience and cancels workers.                                              *)
JobsComplete ==
    WorkersRun => \A j \in Job :
        (jobState[j] = "queued") ~> (jobState[j] = "done" \/ MayBeCanceled)

(* Unloading never hangs on the pool: destroy returns whatever the workers   *)
(* do, because its waits are counted and timed.                              *)
DestroyReturns == (dpc = "mark") ~> (dpc = "freed")

(***************************************************************************)
(* What the source says and the code does not keep                         *)
(***************************************************************************)

(* "leaving them and their entries behind rather than freeing under them"    *)
(* (the message of sccp_threadpool_destroy when workers do not finish): the  *)
(* pool is not freed while one of its workers still uses it.                 *)
NothingFreedUnder ==
    dpc = "freed" => \A w \in Worker : pc[w] = "off"

(* "kill last thread only if it is not executed by itself"                   *)
(* (sccp_threadpool_check_size): the worker that shrinks the pool does not   *)
(* pick itself.                                                              *)
NeverShrinksItself ==
    [][\A w \in Worker : pc[w] = "resize" /\ pc'[w] = "top" => die'[w] = die[w]]_vars

(* "executing each job until the queue is empty" (sccp_threadpool.h): jobs    *)
(* can only be executed while the pool has workers, so a pool in use never    *)
(* shrinks to none.                                                          *)
NeverWithoutWorkers == ~shuttingdown => threads # <<>>

(* "to make sure all jobs have been processed" (sccp_threadpool_destroy): no  *)
(* accepted job is left when the pool is freed.                              *)
AllJobsProcessed ==
    dpc = "freed" => \A j \in Job : jobState[j] \notin {"queued", "running"}
=============================================================================
