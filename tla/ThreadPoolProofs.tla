-------------------------- MODULE ThreadPoolProofs --------------------------
(***************************************************************************)
(* Theorems of ThreadPool, for every number of workers and jobs and every  *)
(* minimum and maximum size.                                               *)
(***************************************************************************)
EXTENDS ThreadPool, SequenceTheorems, TLAPS

(* Taking an entry out of a list leaves a list of the same kind, and adds  *)
(* nothing to it: SCCP_LIST_REMOVE in sccp_threadpool_thread_end.          *)
LEMMA RemoveAtProperties ==
    ASSUME NEW S, NEW s \in Seq(S), NEW n \in 1 .. Len(s)
    PROVE  /\ RemoveAt(s, n) \in Seq(S)
           /\ Range(RemoveAt(s, n)) \subseteq Range(s)
<1> DEFINE a == SubSeq(s, 1, n - 1)
           b == SubSeq(s, n + 1, Len(s))
<1>1. a \in Seq(S) /\ b \in Seq(S)
  OBVIOUS
<1>2. Range(a) \subseteq Range(s)
  BY DEF Range
<1>3. Range(b) \subseteq Range(s)
  BY DEF Range
<1>4. Range(a \o b) = Range(a) \cup Range(b)
  BY <1>1, RangeConcatenation
<1> QED
  BY <1>1, <1>2, <1>3, <1>4 DEF RemoveAt

(* A broadcast only turns sleepers into wakers. *)
LEMMA BroadcastType ==
    ASSUME NEW pcs \in [Worker -> WorkerPC]
    PROVE  Broadcast(pcs) \in [Worker -> WorkerPC]
BY DEF Broadcast, WorkerPC

-----------------------------------------------------------------------------
(* Type correctness.  The bound on destroy's rounds is the only conjunct that *)
(* needs a guard (WaitRound's); the lists need the facts on sequences above.  *)
LEMMA TypeInit == Init => TypeOK
<1> SUFFICES ASSUME Init PROVE TypeOK
  OBVIOUS
<1>1. threads \in Seq(Worker)
  <2>1. PICK first \in [1 .. MinSize -> Worker] : threads = first
    BY DEF Init
  <2> QED
    BY <2>1, PoolAssumption
<1>2. pc \in [Worker -> WorkerPC]
  BY DEF Init, WorkerPC
<1>3. queue \in Seq(Job)
  BY EmptySeq DEF Init
<1>4. tries \in 0 .. MaxSize /\ seen \in [Worker -> Nat]
  BY PoolAssumption DEF Init
<1> QED
  BY <1>1, <1>2, <1>3, <1>4 DEF Init, TypeOK, JobStates, DestroyPC

LEMMA SubmitType ==
    ASSUME TypeOK, NEW j \in Job, Submit(j)
    PROVE  TypeOK'
<1>1. CASE AddWork(j)
  BY <1>1 DEF AddWork, TypeOK, JobStates, workerVars, destroyVars
<1>2. CASE QueueAdd(j)
  <2>1. queue' \in Seq(Job)
    <3>1. queue \in Seq(Job)
      BY DEF TypeOK
    <3>2. Append(queue, j) \in Seq(Job)
      BY <3>1, AppendProperties
    <3>3. queue' = queue \/ queue' = Append(queue, j)
      BY <1>2 DEF QueueAdd
    <3> QED
      BY <3>1, <3>2, <3>3
  <2>2. jobState' \in [Job -> JobStates] /\ unsignaled' \subseteq Job
    BY <1>2 DEF QueueAdd, TypeOK, JobStates
  <2> QED
    BY <1>2, <2>1, <2>2 DEF QueueAdd, TypeOK, workerVars, destroyVars
<1>3. CASE QueueSignal(j)
  <2>1. pc' \in [Worker -> WorkerPC]
    BY <1>3 DEF QueueSignal, SignalWork, Sleeping, TypeOK, WorkerPC
  <2> QED
    BY <1>3, <2>1 DEF QueueSignal, TypeOK, destroyVars
<1> QED
  BY <1>1, <1>2, <1>3 DEF Submit

LEMMA ResizeType ==
    ASSUME TypeOK, NEW w \in Worker, Resize(w)
    PROVE  TypeOK'
<1>1. /\ threads' \in Seq(Worker)
      /\ die' \in [Worker -> BOOLEAN]
      /\ canceled' \in [Worker -> BOOLEAN]
      /\ pc' \in [Worker -> WorkerPC]
  <2>1. [pc EXCEPT ![w] = "top"] \in [Worker -> WorkerPC]
    BY DEF TypeOK, WorkerPC
  <2>2. CASE Grow(w)
    <3>1. CASE MayGrow
      <4>1. PICK n \in Worker :
               /\ threads' = <<n>> \o threads
               /\ die' = [die EXCEPT ![n] = FALSE]
               /\ canceled' = [canceled EXCEPT ![n] = FALSE]
               /\ pc' = Broadcast([pc EXCEPT ![w] = "top", ![n] = "top"])
        BY <2>2, <3>1 DEF Grow
      <4>2. [pc EXCEPT ![w] = "top", ![n] = "top"] \in [Worker -> WorkerPC]
        BY DEF TypeOK, WorkerPC
      <4>3. threads' \in Seq(Worker)
        BY <4>1, ConcatProperties DEF TypeOK
      <4>4. die' \in [Worker -> BOOLEAN] /\ canceled' \in [Worker -> BOOLEAN]
        BY <4>1 DEF TypeOK
      <4> QED
        BY <4>1, <4>2, <4>3, <4>4, BroadcastType
    <3>2. CASE ~MayGrow
      BY <2>1, <2>2, <3>2 DEF Grow, TypeOK
    <3> QED
      BY <3>1, <3>2
  <2>3. CASE Shrink(w) /\ UNCHANGED <<threads, canceled>>
    <3>1. die' \in [Worker -> BOOLEAN]
      BY <2>3 DEF Shrink, TypeOK
    <3>2. pc' \in [Worker -> WorkerPC]
      <4>1. pc' = Broadcast([pc EXCEPT ![w] = "top"]) \/ pc' = [pc EXCEPT ![w] = "top"]
        BY <2>3 DEF Shrink
      <4> QED
        BY <2>1, <4>1, BroadcastType
    <3> QED
      BY <2>3, <3>1, <3>2 DEF TypeOK
  <2>4. CASE pc' = [pc EXCEPT ![w] = "top"] /\ UNCHANGED <<threads, die, canceled>>
    BY <2>1, <2>4 DEF TypeOK
  <2> QED
    BY <2>2, <2>3, <2>4 DEF Resize
<1> QED
  BY <1>1 DEF Resize, TypeOK, queueVars, destroyVars

LEMMA WorkerType ==
    ASSUME TypeOK, NEW w \in Worker, WorkerStep(w) \/ SpuriousWake(w)
    PROVE  TypeOK'
<1>1. CASE Cancelled(w)
  BY <1>1 DEF Cancelled, TypeOK, WorkerPC, queueVars, destroyVars
<1>2. CASE Begin(w)
  BY <1>2 DEF Begin, TypeOK, WorkerPC, queueVars, destroyVars
<1>3. CASE Enter(w)
  BY <1>3 DEF Enter, TypeOK, WorkerPC, queueVars, destroyVars
<1>4. CASE Test(w)
  <2>1. pc' \in [Worker -> WorkerPC]
    BY <1>4 DEF Test, TypeOK, WorkerPC
  <2>2. CASE UNCHANGED <<queue, jobState, held>>
    BY <1>4, <2>1, <2>2 DEF Test, TypeOK, destroyVars
  <2>3. CASE /\ queue # <<>>
             /\ queue' = Tail(queue)
             /\ jobState' = [jobState EXCEPT ![Head(queue)] = "running"]
             /\ held' = [held EXCEPT ![w] = {Head(queue)}]
    <3>1. Head(queue) \in Job /\ Tail(queue) \in Seq(Job)
      BY <2>3, HeadTailProperties DEF TypeOK
    <3>2. jobState' \in [Job -> JobStates] /\ held' \in [Worker -> SUBSET Job]
      BY <2>3, <3>1 DEF TypeOK, JobStates
    <3>3. jobsLock' \in Worker \cup {Nobody}
      BY <1>4 DEF Test, TypeOK
    <3> QED
      BY <1>4, <2>1, <2>3, <3>1, <3>2, <3>3 DEF Test, TypeOK, destroyVars
  <2> QED
    BY <1>4, <2>2, <2>3 DEF Test
<1>5. CASE Sleep(w)
  BY <1>5 DEF Sleep, TypeOK, WorkerPC, queueVars, destroyVars
<1>6. CASE Finish(w)
  BY <1>6 DEF Finish, TypeOK, WorkerPC, JobStates, destroyVars
<1>7. CASE ReadSize(w)
  BY <1>7 DEF ReadSize, TypeOK, WorkerPC, queueVars, destroyVars
<1>8. CASE Resize(w)
  BY <1>8, ResizeType
<1>9. CASE Unlist(w)
  <2>1. PICK n \in DOMAIN threads : threads' = RemoveAt(threads, n)
    BY <1>9 DEF Unlist
  <2>2. threads' \in Seq(Worker)
    BY <2>1, RemoveAtProperties DEF TypeOK
  <2> QED
    BY <1>9, <2>2 DEF Unlist, TypeOK, WorkerPC, queueVars, destroyVars
<1>10. CASE SignalExit(w)
  BY <1>10 DEF SignalExit, TypeOK, WorkerPC, queueVars, destroyVars
<1>11. CASE SpuriousWake(w)
  BY <1>11 DEF SpuriousWake, TypeOK, WorkerPC, queueVars, destroyVars
<1> QED
  BY <1>1, <1>2, <1>3, <1>4, <1>5, <1>6, <1>7, <1>8, <1>9, <1>10, <1>11 DEF WorkerStep

LEMMA DestroyType ==
    ASSUME TypeOK, Shutdown \/ DestroyStep
    PROVE  TypeOK'
<1>0. Broadcast(pc) \in [Worker -> WorkerPC]
  BY BroadcastType DEF TypeOK
<1>1. CASE Shutdown
  BY <1>1 DEF Shutdown, TypeOK, DestroyPC, queueVars, workerVars
<1>2. CASE MarkAll
  BY <1>0, <1>2 DEF MarkAll, TypeOK, DestroyPC, queueVars
<1>3. CASE Poll
  BY <1>0, <1>3 DEF Poll, TypeOK, DestroyPC, queueVars
<1>4. CASE WaitRound
  BY <1>0, <1>4, PoolAssumption DEF WaitRound, TypeOK, DestroyPC, queueVars
<1>5. CASE EndRound
  BY <1>5 DEF EndRound, TypeOK, DestroyPC, queueVars, workerVars
<1>6. CASE CancelAll
  BY <1>6 DEF CancelAll, TypeOK, DestroyPC, queueVars
<1>7. CASE Drained
  BY <1>7 DEF Drained, TypeOK, DestroyPC, queueVars, workerVars
<1>8. CASE GiveUp
  BY <1>8 DEF GiveUp, TypeOK, DestroyPC, queueVars, workerVars
<1>9. CASE Free
  BY <1>9 DEF Free, TypeOK, DestroyPC, queueVars, workerVars
<1> QED
  BY <1>1, <1>2, <1>3, <1>4, <1>5, <1>6, <1>7, <1>8, <1>9 DEF DestroyStep

LEMMA TypeStep == TypeOK /\ [Next]_vars => TypeOK'
<1> SUFFICES ASSUME TypeOK, [Next]_vars PROVE TypeOK'
  OBVIOUS
<1>1. CASE UNCHANGED vars
  BY <1>1 DEF vars, TypeOK
<1>2. CASE Next
  BY <1>2, SubmitType, WorkerType, DestroyType DEF Next
<1> QED
  BY <1>1, <1>2

(* Every variable keeps its type: in particular destroy's rounds never pass   *)
(* THREADPOOL_MAX_SIZE, and the lists only ever hold jobs and workers.        *)
THEOREM TypeCorrect == Spec => []TypeOK
BY TypeInit, TypeStep, PTL DEF Spec

-----------------------------------------------------------------------------
(* No wake-up is lost.  NoLostWakeup by itself is not inductive: that a worker *)
(* falls asleep on an empty queue only needs the jobs lock (LockHeld,          *)
(* SleepsOnEmpty), and that growing the pool does not hide a cancelled worker  *)
(* needs that nobody is cancelled before the pool shuts down (CancelledLate).  *)
LEMMA WakeupInit == Init => WakeupInv
BY PoolAssumption DEF Init, WakeupInv, LockHeld, SleepsOnEmpty, CancelledLate,
                      MayBeCanceled, NoLostWakeup

LEMMA SubmitWakeup ==
    ASSUME TypeOK, WakeupInv, NEW j \in Job, Submit(j)
    PROVE  WakeupInv'
<1>1. CASE AddWork(j)
  BY <1>1 DEF AddWork, workerVars, destroyVars, WakeupInv, LockHeld, SleepsOnEmpty,
              CancelledLate, MayBeCanceled, NoLostWakeup, Active
<1>2. CASE QueueAdd(j)
  <2>1. SleepsOnEmpty'
    BY <1>2, PoolAssumption
       DEF QueueAdd, workerVars, WakeupInv, LockHeld, SleepsOnEmpty
  <2>2. NoLostWakeup'
    <3>1. CASE RefusesJobs
      BY <1>2, <3>1 DEF QueueAdd, workerVars, WakeupInv, NoLostWakeup, MayBeCanceled, Active
    <3>2. CASE ~RefusesJobs
      BY <1>2, <3>2 DEF QueueAdd, NoLostWakeup
    <3> QED
      BY <3>1, <3>2
  <2> QED
    BY <1>2, <2>1, <2>2 DEF QueueAdd, workerVars, destroyVars, WakeupInv, LockHeld,
                            CancelledLate, MayBeCanceled
<1>3. CASE QueueSignal(j)
  <2>1. LockHeld' /\ SleepsOnEmpty'
    BY <1>3 DEF QueueSignal, SignalWork, Sleeping, WakeupInv, LockHeld, SleepsOnEmpty, TypeOK
  <2>2. NoLostWakeup'
    <3>1. CASE Sleeping = {}
      <4>1. UNCHANGED <<pc, queue, canceled>>
        BY <1>3, <3>1 DEF QueueSignal, SignalWork
      <4>2. \A w \in Worker : pc[w] # "wait"
        BY <3>1 DEF Sleeping
      <4>3. \A w \in Worker : pc[w] \in WorkerPC
        BY DEF TypeOK
      <4> QED
        BY <4>1, <4>2, <4>3
           DEF WakeupInv, SleepsOnEmpty, NoLostWakeup, Active, WorkerPC, MayBeCanceled
    <3>2. CASE Sleeping # {}
      <4>1. PICK w \in Worker : pc' = [pc EXCEPT ![w] = "awake"]
        BY <1>3, <3>2 DEF QueueSignal, SignalWork, Sleeping
      <4>2. pc'[w] = "awake"
        BY <4>1 DEF TypeOK
      <4> QED
        BY <4>2 DEF NoLostWakeup, Active
    <3> QED
      BY <3>1, <3>2
  <2> QED
    BY <1>3, <2>1, <2>2 DEF QueueSignal, destroyVars, WakeupInv, CancelledLate, MayBeCanceled
<1> QED
  BY <1>1, <1>2, <1>3 DEF Submit

(* A broadcast disturbs neither the lock nor a worker that is under way. *)
LEMMA BroadcastKeeps ==
    ASSUME NEW pcs \in [Worker -> WorkerPC], NEW w \in Worker
    PROVE  /\ pcs[w] = "wait" => Broadcast(pcs)[w] = "awake"
           /\ pcs[w] # "wait" => Broadcast(pcs)[w] = pcs[w]
BY DEF Broadcast

LEMMA BroadcastWakeup ==
    ASSUME WakeupInv, UNCHANGED <<queue, jobsLock, unsignaled>>,
           \A w \in Worker :
              /\ pc[w] = "wait" => pc'[w] = "awake"
              /\ pc[w] # "wait" => pc'[w] = pc[w],
           MayBeCanceled => MayBeCanceled'
    PROVE  LockHeld' /\ SleepsOnEmpty' /\ NoLostWakeup'
<1>1. LockHeld' /\ SleepsOnEmpty'
  BY DEF WakeupInv, LockHeld, SleepsOnEmpty
<1>2. NoLostWakeup'
  <2> SUFFICES ASSUME queue' # <<>>, unsignaled' = {}, ~MayBeCanceled',
                      NEW w \in Worker, pc'[w] \notin {"off", "end", "signal"}
               PROVE  \E v \in Worker : Active(v)'
    BY DEF NoLostWakeup
  <2>1. CASE pc[w] = "wait"
    BY <2>1 DEF Active
  <2>2. CASE pc[w] # "wait"
    <3>1. PICK v \in Worker : Active(v)
      BY <2>2 DEF WakeupInv, NoLostWakeup
    <3> QED
      BY <3>1 DEF Active
  <2> QED
    BY <2>1, <2>2
<1> QED
  BY <1>1, <1>2

LEMMA ResizeWakeup ==
    ASSUME TypeOK, WakeupInv, NEW w \in Worker, Resize(w)
    PROVE  WakeupInv'
<1> DEFINE back == [pc EXCEPT ![w] = "top"]
<1>1. pc[w] = "resize" /\ UNCHANGED <<queue, unsignaled, jobsLock, dpc, shuttingdown>>
  BY DEF Resize, queueVars, destroyVars
<1>2. /\ pc'[w] = "top"
      /\ \A v \in Worker \ {w} :
            \/ pc'[v] = pc[v]
            \/ pc[v] = "wait" /\ pc'[v] = "awake"
            \/ pc[v] = "off" /\ pc'[v] = "top"
  <2>1. CASE Grow(w)
    <3>1. CASE MayGrow
      <4>1. PICK n \in {x \in Worker : pc[x] = "off"} :
               pc' = Broadcast([pc EXCEPT ![w] = "top", ![n] = "top"])
        BY <2>1, <3>1 DEF Grow
      <4> QED
        BY <1>1, <4>1 DEF Broadcast, TypeOK
    <3>2. CASE ~MayGrow
      BY <2>1, <3>2 DEF Grow, TypeOK
    <3> QED
      BY <3>1, <3>2
  <2>2. CASE Shrink(w)
    <3>1. pc' = Broadcast(back) \/ pc' = back
      BY <2>2 DEF Shrink
    <3> QED
      BY <1>1, <3>1 DEF Broadcast, TypeOK
  <2>3. CASE pc' = back
    BY <2>3 DEF TypeOK
  <2> QED
    BY <2>1, <2>2, <2>3 DEF Resize
<1>3. MayBeCanceled' => MayBeCanceled
  <2>1. CASE Grow(w)
    BY <2>1 DEF Grow, MayBeCanceled, TypeOK
  <2>2. CASE UNCHANGED canceled
    BY <2>2 DEF MayBeCanceled
  <2> QED
    BY <2>1, <2>2 DEF Resize
<1>4. LockHeld' /\ SleepsOnEmpty'
  BY <1>1, <1>2 DEF WakeupInv, LockHeld, SleepsOnEmpty
<1>5. NoLostWakeup'
  BY <1>2 DEF NoLostWakeup, Active
<1> QED
  BY <1>1, <1>3, <1>4, <1>5 DEF WakeupInv, CancelledLate

(* A worker that leaves does so from an empty queue, or because it was        *)
(* cancelled; one that falls asleep holds the jobs lock and has seen the      *)
(* queue empty; any other stays under way.                                    *)
LEMMA WorkerWakeup ==
    ASSUME TypeOK, WakeupInv, NEW w \in Worker, WorkerStep(w) \/ SpuriousWake(w)
    PROVE  WakeupInv'
<1> USE DEF WakeupInv, LockHeld, SleepsOnEmpty, CancelledLate, MayBeCanceled, Active,
            queueVars, destroyVars, TypeOK
<1>1. CASE Cancelled(w)
  BY <1>1 DEF Cancelled, NoLostWakeup
<1>2. CASE Begin(w)
  BY <1>2 DEF Begin, NoLostWakeup
<1>3. CASE Enter(w)
  BY <1>3, PoolAssumption DEF Enter, NoLostWakeup
<1>4. CASE Test(w)
  <2>1. pc[w] = "test" /\ jobsLock = w /\ w # Nobody
    BY <1>4, PoolAssumption DEF Test
  <2>2. /\ UNCHANGED <<unsignaled, canceled, dpc, shuttingdown>>
        /\ \A v \in Worker \ {w} : pc'[v] = pc[v]
    BY <1>4 DEF Test
  <2>3. CASE queue' = <<>>
    <3>1. \/ pc'[w] = "end" /\ jobsLock' = Nobody
          \/ pc'[w] = "sleepy" /\ jobsLock' = w
          \/ pc'[w] = "run" /\ jobsLock' = Nobody
      BY <1>4, <2>1 DEF Test
    <3> QED
      BY <2>1, <2>2, <2>3, <3>1, PoolAssumption DEF NoLostWakeup
  <2>4. CASE queue' # <<>>
    <3>1. pc'[w] = "run" /\ jobsLock' = Nobody
      BY <1>4, <2>1, <2>4 DEF Test, LeavesEmptyQueueOnly
    <3> QED
      BY <2>1, <2>2, <3>1, PoolAssumption DEF NoLostWakeup
  <2> QED
    BY <2>3, <2>4
<1>5. CASE Sleep(w)
  BY <1>5, PoolAssumption DEF Sleep, NoLostWakeup
<1>6. CASE Finish(w)
  BY <1>6 DEF Finish, NoLostWakeup
<1>7. CASE ReadSize(w)
  BY <1>7 DEF ReadSize, NoLostWakeup
<1>8. CASE Resize(w)
  BY <1>8, ResizeWakeup
<1>9. CASE Unlist(w)
  BY <1>9 DEF Unlist, NoLostWakeup
<1>10. CASE SignalExit(w)
  BY <1>10 DEF SignalExit, NoLostWakeup
<1>11. CASE SpuriousWake(w)
  BY <1>11 DEF SpuriousWake, NoLostWakeup
<1> QED
  BY <1>1, <1>2, <1>3, <1>4, <1>5, <1>6, <1>7, <1>8, <1>9, <1>10, <1>11 DEF WorkerStep

LEMMA DestroyWakeup ==
    ASSUME TypeOK, WakeupInv, Shutdown \/ DestroyStep
    PROVE  WakeupInv'
<1>1. CASE Shutdown
  BY <1>1 DEF Shutdown, queueVars, workerVars, WakeupInv, LockHeld, SleepsOnEmpty,
              CancelledLate, NoLostWakeup, MayBeCanceled, Active
<1>2. CASE UNCHANGED <<queue, pc, canceled, jobsLock, unsignaled, shuttingdown>> /\ dpc # "idle"
  BY <1>2 DEF WakeupInv, LockHeld, SleepsOnEmpty, CancelledLate, NoLostWakeup,
              MayBeCanceled, Active
<1>3. CASE /\ pc' = Broadcast(pc) /\ dpc # "idle"
           /\ UNCHANGED <<queue, canceled, jobsLock, unsignaled, shuttingdown>>
  <2>1. \A w \in Worker :
           /\ pc[w] = "wait" => pc'[w] = "awake"
           /\ pc[w] # "wait" => pc'[w] = pc[w]
    BY <1>3, BroadcastKeeps DEF TypeOK
  <2>2. MayBeCanceled' <=> MayBeCanceled
    BY <1>3 DEF MayBeCanceled
  <2>3. LockHeld' /\ SleepsOnEmpty' /\ NoLostWakeup'
    BY <1>3, <2>1, <2>2, BroadcastWakeup
  <2> QED
    BY <1>3, <2>2, <2>3 DEF WakeupInv, CancelledLate
<1>4. CASE CancelAll
  <2>1. shuttingdown'
    BY <1>4 DEF CancelAll, WakeupInv, CancelledLate
  <2>2. MayBeCanceled'
    <3>1. threads # <<>> /\ canceled' = [w \in Worker |-> canceled[w] \/ w \in Listed]
      BY <1>4 DEF CancelAll
    <3>2. threads[1] \in Worker /\ threads[1] \in Range(threads)
      BY <3>1, EmptySeq, LenProperties, ElementOfSeq DEF TypeOK, Range
    <3>3. canceled'[threads[1]]
      BY <3>1, <3>2 DEF Listed
    <3> QED
      BY <3>2, <3>3 DEF MayBeCanceled
  <2> QED
    BY <1>4, <2>1, <2>2 DEF CancelAll, queueVars, WakeupInv, LockHeld, SleepsOnEmpty,
                            CancelledLate, NoLostWakeup
<1>5. CASE MarkAll
  BY <1>2, <1>3, <1>5 DEF MarkAll, queueVars
<1>6. CASE Poll
  BY <1>3, <1>6 DEF Poll, queueVars
<1>7. CASE WaitRound
  BY <1>3, <1>7 DEF WaitRound, queueVars
<1>8. CASE EndRound
  BY <1>2, <1>8 DEF EndRound, queueVars, workerVars
<1>9. CASE Drained
  BY <1>2, <1>9 DEF Drained, queueVars, workerVars
<1>10. CASE GiveUp
  BY <1>2, <1>10 DEF GiveUp, queueVars, workerVars
<1>11. CASE Free
  BY <1>2, <1>11 DEF Free, queueVars, workerVars
<1> QED
  BY <1>1, <1>4, <1>5, <1>6, <1>7, <1>8, <1>9, <1>10, <1>11 DEF DestroyStep

LEMMA WakeupStep == TypeOK /\ WakeupInv /\ [Next]_vars => WakeupInv'
<1> SUFFICES ASSUME TypeOK, WakeupInv, [Next]_vars PROVE WakeupInv'
  OBVIOUS
<1>1. CASE UNCHANGED vars
  BY <1>1 DEF vars, WakeupInv, LockHeld, SleepsOnEmpty, CancelledLate, NoLostWakeup,
              MayBeCanceled, Active
<1>2. CASE Next
  BY <1>2, SubmitWakeup, WorkerWakeup, DestroyWakeup DEF Next
<1> QED
  BY <1>1, <1>2

(* With jobs queued and every submitter done, a worker is under way to them,  *)
(* unless all are leaving or the pool has begun to cancel them: the order of  *)
(* add, unlock and signal on one side and of test and sleep on the other      *)
(* never leaves a job with sleepers only.                                     *)
THEOREM WakeupsNotLost == Spec => []NoLostWakeup
<1>1. WakeupInv => NoLostWakeup
  BY DEF WakeupInv
<1> QED
  BY <1>1, TypeInit, TypeStep, WakeupInit, WakeupStep, PTL DEF Spec

-----------------------------------------------------------------------------
(* The shutdown flag closes the pool.  The unlocked look at it in              *)
(* sccp_threadpool_add_work proves nothing; the second one, under the jobs     *)
(* lock, is what both theorems rest on.                                        *)
LEMMA QueueClosed ==
    ASSUME TypeOK, shuttingdown, [Next]_vars, NEW j \in Job, jobState'[j] = "queued"
    PROVE  jobState[j] = "queued"
<1>1. CASE UNCHANGED jobState
  BY <1>1
<1>2. CASE \E i \in Job : AddWork(i)
  BY <1>2 DEF AddWork, TypeOK
<1>3. CASE \E i \in Job : QueueAdd(i)
  BY <1>3 DEF QueueAdd, RefusesJobs, TypeOK
<1>4. CASE \E w \in Worker : Test(w)
  <2>1. PICK w \in Worker : Test(w)
    BY <1>4
  <2>2. UNCHANGED jobState \/ jobState' = [jobState EXCEPT ![Head(queue)] = "running"]
    BY <2>1 DEF Test
  <2> QED
    BY <2>2 DEF TypeOK
<1>5. CASE \E w \in Worker : Finish(w)
  BY <1>5 DEF Finish, TypeOK
<1> QED
  BY <1>1, <1>2, <1>3, <1>4, <1>5
     DEF Next, Submit, WorkerStep, DestroyStep, vars, QueueSignal, Cancelled, Begin, Enter,
         Sleep, SpuriousWake, ReadSize, Resize, Unlist, SignalExit, Shutdown, MarkAll, Poll,
         WaitRound, EndRound, CancelAll, Drained, GiveUp, Free, queueVars

(* "After this point, no new jobs can be added": no step queues a job once     *)
(* sccp_threadpool_destroy has set the flag.                                   *)
THEOREM QueueStaysClosed == Spec => NoNewJobsAfterShutdown
<1>1. TypeOK /\ [Next]_vars
      => [shuttingdown => \A j \in Job : jobState'[j] = "queued" => jobState[j] = "queued"]_vars
  BY QueueClosed
<1> QED
  BY <1>1, TypeInit, TypeStep, PTL DEF Spec, NoNewJobsAfterShutdown

-----------------------------------------------------------------------------
(* Every worker is told to die.  AllMarked is inductive together with          *)
(* CancelledLate, whose second half says that destroy has passed Shutdown only *)
(* with the flag up: a worker that read the queue length before then finds the *)
(* flag in sccp_threadpool_grow_locked.                                        *)
LEMMA MarkedStep == TypeOK /\ WakeupInv /\ AllMarked /\ [Next]_vars => AllMarked'
<1> SUFFICES ASSUME TypeOK, WakeupInv, AllMarked, [Next]_vars PROVE AllMarked'
  OBVIOUS
<1> USE DEF AllMarked, Listed
<1>1. CASE UNCHANGED <<threads, die, dpc>>
  BY <1>1
<1>2. CASE \E w \in Worker : Resize(w)
  <2>1. PICK w \in Worker : Resize(w)
    BY <1>2
  <2>2. UNCHANGED <<dpc, shuttingdown>>
    BY <2>1 DEF Resize, destroyVars
  <2>3. CASE shuttingdown
    <3>1. UNCHANGED <<threads, die>>
      BY <2>1, <2>3 DEF Resize, Grow, MayGrow, Shrink
    <3> QED
      BY <1>1, <2>2, <3>1
  <2>4. CASE ~shuttingdown
    BY <2>2, <2>4 DEF WakeupInv, CancelledLate
  <2> QED
    BY <2>3, <2>4
<1>3. CASE \E w \in Worker : Unlist(w)
  <2>1. PICK w \in Worker, n \in DOMAIN threads :
           threads' = RemoveAt(threads, n) /\ UNCHANGED <<die, dpc>>
    BY <1>3 DEF Unlist, destroyVars
  <2>2. threads \in Seq(Worker) /\ n \in 1 .. Len(threads)
    BY <2>1, LenProperties DEF TypeOK
  <2>3. Range(RemoveAt(threads, n)) \subseteq Range(threads)
    BY <2>2, RemoveAtProperties
  <2> QED
    BY <2>1, <2>3
<1>4. CASE Shutdown
  BY <1>4 DEF Shutdown
<1>5. CASE MarkAll
  <2>1. \A w \in Range(threads) : w \in Worker
    BY RangeOfSeq DEF TypeOK
  <2> QED
    BY <1>5, <2>1 DEF MarkAll
<1>6. CASE /\ UNCHANGED <<threads, die>>
           /\ dpc \notin {"idle", "mark"}
  BY <1>6
<1>7. CASE Next
  <2>1. CASE \E j \in Job : Submit(j)
    BY <1>1, <2>1 DEF Submit, AddWork, QueueAdd, QueueSignal, workerVars, destroyVars
  <2>2. CASE \E w \in Worker : WorkerStep(w) \/ SpuriousWake(w)
    BY <1>1, <1>2, <1>3, <2>2
       DEF WorkerStep, Cancelled, Begin, Enter, Test, Sleep, SpuriousWake, Finish, ReadSize,
           SignalExit, destroyVars
  <2>3. CASE DestroyStep
    BY <1>5, <1>6, <2>3
       DEF DestroyStep, Poll, WaitRound, EndRound, CancelAll, Drained, GiveUp, Free,
           workerVars
  <2> QED
    BY <1>4, <1>7, <2>1, <2>2, <2>3 DEF Next
<1> QED
  BY <1>1, <1>7 DEF vars

(* After destroy's walk over the list nobody in it is unmarked, although       *)
(* workers resize the pool concurrently.                                       *)
THEOREM WorkersMarked == Spec => []AllMarked
<1>1. Init => AllMarked
  BY DEF Init, AllMarked
<1> QED
  BY <1>1, TypeInit, TypeStep, WakeupInit, WakeupStep, MarkedStep, PTL DEF Spec
-----------------------------------------------------------------------------
(* No job is lost or run twice.  JobsConserved rests on a worker having its    *)
(* hands empty when it comes to the queue (HeldByRunning), for there it takes  *)
(* the head and forgets whatever it held.                                      *)
LEMMA SameJobs ==
    ASSUME JobsInv, UNCHANGED <<queue, jobState, held>>,
           \A w \in Worker : pc[w] = "run" => pc'[w] = "run"
    PROVE  JobsInv'
BY DEF JobsInv, JobsConserved, HeldByRunning, Range

LEMMA AddedJob ==
    ASSUME TypeOK, JobsInv, NEW j \in Job, QueueAdd(j)
    PROVE  JobsInv'
<1>1. jobState[j] = "adding" /\ UNCHANGED <<held, pc>>
  BY DEF QueueAdd, workerVars
<1>2. j \notin Range(queue) /\ \A w \in Worker : j \notin held[w]
  BY <1>1 DEF JobsInv, JobsConserved
<1>3. CASE queue' = queue /\ jobState' = [jobState EXCEPT ![j] = "dropped"]
  BY <1>1, <1>2, <1>3 DEF JobsInv, JobsConserved, HeldByRunning, TypeOK, Range
<1>4. CASE queue' = Append(queue, j) /\ jobState' = [jobState EXCEPT ![j] = "queued"]
  <2>1. queue \in Seq(Job)
    BY DEF TypeOK
  <2>2. /\ DOMAIN queue = 1 .. Len(queue) /\ DOMAIN queue' = 1 .. Len(queue) + 1
        /\ \A n \in 1 .. Len(queue) : queue'[n] = queue[n]
        /\ queue'[Len(queue) + 1] = j
    BY <1>4, <2>1
  <2>3. Range(queue') = Range(queue) \cup {j}
    BY <2>1, <2>2 DEF Range
  <2>4. \A m, n \in DOMAIN queue' : queue'[m] = queue'[n] => m = n
    BY <1>2, <2>1, <2>2 DEF JobsInv, JobsConserved, Range
  <2>5. \A i \in Job : (jobState'[i] = "queued") <=> (i \in Range(queue'))
    BY <1>4, <2>3 DEF JobsInv, JobsConserved, TypeOK
  <2>6. \A i \in Job : (jobState'[i] = "running") <=> (\E w \in Worker : i \in held'[w])
    BY <1>1, <1>2, <1>4 DEF JobsInv, JobsConserved, TypeOK
  <2> QED
    BY <1>1, <2>4, <2>5, <2>6 DEF JobsInv, JobsConserved, HeldByRunning
<1> QED
  BY <1>3, <1>4 DEF QueueAdd

LEMMA TakenJob ==
    ASSUME TypeOK, JobsInv, NEW w \in Worker, Test(w)
    PROVE  JobsInv'
<1>1. pc[w] = "test" /\ held[w] = {}
  BY DEF Test, JobsInv, HeldByRunning
<1>2. CASE UNCHANGED <<queue, jobState, held>>
  <2>1. \A v \in Worker : pc[v] = "run" => pc'[v] = "run"
    BY <1>1 DEF Test, TypeOK
  <2> QED
    BY <1>2, <2>1, SameJobs
<1>3. CASE /\ queue # <<>> /\ queue' = Tail(queue)
           /\ jobState' = [jobState EXCEPT ![Head(queue)] = "running"]
           /\ held' = [held EXCEPT ![w] = {Head(queue)}]
           /\ pc' = [pc EXCEPT ![w] = "run"]
  <2> DEFINE j == Head(queue)
  <2>1. queue \in Seq(Job) /\ j \in Job
    BY <1>3, HeadTailProperties DEF TypeOK
  <2>2. /\ Len(queue) \in Nat \ {0} /\ DOMAIN queue = 1 .. Len(queue) /\ queue[1] = j
        /\ DOMAIN queue' = 1 .. Len(queue) - 1
        /\ \A n \in 1 .. Len(queue) - 1 : queue'[n] = queue[n + 1]
    BY <1>3, <2>1
  <2>3. j \in Range(queue) /\ j \notin Range(queue')
    <3>1. j \in Range(queue)
      BY <2>2 DEF Range
    <3>2. ASSUME NEW n \in DOMAIN queue', queue'[n] = j PROVE FALSE
      <4>1. n + 1 \in DOMAIN queue /\ 1 \in DOMAIN queue /\ queue[n + 1] = queue[1] /\ n + 1 # 1
        BY <2>2, <3>2
      <4> QED
        BY <4>1 DEF JobsInv, JobsConserved
    <3> QED
      BY <3>1, <3>2 DEF Range
  <2>4. Range(queue) = Range(queue') \cup {j}
    <3>1. ASSUME NEW n \in DOMAIN queue
          PROVE  queue[n] = j \/ \E m \in DOMAIN queue' : queue[n] = queue'[m]
      <4>1. CASE n = 1
        BY <2>2, <4>1
      <4>2. CASE n # 1
        <5>1. n - 1 \in DOMAIN queue' /\ queue'[n - 1] = queue[n]
          BY <2>2, <4>2
        <5> QED
          BY <5>1
      <4> QED
        BY <4>1, <4>2
    <3>2. ASSUME NEW n \in DOMAIN queue'
          PROVE  \E m \in DOMAIN queue : queue[m] = queue'[n]
      <4>1. n + 1 \in DOMAIN queue /\ queue'[n] = queue[n + 1]
        BY <2>2
      <4> QED
        BY <4>1
    <3> QED
      BY <2>3, <3>1, <3>2 DEF Range
  <2>5. \A m, n \in DOMAIN queue' : queue'[m] = queue'[n] => m = n
    <3> SUFFICES ASSUME NEW m \in DOMAIN queue', NEW n \in DOMAIN queue', queue'[m] = queue'[n]
                 PROVE  m = n
      OBVIOUS
    <3>1. m + 1 \in DOMAIN queue /\ n + 1 \in DOMAIN queue /\ queue[m + 1] = queue[n + 1]
      BY <2>2
    <3> QED
      BY <2>2, <3>1 DEF JobsInv, JobsConserved
  <2>6. jobState[j] = "queued" /\ \A v \in Worker : j \notin held[v]
    BY <2>1, <2>3 DEF JobsInv, JobsConserved
  <2>7. \A i \in Job : (jobState'[i] = "queued") <=> (i \in Range(queue'))
    BY <1>3, <2>1, <2>3, <2>4 DEF JobsInv, JobsConserved, TypeOK
  <2>8. \A i \in Job : (jobState'[i] = "running") <=> (\E v \in Worker : i \in held'[v])
    BY <1>1, <1>3, <2>1 DEF JobsInv, JobsConserved, TypeOK
  <2>9. \A u, v \in Worker : u # v => held'[u] \cap held'[v] = {}
    BY <1>1, <1>3, <2>6 DEF JobsInv, JobsConserved, TypeOK
  <2>10. HeldByRunning'
    BY <1>3 DEF JobsInv, HeldByRunning, TypeOK
  <2> QED
    BY <2>5, <2>7, <2>8, <2>9, <2>10 DEF JobsInv, JobsConserved
<1> QED
  BY <1>2, <1>3 DEF Test

LEMMA FinishedJob ==
    ASSUME TypeOK, JobsInv, NEW w \in Worker, Finish(w)
    PROVE  JobsInv'
<1>1. /\ queue' = queue /\ held' = [held EXCEPT ![w] = {}]
      /\ jobState' = [j \in Job |-> IF j \in held[w] THEN "done" ELSE jobState[j]]
      /\ \A v \in Worker \ {w} : pc'[v] = pc[v]
  BY DEF Finish, TypeOK
<1>2. \A j \in Job : j \in held[w] => jobState[j] = "running" /\ j \notin Range(queue)
  BY DEF JobsInv, JobsConserved
<1>3. \A j \in Job : (jobState'[j] = "queued") <=> (j \in Range(queue'))
  BY <1>1, <1>2 DEF JobsInv, JobsConserved
<1>4. \A j \in Job : (jobState'[j] = "running") <=> (\E v \in Worker : j \in held'[v])
  BY <1>1, <1>2 DEF JobsInv, JobsConserved, TypeOK
<1>5. \A u, v \in Worker : u # v => held'[u] \cap held'[v] = {}
  BY <1>1 DEF JobsInv, JobsConserved, TypeOK
<1>6. HeldByRunning'
  BY <1>1 DEF JobsInv, HeldByRunning, TypeOK
<1> QED
  BY <1>1, <1>3, <1>4, <1>5, <1>6 DEF JobsInv, JobsConserved

(* Resizing and broadcasts leave workers that run a job alone. *)
LEMMA RunningStays ==
    ASSUME TypeOK, NEW w \in Worker, Resize(w) \/ Unlist(w), NEW v \in Worker, pc[v] = "run"
    PROVE  pc'[v] = "run"
<1>1. CASE Unlist(w)
  BY <1>1 DEF Unlist, TypeOK
<1>2. CASE Resize(w)
  <2>1. pc[w] = "resize" /\ v # w
    BY <1>2 DEF Resize
  <2>2. CASE Grow(w) /\ MayGrow
    <3>1. PICK n \in {x \in Worker : pc[x] = "off"} :
             pc' = Broadcast([pc EXCEPT ![w] = "top", ![n] = "top"])
      BY <2>2 DEF Grow
    <3> QED
      BY <2>1, <3>1 DEF Broadcast, TypeOK
  <2>3. CASE \/ pc' = Broadcast([pc EXCEPT ![w] = "top"])
             \/ pc' = [pc EXCEPT ![w] = "top"]
    BY <2>1, <2>3 DEF Broadcast, TypeOK
  <2> QED
    BY <1>2, <2>2, <2>3 DEF Resize, Grow, Shrink
<1> QED
  BY <1>1, <1>2

LEMMA JobsInit == Init => JobsInv
BY DEF Init, JobsInv, JobsConserved, HeldByRunning, Range

LEMMA JobsStep == TypeOK /\ JobsInv /\ [Next]_vars => JobsInv'
<1> SUFFICES ASSUME TypeOK, JobsInv, [Next]_vars PROVE JobsInv'
  OBVIOUS
<1>1. CASE UNCHANGED vars
  BY <1>1, SameJobs DEF vars
<1>2. CASE \E j \in Job : Submit(j)
  <2>1. PICK j \in Job : Submit(j)
    BY <1>2
  <2>2. CASE AddWork(j)
    <3>1. /\ UNCHANGED <<queue, held, pc>> /\ jobState[j] = "idle"
          /\ \E s \in {"denied", "adding"} : jobState' = [jobState EXCEPT ![j] = s]
      BY <2>2 DEF AddWork, workerVars
    <3> QED
      BY <3>1 DEF JobsInv, JobsConserved, HeldByRunning, TypeOK, Range
  <2>3. CASE QueueSignal(j)
    <3>1. \A w \in Worker : pc[w] = "run" => pc'[w] = "run"
      BY <2>3 DEF QueueSignal, SignalWork, Sleeping, TypeOK
    <3> QED
      BY <2>3, <3>1, SameJobs DEF QueueSignal
  <2> QED
    BY <2>1, <2>2, <2>3, AddedJob DEF Submit
<1>3. CASE \E w \in Worker : WorkerStep(w) \/ SpuriousWake(w)
  <2>1. PICK w \in Worker : WorkerStep(w) \/ SpuriousWake(w)
    BY <1>3
  <2>2. CASE \/ Cancelled(w) \/ Begin(w) \/ Enter(w) \/ Sleep(w) \/ SpuriousWake(w)
             \/ ReadSize(w) \/ SignalExit(w)
    <3>1. UNCHANGED <<queue, jobState, held>>
      BY <2>2 DEF Cancelled, Begin, Enter, Sleep, SpuriousWake, ReadSize, SignalExit, queueVars
    <3>2. \A v \in Worker : pc[v] = "run" => pc'[v] = "run"
      BY <2>2 DEF Cancelled, Begin, Enter, Sleep, SpuriousWake, ReadSize, SignalExit, TypeOK
    <3> QED
      BY <3>1, <3>2, SameJobs
  <2>3. CASE Resize(w) \/ Unlist(w)
    <3>1. UNCHANGED <<queue, jobState, held>>
      BY <2>3 DEF Resize, Unlist, queueVars
    <3> QED
      BY <2>3, <3>1, RunningStays, SameJobs
  <2> QED
    BY <2>1, <2>2, <2>3, TakenJob, FinishedJob DEF WorkerStep
<1>4. CASE Shutdown \/ DestroyStep
  <2>1. UNCHANGED <<queue, jobState, held>> /\ pc' \in {pc, Broadcast(pc)}
    BY <1>4 DEF Shutdown, DestroyStep, MarkAll, Poll, WaitRound, EndRound, CancelAll, Drained,
                GiveUp, Free, queueVars, workerVars
  <2> QED
    BY <2>1, SameJobs DEF Broadcast
<1> QED
  BY <1>1, <1>2, <1>3, <1>4 DEF Next

(* A job that was accepted is in the queue once, or with the one worker that   *)
(* runs it, or done: for any number of workers that wake for it, that are      *)
(* started and that are told to die meanwhile.                                 *)
THEOREM NoneLostOrRepeated == Spec => []JobsConserved
<1>1. JobsInv => JobsConserved
  BY DEF JobsInv
<1> QED
  BY <1>1, TypeInit, TypeStep, JobsInit, JobsStep, PTL DEF Spec
-----------------------------------------------------------------------------
(* A pool that the shutdown finds staffed, and that winds down by itself,      *)
(* leaves nothing behind: the last worker to leave its loop saw the queue      *)
(* empty, and nothing is queued after the shutdown (LeftDrained).              *)
LEMMA DrainInit == Init => DrainInv
<1> SUFFICES ASSUME Init PROVE DrainInv
  OBVIOUS
<1>1. PICK first \in [1 .. MinSize -> Worker] :
         /\ threads = first
         /\ pc = [w \in Worker |-> IF \E n \in 1 .. MinSize : first[n] = w THEN "top" ELSE "off"]
  BY DEF Init
<1>2. ListedUntilEnd
  BY <1>1, PoolAssumption DEF ListedUntilEnd, Listed, Range
<1> QED
  BY <1>2 DEF Init, DrainInv, LeftDrained

(* Taking one entry of a list out leaves the others in. *)
LEMMA RemoveAtKeeps ==
    ASSUME NEW S, NEW s \in Seq(S), NEW n \in 1 .. Len(s),
           NEW x \in Range(s), x # s[n]
    PROVE  x \in Range(RemoveAt(s, n))
<1> DEFINE a == SubSeq(s, 1, n - 1)
           b == SubSeq(s, n + 1, Len(s))
<1>1. a \in Seq(S) /\ b \in Seq(S) /\ Len(a) = n - 1 /\ Len(b) = Len(s) - n
  OBVIOUS
<1>2. \A m \in 1 .. n - 1 : a[m] = s[m]
  OBVIOUS
<1>3. \A m \in n + 1 .. Len(s) : m - n \in 1 .. Len(b) /\ b[m - n] = s[m]
  OBVIOUS
<1>4. Range(a \o b) = Range(a) \cup Range(b)
  BY <1>1, RangeConcatenation
<1>5. PICK m \in 1 .. Len(s) : s[m] = x
  BY DEF Range
<1>6. CASE m < n
  <2>1. m \in 1 .. n - 1 /\ m \in DOMAIN a
    BY <1>1, <1>6
  <2> QED
    BY <1>2, <1>4, <1>5, <2>1 DEF Range, RemoveAt
<1>7. CASE m > n
  <2>1. m - n \in DOMAIN b /\ b[m - n] = x
    BY <1>1, <1>3, <1>5, <1>7
  <2> QED
    BY <1>4, <2>1 DEF Range, RemoveAt
<1> QED
  BY <1>5, <1>6, <1>7

(* Nothing is queued, and nobody joins the pool or comes back to it. *)
LEMMA SameDrain ==
    ASSUME DrainInv, UNCHANGED <<threads, queue, shuttingdown>>,
           MayBeCanceled => MayBeCanceled',
           \A w \in Worker : /\ pc[w] \in {"off", "signal"} => pc'[w] \in {"off", "signal"}
                             /\ Gone(w)' => Gone(w)
    PROVE  DrainInv'
BY DEF DrainInv, ListedUntilEnd, LeftDrained, Listed

(* Waking sleepers is such a step. *)
LEMMA WokenDrain ==
    ASSUME DrainInv, UNCHANGED <<threads, queue, shuttingdown>>,
           MayBeCanceled => MayBeCanceled',
           \A w \in Worker : pc'[w] = pc[w] \/ (pc[w] = "wait" /\ pc'[w] = "awake")
    PROVE  DrainInv'
BY SameDrain DEF Gone

LEMMA SubmitDrain ==
    ASSUME TypeOK, DrainInv, NEW j \in Job, Submit(j)
    PROVE  DrainInv'
<1>1. CASE AddWork(j)
  BY <1>1, WokenDrain DEF AddWork, workerVars, destroyVars, MayBeCanceled
<1>2. CASE QueueAdd(j)
  <2>1. UNCHANGED <<threads, canceled, pc, shuttingdown>> /\ (shuttingdown => UNCHANGED queue)
    BY <1>2 DEF QueueAdd, RefusesJobs, workerVars, destroyVars
  <2> QED
    BY <2>1 DEF DrainInv, ListedUntilEnd, LeftDrained, Listed, Gone, MayBeCanceled
<1>3. CASE QueueSignal(j)
  <2>1. UNCHANGED <<threads, queue, shuttingdown, canceled>>
    BY <1>3 DEF QueueSignal, destroyVars
  <2>2. \A w \in Worker : pc'[w] = pc[w] \/ (pc[w] = "wait" /\ pc'[w] = "awake")
    <3>1. CASE pc' = pc
      BY <3>1
    <3>2. CASE pc' # pc
      <4>1. PICK v \in Worker : pc[v] = "wait" /\ pc' = [pc EXCEPT ![v] = "awake"]
        BY <1>3, <3>2 DEF QueueSignal, SignalWork, Sleeping
      <4> QED
        BY <4>1 DEF TypeOK
    <3> QED
      BY <3>1, <3>2
  <2> QED
    BY <2>1, <2>2, WokenDrain DEF MayBeCanceled
<1> QED
  BY <1>1, <1>2, <1>3 DEF Submit

(* A pool is resized before the shutdown only, and a new worker is listed. *)
LEMMA ResizeDrain ==
    ASSUME TypeOK, DrainInv, NEW w \in Worker, Resize(w)
    PROVE  DrainInv'
<1> DEFINE back == [pc EXCEPT ![w] = "top"]
<1>1. /\ pc[w] = "resize" /\ threads \in Seq(Worker)
      /\ UNCHANGED <<queue, shuttingdown>>
  BY DEF Resize, TypeOK, queueVars, destroyVars
<1>2. CASE Grow(w) /\ MayGrow
  <2>1. PICK n \in {x \in Worker : pc[x] = "off"} :
           /\ threads' = <<n>> \o threads
           /\ pc' = Broadcast([pc EXCEPT ![w] = "top", ![n] = "top"])
    BY <1>2 DEF Grow
  <2>2. Range(threads') = {n} \cup Range(threads)
    <3> DEFINE one == <<n>>
    <3>1. one \in Seq(Worker) /\ Range(one) = {n}
      BY DEF Range
    <3>2. threads' = one \o threads
      BY <2>1
    <3> HIDE DEF one
    <3> QED
      BY <1>1, <3>1, <3>2, RangeConcatenation
  <2>3. \A v \in Worker : pc'[v] \notin {"off", "signal"} => v = n \/ pc[v] \notin {"off", "signal"}
    BY <1>1, <2>1 DEF Broadcast, TypeOK
  <2>4. ListedUntilEnd'
    BY <2>2, <2>3 DEF DrainInv, ListedUntilEnd, Listed
  <2>5. ~shuttingdown'
    BY <1>1, <1>2 DEF MayGrow
  <2> QED
    BY <2>4, <2>5 DEF DrainInv, LeftDrained
<1>3. CASE pc' \in {back, Broadcast(back)} /\ UNCHANGED <<threads, canceled>>
  <2>1. \A v \in Worker : /\ pc[v] \in {"off", "signal"} => pc'[v] \in {"off", "signal"}
                          /\ Gone(v)' => Gone(v)
    BY <1>1, <1>3 DEF Broadcast, Gone, TypeOK
  <2> QED
    BY <1>1, <1>3, <2>1, SameDrain DEF MayBeCanceled
<1>4. CASE Grow(w) /\ ~MayGrow
  BY <1>3, <1>4 DEF Grow
<1>5. CASE Shrink(w) /\ UNCHANGED <<threads, canceled>>
  BY <1>3, <1>5 DEF Shrink
<1> QED
  BY <1>2, <1>3, <1>4, <1>5 DEF Resize

LEMMA WorkerDrain ==
    ASSUME TypeOK, DrainInv, NEW w \in Worker, WorkerStep(w) \/ SpuriousWake(w)
    PROVE  DrainInv'
<1>1. CASE \/ Begin(w) \/ Enter(w) \/ Sleep(w) \/ SpuriousWake(w) \/ Finish(w) \/ ReadSize(w)
           \/ SignalExit(w)
  <2>1. UNCHANGED <<threads, queue, shuttingdown, canceled>>
    BY <1>1 DEF Begin, Enter, Sleep, SpuriousWake, Finish, ReadSize, SignalExit, queueVars,
                destroyVars
  <2>2. \A v \in Worker : /\ pc[v] \in {"off", "signal"} => pc'[v] \in {"off", "signal"}
                          /\ Gone(v)' => Gone(v)
    BY <1>1 DEF Begin, Enter, Sleep, SpuriousWake, Finish, ReadSize, SignalExit, Gone, TypeOK
  <2> QED
    BY <2>1, <2>2, SameDrain DEF MayBeCanceled
<1>2. CASE Cancelled(w)
  <2>1. /\ UNCHANGED <<threads, queue, shuttingdown, canceled>> /\ canceled[w]
        /\ pc[w] = "top" /\ pc' = [pc EXCEPT ![w] = "end"]
    BY <1>2 DEF Cancelled, queueVars, destroyVars
  <2>2. MayBeCanceled'
    BY <2>1 DEF MayBeCanceled
  <2> QED
    BY <2>1, <2>2 DEF DrainInv, ListedUntilEnd, LeftDrained, Listed, TypeOK
<1>3. CASE Test(w)
  <2>1. UNCHANGED <<threads, shuttingdown, canceled>> /\ pc[w] = "test"
    BY <1>3 DEF Test, destroyVars
  <2>2. CASE queue = <<>> /\ pc' = [pc EXCEPT ![w] = "end"] /\ UNCHANGED queue
    BY <2>1, <2>2 DEF DrainInv, ListedUntilEnd, LeftDrained, Listed, TypeOK
  <2>3. CASE pc' \in {[pc EXCEPT ![w] = "sleepy"], [pc EXCEPT ![w] = "run"]}
    <3>1. pc'[w] \in {"sleepy", "run"} /\ \A v \in Worker \ {w} : pc'[v] = pc[v]
      BY <2>3 DEF TypeOK
    <3> QED
      BY <2>1, <3>1 DEF DrainInv, ListedUntilEnd, LeftDrained, Listed, Gone
  <2> QED
    BY <1>3, <2>2, <2>3 DEF Test, LeavesEmptyQueueOnly
<1>4. CASE Resize(w)
  BY <1>4, ResizeDrain
<1>5. CASE Unlist(w)
  <2>1. PICK n \in DOMAIN threads : threads[n] = w /\ threads' = RemoveAt(threads, n)
    BY <1>5 DEF Unlist
  <2>2. /\ pc[w] = "end" /\ pc' = [pc EXCEPT ![w] = "signal"]
        /\ UNCHANGED <<queue, shuttingdown, canceled>>
    BY <1>5 DEF Unlist, queueVars, destroyVars
  <2>3. threads \in Seq(Worker) /\ n \in 1 .. Len(threads)
    BY <2>1, LenProperties DEF TypeOK
  <2>4. \A v \in Listed : v # w => v \in Listed'
    BY <2>1, <2>3, RemoveAtKeeps DEF Listed
  <2>5. ListedUntilEnd'
    BY <2>2, <2>4 DEF DrainInv, ListedUntilEnd, TypeOK
  <2>6. \A v \in Worker : Gone(v)' => Gone(v)
    BY <2>2 DEF Gone, TypeOK
  <2> QED
    BY <2>2, <2>5, <2>6 DEF DrainInv, LeftDrained, MayBeCanceled
<1> QED
  BY <1>1, <1>2, <1>3, <1>4, <1>5 DEF WorkerStep

(* What the shutdown finds is the one place that needs the pool staffed. *)
LEMMA DestroyDrain ==
    ASSUME TypeOK, DrainInv, Staffed, Shutdown \/ DestroyStep
    PROVE  DrainInv'
<1>1. CASE Shutdown
  <2>1. UNCHANGED <<threads, queue, canceled, pc>> /\ (shuttingdown => UNCHANGED shuttingdown)
    BY <1>1 DEF Shutdown, queueVars, workerVars, TypeOK
  <2>2. CASE shuttingdown
    BY <2>1, <2>2, WokenDrain DEF MayBeCanceled
  <2>3. CASE ~shuttingdown
    <3>1. PICK w \in Worker : ~Gone(w)
      BY <2>3 DEF Staffed
    <3> QED
      BY <2>1, <3>1 DEF DrainInv, ListedUntilEnd, LeftDrained, Listed, Gone
  <2> QED
    BY <2>2, <2>3
<1>2. CASE DestroyStep
  <2>1. UNCHANGED <<threads, queue, shuttingdown>> /\ pc' \in {pc, Broadcast(pc)}
    BY <1>2 DEF DestroyStep, MarkAll, Poll, WaitRound, EndRound, CancelAll, Drained, GiveUp,
                Free, queueVars, workerVars
  <2>2. \A w \in Worker : canceled[w] => canceled'[w]
    BY <1>2 DEF DestroyStep, MarkAll, Poll, WaitRound, EndRound, CancelAll, Drained, GiveUp,
                Free, queueVars, workerVars
  <2>3. \A w \in Worker : pc'[w] = pc[w] \/ (pc[w] = "wait" /\ pc'[w] = "awake")
    BY <2>1 DEF Broadcast, TypeOK
  <2> QED
    BY <2>1, <2>2, <2>3, WokenDrain DEF MayBeCanceled
<1> QED
  BY <1>1, <1>2

LEMMA DrainStep == TypeOK /\ DrainInv /\ Staffed /\ [Next]_vars => DrainInv'
<1> SUFFICES ASSUME TypeOK, DrainInv, Staffed, [Next]_vars PROVE DrainInv'
  OBVIOUS
<1>1. CASE UNCHANGED vars
  BY <1>1, WokenDrain DEF vars, MayBeCanceled
<1>2. CASE Next
  BY <1>2, SubmitDrain, WorkerDrain, DestroyDrain DEF Next
<1> QED
  BY <1>1, <1>2

(* However often it was resized, a pool that was never left without workers    *)
(* before the shutdown, and that has lost its last one with nobody cancelled,  *)
(* has executed every job it accepted.                                         *)
THEOREM DrainsClean == Spec => ([]Staffed => []CleanDrain)
<1>1. JobsInv /\ DrainInv => CleanDrain
  <2> SUFFICES ASSUME JobsInv, DrainInv, shuttingdown, threads = <<>>, ~MayBeCanceled
               PROVE  queue = <<>> /\ \A j \in Job : jobState[j] # "running"
    BY DEF CleanDrain
  <2>1. \A w \in Worker : pc[w] \in {"off", "signal"}
    BY DEF DrainInv, ListedUntilEnd, Listed, Range
  <2>2. queue = <<>>
    BY <2>1 DEF DrainInv, LeftDrained, Gone
  <2>3. \A w \in Worker : held[w] = {}
    BY <2>1 DEF JobsInv, HeldByRunning
  <2> QED
    BY <2>2, <2>3 DEF JobsInv, JobsConserved
<1>2. Init => TypeOK /\ JobsInv /\ DrainInv
  BY TypeInit, JobsInit, DrainInit
<1>3. TypeOK /\ [Next]_vars => TypeOK'
  BY TypeStep
<1>4. TypeOK /\ JobsInv /\ [Next]_vars => JobsInv'
  BY JobsStep
<1>5. TypeOK /\ DrainInv /\ Staffed /\ [Next]_vars => DrainInv'
  BY DrainStep
<1> QED
  BY <1>1, <1>2, <1>3, <1>4, <1>5, PTL DEF Spec
=============================================================================
