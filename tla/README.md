# Models and proofs of chan-sccp

chan-sccp is an Asterisk channel driver for Cisco phones that speak SCCP. This
directory holds TLA+ models of the parts of it whose correctness depends on the
order in which threads, messages and timeouts meet, the TLC configurations that
check them on small instances, and proofs that TLAPS checks for instances of
every size. Source paths below are relative to the repository; the driver is
in `src/src/`.

Contents: [the system](#the-system), [modules](#modules-and-the-code-they-model),
[runs](#runs-and-bounds), [fairness](#fairness), [proofs](#proofs),
[what the code does not keep](#what-the-source-says-and-the-code-does-not-keep),
[only model-checked](#only-model-checked), [not modelled](#not-modelled),
[plan](#plan).

## The system

The driver is one process of many threads: one accept thread, one thread per
phone connection, the two or more workers of a pool, a reaper, scheduler
callbacks, and the threads of the PBX that call into it. Most of its state is in
reference counted objects (devices, lines, line devices, channels, conferences),
each with locked lists, and in global lists behind their own locks.

| component | state | operations | talks to |
|---|---|---|---|
| thread pool (`sccp_threadpool.c`) | job queue, worker list, `die`, `shuttingdown` | add work, worker loop, resize, destroy | everything that works in the background: events, parking lots, hints |
| reference counting (`sccp_refcount.c`) | hash table of lists, count and `alive` mark of an object, quarantine | allocate, retain, release, reap, shut down | every object |
| sessions (`sccp_session.c`) | `GLOB(sessions)`, `session_stop`, thread id, device, requests in flight | accept, read and dispatch, end from another thread, clean up, time out | registration, media, transport |
| registration (`sccp_actions.c`) | registration state, token | token, register, unregister, keepalive | session, device |
| devices (`sccp_device.c`) | `device->session`, pending update and delete, buttons | clean, restart, reload, post registration | sessions, lines, parking lots, events |
| parking lots (`sccp_featureParkingLot.c`) | lots, observers, slots, pending notification, notifications in flight | attach, detach, press, park, unpark, notify | pool, device buttons, PBX |
| media (`sccp_channel.c`, `sccp_rtp.c`, parts of `sccp_actions.c`, `sccp_pbx.c`, `sccp_indicate.c`) | states of reception and transmission, callback, address, channel state | open, close, start, stop, acknowledgements, answer, hold, resume, end, hang up | phone, session, PBX |
| call control (rest of `sccp_channel.c`, `sccp_pbx.c`) | channels of a device, timers | dial, transfer, forward, scheduled hangup | media, PBX |
| lines (`sccp_line.c`, `sccp_linedevice.c`) | `GLOB(lines)`, devices of a line | create, attach, detach, clean | registration, devices, events |
| events (`sccp_event.c`) | subscribers of each type | subscribe, unsubscribe, fire at once or by the pool | lines, message waiting, hints |
| message waiting (`sccp_mwi.c`) | subscriptions of lines to mailboxes | create, remove, notify | events, PBX |
| hints (`sccp_hint.c`, `sccp_devstate.c`) | state of a line and who is told | combine, notify | PBX, channels |
| conferences (`sccp_conference.c`) | participants, moderators | join, leave, end | call control, PBX |
| features, soft keys (`sccp_feature*.c`, `sccp_softkeys.c`) | features of a device | pickup, barge, forward, do not disturb | call control |
| codecs (`sccp_codec.c`) | none | intersection, preference | media |
| configuration, command line, web (`sccp_config.c`, `sccp_cli.c`, ...) | parsed options | load, reload, show | everything |
| PBX glue (`pbx_impl/`) | none of its own | callbacks | PBX |

What is hard in this code, and what makes each part correct:

- **Pool.** A submitter, a worker that tests and sleeps, a worker that resizes
  the pool and the thread that destroys it interleave on two locks that are never
  nested. Correct: nothing is lost, nothing runs twice, nothing sleeps for ever
  with work queued, destroy returns.
- **Reference counting.** Atomics outside the locks, a table whose lists come and
  go, a reaper, a shutdown with users still there. Correct: a count is the number
  of references, an object is destroyed exactly once and not while it is held.
- **Sessions and registration.** A phone reconnects while its old connection
  lives; both, and a reload, end each other's threads. Correct: one ends another,
  nobody waits in a circle, no device refers to a dead session, all of it ends.
- **Parking lots.** A notification has to give up the lock of a lot to talk to a
  phone, and the lot can lose its last observer meanwhile. Correct: no use after
  free, no lock circle, no change lost.
- **Media.** The phone answers late, refuses, or never answers; the user and the
  PBX act on the call before it does. Correct: both ends agree, nobody talks into
  a held or dead call, nobody hangs.
- **Lines, events, message waiting.** The creation of a line is told by a job of the
  pool, its removal at once, the last phone of a realtime line removes it from
  inside the removal of the phone, and the PBX calls back on threads of its own.
  Correct: a line lives while anything refers to it and no longer, and a line in
  use shows what its mailbox holds.
- **Calls, hints, conferences.** Scheduled timers against the user; state
  recombined from several channels.

`PROJECT.json` lists the hazards with the source line and the properties that
cover each.

## Modules and the code they model

Common conventions. A thread has a program counter (`pc`) or a stack of what it
has yet to do (`todo`); an action is what one thread does between two points
where another can interfere. Critical sections are one step unless a lock is
itself at issue, and then the lock is a variable. Time is abstract: a timeout is a
choice. The PBX, the phone and its user do anything the code accepts from them.

### ThreadPool (`sccp_threadpool.c`)

| code | model |
|---|---|
| `sccp_threadpool_add_work`, `_jobqueue_add` | `AddWork` (unlocked test), `QueueAdd` (with the lock), `QueueSignal` (after it) |
| `sccp_threadpool_thread_do` | `Cancelled`, `Begin`, `Enter`, `Test`, `Sleep`, `SpuriousWake`, `Finish` |
| `sccp_threadpool_check_size`, `_grow`, `_shrink` | `ReadSize` then `Resize` |
| `sccp_threadpool_thread_end` | `Unlist`, then `SignalExit` outside the lock |
| `sccp_threadpool_destroy` | `Shutdown`, `MarkAll`, `Poll`, `WaitRound`, `EndRound`, `CancelAll`, `Drained`, `GiveUp`, `Free` |

The jobs lock is explicit (`jobsLock`), because a worker tests the queue and falls
asleep in two steps while holding it. Whether a resize interval has passed is a
choice. Allocation failures are left out.

### Refcount and ObjectLife (`sccp_refcount.c`)

`Refcount` has an action per critical section and per atomic operation of
allocate, retain and release, the reaper (`Reap`, `ReapOne`) and the phases of
`sccp_refcount_destroy` (stop, join, drain, sweep). Threads in `Raw` also retain
through pointers for which they hold neither a lock nor a reference, as some
callers do; the others keep the rules at the head of the file. `ObjectLife` is
what those rules promise to a user (absent, live, dead, gone; acquired only when
live); `LifeSpec` is the claim that `Refcount` implements it, with the life of an
object read off its count and its destruction. An address is not reused.

### Registration (`sccp_session.c`, `sccp_actions.c`, `sccp_device.c`, `chan_sccp.c`)

One device and the connections of its phone, each with its thread, and an
administrator who reloads (`sccp reload` or `module reload`) or unloads. Ending a
thread from another one is the protocol of `__sccp_netsock_end_device_thread`:
`Take` the id under the session lock, `Cancel`, `Await` the semaphore or
`AwaitTimesOut` after five seconds. It is a subroutine of several handlers (token,
register, cross-device cleanup, cleaning, unloading), and `ret`, `back` and `peer`
are its return addresses and argument; cleaning a device (`_sccp_dev_clean`) is
another. `World` says what else may happen: the phone vanishes, sends fail, calls
come and go, a user is impatient. `Timeouts` are the threads whose five seconds may
run out.

### ParkingLot (`sccp_featureParkingLot.c`)

The locks of the button configuration, of the list of lots (readers, writer) and
of each lot are variables. Phones attach, are notified when they attach, press
and close the window; cleaners detach; the PBX parks and unparks; workers run
the coalesced job of `notifyWorker` and give up the lot while they talk to a
phone (`_notifyHelper`, counted by `inflight`). A lot is an address that can be
allocated again.

### Media (`sccp_channel.c`, `sccp_rtp.c`, `sccp_actions.c`, `sccp_session.c`, `sccp_pbx.c`, `sccp_indicate.c`)

One call, its session thread, a PBX thread, and the phone. Operations nest
(answer indicates, indicating opens, opening sends), so what a thread has yet to
do is a stack of steps: `Open` pushes `OpenMark` and `OpenSend`, `Close` pushes
`Closed`, and so on; a step ends where the other thread may read or write the
same field. A step that asks `pbx_check_hangup_locked` waits for the lock of the
PBX channel. Messages are two FIFO queues, as on TCP. Acknowledgements find their
channel by its call (`Found`), and one that finds none closes the stream again
(`CloseLate`). `inflight` is `requestsInFlight`, awaited by a hangup for at most
five seconds with the channel locked (`Waited`, `TimesOut`). A stream state is a set
of flags, since `sccp_rtp_appendState` adds to what is there.

### Mailboxes (`sccp_line.c`, `sccp_linedevice.c`, `sccp_event.c`, `sccp_mwi.c`)

The composition of three components along the life of a realtime line.

| code | model |
|---|---|
| `sccp_make_button_template`, `sccp_line_find_byname` | `Register` |
| `sccp_line_find_realtime_byname`, `sccp_line_create`, `sccp_line_addToGlobals` | `Refused`, `Create`, `List` (which leaves the event as a job) |
| `sccp_linedevice_create`, `sccp_linedevice_remove` | `Attach`, `RemoveDevice` (the last one goes on to clean the line with `line->devices` locked), `Unlock` |
| `_sccp_dev_clean` | `Clean`, `Forget` |
| `sccp_line_post_reload`, `sccp_line_clean` | `Delete`, `Purge`, `CleanLine` |
| `sccp_event_processor`, `sccp_event_destroy` | `Take`, `Put` |
| `createSubscription` | `Subscribe` (the list), `Watch` (the PBX) |
| `removeSubscription` | `Destroyed` (the list), `Unsubscribe`, `Join`, `Free` |
| `sccp_line_removeFromGlobals` | `Unlist` |
| `pbx_mwi_event`, `NotifyLine` | `Deliver`, `Notify` (with `line->devices` locked) |

All lines of a behaviour have one name: two lines are two allocations of it. A
reload finds the line deleted from the database (`Delete`); that cleaning contains a
second one, by the removal of the last device. What the PBX owes (`Publish`, the
queue of each subscription, unsubscribing that waits for it) is taken from how the
driver uses it.

## Runs and bounds

| run | instance | shows |
|---|---|---|
| `pool_safety` | 3 workers, 4 jobs, sizes 1 to 2 | `TypeOK`, `AllMarked`, `NoLostWakeup`, `JobsConserved`, `NoNewJobsAfterShutdown` |
| `pool_fixed` | 2 workers, 2 jobs, size 2 | `CleanDrain`, `JobsComplete`, `DestroyReturns` |
| `refcount_rules` | 2 objects in one list, 2 threads, one of them raw, reaper or not | `TypeOK`, `CountsMatch`, `HeldNotDestroyed`, `DestroyedOnce`, `BucketsWhole` |
| `refcount_reclaim` | 2 objects in lists of their own, no raw thread | `Reclaimed`, `LifeSpec` (refinement) |
| `refcount_registered` | 2 objects in one list | `Registered` is violated |
| `registration_reload` | 2 connections, 1 reload of either kind, failed sends, timeouts of the administrator | `TypeOK`, `NoDangling`, `OneEnder`, `NoCircle` |
| `registration_ends` | 2 connections; or 1 that meets 2 reloads of either kind, refused ones, an unload and calls; phones that vanish, timeouts of the administrator | `StoppedEnds`, `SilentEnds`, `ReloadEnds`, `UnloadEnds`, `Postponed` |
| `registration_restarted` | 1 connection, 2 reloads by the command, calls | `Restarted` is violated |
| `parking_safety` | 1 device with phone and cleaner, 1 parker, 2 workers, 2 addresses, 1 slot | `TypeOK`, `StillListed`, `OneLotPerContext`, `NoLockCircle`, `NoChangeMissed` |
| `media_calls` | ringing call, 4 keys, hangup, phone that agrees | `TypeOK`, `Silent`, `TwoWay`, `Agreement`, `AddressKnown` |
| `media_outbound` | ringing or dialed call, 1 key, 2 operations of the PBX, a phone that refuses, streams that fail | `TwoWay`, `HangupReturns`, `AnswerEnds` |
| `mailboxes_line` | 2 phones, 1 worker, a reload, 2 allocations of the line, 2 registrations, 1 change of the mailbox | `TypeOK`, `KeptWhileUsed`, `Informed` |

Why the bounds are enough for the cases that matter:

- *Pool.* One thread more than the maximum size lets a new worker start while an
  old one is leaving; four jobs exceed what the workers hold and leave two queued,
  which is where growing is decided. The fixed pool (`MinSize = MaxSize`) is the
  setting in which a promise about every job can be made: a resizable pool may
  lose its last worker (below). Of `CleanDrain` the proof covers pools that grow and
  shrink, as long as a worker is left.
- *Refcount.* Two objects in one list are what makes a list non-empty again
  between test and lock; two threads with `MaxRefs` 2 let a thread hold an object
  both ways and release it while the other retains. With lists of their own the
  liveness question does not meet the lost first allocation (below).
- *Registration.* Two connections already take the device from each other in both
  orders; a circle of any length is excluded by proof. For safety one reload of
  either kind meets every step of both connections and every failed send. What
  becomes of a postponed restart takes two reloads, so `registration_ends` and
  `registration_restarted` have two, one after the other; one that comes while the
  first is under way is refused (`ReloadRefused`), which is in `registration_ends`.
  That run leaves out the product of everything (`Calm` in `MCRegistration`): a
  second connection comes before any reload, unload or call, and a phone that has
  vanished meets one reload. As a constraint `Calm` stops phones and the
  administrator's choices only, no step that fairness asks for, so no behaviour that
  the properties speak of is cut short.
- *Parking lot.* Two addresses are needed for a lot that is freed and created
  anew while a notification for the old one is in flight; `MaxWatch` and
  `MaxJobs` bound how often a device is attached and how many jobs wait. The
  proofs have no such bounds but the constants themselves.
- *Media.* `MaxKeys` 4 is answer, hold, resume and one more, before any of them
  was answered by the phone; `MaxOps` 2 is progress followed by the remote answer
  or a redirection. Two ports tell a new address from the one before. What the
  phone has been sent and not handled is not bounded: the keys bound it.

- *Mailboxes.* Two lines are what two phones can create at the same time, and what
  one phone leaves and finds; two registrations, one deletion by a reload and one
  change of the mailbox put each of them before, between and after the steps of a
  subscription. References are given up by decrementing, so a count that went below
  zero leaves `TypeOK`.

`CHECK_DEADLOCK FALSE` is set everywhere because every system here may stop: jobs
run out, a call is over, a phone goes away. The waits that must end are liveness
properties, and those that must not be circular are `NoCircle` and
`NoLockCircle`.

Symmetry is used in runs of invariants (and one action property) only, over
workers, jobs, objects of one list, connections, addresses, ports, lines, phones
and the contents of a mailbox, none of which the specifications tell apart.

## Fairness

- `ThreadPool!FairSpec`: the thread that unloads keeps running (its waits are timed,
  `sccp_threadpool.c:336-368`). Nothing is assumed of workers, which may block in a job;
  `JobsComplete` has the assumption that jobs return in its own premise.
- `Refcount!RunSpec`: a call that began goes on (no step of it blocks but on short
  critical sections) and the reaper wakes up four times a second
  (`sccp_refcount.c:289`).
- `Registration!Fairness`: weak fairness of each session thread and of the
  administrator's, each a running thread; phones, users and the choice to reload
  are not fair. Nor are the five seconds after which a waiter gives up
  (`AwaitTimesOut`): that they need not run out is part of what `UnloadEnds` and
  `Postponed` say. `StoppedEnds`, `SilentEnds` and `ReloadEnds` have it as a premise
  for the administrator (`TimeoutsEnd`), since `module reload` relies on it (below).
- `Media!FairSpec`: both threads run, and the PBX hangs up a channel that it was
  asked to hang up, which is what Asterisk does with a channel flagged for a soft
  hangup. The phone need not answer, except in the premise of `AnswerEnds`.

## Proofs

Each theorem is about every value of the constants allowed by the assumption named
in the module (`PoolAssumption`, `RefcountAssumption`, `RegistrationAssumption`,
`ParkingAssumption`, `MediaAssumption`, `MailboxesAssumption`).

**ThreadPoolProofs.** `TypeCorrect`; `WakeupsNotLost`; `QueueStaysClosed`;
`WorkersMarked`; `NoneLostOrRepeated` (`JobsConserved`); `DrainsClean` (`CleanDrain`). `NoLostWakeup` is not inductive: that a worker falls asleep only on
an empty queue rests on its holding the jobs lock from the test to the sleep, and
that nobody is cancelled rests on the shutdown. `WakeupInv` adds `LockHeld`,
`SleepsOnEmpty` and `CancelledLate`. `AllMarked` is inductive with the type and
`WakeupInv`; its heart is that `Resize` tests the shutdown flag under the lock
under which `MarkAll` walks the list. `QueueStaysClosed` is an action property: `QueueAdd` tests the flag
again with the lock held. `JobsConserved` is inductive with `HeldByRunning`: a worker
that takes a job holds no other one. `DrainsClean` is about pools of every size, which
grow and shrink: if a pool is never left without workers before the shutdown
(`[]Staffed`), a destroy that has cancelled nobody leaves no job behind. The premise is
needed, for the pool can lose its last worker (`NeverWithoutWorkers`, below).
`DrainInv` says that every worker is listed until it leaves, and that the queue is empty
once all have left after the shutdown: a worker that is not cancelled leaves only on an
empty queue, to which the shutdown lets nothing be added.

**RefcountProofs.** `NoneDestroyedTwice` follows from `PlaceInv`: an object is in one
place (with the one thread that allocates or disposes of it, in its list, in
quarantine, with the reaper, or destroyed) and only the last step counts a
destruction. The point is the unlinking under the list's lock: of any number of
threads that saw the count reach zero, one finds the object in the list.
`NoListLost` (`BucketsWhole`) follows from the second look under both locks.
`TypeCorrect`, `CountsAreReferences` (`CountsMatch`) and `HeldStays`
(`HeldNotDestroyed`) share `CountInv`. The count of an object in use is the number of
pairs of a thread and one of its references, and one for the list (`References`), so a
gain or a loss is one element more or less (`OneMore`, `OneLess`). Whoever takes the
count from one to zero had the only reference (`LastIsLast`); from there on the object
is in no list and held by readers of raw pointers at most (`DeadUnheld`), it is disposed
of only when killed (`DisposedDead`), and it does not come back, since only its
allocation sets the mark (`BeingMade`, `AliveOnce`). `RefinesObjectLife` is the
refinement: under `Raw = {}`, the premise of the run too (raw readers break the
promise, see `RetainedStays` below), `RunSpec` implies `LifeSpec`. While the table
runs, `RunInv` (`PlaceInv`, `CountInv`, `DeadCounts`, the shutdown not begun) holds, and
each step is, for each object, a birth (`Born`), a reference taken while live
(`Acquired`), one given up (`Dropped`), its reclamation (`Reclaims`) or nothing at all;
all other objects stutter. The number of lists does not matter to it.

**RegistrationProofs.** `IInv` conjoins `ControlOK` (control and its types),
`IdGone` (a thread id that was taken is gone), `OneEnder`, `CallsNest` (return
addresses of nested calls), `OwnerBound` (the owner of the device is bound and
not detached), `OwnerFree` (a thread that waits for another one does not own the
device) and `NoWaitCircle`. A circle is impossible because a thread only starts to
wait for the owner, having given up the device itself, and the owner waits for
nobody: `WaitsGrow` says that an edge is only added towards such a thread, and
`CircleStep` that this closes no circle. `EndedByOne`, `NeverDangles` and
`NeverACircle` follow, `TypeCorrect` from `ControlOK` and the types of the data.

**ParkingLotProofs.** `IInv` is `TypeOK`, `LockInv` (who is where holds which
lock) and `ListInv`: whoever walks the list holds it for reading, so the lots it
has yet to visit are listed; what is being freed is unlisted; what is in hand is
listed; and `TalkCount`, that `inflight` is the number of threads talking for
that lot, which needs cardinalities. `ListedIsAlive`, `OneLot` and `NeverACircle`
follow; the last by the order button configuration, list, lot: a thread in a
circle would have to hold a later lock and wait for an earlier one.

`NoChangeMissed` is the second half of that module. It needs `NameInv`: what each kind of
thread can be asked (`AskOK`, `BackOK`), that the lot in hand has the name that was
looked for (`FoundNamed`), that the lots walked past have another (`Passed`, so a job
that finds no lot had none to tell), and that a device only watches lots of its
configured name (`WatchedNamed`, so by `OneLot` at most one). A step that only keeps
who is to be told (`KeepsNews`) keeps the property. The others clear the flag with the
devices copied, read the present state (`LookNews`), change what is parked with the
flag set, or attach a phone that still has to be told. `NewsReachesAll` follows.

**MailboxesStacks.** How each thread of `Mailboxes` stands. A stack is read from the
bottom (`Below(t, k)`), which the next steps do not move. `StackInv` gives the possible
stacks of a phone that makes a line (`Making`), attaches to it (`Joining`) or is cleaned
(`Leaving`), of the reload and of a worker (`Telling`); `CleanStack` is a removal, which
may contain a second one of the same line: the reference it holds is at the bottom, and
a line that is told as destroyed is about to be unlisted. `StackKept` shows it
inductive. The rest says what an action does to the stacks: `Effect` (which step of
which line is on top, nothing else), and whether the references yet to be given up stay
the same (`Quietly`) or gain one (`Holding`).

**MailboxesProofs.** `IInv` is the type, `StackInv`, that a line is in the list and in
the queue of jobs once (`OnceInv`), and for each line `LineInv`: an unallocated line is
known to nobody (`Unmade`); being listed, told, subscribed and given to the PBX happen
once and in that order (`Ordered`); who took the subscription off the list ends it, alone,
and news only wait while the PBX has it or somebody waits for them (`Ended`); the
count is the number of buttons, devices, references to be given up by threads, and one
each for the list, the job and the subscription (`Counted`); and a listed line that is
not subscribed still has a job, a worker or its own removal coming, and the last news
queued is what the mailbox holds or says to look (`News`). An action changes one line
and keeps `LineInv` of the others (`OtherLine`); most change nothing but its users
(`CalmLine`, `Recount`). `TypeCorrect` (a count is never below zero), `LineKept`
(`KeptWhileUsed`) and `LinesInformed` (`Informed`) follow. The theorems have no bound on
phones, workers, lines, registrations or changes but the constants themselves, so they
hold for the orders of two removals and two jobs that the run is too small for.

**MediaProofs.** `TypeCorrect` needs `StackType` and `AckInv` (an acknowledgement is at
hand as long as a thread is to look at it); it says among others that `requestsInFlight`
never falls below zero, although a wait that gives up resets it and the answers that come
late are counted all the same. `PhoneSilent` (`Silent`) holds of every incoming call,
and of dialed calls that the PBX at most redirects; for a dialed call that the PBX
answers it is false (the hold described below), and for one that only progresses it
holds on instances and is not proved. Its invariant `SilentInv` starts from what a thread
may have left to do under the step it does next: `SessionStands` and `PbxStands` are the
places where one function calls another, and everything else rests on them. `LockInv` ties
the lock of the PBX channel to the stacks, `HangupInv`, `HoldInv` and `BoundInv` the
call to what a thread has left to do with it. `StreamInv` is the heart: if the phone has a
stream open, or will once it has read what is on its way (`MayReceive`, `MaySend`), the
call has its phone and the driver has recorded the stream, so closing does send the
message. It needs that a stream is closed at the phone before its record is reset or
the phone given up (`CloseInv`), that what an acknowledgement is about to record does not
erase an open stream (`ResultInv`), and that a hangup finds no thread about to start one
when it is done waiting (`PastInv`); the last rests on `CountInv`, that the requests in
flight are the openings and answers on their way and the one being handled. A start of the
transmission is not counted; it is in time because the session sends it before it counts
the answer it belongs to, or with the channel locked, and because five seconds only run out
when the session is idle or blocked.

**MediaStreamsProofs.** The agreement of driver and phone, of a call that nobody ends and
that was not redirected. Then no hangup has begun (`HangupInv`), and the session
thread is alone with the phone, whose answers come late, of several openings at once, and
are told apart by nothing. Each property of the quiet state is extended by what may still
be to come. `OpenInv`: a reception that was requested is open, or the message that opens
it or the answer that refuses it is on its way, or the session is closing it.
`AddressInv`: the last answer on its way tells the port of the phone, or there is none and
the session is about to take the port down, or has. So an early answer that is taken for a
later one does no lasting harm; `PortKnown` (`AddressKnown`) follows for every phone,
also one that refuses. `ShapeInv` and `DeviceInv` say which flags a reception can have,
and that a call with streams has its phone. For a phone that refuses nothing,
`AgreedInv`, `StartInv` and `ConnectInv` are added: a transmission that is recorded is
sending, or will be, and its acknowledgement is due, and a call that is connected has its
transmission, or the callback of the reception is set and the reception is not yet
active, or the step that runs the callback is next. `StreamsAgree` (`Agreement`) and
`HeardBothWays` (`TwoWay`) follow. They hold for every number of keys, openings and ports.
All three are under the premise of `PhoneSilent`, on whose invariant they build.

Out of reach of the prover, and checked by TLC only: liveness, anything with
`ENABLED`, and induction over data such as sequences of messages. No module uses
`RECURSIVE`.

## What the source says and the code does not keep

Two have a run that expects the violation:

- `Registered` (`sccp_refcount.c:428`). Two threads make the first allocation of a
  hash value. The second finds, under the lock, that the list exists, and leaves
  the branch that would have inserted its object. The object is never in the table.
- `Restarted` (`sccp_device.c:429`). `sccp reload` promises a changed phone in a call
  that its "reset will be postponed until device goes onhook" (`sccp_cli.c:3327`). A
  second reload during the call starts by clearing `pendingUpdate`, and reads the
  phone's section as the first one left it, which is no change (`sccp_config.c:2542-2546`):
  when the call ends the phone is not restarted. `Postponed` is what holds: only
  another reload forgets a recorded restart.

The others are definitions at the end of the modules, with the sentence they take
from the source. Each can be made an invariant or property of a run of the same
instance to see the trace.

| property | where | trace |
|---|---|---|
| `NothingFreedUnder` | `sccp_threadpool.c:214`, `:381` | a worker leaves the list; destroy sees it empty without the lock and frees the pool; the worker signals the pool's condition |
| `NeverShrinksItself`, `NeverWithoutWorkers` | `sccp_threadpool.c:158-192` | the size includes workers already told to die, so the pool marks one too many, itself included, and can be left with none |
| `AllJobsProcessed` | `sccp_threadpool.c:332`, `:376` | workers that do not finish in time are cancelled and what is queued is dropped |
| `RetainedStays` | `sccp_refcount.c:905` | a raw reader finds the object alive, its last reference is released, the reader increments the count of a dead object |
| `NoFreedBucket` | `sccp_refcount.c:443`, `:621` | a list is looked up, emptied and freed by another thread, then locked |
| `SweptAll` | `sccp_refcount.c:338`, `:370` | the first round of the sweep destroys the objects of the first type and frees every list; the objects of the other types are never looked at |
| `CancelsRunning` | `sccp_session.c:972-987` | the id taken under the lock is used after the detached thread has ended |
| `LocksWhole` | `sccp_session.c:695`, `:977` | a retained session's mutex is locked after the session destroyed it; the reference keeps the memory, not the mutex |
| `SparesTheLiving` | `sccp_actions.c:575-592` | a token request decides by a registration state it read before the other connection registered |
| `UpdateKept` | `sccp_cli.c:3063`, `:3322`, `chan_sccp.c:442`, `sccp_device.c:429` | a refused reload clears the flag of the one under way, whose changes are then not recorded; a second reload during a call forgets the restart (see `Restarted`) |
| `LampsRight` | `sccp_featureParkingLot.c:632` | two workers tell one phone of two successive states, the later one first |
| `NoneLeftBehind` | `sccp_featureParkingLot.c:413-435`, `sccp_device.c:2443-2454`, `:2583-2589` | a device cleaned before its registration attached it stays an observer |
| `AlreadyRunning` | `sccp_actions.c:3795` | after hold and resume the phone's agreement to the first transmission is taken for the answer to the second; when the phone, out of channels, refuses the second, that refusal is ignored on the ground that "the stream is already running" |
| `NoLeak` | `sccp_line.c:314`, `:154` | a line is removed before the job that tells of its creation has run: the job subscribes it afterwards, for good, and the subscription's reference keeps it |
| `NoneLost` | `sccp_mwi.c:274` | a subscription is on the list but not yet at the PBX; the removal takes it off and frees it; the PBX is then given the freed one |
| `OneLinePerName`, `NoneLeftBehind` | `sccp_line.c:111`, `sccp_device.c:2563` | two phones create the line at once and each is attached to its own; a phone that is cleaned looks its line up by name, and does not find the one it is on when another is first or a reload removed it |
| `NoDeadlock` | `sccp_linedevice.c:303`, `sccp_mwi.c:373` | the last phone leaves and waits, with `line->devices` locked, for the PBX to deliver; the delivery found a phone on the line and waits for that lock |

Three more were met and are excluded by a premise or a bound that names them:
`module reload` holds `GLOB(lock)` for the whole reload, and when it restarts a phone it
waits for a session thread that waits for that lock, until the five seconds run out; the
thread has not been cleaned up when the reload goes on (`chan_sccp.c:383`,
`sccp_session.c:847`). The source only promises a "bounded wait"
(`sccp_session.c:997`), which is the premise `TimeoutsEnd` of `ReloadEnds`; without
it TLC shows the reload waiting for ever. A redirection by
the PBX between recording and sending a start lets a stop overtake it
(`sccp_channel.c:1061-1062`; `~call.redirected` in the media properties); and
a hold that falls between recording and sending an opening for a dialed call
leaves the phone receiving (`media_outbound` has no hold). When the PBX refuses
the stream of an answered call nothing runs the callback that would complete the answer
(`sccp_channel.c:863-867`; `rtp.instance` in `AnswerEnds`).

## Only model-checked

All liveness properties: they rest on fairness, which is out of the prover's reach. The
media properties of a dialed call once the PBX makes progress with it or answers it, and of
a call that was redirected. `TwoWay` and `Agreement` with a phone that refuses, where they
are not always true: a phone that refuses because it is on the hook leaves a connected call
without streams, and with 6 keys TLC finds an ignored refusal as in `AlreadyRunning`.
`media_outbound` checks `TwoWay` with the refusal that ends the call, and one key.

## Not modelled

- *PBX glue* (`pbx_impl/`), about 35000 lines in a version for each release of Asterisk:
  callbacks without a protocol of their own. What they do to a call is in `Media`.
- *Configuration, command line, manager, web, labels, XML, debugging*: parsing,
  formatting and tables.
- *Transport*: sockets and TLS; what they report is an input of `Registration`.
- *Call control outside the media of a call*: transfer, forwarding, dialing, the
  timers of a channel. The timers are listed as hazards.
- *Features, soft keys, conferences, hints*: sequences of calls into call control.
- *Codec selection*: pure functions, planned.
- Within modelled parts: video, NAT, conferences in media; anonymous and realtime
  devices and a second device on a connection in registration; the window of a
  parking lot beyond its being sent and recorded; lines of the configuration file,
  the channels and capabilities of a line, several mailboxes, subscribing to events
  and the stopping of their modules in the mailboxes; allocation failures.
- Narrowed steps: `Media` puts a dialed call on hold only once it is connected, while
  `sccp_channel_hold` and `sccp_channel_resume` also accept one the PBX is proceeding
  with (`SCCP_CHANNELSTATE_PROCEED`, `sccp_channel.c:2083`, `:2166`). `Mailboxes` has
  the reload that deletes a line and not the one that only cleans a changed line
  (`sccp_line.c:87-90`), whose steps are some of the deletion's; and subscribing at the
  PBX and storing its handle are one step (`sccp_mwi.c:274`): a removal between the two,
  which frees a subscription the PBX keeps, is seen as one before both (`"lost"`, and
  `NoneLost` above).

## Plan

In the order of what they add:

1. The timers of a channel (`sccp_channel_sched*`): the flag that denies new tasks
   against the task that is being scheduled.
2. Hints: the state of a line recombined while channels come and go, against a
   reference definition.
3. Codec selection against a reference definition.
4. Proofs about dialed calls: `Silent` and the agreement of driver and phone while the PBX
   makes progress, with a second thread that opens streams.
