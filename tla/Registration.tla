---------------------------- MODULE Registration ----------------------------
(***************************************************************************)
(* One device and the connections its phone opens: src/src/sccp_session.c, *)
(* the token, register, unregister and dispatch code of sccp_actions.c,    *)
(* and the cleaning and reloading of a device in sccp_device.c.            *)
(*                                                                         *)
(* Every connection has a thread of its own.  A handler runs to its end    *)
(* with cancellation disabled; it is cut where it blocks, where it takes a *)
(* lock, and where it reads device->session, session->device or the        *)
(* registration state after another thread may have changed them.  The     *)
(* administrator is the thread that reloads the configuration or unloads   *)
(* the module.                                                             *)
(***************************************************************************)
EXTENDS Naturals, FiniteSets

CONSTANTS Session,     \* connections; each is accepted once
          Admin,       \* the administrator's thread
          None,        \* NULL
          Reloads,     \* how the administrator may reload: "cli", "module"
          MaxReloads,  \* bound: number of reloads
          Unloads,     \* may the administrator unload the module?
          Timeouts,    \* the threads whose wait of five seconds may run out
          World        \* what may happen: "vanish", "calls", "failures" to send, "impatience"

ASSUME RegistrationAssumption ==
    /\ Admin \notin Session /\ None \notin Session /\ None # Admin
    /\ Reloads \subseteq {"cli", "module"}
    /\ MaxReloads \in Nat
    /\ Unloads \in BOOLEAN /\ Timeouts \subseteq Session \cup {Admin}
    /\ World \subseteq {"vanish", "calls", "failures", "impatience"}

VARIABLES
    pc,           \* what each thread is doing
    bound,        \* sessions with session->device set
    stop,         \* sessions with session_stop set
    thread,       \* sessions whose session_thread is not NULL
    cancelled,    \* sessions whose thread has been cancelled
    posted,       \* sessions whose thread_finished semaphore is up
    listed,       \* GLOB(sessions)
    exempt,       \* sessions whose thread has tokenThread set
    silent,       \* sessions whose phone has vanished without closing
    owner,        \* device->session
    regState,     \* the registration state of the device; NONE stands for FAILED too
    acked,        \* is device->status.token SCCP_TOKEN_STATE_ACK?
    onCall,       \* the device has a channel
    pending,      \* pendingUpdate and pendingDelete
    stale,        \* the phone has registered with a configuration since changed
    known,        \* is the device in GLOB(devices)?
    reloading,    \* GLOB(reload_in_progress)
    locked,       \* is GLOB(lock) write locked for a whole reload?
    running,      \* is the accept thread running?
    reloads,      \* number of reloads so far
    peer,         \* the session each thread is ending or releasing
    ret, back     \* where the cleaning and the ending return to

sessVars == <<bound, stop, thread, cancelled, posted, listed, exempt, silent>>
devVars  == <<owner, regState, acked, onCall, pending, stale, known>>
sysVars  == <<reloading, locked, running, reloads>>
callVars == <<peer, ret, back>>
vars == <<pc, sessVars, devVars, sysVars, callVars>>

Actor == Session \cup {Admin}

Handling == {"token", "tokenReject", "tokenBind", "tokenSet", "register", "registerReject",
             "registerBind", "registerSet", "message", "handle", "giveUp"}
Leaving  == {"exit", "detach", "clean", "release", "close"}
Cleaning == {"hangup", "unbind", "stopOwner", "settle"}
Ending   == {"take", "cancel", "wait"}
Reading  == {"reload", "read", "apply", "reloaded"}
PC == {"none", "loop", "pending", "update", "poll", "gone", "idle", "terminate", "unloaded"}
      \cup Handling \cup Leaving \cup Cleaning \cup Ending \cup Reading

(* Where cleaning a device and ending a session return to; "idle" outside them. *)
CleanReturns == {"idle", "loop", "release", "reloaded", "terminate"}
EndReturns   == {"idle", "tokenReject", "registerReject", "giveUp", "settle", "terminate"}

RegStates == {"TIMEOUT", "CLEANING", "NONE", "TOKEN", "PROGRESS", "OK"}

TypeOK ==
    /\ pc \in [Actor -> PC]
    /\ bound \subseteq Session /\ stop \subseteq Session /\ thread \subseteq Session
    /\ cancelled \subseteq Session /\ posted \subseteq Session /\ listed \subseteq Session
    /\ exempt \subseteq Session /\ silent \subseteq Session
    /\ owner \in Session \cup {None}
    /\ regState \in RegStates
    /\ pending \subseteq {"update", "delete"}
    /\ acked \in BOOLEAN /\ onCall \in BOOLEAN /\ stale \in BOOLEAN /\ known \in BOOLEAN
    /\ reloading \in BOOLEAN /\ locked \in BOOLEAN /\ running \in BOOLEAN
    /\ reloads \in 0..MaxReloads
    /\ peer \in [Actor -> Session \cup {None}]
    /\ \A a \in Actor : pc[a] \in Ending \cup {"unbind", "stopOwner"} => peer[a] \in Session
    /\ ret \in [Actor -> CleanReturns] /\ back \in [Actor -> EndReturns]

Init ==
    /\ pc = [a \in Actor |-> IF a = Admin THEN "idle" ELSE "none"]
    /\ bound = {} /\ stop = {} /\ thread = {} /\ cancelled = {} /\ posted = {} /\ listed = {}
    /\ exempt = {} /\ silent = {}
    /\ owner = None /\ regState = "NONE" /\ acked = FALSE
    /\ onCall = FALSE /\ pending = {} /\ stale = FALSE /\ known = TRUE
    /\ reloading = FALSE /\ locked = FALSE /\ running = TRUE /\ reloads = 0
    /\ peer = [a \in Actor |-> None]
    /\ ret = [a \in Actor |-> "idle"] /\ back = [a \in Actor |-> "idle"]

At(a, where) == pc[a] = where
Goto(a, where) == pc' = [pc EXCEPT ![a] = where]

(* The session thread has cleared its id and cleans up after itself, or has. *)
Left(s) == ret[s] = "release" \/ pc[s] \in {"detach", "clean", "release", "close", "gone"}
Closed(s) == pc[s] = "gone"

(* sccp_session_check_crossdevice *)
CrossAny(s) == owner # None
CrossDevice(s) == owner \notin {None, s}

(* What sccp_session_isAlive may answer: a phone that has gone silent is alive *)
(* until one and a half keepalive intervals have passed.                       *)
AliveAnswers(q) ==
    IF q \in stop \/ Closed(q) THEN {FALSE} ELSE IF q \in silent THEN BOOLEAN ELSE {TRUE}

(* __sccp_session_stopthread: the reading side is shut down, so poll returns. *)
Stop(s, state) ==
    /\ stop' = stop \cup {s}
    /\ regState' = IF s \in bound THEN state ELSE regState

(* sccp_session_stopthread called by the session's own thread.  When somebody *)
(* else has taken its id nothing happens: that one is about to cancel it.     *)
StopSelf(s, state) ==
    IF s \in thread THEN Stop(s, state) ELSE UNCHANGED <<stop, regState>>

(* __sccp_session_removeDevice: of a session that is not bound it only takes  *)
(* the lock; the session the device has moved on to is taken out of the list. *)
Unbind(q) ==
    /\ bound' = bound \ {q}
    /\ regState' = IF q \in bound THEN "NONE" ELSE regState
    /\ listed' = IF q \in bound /\ CrossDevice(q) THEN listed \ {owner} ELSE listed

(* The beginning of _sccp_dev_clean. *)
BeginClean(a, remove, then) ==
    /\ regState' = "CLEANING"
    /\ known' = (known /\ ~remove)
    /\ Goto(a, "hangup")
    /\ ret' = [ret EXCEPT ![a] = then]
    /\ UNCHANGED <<peer, back>>

(* __sccp_netsock_end_device_thread: the tests made before anything is locked. *)
End(a, q, then) ==
    /\ Goto(a, IF q \in thread THEN "take" ELSE then)
    /\ peer' = [peer EXCEPT ![a] = IF q \in thread THEN q ELSE None]
    /\ back' = [back EXCEPT ![a] = IF q \in thread THEN then ELSE "idle"]
    /\ UNCHANGED ret

Ended(a) ==
    /\ Goto(a, back[a])
    /\ peer' = [peer EXCEPT ![a] = None]
    /\ back' = [back EXCEPT ![a] = "idle"]
    /\ UNCHANGED ret

(* sccp_session_crossdevice_cleanup *)
EndPrevious(s, then) ==
    IF CrossDevice(s) THEN End(s, owner, then) ELSE Goto(s, then) /\ UNCHANGED callVars

(* tokenThread of a thread about to poll, recomputed or, as it was, latched. *)
ExemptLatched(s) == IF acked THEN exempt \cup {s} ELSE exempt
Exempt(s) == IF acked THEN exempt \cup {s} ELSE exempt \ {s}
Impatient == Session \ exempt

(* Has a reload left something to do for the device? *)
NeedsDelete == "delete" \in pending
NeedsRestart == pending # {}

(* Back from handling a pending update: only a session that still has its device *)
(* goes on to poll in this round.                                                *)
Resume(s) ==
    IF s \in bound THEN Goto(s, "poll") /\ exempt' = Exempt(s)
                   ELSE Goto(s, "loop") /\ UNCHANGED exempt

(* The id is taken; before, it was read and left for others to find. *)
TakenCopy(q) == {}
Taken(q) == {q}

(***************************************************************************)
(* The session thread                                                      *)
(***************************************************************************)
Accept(s) ==
    /\ At(s, "none") /\ running
    /\ thread' = thread \cup {s} /\ listed' = listed \cup {s}
    /\ Goto(s, "loop")
    /\ UNCHANGED <<bound, stop, cancelled, posted, exempt, silent, devVars, sysVars, callVars>>

(* Between two rounds cancellation is tested, then session_stop. *)
LoopEnds(s) ==
    /\ At(s, "loop") /\ s \in stop \cup cancelled
    /\ Goto(s, "exit")
    /\ UNCHANGED <<sessVars, devVars, sysVars, callVars>>

LoopGoesOn(s) ==
    /\ At(s, "loop") /\ s \notin stop \cup cancelled
    /\ Goto(s, IF s \in bound /\ NeedsRestart THEN "pending" ELSE "poll")
    /\ exempt' = IF s \in bound /\ ~NeedsRestart THEN Exempt(s) ELSE exempt
    /\ UNCHANGED <<bound, stop, thread, cancelled, posted, listed, silent, devVars, sysVars,
                   callVars>>

(* The flag is read under GLOB(lock), with cancellation disabled; if a reload is *)
(* under way, the thread sleeps a little and goes on.                            *)
LoopPending(s) ==
    /\ At(s, "pending") /\ ~locked
    /\ \/ ~reloading /\ Goto(s, "update") /\ UNCHANGED exempt
       \/ reloading /\ Resume(s)
    /\ UNCHANGED <<bound, stop, thread, cancelled, posted, listed, silent, devVars, sysVars,
                   callVars>>

(* sccp_device_check_update *)
LoopUpdates(s) ==
    /\ At(s, "update")
    /\ \/ /\ NeedsRestart /\ ~onCall
          /\ pending' = pending \ {"update"}
          /\ BeginClean(s, "delete" \in pending, "loop")
          /\ UNCHANGED exempt
       \/ /\ ~NeedsRestart \/ onCall
          /\ Resume(s)
          /\ UNCHANGED <<regState, known, pending, callVars>>
    /\ UNCHANGED <<bound, stop, thread, cancelled, posted, listed, silent, owner, acked, onCall,
                   stale, sysVars>>

(* poll is interrupted: cancelled, or shut down. *)
PollInterrupted(s) ==
    /\ At(s, "poll") /\ s \in stop \cup cancelled
    /\ Goto(s, "exit")
    /\ UNCHANGED <<sessVars, devVars, sysVars, callVars>>

(* Nothing has been heard for the interval; keepAlive may have passed as well. *)
PollTimesOut(s) ==
    /\ At(s, "poll") /\ s \notin stop \cup cancelled
    /\ \/ s \notin silent \cap Impatient /\ Goto(s, "loop") /\ UNCHANGED <<stop, regState>>
       \/ s \in silent \cap Impatient /\ Stop(s, "TIMEOUT") /\ Goto(s, "exit")
    /\ UNCHANGED <<bound, thread, cancelled, posted, listed, exempt, silent, owner, acked, onCall,
                   pending, stale, known, sysVars, callVars>>

(* The phone closes the connection: recv reads nothing, or poll reports it. *)
PollHangup(s) ==
    /\ At(s, "poll") /\ s \notin silent
    /\ Stop(s, "NONE") \/ UNCHANGED <<stop, regState>>
    /\ Goto(s, "exit")
    /\ UNCHANGED <<bound, thread, cancelled, posted, listed, exempt, silent, owner, acked, onCall,
                   pending, stale, known, sysVars, callVars>>

(* A message arrives; those that touch none of this state are left out. *)
PollMessage(s, what) ==
    /\ At(s, "poll") /\ s \notin silent \cup cancelled
    /\ Goto(s, what)
    /\ UNCHANGED <<sessVars, devVars, sysVars, callVars>>

(* handle_unregister, to which the dispatcher never passes a device. *)
Unregister(s) ==
    /\ At(s, "poll") /\ s \notin silent \cup cancelled
    /\ StopSelf(s, "NONE")
    /\ Goto(s, "loop")
    /\ UNCHANGED <<bound, thread, cancelled, posted, listed, exempt, silent, owner, acked, onCall,
                   pending, stale, known, sysVars, callVars>>

(***************************************************************************)
(* __sccp_netsock_end_device_thread, after its reference is taken          *)
(***************************************************************************)

(* Under the lock of the session, whoever comes first takes the thread id. *)
Take(a) ==
    /\ At(a, "take")
    /\ thread' = thread \ Taken(peer[a])
    /\ IF peer[a] \in thread THEN Goto(a, "cancel") /\ UNCHANGED callVars ELSE Ended(a)
    /\ UNCHANGED <<bound, stop, cancelled, posted, listed, exempt, silent, devVars, sysVars>>

(* A thread in its exit handler takes no notice. *)
Cancel(a) ==
    /\ At(a, "cancel")
    /\ cancelled' = IF Left(peer[a]) THEN cancelled ELSE cancelled \cup {peer[a]}
    /\ Goto(a, "wait")
    /\ UNCHANGED <<bound, stop, thread, posted, listed, exempt, silent, devVars, sysVars, callVars>>

(* The semaphore comes up ... *)
Await(a) ==
    /\ At(a, "wait") /\ peer[a] \in posted
    /\ posted' = posted \ {peer[a]}
    /\ Ended(a)
    /\ UNCHANGED <<bound, stop, thread, cancelled, listed, exempt, silent, devVars, sysVars>>

(* ... or five seconds pass. *)
WaitsAgain(a) == At(a, "wait") /\ a \in Timeouts /\ UNCHANGED vars
AwaitTimesOut(a) ==
    /\ At(a, "wait") /\ a \in Timeouts
    /\ Ended(a)
    /\ UNCHANGED <<sessVars, devVars, sysVars>>

(***************************************************************************)
(* handle_token_request                                                    *)
(***************************************************************************)
Defended(s, alive) == CrossDevice(s) /\ regState = "OK" /\ alive

TokenOver(s) ==
    /\ Goto(s, "loop") /\ UNCHANGED callVars

(* Refused at once, refused as the token was sent lately, refused to leave a   *)
(* living session alone, refused after ending the other session, or taken up.  *)
Token(s) ==
    /\ At(s, "token")
    /\ \/ /\ reloading \/ ~known \/ regState = "TOKEN"
          /\ TokenOver(s) /\ UNCHANGED <<stop, regState>>
       \/ /\ ~reloading /\ known
          /\ \E alive \in IF CrossDevice(s) THEN AliveAnswers(owner) ELSE {FALSE} :
                \/ Defended(s, alive) /\ StopSelf(s, "NONE") /\ TokenOver(s)
                \/ /\ ~Defended(s, alive)
                   /\ IF CrossDevice(s) \/ regState # "NONE"
                      THEN EndPrevious(s, "tokenReject")
                      ELSE Goto(s, "tokenBind") /\ UNCHANGED callVars
                   /\ UNCHANGED <<stop, regState>>
    /\ UNCHANGED <<bound, thread, cancelled, posted, listed, exempt, silent, owner, acked, onCall,
                   pending, stale, known, sysVars>>

TokenReject(s) ==
    /\ At(s, "tokenReject")
    /\ StopSelf(s, "NONE")
    /\ owner' = None
    /\ Goto(s, "loop")
    /\ UNCHANGED <<bound, thread, cancelled, posted, listed, exempt, silent, acked, onCall, pending,
                   stale, known, sysVars, callVars>>

(* sccp_session_retainDevice: nothing is done when the device is there already. *)
Bind(s) ==
    /\ bound' = bound \cup {s}
    /\ owner' = IF s \in bound THEN owner ELSE s

TokenBind(s) ==
    /\ At(s, "tokenBind")
    /\ Bind(s)
    /\ acked' = FALSE
    /\ Goto(s, "tokenSet")
    /\ UNCHANGED <<stop, thread, cancelled, posted, listed, exempt, silent, regState, onCall,
                   pending, stale, known, sysVars, callVars>>

(* The address is denied, or the configured fallback is asked for an answer. *)
TokenSet(s) ==
    /\ At(s, "tokenSet")
    /\ \/ regState' = "NONE" /\ UNCHANGED acked
       \/ regState' = "TOKEN" /\ acked' \in BOOLEAN
    /\ Goto(s, "loop")
    /\ UNCHANGED <<sessVars, owner, onCall, pending, stale, known, sysVars, callVars>>

(***************************************************************************)
(* handle_register                                                         *)
(***************************************************************************)
Register(s) ==
    /\ At(s, "register")
    /\ \/ /\ reloading \/ ~known
          /\ Goto(s, "loop") /\ UNCHANGED callVars
       \/ /\ ~reloading /\ known
          /\ CrossDevice(s) \/ regState \in {"PROGRESS", "OK", "TOKEN"}
          /\ EndPrevious(s, "registerReject")
       \/ /\ ~reloading /\ known
          /\ ~CrossDevice(s) /\ regState \notin {"PROGRESS", "OK"}
          /\ Goto(s, "registerBind") /\ UNCHANGED callVars
    /\ UNCHANGED <<sessVars, devVars, sysVars>>

RegisterReject(s) ==
    /\ At(s, "registerReject")
    /\ regState' = "NONE"
    /\ stop' = IF s \in thread THEN stop \cup {s} ELSE stop
    /\ owner' = None
    /\ Goto(s, "loop")
    /\ UNCHANGED <<bound, thread, cancelled, posted, listed, exempt, silent, acked, onCall, pending,
                   stale, known, sysVars, callVars>>

RegisterBind(s) ==
    /\ At(s, "registerBind")
    /\ Bind(s)
    /\ \E allowed \in BOOLEAN : Goto(s, IF allowed THEN "registerSet" ELSE "registerReject")
    /\ UNCHANGED <<stop, thread, cancelled, posted, listed, exempt, silent, regState, acked, onCall,
                   pending, stale, known, sysVars, callVars>>

RegisterSet(s) ==
    /\ At(s, "registerSet")
    /\ acked' = FALSE /\ regState' = "PROGRESS" /\ stale' = FALSE
    /\ Goto(s, "loop")
    /\ UNCHANGED <<sessVars, owner, onCall, pending, known, sysVars, callVars>>

(***************************************************************************)
(* check_session_message_device and sccp_handle_message, for a message that *)
(* needs the device                                                         *)
(***************************************************************************)
Message(s) ==
    /\ At(s, "message")
    /\ \/ /\ s \in stop \/ s \notin bound
          /\ Goto(s, "giveUp") /\ UNCHANGED callVars
       \/ /\ s \in bound \ stop /\ CrossDevice(s)
          /\ EndPrevious(s, "giveUp")
       \/ /\ s \in bound \ stop /\ ~CrossDevice(s)
          /\ regState \in {"PROGRESS", "OK"}
          /\ Goto(s, "handle") /\ UNCHANGED callVars
       \/ /\ s \in bound \ stop /\ ~CrossDevice(s)
          /\ regState \notin {"PROGRESS", "OK"}
          /\ Goto(s, "giveUp") /\ UNCHANGED callVars
    /\ UNCHANGED <<sessVars, devVars, sysVars>>

(* The message that ends the registration, or another. *)
Handle(s) ==
    /\ At(s, "handle")
    /\ regState' \in {regState, IF regState = "PROGRESS" THEN "OK" ELSE regState}
    /\ Goto(s, "loop")
    /\ UNCHANGED <<sessVars, owner, acked, onCall, pending, stale, known, sysVars, callVars>>

(* The device thread gives up a session whose message could not be handled. *)
GiveUp(s) ==
    /\ At(s, "giveUp")
    /\ Stop(s, "NONE")
    /\ Goto(s, "exit")
    /\ UNCHANGED <<bound, thread, cancelled, posted, listed, exempt, silent, owner, acked, onCall,
                   pending, stale, known, sysVars, callVars>>

(***************************************************************************)
(* sccp_session_device_thread_exit and sccp_session_cleanup                *)
(***************************************************************************)
Exit(s) ==
    /\ At(s, "exit")
    /\ stop' = stop \cup {s}
    /\ thread' = thread \ {s}
    /\ cancelled' = cancelled \ {s} /\ exempt' = exempt \ {s} /\ silent' = silent \ {s}
    /\ Goto(s, "detach")
    /\ UNCHANGED <<bound, posted, listed, devVars, sysVars, callVars>>

Detach(s) ==
    /\ At(s, "detach")
    /\ owner' = IF s \in bound THEN None ELSE owner
    /\ Goto(s, IF s \in bound THEN "clean" ELSE "release")
    /\ UNCHANGED <<sessVars, regState, acked, onCall, pending, stale, known, sysVars, callVars>>

Clean(s) ==
    /\ At(s, "clean")
    /\ BeginClean(s, FALSE, "release")
    /\ UNCHANGED <<sessVars, owner, acked, onCall, pending, stale, sysVars>>

ReleaseDevice(s) ==
    /\ At(s, "release")
    /\ Unbind(s)
    /\ Goto(s, "close")
    /\ UNCHANGED <<stop, thread, cancelled, posted, exempt, silent, owner, acked, onCall, pending,
                   stale, known, sysVars, callVars>>

SignalForgotten(s) == {}
Signal(s) == {s}

(* Out of the list, the socket closed, the locks destroyed, the semaphore up. *)
Close(s) ==
    /\ At(s, "close")
    /\ listed' = listed \ {s}
    /\ posted' = posted \cup Signal(s)
    /\ Goto(s, "gone")
    /\ UNCHANGED <<bound, stop, thread, cancelled, exempt, silent, devVars, sysVars, callVars>>

(***************************************************************************)
(* _sccp_dev_clean, after it has set the state to CLEANING                 *)
(***************************************************************************)
AssumesSession == TRUE
HasSession == owner # None

Hangup(a) ==
    /\ At(a, "hangup")
    /\ onCall' = FALSE /\ acked' = FALSE
    /\ Goto(a, IF HasSession THEN "unbind" ELSE "settle")
    /\ peer' = [peer EXCEPT ![a] = owner]
    /\ UNCHANGED <<sessVars, owner, regState, pending, stale, known, sysVars, ret, back>>

OwnerKept == owner
OwnerCleared == None

UnbindOther(a) ==
    /\ At(a, "unbind")
    /\ Unbind(peer[a])
    /\ owner' = OwnerCleared
    /\ Goto(a, "stopOwner")
    /\ UNCHANGED <<stop, thread, cancelled, posted, exempt, silent, acked, onCall, pending, stale,
                   known, sysVars, callVars>>

(* sccp_session_stopthread: of the thread's own session, or of another. *)
StopOwner(a) ==
    /\ At(a, "stopOwner")
    /\ \/ /\ peer[a] = a
          /\ StopSelf(a, "NONE") /\ Goto(a, "settle")
          /\ peer' = [peer EXCEPT ![a] = None] /\ UNCHANGED <<ret, back>>
       \/ /\ peer[a] # a
          /\ End(a, peer[a], "settle") /\ UNCHANGED <<stop, regState>>
    /\ UNCHANGED <<bound, thread, cancelled, posted, listed, exempt, silent, owner, acked, onCall,
                   pending, stale, known, sysVars>>

Settle(a) ==
    /\ At(a, "settle")
    /\ regState' = "NONE"
    /\ Goto(a, ret[a]) /\ ret' = [ret EXCEPT ![a] = "idle"]
    /\ UNCHANGED <<sessVars, owner, acked, onCall, pending, stale, known, sysVars, peer, back>>

(***************************************************************************)
(* The administrator                                                       *)
(***************************************************************************)

(* "sccp reload" sets the flag and lets go of GLOB(lock); "module reload" keeps it. *)
KeepsLock(kind) == kind = "module"

Reload(kind) ==
    /\ At(Admin, "idle") /\ reloads < MaxReloads
    /\ reloading' = TRUE /\ locked' = KeepsLock(kind) /\ reloads' = reloads + 1
    /\ Goto(Admin, "reload")
    /\ UNCHANGED <<sessVars, devVars, running, callVars>>

(* Another reload meanwhile is refused, and takes the flag down as it leaves. *)
ReloadRefused ==
    /\ "impatience" \in World /\ reloading /\ ~locked
    /\ reloading' = FALSE
    /\ UNCHANGED <<pc, sessVars, devVars, locked, running, reloads, callVars>>

(* sccp_device_pre_reload *)
PreReload ==
    /\ At(Admin, "reload")
    /\ pending' = {"delete"}
    /\ Goto(Admin, "read")
    /\ UNCHANGED <<sessVars, owner, regState, acked, onCall, stale, known, sysVars, callVars>>

(* sccp_config_buildDevice: the device is configured as before, or otherwise, or *)
(* its section is gone.                                                          *)
ReadConfig ==
    /\ At(Admin, "read")
    /\ \/ known /\ pending' = {} /\ UNCHANGED stale
       \/ known /\ pending' = (IF reloading THEN {"update"} ELSE {}) /\ stale' = TRUE
       \/ UNCHANGED <<pending, stale>>
    /\ Goto(Admin, "apply")
    /\ UNCHANGED <<sessVars, owner, regState, acked, onCall, known, sysVars, callVars>>

(* sccp_device_post_reload *)
PostReload ==
    /\ At(Admin, "apply")
    /\ \/ /\ known /\ NeedsRestart /\ ~onCall
          /\ pending' = pending \ {"update"}
          /\ BeginClean(Admin, "delete" \in pending, "reloaded")
       \/ /\ ~known \/ ~NeedsRestart \/ onCall
          /\ Goto(Admin, "reloaded")
          /\ UNCHANGED <<regState, known, pending, callVars>>
    /\ UNCHANGED <<sessVars, owner, acked, onCall, stale, sysVars>>

Reloaded ==
    /\ At(Admin, "reloaded")
    /\ reloading' = FALSE /\ locked' = FALSE
    /\ Goto(Admin, "idle")
    /\ UNCHANGED <<sessVars, devVars, running, reloads, callVars>>

(* sccp_preUnload *)
Unload ==
    /\ At(Admin, "idle") /\ Unloads
    /\ running' = FALSE
    /\ IF known THEN BeginClean(Admin, TRUE, "terminate")
                ELSE Goto(Admin, "terminate") /\ UNCHANGED <<regState, known, callVars>>
    /\ UNCHANGED <<sessVars, owner, acked, onCall, pending, stale, reloading, locked, reloads>>

(* sccp_session_terminateAll *)
Terminate ==
    /\ At(Admin, "terminate")
    /\ \/ \E q \in listed \cap thread : End(Admin, q, "terminate")
       \/ listed \cap thread = {} /\ Goto(Admin, "unloaded") /\ UNCHANGED callVars
    /\ UNCHANGED <<sessVars, devVars, sysVars>>

(***************************************************************************)
(* The world: phones vanish, calls come and go, sending fails              *)
(***************************************************************************)
Vanish(s) ==
    /\ "vanish" \in World /\ pc[s] # "none" /\ s \notin stop \cup silent
    /\ silent' = silent \cup {s}
    /\ UNCHANGED <<pc, bound, stop, thread, cancelled, posted, listed, exempt, devVars, sysVars,
                   callVars>>

CallStarts ==
    /\ "calls" \in World /\ regState = "OK" /\ owner # None /\ ~onCall
    /\ onCall' = TRUE
    /\ UNCHANGED <<pc, sessVars, owner, regState, acked, pending, stale, known, sysVars, callVars>>

CallEnds ==
    /\ onCall
    /\ onCall' = FALSE
    /\ UNCHANGED <<pc, sessVars, owner, regState, acked, pending, stale, known, sysVars, callVars>>

(* Some thread sends to the device, and the socket does not take it. *)
SendFails(s) ==
    /\ "failures" \in World /\ owner = s /\ s \notin stop
    /\ Stop(s, "NONE")
    /\ UNCHANGED <<pc, bound, thread, cancelled, posted, listed, exempt, silent, owner, acked, onCall,
                   pending, stale, known, sysVars, callVars>>

-----------------------------------------------------------------------------
RoundStep(s) == LoopEnds(s) \/ LoopGoesOn(s) \/ LoopPending(s) \/ LoopUpdates(s)
                \/ PollInterrupted(s) \/ PollTimesOut(s)
TokenStep(s) == Token(s) \/ TokenReject(s) \/ TokenBind(s) \/ TokenSet(s)
RegisterStep(s) == Register(s) \/ RegisterReject(s) \/ RegisterBind(s) \/ RegisterSet(s)
MessageStep(s) == Message(s) \/ Handle(s) \/ GiveUp(s)
LeaveStep(s) == Exit(s) \/ Detach(s) \/ Clean(s) \/ ReleaseDevice(s) \/ Close(s)
CleanStep(a) == Hangup(a) \/ UnbindOther(a) \/ StopOwner(a) \/ Settle(a)
EndWork(a) == Take(a) \/ Cancel(a) \/ Await(a)
EndStep(a) == EndWork(a) \/ AwaitTimesOut(a)
PhoneStep(s) == Accept(s) \/ PollHangup(s) \/ Unregister(s) \/ Vanish(s) \/ SendFails(s)
                \/ \E what \in {"token", "register", "message"} : PollMessage(s, what)
ReloadStep == PreReload \/ ReadConfig \/ PostReload \/ Reloaded

SessionWork(s) == RoundStep(s) \/ TokenStep(s) \/ RegisterStep(s) \/ MessageStep(s)
                  \/ LeaveStep(s) \/ CleanStep(s)
SessionStep(s) == SessionWork(s) \/ EndStep(s)
AdminWork == ReloadStep \/ Terminate \/ CleanStep(Admin)
AdminStep == AdminWork \/ EndStep(Admin)

Next == \/ \E s \in Session : SessionStep(s) \/ PhoneStep(s)
        \/ AdminStep
        \/ \E kind \in Reloads : Reload(kind)
        \/ ReloadRefused
        \/ Unload
        \/ CallStarts \/ CallEnds

Spec == Init /\ [][Next]_vars

(* Threads that can go on do; phones, users and the administrator need not, and *)
(* nobody's five seconds need run out.                                          *)
Fairness ==
    /\ \A s \in Session : WF_vars(SessionWork(s) \/ EndWork(s))
    /\ WF_vars(AdminWork \/ EndWork(Admin))
FairSpec == Spec /\ Fairness

(***************************************************************************)
(* Properties                                                              *)
(***************************************************************************)

(* The device never refers to a session whose locks are gone                *)
(* (sccp_session_cleanup takes itself out of device->session before that).  *)
NoDangling == \A s \in Session : owner = s => ~Closed(s)

(* However many handlers want a connection gone, one of them takes its thread *)
(* id; nobody cancels or waits for a thread another one is ending             *)
(* (__sccp_netsock_end_device_thread and sccp_session_device_thread_exit).    *)
Ends(a) == pc[a] \in {"cancel", "wait"}
OneEnder == \A a, b \in Actor : Ends(a) /\ Ends(b) /\ peer[a] = peer[b] => a = b

(* Connections never wait for each other in a circle, whatever order they  *)
(* claim the device in (sccp_session_crossdevice_cleanup and the ending of  *)
(* the owner in _sccp_dev_clean), so none needs its five seconds to go on.  *)
NoCircle == ~ \E C \in (SUBSET Session) \ {{}} : \A s \in C : pc[s] \in Ending /\ peer[s] \in C

(* A reload that keeps GLOB(lock) may wait for a connection whose thread needs  *)
(* that lock to read the flag (sccp_reload, sccp_session_device_thread): what   *)
(* follows is promised if the five seconds of the administrator run out.        *)
TimeoutsEnd == WF_vars(AwaitTimesOut(Admin))

(* A connection that has been stopped, by its own handler or by another thread, *)
(* is cleaned up (sccp_session_device_thread).                                  *)
StoppedEnds == TimeoutsEnd => \A s \in Session : (s \in stop \cup cancelled) ~> pc[s] = "gone"

(* A phone that is unplugged does not keep its thread, unless it has been    *)
(* given a token and not come back (tokenThread in sccp_session_device_thread). *)
SilentEnds ==
    TimeoutsEnd => \A s \in Session : (s \in silent /\ ~acked) ~> (s \notin silent \/ acked)

(* A reload of either kind comes to its end, also one that keeps GLOB(lock) *)
(* (sccp_cli_reload, sccp_reload, sccp_device_post_reload).                 *)
ReloadEnds == TimeoutsEnd => (At(Admin, "reload") ~> At(Admin, "idle"))

(* Unloading the module comes to its end, whatever the connections do meanwhile *)
(* (sccp_preUnload, sccp_session_terminateAll).                                 *)
UnloadEnds == ~running ~> pc[Admin] = "unloaded"

(* Once the phone has hung up for good, a restart that is recorded is made,  *)
(* whatever else becomes of the connection meanwhile, unless another reload  *)
(* reads the configuration first (sccp_device_check_update).                 *)
Outdated == stale /\ regState = "OK"
Postponed ==
    <>[]~onCall => (Outdated /\ "update" \in pending ~> ~Outdated \/ At(Admin, "read"))

(* The command says of phones in a call that the "reset will be postponed until *)
(* device goes onhook" (reload_usage): once the phone has hung up for good, a   *)
(* registered phone whose configuration was changed is restarted.               *)
Restarted == <>[]~onCall => (Outdated ~> ~Outdated)

(* The command says of phones in a call that the "reset will be postponed until *)
(* device goes onhook": while one is outdated and no reload is under way, the   *)
(* update is remembered or being made.                                          *)
UpdateKept == Outdated => "update" \in pending \/ reloading \/ \E s \in Session : pc[s] \in Cleaning

(* A token request does not end the connection of a phone that is registered *)
(* and still talking (handle_token_request).                                 *)
SparesTheLiving ==
    [][\A s, q \in Session :
          pc[s] = "cancel" /\ peer[s] = q /\ pc'[s] = "wait" /\ back[s] = "tokenReject"
          => ~(owner = q /\ regState = "OK" /\ q \notin silent \cup stop)]_vars

(* "The thread is detached, so its id stops being valid the moment it        *)
(* terminates" (__sccp_netsock_end_device_thread): nobody cancels a thread    *)
(* that has terminated.                                                       *)
CancelsRunning ==
    [][\A a \in Actor : At(a, "cancel") /\ pc'[a] = "wait" => pc[peer[a]] # "gone"]_vars

(* "Holding a reference here guarantees the struct [...] stays alive"         *)
(* (__sccp_netsock_end_device_thread): nobody takes the lock of a session     *)
(* that has destroyed it.                                                     *)
LocksWhole ==
    [][\A a \in Actor : pc[a] \in {"take", "unbind"} /\ pc'[a] # pc[a] => ~Closed(peer[a])]_vars
=============================================================================
