----------------------------- MODULE Mailboxes -----------------------------
(***************************************************************************)
(* A line that phones share, and its mailbox: src/src/sccp_line.c and      *)
(* sccp_linedevice.c create the line when a phone registers and remove it  *)
(* with its last phone (it is a realtime line); sccp_event.c tells         *)
(* sccp_mwi.c, of the creation by a job of the pool, of the removal at     *)
(* once; sccp_mwi.c subscribes the line to its mailbox in the PBX.         *)
(*                                                                         *)
(* All lines of a behaviour have one name.  What a thread has yet to do is *)
(* a stack of steps; a step is a critical section of GLOB(lines), of       *)
(* line->devices or of the subscriptions, or a call of the PBX.  The lock  *)
(* of line->devices is explicit, for the removal of a line happens inside  *)
(* it.  References taken and given up in one step are left out, and so are  *)
(* those of the events about phones that are attached and detached.        *)
(*                                                                         *)
(* The PBX delivers to each subscription in order, the newest state first  *)
(* to a new one, and lets nobody unsubscribe before what is queued was     *)
(* delivered.  What it does with a subscription that was freed is not      *)
(* followed.  Channels, several mailboxes, lines of the configuration file *)
(* and the stopping of the module are left out.                            *)
(***************************************************************************)
EXTENDS Naturals, Sequences, FiniteSets, SequencesExt

CONSTANTS Session,   \* threads, each of one phone
          Worker,    \* threads of the pool
          Admin,     \* the thread that reloads the configuration
          Line,      \* the lines that can be allocated
          Mail,      \* what a mailbox can hold
          MaxMail,   \* bound: changes of the mailbox
          MaxRegs,   \* bound: registrations
          MaxDeletes, \* bound: reloads that find the line gone from the database
          None       \* no line, no thread, no mail

ASSUME MailboxesAssumption ==
    /\ Session \cap Worker = {} /\ Admin \notin Session \cup Worker
    /\ None \notin Session \cup Line \cup Mail \cup {Admin}
    /\ "change" \notin Mail /\ Mail # {}
    /\ MaxMail \in Nat /\ MaxRegs \in Nat /\ MaxDeletes \in Nat

VARIABLES
    made,       \* lines allocated
    refs,       \* the references to each line
    lines,      \* GLOB(lines)
    template,   \* the line in the button template of each phone
    attached,   \* line->devices
    devlock,    \* the thread that has line->devices locked
    todo,       \* what each thread has yet to do
    jobs,       \* the lines whose creation the pool has yet to tell
    sub,        \* subscriptions: none, listed, taken (off the list), freed, or
                \* lost (freed, but the PBX has a pointer to it)
    pbx,        \* lines the PBX has a subscription for
    queue,      \* what the PBX has yet to deliver to each subscription
    notifying,  \* lines whose devices a thread of the PBX is about to lock
    mail,       \* what the mailbox holds
    shown,      \* line->voicemailStatistic
    changes, regs, deletes   \* how often the mailbox changed, phones registered, and
                \* a reload deleted a line

lineVars == <<made, refs, lines>>
phoneVars == <<template, attached, devlock, regs, deletes>>
subVars == <<sub, pbx, queue, notifying, shown>>
mailVars == <<mail, changes>>
vars == <<lineVars, phoneVars, todo, jobs, subVars, mailVars>>

Cleaner == Session \cup {Admin}
Thread == Cleaner \cup Worker
Step == {"create", "list", "attach", "remove", "purge", "destroyed",
         "unsubscribe", "join", "unlist", "unlock", "forget", "subscribe", "watch", "put"}
Listed == Range(lines)

TypeOK ==
    /\ made \subseteq Line /\ refs \in [Line -> Nat] /\ lines \in Seq(Line)
    /\ template \in [Session -> Line \cup {None}]
    /\ attached \in [Line -> SUBSET Session] /\ devlock \in [Line -> Cleaner \cup {None}]
    /\ todo \in [Thread -> Seq(Step \X (Line \cup {None}))] /\ jobs \in Seq(Line)
    /\ sub \in [Line -> {"none", "listed", "taken", "freed", "lost"}]
    /\ pbx \subseteq Line /\ notifying \subseteq Line
    /\ queue \in [Line -> Seq(Mail \cup {"change"})]
    /\ mail \in Mail /\ shown \in [Line -> Mail \cup {None}]
    /\ changes \in 0 .. MaxMail /\ regs \in 0 .. MaxRegs /\ deletes \in 0 .. MaxDeletes

Init ==
    /\ made = {} /\ refs = [l \in Line |-> 0] /\ lines = <<>>
    /\ template = [s \in Session |-> None]
    /\ attached = [l \in Line |-> {}] /\ devlock = [l \in Line |-> None]
    /\ todo = [t \in Thread |-> <<>>] /\ jobs = <<>>
    /\ sub = [l \in Line |-> "none"] /\ pbx = {} /\ notifying = {}
    /\ queue = [l \in Line |-> <<>>]
    /\ mail \in Mail /\ shown = [l \in Line |-> None]
    /\ changes = 0 /\ regs = 0 /\ deletes = 0

(***************************************************************************)
(* Steps                                                                   *)
(***************************************************************************)
Idle(t) == todo[t] = <<>>
At(t, step, l) == todo[t] # <<>> /\ Head(todo[t]) = <<step, l>>
Then(t, steps) == todo' = [todo EXCEPT ![t] = steps \o Tail(@)]
Done(t) == Then(t, <<>>)
Retain(l) == refs' = [refs EXCEPT ![l] = @ + 1]
Release(l) == refs' = [refs EXCEPT ![l] = @ - 1]

(* A phone registers: its button template has a button for the line *)
(* (sccp_make_button_template, sccp_line_find_byname).              *)
Register(s) ==
    /\ Idle(s) /\ template[s] = None /\ regs < MaxRegs /\ regs' = regs + 1
    /\ IF lines = <<>>
       THEN todo' = [todo EXCEPT ![s] = <<<<"create", None>>>>] /\ UNCHANGED <<refs, template>>
       ELSE LET l == Head(lines) IN
            /\ Retain(l) /\ template' = [template EXCEPT ![s] = l]
            /\ todo' = [todo EXCEPT ![s] = <<<<"attach", l>>>>]
    /\ UNCHANGED <<made, lines, attached, devlock, deletes, jobs, subVars, mailVars>>

(* The database does not have the line, or sccp_line_create refuses a name *)
(* that has a line by now: the button stays without one.                   *)
Refused(s) ==
    /\ At(s, "create", None) /\ Done(s)
    /\ UNCHANGED <<lineVars, phoneVars, jobs, subVars, mailVars>>

Create(s) ==
    /\ At(s, "create", None) /\ lines = <<>>
    /\ \E l \in Line \ made :
          /\ made' = made \cup {l} /\ refs' = [refs EXCEPT ![l] = 1]
          /\ template' = [template EXCEPT ![s] = l]
          /\ Then(s, <<<<"list", l>>, <<"attach", l>>>>)
    /\ UNCHANGED <<lines, attached, devlock, regs, deletes, jobs, subVars, mailVars>>

(* sccp_line_addToGlobals: before a line of the same number; then the event, *)
(* for the pool to handle.  Between the two nobody could tell the difference *)
(* from a job that waits.                                                    *)
List(s, l) ==
    /\ At(s, "list", l) /\ lines' = <<l>> \o lines /\ jobs' = Append(jobs, l)
    /\ refs' = [refs EXCEPT ![l] = @ + 2] /\ Done(s)
    /\ UNCHANGED <<made, phoneVars, subVars, mailVars>>

(* sccp_linedevice_create *)
Attach(s, l) ==
    /\ At(s, "attach", l) /\ devlock[l] = None
    /\ IF s \in attached[l] THEN UNCHANGED <<attached, refs>>
       ELSE attached' = [attached EXCEPT ![l] = @ \cup {s}] /\ Retain(l)
    /\ Done(s)
    /\ UNCHANGED <<made, lines, template, devlock, regs, deletes, jobs, subVars, mailVars>>

(* The device is cleaned (_sccp_dev_clean): the line is found by its name. *)
Clean(s) ==
    /\ Idle(s) /\ template[s] # None
    /\ IF lines = <<>> THEN todo' = [todo EXCEPT ![s] = <<<<"forget", None>>>>] /\ UNCHANGED refs
       ELSE LET l == Head(lines) IN
            /\ Retain(l)
            /\ todo' = [todo EXCEPT ![s] = <<<<"remove", l>>, <<"put", l>>, <<"forget", None>>>>]
    /\ UNCHANGED <<made, lines, phoneVars, jobs, subVars, mailVars>>

(* sccp_linedevice_remove; the last device takes the line with it, with *)
(* line->devices locked.                                                *)
CleanLine(l) == <<<<"destroyed", l>>, <<"unlist", l>>, <<"unlock", l>>>>
RemoveDevice(s, l) ==
    /\ At(s, "remove", l) /\ devlock[l] = None
    /\ IF s \notin attached[l] THEN Done(s) /\ UNCHANGED <<attached, devlock, refs>>
       ELSE /\ attached' = [attached EXCEPT ![l] = @ \ {s}] /\ Release(l)
            /\ IF attached'[l] = {}
               THEN devlock' = [devlock EXCEPT ![l] = s] /\ Then(s, CleanLine(l))
               ELSE UNCHANGED devlock /\ Done(s)
    /\ UNCHANGED <<made, lines, template, regs, deletes, jobs, subVars, mailVars>>

(* A reload does not find the line in the database: sccp_line_post_reload *)
(* cleans it, and so does, inside, the removal of its last device.  A line *)
(* that only changed is cleaned of its devices and left to that removal;   *)
(* those are some of these steps, and are left out.                        *)
Delete(l) ==
    /\ Idle(Admin) /\ deletes < MaxDeletes /\ deletes' = deletes + 1
    /\ l \in Listed /\ Retain(l)
    /\ todo' = [todo EXCEPT ![Admin] = <<<<"purge", l>>, <<"destroyed", l>>, <<"unlist", l>>, <<"put", l>>>>]
    /\ UNCHANGED <<made, lines, template, attached, devlock, regs, jobs, subVars, mailVars>>

Purge(l) ==
    /\ At(Admin, "purge", l) /\ devlock[l] = None
    /\ IF attached[l] = {} THEN Done(Admin) /\ UNCHANGED <<attached, devlock, refs>>
       ELSE /\ attached' = [attached EXCEPT ![l] = {}]
            /\ refs' = [refs EXCEPT ![l] = @ - Cardinality(attached[l])]
            /\ devlock' = [devlock EXCEPT ![l] = Admin] /\ Then(Admin, CleanLine(l))
    /\ UNCHANGED <<made, lines, template, regs, deletes, jobs, subVars, mailVars>>

(* The event of sccp_line_clean is handled at once: removeSubscription takes *)
(* the subscription off the list.                                            *)
Destroyed(s, l) ==
    /\ At(s, "destroyed", l) /\ Retain(l)
    /\ IF sub[l] = "listed"
       THEN sub' = [sub EXCEPT ![l] = "taken"] /\ Then(s, <<<<"unsubscribe", l>>, <<"put", l>>>>)
       ELSE UNCHANGED sub /\ Then(s, <<<<"put", l>>>>)
    /\ UNCHANGED <<made, lines, phoneVars, jobs, pbx, queue, notifying, shown, mailVars>>

(* sccp_line_removeFromGlobals *)
UnlistUnasked(s, l) ==
    /\ At(s, "unlist", l) /\ Done(s)
    /\ lines' = RemoveFirst(lines, l) /\ Release(l)
    /\ UNCHANGED <<made, phoneVars, jobs, subVars, mailVars>>

Unlist(s, l) ==
    /\ At(s, "unlist", l) /\ Done(s)
    /\ IF l \in Listed THEN lines' = RemoveFirst(lines, l) /\ Release(l)
       ELSE UNCHANGED <<lines, refs>>
    /\ UNCHANGED <<made, phoneVars, jobs, subVars, mailVars>>

Unlock(s, l) ==
    /\ At(s, "unlock", l) /\ devlock' = [devlock EXCEPT ![l] = None] /\ Done(s)
    /\ UNCHANGED <<lineVars, template, attached, regs, deletes, jobs, subVars, mailVars>>

(* The button template is freed. *)
Forget(s) ==
    /\ At(s, "forget", None) /\ Release(template[s])
    /\ template' = [template EXCEPT ![s] = None] /\ Done(s)
    /\ UNCHANGED <<made, lines, attached, devlock, regs, deletes, jobs, subVars, mailVars>>

Put(t, l) ==
    /\ At(t, "put", l) /\ Release(l) /\ Done(t)
    /\ UNCHANGED <<made, lines, phoneVars, jobs, subVars, mailVars>>

(***************************************************************************)
(* Subscriptions                                                           *)
(***************************************************************************)
(* sccp_event_processor *)
Take(w) ==
    /\ Idle(w) /\ jobs # <<>> /\ jobs' = Tail(jobs)
    /\ todo' = [todo EXCEPT ![w] = <<<<"subscribe", Head(jobs)>>, <<"put", Head(jobs)>>>>]
    /\ UNCHANGED <<lineVars, phoneVars, subVars, mailVars>>

(* createSubscription: on the list first, then at the PBX *)
SubscribeUnretained(w, l) ==
    /\ At(w, "subscribe", l) /\ sub' = [sub EXCEPT ![l] = "listed"]
    /\ Then(w, <<<<"watch", l>>>>)
    /\ UNCHANGED <<lineVars, phoneVars, jobs, pbx, queue, notifying, shown, mailVars>>

Subscribe(w, l) ==
    /\ At(w, "subscribe", l) /\ Retain(l) /\ sub' = [sub EXCEPT ![l] = "listed"]
    /\ Then(w, <<<<"watch", l>>>>)
    /\ UNCHANGED <<made, lines, phoneVars, jobs, pbx, queue, notifying, shown, mailVars>>

(* The PBX is given the subscription and the handle it returns is stored in one  *)
(* step.  A removal in between reads no handle and frees a subscription that the *)
(* PBX keeps; here it comes before the step, and the subscription is "lost".     *)
WatchSilent(w, l) ==
    /\ At(w, "watch", l) /\ Done(w)
    /\ IF sub[l] = "freed" THEN sub' = [sub EXCEPT ![l] = "lost"] /\ UNCHANGED pbx
       ELSE pbx' = pbx \cup {l} /\ UNCHANGED sub
    /\ UNCHANGED <<lineVars, phoneVars, jobs, queue, notifying, shown, mailVars>>

Watch(w, l) ==
    /\ At(w, "watch", l) /\ Done(w)
    /\ IF sub[l] = "freed" THEN sub' = [sub EXCEPT ![l] = "lost"] /\ UNCHANGED <<pbx, queue>>
       ELSE /\ pbx' = pbx \cup {l} /\ queue' = [queue EXCEPT ![l] = <<"change">>]
            /\ UNCHANGED sub
    /\ UNCHANGED <<lineVars, phoneVars, jobs, notifying, shown, mailVars>>

(* the rest of removeSubscription *)
Free(s, l) == sub' = [sub EXCEPT ![l] = "freed"] /\ Release(l) /\ Done(s)

Unsubscribe(s, l) ==
    /\ At(s, "unsubscribe", l)
    /\ IF l \in pbx THEN pbx' = pbx \ {l} /\ Then(s, <<<<"join", l>>>>) /\ UNCHANGED <<sub, refs>>
       ELSE Free(s, l) /\ UNCHANGED pbx
    /\ UNCHANGED <<made, lines, phoneVars, jobs, queue, notifying, shown, mailVars>>

Delivered(l) == queue[l] = <<>> /\ l \notin notifying
Join(s, l) ==
    /\ At(s, "join", l) /\ Delivered(l) /\ Free(s, l)
    /\ UNCHANGED <<made, lines, phoneVars, jobs, pbx, queue, notifying, shown, mailVars>>

(***************************************************************************)
(* The mailbox                                                             *)
(***************************************************************************)
Publish ==
    /\ changes < MaxMail /\ changes' = changes + 1
    /\ mail' \in Mail \ {mail}
    /\ queue' = [l \in Line |-> IF l \in pbx THEN Append(queue[l], mail') ELSE queue[l]]
    /\ UNCHANGED <<lineVars, phoneVars, todo, jobs, sub, pbx, notifying, shown>>

(* pbx_mwi_event and the first part of NotifyLine; the news that a subscription *)
(* was made has the state read from the cache                                   *)
Deliver(l) ==
    /\ queue[l] # <<>> /\ l \notin notifying /\ queue' = [queue EXCEPT ![l] = Tail(@)]
    /\ shown' = [shown EXCEPT ![l] = IF Head(queue[l]) = "change" THEN mail ELSE Head(queue[l])]
    /\ notifying' = IF attached[l] = {} THEN notifying ELSE notifying \cup {l}
    /\ UNCHANGED <<lineVars, phoneVars, todo, jobs, sub, pbx, mailVars>>

(* The rest of NotifyLine: the devices are told with line->devices locked. *)
Notify(l) ==
    /\ l \in notifying /\ devlock[l] = None /\ notifying' = notifying \ {l}
    /\ UNCHANGED <<lineVars, phoneVars, todo, jobs, sub, pbx, queue, shown, mailVars>>
-----------------------------------------------------------------------------
SessionStep(s) ==
    \/ Register(s) \/ Refused(s) \/ Create(s) \/ Clean(s) \/ Forget(s)
    \/ \E l \in Line : List(s, l) \/ Attach(s, l) \/ RemoveDevice(s, l)

CleanStep(t) ==
    \E l \in Line :
        \/ Destroyed(t, l) \/ Unsubscribe(t, l) \/ Join(t, l)
        \/ Unlist(t, l) \/ Unlock(t, l)

WorkerStep(w) == Take(w) \/ \E l \in Line : Subscribe(w, l) \/ Watch(w, l)

Next ==
    \/ \E s \in Session : SessionStep(s)
    \/ \E t \in Cleaner : CleanStep(t)
    \/ \E w \in Worker : WorkerStep(w)
    \/ \E t \in Thread, l \in Line : Put(t, l)
    \/ \E l \in Line : Delete(l) \/ Purge(l) \/ Deliver(l) \/ Notify(l)
    \/ Publish

Spec == Init /\ [][Next]_vars

(***************************************************************************)
(* Properties                                                              *)
(***************************************************************************)
(* What has a line in use: the list of lines, a phone, a job, a thread, the *)
(* PBX.                                                                     *)
Pointed(l) == \E t \in Thread : \E n \in DOMAIN todo[t] : todo[t][n][2] = l
InUse(l) ==
    \/ l \in Listed \cup Range(jobs) \cup pbx \cup notifying \/ sub[l] \in {"listed", "taken"}
    \/ attached[l] # {} \/ \E s \in Session : template[s] = l
    \/ Pointed(l)

Quiet == (\A t \in Thread : Idle(t)) /\ jobs = <<>> /\ \A l \in Line : Delivered(l)

(* A line is alive for as long as anything has it in use, whichever of the  *)
(* phones, the job that was told of its creation and the removal comes last *)
(* (createSubscription, removeSubscription, sccp_line_clean): and when none *)
(* does it is released.                                                     *)
KeptWhileUsed ==
    /\ \A l \in Line : InUse(l) => refs[l] > 0
    /\ Quiet => \A l \in Line : ~InUse(l) => refs[l] = 0

(* When everything is done, a line in the list is subscribed to its mailbox *)
(* and has what the mailbox holds, although it was told by a job that comes *)
(* later (handleLineCreationEvent) and while its removal or the mailbox was *)
(* changing.                                                                *)
Informed ==
    Quiet => \A l \in Listed : sub[l] = "listed" /\ l \in pbx /\ shown[l] = mail

(***************************************************************************)
(* What the source says and the code does not keep                         *)
(***************************************************************************)

(* "unsubscription happens through the SCCP_EVENT_LINEINSTANCE_DESTROYED     *)
(* event that sccp_line_clean fires synchronously [...] No leak here"        *)
(* (__sccp_line_destroy): a line that was removed is subscribed to nothing.  *)
NoLeak == Quiet => \A l \in Line : sub[l] = "listed" => l \in Listed

(* The PBX is not given a subscription that has been freed (createSubscription). *)
NoneLost == \A l \in Line : sub[l] # "lost"

(* "may find another line instance create by another thread, in that case the *)
(* newly created line is going to be dropped" (sccp_config.c): one line of a   *)
(* name.                                                                      *)
OneLinePerName == Len(lines) <= 1

(* Phones that have been cleaned are on no line. *)
NoneLeftBehind == Quiet => \A l \in Line : \A s \in attached[l] : template[s] = l

(* The removal of a line does not wait for a delivery that waits for it        *)
(* (sccp_linedevice_remove, NotifyLine).                                       *)
NoDeadlock == \A s \in Cleaner, l \in Line : ~(At(s, "join", l) /\ l \in notifying /\ devlock[l] = s)
=============================================================================
