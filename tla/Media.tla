------------------------------- MODULE Media -------------------------------
(***************************************************************************)
(* The audio of one call: src/src/sccp_channel.c and sccp_rtp.c open and   *)
(* close the two streams of a phone, sccp_actions.c handles what the phone *)
(* answers, sccp_session.c counts the requests that are not answered yet.  *)
(*                                                                         *)
(* Two threads work on the call: the session thread of its phone, which    *)
(* handles acknowledgements and keys in the order they arrive, and a       *)
(* thread of the PBX, which answers, redirects and hangs up with the       *)
(* channel of the PBX locked.  What a handler has yet to do is a stack of  *)
(* steps, so that a step ends where the code reads or writes something the *)
(* other thread writes; a step that asks pbx_check_hangup_locked waits for *)
(* the lock of the channel.                                                *)
(*                                                                         *)
(* The phone receives from the moment it opened a port, and opens another  *)
(* one every time.  The state of a stream is a set of flags, as in         *)
(* sccp_enum.in.  Once requested, a stream has an instance in the PBX, so  *)
(* its absence is only a failure of opening.  Video, conferences, NAT,     *)
(* forwarding and what the phone shows are left out.                       *)
(***************************************************************************)
EXTENDS Naturals, Sequences

CONSTANTS Calls,     \* how the call may begin: ringing at the phone, or dialed by it
          Keys,      \* what the user may press: answer, hold, resume, endcall
          PbxOps,    \* what the PBX may do besides hanging up: progress, remote, peer
          Statuses,  \* what the phone may answer: ok, onhook, full
          MayFail,   \* can the PBX refuse a stream?
          Port,      \* where the phone can receive
          MaxKeys,   \* bound: keys pressed
          MaxOps,    \* bound: operations of the PBX
          Nobody     \* no thread, no port

ASSUME MediaAssumption ==
    /\ Calls \subseteq {"ringing", "dialing"} /\ MayFail \in BOOLEAN
    /\ Keys \subseteq {"answer", "hold", "resume", "endcall"}
    /\ PbxOps \subseteq {"progress", "remote", "peer"}
    /\ "ok" \in Statuses /\ Statuses \subseteq {"ok", "onhook", "full"}
    /\ MaxKeys \in Nat /\ MaxOps \in Nat
    /\ Nobody \notin Port \cup {"session", "pbx"}

VARIABLES
    todo,       \* what each thread has yet to do
    lock,       \* the thread that has the PBX channel locked
    ack,        \* the acknowledgement being handled
    result,     \* the state it results in
    call,       \* state, device (is it bound to the phone?), listed (on its line?), gone
                \* (hung up?), hanging (isHangingUp), hangup (the PBX's own flag), answering
                \* (isAnswering), answered (has the PBX answered for the other side?),
                \* redirected (was the phone told to send to another address?)
    rtp,        \* rx and tx, the states of reception and transmission; cb, the callback
                \* of reception; instance; address, where the PBX sends to
    inflight,   \* requestsInFlight of the session
    toPhone, fromPhone,    \* messages on their way
    phone,      \* the streams the phone has open, and its port
    keys, ops   \* keys pressed and operations of the PBX so far

vars == <<todo, lock, ack, result, call, rtp, inflight, toPhone, fromPhone, phone, keys, ops>>

Thread == {"session", "pbx"}
Flag == {"progress", "active", "error"}
Ack == [what : {"openAck", "startAck"}, status : Statuses, port : Port]
Key == [what : Keys]
Call == [state : {"ringing", "dialing", "connected", "hold", "down"},
         device : BOOLEAN, listed : BOOLEAN, gone : BOOLEAN, hanging : BOOLEAN,
         hangup : BOOLEAN, answering : BOOLEAN, answered : BOOLEAN,
         redirected : BOOLEAN]
Rtp == [rx : SUBSET Flag, tx : SUBSET Flag, cb : {"none", "start", "complete"},
        instance : BOOLEAN, address : Port \cup {Nobody}]
Phone == [rx : BOOLEAN, tx : BOOLEAN, port : Port \cup {Nobody}]

TypeOK ==
    /\ DOMAIN todo = Thread /\ lock \in Thread \cup {Nobody}
    /\ ack \in Ack \cup {Nobody} /\ result \subseteq Flag
    /\ call \in Call /\ rtp \in Rtp /\ phone \in Phone
    /\ toPhone \in Seq({"open", "close", "start", "stop"})
    /\ fromPhone \in Seq(Ack \cup Key)
    /\ inflight \in Nat /\ keys \in 0 .. MaxKeys /\ ops \in 0 .. MaxOps

Init ==
    /\ todo = [t \in Thread |-> <<>>] /\ lock = Nobody
    /\ ack = Nobody /\ result = {}
    /\ \E c \in Calls :
          call = [state |-> c, device |-> c = "dialing", listed |-> TRUE, gone |-> FALSE,
                  hanging |-> FALSE, hangup |-> FALSE, answering |-> FALSE,
                  answered |-> FALSE, redirected |-> FALSE]
    /\ rtp = [rx |-> {}, tx |-> {}, cb |-> "none", instance |-> FALSE, address |-> Nobody]
    /\ phone = [rx |-> FALSE, tx |-> FALSE, port |-> Nobody]
    /\ inflight = 0 /\ toPhone = <<>> /\ fromPhone = <<>> /\ keys = 0 /\ ops = 0

(***************************************************************************)
(* Steps                                                                   *)
(***************************************************************************)
Idle(t) == todo[t] = <<>>
At(t, step) == todo[t] # <<>> /\ Head(todo[t]) = step
Then(t, steps) == todo' = [todo EXCEPT ![t] = steps \o Tail(@)]
Done(t) == Then(t, <<>>)
Locks(t) == lock = Nobody /\ lock' = t
Send(m) == toPhone' = Append(toPhone, m)

(* isHangingUp, or else pbx_check_hangup_locked, which waits for the channel. *)
MayAsk(t) == call.hanging \/ lock \in {Nobody, t}
Ending == call.hanging \/ call.hangup

(* The thread cannot go on until another gives the channel up. *)
Blocked(t) ==
    /\ ~Idle(t) /\ lock \notin {Nobody, t}
    /\ \/ Head(todo[t]) \in {"callback", "answer", "completeLocked", "resume", "request", "flag"}
       \/ Head(todo[t]) \in {"open", "start", "opened", "started"} /\ ~call.hanging

(* sccp_channel_closeAllMediaTransmitAndReceive *)
CloseAll == <<"close", "stop">>

callOnly == <<ack, result, rtp, inflight, toPhone, fromPhone, phone, keys, ops>>
rtpOnly  == <<lock, ack, result, call, inflight, toPhone, fromPhone, phone, keys, ops>>
nothing  == <<lock, ack, result, call, rtp, inflight, toPhone, fromPhone, phone, keys, ops>>
sendOnly == <<lock, ack, result, call, rtp, inflight, fromPhone, phone, keys, ops>>

(* sccp_channel_openReceiveChannel *)
Open(t) ==
    /\ At(t, "open") /\ MayAsk(t)
    /\ Then(t, IF Ending \/ rtp.rx # {} \/ ~call.device THEN <<>> ELSE <<"openMark">>)
    /\ UNCHANGED nothing

OpenFails(t) ==
    /\ At(t, "openMark") /\ ~rtp.instance /\ MayFail
    /\ Done(t) /\ UNCHANGED nothing

OpenMark(t) ==
    /\ At(t, "openMark")
    /\ rtp' = [rtp EXCEPT !.instance = TRUE, !.rx = {"progress"}]
    /\ Then(t, <<"openSend">>) /\ UNCHANGED rtpOnly

OpenSend(t) ==
    /\ At(t, "openSend") /\ Send("open") /\ inflight' = inflight + 1 /\ Done(t)
    /\ UNCHANGED <<lock, ack, result, call, rtp, fromPhone, phone, keys, ops>>

(* sccp_channel_closeReceiveChannel and sccp_channel_stopMediaTransmission *)
Close(t) ==
    /\ At(t, "close")
    /\ IF call.device /\ rtp.rx # {}
       THEN Send("close") /\ Then(t, <<"closed">>)
       ELSE Done(t) /\ UNCHANGED toPhone
    /\ UNCHANGED sendOnly

ClosedPending(t) ==
    /\ At(t, "closed") /\ rtp' = [rtp EXCEPT !.rx = @ \ {"progress"}]
    /\ Done(t) /\ UNCHANGED rtpOnly

Closed(t) ==
    /\ At(t, "closed") /\ rtp' = [rtp EXCEPT !.rx = {}]
    /\ Done(t) /\ UNCHANGED rtpOnly

Stop(t) ==
    /\ At(t, "stop")
    /\ IF call.device /\ rtp.tx # {}
       THEN Send("stop") /\ Then(t, <<"stopped">>)
       ELSE Done(t) /\ UNCHANGED toPhone
    /\ UNCHANGED sendOnly

Stopped(t) ==
    /\ At(t, "stopped") /\ rtp' = [rtp EXCEPT !.tx = {}]
    /\ Done(t) /\ UNCHANGED rtpOnly

(* sccp_channel_startMediaTransmission *)
Start(t) ==
    /\ At(t, "start") /\ MayAsk(t)
    /\ Then(t, IF Ending \/ rtp.tx # {} THEN <<>> ELSE <<"startReady">>)
    /\ UNCHANGED nothing

StartReady(t) ==
    /\ At(t, "startReady")
    /\ Then(t, IF call.device /\ rtp.rx # {} THEN <<"startMark">> ELSE <<"close">>)
    /\ UNCHANGED nothing

StartMark(t) ==
    /\ At(t, "startMark") /\ rtp' = [rtp EXCEPT !.tx = @ \cup {"progress"}]
    /\ Then(t, <<"startSend">>) /\ UNCHANGED rtpOnly

StartSend(t) ==
    /\ At(t, "startSend") /\ Send("start") /\ Done(t) /\ UNCHANGED sendOnly

(* sccp_rtp_runCallback: it runs once, and only when the phone receives. *)
CallbackSteps == IF rtp.cb = "start" THEN <<"start">> ELSE <<"complete">>

RunCallback(t) ==
    IF rtp.cb # "none" /\ "active" \in rtp.rx
    THEN rtp' = [rtp EXCEPT !.cb = "none"] /\ Then(t, CallbackSteps)
    ELSE Done(t) /\ UNCHANGED rtp

Unlock(t) ==
    /\ At(t, "unlock") /\ lock' = Nobody /\ Done(t)
    /\ UNCHANGED <<callOnly, call>>

(***************************************************************************)
(* The session thread handles what the phone sends, one after the other    *)
(***************************************************************************)
Steps(m) ==
    CASE m.what = "openAck" -> <<"openAck", "answered">>
      [] m.what = "startAck" -> <<"startAck">>
      [] OTHER -> IF call.listed THEN <<m.what>> ELSE <<>>

Handle ==
    /\ Idle("session") /\ fromPhone # <<>>
    /\ LET m == Head(fromPhone)
       IN /\ todo' = [todo EXCEPT !["session"] = Steps(m)]
          /\ ack' = IF m.what \in {"openAck", "startAck"} THEN m ELSE Nobody
    /\ fromPhone' = Tail(fromPhone)
    /\ UNCHANGED <<lock, result, call, rtp, inflight, toPhone, phone, keys, ops>>

(* By the active channel of the phone, or among those of its lines. *)
Found == call.device \/ call.listed

Refused == IF ack.status = "full" THEN CloseAll \o <<"endcall">> ELSE CloseAll

(* The call is gone, the phone has opened all the same. *)
CloseLate == IF ack.status = "ok" THEN Send("close") ELSE UNCHANGED toPhone

(* handle_openReceiveChannelAck *)
OpenAck(t) ==
    /\ At(t, "openAck")
    /\ \/ /\ Found /\ "progress" \in rtp.rx /\ ack.status = "ok"
          /\ Then(t, <<"setPhone", "opened", "setRx">>)
          /\ UNCHANGED <<result, toPhone>>
       \/ /\ Found /\ "progress" \in rtp.rx /\ ack.status # "ok"
          /\ Then(t, Refused \o <<"setRx">>) /\ result' = {"error"}
          /\ UNCHANGED toPhone
       \/ /\ Found /\ "progress" \notin rtp.rx
          /\ Done(t) /\ UNCHANGED <<result, toPhone>>
       \/ /\ ~Found
          /\ CloseLate
          /\ Done(t) /\ UNCHANGED result
    /\ UNCHANGED <<lock, ack, call, rtp, inflight, fromPhone, phone, keys, ops>>

(* sccp_rtp_set_phone *)
FirstAddress == IF rtp.address = Nobody THEN ack.port ELSE rtp.address
NewAddress == IF call.device THEN ack.port ELSE rtp.address

SetPhone(t) ==
    /\ At(t, "setPhone")
    /\ rtp' = [rtp EXCEPT !.address = NewAddress]
    /\ Done(t) /\ UNCHANGED rtpOnly

(* sccp_channel_receiveChannelOpen *)
CallbackFirst == <<"callback", "append", "getRx">>
OpenedSteps == <<"append", "callback", "getRx">>

Opened(t) ==
    /\ At(t, "opened") /\ MayAsk(t)
    /\ IF Ending \/ call.state = "down"
       THEN result' = {"active"} /\ Done(t)
       ELSE Then(t, OpenedSteps) /\ UNCHANGED result
    /\ UNCHANGED <<lock, ack, call, rtp, inflight, toPhone, fromPhone, phone, keys, ops>>

AppendRx(t) ==
    /\ At(t, "append") /\ rtp' = [rtp EXCEPT !.rx = @ \cup {"active"}]
    /\ Done(t) /\ UNCHANGED rtpOnly

Callback(t) ==
    /\ At(t, "callback") /\ lock \in {Nobody, t}
    /\ IF call.hangup THEN Done(t) /\ UNCHANGED rtp ELSE RunCallback(t)
    /\ UNCHANGED rtpOnly

GetRx(t) ==
    /\ At(t, "getRx") /\ result' = rtp.rx /\ Done(t)
    /\ UNCHANGED <<lock, ack, call, rtp, inflight, toPhone, fromPhone, phone, keys, ops>>

SetRx(t) ==
    /\ At(t, "setRx") /\ rtp' = [rtp EXCEPT !.rx = result]
    /\ Done(t) /\ UNCHANGED rtpOnly

(* response_received, after the message was handled *)
BelowZero == inflight - 1
OneFewer == IF inflight > 0 THEN inflight - 1 ELSE 0

Answered(t) ==
    /\ At(t, "answered") /\ inflight' = OneFewer
    /\ Done(t)
    /\ UNCHANGED <<lock, ack, result, call, rtp, toPhone, fromPhone, phone, keys, ops>>

(* handle_startMediaTransmissionAck *)
StartAck(t) ==
    /\ At(t, "startAck")
    /\ \/ /\ Found /\ "progress" \in rtp.tx /\ ack.status = "ok"
          /\ Then(t, <<"started", "setTx">>) /\ result' = {"active"}
          /\ UNCHANGED toPhone
       \/ /\ Found /\ "progress" \in rtp.tx /\ ack.status # "ok"
          /\ Then(t, Refused \o <<"setTx">>) /\ result' = {"error"}
          /\ UNCHANGED toPhone
       \/ /\ Found /\ "progress" \notin rtp.tx
          /\ Done(t) /\ UNCHANGED <<result, toPhone>>
       \/ /\ ~Found
          /\ IF ack.status = "ok" THEN toPhone' = toPhone \o <<"close", "stop">>
                                  ELSE UNCHANGED toPhone
          /\ Done(t) /\ UNCHANGED result
    /\ UNCHANGED <<lock, ack, call, rtp, inflight, fromPhone, phone, keys, ops>>

(* sccp_channel_mediaTransmissionStarted *)
Started(t) ==
    /\ At(t, "started") /\ MayAsk(t)
    /\ Then(t, IF Ending \/ call.state = "down" THEN <<>> ELSE <<"appendTx">>)
    /\ UNCHANGED nothing

AppendTx(t) ==
    /\ At(t, "appendTx") /\ rtp' = [rtp EXCEPT !.tx = @ \cup {"active"}]
    /\ Done(t) /\ UNCHANGED rtpOnly

SetTx(t) ==
    /\ At(t, "setTx") /\ rtp' = [rtp EXCEPT !.tx = result]
    /\ Done(t) /\ UNCHANGED rtpOnly

(* sccp_channel_answer: the rest waits until the phone receives. *)
Answer(t) ==
    /\ At(t, "answer") /\ lock = Nobody
    /\ IF call.state = "ringing" /\ ~call.hangup /\ ~call.answering
       THEN /\ lock' = t
            /\ call' = [call EXCEPT !.answering = TRUE, !.device = TRUE]
            /\ rtp' = [rtp EXCEPT !.cb = "complete"]
            /\ Then(t, <<"open", "unlock">>)
       ELSE Done(t) /\ UNCHANGED <<lock, call, rtp>>
    /\ UNCHANGED <<ack, result, inflight, toPhone, fromPhone, phone, keys, ops>>

(* channel_answer_completion *)
Complete(t) ==
    /\ At(t, "complete")
    /\ Then(t, IF call.device /\ call.answering THEN <<"completeLocked">> ELSE <<>>)
    /\ UNCHANGED nothing

CompleteLocked(t) ==
    /\ At(t, "completeLocked") /\ Locks(t)
    /\ Then(t, IF call.hangup THEN <<"unlock">>
               ELSE <<"start", "connected", "connectedMedia", "unlock">>)
    /\ UNCHANGED <<callOnly, call>>

(* sccp_indicate, CONNECTED *)
KeepCallback == rtp.cb
ConnectedCallback == "start"

Connected(t) ==
    /\ At(t, "connected")
    /\ call' = [call EXCEPT !.state = "connected"]
    /\ rtp' = [rtp EXCEPT !.cb = ConnectedCallback]
    /\ Done(t)
    /\ UNCHANGED <<lock, ack, result, inflight, toPhone, fromPhone, phone, keys, ops>>

ConnectedMedia(t) ==
    /\ At(t, "connectedMedia")
    /\ \/ rtp.rx = {} /\ Then(t, <<"open">>) /\ UNCHANGED rtp
       \/ rtp.rx # {} /\ rtp.tx = {} /\ RunCallback(t)
       \/ rtp.rx # {} /\ rtp.tx # {} /\ rtp' = [rtp EXCEPT !.cb = "none"] /\ Done(t)
    /\ UNCHANGED rtpOnly

(* sccp_channel_hold takes no lock.  It also accepts a dialed call that the PBX *)
(* is proceeding with (SCCP_CHANNELSTATE_PROCEED), and so does the resumption;  *)
(* "dialing" stands for every state of a call before it is answered, and is not *)
(* put on hold here.                                                            *)
UnbindFirst == <<"unbind">> \o CloseAll
HoldSteps == CloseAll \o <<"unbind">>

Hold(t) ==
    /\ At(t, "hold")
    /\ IF call.device /\ call.state = "connected"
       THEN call' = [call EXCEPT !.state = "hold"] /\ Then(t, HoldSteps)
       ELSE Done(t) /\ UNCHANGED call
    /\ UNCHANGED <<callOnly, lock>>

Unbind(t) ==
    /\ At(t, "unbind") /\ call' = [call EXCEPT !.device = FALSE]
    /\ Done(t) /\ UNCHANGED <<callOnly, lock>>

(* sccp_channel_resume *)
Resume(t) ==
    /\ At(t, "resume") /\ Locks(t)
    /\ Then(t, IF call.state = "connected" THEN <<"hold", "resumeHeld">> ELSE <<"resumeHeld">>)
    /\ UNCHANGED <<callOnly, call>>

ResumeHeld(t) ==
    /\ At(t, "resumeHeld")
    /\ IF call.state = "hold"
       THEN /\ call' = [call EXCEPT !.device = TRUE]
            /\ Then(t, <<"connected", "connectedMedia", "unlock">>)
       ELSE Then(t, <<"unlock">>) /\ UNCHANGED call
    /\ UNCHANGED <<callOnly, lock>>

(* sccp_channel_endcall and sccp_astgenwrap_handleHangup *)
Endcall(t) ==
    /\ At(t, "endcall") /\ call' = [call EXCEPT !.hanging = TRUE]
    /\ Then(t, <<"request">>) /\ UNCHANGED <<callOnly, lock>>

Request(t) ==
    /\ At(t, "request") /\ lock \in {Nobody, t}
    /\ IF call.hangup
       THEN /\ call' = [call EXCEPT !.state = IF call.device THEN "down" ELSE @]
            /\ Done(t)
       ELSE Then(t, <<"flag">>) /\ UNCHANGED call
    /\ UNCHANGED <<callOnly, lock>>

SetFlag(t) ==
    /\ At(t, "flag") /\ lock \in {Nobody, t}
    /\ call' = [call EXCEPT !.hangup = TRUE]
    /\ Done(t) /\ UNCHANGED <<callOnly, lock>>

(***************************************************************************)
(* The thread of the PBX                                                   *)
(***************************************************************************)
Operates(op, steps) ==
    /\ Idle("pbx") /\ ~call.gone
    /\ op \in PbxOps /\ ops < MaxOps /\ ops' = ops + 1
    /\ call.device
    /\ todo' = [todo EXCEPT !["pbx"] = steps]
    /\ UNCHANGED <<ack, result, rtp, inflight, toPhone, fromPhone, phone, keys>>

(* makeProgress, or the PBX prods the channel: the phone is to hear inband tones. *)
Progress ==
    /\ call.state = "dialing" /\ rtp.rx = {}
    /\ Locks("pbx") /\ Operates("progress", <<"open", "unlock">>)
    /\ UNCHANGED call

(* sccp_astwrap_answer gives the channel up while it waits.  The PBX takes the *)
(* channel for answered whatever comes of it, and does not answer it twice.     *)
RemoteAnswers ==
    /\ call.state = "dialing" /\ ~call.answered /\ lock = Nobody
    /\ Operates("remote", <<"wait", "relock", "remote", "unlock">>)
    /\ call' = [call EXCEPT !.answered = TRUE]
    /\ UNCHANGED lock

(* sccp_astwrap_update_rtp_peer, for an address that is new: not on hold. *)
UpdatePeer ==
    /\ call.state # "hold"
    /\ Locks("pbx") /\ Operates("peer", <<"peer", "unlock">>)
    /\ call' = [call EXCEPT !.redirected = TRUE]

(* sccp_pbx_hangup, with the channel locked *)
Hangup ==
    /\ Idle("pbx") /\ ~call.gone /\ Locks("pbx")
    /\ call' = [call EXCEPT !.hanging = TRUE]
    /\ todo' = [todo EXCEPT !["pbx"] =
                  (IF call.device THEN <<"wait">> ELSE <<>>)
                    \o CloseAll \o <<"unlist", "onhook", "clean", "gone", "unlock">>]
    /\ UNCHANGED callOnly

(* sccp_session_waitForPendingRequests *)
Waited ==
    /\ At("pbx", "wait") /\ inflight = 0
    /\ Done("pbx") /\ UNCHANGED nothing

WaitsForEver == FALSE

(* Five seconds pass only when the phone takes its time or the thread of the *)
(* session is kept waiting itself.  An answer is given up then.               *)
TimesOut ==
    /\ At("pbx", "wait") /\ inflight > 0
    /\ (Idle("session") /\ fromPhone = <<>>) \/ Blocked("session")
    /\ inflight' = 0
    /\ todo' = [todo EXCEPT !["pbx"] = IF lock = "pbx" THEN Tail(@) ELSE <<>>]
    /\ UNCHANGED <<lock, ack, result, call, rtp, toPhone, fromPhone, phone, keys, ops>>

Relock ==
    /\ At("pbx", "relock") /\ Locks("pbx")
    /\ Done("pbx") /\ UNCHANGED <<callOnly, call>>

(* sccp_pbx_remote_answer *)
MediaFirst == <<"connectedMedia", "connected">>
RemoteSteps == <<"connected", "connectedMedia">>

Remote ==
    /\ At("pbx", "remote")
    /\ Then("pbx", IF call.device THEN RemoteSteps ELSE <<>>)
    /\ UNCHANGED nothing

(* sccp_rtp_set_peer and sccp_channel_updateMediaTransmission *)
SetPeer ==
    /\ At("pbx", "peer")
    /\ Then("pbx", IF rtp.tx # {} THEN <<"stop", "start">> ELSE <<>>)
    /\ UNCHANGED nothing

Unlist ==
    /\ At("pbx", "unlist") /\ call' = [call EXCEPT !.listed = FALSE]
    /\ Done("pbx") /\ UNCHANGED <<callOnly, lock>>

Onhook ==
    /\ At("pbx", "onhook") /\ call' = [call EXCEPT !.state = "down"]
    /\ Done("pbx") /\ UNCHANGED <<callOnly, lock>>

(* sccp_channel_clean closes the media once more. *)
Clean ==
    /\ At("pbx", "clean")
    /\ Then("pbx", IF call.device THEN CloseAll \o <<"unbind">> ELSE <<>>)
    /\ UNCHANGED nothing

Gone ==
    /\ At("pbx", "gone") /\ call' = [call EXCEPT !.gone = TRUE, !.hangup = TRUE]
    /\ Done("pbx") /\ UNCHANGED <<callOnly, lock>>

(***************************************************************************)
(* The phone and its user                                                  *)
(***************************************************************************)
Press ==
    /\ keys < MaxKeys /\ keys' = keys + 1
    /\ \E k \in Keys : fromPhone' = Append(fromPhone, [what |-> k])
    /\ UNCHANGED <<todo, lock, ack, result, call, rtp, inflight, toPhone, phone, ops>>

Tells(what, s, p) ==
    fromPhone' = Append(fromPhone, [what |-> what, status |-> s, port |-> p])

PhoneOpens ==
    /\ toPhone # <<>> /\ Head(toPhone) = "open"
    /\ \E s \in Statuses, p \in Port \ {phone.port} :
          /\ Tells("openAck", s, p)
          /\ phone' = IF s = "ok" THEN [phone EXCEPT !.rx = TRUE, !.port = p] ELSE phone

PhoneStarts ==
    /\ toPhone # <<>> /\ Head(toPhone) = "start"
    /\ \E s \in Statuses, p \in Port :
          /\ p = phone.port
          /\ Tells("startAck", s, p)
          /\ phone' = IF s = "ok" THEN [phone EXCEPT !.tx = TRUE] ELSE phone

PhoneCloses ==
    /\ toPhone # <<>> /\ Head(toPhone) \in {"close", "stop"}
    /\ phone' = IF Head(toPhone) = "close" THEN [phone EXCEPT !.rx = FALSE]
                                            ELSE [phone EXCEPT !.tx = FALSE]
    /\ UNCHANGED fromPhone

PhoneStep ==
    /\ PhoneOpens \/ PhoneStarts \/ PhoneCloses
    /\ toPhone' = Tail(toPhone)
    /\ UNCHANGED <<todo, lock, ack, result, call, rtp, inflight, keys, ops>>

(***************************************************************************)
(* The specification                                                       *)
(***************************************************************************)
MediaStep(t) ==
    \/ Open(t) \/ OpenFails(t) \/ OpenMark(t) \/ OpenSend(t)
    \/ Close(t) \/ Closed(t) \/ Stop(t) \/ Stopped(t)
    \/ Start(t) \/ StartReady(t) \/ StartMark(t) \/ StartSend(t)
    \/ Connected(t) \/ ConnectedMedia(t) \/ Unbind(t) \/ Unlock(t)

SessionStep ==
    \/ Handle \/ MediaStep("session")
    \/ \E t \in {"session"} :
          \/ OpenAck(t) \/ SetPhone(t) \/ Opened(t) \/ AppendRx(t) \/ Callback(t)
          \/ GetRx(t) \/ SetRx(t) \/ Answered(t)
          \/ StartAck(t) \/ Started(t) \/ AppendTx(t) \/ SetTx(t)
          \/ Answer(t) \/ Complete(t) \/ CompleteLocked(t)
          \/ Hold(t) \/ Resume(t) \/ ResumeHeld(t)
          \/ Endcall(t) \/ Request(t) \/ SetFlag(t)

PbxStep ==
    \/ MediaStep("pbx")
    \/ Waited \/ TimesOut \/ Relock \/ Remote \/ SetPeer
    \/ Unlist \/ Onhook \/ Clean \/ Gone

PbxBegins == Progress \/ RemoteAnswers \/ UpdatePeer \/ Hangup

Next == SessionStep \/ PbxStep \/ PbxBegins \/ Press \/ PhoneStep

Spec == Init /\ [][Next]_vars

(* Threads that can go on do; the PBX hangs up a channel that was flagged. *)
Fairness ==
    /\ WF_vars(SessionStep) /\ WF_vars(PbxStep)
    /\ WF_vars(Hangup /\ call.hangup)

FairSpec == Spec /\ Fairness

(***************************************************************************)
(* What the calls promise                                                  *)
(***************************************************************************)
(* Everything sent was handled, everything begun is over. *)
Quiet == \A t \in Thread : Idle(t) /\ toPhone = <<>> /\ fromPhone = <<>>

(* A phone that is on hold, or whose call is over, neither receives nor     *)
(* sends, whatever was on its way when the streams were closed              *)
(* (sccp_channel_closeAllMediaTransmitAndReceive, and the close sent in     *)
(* answer to an acknowledgement that has no channel), unless the PBX had    *)
(* redirected the transmission meanwhile.                                   *)
Silent ==
    Quiet /\ (call.gone \/ call.state = "hold") /\ ~call.redirected
        => ~phone.rx /\ ~phone.tx

(* A call that is connected and not ending can be heard both ways, unless   *)
(* the PBX refused the stream: no order of the two threads loses the         *)
(* callback that starts the transmission (sccp_rtp_runCallback,              *)
(* sccp_indicate).                                                          *)
TwoWay ==
    Quiet /\ call.state = "connected" /\ ~Ending /\ ~call.redirected /\ rtp.instance
        => phone.rx /\ phone.tx

(* The driver and the phone agree on what is open. *)
Agreement ==
    Quiet /\ ~Ending /\ ~call.redirected =>
        (phone.rx <=> "active" \in rtp.rx) /\ (phone.tx <=> "active" \in rtp.tx)

(* The PBX sends to the port the phone opened last, although the answer to  *)
(* an earlier opening may have been taken for that of the latest            *)
(* (handle_openReceiveChannelAck, sccp_rtp_set_phone).                      *)
AddressKnown == Quiet /\ ~Ending /\ phone.rx => rtp.address = phone.port

(* A hangup, once begun, returns, also when the session thread waits for the *)
(* channel that the hangup holds, and when the phone never answers.          *)
HangupReturns == (At("pbx", "wait") /\ lock = "pbx") ~> call.gone

(* A call that the user answers is connected or ends, if the phone answers,  *)
(* unless the PBX refused the stream: nothing then runs the callback         *)
(* (sccp_channel_answer, sccp_channel_receiveChannelOpen).                  *)
AnswerEnds ==
    WF_vars(PhoneStep) =>
        (call.answering /\ rtp.instance ~> call.state = "connected" \/ Ending)

(***************************************************************************)
(* What the source says and the code does not keep                         *)
(***************************************************************************)
(* What the driver records as started is running at the phone.              *)
(* handle_startMediaTransmissionAck ignores an acknowledgement it does not   *)
(* wait for, since "The stream is already running".                         *)
AlreadyRunning == Quiet /\ ~Ending /\ "active" \in rtp.tx => phone.tx
=============================================================================
