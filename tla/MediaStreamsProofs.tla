------------------------- MODULE MediaStreamsProofs -------------------------
(***************************************************************************)
(* Proofs about the streams of a call of Media that nobody ends or         *)
(* redirects: once every thread has nothing left to do and every message   *)
(* has been read, the PBX sends to the port that the phone opened last     *)
(* (PortKnown), whatever the phone refused; and if it refused nothing, the *)
(* driver and the phone agree on what is open (StreamsAgree) and a call    *)
(* that is connected is heard both ways (HeardBothWays).                   *)
(*                                                                         *)
(* While the call is not ending, no hangup has begun, so that the session  *)
(* thread is alone with the phone.  What is said of the streams when all   *)
(* is quiet is said of every other state with what is still to come: a     *)
(* stream that is requested is open, or a message that opens it is on its  *)
(* way, or the answer that refuses it is (OpenInv); the port is known, or  *)
(* the last answer on its way tells it, or the step that takes it down is  *)
(* next (AddressInv); a stream that is recorded as started is              *)
(* acknowledged, or will be (StartInv); and a call that is connected       *)
(* sends, or the callback that makes it send is waiting for the reception  *)
(* or about to run (ConnectInv).  One lemma per action shows that the      *)
(* session keeps all this; the streams go on (...Goes).                    *)
(*                                                                         *)
(* A phone that may refuse breaks both: a call whose phone is on the hook  *)
(* stays connected without its streams, and a refusal of a second start is *)
(* ignored when the agreement to the first was taken for the answer to the *)
(* second (AlreadyRunning).                                                *)
(***************************************************************************)
EXTENDS MediaProofs

(***************************************************************************)
(* What is on its way                                                      *)
(***************************************************************************)
OpenSent == \E i \in 1 .. Len(toPhone) : toPhone[i] = "open"
StartSent == \E i \in 1 .. Len(toPhone) : toPhone[i] = "start"
StartAcks == \E i \in 1 .. Len(fromPhone) : fromPhone[i].what = "startAck"
NoAnswer == \A i \in 1 .. Len(fromPhone) : fromPhone[i].what # "openAck"
RefusalDue ==
    \E i \in 1 .. Len(fromPhone) :
       fromPhone[i].what = "openAck" /\ fromPhone[i].status # "ok"

(* An answer that refuses, or tells the port at which the phone receives *)
Right(a) == a.status # "ok" \/ a.port = phone.port
LastTells ==
    \E i \in 1 .. Len(fromPhone) :
       /\ fromPhone[i].what = "openAck" /\ Right(fromPhone[i])
       /\ \A j \in 1 .. Len(fromPhone) : j > i => fromPhone[j].what # "openAck"

(***************************************************************************)
(* The invariant of a call that nobody ends                                *)
(***************************************************************************)
Closing == In("close", todo["session"]) \/ At("session", "closed")
Stopping == In("stop", todo["session"]) \/ At("session", "stopped")
(* What is to be recorded of the reception is known. *)
Resulting ==
    /\ In("setRx", todo["session"])
    /\ ~In("getRx", todo["session"]) /\ ~In("opened", todo["session"])

CallInv == call.listed /\ call.state # "down"

(* What is done for a phone is done while the call has it. *)
DeviceInv ==
    /\ (\/ rtp.rx # {} \/ call.state = "connected" \/ In("setRx", todo["session"])
        \/ In("connected", todo["session"]) \/ In("connectedMedia", todo["session"])
        \/ At("session", "completeLocked"))
         => call.device
    /\ In("unbind", todo["session"]) => call.state = "hold" /\ (~Closing => rtp.rx = {})

(* A request that was made is remembered until the stream is closed. *)
ShapeInv ==
    /\ rtp.rx \in {{}, {"error"}, {"progress"}, {"progress", "active"}}
    /\ Resulting /\ Closing => result = {"error"}
    /\ Resulting /\ ~Closing => result = rtp.rx \/ (result = {"error"} /\ rtp.rx = {})
    /\ (At("session", "openSend") \/ In("opened", todo["session"]) \/ At("session", "append"))
         => "progress" \in rtp.rx

(* What was requested is open, or will be, or will be refused and closed. *)
OpenInv ==
    /\ MayReceive => "progress" \in rtp.rx
    /\ "progress" \in rtp.rx =>
          \/ MayReceive \/ At("session", "openSend") \/ Closing
          \/ RefusalDue \/ (At("session", "openAck") /\ ack.status # "ok")

(* The port at which the phone receives is known, or will be. *)
AddressInv ==
    phone.rx /\ "progress" \in rtp.rx /\ ~OpenSent /\ ~At("session", "openSend") /\ ~Closing =>
       \/ LastTells
       \/ /\ NoAnswer
          /\ \/ At("session", "openAck") /\ Right(ack)
             \/ At("session", "setPhone") /\ ack.port = phone.port
             \/ /\ rtp.address = phone.port
                /\ ~At("session", "openAck") /\ ~At("session", "setPhone")
                /\ \/ "active" \in rtp.rx \/ At("session", "opened") \/ At("session", "append")

Known == CallInv /\ DeviceInv /\ ShapeInv /\ OpenInv /\ AddressInv

(* The phone agrees to all. *)
AgreedInv ==
    /\ "error" \notin rtp.rx /\ "error" \notin rtp.tx
    /\ Resulting => result = rtp.rx
    /\ In("setTx", todo["session"]) => result = {"active"} /\ rtp.tx # {}
    /\ At("session", "startAck") => ack.status = "ok"
    /\ rtp.tx # {} => call.device
    /\ In("unbind", todo["session"]) /\ ~Stopping => rtp.tx = {}
    /\ Closing \/ Stopping =>
          /\ call.state = "hold"
          /\ ~In("setRx", todo["session"]) /\ ~In("setTx", todo["session"])

(* What is recorded as started is sending, or will be, and will be acknowledged. *)
StartInv ==
    rtp.tx # {} =>
       /\ MaySend \/ At("session", "startSend") \/ Stopping
       /\ \/ "active" \in rtp.tx \/ At("session", "startSend") \/ Stopping
          \/ StartSent \/ StartAcks \/ At("session", "startAck")
          \/ In("setTx", todo["session"])

(* A call that is connected has its streams, or somebody sees to it. *)
ConnectInv ==
    /\ call.state = "connected" /\ rtp.rx = {} =>
          \/ ~rtp.instance \/ In("connectedMedia", todo["session"])
          \/ At("session", "open") \/ At("session", "openMark")
    /\ \A s \in {"complete", "completeLocked", "start", "startReady"} :
          At("session", s) => rtp.rx # {}
    /\ call.state = "connected" =>
          \/ rtp.tx # {}
          \/ At("session", "start") \/ At("session", "startReady") \/ At("session", "startMark")
          \/ /\ rtp.cb = "start"
             /\ "active" \in rtp.rx =>
                   At("session", "callback") \/ In("connectedMedia", todo["session"])

Served == AgreedInv /\ StartInv /\ ConnectInv

Going == TypeInv /\ SilentInv /\ ~Ending /\ Known

(***************************************************************************)
(* The stack of the session                                                *)
(***************************************************************************)
(* The session is at a first step, with more under it. *)
Leads(a, S, r) ==
    /\ todo["session"] # <<>> /\ Head(todo["session"]) = a
    /\ \A x : In(x, todo["session"]) <=> x \in S \/ In(x, r)

(* What takes the place of a step *)
LEMMA Leading ==
    ASSUME NEW r \in Seq(Step)
    PROVE  /\ \A a \in Step : todo'["session"] = <<a>> \o r => Leads(a, {a}, r)'
           /\ \A a, b \in Step : todo'["session"] = <<a, b>> \o r => Leads(a, {a, b}, r)'
           /\ \A a, b, c \in Step :
                 todo'["session"] = <<a, b, c>> \o r => Leads(a, {a, b, c}, r)'
           /\ \A a, b, c, d \in Step :
                 todo'["session"] = <<a, b, c, d>> \o r => Leads(a, {a, b, c, d}, r)'
<1>1. ASSUME NEW a \in Step, NEW q \in Seq(Step)
      PROVE  /\ On(a, q) \in Seq(Step) /\ On(a, q) # <<>> /\ Head(On(a, q)) = a
             /\ \A x : In(x, On(a, q)) <=> x = a \/ In(x, q)
  BY StackFacts
<1>2. ASSUME NEW a \in Step, todo'["session"] = <<a>> \o r PROVE Leads(a, {a}, r)'
  <2>1. todo'["session"] = On(a, r)
    BY <1>2, PushStep
  <2> QED
    BY <1>1, <2>1 DEF Leads
<1>3. ASSUME NEW a \in Step, NEW b \in Step, todo'["session"] = <<a, b>> \o r
      PROVE  Leads(a, {a, b}, r)'
  <2>1. PICK q \in Seq(Step) : q = On(b, r) /\ \A x : In(x, q) <=> x = b \/ In(x, r)
    BY <1>1
  <2>2. todo'["session"] = On(a, q)
    BY <1>3, <2>1, PushStep
  <2> QED
    BY <1>1, <2>1, <2>2 DEF Leads
<1>4. ASSUME NEW a \in Step, NEW b \in Step, NEW c \in Step,
             todo'["session"] = <<a, b, c>> \o r
      PROVE  Leads(a, {a, b, c}, r)'
  <2>1. PICK p \in Seq(Step) : p = On(c, r) /\ \A x : In(x, p) <=> x = c \/ In(x, r)
    BY <1>1
  <2>2. PICK q \in Seq(Step) : q = On(b, p) /\ \A x : In(x, q) <=> x = b \/ In(x, p)
    BY <1>1
  <2>3. todo'["session"] = On(a, q)
    <3>1. <<a, b, c>> \o r = On(a, On(b, On(c, r)))
      BY PushStep, SMTT(30)
    <3> QED
      BY <1>4, <2>1, <2>2, <3>1
  <2> QED
    BY <1>1, <2>1, <2>2, <2>3 DEF Leads
<1>5. ASSUME NEW a \in Step, NEW b \in Step, NEW c \in Step, NEW d \in Step,
             todo'["session"] = <<a, b, c, d>> \o r
      PROVE  Leads(a, {a, b, c, d}, r)'
  <2>1. PICK o \in Seq(Step) : o = On(d, r) /\ \A x : In(x, o) <=> x = d \/ In(x, r)
    BY <1>1
  <2>2. PICK p \in Seq(Step) : p = On(c, o) /\ \A x : In(x, p) <=> x = c \/ In(x, o)
    BY <1>1
  <2>3. PICK q \in Seq(Step) : q = On(b, p) /\ \A x : In(x, q) <=> x = b \/ In(x, p)
    BY <1>1
  <2>4. todo'["session"] = On(a, q)
    <3>1. <<a, b, c, d>> \o r = On(a, On(b, On(c, On(d, r))))
      BY PushStep, SMTT(30)
    <3> QED
      BY <1>5, <2>1, <2>2, <2>3, <3>1
  <2> QED
    BY <1>1, <2>1, <2>2, <2>3, <2>4 DEF Leads
<1> QED
  BY <1>2, <1>3, <1>4, <1>5

(* What is under each step *)
LEMMA RestHas ==
    ASSUME NEW h, NEW r \in SessionRests(h)
    PROVE  /\ r \in Seq(Step)
           /\ r # <<>> => Head(r) \in {"answered", "setRx", "getRx", "unlock", "setTx",
                                       "resumeHeld", "endcall", "unbind", "stop", "connected",
                                       "opened", "callback", "connectedMedia"}
           /\ h \in {"answer", "resume", "resumeHeld", "startAck", "answered", "setTx"} =>
                 r = <<>> /\ \A x : ~In(x, r)
           /\ h \in {"openAck", "setRx"} => \A x : In(x, r) <=> x = "answered"
           /\ h \in {"opened", "getRx"} => \A x : In(x, r) <=> x \in {"setRx", "answered"}
           /\ h = "setPhone" =>
                 /\ r # <<>> /\ Head(r) = "opened"
                 /\ \A x : In(x, r) <=> x \in {"opened", "setRx", "answered"}
           /\ h = "append" =>
                 /\ r # <<>> /\ Head(r) = "callback"
                 /\ \A x : In(x, r) <=> x \in {"callback", "getRx", "setRx", "answered"}
           /\ h \in {"callback", "complete", "completeLocked"} =>
                 \A x : In(x, r) <=> x \in {"getRx", "setRx", "answered"}
           /\ h \in {"started", "appendTx"} => \A x : In(x, r) <=> x = "setTx"
           /\ h \in {"hold", "unbind"} => \A x : In(x, r) => x = "resumeHeld"
           /\ h \in {"stop", "stopped"} =>
                 \A x \in {"close", "stop", "connected", "connectedMedia", "getRx", "opened"} :
                    ~In(x, r)
           /\ h \in {"close", "closed"} =>
                 ~In("close", r) /\ ~In("opened", r) /\ (In("unbind", r) => In("stop", r))
           /\ h \in {"start", "startReady", "startMark", "startSend"} =>
                 /\ In("setRx", r) => In("getRx", r)
                 /\ \A x \in {"unbind", "close", "stop", "setTx", "opened"} : ~In(x, r)
           /\ h \in {"open", "openMark", "openSend", "connectedMedia"} =>
                 /\ In("setRx", r) => In("getRx", r)
                 /\ \A x \in {"unbind", "close", "stop", "setTx", "opened", "connected",
                              "connectedMedia"} : ~In(x, r)
           /\ h = "connected" =>
                 /\ In("connectedMedia", r) /\ (In("setRx", r) => In("getRx", r))
                 /\ \A x \in {"unbind", "close", "stop", "setTx", "opened", "connected"} :
                       ~In(x, r)
           /\ h = "unlock" =>
                 /\ \A x : In(x, r) => x \in {"getRx", "setRx", "answered"}
                 /\ In("setRx", r) => In("getRx", r)
<1>1. r \in Seq(Step) /\ (r = <<>> \/ Uncovered(h, r))
  BY RestsUncovered
<1>2. r # <<>> => Head(r) \in {"answered", "setRx", "getRx", "unlock", "setTx",
                               "resumeHeld", "endcall", "unbind", "stop", "connected",
                               "opened", "callback", "connectedMedia"}
  <2>1. ASSUME NEW k \in {"answered", "setRx", "getRx", "unlock", "setTx", "resumeHeld",
                          "endcall", "unbind", "stop", "connected", "opened", "callback",
                          "connectedMedia"},
               NEW q \in Seq(Step), r = On(k, q)
        PROVE  Head(r) = k
    <3>1. k \in Step
      BY AllSteps
    <3> QED
      BY <2>1, <3>1, StackFacts
  <2> QED
    BY <1>1, <2>1 DEF Uncovered
<1>3. h \in {"answer", "resume", "resumeHeld", "startAck", "answered", "setTx"} =>
         r = <<>> /\ \A x : ~In(x, r)
  BY RestTable, StackFacts
<1>4. /\ h \in {"openAck", "setRx"} => \A x : In(x, r) <=> x = "answered"
      /\ h \in {"opened", "getRx"} => \A x : In(x, r) <=> x \in {"setRx", "answered"}
      /\ h \in {"callback", "complete", "completeLocked"} =>
            \A x : In(x, r) <=> x \in {"getRx", "setRx", "answered"}
      /\ h \in {"started", "appendTx"} => \A x : In(x, r) <=> x = "setTx"
  BY RestTable, Contents
<1>5. ASSUME h = "setPhone"
      PROVE  /\ r # <<>> /\ Head(r) = "opened"
             /\ \A x : In(x, r) <=> x \in {"opened", "setRx", "answered"}
  <2>1. "opened" \in Step /\ r = On("opened", Setting)
    BY <1>5, RestTable, AllSteps
  <2> QED
    BY <2>1, StackFacts, Contents
<1>6. ASSUME h = "append"
      PROVE  /\ r # <<>> /\ Head(r) = "callback"
             /\ \A x : In(x, r) <=> x \in {"callback", "getRx", "setRx", "answered"}
  <2>1. "callback" \in Step /\ r = On("callback", Getting)
    BY <1>6, RestTable, AllSteps
  <2> QED
    BY <2>1, StackFacts, Contents
<1>7. h \in {"hold", "unbind"} => \A x : In(x, r) => x = "resumeHeld"
  BY RestTable, Helds
<1>8. ASSUME h \in {"open", "openMark", "openSend", "connectedMedia"}
      PROVE  /\ In("setRx", r) => In("getRx", r)
             /\ \A x \in {"unbind", "close", "stop", "setTx", "opened", "connected",
                          "connectedMedia"} : ~In(x, r)
  <2>1. r = On("unlock", <<>>) \/ r = On("unlock", Getting)
    BY <1>8, RestTable DEF Unlocking
  <2>2. CASE r = On("unlock", <<>>)
    <3>1. \A x : In(x, r) <=> x = "unlock"
      BY <2>2, Contents
    <3> QED
      BY <3>1
  <2>3. CASE r = On("unlock", Getting)
    <3>1. \A x : In(x, r) <=> x \in {"unlock", "getRx", "setRx", "answered"}
      BY <2>3, Contents
    <3> QED
      BY <3>1
  <2> QED
    BY <2>1, <2>2, <2>3
<1>9. ASSUME h \in {"stop", "stopped"}
      PROVE  \A x \in {"close", "stop", "connected", "connectedMedia", "getRx", "opened"} :
                ~In(x, r)
  <2>1. r \in StopRests /\ "endcall" \in Step /\ "unbind" \in Step
    BY <1>9, RestTable, AllSteps
  <2>2. ASSUME NEW q \in Settled
        PROVE  q \in Seq(Step) /\ \A x : In(x, q) => x \in {"setRx", "answered", "setTx"}
    BY Contents DEF Settled
  <2>3. ASSUME NEW q \in Held
        PROVE  q \in Seq(Step) /\ \A x : In(x, q) => x = "resumeHeld"
    BY Helds
  <2>4. CASE r \in Settled
    BY <2>4, <2>2
  <2>5. CASE \E q \in Settled : r = On("endcall", q)
    <3>1. PICK q \in Settled : r = On("endcall", q)
      BY <2>5
    <3>2. \A x : In(x, r) <=> x = "endcall" \/ In(x, q)
      BY <3>1, <2>1, <2>2, StackFacts
    <3> QED
      BY <3>2, <2>2
  <2>6. CASE \E q \in Held : r = On("unbind", q)
    <3>1. PICK q \in Held : r = On("unbind", q)
      BY <2>6
    <3>2. \A x : In(x, r) <=> x = "unbind" \/ In(x, q)
      BY <3>1, <2>1, <2>3, StackFacts
    <3> QED
      BY <3>2, <2>3
  <2> QED
    BY <2>1, <2>4, <2>5, <2>6 DEF StopRests
<1>10. h \in {"start", "startReady", "startMark", "startSend"} =>
          /\ In("setRx", r) => In("getRx", r)
          /\ \A x \in {"unbind", "close", "stop", "setTx", "opened"} : ~In(x, r)
  BY RestTable, StartHas
<1>11. ASSUME h \in {"close", "closed"}
       PROVE  ~In("close", r) /\ ~In("opened", r) /\ (In("unbind", r) => In("stop", r))
  <2>1. r \in CloseRests /\ "stop" \in Step
    BY <1>11, RestTable, AllSteps
  <2>2. ~In("close", r) /\ (In("unbind", r) => In("stop", r))
    BY <2>1, Closes
  <2>3. CASE r \in StartRests
    BY <2>2, <2>3, StartHas
  <2>4. CASE \E q \in StopRests : r = On("stop", q)
    <3>1. PICK q \in StopRests : r = On("stop", q)
      BY <2>4
    <3>2. q \in Seq(Step) /\ ~In("opened", q)
      BY Stops
    <3>3. \A x : In(x, r) <=> x = "stop" \/ In(x, q)
      BY <2>1, <3>1, <3>2, StackFacts
    <3> QED
      BY <2>2, <3>2, <3>3
  <2> QED
    BY <2>1, <2>3, <2>4 DEF CloseRests
<1>12. ASSUME h = "connected"
       PROVE  /\ In("connectedMedia", r) /\ (In("setRx", r) => In("getRx", r))
              /\ \A x \in {"unbind", "close", "stop", "setTx", "opened", "connected"} :
                    ~In(x, r)
  <2>1. PICK q \in Unlocking : r = On("connectedMedia", q)
    BY <1>12, RestTable
  <2>2. "connectedMedia" \in Step /\ q \in Seq(Step)
    BY AllSteps, Unlockings
  <2>3. \A x : In(x, r) <=> x = "connectedMedia" \/ In(x, q)
    BY <2>1, <2>2, StackFacts
  <2> QED
    BY <2>3, UnlockingHas
<1>13. ASSUME h = "unlock"
       PROVE  /\ \A x : In(x, r) => x \in {"getRx", "setRx", "answered"}
              /\ In("setRx", r) => In("getRx", r)
  <2>1. r = <<>> \/ r = Getting
    BY <1>13, RestTable
  <2>2. CASE r = <<>>
    BY <2>2, StackFacts
  <2>3. CASE r = Getting
    BY <2>3, Contents
  <2> QED
    BY <2>1, <2>2, <2>3
<1> QED
  BY <1>1, <1>2, <1>3, <1>4, <1>5, <1>6, <1>7, <1>8, <1>9, <1>10, <1>11, <1>12, <1>13

(***************************************************************************)
(* Messages                                                                *)
(***************************************************************************)
(* The phone says nothing. *)
LEMMA Unheard ==
    ASSUME UNCHANGED <<fromPhone, phone>>
    PROVE  /\ (NoAnswer' <=> NoAnswer) /\ (LastTells' <=> LastTells)
           /\ (RefusalDue' <=> RefusalDue) /\ (StartAcks' <=> StartAcks)
  BY DEF NoAnswer, LastTells, RefusalDue, StartAcks, Right

(* Nothing is said to it. *)
LEMMA Unsaid ==
    ASSUME UNCHANGED <<toPhone, fromPhone, phone>>
    PROVE  /\ (OpenSent' <=> OpenSent) /\ (StartSent' <=> StartSent)
           /\ (MayReceive' <=> MayReceive) /\ (MaySend' <=> MaySend)
           /\ (NoAnswer' <=> NoAnswer) /\ (LastTells' <=> LastTells)
           /\ (RefusalDue' <=> RefusalDue) /\ (StartAcks' <=> StartAcks)
  BY Unheard, NoMessage DEF OpenSent, StartSent

(* Something is said to it. *)
LEMMA Said ==
    ASSUME TypeOK, NEW m \in {"open", "close", "start", "stop"}, Send(m), UNCHANGED phone
    PROVE  /\ (OpenSent' <=> OpenSent \/ m = "open")
           /\ (StartSent' <=> StartSent \/ m = "start")
           /\ MayReceive' <=> (m = "open" \/ (m # "close" /\ MayReceive))
           /\ MaySend' <=> (m = "start" \/ (m # "stop" /\ MaySend))
<1>1. PICK n \in Nat : n = Len(toPhone)
  BY DEF TypeOK
<1>2. /\ Len(toPhone') = n + 1 /\ toPhone'[n + 1] = m
      /\ \A i \in 1 .. n : toPhone'[i] = toPhone[i]
  BY <1>1 DEF TypeOK, Send
<1>3. 1 .. n + 1 = (1 .. n) \cup {n + 1}
  OBVIOUS
<1>4. (OpenSent' <=> OpenSent \/ m = "open") /\ (StartSent' <=> StartSent \/ m = "start")
  BY <1>1, <1>2, <1>3 DEF OpenSent, StartSent
<1>5. (m = "open" => MayReceive') /\ (m = "start" => MaySend')
  <2>1. n + 1 \in 1 .. n + 1 /\ \A j \in n + 1 .. n + 1 : j = n + 1
    OBVIOUS
  <2> QED
    BY <1>2, <2>1 DEF MayReceive, MaySend
<1> QED
  BY <1>4, <1>5, Sending

(* The session opens. *)
LEMMA OpenGoes ==
    ASSUME Going, Open("session"), ~Ending'
    PROVE  Known' /\ (Statuses = {"ok"} /\ Served => Served')
<1>1. PICK r \in SessionRests("open") :
         /\ Stands("session", "open", r)
         /\ \A steps : Then("session", steps) => todo'["session"] = steps \o r
  <2>1. At("session", "open")
    BY DEF Open
  <2> QED
    BY <2>1, SessionAt DEF Going, TypeInv, SilentInv
<1>2. /\ r \in Seq(Step)
      /\ r # <<>> => Head(r) \in {"answered", "setRx", "getRx", "unlock", "setTx",
                                  "resumeHeld", "endcall", "unbind", "stop", "connected",
                                  "opened", "callback", "connectedMedia"}
  BY <1>1, RestHas
<1>3. /\ In("setRx", r) => In("getRx", r)
      /\ \A x \in {"unbind", "close", "stop", "setTx", "opened", "connected",
                   "connectedMedia"} : ~In(x, r)
  BY <1>1, RestHas
<1>4. /\ phone' = phone /\ ack' = ack /\ call' = call /\ rtp' = rtp /\ result' = result
  BY DEF Open, nothing
<1>5. /\ (OpenSent' <=> OpenSent) /\ (StartSent' <=> StartSent)
      /\ (MayReceive' <=> MayReceive) /\ (MaySend' <=> MaySend)
  BY Unsaid DEF Open, nothing
<1>6. /\ (NoAnswer' <=> NoAnswer) /\ (LastTells' <=> LastTells)
      /\ (RefusalDue' <=> RefusalDue) /\ (StartAcks' <=> StartAcks)
  BY Unheard DEF Open, nothing
<1>7. CASE (call.device => rtp.rx # {}) /\ Done("session")
  <2>1. todo'["session"] = r
    BY <1>7, <1>1, <1>2, PushStep DEF Done
  <2>2. Known'
    BY <1>1, <1>2, <1>3, <1>4, <1>5, <1>6, <1>7, <2>1 DEF Going, Known, CallInv, DeviceInv,
       ShapeInv, OpenInv, AddressInv, Closing, Resulting, Right, At, Stands, Leads
  <2>3. ASSUME Statuses = {"ok"}, Served PROVE Served'
    <3>1. AgreedInv'
      BY <1>1, <1>2, <1>3, <1>4, <1>5, <1>6, <1>7, <2>1, <2>3 DEF Served, AgreedInv, Going,
         Known, DeviceInv, ShapeInv, Closing, Stopping, Resulting, At, Stands, Leads
    <3>2. StartInv'
      BY <1>1, <1>2, <1>3, <1>4, <1>5, <1>6, <1>7, <2>1, <2>3 DEF Served, AgreedInv, StartInv,
         Going, Known, DeviceInv, Stopping, At, Stands, Leads
    <3>3. ConnectInv'
      BY <1>1, <1>2, <1>3, <1>4, <1>5, <1>6, <1>7, <2>1, <2>3 DEF Served, AgreedInv,
         ConnectInv, Going, Known, DeviceInv, ShapeInv, Resulting, At, Stands, Leads
    <3> QED
      BY <3>1, <3>2, <3>3 DEF Served
  <2> QED
    BY <2>2, <2>3
<1>8. CASE call.device /\ Then("session", <<"openMark">>)
  <2>1. Leads("openMark", {"openMark"}, r)'
    BY <1>8, <1>1, <1>2, Leading, AllSteps
  <2>2. Known'
    BY <1>1, <1>2, <1>3, <1>4, <1>5, <1>6, <1>8, <2>1 DEF Going, Known, CallInv, DeviceInv,
       ShapeInv, OpenInv, AddressInv, Closing, Resulting, Right, At, Stands, Leads
  <2>3. ASSUME Statuses = {"ok"}, Served PROVE Served'
    BY <1>1, <1>2, <1>3, <1>4, <1>5, <1>6, <1>8, <2>1, <2>3 DEF Served, AgreedInv, StartInv,
       ConnectInv, Going, Known, CallInv, DeviceInv, ShapeInv, Closing, Stopping, Resulting, At,
       Stands, Leads
  <2> QED
    BY <2>2, <2>3
<1> QED
  BY <1>7, <1>8 DEF Open, nothing, Ending, Going, MayAsk, Done

(* The PBX refuses the stream. *)
LEMMA OpenFailsGoes ==
    ASSUME Going, OpenFails("session"), ~Ending'
    PROVE  Known' /\ (Statuses = {"ok"} /\ Served => Served')
<1>1. PICK r \in SessionRests("openMark") :
         /\ Stands("session", "openMark", r)
         /\ \A steps : Then("session", steps) => todo'["session"] = steps \o r
  <2>1. At("session", "openMark")
    BY DEF OpenFails
  <2> QED
    BY <2>1, SessionAt DEF Going, TypeInv, SilentInv
<1>2. /\ r \in Seq(Step)
      /\ r # <<>> => Head(r) \in {"answered", "setRx", "getRx", "unlock", "setTx",
                                  "resumeHeld", "endcall", "unbind", "stop", "connected",
                                  "opened", "callback", "connectedMedia"}
  BY <1>1, RestHas
<1>3. /\ In("setRx", r) => In("getRx", r)
      /\ \A x \in {"unbind", "close", "stop", "setTx", "opened", "connected",
                   "connectedMedia"} : ~In(x, r)
  BY <1>1, RestHas
<1>4. /\ phone' = phone /\ ack' = ack /\ call' = call /\ rtp' = rtp /\ result' = result
  BY DEF OpenFails, nothing
<1>5. /\ (OpenSent' <=> OpenSent) /\ (StartSent' <=> StartSent)
      /\ (MayReceive' <=> MayReceive) /\ (MaySend' <=> MaySend)
  BY Unsaid DEF OpenFails, nothing
<1>6. /\ (NoAnswer' <=> NoAnswer) /\ (LastTells' <=> LastTells)
      /\ (RefusalDue' <=> RefusalDue) /\ (StartAcks' <=> StartAcks)
  BY Unheard DEF OpenFails, nothing
<1>7. CASE ~rtp.instance /\ Done("session")
  <2>1. todo'["session"] = r
    BY <1>7, <1>1, <1>2, PushStep DEF Done
  <2>2. Known'
    BY <1>1, <1>2, <1>3, <1>4, <1>5, <1>6, <1>7, <2>1 DEF Going, Known, CallInv, DeviceInv,
       ShapeInv, OpenInv, AddressInv, Closing, Resulting, Right, At, Stands, Leads
  <2>3. ASSUME Statuses = {"ok"}, Served PROVE Served'
    BY <1>1, <1>2, <1>3, <1>4, <1>5, <1>6, <1>7, <2>1, <2>3 DEF Served, AgreedInv, StartInv,
       ConnectInv, Going, Known, CallInv, DeviceInv, ShapeInv, Closing, Stopping, Resulting, At,
       Stands, Leads
  <2> QED
    BY <2>2, <2>3
<1> QED
  BY <1>7 DEF OpenFails, nothing, Done

(* The opening is recorded. *)
LEMMA OpenMarkGoes ==
    ASSUME Going, OpenMark("session"), ~Ending'
    PROVE  Known' /\ (Statuses = {"ok"} /\ Served => Served')
<1>1. PICK r \in SessionRests("openMark") :
         /\ Stands("session", "openMark", r)
         /\ \A steps : Then("session", steps) => todo'["session"] = steps \o r
  <2>1. At("session", "openMark")
    BY DEF OpenMark
  <2> QED
    BY <2>1, SessionAt DEF Going, TypeInv, SilentInv
<1>2. r \in Seq(Step)
  BY <1>1, RestHas
<1>3. /\ In("setRx", r) => In("getRx", r)
      /\ \A x \in {"unbind", "close", "stop", "setTx", "opened", "connected",
                   "connectedMedia"} : ~In(x, r)
  BY <1>1, RestHas
<1>4. /\ phone' = phone /\ ack' = ack /\ call' = call /\ result' = result
  BY DEF OpenMark, rtpOnly
<1>5. /\ rtp'.rx = {"progress"} /\ rtp'.tx = rtp.tx
      /\ rtp'.cb = rtp.cb /\ rtp'.instance = TRUE
      /\ rtp'.address = rtp.address
  BY DEF OpenMark, rtpOnly, Going, TypeInv, TypeOK, Rtp
<1>6. /\ (OpenSent' <=> OpenSent) /\ (StartSent' <=> StartSent)
      /\ (MayReceive' <=> MayReceive) /\ (MaySend' <=> MaySend)
  BY Unsaid DEF OpenMark, rtpOnly
<1>7. /\ (NoAnswer' <=> NoAnswer) /\ (LastTells' <=> LastTells)
      /\ (RefusalDue' <=> RefusalDue) /\ (StartAcks' <=> StartAcks)
  BY Unheard DEF OpenMark, rtpOnly
<1>8. call.device
  BY <1>1 DEF Going, SilentInv, BoundInv, Stands, At
<1>9. CASE Then("session", <<"openSend">>)
  <2>1. Leads("openSend", {"openSend"}, r)'
    BY <1>9, <1>1, <1>2, Leading, AllSteps
  <2>2. Known'
    <3>1. CallInv'
      BY <1>1, <1>2, <1>3, <1>4, <1>5, <1>6, <1>7, <1>8, <1>9, <2>1 DEF Going, Known, CallInv
    <3>2. DeviceInv'
      BY <1>1, <1>2, <1>3, <1>4, <1>5, <1>6, <1>7, <1>8, <1>9, <2>1 DEF Going, Known, CallInv,
         DeviceInv, ShapeInv, Closing, At, Stands, Leads
    <3>3. ShapeInv'
      BY <1>1, <1>2, <1>3, <1>4, <1>5, <1>6, <1>7, <1>8, <1>9, <2>1 DEF Going, Known,
         DeviceInv, ShapeInv, Closing, Resulting, At, Stands, Leads
    <3>4. OpenInv'
      BY <1>1, <1>2, <1>3, <1>4, <1>5, <1>6, <1>7, <1>8, <1>9, <2>1 DEF Going, Known,
         DeviceInv, ShapeInv, OpenInv, Closing, Resulting, At, Stands, Leads
    <3>5. AddressInv'
      BY <1>1, <1>2, <1>3, <1>4, <1>5, <1>6, <1>7, <1>8, <1>9, <2>1 DEF Going, Known,
         DeviceInv, ShapeInv, OpenInv, AddressInv, Closing, Resulting, Right, At, Stands, Leads
    <3> QED
      BY <3>1, <3>2, <3>3, <3>4, <3>5 DEF Known
  <2>3. ASSUME Statuses = {"ok"}, Served PROVE Served'
    BY <1>1, <1>2, <1>3, <1>4, <1>5, <1>6, <1>7, <1>8, <1>9, <2>1, <2>3 DEF Served, AgreedInv,
       StartInv, ConnectInv, Going, Known, CallInv, DeviceInv, ShapeInv, Closing, Stopping,
       Resulting, At, Stands, Leads
  <2> QED
    BY <2>2, <2>3
<1> QED
  BY <1>9 DEF OpenMark, rtpOnly, Done

(* The phone is told to open. *)
LEMMA OpenSendGoes ==
    ASSUME Going, OpenSend("session"), ~Ending'
    PROVE  Known' /\ (Statuses = {"ok"} /\ Served => Served')
<1>1. PICK r \in SessionRests("openSend") :
         /\ Stands("session", "openSend", r)
         /\ \A steps : Then("session", steps) => todo'["session"] = steps \o r
  <2>1. At("session", "openSend")
    BY DEF OpenSend
  <2> QED
    BY <2>1, SessionAt DEF Going, TypeInv, SilentInv
<1>2. /\ r \in Seq(Step)
      /\ r # <<>> => Head(r) \in {"answered", "setRx", "getRx", "unlock", "setTx",
                                  "resumeHeld", "endcall", "unbind", "stop", "connected",
                                  "opened", "callback", "connectedMedia"}
  BY <1>1, RestHas
<1>3. /\ In("setRx", r) => In("getRx", r)
      /\ \A x \in {"unbind", "close", "stop", "setTx", "opened", "connected",
                   "connectedMedia"} : ~In(x, r)
  BY <1>1, RestHas
<1>4. /\ phone' = phone /\ ack' = ack /\ call' = call /\ rtp' = rtp /\ result' = result
  BY DEF OpenSend
<1>5. /\ OpenSent' /\ (StartSent' <=> StartSent)
      /\ MayReceive' /\ (MaySend' <=> MaySend)
  BY Said DEF OpenSend, Going, TypeInv
<1>6. /\ (NoAnswer' <=> NoAnswer) /\ (LastTells' <=> LastTells)
      /\ (RefusalDue' <=> RefusalDue) /\ (StartAcks' <=> StartAcks)
  BY Unheard DEF OpenSend
<1>7. CASE Done("session")
  <2>1. todo'["session"] = r
    BY <1>7, <1>1, <1>2, PushStep DEF Done
  <2>2. Known'
    BY <1>1, <1>2, <1>3, <1>4, <1>5, <1>6, <1>7, <2>1 DEF Going, Known, CallInv, DeviceInv,
       ShapeInv, OpenInv, AddressInv, Closing, Resulting, Right, At, Stands, Leads
  <2>3. ASSUME Statuses = {"ok"}, Served PROVE Served'
    BY <1>1, <1>2, <1>3, <1>4, <1>5, <1>6, <1>7, <2>1, <2>3 DEF Served, AgreedInv, StartInv,
       ConnectInv, Going, Known, CallInv, DeviceInv, ShapeInv, Closing, Stopping, Resulting, At,
       Stands, Leads
  <2> QED
    BY <2>2, <2>3
<1> QED
  BY <1>7 DEF OpenSend, Done

(* The session closes the reception. *)
LEMMA CloseGoes ==
    ASSUME Going, Close("session"), ~Ending'
    PROVE  Known' /\ (Statuses = {"ok"} /\ Served => Served')
<1>1. PICK r \in SessionRests("close") :
         /\ Stands("session", "close", r)
         /\ \A steps : Then("session", steps) => todo'["session"] = steps \o r
  <2>1. At("session", "close")
    BY DEF Close
  <2> QED
    BY <2>1, SessionAt DEF Going, TypeInv, SilentInv
<1>2. /\ r \in Seq(Step)
      /\ r # <<>> => Head(r) \in {"answered", "setRx", "getRx", "unlock", "setTx",
                                  "resumeHeld", "endcall", "unbind", "stop", "connected",
                                  "opened", "callback", "connectedMedia"}
  BY <1>1, RestHas
<1>3. ~In("close", r) /\ ~In("opened", r) /\ (In("unbind", r) => In("stop", r))
  BY <1>1, RestHas
<1>4. /\ phone' = phone /\ ack' = ack /\ call' = call /\ rtp' = rtp /\ result' = result
  BY DEF Close, sendOnly
<1>5. /\ (NoAnswer' <=> NoAnswer) /\ (LastTells' <=> LastTells)
      /\ (RefusalDue' <=> RefusalDue) /\ (StartAcks' <=> StartAcks)
  BY Unheard DEF Close, sendOnly
<1>6. CASE call.device /\ Send("close") /\ Then("session", <<"closed">>)
  <2>1. Leads("closed", {"closed"}, r)'
    BY <1>6, <1>1, <1>2, Leading, AllSteps
  <2>2. /\ (OpenSent' <=> OpenSent) /\ (StartSent' <=> StartSent)
        /\ ~MayReceive' /\ (MaySend' <=> MaySend)
    BY <1>6, Said DEF Close, sendOnly, Going, TypeInv
  <2>3. Known'
    BY <1>1, <1>2, <1>3, <1>4, <1>5, <1>6, <2>1, <2>2 DEF Going, Known, CallInv, DeviceInv,
       ShapeInv, OpenInv, AddressInv, Closing, Resulting, Right, At, Stands, Leads
  <2>4. ASSUME Statuses = {"ok"}, Served PROVE Served'
    BY <1>1, <1>2, <1>3, <1>4, <1>5, <1>6, <2>1, <2>2, <2>4 DEF Served, AgreedInv, StartInv,
       ConnectInv, Going, Known, CallInv, DeviceInv, ShapeInv, Closing, Stopping, Resulting, At,
       Stands, Leads
  <2> QED
    BY <2>3, <2>4
<1>7. CASE ~(call.device /\ rtp.rx # {}) /\ toPhone' = toPhone /\ Done("session")
  <2>1. todo'["session"] = r
    BY <1>7, <1>1, <1>2, PushStep DEF Done
  <2>2. /\ (OpenSent' <=> OpenSent) /\ (StartSent' <=> StartSent)
        /\ (MayReceive' <=> MayReceive) /\ (MaySend' <=> MaySend)
    BY <1>7, Unsaid DEF Close, sendOnly
  <2>3. rtp.rx = {}
    BY <1>7 DEF Going, Known, DeviceInv
  <2>4. Known'
    <3>1. CallInv'
      BY <1>1, <1>2, <1>3, <1>4, <1>5, <1>7, <2>1, <2>2, <2>3 DEF Going, Known, CallInv
    <3>2. DeviceInv'
      BY <1>1, <1>2, <1>3, <1>4, <1>5, <1>7, <2>1, <2>2, <2>3 DEF Going, Known, CallInv,
         DeviceInv, ShapeInv, Closing, At, Stands, Leads
    <3>3. ShapeInv'
      BY <1>1, <1>2, <1>3, <1>4, <1>5, <1>7, <2>1, <2>2, <2>3 DEF Going, Known, DeviceInv,
         ShapeInv, Closing, Resulting, At, Stands, Leads
    <3>4. OpenInv'
      BY <1>1, <1>2, <1>3, <1>4, <1>5, <1>7, <2>1, <2>2, <2>3 DEF Going, Known, DeviceInv,
         ShapeInv, OpenInv, Closing, Resulting, At, Stands, Leads
    <3>5. AddressInv'
      BY <1>1, <1>2, <1>3, <1>4, <1>5, <1>7, <2>1, <2>2, <2>3 DEF Going, Known, DeviceInv,
         ShapeInv, OpenInv, AddressInv, Closing, Resulting, Right, At, Stands, Leads
    <3> QED
      BY <3>1, <3>2, <3>3, <3>4, <3>5 DEF Known
  <2>5. ASSUME Statuses = {"ok"}, Served PROVE Served'
    BY <1>1, <1>2, <1>3, <1>4, <1>5, <1>7, <2>1, <2>2, <2>3, <2>5 DEF Served, AgreedInv,
       StartInv, ConnectInv, Going, Known, CallInv, DeviceInv, ShapeInv, Closing, Stopping,
       Resulting, At, Stands, Leads
  <2> QED
    BY <2>4, <2>5
<1> QED
  BY <1>6, <1>7 DEF Close, sendOnly, Done

(* The reception is closed. *)
LEMMA ClosedGoes ==
    ASSUME Going, Closed("session"), ~Ending'
    PROVE  Known' /\ (Statuses = {"ok"} /\ Served => Served')
<1>1. PICK r \in SessionRests("closed") :
         /\ Stands("session", "closed", r)
         /\ \A steps : Then("session", steps) => todo'["session"] = steps \o r
  <2>1. At("session", "closed")
    BY DEF Closed
  <2> QED
    BY <2>1, SessionAt DEF Going, TypeInv, SilentInv
<1>2. /\ r \in Seq(Step)
      /\ r # <<>> => Head(r) \in {"answered", "setRx", "getRx", "unlock", "setTx",
                                  "resumeHeld", "endcall", "unbind", "stop", "connected",
                                  "opened", "callback", "connectedMedia"}
  BY <1>1, RestHas
<1>3. ~In("close", r) /\ ~In("opened", r) /\ (In("unbind", r) => In("stop", r))
  BY <1>1, RestHas
<1>4. /\ phone' = phone /\ ack' = ack /\ call' = call /\ result' = result
  BY DEF Closed, rtpOnly
<1>5. /\ rtp'.rx = {} /\ rtp'.tx = rtp.tx
      /\ rtp'.cb = rtp.cb /\ rtp'.instance = rtp.instance
      /\ rtp'.address = rtp.address
  BY DEF Closed, rtpOnly, Going, TypeInv, TypeOK, Rtp
<1>6. /\ (OpenSent' <=> OpenSent) /\ (StartSent' <=> StartSent)
      /\ (MayReceive' <=> MayReceive) /\ (MaySend' <=> MaySend)
  BY Unsaid DEF Closed, rtpOnly
<1>7. /\ (NoAnswer' <=> NoAnswer) /\ (LastTells' <=> LastTells)
      /\ (RefusalDue' <=> RefusalDue) /\ (StartAcks' <=> StartAcks)
  BY Unheard DEF Closed, rtpOnly
<1>8. ~MayReceive
  BY <1>1 DEF Going, SilentInv, CloseInv, Stands, At, Thread
<1>9. CASE Done("session")
  <2>1. todo'["session"] = r
    BY <1>9, <1>1, <1>2, PushStep DEF Done
  <2>2. Known'
    BY <1>1, <1>2, <1>3, <1>4, <1>5, <1>6, <1>7, <1>8, <1>9, <2>1 DEF Going, Known, CallInv,
       DeviceInv, ShapeInv, OpenInv, AddressInv, Closing, Resulting, Right, At, Stands, Leads
  <2>3. ASSUME Statuses = {"ok"}, Served PROVE Served'
    BY <1>1, <1>2, <1>3, <1>4, <1>5, <1>6, <1>7, <1>8, <1>9, <2>1, <2>3 DEF Served, AgreedInv,
       StartInv, ConnectInv, Going, Known, CallInv, DeviceInv, ShapeInv, Closing, Stopping,
       Resulting, At, Stands, Leads
  <2> QED
    BY <2>2, <2>3
<1> QED
  BY <1>9 DEF Closed, rtpOnly, Done

(* The session stops the transmission. *)
LEMMA StopGoes ==
    ASSUME Going, Stop("session"), ~Ending'
    PROVE  Known' /\ (Statuses = {"ok"} /\ Served => Served')
<1>1. PICK r \in SessionRests("stop") :
         /\ Stands("session", "stop", r)
         /\ \A steps : Then("session", steps) => todo'["session"] = steps \o r
  <2>1. At("session", "stop")
    BY DEF Stop
  <2> QED
    BY <2>1, SessionAt DEF Going, TypeInv, SilentInv
<1>2. /\ r \in Seq(Step)
      /\ r # <<>> => Head(r) \in {"answered", "setRx", "getRx", "unlock", "setTx",
                                  "resumeHeld", "endcall", "unbind", "stop", "connected",
                                  "opened", "callback", "connectedMedia"}
  BY <1>1, RestHas
<1>3. \A x \in {"close", "stop", "connected", "connectedMedia", "getRx", "opened"} :
        ~In(x, r)
  BY <1>1, RestHas
<1>4. /\ phone' = phone /\ ack' = ack /\ call' = call /\ rtp' = rtp /\ result' = result
  BY DEF Stop, sendOnly
<1>5. /\ (NoAnswer' <=> NoAnswer) /\ (LastTells' <=> LastTells)
      /\ (RefusalDue' <=> RefusalDue) /\ (StartAcks' <=> StartAcks)
  BY Unheard DEF Stop, sendOnly
<1>6. CASE call.device /\ Send("stop") /\ Then("session", <<"stopped">>)
  <2>1. Leads("stopped", {"stopped"}, r)'
    BY <1>6, <1>1, <1>2, Leading, AllSteps
  <2>2. /\ (OpenSent' <=> OpenSent) /\ (StartSent' <=> StartSent)
        /\ (MayReceive' <=> MayReceive) /\ ~MaySend'
    BY <1>6, Said DEF Stop, sendOnly, Going, TypeInv
  <2>3. Known'
    BY <1>1, <1>2, <1>3, <1>4, <1>5, <1>6, <2>1, <2>2 DEF Going, Known, CallInv, DeviceInv,
       ShapeInv, OpenInv, AddressInv, Closing, Resulting, Right, At, Stands, Leads
  <2>4. ASSUME Statuses = {"ok"}, Served PROVE Served'
    BY <1>1, <1>2, <1>3, <1>4, <1>5, <1>6, <2>1, <2>2, <2>4 DEF Served, AgreedInv, StartInv,
       ConnectInv, Going, Known, CallInv, DeviceInv, ShapeInv, Closing, Stopping, Resulting, At,
       Stands, Leads
  <2> QED
    BY <2>3, <2>4
<1>7. CASE ~(call.device /\ rtp.tx # {}) /\ toPhone' = toPhone /\ Done("session")
  <2>1. todo'["session"] = r
    BY <1>7, <1>1, <1>2, PushStep DEF Done
  <2>2. /\ (OpenSent' <=> OpenSent) /\ (StartSent' <=> StartSent)
        /\ (MayReceive' <=> MayReceive) /\ (MaySend' <=> MaySend)
    BY <1>7, Unsaid DEF Stop, sendOnly
  <2>3. Known'
    BY <1>1, <1>2, <1>3, <1>4, <1>5, <1>7, <2>1, <2>2 DEF Going, Known, CallInv, DeviceInv,
       ShapeInv, OpenInv, AddressInv, Closing, Resulting, Right, At, Stands, Leads
  <2>4. ASSUME Statuses = {"ok"}, Served PROVE Served'
    BY <1>1, <1>2, <1>3, <1>4, <1>5, <1>7, <2>1, <2>2, <2>4 DEF Served, AgreedInv, StartInv,
       ConnectInv, Going, Known, CallInv, DeviceInv, ShapeInv, Closing, Stopping, Resulting, At,
       Stands, Leads
  <2> QED
    BY <2>3, <2>4
<1> QED
  BY <1>6, <1>7 DEF Stop, sendOnly, Done

(* The transmission is stopped. *)
LEMMA StoppedGoes ==
    ASSUME Going, Stopped("session"), ~Ending'
    PROVE  Known' /\ (Statuses = {"ok"} /\ Served => Served')
<1>1. PICK r \in SessionRests("stopped") :
         /\ Stands("session", "stopped", r)
         /\ \A steps : Then("session", steps) => todo'["session"] = steps \o r
  <2>1. At("session", "stopped")
    BY DEF Stopped
  <2> QED
    BY <2>1, SessionAt DEF Going, TypeInv, SilentInv
<1>2. /\ r \in Seq(Step)
      /\ r # <<>> => Head(r) \in {"answered", "setRx", "getRx", "unlock", "setTx",
                                  "resumeHeld", "endcall", "unbind", "stop", "connected",
                                  "opened", "callback", "connectedMedia"}
  BY <1>1, RestHas
<1>3. \A x \in {"close", "stop", "connected", "connectedMedia", "getRx", "opened"} :
        ~In(x, r)
  BY <1>1, RestHas
<1>4. /\ phone' = phone /\ ack' = ack /\ call' = call /\ result' = result
  BY DEF Stopped, rtpOnly
<1>5. /\ rtp'.rx = rtp.rx /\ rtp'.tx = {}
      /\ rtp'.cb = rtp.cb /\ rtp'.instance = rtp.instance
      /\ rtp'.address = rtp.address
  BY DEF Stopped, rtpOnly, Going, TypeInv, TypeOK, Rtp
<1>6. /\ (OpenSent' <=> OpenSent) /\ (StartSent' <=> StartSent)
      /\ (MayReceive' <=> MayReceive) /\ (MaySend' <=> MaySend)
  BY Unsaid DEF Stopped, rtpOnly
<1>7. /\ (NoAnswer' <=> NoAnswer) /\ (LastTells' <=> LastTells)
      /\ (RefusalDue' <=> RefusalDue) /\ (StartAcks' <=> StartAcks)
  BY Unheard DEF Stopped, rtpOnly
<1>8. CASE Done("session")
  <2>1. todo'["session"] = r
    BY <1>8, <1>1, <1>2, PushStep DEF Done
  <2>2. Known'
    BY <1>1, <1>2, <1>3, <1>4, <1>5, <1>6, <1>7, <1>8, <2>1 DEF Going, Known, CallInv,
       DeviceInv, ShapeInv, OpenInv, AddressInv, Closing, Resulting, Right, At, Stands, Leads
  <2>3. ASSUME Statuses = {"ok"}, Served PROVE Served'
    BY <1>1, <1>2, <1>3, <1>4, <1>5, <1>6, <1>7, <1>8, <2>1, <2>3 DEF Served, AgreedInv,
       StartInv, ConnectInv, Going, Known, CallInv, DeviceInv, ShapeInv, Closing, Stopping,
       Resulting, At, Stands, Leads
  <2> QED
    BY <2>2, <2>3
<1> QED
  BY <1>8 DEF Stopped, rtpOnly, Done

(* The session starts the transmission. *)
LEMMA StartGoes ==
    ASSUME Going, Start("session"), ~Ending'
    PROVE  Known' /\ (Statuses = {"ok"} /\ Served => Served')
<1>1. PICK r \in SessionRests("start") :
         /\ Stands("session", "start", r)
         /\ \A steps : Then("session", steps) => todo'["session"] = steps \o r
  <2>1. At("session", "start")
    BY DEF Start
  <2> QED
    BY <2>1, SessionAt DEF Going, TypeInv, SilentInv
<1>2. /\ r \in Seq(Step)
      /\ r # <<>> => Head(r) \in {"answered", "setRx", "getRx", "unlock", "setTx",
                                  "resumeHeld", "endcall", "unbind", "stop", "connected",
                                  "opened", "callback", "connectedMedia"}
  BY <1>1, RestHas
<1>3. /\ In("setRx", r) => In("getRx", r)
      /\ \A x \in {"unbind", "close", "stop", "setTx", "opened"} : ~In(x, r)
  BY <1>1, RestHas
<1>4. /\ phone' = phone /\ ack' = ack /\ call' = call /\ rtp' = rtp /\ result' = result
  BY DEF Start, nothing
<1>5. /\ (OpenSent' <=> OpenSent) /\ (StartSent' <=> StartSent)
      /\ (MayReceive' <=> MayReceive) /\ (MaySend' <=> MaySend)
  BY Unsaid DEF Start, nothing
<1>6. /\ (NoAnswer' <=> NoAnswer) /\ (LastTells' <=> LastTells)
      /\ (RefusalDue' <=> RefusalDue) /\ (StartAcks' <=> StartAcks)
  BY Unheard DEF Start, nothing
<1>7. CASE rtp.tx # {} /\ Done("session")
  <2>1. todo'["session"] = r
    BY <1>7, <1>1, <1>2, PushStep DEF Done
  <2>2. Known'
    BY <1>1, <1>2, <1>3, <1>4, <1>5, <1>6, <1>7, <2>1 DEF Going, Known, CallInv, DeviceInv,
       ShapeInv, OpenInv, AddressInv, Closing, Resulting, Right, At, Stands, Leads
  <2>3. ASSUME Statuses = {"ok"}, Served PROVE Served'
    BY <1>1, <1>2, <1>3, <1>4, <1>5, <1>6, <1>7, <2>1, <2>3 DEF Served, AgreedInv, StartInv,
       ConnectInv, Going, Known, CallInv, DeviceInv, ShapeInv, Closing, Stopping, Resulting, At,
       Stands, Leads
  <2> QED
    BY <2>2, <2>3
<1>8. CASE Then("session", <<"startReady">>)
  <2>1. Leads("startReady", {"startReady"}, r)'
    BY <1>8, <1>1, <1>2, Leading, AllSteps
  <2>2. Known'
    BY <1>1, <1>2, <1>3, <1>4, <1>5, <1>6, <1>8, <2>1 DEF Going, Known, CallInv, DeviceInv,
       ShapeInv, OpenInv, AddressInv, Closing, Resulting, Right, At, Stands, Leads
  <2>3. ASSUME Statuses = {"ok"}, Served PROVE Served'
    BY <1>1, <1>2, <1>3, <1>4, <1>5, <1>6, <1>8, <2>1, <2>3 DEF Served, AgreedInv, StartInv,
       ConnectInv, Going, Known, CallInv, DeviceInv, ShapeInv, Closing, Stopping, Resulting, At,
       Stands, Leads
  <2> QED
    BY <2>2, <2>3
<1> QED
  BY <1>7, <1>8 DEF Start, nothing, Ending, Going, Done

(* The phone is found to receive, or the reception is closed. *)
LEMMA StartReadyGoes ==
    ASSUME Going, StartReady("session"), ~Ending'
    PROVE  Known' /\ (Statuses = {"ok"} /\ Served => Served')
<1>1. PICK r \in SessionRests("startReady") :
         /\ Stands("session", "startReady", r)
         /\ \A steps : Then("session", steps) => todo'["session"] = steps \o r
  <2>1. At("session", "startReady")
    BY DEF StartReady
  <2> QED
    BY <2>1, SessionAt DEF Going, TypeInv, SilentInv
<1>2. r \in Seq(Step)
  BY <1>1, RestHas
<1>3. /\ In("setRx", r) => In("getRx", r)
      /\ \A x \in {"unbind", "close", "stop", "setTx", "opened"} : ~In(x, r)
  BY <1>1, RestHas
<1>4. /\ phone' = phone /\ ack' = ack /\ call' = call /\ rtp' = rtp /\ result' = result
  BY DEF StartReady, nothing
<1>5. /\ (OpenSent' <=> OpenSent) /\ (StartSent' <=> StartSent)
      /\ (MayReceive' <=> MayReceive) /\ (MaySend' <=> MaySend)
  BY Unsaid DEF StartReady, nothing
<1>6. /\ (NoAnswer' <=> NoAnswer) /\ (LastTells' <=> LastTells)
      /\ (RefusalDue' <=> RefusalDue) /\ (StartAcks' <=> StartAcks)
  BY Unheard DEF StartReady, nothing
<1>7. CASE call.device /\ rtp.rx # {} /\ Then("session", <<"startMark">>)
  <2>1. Leads("startMark", {"startMark"}, r)'
    BY <1>7, <1>1, <1>2, Leading, AllSteps
  <2>2. Known'
    BY <1>1, <1>2, <1>3, <1>4, <1>5, <1>6, <1>7, <2>1 DEF Going, Known, CallInv, DeviceInv,
       ShapeInv, OpenInv, AddressInv, Closing, Resulting, Right, At, Stands, Leads
  <2>3. ASSUME Statuses = {"ok"}, Served PROVE Served'
    <3>1. AgreedInv'
      BY <1>1, <1>2, <1>3, <1>4, <1>5, <1>6, <1>7, <2>1, <2>3 DEF Served, AgreedInv, Going,
         Known, DeviceInv, ShapeInv, Closing, Stopping, Resulting, At, Stands, Leads
    <3>2. StartInv'
      BY <1>1, <1>2, <1>3, <1>4, <1>5, <1>6, <1>7, <2>1, <2>3 DEF Served, AgreedInv, StartInv,
         Going, Known, DeviceInv, Stopping, At, Stands, Leads
    <3>3. ConnectInv'
      BY <1>1, <1>2, <1>3, <1>4, <1>5, <1>6, <1>7, <2>1, <2>3 DEF Served, AgreedInv,
         ConnectInv, Going, Known, DeviceInv, ShapeInv, Resulting, At, Stands, Leads
    <3> QED
      BY <3>1, <3>2, <3>3 DEF Served
  <2> QED
    BY <2>2, <2>3
<1>8. CASE ~(call.device /\ rtp.rx # {}) /\ Then("session", <<"close">>)
  <2>1. Leads("close", {"close"}, r)'
    BY <1>8, <1>1, <1>2, Leading, AllSteps
  <2>2. Known'
    BY <1>1, <1>2, <1>3, <1>4, <1>5, <1>6, <1>8, <2>1 DEF Going, Known, CallInv, DeviceInv,
       ShapeInv, OpenInv, AddressInv, Closing, Resulting, Right, At, Stands, Leads
  <2>3. ASSUME Statuses = {"ok"}, Served PROVE Served'
    BY <1>1, <1>2, <1>3, <1>4, <1>5, <1>6, <1>8, <2>1, <2>3 DEF Served, AgreedInv, StartInv,
       ConnectInv, Going, Known, CallInv, DeviceInv, ShapeInv, Closing, Stopping, Resulting, At,
       Stands, Leads
  <2> QED
    BY <2>2, <2>3
<1> QED
  BY <1>7, <1>8 DEF StartReady, nothing, Done

(* The transmission is recorded. *)
LEMMA StartMarkGoes ==
    ASSUME Going, StartMark("session"), ~Ending'
    PROVE  Known' /\ (Statuses = {"ok"} /\ Served => Served')
<1>1. PICK r \in SessionRests("startMark") :
         /\ Stands("session", "startMark", r)
         /\ \A steps : Then("session", steps) => todo'["session"] = steps \o r
  <2>1. At("session", "startMark")
    BY DEF StartMark
  <2> QED
    BY <2>1, SessionAt DEF Going, TypeInv, SilentInv
<1>2. r \in Seq(Step)
  BY <1>1, RestHas
<1>3. /\ In("setRx", r) => In("getRx", r)
      /\ \A x \in {"unbind", "close", "stop", "setTx", "opened"} : ~In(x, r)
  BY <1>1, RestHas
<1>4. /\ phone' = phone /\ ack' = ack /\ call' = call /\ result' = result
  BY DEF StartMark, rtpOnly
<1>5. /\ rtp'.rx = rtp.rx /\ rtp'.tx = rtp.tx \cup {"progress"}
      /\ rtp'.cb = rtp.cb /\ rtp'.instance = rtp.instance
      /\ rtp'.address = rtp.address
  BY DEF StartMark, rtpOnly, Going, TypeInv, TypeOK, Rtp
<1>6. /\ (OpenSent' <=> OpenSent) /\ (StartSent' <=> StartSent)
      /\ (MayReceive' <=> MayReceive) /\ (MaySend' <=> MaySend)
  BY Unsaid DEF StartMark, rtpOnly
<1>7. /\ (NoAnswer' <=> NoAnswer) /\ (LastTells' <=> LastTells)
      /\ (RefusalDue' <=> RefusalDue) /\ (StartAcks' <=> StartAcks)
  BY Unheard DEF StartMark, rtpOnly
<1>8. call.device
  BY <1>1 DEF Going, SilentInv, BoundInv, Stands, At
<1>9. CASE Then("session", <<"startSend">>)
  <2>1. Leads("startSend", {"startSend"}, r)'
    BY <1>9, <1>1, <1>2, Leading, AllSteps
  <2>2. Known'
    BY <1>1, <1>2, <1>3, <1>4, <1>5, <1>6, <1>7, <1>8, <1>9, <2>1 DEF Going, Known, CallInv,
       DeviceInv, ShapeInv, OpenInv, AddressInv, Closing, Resulting, Right, At, Stands, Leads
  <2>3. ASSUME Statuses = {"ok"}, Served PROVE Served'
    <3>1. AgreedInv'
      BY <1>1, <1>2, <1>3, <1>4, <1>5, <1>6, <1>7, <1>8, <1>9, <2>1, <2>3 DEF Served,
         AgreedInv, Going, Known, DeviceInv, ShapeInv, Closing, Stopping, Resulting, At, Stands,
         Leads
    <3>2. StartInv'
      BY <1>1, <1>2, <1>3, <1>4, <1>5, <1>6, <1>7, <1>8, <1>9, <2>1, <2>3 DEF Served,
         AgreedInv, StartInv, Going, Known, DeviceInv, Stopping, At, Stands, Leads
    <3>3. ConnectInv'
      BY <1>1, <1>2, <1>3, <1>4, <1>5, <1>6, <1>7, <1>8, <1>9, <2>1, <2>3 DEF Served,
         AgreedInv, ConnectInv, Going, Known, DeviceInv, ShapeInv, Resulting, At, Stands, Leads
    <3> QED
      BY <3>1, <3>2, <3>3 DEF Served
  <2> QED
    BY <2>2, <2>3
<1> QED
  BY <1>9 DEF StartMark, rtpOnly, Done

(* The phone is told to start. *)
LEMMA StartSendGoes ==
    ASSUME Going, StartSend("session"), ~Ending'
    PROVE  Known' /\ (Statuses = {"ok"} /\ Served => Served')
<1>1. PICK r \in SessionRests("startSend") :
         /\ Stands("session", "startSend", r)
         /\ \A steps : Then("session", steps) => todo'["session"] = steps \o r
  <2>1. At("session", "startSend")
    BY DEF StartSend
  <2> QED
    BY <2>1, SessionAt DEF Going, TypeInv, SilentInv
<1>2. /\ r \in Seq(Step)
      /\ r # <<>> => Head(r) \in {"answered", "setRx", "getRx", "unlock", "setTx",
                                  "resumeHeld", "endcall", "unbind", "stop", "connected",
                                  "opened", "callback", "connectedMedia"}
  BY <1>1, RestHas
<1>3. /\ In("setRx", r) => In("getRx", r)
      /\ \A x \in {"unbind", "close", "stop", "setTx", "opened"} : ~In(x, r)
  BY <1>1, RestHas
<1>4. /\ phone' = phone /\ ack' = ack /\ call' = call /\ rtp' = rtp /\ result' = result
  BY DEF StartSend, sendOnly
<1>5. /\ (OpenSent' <=> OpenSent) /\ StartSent'
      /\ (MayReceive' <=> MayReceive) /\ MaySend'
  BY Said DEF StartSend, sendOnly, Going, TypeInv
<1>6. /\ (NoAnswer' <=> NoAnswer) /\ (LastTells' <=> LastTells)
      /\ (RefusalDue' <=> RefusalDue) /\ (StartAcks' <=> StartAcks)
  BY Unheard DEF StartSend, sendOnly
<1>7. CASE Done("session")
  <2>1. todo'["session"] = r
    BY <1>7, <1>1, <1>2, PushStep DEF Done
  <2>2. Known'
    BY <1>1, <1>2, <1>3, <1>4, <1>5, <1>6, <1>7, <2>1 DEF Going, Known, CallInv, DeviceInv,
       ShapeInv, OpenInv, AddressInv, Closing, Resulting, Right, At, Stands, Leads
  <2>3. ASSUME Statuses = {"ok"}, Served PROVE Served'
    BY <1>1, <1>2, <1>3, <1>4, <1>5, <1>6, <1>7, <2>1, <2>3 DEF Served, AgreedInv, StartInv,
       ConnectInv, Going, Known, CallInv, DeviceInv, ShapeInv, Closing, Stopping, Resulting, At,
       Stands, Leads
  <2> QED
    BY <2>2, <2>3
<1> QED
  BY <1>7 DEF StartSend, sendOnly, Done

(* The call is connected. *)
LEMMA ConnectedGoes ==
    ASSUME Going, Connected("session"), ~Ending'
    PROVE  Known' /\ (Statuses = {"ok"} /\ Served => Served')
<1>1. PICK r \in SessionRests("connected") :
         /\ Stands("session", "connected", r)
         /\ \A steps : Then("session", steps) => todo'["session"] = steps \o r
  <2>1. At("session", "connected")
    BY DEF Connected
  <2> QED
    BY <2>1, SessionAt DEF Going, TypeInv, SilentInv
<1>2. /\ r \in Seq(Step)
      /\ r # <<>> => Head(r) \in {"answered", "setRx", "getRx", "unlock", "setTx",
                                  "resumeHeld", "endcall", "unbind", "stop", "connected",
                                  "opened", "callback", "connectedMedia"}
  BY <1>1, RestHas
<1>3. /\ In("connectedMedia", r) /\ (In("setRx", r) => In("getRx", r))
      /\ \A x \in {"unbind", "close", "stop", "setTx", "opened", "connected"} : ~In(x, r)
  BY <1>1, RestHas
<1>4. /\ phone' = phone /\ ack' = ack /\ result' = result
  BY DEF Connected
<1>5. /\ call'.listed = call.listed /\ call'.state = "connected" /\ call'.device = call.device
      /\ call'.answering = call.answering /\ call'.hanging = call.hanging
      /\ call'.hangup = call.hangup
  BY DEF Connected, Going, TypeInv, TypeOK, Call
<1>6. /\ rtp'.rx = rtp.rx /\ rtp'.tx = rtp.tx
      /\ rtp'.cb = "start" /\ rtp'.instance = rtp.instance
      /\ rtp'.address = rtp.address
  BY DEF Connected, Going, TypeInv, TypeOK, Rtp, ConnectedCallback
<1>7. /\ (OpenSent' <=> OpenSent) /\ (StartSent' <=> StartSent)
      /\ (MayReceive' <=> MayReceive) /\ (MaySend' <=> MaySend)
  BY Unsaid DEF Connected
<1>8. /\ (NoAnswer' <=> NoAnswer) /\ (LastTells' <=> LastTells)
      /\ (RefusalDue' <=> RefusalDue) /\ (StartAcks' <=> StartAcks)
  BY Unheard DEF Connected
<1>9. CASE Done("session")
  <2>1. todo'["session"] = r
    BY <1>9, <1>1, <1>2, PushStep DEF Done
  <2>2. Known'
    BY <1>1, <1>2, <1>3, <1>4, <1>5, <1>6, <1>7, <1>8, <1>9, <2>1 DEF Going, Known, CallInv,
       DeviceInv, ShapeInv, OpenInv, AddressInv, Closing, Resulting, Right, At, Stands, Leads
  <2>3. ASSUME Statuses = {"ok"}, Served PROVE Served'
    BY <1>1, <1>2, <1>3, <1>4, <1>5, <1>6, <1>7, <1>8, <1>9, <2>1, <2>3 DEF Served, AgreedInv,
       StartInv, ConnectInv, Going, Known, CallInv, DeviceInv, ShapeInv, Closing, Stopping,
       Resulting, At, Stands, Leads
  <2> QED
    BY <2>2, <2>3
<1> QED
  BY <1>9 DEF Connected, ConnectedCallback, Done

(* The streams of a call that was connected are opened, started or kept. *)
LEMMA ConnectedMediaGoes ==
    ASSUME Going, ConnectedMedia("session"), ~Ending'
    PROVE  Known' /\ (Statuses = {"ok"} /\ Served => Served')
<1>1. PICK r \in SessionRests("connectedMedia") :
         /\ Stands("session", "connectedMedia", r)
         /\ \A steps : Then("session", steps) => todo'["session"] = steps \o r
  <2>1. At("session", "connectedMedia")
    BY DEF ConnectedMedia
  <2> QED
    BY <2>1, SessionAt DEF Going, TypeInv, SilentInv
<1>2. /\ r \in Seq(Step)
      /\ r # <<>> => Head(r) \in {"answered", "setRx", "getRx", "unlock", "setTx",
                                  "resumeHeld", "endcall", "unbind", "stop", "connected",
                                  "opened", "callback", "connectedMedia"}
  BY <1>1, RestHas
<1>3. /\ In("setRx", r) => In("getRx", r)
      /\ \A x \in {"unbind", "close", "stop", "setTx", "opened", "connected",
                   "connectedMedia"} : ~In(x, r)
  BY <1>1, RestHas
<1>4. /\ phone' = phone /\ ack' = ack /\ call' = call /\ result' = result
  BY DEF ConnectedMedia, rtpOnly
<1>5. /\ rtp'.rx = rtp.rx /\ rtp'.tx = rtp.tx
      /\ rtp'.instance = rtp.instance
      /\ rtp'.address = rtp.address
  BY DEF ConnectedMedia, rtpOnly, Going, TypeInv, TypeOK, Rtp, RunCallback, CallbackSteps
<1>6. /\ (OpenSent' <=> OpenSent) /\ (StartSent' <=> StartSent)
      /\ (MayReceive' <=> MayReceive) /\ (MaySend' <=> MaySend)
  BY Unsaid DEF ConnectedMedia, rtpOnly
<1>7. /\ (NoAnswer' <=> NoAnswer) /\ (LastTells' <=> LastTells)
      /\ (RefusalDue' <=> RefusalDue) /\ (StartAcks' <=> StartAcks)
  BY Unheard DEF ConnectedMedia, rtpOnly
<1>8. rtp.cb = "start"
  BY <1>1 DEF Going, SilentInv, BoundInv, Stands, At
<1>9. CASE rtp.rx = {} /\ rtp' = rtp /\ Then("session", <<"open">>)
  <2>1. Leads("open", {"open"}, r)'
    BY <1>9, <1>1, <1>2, Leading, AllSteps
  <2>2. Known'
    BY <1>1, <1>2, <1>3, <1>4, <1>5, <1>6, <1>7, <1>8, <1>9, <2>1 DEF Going, Known, CallInv,
       DeviceInv, ShapeInv, OpenInv, AddressInv, Closing, Resulting, Right, At, Stands, Leads
  <2>3. ASSUME Statuses = {"ok"}, Served PROVE Served'
    BY <1>1, <1>2, <1>3, <1>4, <1>5, <1>6, <1>7, <1>8, <1>9, <2>1, <2>3 DEF Served, AgreedInv,
       StartInv, ConnectInv, Going, Known, CallInv, DeviceInv, ShapeInv, Closing, Stopping,
       Resulting, At, Stands, Leads
  <2> QED
    BY <2>2, <2>3
<1>10. CASE "active" \in rtp.rx /\ Then("session", <<"start">>)
  <2>1. Leads("start", {"start"}, r)'
    BY <1>10, <1>1, <1>2, Leading, AllSteps
  <2>2. Known'
    BY <1>1, <1>2, <1>3, <1>4, <1>5, <1>6, <1>7, <1>8, <1>10, <2>1 DEF Going, Known, CallInv,
       DeviceInv, ShapeInv, OpenInv, AddressInv, Closing, Resulting, Right, At, Stands, Leads
  <2>3. ASSUME Statuses = {"ok"}, Served PROVE Served'
    BY <1>1, <1>2, <1>3, <1>4, <1>5, <1>6, <1>7, <1>8, <1>10, <2>1, <2>3 DEF Served,
       AgreedInv, StartInv, ConnectInv, Going, Known, CallInv, DeviceInv, ShapeInv, Closing,
       Stopping, Resulting, At, Stands, Leads
  <2> QED
    BY <2>2, <2>3
<1>11. CASE rtp.rx # {} /\ rtp.tx # {} /\ Done("session")
  <2>1. todo'["session"] = r
    BY <1>11, <1>1, <1>2, PushStep DEF Done
  <2>2. Known'
    BY <1>1, <1>2, <1>3, <1>4, <1>5, <1>6, <1>7, <1>8, <1>11, <2>1 DEF Going, Known, CallInv,
       DeviceInv, ShapeInv, OpenInv, AddressInv, Closing, Resulting, Right, At, Stands, Leads
  <2>3. ASSUME Statuses = {"ok"}, Served PROVE Served'
    BY <1>1, <1>2, <1>3, <1>4, <1>5, <1>6, <1>7, <1>8, <1>11, <2>1, <2>3 DEF Served,
       AgreedInv, StartInv, ConnectInv, Going, Known, CallInv, DeviceInv, ShapeInv, Closing,
       Stopping, Resulting, At, Stands, Leads
  <2> QED
    BY <2>2, <2>3
<1>12. CASE rtp.rx # {} /\ "active" \notin rtp.rx /\ rtp' = rtp /\ Done("session")
  <2>1. todo'["session"] = r
    BY <1>12, <1>1, <1>2, PushStep DEF Done
  <2>2. Known'
    BY <1>1, <1>2, <1>3, <1>4, <1>5, <1>6, <1>7, <1>8, <1>12, <2>1 DEF Going, Known, CallInv,
       DeviceInv, ShapeInv, OpenInv, AddressInv, Closing, Resulting, Right, At, Stands, Leads
  <2>3. ASSUME Statuses = {"ok"}, Served PROVE Served'
    BY <1>1, <1>2, <1>3, <1>4, <1>5, <1>6, <1>7, <1>8, <1>12, <2>1, <2>3 DEF Served,
       AgreedInv, StartInv, ConnectInv, Going, Known, CallInv, DeviceInv, ShapeInv, Closing,
       Stopping, Resulting, At, Stands, Leads
  <2> QED
    BY <2>2, <2>3
<1> QED
  BY <1>8, <1>9, <1>10, <1>11, <1>12 DEF ConnectedMedia, rtpOnly, RunCallback, CallbackSteps,
     Done

(* The call leaves the phone. *)
LEMMA UnbindGoes ==
    ASSUME Going, Unbind("session"), ~Ending'
    PROVE  Known' /\ (Statuses = {"ok"} /\ Served => Served')
<1>1. PICK r \in SessionRests("unbind") :
         /\ Stands("session", "unbind", r)
         /\ \A steps : Then("session", steps) => todo'["session"] = steps \o r
  <2>1. At("session", "unbind")
    BY DEF Unbind
  <2> QED
    BY <2>1, SessionAt DEF Going, TypeInv, SilentInv
<1>2. /\ r \in Seq(Step)
      /\ r # <<>> => Head(r) \in {"answered", "setRx", "getRx", "unlock", "setTx",
                                  "resumeHeld", "endcall", "unbind", "stop", "connected",
                                  "opened", "callback", "connectedMedia"}
  BY <1>1, RestHas
<1>3. \A x : In(x, r) => x = "resumeHeld"
  BY <1>1, RestHas
<1>4. /\ phone' = phone /\ ack' = ack /\ rtp' = rtp /\ result' = result
  BY DEF Unbind, callOnly
<1>5. /\ call'.listed = call.listed /\ call'.state = call.state /\ call'.device = FALSE
      /\ call'.answering = call.answering /\ call'.hanging = call.hanging
      /\ call'.hangup = call.hangup
  BY DEF Unbind, callOnly, Going, TypeInv, TypeOK, Call
<1>6. /\ (OpenSent' <=> OpenSent) /\ (StartSent' <=> StartSent)
      /\ (MayReceive' <=> MayReceive) /\ (MaySend' <=> MaySend)
  BY Unsaid DEF Unbind, callOnly
<1>7. /\ (NoAnswer' <=> NoAnswer) /\ (LastTells' <=> LastTells)
      /\ (RefusalDue' <=> RefusalDue) /\ (StartAcks' <=> StartAcks)
  BY Unheard DEF Unbind, callOnly
<1>8. CASE Done("session")
  <2>1. todo'["session"] = r
    BY <1>8, <1>1, <1>2, PushStep DEF Done
  <2>2. Known'
    BY <1>1, <1>2, <1>3, <1>4, <1>5, <1>6, <1>7, <1>8, <2>1 DEF Going, Known, CallInv,
       DeviceInv, ShapeInv, OpenInv, AddressInv, Closing, Resulting, Right, At, Stands, Leads
  <2>3. ASSUME Statuses = {"ok"}, Served PROVE Served'
    BY <1>1, <1>2, <1>3, <1>4, <1>5, <1>6, <1>7, <1>8, <2>1, <2>3 DEF Served, AgreedInv,
       StartInv, ConnectInv, Going, Known, CallInv, DeviceInv, ShapeInv, Closing, Stopping,
       Resulting, At, Stands, Leads
  <2> QED
    BY <2>2, <2>3
<1> QED
  BY <1>8 DEF Unbind, callOnly, Done

(* The session gives the channel up. *)
LEMMA UnlockGoes ==
    ASSUME Going, Unlock("session"), ~Ending'
    PROVE  Known' /\ (Statuses = {"ok"} /\ Served => Served')
<1>1. PICK r \in SessionRests("unlock") :
         /\ Stands("session", "unlock", r)
         /\ \A steps : Then("session", steps) => todo'["session"] = steps \o r
  <2>1. At("session", "unlock")
    BY DEF Unlock
  <2> QED
    BY <2>1, SessionAt DEF Going, TypeInv, SilentInv
<1>2. /\ r \in Seq(Step)
      /\ r # <<>> => Head(r) \in {"answered", "setRx", "getRx", "unlock", "setTx",
                                  "resumeHeld", "endcall", "unbind", "stop", "connected",
                                  "opened", "callback", "connectedMedia"}
  BY <1>1, RestHas
<1>3. /\ \A x : In(x, r) => x \in {"getRx", "setRx", "answered"}
      /\ In("setRx", r) => In("getRx", r)
  BY <1>1, RestHas
<1>4. /\ phone' = phone /\ ack' = ack /\ call' = call /\ rtp' = rtp /\ result' = result
  BY DEF Unlock, callOnly
<1>5. /\ (OpenSent' <=> OpenSent) /\ (StartSent' <=> StartSent)
      /\ (MayReceive' <=> MayReceive) /\ (MaySend' <=> MaySend)
  BY Unsaid DEF Unlock, callOnly
<1>6. /\ (NoAnswer' <=> NoAnswer) /\ (LastTells' <=> LastTells)
      /\ (RefusalDue' <=> RefusalDue) /\ (StartAcks' <=> StartAcks)
  BY Unheard DEF Unlock, callOnly
<1>7. CASE Done("session")
  <2>1. todo'["session"] = r
    BY <1>7, <1>1, <1>2, PushStep DEF Done
  <2>2. Known'
    BY <1>1, <1>2, <1>3, <1>4, <1>5, <1>6, <1>7, <2>1 DEF Going, Known, CallInv, DeviceInv,
       ShapeInv, OpenInv, AddressInv, Closing, Resulting, Right, At, Stands, Leads
  <2>3. ASSUME Statuses = {"ok"}, Served PROVE Served'
    BY <1>1, <1>2, <1>3, <1>4, <1>5, <1>6, <1>7, <2>1, <2>3 DEF Served, AgreedInv, StartInv,
       ConnectInv, Going, Known, CallInv, DeviceInv, ShapeInv, Closing, Stopping, Resulting, At,
       Stands, Leads
  <2> QED
    BY <2>2, <2>3
<1> QED
  BY <1>7 DEF Unlock, callOnly, Done

(* The phone has answered a request to open. *)
LEMMA OpenAckGoes ==
    ASSUME Going, OpenAck("session"), ~Ending'
    PROVE  Known' /\ (Statuses = {"ok"} /\ Served => Served')
<1>1. PICK r \in SessionRests("openAck") :
         /\ Stands("session", "openAck", r)
         /\ \A steps : Then("session", steps) => todo'["session"] = steps \o r
  <2>1. At("session", "openAck")
    BY DEF OpenAck
  <2> QED
    BY <2>1, SessionAt DEF Going, TypeInv, SilentInv
<1>2. /\ r \in Seq(Step)
      /\ r # <<>> => Head(r) \in {"answered", "setRx", "getRx", "unlock", "setTx",
                                  "resumeHeld", "endcall", "unbind", "stop", "connected",
                                  "opened", "callback", "connectedMedia"}
  BY <1>1, RestHas
<1>3. \A x : In(x, r) <=> x = "answered"
  BY <1>1, RestHas
<1>4. /\ phone' = phone /\ ack' = ack /\ call' = call /\ rtp' = rtp
  BY DEF OpenAck
<1>5. /\ (NoAnswer' <=> NoAnswer) /\ (LastTells' <=> LastTells)
      /\ (RefusalDue' <=> RefusalDue) /\ (StartAcks' <=> StartAcks)
  BY Unheard DEF OpenAck
<1>6. ack.status \in Statuses
  BY <1>1 DEF Going, TypeInv, AckInv, Stands, Ack
<1>7. \/ Refused \o <<"setRx">> = <<"close", "stop", "setRx">>
      \/ Refused \o <<"setRx">> = <<"close", "stop", "endcall", "setRx">>
  BY RefusedIs, AllSteps
<1>8. CASE /\ "progress" \in rtp.rx /\ ack.status = "ok" /\ result' = result
           /\ toPhone' = toPhone
           /\ Then("session", <<"setPhone", "opened", "setRx">>)
  <2>1. Leads("setPhone", {"setPhone", "opened", "setRx"}, r)'
    BY <1>8, <1>1, <1>2, Leading, AllSteps
  <2>2. /\ (OpenSent' <=> OpenSent) /\ (StartSent' <=> StartSent)
        /\ (MayReceive' <=> MayReceive) /\ (MaySend' <=> MaySend)
    BY <1>8, Unsaid DEF OpenAck
  <2>3. Known'
    BY <1>1, <1>2, <1>3, <1>4, <1>5, <1>6, <1>7, <1>8, <2>1, <2>2 DEF Going, Known, CallInv,
       DeviceInv, ShapeInv, OpenInv, AddressInv, Closing, Resulting, Right, At, Stands, Leads
  <2>4. ASSUME Statuses = {"ok"}, Served PROVE Served'
    <3>1. AgreedInv'
      <4>1. /\ todo'["session"] # <<>> /\ Head(todo'["session"]) = "setPhone"
            /\ \A x : In(x, todo'["session"]) <=>
                  x \in {"setPhone", "opened", "setRx", "answered"}
        BY <1>3, <2>1 DEF Leads
      <4>2. ~Resulting' /\ ~Closing' /\ ~Stopping'
        BY <4>1 DEF Resulting, Closing, Stopping, At
      <4> QED
        BY <1>4, <2>4, <4>1, <4>2 DEF Served, AgreedInv, At
    <3>2. StartInv'
      BY <1>1, <1>2, <1>3, <1>4, <1>5, <1>6, <1>7, <1>8, <2>1, <2>2, <2>4 DEF Served,
         AgreedInv, StartInv, Going, Known, DeviceInv, Stopping, At, Stands, Leads
    <3>3. ConnectInv'
      BY <1>1, <1>2, <1>3, <1>4, <1>5, <1>6, <1>7, <1>8, <2>1, <2>2, <2>4 DEF Served,
         AgreedInv, ConnectInv, Going, Known, DeviceInv, ShapeInv, Resulting, At, Stands, Leads
    <3> QED
      BY <3>1, <3>2, <3>3 DEF Served
  <2> QED
    BY <2>3, <2>4
<1>9. CASE /\ "progress" \in rtp.rx /\ ack.status # "ok" /\ result' = {"error"}
           /\ toPhone' = toPhone
           /\ Then("session", <<"close", "stop", "setRx">>)
  <2>1. Leads("close", {"close", "stop", "setRx"}, r)'
    BY <1>9, <1>1, <1>2, Leading, AllSteps
  <2>2. /\ (OpenSent' <=> OpenSent) /\ (StartSent' <=> StartSent)
        /\ (MayReceive' <=> MayReceive) /\ (MaySend' <=> MaySend)
    BY <1>9, Unsaid DEF OpenAck
  <2>3. Known'
    BY <1>1, <1>2, <1>3, <1>4, <1>5, <1>6, <1>7, <1>9, <2>1, <2>2 DEF Going, Known, CallInv,
       DeviceInv, ShapeInv, OpenInv, AddressInv, Closing, Resulting, Right, At, Stands, Leads
  <2>4. ASSUME Statuses = {"ok"}, Served PROVE Served'
    BY <1>1, <1>2, <1>3, <1>4, <1>5, <1>6, <1>7, <1>9, <2>1, <2>2, <2>4 DEF Served, AgreedInv,
       StartInv, ConnectInv, Going, Known, CallInv, DeviceInv, ShapeInv, Closing, Stopping,
       Resulting, At, Stands, Leads
  <2> QED
    BY <2>3, <2>4
<1>10. CASE /\ "progress" \in rtp.rx /\ ack.status # "ok" /\ result' = {"error"}
           /\ toPhone' = toPhone
           /\ Then("session", <<"close", "stop", "endcall", "setRx">>)
  <2>1. Leads("close", {"close", "stop", "endcall", "setRx"}, r)'
    BY <1>10, <1>1, <1>2, Leading, AllSteps
  <2>2. /\ (OpenSent' <=> OpenSent) /\ (StartSent' <=> StartSent)
        /\ (MayReceive' <=> MayReceive) /\ (MaySend' <=> MaySend)
    BY <1>10, Unsaid DEF OpenAck
  <2>3. Known'
    BY <1>1, <1>2, <1>3, <1>4, <1>5, <1>6, <1>7, <1>10, <2>1, <2>2 DEF Going, Known, CallInv,
       DeviceInv, ShapeInv, OpenInv, AddressInv, Closing, Resulting, Right, At, Stands, Leads
  <2>4. ASSUME Statuses = {"ok"}, Served PROVE Served'
    BY <1>1, <1>2, <1>3, <1>4, <1>5, <1>6, <1>7, <1>10, <2>1, <2>2, <2>4 DEF Served,
       AgreedInv, StartInv, ConnectInv, Going, Known, CallInv, DeviceInv, ShapeInv, Closing,
       Stopping, Resulting, At, Stands, Leads
  <2> QED
    BY <2>3, <2>4
<1>11. CASE /\ "progress" \notin rtp.rx /\ result' = result /\ toPhone' = toPhone
           /\ Done("session")
  <2>1. todo'["session"] = r
    BY <1>11, <1>1, <1>2, PushStep DEF Done
  <2>2. /\ (OpenSent' <=> OpenSent) /\ (StartSent' <=> StartSent)
        /\ (MayReceive' <=> MayReceive) /\ (MaySend' <=> MaySend)
    BY <1>11, Unsaid DEF OpenAck
  <2>3. Known'
    BY <1>1, <1>2, <1>3, <1>4, <1>5, <1>6, <1>7, <1>11, <2>1, <2>2 DEF Going, Known, CallInv,
       DeviceInv, ShapeInv, OpenInv, AddressInv, Closing, Resulting, Right, At, Stands, Leads
  <2>4. ASSUME Statuses = {"ok"}, Served PROVE Served'
    BY <1>1, <1>2, <1>3, <1>4, <1>5, <1>6, <1>7, <1>11, <2>1, <2>2, <2>4 DEF Served,
       AgreedInv, StartInv, ConnectInv, Going, Known, CallInv, DeviceInv, ShapeInv, Closing,
       Stopping, Resulting, At, Stands, Leads
  <2> QED
    BY <2>3, <2>4
<1> QED
  BY <1>7, <1>8, <1>9, <1>10, <1>11 DEF OpenAck, Found, Going, Known, CallInv, Done

(* The PBX learns the address of the phone. *)
LEMMA SetPhoneGoes ==
    ASSUME Going, SetPhone("session"), ~Ending'
    PROVE  Known' /\ (Statuses = {"ok"} /\ Served => Served')
<1>1. PICK r \in SessionRests("setPhone") :
         /\ Stands("session", "setPhone", r)
         /\ \A steps : Then("session", steps) => todo'["session"] = steps \o r
  <2>1. At("session", "setPhone")
    BY DEF SetPhone
  <2> QED
    BY <2>1, SessionAt DEF Going, TypeInv, SilentInv
<1>2. /\ r \in Seq(Step)
      /\ r # <<>> => Head(r) \in {"answered", "setRx", "getRx", "unlock", "setTx",
                                  "resumeHeld", "endcall", "unbind", "stop", "connected",
                                  "opened", "callback", "connectedMedia"}
  BY <1>1, RestHas
<1>3. /\ r # <<>> /\ Head(r) = "opened"
      /\ \A x : In(x, r) <=> x \in {"opened", "setRx", "answered"}
  BY <1>1, RestHas
<1>4. /\ phone' = phone /\ ack' = ack /\ call' = call /\ result' = result
  BY DEF SetPhone, rtpOnly
<1>5. /\ rtp'.rx = rtp.rx /\ rtp'.tx = rtp.tx
      /\ rtp'.cb = rtp.cb /\ rtp'.instance = rtp.instance
      /\ rtp'.address = (IF call.device THEN ack.port ELSE rtp.address)
  BY DEF SetPhone, rtpOnly, Going, TypeInv, TypeOK, Rtp, NewAddress
<1>6. /\ (OpenSent' <=> OpenSent) /\ (StartSent' <=> StartSent)
      /\ (MayReceive' <=> MayReceive) /\ (MaySend' <=> MaySend)
  BY Unsaid DEF SetPhone, rtpOnly
<1>7. /\ (NoAnswer' <=> NoAnswer) /\ (LastTells' <=> LastTells)
      /\ (RefusalDue' <=> RefusalDue) /\ (StartAcks' <=> StartAcks)
  BY Unheard DEF SetPhone, rtpOnly
<1>8. CASE Done("session")
  <2>1. todo'["session"] = r
    BY <1>8, <1>1, <1>2, PushStep DEF Done
  <2>2. Known'
    <3>1. CallInv'
      BY <1>1, <1>2, <1>3, <1>4, <1>5, <1>6, <1>7, <1>8, <2>1 DEF Going, Known, CallInv
    <3>2. DeviceInv'
      BY <1>1, <1>2, <1>3, <1>4, <1>5, <1>6, <1>7, <1>8, <2>1 DEF Going, Known, CallInv,
         DeviceInv, ShapeInv, Closing, At, Stands, Leads
    <3>3. ShapeInv'
      BY <1>1, <1>2, <1>3, <1>4, <1>5, <1>6, <1>7, <1>8, <2>1 DEF Going, Known, DeviceInv,
         ShapeInv, Closing, Resulting, At, Stands, Leads
    <3>4. OpenInv'
      BY <1>1, <1>2, <1>3, <1>4, <1>5, <1>6, <1>7, <1>8, <2>1 DEF Going, Known, DeviceInv,
         ShapeInv, OpenInv, Closing, Resulting, At, Stands, Leads
    <3>5. AddressInv'
      BY <1>1, <1>2, <1>3, <1>4, <1>5, <1>6, <1>7, <1>8, <2>1 DEF Going, Known, DeviceInv,
         ShapeInv, OpenInv, AddressInv, Closing, Resulting, Right, At, Stands, Leads
    <3> QED
      BY <3>1, <3>2, <3>3, <3>4, <3>5 DEF Known
  <2>3. ASSUME Statuses = {"ok"}, Served PROVE Served'
    BY <1>1, <1>2, <1>3, <1>4, <1>5, <1>6, <1>7, <1>8, <2>1, <2>3 DEF Served, AgreedInv,
       StartInv, ConnectInv, Going, Known, CallInv, DeviceInv, ShapeInv, Closing, Stopping,
       Resulting, At, Stands, Leads
  <2> QED
    BY <2>2, <2>3
<1> QED
  BY <1>8 DEF SetPhone, rtpOnly, NewAddress, Done

(* The phone receives. *)
LEMMA OpenedGoes ==
    ASSUME Going, Opened("session"), ~Ending'
    PROVE  Known' /\ (Statuses = {"ok"} /\ Served => Served')
<1>1. PICK r \in SessionRests("opened") :
         /\ Stands("session", "opened", r)
         /\ \A steps : Then("session", steps) => todo'["session"] = steps \o r
  <2>1. At("session", "opened")
    BY DEF Opened
  <2> QED
    BY <2>1, SessionAt DEF Going, TypeInv, SilentInv
<1>2. r \in Seq(Step)
  BY <1>1, RestHas
<1>3. \A x : In(x, r) <=> x \in {"setRx", "answered"}
  BY <1>1, RestHas
<1>4. /\ phone' = phone /\ ack' = ack /\ call' = call /\ rtp' = rtp
  BY DEF Opened
<1>5. /\ (OpenSent' <=> OpenSent) /\ (StartSent' <=> StartSent)
      /\ (MayReceive' <=> MayReceive) /\ (MaySend' <=> MaySend)
  BY Unsaid DEF Opened
<1>6. /\ (NoAnswer' <=> NoAnswer) /\ (LastTells' <=> LastTells)
      /\ (RefusalDue' <=> RefusalDue) /\ (StartAcks' <=> StartAcks)
  BY Unheard DEF Opened
<1>7. CASE result' = result /\ Then("session", <<"append", "callback", "getRx">>)
  <2>1. Leads("append", {"append", "callback", "getRx"}, r)'
    BY <1>7, <1>1, <1>2, Leading, AllSteps
  <2>2. Known'
    BY <1>1, <1>2, <1>3, <1>4, <1>5, <1>6, <1>7, <2>1 DEF Going, Known, CallInv, DeviceInv,
       ShapeInv, OpenInv, AddressInv, Closing, Resulting, Right, At, Stands, Leads
  <2>3. ASSUME Statuses = {"ok"}, Served PROVE Served'
    BY <1>1, <1>2, <1>3, <1>4, <1>5, <1>6, <1>7, <2>1, <2>3 DEF Served, AgreedInv, StartInv,
       ConnectInv, Going, Known, CallInv, DeviceInv, ShapeInv, Closing, Stopping, Resulting, At,
       Stands, Leads
  <2> QED
    BY <2>2, <2>3
<1> QED
  BY <1>7 DEF Opened, OpenedSteps, Ending, Going, Known, CallInv, Done

(* The reception is active. *)
LEMMA AppendRxGoes ==
    ASSUME Going, AppendRx("session"), ~Ending'
    PROVE  Known' /\ (Statuses = {"ok"} /\ Served => Served')
<1>1. PICK r \in SessionRests("append") :
         /\ Stands("session", "append", r)
         /\ \A steps : Then("session", steps) => todo'["session"] = steps \o r
  <2>1. At("session", "append")
    BY DEF AppendRx
  <2> QED
    BY <2>1, SessionAt DEF Going, TypeInv, SilentInv
<1>2. /\ r \in Seq(Step)
      /\ r # <<>> => Head(r) \in {"answered", "setRx", "getRx", "unlock", "setTx",
                                  "resumeHeld", "endcall", "unbind", "stop", "connected",
                                  "opened", "callback", "connectedMedia"}
  BY <1>1, RestHas
<1>3. /\ r # <<>> /\ Head(r) = "callback"
      /\ \A x : In(x, r) <=> x \in {"callback", "getRx", "setRx", "answered"}
  BY <1>1, RestHas
<1>4. /\ phone' = phone /\ ack' = ack /\ call' = call /\ result' = result
  BY DEF AppendRx, rtpOnly
<1>5. /\ rtp'.rx = rtp.rx \cup {"active"} /\ rtp'.tx = rtp.tx
      /\ rtp'.cb = rtp.cb /\ rtp'.instance = rtp.instance
      /\ rtp'.address = rtp.address
  BY DEF AppendRx, rtpOnly, Going, TypeInv, TypeOK, Rtp
<1>6. /\ (OpenSent' <=> OpenSent) /\ (StartSent' <=> StartSent)
      /\ (MayReceive' <=> MayReceive) /\ (MaySend' <=> MaySend)
  BY Unsaid DEF AppendRx, rtpOnly
<1>7. /\ (NoAnswer' <=> NoAnswer) /\ (LastTells' <=> LastTells)
      /\ (RefusalDue' <=> RefusalDue) /\ (StartAcks' <=> StartAcks)
  BY Unheard DEF AppendRx, rtpOnly
<1>8. "progress" \in rtp.rx /\ rtp'.rx = {"progress", "active"}
  BY <1>1, <1>5 DEF Going, Known, ShapeInv, Stands, At
<1>9. CASE Done("session")
  <2>1. todo'["session"] = r
    BY <1>9, <1>1, <1>2, PushStep DEF Done
  <2>2. Known'
    BY <1>1, <1>2, <1>3, <1>4, <1>5, <1>6, <1>7, <1>8, <1>9, <2>1 DEF Going, Known, CallInv,
       DeviceInv, ShapeInv, OpenInv, AddressInv, Closing, Resulting, Right, At, Stands, Leads
  <2>3. ASSUME Statuses = {"ok"}, Served PROVE Served'
    BY <1>1, <1>2, <1>3, <1>4, <1>5, <1>6, <1>7, <1>8, <1>9, <2>1, <2>3 DEF Served, AgreedInv,
       StartInv, ConnectInv, Going, Known, CallInv, DeviceInv, ShapeInv, Closing, Stopping,
       Resulting, At, Stands, Leads
  <2> QED
    BY <2>2, <2>3
<1> QED
  BY <1>9 DEF AppendRx, rtpOnly, Done

(* The callback of the reception runs, or not yet. *)
LEMMA CallbackGoes ==
    ASSUME Going, Callback("session"), ~Ending'
    PROVE  Known' /\ (Statuses = {"ok"} /\ Served => Served')
<1>1. PICK r \in SessionRests("callback") :
         /\ Stands("session", "callback", r)
         /\ \A steps : Then("session", steps) => todo'["session"] = steps \o r
  <2>1. At("session", "callback")
    BY DEF Callback
  <2> QED
    BY <2>1, SessionAt DEF Going, TypeInv, SilentInv
<1>2. /\ r \in Seq(Step)
      /\ r # <<>> => Head(r) \in {"answered", "setRx", "getRx", "unlock", "setTx",
                                  "resumeHeld", "endcall", "unbind", "stop", "connected",
                                  "opened", "callback", "connectedMedia"}
  BY <1>1, RestHas
<1>3. \A x : In(x, r) <=> x \in {"getRx", "setRx", "answered"}
  BY <1>1, RestHas
<1>4. /\ phone' = phone /\ ack' = ack /\ call' = call /\ result' = result
  BY DEF Callback, rtpOnly
<1>5. /\ rtp'.rx = rtp.rx /\ rtp'.tx = rtp.tx
      /\ rtp'.instance = rtp.instance
      /\ rtp'.address = rtp.address
  BY DEF Callback, rtpOnly, Going, TypeInv, TypeOK, Rtp, RunCallback, CallbackSteps, Ending,
     Going
<1>6. /\ (OpenSent' <=> OpenSent) /\ (StartSent' <=> StartSent)
      /\ (MayReceive' <=> MayReceive) /\ (MaySend' <=> MaySend)
  BY Unsaid DEF Callback, rtpOnly
<1>7. /\ (NoAnswer' <=> NoAnswer) /\ (LastTells' <=> LastTells)
      /\ (RefusalDue' <=> RefusalDue) /\ (StartAcks' <=> StartAcks)
  BY Unheard DEF Callback, rtpOnly
<1>8. CASE (rtp.cb = "none" \/ "active" \notin rtp.rx) /\ rtp' = rtp /\ Done("session")
  <2>1. todo'["session"] = r
    BY <1>8, <1>1, <1>2, PushStep DEF Done
  <2>2. Known'
    BY <1>1, <1>2, <1>3, <1>4, <1>5, <1>6, <1>7, <1>8, <2>1 DEF Going, Known, CallInv,
       DeviceInv, ShapeInv, OpenInv, AddressInv, Closing, Resulting, Right, At, Stands, Leads
  <2>3. ASSUME Statuses = {"ok"}, Served PROVE Served'
    BY <1>1, <1>2, <1>3, <1>4, <1>5, <1>6, <1>7, <1>8, <2>1, <2>3 DEF Served, AgreedInv,
       StartInv, ConnectInv, Going, Known, CallInv, DeviceInv, ShapeInv, Closing, Stopping,
       Resulting, At, Stands, Leads
  <2> QED
    BY <2>2, <2>3
<1>9. CASE rtp.cb = "start" /\ "active" \in rtp.rx /\ Then("session", <<"start">>)
  <2>1. Leads("start", {"start"}, r)'
    BY <1>9, <1>1, <1>2, Leading, AllSteps
  <2>2. Known'
    BY <1>1, <1>2, <1>3, <1>4, <1>5, <1>6, <1>7, <1>9, <2>1 DEF Going, Known, CallInv,
       DeviceInv, ShapeInv, OpenInv, AddressInv, Closing, Resulting, Right, At, Stands, Leads
  <2>3. ASSUME Statuses = {"ok"}, Served PROVE Served'
    BY <1>1, <1>2, <1>3, <1>4, <1>5, <1>6, <1>7, <1>9, <2>1, <2>3 DEF Served, AgreedInv,
       StartInv, ConnectInv, Going, Known, CallInv, DeviceInv, ShapeInv, Closing, Stopping,
       Resulting, At, Stands, Leads
  <2> QED
    BY <2>2, <2>3
<1>10. CASE rtp.cb # "start" /\ "active" \in rtp.rx /\ Then("session", <<"complete">>)
  <2>1. Leads("complete", {"complete"}, r)'
    BY <1>10, <1>1, <1>2, Leading, AllSteps
  <2>2. Known'
    BY <1>1, <1>2, <1>3, <1>4, <1>5, <1>6, <1>7, <1>10, <2>1 DEF Going, Known, CallInv,
       DeviceInv, ShapeInv, OpenInv, AddressInv, Closing, Resulting, Right, At, Stands, Leads
  <2>3. ASSUME Statuses = {"ok"}, Served PROVE Served'
    BY <1>1, <1>2, <1>3, <1>4, <1>5, <1>6, <1>7, <1>10, <2>1, <2>3 DEF Served, AgreedInv,
       StartInv, ConnectInv, Going, Known, CallInv, DeviceInv, ShapeInv, Closing, Stopping,
       Resulting, At, Stands, Leads
  <2> QED
    BY <2>2, <2>3
<1> QED
  BY <1>8, <1>9, <1>10 DEF Callback, rtpOnly, RunCallback, CallbackSteps, Ending, Going, Done

(* What is to be recorded is what is recorded. *)
LEMMA GetRxGoes ==
    ASSUME Going, GetRx("session"), ~Ending'
    PROVE  Known' /\ (Statuses = {"ok"} /\ Served => Served')
<1>1. PICK r \in SessionRests("getRx") :
         /\ Stands("session", "getRx", r)
         /\ \A steps : Then("session", steps) => todo'["session"] = steps \o r
  <2>1. At("session", "getRx")
    BY DEF GetRx
  <2> QED
    BY <2>1, SessionAt DEF Going, TypeInv, SilentInv
<1>2. /\ r \in Seq(Step)
      /\ r # <<>> => Head(r) \in {"answered", "setRx", "getRx", "unlock", "setTx",
                                  "resumeHeld", "endcall", "unbind", "stop", "connected",
                                  "opened", "callback", "connectedMedia"}
  BY <1>1, RestHas
<1>3. \A x : In(x, r) <=> x \in {"setRx", "answered"}
  BY <1>1, RestHas
<1>4. /\ phone' = phone /\ ack' = ack /\ call' = call /\ rtp' = rtp
  BY DEF GetRx
<1>5. result' = rtp.rx
  BY DEF GetRx
<1>6. /\ (OpenSent' <=> OpenSent) /\ (StartSent' <=> StartSent)
      /\ (MayReceive' <=> MayReceive) /\ (MaySend' <=> MaySend)
  BY Unsaid DEF GetRx
<1>7. /\ (NoAnswer' <=> NoAnswer) /\ (LastTells' <=> LastTells)
      /\ (RefusalDue' <=> RefusalDue) /\ (StartAcks' <=> StartAcks)
  BY Unheard DEF GetRx
<1>8. CASE Done("session")
  <2>1. todo'["session"] = r
    BY <1>8, <1>1, <1>2, PushStep DEF Done
  <2>2. Known'
    BY <1>1, <1>2, <1>3, <1>4, <1>5, <1>6, <1>7, <1>8, <2>1 DEF Going, Known, CallInv,
       DeviceInv, ShapeInv, OpenInv, AddressInv, Closing, Resulting, Right, At, Stands, Leads
  <2>3. ASSUME Statuses = {"ok"}, Served PROVE Served'
    BY <1>1, <1>2, <1>3, <1>4, <1>5, <1>6, <1>7, <1>8, <2>1, <2>3 DEF Served, AgreedInv,
       StartInv, ConnectInv, Going, Known, CallInv, DeviceInv, ShapeInv, Closing, Stopping,
       Resulting, At, Stands, Leads
  <2> QED
    BY <2>2, <2>3
<1> QED
  BY <1>8 DEF GetRx, Done

(* The result of an opening is recorded. *)
LEMMA SetRxGoes ==
    ASSUME Going, SetRx("session"), ~Ending'
    PROVE  Known' /\ (Statuses = {"ok"} /\ Served => Served')
<1>1. PICK r \in SessionRests("setRx") :
         /\ Stands("session", "setRx", r)
         /\ \A steps : Then("session", steps) => todo'["session"] = steps \o r
  <2>1. At("session", "setRx")
    BY DEF SetRx
  <2> QED
    BY <2>1, SessionAt DEF Going, TypeInv, SilentInv
<1>2. /\ r \in Seq(Step)
      /\ r # <<>> => Head(r) \in {"answered", "setRx", "getRx", "unlock", "setTx",
                                  "resumeHeld", "endcall", "unbind", "stop", "connected",
                                  "opened", "callback", "connectedMedia"}
  BY <1>1, RestHas
<1>3. \A x : In(x, r) <=> x = "answered"
  BY <1>1, RestHas
<1>4. /\ phone' = phone /\ ack' = ack /\ call' = call /\ result' = result
  BY DEF SetRx, rtpOnly
<1>5. /\ rtp'.rx = result /\ rtp'.tx = rtp.tx
      /\ rtp'.cb = rtp.cb /\ rtp'.instance = rtp.instance
      /\ rtp'.address = rtp.address
  BY DEF SetRx, rtpOnly, Going, TypeInv, TypeOK, Rtp
<1>6. /\ (OpenSent' <=> OpenSent) /\ (StartSent' <=> StartSent)
      /\ (MayReceive' <=> MayReceive) /\ (MaySend' <=> MaySend)
  BY Unsaid DEF SetRx, rtpOnly
<1>7. /\ (NoAnswer' <=> NoAnswer) /\ (LastTells' <=> LastTells)
      /\ (RefusalDue' <=> RefusalDue) /\ (StartAcks' <=> StartAcks)
  BY Unheard DEF SetRx, rtpOnly
<1>8. CASE Done("session")
  <2>1. todo'["session"] = r
    BY <1>8, <1>1, <1>2, PushStep DEF Done
  <2>2. Known'
    BY <1>1, <1>2, <1>3, <1>4, <1>5, <1>6, <1>7, <1>8, <2>1 DEF Going, Known, CallInv,
       DeviceInv, ShapeInv, OpenInv, AddressInv, Closing, Resulting, Right, At, Stands, Leads
  <2>3. ASSUME Statuses = {"ok"}, Served PROVE Served'
    <3>1. AgreedInv'
      BY <1>1, <1>2, <1>3, <1>4, <1>5, <1>6, <1>7, <1>8, <2>1, <2>3 DEF Served, AgreedInv,
         Going, Known, DeviceInv, ShapeInv, Closing, Stopping, Resulting, At, Stands, Leads
    <3>2. StartInv'
      BY <1>1, <1>2, <1>3, <1>4, <1>5, <1>6, <1>7, <1>8, <2>1, <2>3 DEF Served, AgreedInv,
         StartInv, Going, Known, DeviceInv, Stopping, At, Stands, Leads
    <3>3. ConnectInv'
      BY <1>1, <1>2, <1>3, <1>4, <1>5, <1>6, <1>7, <1>8, <2>1, <2>3 DEF Served, AgreedInv,
         ConnectInv, Going, Known, DeviceInv, ShapeInv, Resulting, At, Stands, Leads
    <3> QED
      BY <3>1, <3>2, <3>3 DEF Served
  <2> QED
    BY <2>2, <2>3
<1> QED
  BY <1>8 DEF SetRx, rtpOnly, Done

(* The request is answered. *)
LEMMA AnsweredGoes ==
    ASSUME Going, Answered("session"), ~Ending'
    PROVE  Known' /\ (Statuses = {"ok"} /\ Served => Served')
<1>1. PICK r \in SessionRests("answered") :
         /\ Stands("session", "answered", r)
         /\ \A steps : Then("session", steps) => todo'["session"] = steps \o r
  <2>1. At("session", "answered")
    BY DEF Answered
  <2> QED
    BY <2>1, SessionAt DEF Going, TypeInv, SilentInv
<1>2. /\ r \in Seq(Step)
      /\ r # <<>> => Head(r) \in {"answered", "setRx", "getRx", "unlock", "setTx",
                                  "resumeHeld", "endcall", "unbind", "stop", "connected",
                                  "opened", "callback", "connectedMedia"}
  BY <1>1, RestHas
<1>3. r = <<>> /\ \A x : ~In(x, r)
  BY <1>1, RestHas
<1>4. /\ phone' = phone /\ ack' = ack /\ call' = call /\ rtp' = rtp /\ result' = result
  BY DEF Answered
<1>5. /\ (OpenSent' <=> OpenSent) /\ (StartSent' <=> StartSent)
      /\ (MayReceive' <=> MayReceive) /\ (MaySend' <=> MaySend)
  BY Unsaid DEF Answered
<1>6. /\ (NoAnswer' <=> NoAnswer) /\ (LastTells' <=> LastTells)
      /\ (RefusalDue' <=> RefusalDue) /\ (StartAcks' <=> StartAcks)
  BY Unheard DEF Answered
<1>7. CASE Done("session")
  <2>1. todo'["session"] = r
    BY <1>7, <1>1, <1>2, PushStep DEF Done
  <2>2. Known'
    BY <1>1, <1>2, <1>3, <1>4, <1>5, <1>6, <1>7, <2>1 DEF Going, Known, CallInv, DeviceInv,
       ShapeInv, OpenInv, AddressInv, Closing, Resulting, Right, At, Stands, Leads
  <2>3. ASSUME Statuses = {"ok"}, Served PROVE Served'
    BY <1>1, <1>2, <1>3, <1>4, <1>5, <1>6, <1>7, <2>1, <2>3 DEF Served, AgreedInv, StartInv,
       ConnectInv, Going, Known, CallInv, DeviceInv, ShapeInv, Closing, Stopping, Resulting, At,
       Stands, Leads
  <2> QED
    BY <2>2, <2>3
<1> QED
  BY <1>7 DEF Answered, Done

(* The phone has answered a request to start. *)
LEMMA StartAckGoes ==
    ASSUME Going, StartAck("session"), ~Ending'
    PROVE  Known' /\ (Statuses = {"ok"} /\ Served => Served')
<1>1. PICK r \in SessionRests("startAck") :
         /\ Stands("session", "startAck", r)
         /\ \A steps : Then("session", steps) => todo'["session"] = steps \o r
  <2>1. At("session", "startAck")
    BY DEF StartAck
  <2> QED
    BY <2>1, SessionAt DEF Going, TypeInv, SilentInv
<1>2. /\ r \in Seq(Step)
      /\ r # <<>> => Head(r) \in {"answered", "setRx", "getRx", "unlock", "setTx",
                                  "resumeHeld", "endcall", "unbind", "stop", "connected",
                                  "opened", "callback", "connectedMedia"}
  BY <1>1, RestHas
<1>3. r = <<>> /\ \A x : ~In(x, r)
  BY <1>1, RestHas
<1>4. /\ phone' = phone /\ ack' = ack /\ call' = call /\ rtp' = rtp
  BY DEF StartAck
<1>5. /\ (NoAnswer' <=> NoAnswer) /\ (LastTells' <=> LastTells)
      /\ (RefusalDue' <=> RefusalDue) /\ (StartAcks' <=> StartAcks)
  BY Unheard DEF StartAck
<1>6. rtp.tx \subseteq {"progress", "active", "error"}
  BY DEF Going, TypeInv, TypeOK, Rtp, Flag
<1>7. \/ Refused \o <<"setTx">> = <<"close", "stop", "setTx">>
      \/ Refused \o <<"setTx">> = <<"close", "stop", "endcall", "setTx">>
  BY RefusedIs, AllSteps
<1>8. CASE /\ "progress" \in rtp.tx /\ ack.status = "ok" /\ result' = {"active"}
           /\ toPhone' = toPhone
           /\ Then("session", <<"started", "setTx">>)
  <2>1. Leads("started", {"started", "setTx"}, r)'
    BY <1>8, <1>1, <1>2, Leading, AllSteps
  <2>2. /\ (OpenSent' <=> OpenSent) /\ (StartSent' <=> StartSent)
        /\ (MayReceive' <=> MayReceive) /\ (MaySend' <=> MaySend)
    BY <1>8, Unsaid DEF StartAck
  <2>3. Known'
    BY <1>1, <1>2, <1>3, <1>4, <1>5, <1>6, <1>7, <1>8, <2>1, <2>2 DEF Going, Known, CallInv,
       DeviceInv, ShapeInv, OpenInv, AddressInv, Closing, Resulting, Right, At, Stands, Leads
  <2>4. ASSUME Statuses = {"ok"}, Served PROVE Served'
    BY <1>1, <1>2, <1>3, <1>4, <1>5, <1>6, <1>7, <1>8, <2>1, <2>2, <2>4 DEF Served, AgreedInv,
       StartInv, ConnectInv, Going, Known, CallInv, DeviceInv, ShapeInv, Closing, Stopping,
       Resulting, At, Stands, Leads
  <2> QED
    BY <2>3, <2>4
<1>9. CASE /\ ack.status # "ok" /\ result' = {"error"}
           /\ toPhone' = toPhone
           /\ Then("session", <<"close", "stop", "setTx">>)
  <2>1. Leads("close", {"close", "stop", "setTx"}, r)'
    BY <1>9, <1>1, <1>2, Leading, AllSteps
  <2>2. /\ (OpenSent' <=> OpenSent) /\ (StartSent' <=> StartSent)
        /\ (MayReceive' <=> MayReceive) /\ (MaySend' <=> MaySend)
    BY <1>9, Unsaid DEF StartAck
  <2>3. Known'
    BY <1>1, <1>2, <1>3, <1>4, <1>5, <1>6, <1>7, <1>9, <2>1, <2>2 DEF Going, Known, CallInv,
       DeviceInv, ShapeInv, OpenInv, AddressInv, Closing, Resulting, Right, At, Stands, Leads
  <2>4. ASSUME Statuses = {"ok"}, Served PROVE Served'
    BY <1>1, <1>2, <1>3, <1>4, <1>5, <1>6, <1>7, <1>9, <2>1, <2>2, <2>4 DEF Served, AgreedInv,
       StartInv, ConnectInv, Going, Known, CallInv, DeviceInv, ShapeInv, Closing, Stopping,
       Resulting, At, Stands, Leads
  <2> QED
    BY <2>3, <2>4
<1>10. CASE /\ ack.status # "ok" /\ result' = {"error"}
           /\ toPhone' = toPhone
           /\ Then("session", <<"close", "stop", "endcall", "setTx">>)
  <2>1. Leads("close", {"close", "stop", "endcall", "setTx"}, r)'
    BY <1>10, <1>1, <1>2, Leading, AllSteps
  <2>2. /\ (OpenSent' <=> OpenSent) /\ (StartSent' <=> StartSent)
        /\ (MayReceive' <=> MayReceive) /\ (MaySend' <=> MaySend)
    BY <1>10, Unsaid DEF StartAck
  <2>3. Known'
    BY <1>1, <1>2, <1>3, <1>4, <1>5, <1>6, <1>7, <1>10, <2>1, <2>2 DEF Going, Known, CallInv,
       DeviceInv, ShapeInv, OpenInv, AddressInv, Closing, Resulting, Right, At, Stands, Leads
  <2>4. ASSUME Statuses = {"ok"}, Served PROVE Served'
    BY <1>1, <1>2, <1>3, <1>4, <1>5, <1>6, <1>7, <1>10, <2>1, <2>2, <2>4 DEF Served,
       AgreedInv, StartInv, ConnectInv, Going, Known, CallInv, DeviceInv, ShapeInv, Closing,
       Stopping, Resulting, At, Stands, Leads
  <2> QED
    BY <2>3, <2>4
<1>11. CASE /\ "progress" \notin rtp.tx /\ result' = result /\ toPhone' = toPhone
           /\ Done("session")
  <2>1. todo'["session"] = r
    BY <1>11, <1>1, <1>2, PushStep DEF Done
  <2>2. /\ (OpenSent' <=> OpenSent) /\ (StartSent' <=> StartSent)
        /\ (MayReceive' <=> MayReceive) /\ (MaySend' <=> MaySend)
    BY <1>11, Unsaid DEF StartAck
  <2>3. Known'
    BY <1>1, <1>2, <1>3, <1>4, <1>5, <1>6, <1>7, <1>11, <2>1, <2>2 DEF Going, Known, CallInv,
       DeviceInv, ShapeInv, OpenInv, AddressInv, Closing, Resulting, Right, At, Stands, Leads
  <2>4. ASSUME Statuses = {"ok"}, Served PROVE Served'
    BY <1>1, <1>2, <1>3, <1>4, <1>5, <1>6, <1>7, <1>11, <2>1, <2>2, <2>4 DEF Served,
       AgreedInv, StartInv, ConnectInv, Going, Known, CallInv, DeviceInv, ShapeInv, Closing,
       Stopping, Resulting, At, Stands, Leads
  <2> QED
    BY <2>3, <2>4
<1> QED
  BY <1>7, <1>8, <1>9, <1>10, <1>11 DEF StartAck, Found, Going, Known, CallInv, Done

(* The phone sends. *)
LEMMA StartedGoes ==
    ASSUME Going, Started("session"), ~Ending'
    PROVE  Known' /\ (Statuses = {"ok"} /\ Served => Served')
<1>1. PICK r \in SessionRests("started") :
         /\ Stands("session", "started", r)
         /\ \A steps : Then("session", steps) => todo'["session"] = steps \o r
  <2>1. At("session", "started")
    BY DEF Started
  <2> QED
    BY <2>1, SessionAt DEF Going, TypeInv, SilentInv
<1>2. r \in Seq(Step)
  BY <1>1, RestHas
<1>3. \A x : In(x, r) <=> x = "setTx"
  BY <1>1, RestHas
<1>4. /\ phone' = phone /\ ack' = ack /\ call' = call /\ rtp' = rtp /\ result' = result
  BY DEF Started, nothing
<1>5. /\ (OpenSent' <=> OpenSent) /\ (StartSent' <=> StartSent)
      /\ (MayReceive' <=> MayReceive) /\ (MaySend' <=> MaySend)
  BY Unsaid DEF Started, nothing
<1>6. /\ (NoAnswer' <=> NoAnswer) /\ (LastTells' <=> LastTells)
      /\ (RefusalDue' <=> RefusalDue) /\ (StartAcks' <=> StartAcks)
  BY Unheard DEF Started, nothing
<1>7. CASE Then("session", <<"appendTx">>)
  <2>1. Leads("appendTx", {"appendTx"}, r)'
    BY <1>7, <1>1, <1>2, Leading, AllSteps
  <2>2. Known'
    BY <1>1, <1>2, <1>3, <1>4, <1>5, <1>6, <1>7, <2>1 DEF Going, Known, CallInv, DeviceInv,
       ShapeInv, OpenInv, AddressInv, Closing, Resulting, Right, At, Stands, Leads
  <2>3. ASSUME Statuses = {"ok"}, Served PROVE Served'
    BY <1>1, <1>2, <1>3, <1>4, <1>5, <1>6, <1>7, <2>1, <2>3 DEF Served, AgreedInv, StartInv,
       ConnectInv, Going, Known, CallInv, DeviceInv, ShapeInv, Closing, Stopping, Resulting, At,
       Stands, Leads
  <2> QED
    BY <2>2, <2>3
<1> QED
  BY <1>7 DEF Started, nothing, Ending, Going, Known, CallInv, Done

(* The transmission is active. *)
LEMMA AppendTxGoes ==
    ASSUME Going, AppendTx("session"), ~Ending'
    PROVE  Known' /\ (Statuses = {"ok"} /\ Served => Served')
<1>1. PICK r \in SessionRests("appendTx") :
         /\ Stands("session", "appendTx", r)
         /\ \A steps : Then("session", steps) => todo'["session"] = steps \o r
  <2>1. At("session", "appendTx")
    BY DEF AppendTx
  <2> QED
    BY <2>1, SessionAt DEF Going, TypeInv, SilentInv
<1>2. /\ r \in Seq(Step)
      /\ r # <<>> => Head(r) \in {"answered", "setRx", "getRx", "unlock", "setTx",
                                  "resumeHeld", "endcall", "unbind", "stop", "connected",
                                  "opened", "callback", "connectedMedia"}
  BY <1>1, RestHas
<1>3. \A x : In(x, r) <=> x = "setTx"
  BY <1>1, RestHas
<1>4. /\ phone' = phone /\ ack' = ack /\ call' = call /\ result' = result
  BY DEF AppendTx, rtpOnly
<1>5. /\ rtp'.rx = rtp.rx /\ rtp'.tx = rtp.tx \cup {"active"}
      /\ rtp'.cb = rtp.cb /\ rtp'.instance = rtp.instance
      /\ rtp'.address = rtp.address
  BY DEF AppendTx, rtpOnly, Going, TypeInv, TypeOK, Rtp
<1>6. /\ (OpenSent' <=> OpenSent) /\ (StartSent' <=> StartSent)
      /\ (MayReceive' <=> MayReceive) /\ (MaySend' <=> MaySend)
  BY Unsaid DEF AppendTx, rtpOnly
<1>7. /\ (NoAnswer' <=> NoAnswer) /\ (LastTells' <=> LastTells)
      /\ (RefusalDue' <=> RefusalDue) /\ (StartAcks' <=> StartAcks)
  BY Unheard DEF AppendTx, rtpOnly
<1>8. CASE Done("session")
  <2>1. todo'["session"] = r
    BY <1>8, <1>1, <1>2, PushStep DEF Done
  <2>2. Known'
    BY <1>1, <1>2, <1>3, <1>4, <1>5, <1>6, <1>7, <1>8, <2>1 DEF Going, Known, CallInv,
       DeviceInv, ShapeInv, OpenInv, AddressInv, Closing, Resulting, Right, At, Stands, Leads
  <2>3. ASSUME Statuses = {"ok"}, Served PROVE Served'
    BY <1>1, <1>2, <1>3, <1>4, <1>5, <1>6, <1>7, <1>8, <2>1, <2>3 DEF Served, AgreedInv,
       StartInv, ConnectInv, Going, Known, CallInv, DeviceInv, ShapeInv, Closing, Stopping,
       Resulting, At, Stands, Leads
  <2> QED
    BY <2>2, <2>3
<1> QED
  BY <1>8 DEF AppendTx, rtpOnly, Done

(* The result of a starting is recorded. *)
LEMMA SetTxGoes ==
    ASSUME Going, SetTx("session"), ~Ending'
    PROVE  Known' /\ (Statuses = {"ok"} /\ Served => Served')
<1>1. PICK r \in SessionRests("setTx") :
         /\ Stands("session", "setTx", r)
         /\ \A steps : Then("session", steps) => todo'["session"] = steps \o r
  <2>1. At("session", "setTx")
    BY DEF SetTx
  <2> QED
    BY <2>1, SessionAt DEF Going, TypeInv, SilentInv
<1>2. /\ r \in Seq(Step)
      /\ r # <<>> => Head(r) \in {"answered", "setRx", "getRx", "unlock", "setTx",
                                  "resumeHeld", "endcall", "unbind", "stop", "connected",
                                  "opened", "callback", "connectedMedia"}
  BY <1>1, RestHas
<1>3. r = <<>> /\ \A x : ~In(x, r)
  BY <1>1, RestHas
<1>4. /\ phone' = phone /\ ack' = ack /\ call' = call /\ result' = result
  BY DEF SetTx, rtpOnly
<1>5. /\ rtp'.rx = rtp.rx /\ rtp'.tx = result
      /\ rtp'.cb = rtp.cb /\ rtp'.instance = rtp.instance
      /\ rtp'.address = rtp.address
  BY DEF SetTx, rtpOnly, Going, TypeInv, TypeOK, Rtp
<1>6. /\ (OpenSent' <=> OpenSent) /\ (StartSent' <=> StartSent)
      /\ (MayReceive' <=> MayReceive) /\ (MaySend' <=> MaySend)
  BY Unsaid DEF SetTx, rtpOnly
<1>7. /\ (NoAnswer' <=> NoAnswer) /\ (LastTells' <=> LastTells)
      /\ (RefusalDue' <=> RefusalDue) /\ (StartAcks' <=> StartAcks)
  BY Unheard DEF SetTx, rtpOnly
<1>8. CASE Done("session")
  <2>1. todo'["session"] = r
    BY <1>8, <1>1, <1>2, PushStep DEF Done
  <2>2. Known'
    BY <1>1, <1>2, <1>3, <1>4, <1>5, <1>6, <1>7, <1>8, <2>1 DEF Going, Known, CallInv,
       DeviceInv, ShapeInv, OpenInv, AddressInv, Closing, Resulting, Right, At, Stands, Leads
  <2>3. ASSUME Statuses = {"ok"}, Served PROVE Served'
    BY <1>1, <1>2, <1>3, <1>4, <1>5, <1>6, <1>7, <1>8, <2>1, <2>3 DEF Served, AgreedInv,
       StartInv, ConnectInv, Going, Known, CallInv, DeviceInv, ShapeInv, Closing, Stopping,
       Resulting, At, Stands, Leads
  <2> QED
    BY <2>2, <2>3
<1> QED
  BY <1>8 DEF SetTx, rtpOnly, Done

(* The user answers. *)
LEMMA AnswerGoes ==
    ASSUME Going, Answer("session"), ~Ending'
    PROVE  Known' /\ (Statuses = {"ok"} /\ Served => Served')
<1>1. PICK r \in SessionRests("answer") :
         /\ Stands("session", "answer", r)
         /\ \A steps : Then("session", steps) => todo'["session"] = steps \o r
  <2>1. At("session", "answer")
    BY DEF Answer
  <2> QED
    BY <2>1, SessionAt DEF Going, TypeInv, SilentInv
<1>2. /\ r \in Seq(Step)
      /\ r # <<>> => Head(r) \in {"answered", "setRx", "getRx", "unlock", "setTx",
                                  "resumeHeld", "endcall", "unbind", "stop", "connected",
                                  "opened", "callback", "connectedMedia"}
  BY <1>1, RestHas
<1>3. r = <<>> /\ \A x : ~In(x, r)
  BY <1>1, RestHas
<1>4. /\ phone' = phone /\ ack' = ack /\ result' = result
  BY DEF Answer
<1>5. /\ (OpenSent' <=> OpenSent) /\ (StartSent' <=> StartSent)
      /\ (MayReceive' <=> MayReceive) /\ (MaySend' <=> MaySend)
  BY Unsaid DEF Answer
<1>6. /\ (NoAnswer' <=> NoAnswer) /\ (LastTells' <=> LastTells)
      /\ (RefusalDue' <=> RefusalDue) /\ (StartAcks' <=> StartAcks)
  BY Unheard DEF Answer
<1>7. CASE /\ call.state = "ringing"
           /\ call' = [call EXCEPT !.answering = TRUE, !.device = TRUE]
           /\ rtp' = [rtp EXCEPT !.cb = "complete"]
           /\ Then("session", <<"open", "unlock">>)
  <2>1. Leads("open", {"open", "unlock"}, r)'
    BY <1>7, <1>1, <1>2, Leading, AllSteps
  <2>2. /\ call'.listed = call.listed /\ call'.state = call.state
        /\ call'.device = TRUE /\ call'.answering = TRUE
    BY <1>7 DEF Going, TypeInv, TypeOK, Call
  <2>3. /\ rtp'.rx = rtp.rx /\ rtp'.tx = rtp.tx
        /\ rtp'.instance = rtp.instance /\ rtp'.address = rtp.address
    BY <1>7 DEF Going, TypeInv, TypeOK, Rtp
  <2>4. Known'
    BY <1>1, <1>2, <1>3, <1>4, <1>5, <1>6, <1>7, <2>1, <2>2, <2>3 DEF Going, Known, CallInv,
       DeviceInv, ShapeInv, OpenInv, AddressInv, Closing, Resulting, Right, At, Stands, Leads
  <2>5. ASSUME Statuses = {"ok"}, Served PROVE Served'
    BY <1>1, <1>2, <1>3, <1>4, <1>5, <1>6, <1>7, <2>1, <2>2, <2>3, <2>5 DEF Served, AgreedInv,
       StartInv, ConnectInv, Going, Known, CallInv, DeviceInv, ShapeInv, Closing, Stopping,
       Resulting, At, Stands, Leads
  <2> QED
    BY <2>4, <2>5
<1>8. CASE call' = call /\ rtp' = rtp /\ Done("session")
  <2>1. todo'["session"] = r
    BY <1>8, <1>1, <1>2, PushStep DEF Done
  <2>2. Known'
    BY <1>1, <1>2, <1>3, <1>4, <1>5, <1>6, <1>8, <2>1 DEF Going, Known, CallInv, DeviceInv,
       ShapeInv, OpenInv, AddressInv, Closing, Resulting, Right, At, Stands, Leads
  <2>3. ASSUME Statuses = {"ok"}, Served PROVE Served'
    BY <1>1, <1>2, <1>3, <1>4, <1>5, <1>6, <1>8, <2>1, <2>3 DEF Served, AgreedInv, StartInv,
       ConnectInv, Going, Known, CallInv, DeviceInv, ShapeInv, Closing, Stopping, Resulting, At,
       Stands, Leads
  <2> QED
    BY <2>2, <2>3
<1> QED
  BY <1>7, <1>8 DEF Answer, Done

(* The call that was answered receives. *)
LEMMA CompleteGoes ==
    ASSUME Going, Complete("session"), ~Ending'
    PROVE  Known' /\ (Statuses = {"ok"} /\ Served => Served')
<1>1. PICK r \in SessionRests("complete") :
         /\ Stands("session", "complete", r)
         /\ \A steps : Then("session", steps) => todo'["session"] = steps \o r
  <2>1. At("session", "complete")
    BY DEF Complete
  <2> QED
    BY <2>1, SessionAt DEF Going, TypeInv, SilentInv
<1>2. /\ r \in Seq(Step)
      /\ r # <<>> => Head(r) \in {"answered", "setRx", "getRx", "unlock", "setTx",
                                  "resumeHeld", "endcall", "unbind", "stop", "connected",
                                  "opened", "callback", "connectedMedia"}
  BY <1>1, RestHas
<1>3. \A x : In(x, r) <=> x \in {"getRx", "setRx", "answered"}
  BY <1>1, RestHas
<1>4. /\ phone' = phone /\ ack' = ack /\ call' = call /\ rtp' = rtp /\ result' = result
  BY DEF Complete, nothing
<1>5. /\ (OpenSent' <=> OpenSent) /\ (StartSent' <=> StartSent)
      /\ (MayReceive' <=> MayReceive) /\ (MaySend' <=> MaySend)
  BY Unsaid DEF Complete, nothing
<1>6. /\ (NoAnswer' <=> NoAnswer) /\ (LastTells' <=> LastTells)
      /\ (RefusalDue' <=> RefusalDue) /\ (StartAcks' <=> StartAcks)
  BY Unheard DEF Complete, nothing
<1>7. CASE Done("session")
  <2>1. todo'["session"] = r
    BY <1>7, <1>1, <1>2, PushStep DEF Done
  <2>2. Known'
    BY <1>1, <1>2, <1>3, <1>4, <1>5, <1>6, <1>7, <2>1 DEF Going, Known, CallInv, DeviceInv,
       ShapeInv, OpenInv, AddressInv, Closing, Resulting, Right, At, Stands, Leads
  <2>3. ASSUME Statuses = {"ok"}, Served PROVE Served'
    BY <1>1, <1>2, <1>3, <1>4, <1>5, <1>6, <1>7, <2>1, <2>3 DEF Served, AgreedInv, StartInv,
       ConnectInv, Going, Known, CallInv, DeviceInv, ShapeInv, Closing, Stopping, Resulting, At,
       Stands, Leads
  <2> QED
    BY <2>2, <2>3
<1>8. CASE call.device /\ Then("session", <<"completeLocked">>)
  <2>1. Leads("completeLocked", {"completeLocked"}, r)'
    BY <1>8, <1>1, <1>2, Leading, AllSteps
  <2>2. Known'
    BY <1>1, <1>2, <1>3, <1>4, <1>5, <1>6, <1>8, <2>1 DEF Going, Known, CallInv, DeviceInv,
       ShapeInv, OpenInv, AddressInv, Closing, Resulting, Right, At, Stands, Leads
  <2>3. ASSUME Statuses = {"ok"}, Served PROVE Served'
    BY <1>1, <1>2, <1>3, <1>4, <1>5, <1>6, <1>8, <2>1, <2>3 DEF Served, AgreedInv, StartInv,
       ConnectInv, Going, Known, CallInv, DeviceInv, ShapeInv, Closing, Stopping, Resulting, At,
       Stands, Leads
  <2> QED
    BY <2>2, <2>3
<1> QED
  BY <1>7, <1>8 DEF Complete, nothing, Done

(* The call that was answered is completed. *)
LEMMA CompleteLockedGoes ==
    ASSUME Going, CompleteLocked("session"), ~Ending'
    PROVE  Known' /\ (Statuses = {"ok"} /\ Served => Served')
<1>1. PICK r \in SessionRests("completeLocked") :
         /\ Stands("session", "completeLocked", r)
         /\ \A steps : Then("session", steps) => todo'["session"] = steps \o r
  <2>1. At("session", "completeLocked")
    BY DEF CompleteLocked
  <2> QED
    BY <2>1, SessionAt DEF Going, TypeInv, SilentInv
<1>2. r \in Seq(Step)
  BY <1>1, RestHas
<1>3. \A x : In(x, r) <=> x \in {"getRx", "setRx", "answered"}
  BY <1>1, RestHas
<1>4. /\ phone' = phone /\ ack' = ack /\ call' = call /\ rtp' = rtp /\ result' = result
  BY DEF CompleteLocked, callOnly
<1>5. /\ (OpenSent' <=> OpenSent) /\ (StartSent' <=> StartSent)
      /\ (MayReceive' <=> MayReceive) /\ (MaySend' <=> MaySend)
  BY Unsaid DEF CompleteLocked, callOnly
<1>6. /\ (NoAnswer' <=> NoAnswer) /\ (LastTells' <=> LastTells)
      /\ (RefusalDue' <=> RefusalDue) /\ (StartAcks' <=> StartAcks)
  BY Unheard DEF CompleteLocked, callOnly
<1>7. CASE Then("session", <<"start", "connected", "connectedMedia", "unlock">>)
  <2>1. Leads("start", {"start", "connected", "connectedMedia", "unlock"}, r)'
    BY <1>7, <1>1, <1>2, Leading, AllSteps
  <2>2. Known'
    BY <1>1, <1>2, <1>3, <1>4, <1>5, <1>6, <1>7, <2>1 DEF Going, Known, CallInv, DeviceInv,
       ShapeInv, OpenInv, AddressInv, Closing, Resulting, Right, At, Stands, Leads
  <2>3. ASSUME Statuses = {"ok"}, Served PROVE Served'
    BY <1>1, <1>2, <1>3, <1>4, <1>5, <1>6, <1>7, <2>1, <2>3 DEF Served, AgreedInv, StartInv,
       ConnectInv, Going, Known, CallInv, DeviceInv, ShapeInv, Closing, Stopping, Resulting, At,
       Stands, Leads
  <2> QED
    BY <2>2, <2>3
<1> QED
  BY <1>7 DEF CompleteLocked, callOnly, Ending, Going, Done

(* The user holds the call. *)
LEMMA HoldGoes ==
    ASSUME Going, Hold("session"), ~Ending'
    PROVE  Known' /\ (Statuses = {"ok"} /\ Served => Served')
<1>1. PICK r \in SessionRests("hold") :
         /\ Stands("session", "hold", r)
         /\ \A steps : Then("session", steps) => todo'["session"] = steps \o r
  <2>1. At("session", "hold")
    BY DEF Hold
  <2> QED
    BY <2>1, SessionAt DEF Going, TypeInv, SilentInv
<1>2. /\ r \in Seq(Step)
      /\ r # <<>> => Head(r) \in {"answered", "setRx", "getRx", "unlock", "setTx",
                                  "resumeHeld", "endcall", "unbind", "stop", "connected",
                                  "opened", "callback", "connectedMedia"}
  BY <1>1, RestHas
<1>3. \A x : In(x, r) => x = "resumeHeld"
  BY <1>1, RestHas
<1>4. /\ phone' = phone /\ ack' = ack /\ rtp' = rtp /\ result' = result
  BY DEF Hold, callOnly
<1>5. /\ (OpenSent' <=> OpenSent) /\ (StartSent' <=> StartSent)
      /\ (MayReceive' <=> MayReceive) /\ (MaySend' <=> MaySend)
  BY Unsaid DEF Hold, callOnly
<1>6. /\ (NoAnswer' <=> NoAnswer) /\ (LastTells' <=> LastTells)
      /\ (RefusalDue' <=> RefusalDue) /\ (StartAcks' <=> StartAcks)
  BY Unheard DEF Hold, callOnly
<1>7. CASE /\ call.device /\ call' = [call EXCEPT !.state = "hold"]
           /\ Then("session", <<"close", "stop", "unbind">>)
  <2>1. Leads("close", {"close", "stop", "unbind"}, r)'
    BY <1>7, <1>1, <1>2, Leading, AllSteps
  <2>2. /\ call'.listed = call.listed /\ call'.state = "hold"
        /\ call'.device = call.device /\ call'.answering = call.answering
    BY <1>7 DEF Going, TypeInv, TypeOK, Call
  <2>3. /\ todo'["session"] # <<>> /\ Head(todo'["session"]) = "close"
        /\ In("stop", todo'["session"])
        /\ ~In("setRx", todo'["session"]) /\ ~In("setTx", todo'["session"])
    BY <1>3, <2>1 DEF Leads
  <2>4. Known'
    <3>1. CallInv'
      BY <1>1, <1>2, <1>3, <1>4, <1>5, <1>6, <1>7, <2>1, <2>2, <2>3 DEF Going, Known, CallInv
    <3>2. DeviceInv'
      BY <1>1, <1>2, <1>3, <1>4, <1>5, <1>6, <1>7, <2>1, <2>2, <2>3 DEF Going, Known, CallInv,
         DeviceInv, ShapeInv, Closing, At, Stands, Leads
    <3>3. ShapeInv'
      BY <1>1, <1>2, <1>3, <1>4, <1>5, <1>6, <1>7, <2>1, <2>2, <2>3 DEF Going, Known,
         DeviceInv, ShapeInv, Closing, Resulting, At, Stands, Leads
    <3>4. OpenInv'
      BY <1>1, <1>2, <1>3, <1>4, <1>5, <1>6, <1>7, <2>1, <2>2, <2>3 DEF Going, Known,
         DeviceInv, ShapeInv, OpenInv, Closing, Resulting, At, Stands, Leads
    <3>5. AddressInv'
      BY <1>1, <1>2, <1>3, <1>4, <1>5, <1>6, <1>7, <2>1, <2>2, <2>3 DEF Going, Known,
         DeviceInv, ShapeInv, OpenInv, AddressInv, Closing, Resulting, Right, At, Stands, Leads
    <3> QED
      BY <3>1, <3>2, <3>3, <3>4, <3>5 DEF Known
  <2>5. ASSUME Statuses = {"ok"}, Served PROVE Served'
    <3>1. AgreedInv'
      BY <1>1, <1>2, <1>3, <1>4, <1>5, <1>6, <1>7, <2>1, <2>2, <2>3, <2>5 DEF Served,
         AgreedInv, Going, Known, DeviceInv, ShapeInv, Closing, Stopping, Resulting, At, Stands,
         Leads
    <3>2. StartInv'
      BY <1>1, <1>2, <1>3, <1>4, <1>5, <1>6, <1>7, <2>1, <2>2, <2>3, <2>5 DEF Served,
         AgreedInv, StartInv, Going, Known, DeviceInv, Stopping, At, Stands, Leads
    <3>3. ConnectInv'
      BY <1>1, <1>2, <1>3, <1>4, <1>5, <1>6, <1>7, <2>1, <2>2, <2>3, <2>5 DEF Served,
         AgreedInv, ConnectInv, Going, Known, DeviceInv, ShapeInv, Resulting, At, Stands, Leads
    <3> QED
      BY <3>1, <3>2, <3>3 DEF Served
  <2> QED
    BY <2>4, <2>5
<1>8. CASE call' = call /\ Done("session")
  <2>1. todo'["session"] = r
    BY <1>8, <1>1, <1>2, PushStep DEF Done
  <2>2. Known'
    BY <1>1, <1>2, <1>3, <1>4, <1>5, <1>6, <1>8, <2>1 DEF Going, Known, CallInv, DeviceInv,
       ShapeInv, OpenInv, AddressInv, Closing, Resulting, Right, At, Stands, Leads
  <2>3. ASSUME Statuses = {"ok"}, Served PROVE Served'
    BY <1>1, <1>2, <1>3, <1>4, <1>5, <1>6, <1>8, <2>1, <2>3 DEF Served, AgreedInv, StartInv,
       ConnectInv, Going, Known, CallInv, DeviceInv, ShapeInv, Closing, Stopping, Resulting, At,
       Stands, Leads
  <2> QED
    BY <2>2, <2>3
<1> QED
  BY HoldIs, <1>7, <1>8 DEF Hold, callOnly, Done

(* The user resumes the call. *)
LEMMA ResumeGoes ==
    ASSUME Going, Resume("session"), ~Ending'
    PROVE  Known' /\ (Statuses = {"ok"} /\ Served => Served')
<1>1. PICK r \in SessionRests("resume") :
         /\ Stands("session", "resume", r)
         /\ \A steps : Then("session", steps) => todo'["session"] = steps \o r
  <2>1. At("session", "resume")
    BY DEF Resume
  <2> QED
    BY <2>1, SessionAt DEF Going, TypeInv, SilentInv
<1>2. r \in Seq(Step)
  BY <1>1, RestHas
<1>3. r = <<>> /\ \A x : ~In(x, r)
  BY <1>1, RestHas
<1>4. /\ phone' = phone /\ ack' = ack /\ call' = call /\ rtp' = rtp /\ result' = result
  BY DEF Resume, callOnly
<1>5. /\ (OpenSent' <=> OpenSent) /\ (StartSent' <=> StartSent)
      /\ (MayReceive' <=> MayReceive) /\ (MaySend' <=> MaySend)
  BY Unsaid DEF Resume, callOnly
<1>6. /\ (NoAnswer' <=> NoAnswer) /\ (LastTells' <=> LastTells)
      /\ (RefusalDue' <=> RefusalDue) /\ (StartAcks' <=> StartAcks)
  BY Unheard DEF Resume, callOnly
<1>7. CASE Then("session", <<"hold", "resumeHeld">>)
  <2>1. Leads("hold", {"hold", "resumeHeld"}, r)'
    BY <1>7, <1>1, <1>2, Leading, AllSteps
  <2>2. Known'
    BY <1>1, <1>2, <1>3, <1>4, <1>5, <1>6, <1>7, <2>1 DEF Going, Known, CallInv, DeviceInv,
       ShapeInv, OpenInv, AddressInv, Closing, Resulting, Right, At, Stands, Leads
  <2>3. ASSUME Statuses = {"ok"}, Served PROVE Served'
    BY <1>1, <1>2, <1>3, <1>4, <1>5, <1>6, <1>7, <2>1, <2>3 DEF Served, AgreedInv, StartInv,
       ConnectInv, Going, Known, CallInv, DeviceInv, ShapeInv, Closing, Stopping, Resulting, At,
       Stands, Leads
  <2> QED
    BY <2>2, <2>3
<1>8. CASE Then("session", <<"resumeHeld">>)
  <2>1. Leads("resumeHeld", {"resumeHeld"}, r)'
    BY <1>8, <1>1, <1>2, Leading, AllSteps
  <2>2. Known'
    BY <1>1, <1>2, <1>3, <1>4, <1>5, <1>6, <1>8, <2>1 DEF Going, Known, CallInv, DeviceInv,
       ShapeInv, OpenInv, AddressInv, Closing, Resulting, Right, At, Stands, Leads
  <2>3. ASSUME Statuses = {"ok"}, Served PROVE Served'
    BY <1>1, <1>2, <1>3, <1>4, <1>5, <1>6, <1>8, <2>1, <2>3 DEF Served, AgreedInv, StartInv,
       ConnectInv, Going, Known, CallInv, DeviceInv, ShapeInv, Closing, Stopping, Resulting, At,
       Stands, Leads
  <2> QED
    BY <2>2, <2>3
<1> QED
  BY <1>7, <1>8 DEF Resume, callOnly, Done

(* The call that was held is taken back. *)
LEMMA ResumeHeldGoes ==
    ASSUME Going, ResumeHeld("session"), ~Ending'
    PROVE  Known' /\ (Statuses = {"ok"} /\ Served => Served')
<1>1. PICK r \in SessionRests("resumeHeld") :
         /\ Stands("session", "resumeHeld", r)
         /\ \A steps : Then("session", steps) => todo'["session"] = steps \o r
  <2>1. At("session", "resumeHeld")
    BY DEF ResumeHeld
  <2> QED
    BY <2>1, SessionAt DEF Going, TypeInv, SilentInv
<1>2. r \in Seq(Step)
  BY <1>1, RestHas
<1>3. r = <<>> /\ \A x : ~In(x, r)
  BY <1>1, RestHas
<1>4. /\ phone' = phone /\ ack' = ack /\ rtp' = rtp /\ result' = result
  BY DEF ResumeHeld, callOnly
<1>5. /\ (OpenSent' <=> OpenSent) /\ (StartSent' <=> StartSent)
      /\ (MayReceive' <=> MayReceive) /\ (MaySend' <=> MaySend)
  BY Unsaid DEF ResumeHeld, callOnly
<1>6. /\ (NoAnswer' <=> NoAnswer) /\ (LastTells' <=> LastTells)
      /\ (RefusalDue' <=> RefusalDue) /\ (StartAcks' <=> StartAcks)
  BY Unheard DEF ResumeHeld, callOnly
<1>7. CASE /\ call.state = "hold" /\ call' = [call EXCEPT !.device = TRUE]
           /\ Then("session", <<"connected", "connectedMedia", "unlock">>)
  <2>1. Leads("connected", {"connected", "connectedMedia", "unlock"}, r)'
    BY <1>7, <1>1, <1>2, Leading, AllSteps
  <2>2. /\ call'.listed = call.listed /\ call'.state = call.state
        /\ call'.device = TRUE /\ call'.answering = call.answering
    BY <1>7 DEF Going, TypeInv, TypeOK, Call
  <2>3. Known'
    BY <1>1, <1>2, <1>3, <1>4, <1>5, <1>6, <1>7, <2>1, <2>2 DEF Going, Known, CallInv,
       DeviceInv, ShapeInv, OpenInv, AddressInv, Closing, Resulting, Right, At, Stands, Leads
  <2>4. ASSUME Statuses = {"ok"}, Served PROVE Served'
    BY <1>1, <1>2, <1>3, <1>4, <1>5, <1>6, <1>7, <2>1, <2>2, <2>4 DEF Served, AgreedInv,
       StartInv, ConnectInv, Going, Known, CallInv, DeviceInv, ShapeInv, Closing, Stopping,
       Resulting, At, Stands, Leads
  <2> QED
    BY <2>3, <2>4
<1>8. CASE call' = call /\ Then("session", <<"unlock">>)
  <2>1. Leads("unlock", {"unlock"}, r)'
    BY <1>8, <1>1, <1>2, Leading, AllSteps
  <2>2. Known'
    BY <1>1, <1>2, <1>3, <1>4, <1>5, <1>6, <1>8, <2>1 DEF Going, Known, CallInv, DeviceInv,
       ShapeInv, OpenInv, AddressInv, Closing, Resulting, Right, At, Stands, Leads
  <2>3. ASSUME Statuses = {"ok"}, Served PROVE Served'
    BY <1>1, <1>2, <1>3, <1>4, <1>5, <1>6, <1>8, <2>1, <2>3 DEF Served, AgreedInv, StartInv,
       ConnectInv, Going, Known, CallInv, DeviceInv, ShapeInv, Closing, Stopping, Resulting, At,
       Stands, Leads
  <2> QED
    BY <2>2, <2>3
<1> QED
  BY <1>7, <1>8 DEF ResumeHeld, callOnly, Done

(* The PBX is asked to hang up. *)
LEMMA RequestGoes ==
    ASSUME Going, Request("session"), ~Ending'
    PROVE  Known' /\ (Statuses = {"ok"} /\ Served => Served')
<1>1. PICK r \in SessionRests("request") :
         /\ Stands("session", "request", r)
         /\ \A steps : Then("session", steps) => todo'["session"] = steps \o r
  <2>1. At("session", "request")
    BY DEF Request
  <2> QED
    BY <2>1, SessionAt DEF Going, TypeInv, SilentInv
<1>2. r \in Seq(Step)
  BY <1>1, RestHas
<1>3. /\ phone' = phone /\ ack' = ack /\ rtp' = rtp /\ result' = result
  BY DEF Request, callOnly
<1>4. /\ (OpenSent' <=> OpenSent) /\ (StartSent' <=> StartSent)
      /\ (MayReceive' <=> MayReceive) /\ (MaySend' <=> MaySend)
  BY Unsaid DEF Request, callOnly
<1>5. /\ (NoAnswer' <=> NoAnswer) /\ (LastTells' <=> LastTells)
      /\ (RefusalDue' <=> RefusalDue) /\ (StartAcks' <=> StartAcks)
  BY Unheard DEF Request, callOnly
<1>6. CASE call' = call /\ Then("session", <<"flag">>)
  <2>1. Leads("flag", {"flag"}, r)'
    BY <1>6, <1>1, <1>2, Leading, AllSteps
  <2>2. Known'
    BY <1>1, <1>2, <1>3, <1>4, <1>5, <1>6, <2>1 DEF Going, Known, CallInv, DeviceInv,
       ShapeInv, OpenInv, AddressInv, Closing, Resulting, Right, At, Stands, Leads
  <2>3. ASSUME Statuses = {"ok"}, Served PROVE Served'
    BY <1>1, <1>2, <1>3, <1>4, <1>5, <1>6, <2>1, <2>3 DEF Served, AgreedInv, StartInv,
       ConnectInv, Going, Known, CallInv, DeviceInv, ShapeInv, Closing, Stopping, Resulting, At,
       Stands, Leads
  <2> QED
    BY <2>2, <2>3
<1> QED
  BY <1>6 DEF Request, callOnly, Ending, Going, Done

(***************************************************************************)
(* Messages that arrive                                                    *)
(***************************************************************************)
(* The session takes the next message. *)
LEMMA Heard ==
    ASSUME TypeOK, fromPhone # <<>>, fromPhone' = Tail(fromPhone), UNCHANGED phone,
           NEW m, m = Head(fromPhone)
    PROVE  /\ m.what # "openAck" /\ NoAnswer => NoAnswer'
           /\ NoAnswer => m.what # "openAck"
           /\ LastTells => LastTells' \/ (m.what = "openAck" /\ Right(m) /\ NoAnswer')
           /\ RefusalDue => RefusalDue' \/ (m.what = "openAck" /\ m.status # "ok")
           /\ StartAcks => StartAcks' \/ m.what = "startAck"
<1>1. PICK n \in Nat \ {0} : n = Len(fromPhone)
  BY EmptySeq DEF TypeOK
<1>2. /\ Len(fromPhone') = n - 1 /\ m = fromPhone[1]
      /\ \A i \in 1 .. n - 1 : fromPhone'[i] = fromPhone[i + 1]
  BY <1>1, HeadTailProperties DEF TypeOK
<1>3. \A i \in 1 .. n : i # 1 => i - 1 \in 1 .. n - 1 /\ fromPhone[i] = fromPhone'[i - 1]
  <2>1. ASSUME NEW i \in 1 .. n, i # 1 PROVE i - 1 \in 1 .. n - 1 /\ (i - 1) + 1 = i
    BY <2>1
  <2> QED
    BY <1>2, <2>1
<1>4. \A i \in 1 .. n - 1 : i + 1 \in 1 .. n
  OBVIOUS
<1>5. 1 \in 1 .. n
  BY <1>1
<1>6. (NoAnswer => NoAnswer') /\ (NoAnswer => m.what # "openAck")
  BY <1>1, <1>2, <1>4, <1>5 DEF NoAnswer
<1>7. ASSUME LastTells PROVE LastTells' \/ (m.what = "openAck" /\ Right(m) /\ NoAnswer')
  <2>1. PICK i \in 1 .. n :
           /\ fromPhone[i].what = "openAck" /\ Right(fromPhone[i])
           /\ \A j \in 1 .. n : j > i => fromPhone[j].what # "openAck"
    BY <1>1, <1>7 DEF LastTells
  <2>2. ASSUME NEW j \in 1 .. n - 1, j + 1 > i PROVE fromPhone'[j].what # "openAck"
    BY <1>2, <1>4, <2>1, <2>2
  <2>3. CASE i = 1
    <3>1. \A j \in 1 .. n - 1 : j + 1 > 1
      OBVIOUS
    <3> QED
      BY <1>2, <2>1, <2>2, <2>3, <3>1 DEF NoAnswer
  <2>4. CASE i # 1
    <3>1. i - 1 \in 1 .. n - 1 /\ fromPhone'[i - 1] = fromPhone[i]
      BY <1>3, <2>4
    <3>2. \A j \in 1 .. n - 1 : j > i - 1 => j + 1 > i
      OBVIOUS
    <3> QED
      BY <1>2, <2>1, <2>2, <3>1, <3>2 DEF LastTells, Right
  <2> QED
    BY <2>3, <2>4
<1>8. RefusalDue => RefusalDue' \/ (m.what = "openAck" /\ m.status # "ok")
  BY <1>1, <1>2, <1>3 DEF RefusalDue
<1>9. StartAcks => StartAcks' \/ m.what = "startAck"
  BY <1>1, <1>2, <1>3 DEF StartAcks
<1> QED
  BY <1>6, <1>7, <1>8, <1>9

(* The phone sends another. *)
LEMMA Told ==
    ASSUME TypeOK, NEW m, fromPhone' = Append(fromPhone, m), m \in Ack \cup Key
    PROVE  /\ m.what # "openAck" /\ NoAnswer => NoAnswer'
           /\ m.what # "openAck" /\ phone'.port = phone.port /\ LastTells => LastTells'
           /\ m.what = "openAck" /\ (m.status # "ok" \/ m.port = phone'.port) => LastTells'
           /\ RefusalDue \/ (m.what = "openAck" /\ m.status # "ok") => RefusalDue'
           /\ StartAcks \/ m.what = "startAck" => StartAcks'
<1>1. PICK n \in Nat : n = Len(fromPhone)
  BY DEF TypeOK
<1>2. /\ Len(fromPhone') = n + 1 /\ fromPhone'[n + 1] = m
      /\ \A i \in 1 .. n : fromPhone'[i] = fromPhone[i]
  BY <1>1 DEF TypeOK
<1>3. 1 .. n + 1 = (1 .. n) \cup {n + 1}
  OBVIOUS
<1>4. m.what # "openAck" /\ NoAnswer => NoAnswer'
  BY <1>1, <1>2, <1>3 DEF NoAnswer
<1>5. m.what # "openAck" /\ phone'.port = phone.port /\ LastTells => LastTells'
  BY <1>1, <1>2, <1>3 DEF LastTells, Right
<1>6. m.what = "openAck" /\ (m.status # "ok" \/ m.port = phone'.port) => LastTells'
  <2>1. n + 1 \in 1 .. n + 1 /\ \A j \in 1 .. n + 1 : ~(j > n + 1)
    OBVIOUS
  <2> QED
    BY <1>2, <2>1 DEF LastTells, Right
<1>7. RefusalDue \/ (m.what = "openAck" /\ m.status # "ok") => RefusalDue'
  BY <1>1, <1>2, <1>3 DEF RefusalDue
<1>8. StartAcks \/ m.what = "startAck" => StartAcks'
  BY <1>1, <1>2, <1>3 DEF StartAcks
<1> QED
  BY <1>4, <1>5, <1>6, <1>7, <1>8

(* The phone reads what was sent to it. *)
LEMMA Taken ==
    ASSUME TypeOK, toPhone # <<>>, toPhone' = Tail(toPhone)
    PROVE  /\ OpenSent => OpenSent' \/ Head(toPhone) = "open"
           /\ StartSent => StartSent' \/ Head(toPhone) = "start"
           /\ MayReceive /\ (phone.rx => phone'.rx \/ Head(toPhone) = "close") =>
                 MayReceive' \/ (Head(toPhone) = "open" /\ ~phone'.rx)
           /\ MaySend /\ (phone.tx => phone'.tx \/ Head(toPhone) = "stop") =>
                 MaySend' \/ (Head(toPhone) = "start" /\ ~phone'.tx)
<1>1. PICK n \in Nat \ {0} : n = Len(toPhone)
  BY EmptySeq DEF TypeOK
<1>2. /\ Len(toPhone') = n - 1 /\ Head(toPhone) = toPhone[1]
      /\ \A i \in 1 .. n - 1 : toPhone'[i] = toPhone[i + 1]
  BY <1>1, HeadTailProperties DEF TypeOK
<1>3. \A i \in 1 .. n : i # 1 => i - 1 \in 1 .. n - 1 /\ toPhone[i] = toPhone'[i - 1]
  <2>1. ASSUME NEW i \in 1 .. n, i # 1 PROVE i - 1 \in 1 .. n - 1 /\ (i - 1) + 1 = i
    BY <2>1
  <2> QED
    BY <1>2, <2>1
<1>4. 1 \in 1 .. n /\ \A i \in 1 .. n - 1 : i + 1 \in 1 .. n
  BY <1>1
<1>5. /\ OpenSent => OpenSent' \/ toPhone[1] = "open"
      /\ StartSent => StartSent' \/ toPhone[1] = "start"
  <2>1. ASSUME NEW a, NEW i \in 1 .. n, toPhone[i] = a, toPhone[1] # a
        PROVE  \E j \in 1 .. n - 1 : toPhone'[j] = a
    BY <1>3, <2>1
  <2> QED
    BY <1>1, <1>2, <2>1 DEF OpenSent, StartSent
<1>6. ASSUME NEW a, NEW i \in 1 .. n, \A j \in i .. n : toPhone[j] # a
      PROVE  /\ i = 1 => toPhone[1] # a /\ \A j \in 1 .. n - 1 : toPhone'[j] # a
             /\ i # 1 => \A j \in i - 1 .. n - 1 : toPhone'[j] # a
  <2>1. ASSUME i = 1 PROVE toPhone[1] # a /\ \A j \in 1 .. n - 1 : toPhone'[j] # a
    BY <1>2, <1>4, <1>6, <2>1
  <2>2. ASSUME i # 1, NEW j \in i - 1 .. n - 1 PROVE toPhone'[j] # a
    <3>1. j \in 1 .. n - 1 /\ j + 1 \in i .. n
      BY <2>2
    <3> QED
      BY <1>2, <1>6, <3>1
  <2> QED
    BY <2>1, <2>2
<1>7. ASSUME MayReceive, phone.rx => phone'.rx \/ toPhone[1] = "close"
      PROVE  MayReceive' \/ (toPhone[1] = "open" /\ ~phone'.rx)
  <2>1. CASE phone.rx /\ \A j \in 1 .. n : toPhone[j] # "close"
    BY <1>2, <1>4, <1>6, <1>7, <2>1 DEF MayReceive
  <2>2. CASE \E i \in 1 .. n :
                toPhone[i] = "open" /\ \A j \in i .. n : toPhone[j] # "close"
    <3>1. PICK i \in 1 .. n :
             toPhone[i] = "open" /\ \A j \in i .. n : toPhone[j] # "close"
      BY <2>2
    <3>2. CASE i = 1
      BY <1>2, <1>6, <3>1, <3>2 DEF MayReceive
    <3>3. CASE i # 1
      <4>1. i - 1 \in 1 .. n - 1 /\ toPhone'[i - 1] = "open"
        BY <1>3, <3>1, <3>3
      <4>2. \A j \in i - 1 .. n - 1 : toPhone'[j] # "close"
        BY <1>6, <3>1, <3>3
      <4> QED
        BY <1>2, <4>1, <4>2 DEF MayReceive
    <3> QED
      BY <3>2, <3>3
  <2> QED
    BY <1>1, <1>7, <2>1, <2>2 DEF MayReceive
<1>8. ASSUME MaySend, phone.tx => phone'.tx \/ toPhone[1] = "stop"
      PROVE  MaySend' \/ (toPhone[1] = "start" /\ ~phone'.tx)
  <2>1. CASE phone.tx /\ \A j \in 1 .. n : toPhone[j] # "stop"
    BY <1>2, <1>4, <1>6, <1>8, <2>1 DEF MaySend
  <2>2. CASE \E i \in 1 .. n :
                toPhone[i] = "start" /\ \A j \in i .. n : toPhone[j] # "stop"
    <3>1. PICK i \in 1 .. n :
             toPhone[i] = "start" /\ \A j \in i .. n : toPhone[j] # "stop"
      BY <2>2
    <3>2. CASE i = 1
      BY <1>2, <1>6, <3>1, <3>2 DEF MaySend
    <3>3. CASE i # 1
      <4>1. i - 1 \in 1 .. n - 1 /\ toPhone'[i - 1] = "start"
        BY <1>3, <3>1, <3>3
      <4>2. \A j \in i - 1 .. n - 1 : toPhone'[j] # "stop"
        BY <1>6, <3>1, <3>3
      <4> QED
        BY <1>2, <4>1, <4>2 DEF MaySend
    <3> QED
      BY <3>2, <3>3
  <2> QED
    BY <1>1, <1>8, <2>1, <2>2 DEF MaySend
<1> QED
  BY <1>2, <1>5, <1>7, <1>8

(* What the invariants say of a session that has nothing to do *)
LEMMA Idling ==
    ASSUME Idle("session")
    PROVE  (\A x : ~In(x, todo["session"])) /\ (\A s : ~At("session", s))
  BY Empty DEF Idle, At

(* The session takes the next message. *)
LEMMA HandleGoes ==
    ASSUME Going, Handle
    PROVE  Known' /\ (Statuses = {"ok"} /\ Served => Served')
<1>1. /\ Idle("session") /\ fromPhone # <<>> /\ fromPhone' = Tail(fromPhone)
      /\ rtp' = rtp /\ call' = call /\ phone' = phone /\ toPhone' = toPhone
  BY DEF Handle
<1>2. (\A x : ~In(x, todo["session"])) /\ (\A s : ~At("session", s))
  BY <1>1, Idling
<1>3. PICK m \in Ack \cup Key : m = Head(fromPhone)
  BY <1>1, HeadTailProperties DEF Going, TypeInv, TypeOK
<1>4. /\ m.what # "openAck" /\ NoAnswer => NoAnswer'
      /\ NoAnswer => m.what # "openAck"
      /\ LastTells => LastTells' \/ (m.what = "openAck" /\ Right(m) /\ NoAnswer')
      /\ RefusalDue => RefusalDue' \/ (m.what = "openAck" /\ m.status # "ok")
      /\ StartAcks => StartAcks' \/ m.what = "startAck"
  BY <1>1, <1>3, Heard DEF Going, TypeInv
<1>5. /\ (OpenSent' <=> OpenSent) /\ (StartSent' <=> StartSent)
      /\ (MayReceive' <=> MayReceive) /\ (MaySend' <=> MaySend)
  BY <1>1 DEF OpenSent, StartSent, MayReceive, MaySend
<1>6. todo'["session"] = Steps(m)
  BY <1>3, PbxThread DEF Handle, Going, TypeInv, StackType
<1>7. m.what \in {"openAck", "startAck"} => m \in Ack /\ ack' = m
  BY <1>3, MediaAssumption DEF Handle, Ack, Key
<1>8. CASE m.what = "openAck"
  <2>1. <<"openAck", "answered">> = On("openAck", Answering)
    <3>1. \A a, b \in Step : <<a, b>> = On(a, On(b, <<>>))
      BY AtTheEnd
    <3> QED
      BY <3>1, AllSteps DEF Answering
  <2>2. Answering \in Seq(Step) /\ (\A x : In(x, Answering) <=> x = "answered")
    BY Contents
  <2>3. /\ todo'["session"] # <<>> /\ Head(todo'["session"]) = "openAck"
        /\ \A x : In(x, todo'["session"]) <=> x \in {"openAck", "answered"}
    <3>1. todo'["session"] = On("openAck", Answering)
      BY <1>6, <1>8, <2>1 DEF Steps
    <3>2. Stands("session", "openAck", Answering)'
      BY <2>2, <3>1, AllSteps, StandingNext, PbxThread
    <3> QED
      BY <2>2, <3>2 DEF Stands
  <2>4. CallInv' /\ DeviceInv' /\ ShapeInv'
    BY <1>1, <1>2, <2>3 DEF Going, Known, CallInv, DeviceInv, ShapeInv, Resulting, Closing, At
  <2>5. OpenInv'
    BY <1>1, <1>2, <1>4, <1>5, <1>7, <1>8, <2>3 DEF Going, Known, OpenInv, Closing, At
  <2>6. AddressInv'
    BY <1>1, <1>2, <1>4, <1>5, <1>7, <1>8, <2>3 DEF Going, Known, AddressInv, Closing, At, Right
  <2>7. ASSUME Served PROVE Served'
    <3>1. AgreedInv'
      BY <1>1, <1>2, <2>3, <2>7 DEF Served, AgreedInv, Resulting, Closing, Stopping, At
    <3>2. StartInv'
      BY <1>1, <1>2, <1>4, <1>5, <1>8, <2>3, <2>7 DEF Served, StartInv, Stopping, At
    <3>3. ConnectInv'
      BY <1>1, <1>2, <2>3, <2>7 DEF Served, ConnectInv, At
    <3> QED
      BY <3>1, <3>2, <3>3 DEF Served
  <2> QED
    BY <2>4, <2>5, <2>6, <2>7 DEF Known
<1>9. CASE m.what # "openAck"
  <2>1. m.what \in {"startAck", "answer", "hold", "resume", "endcall"}
    BY <1>3, <1>9, MediaAssumption DEF Ack, Key
  <2>2. Steps(m) = <<m.what>>
    BY <1>9, <2>1 DEF Steps, Going, Known, CallInv
  <2>3. PICK h \in Step : h = m.what
    BY <2>1, AllSteps
  <2>4. /\ todo'["session"] # <<>> /\ Head(todo'["session"]) = m.what
        /\ \A x : In(x, todo'["session"]) <=> x = m.what
    <3>1. todo'["session"] = On(h, <<>>) /\ <<>> \in Seq(Step) /\ \A x : ~In(x, <<>>)
      BY <1>6, <2>2, <2>3, AtTheEnd, StackFacts
    <3>2. Stands("session", h, <<>>)'
      BY <3>1, StandingNext, PbxThread
    <3> QED
      BY <2>3, <3>1, <3>2 DEF Stands
  <2>5. CallInv' /\ DeviceInv' /\ ShapeInv'
    BY <1>1, <1>2, <2>1, <2>4 DEF Going, Known, CallInv, DeviceInv, ShapeInv, Resulting,
       Closing, At
  <2>6. OpenInv'
    BY <1>1, <1>2, <1>4, <1>5, <1>9, <2>1, <2>4 DEF Going, Known, OpenInv, Closing, At
  <2>7. AddressInv'
    BY <1>1, <1>2, <1>4, <1>5, <1>9, <2>1, <2>4 DEF Going, Known, AddressInv, Closing, At
  <2>8. ASSUME Statuses = {"ok"}, Served PROVE Served'
    <3>1. m.what = "startAck" => ack'.status = "ok"
      BY <1>7, <2>8 DEF Ack
    <3>2. AgreedInv'
      BY <1>1, <1>2, <2>1, <2>4, <2>8, <3>1 DEF Served, AgreedInv, Resulting, Closing,
         Stopping, At
    <3>3. StartInv'
      BY <1>1, <1>2, <1>4, <1>5, <2>1, <2>4, <2>8 DEF Served, StartInv, Stopping, At
    <3>4. ConnectInv'
      BY <1>1, <1>2, <2>1, <2>4, <2>8 DEF Served, ConnectInv, At
    <3> QED
      BY <3>2, <3>3, <3>4 DEF Served
  <2> QED
    BY <2>5, <2>6, <2>7, <2>8 DEF Known
<1> QED
  BY <1>8, <1>9

(* The messages that the invariants are about arrive, or cause others. *)
LEMMA OutsideGoes ==
    ASSUME Known, UNCHANGED <<todo, ack, result, call, rtp>>,
           MayReceive' => MayReceive, MayReceive => MayReceive' \/ RefusalDue',
           RefusalDue => RefusalDue',
           LastTells'
             \/ /\ phone'.rx => phone.rx
                /\ phone'.port = phone.port
                /\ OpenSent => OpenSent'
                /\ NoAnswer => NoAnswer'
                /\ LastTells => LastTells'
    PROVE  /\ Known'
           /\ Served /\ (MaySend => MaySend') /\ (StartSent => StartSent' \/ StartAcks')
                     /\ (StartAcks => StartAcks') => Served'
<1>1. /\ \A s : At("session", s)' <=> At("session", s)
      /\ \A x : In(x, todo'["session"]) <=> In(x, todo["session"])
      /\ (Closing' <=> Closing) /\ (Stopping' <=> Stopping) /\ (Resulting' <=> Resulting)
  BY DEF At, Closing, Stopping, Resulting
<1>2. CallInv' /\ DeviceInv' /\ ShapeInv'
  BY <1>1 DEF Known, CallInv, DeviceInv, ShapeInv
<1>3. OpenInv'
  BY <1>1 DEF Known, OpenInv
<1>4. AddressInv'
  BY <1>1 DEF Known, AddressInv, Right
<1>5. ASSUME Served, MaySend => MaySend', StartSent => StartSent' \/ StartAcks',
             StartAcks => StartAcks'
      PROVE  Served'
  <2>1. AgreedInv'
    BY <1>1, <1>5 DEF Served, AgreedInv
  <2>2. StartInv'
    BY <1>1, <1>5 DEF Served, StartInv
  <2>3. ConnectInv'
    BY <1>1, <1>5 DEF Served, ConnectInv
  <2> QED
    BY <2>1, <2>2, <2>3 DEF Served
<1> QED
  BY <1>2, <1>3, <1>4, <1>5 DEF Known

(* The user presses a key. *)
LEMMA PressGoes ==
    ASSUME Going, Press
    PROVE  Known' /\ (Statuses = {"ok"} /\ Served => Served')
<1>1. PICK k \in Keys : fromPhone' = Append(fromPhone, [what |-> k])
  BY DEF Press
<1>2. [what |-> k] \in Ack \cup Key /\ [what |-> k].what # "openAck"
  BY MediaAssumption DEF Key
<1>3. /\ UNCHANGED <<todo, ack, result, call, rtp, toPhone, phone>>
      /\ (OpenSent' <=> OpenSent) /\ (StartSent' <=> StartSent)
      /\ (MayReceive' <=> MayReceive) /\ (MaySend' <=> MaySend)
  BY DEF Press, OpenSent, StartSent, MayReceive, MaySend
<1>4. /\ (NoAnswer => NoAnswer') /\ (LastTells => LastTells')
      /\ (RefusalDue => RefusalDue') /\ (StartAcks => StartAcks')
  BY <1>1, <1>2, <1>3, Told DEF Going, TypeInv
<1> QED
  BY <1>3, <1>4, OutsideGoes DEF Going

(* The phone does what it was told to do, or refuses. *)
LEMMA PhoneGoes ==
    ASSUME Going, PhoneStep
    PROVE  Known' /\ (Statuses = {"ok"} /\ Served => Served')
<1> USE DEF Going, TypeInv
<1>1. /\ toPhone' = Tail(toPhone) /\ toPhone # <<>>
      /\ UNCHANGED <<todo, ack, result, call, rtp>>
  BY DEF PhoneStep, PhoneOpens, PhoneStarts, PhoneCloses
<1>2. /\ OpenSent => OpenSent' \/ Head(toPhone) = "open"
      /\ StartSent => StartSent' \/ Head(toPhone) = "start"
      /\ MayReceive /\ (phone.rx => phone'.rx \/ Head(toPhone) = "close") =>
            MayReceive' \/ (Head(toPhone) = "open" /\ ~phone'.rx)
      /\ MaySend /\ (phone.tx => phone'.tx \/ Head(toPhone) = "stop") =>
            MaySend' \/ (Head(toPhone) = "start" /\ ~phone'.tx)
  BY <1>1, Taken
<1>3. CASE PhoneOpens
  <2>1. PICK s \in Statuses, p \in Port \ {phone.port} :
           /\ Tells("openAck", s, p)
           /\ phone' = IF s = "ok" THEN [phone EXCEPT !.rx = TRUE, !.port = p] ELSE phone
    BY <1>3 DEF PhoneOpens
  <2>2. PICK m \in Ack : /\ m.what = "openAck" /\ m.status = s /\ m.port = p
                         /\ fromPhone' = Append(fromPhone, m)
    BY <2>1 DEF Tells, Ack
  <2>3. /\ Head(toPhone) = "open" /\ phone'.tx = phone.tx /\ (phone.rx => phone'.rx)
        /\ s = "ok" => phone'.rx /\ phone'.port = p
    BY <1>3, <2>1 DEF PhoneOpens, TypeOK, Phone
  <2>4. /\ LastTells' /\ (RefusalDue => RefusalDue') /\ (s # "ok" => RefusalDue')
        /\ (StartAcks => StartAcks')
    BY <2>2, <2>3, Told
  <2>5. MayReceive' => MayReceive
    BY <1>1, <2>3, PhoneTakes
  <2> QED
    BY <1>1, <1>2, <2>3, <2>4, <2>5, OutsideGoes
<1>4. CASE PhoneStarts
  <2>1. PICK s \in Statuses, p \in Port :
           /\ Tells("startAck", s, p)
           /\ phone' = IF s = "ok" THEN [phone EXCEPT !.tx = TRUE] ELSE phone
    BY <1>4 DEF PhoneStarts
  <2>2. PICK m \in Ack : m.what = "startAck" /\ fromPhone' = Append(fromPhone, m)
    BY <2>1 DEF Tells, Ack
  <2>3. /\ Head(toPhone) = "start" /\ phone'.rx = phone.rx /\ phone'.port = phone.port
        /\ s = "ok" => phone'.tx
    BY <1>4, <2>1 DEF PhoneStarts, TypeOK, Phone
  <2>4. /\ (NoAnswer => NoAnswer') /\ (LastTells => LastTells')
        /\ (RefusalDue => RefusalDue') /\ StartAcks'
    BY <2>2, <2>3, Told
  <2>5. MayReceive' => MayReceive
    BY <1>1, <2>3, PhoneTakes
  <2>6. Statuses = {"ok"} => (MaySend => MaySend')
    BY <1>2, <2>3
  <2> QED
    BY <1>1, <1>2, <2>3, <2>4, <2>5, <2>6, OutsideGoes
<1>5. CASE PhoneCloses
  <2>1. /\ Head(toPhone) \in {"close", "stop"} /\ fromPhone' = fromPhone
        /\ phone'.rx = (phone.rx /\ Head(toPhone) # "close")
        /\ phone'.tx = (phone.tx /\ Head(toPhone) # "stop")
        /\ phone'.port = phone.port
    BY <1>5 DEF PhoneCloses, TypeOK, Phone
  <2>2. MayReceive' => MayReceive
    BY <1>1, <2>1, PhoneTakes
  <2>3. /\ (NoAnswer' <=> NoAnswer) /\ (LastTells' <=> LastTells)
        /\ (RefusalDue' <=> RefusalDue) /\ (StartAcks' <=> StartAcks)
    BY <2>1 DEF NoAnswer, LastTells, RefusalDue, StartAcks, Right
  <2> QED
    BY <1>1, <1>2, <2>1, <2>2, <2>3, OutsideGoes
<1> QED
  BY <1>3, <1>4, <1>5 DEF PhoneStep

(***************************************************************************)
(* All the steps                                                           *)
(***************************************************************************)
(* Who ends the call, ends it. *)
LEMMA EndsIt ==
    ASSUME TypeOK, NEW t, Endcall(t) \/ SetFlag(t) \/ Hangup \/ Gone
    PROVE  Ending'
  BY DEF Endcall, SetFlag, Hangup, Gone, Ending, TypeOK, Call

(* A call that is ending is not taken back. *)
LEMMA EndingStays ==
    ASSUME TypeOK, Next
    PROVE  Ending => Ending'
<1>1. ASSUME NEW t, MediaStep(t) PROVE Ending => Ending'
  <2>1. CASE Connected(t) \/ Unbind(t)
    BY <2>1 DEF Connected, Unbind, Ending, TypeOK, Call
  <2>2. CASE \/ Open(t) \/ OpenFails(t) \/ OpenMark(t) \/ OpenSend(t)
             \/ Close(t) \/ Closed(t) \/ Stop(t) \/ Stopped(t)
    BY <2>2 DEF Open, OpenFails, OpenMark, OpenSend, Close, Closed, Stop, Stopped, nothing,
       rtpOnly, sendOnly, Ending
  <2>3. CASE \/ Start(t) \/ StartReady(t) \/ StartMark(t) \/ StartSend(t)
             \/ ConnectedMedia(t) \/ Unlock(t)
    BY <2>3 DEF Start, StartReady, StartMark, StartSend, ConnectedMedia, Unlock, nothing,
       rtpOnly, sendOnly, Ending
  <2> QED
    BY <1>1, <2>1, <2>2, <2>3 DEF MediaStep
<1>2. ASSUME SessionStep PROVE Ending => Ending'
  <2>1. ASSUME NEW t, \/ OpenAck(t) \/ SetPhone(t) \/ Opened(t) \/ AppendRx(t)
                      \/ Callback(t) \/ GetRx(t) \/ SetRx(t) \/ Answered(t)
                      \/ StartAck(t) \/ Started(t) \/ AppendTx(t) \/ SetTx(t)
        PROVE  Ending => Ending'
    BY <2>1 DEF OpenAck, SetPhone, Opened, AppendRx, Callback, GetRx, SetRx, Answered, StartAck,
       Started, AppendTx, SetTx, nothing, rtpOnly, Ending
  <2>2. ASSUME NEW t, \/ Answer(t) \/ Complete(t) \/ CompleteLocked(t) \/ Hold(t)
                      \/ Resume(t) \/ ResumeHeld(t)
        PROVE  Ending => Ending'
    BY <2>2 DEF Answer, Complete, CompleteLocked, Hold, Resume, ResumeHeld, nothing,
       Ending, TypeOK, Call
  <2>3. ASSUME NEW t, Request(t) PROVE Ending => Ending'
    BY <2>3 DEF Request, Ending, TypeOK, Call
  <2>4. Handle => (Ending => Ending')
    BY DEF Handle, Ending
  <2> QED
    BY <1>2, <1>1, <2>1, <2>2, <2>3, <2>4, EndsIt DEF SessionStep
<1>3. ASSUME PbxStep PROVE Ending => Ending'
  <2>1. ASSUME Waited \/ TimesOut \/ Relock \/ Remote \/ SetPeer \/ Clean PROVE Ending => Ending'
    BY <2>1 DEF Waited, TimesOut, Relock, Remote, SetPeer, Clean, nothing, Ending
  <2>2. ASSUME Unlist \/ Onhook PROVE Ending => Ending'
    BY <2>2 DEF Unlist, Onhook, Ending, TypeOK, Call
  <2> QED
    BY <1>3, <1>1, <2>1, <2>2, EndsIt DEF PbxStep
<1>4. ASSUME PbxBegins PROVE Ending => Ending'
  <2>1. ASSUME Progress \/ RemoteAnswers \/ UpdatePeer PROVE Ending => Ending'
    BY <2>1 DEF Progress, RemoteAnswers, UpdatePeer, Ending, TypeOK, Call
  <2> QED
    BY <1>4, <2>1, EndsIt DEF PbxBegins
<1>5. ASSUME Press \/ PhoneStep PROVE Ending => Ending'
  BY <1>5 DEF Press, PhoneStep, Ending
<1> QED
  BY <1>2, <1>3, <1>4, <1>5 DEF Next

(* Whatever the session does, the streams of the call go on. *)
LEMMA SessionGoes ==
    ASSUME Going, SessionStep, ~Ending'
    PROVE  Known' /\ (Statuses = {"ok"} /\ Served => Served')
<1>1. CASE Handle
  BY <1>1, HandleGoes
<1>2. CASE MediaStep("session")
  <2>1. CASE \/ Open("session") \/ OpenFails("session") \/ OpenMark("session")
             \/ OpenSend("session") \/ Close("session") \/ Closed("session")
             \/ Stop("session") \/ Stopped("session")
    BY <2>1, OpenGoes, OpenFailsGoes, OpenMarkGoes, OpenSendGoes, CloseGoes, ClosedGoes,
       StopGoes, StoppedGoes
  <2>2. CASE \/ Start("session") \/ StartReady("session") \/ StartMark("session")
             \/ StartSend("session") \/ Connected("session") \/ ConnectedMedia("session")
             \/ Unbind("session") \/ Unlock("session")
    BY <2>2, StartGoes, StartReadyGoes, StartMarkGoes, StartSendGoes, ConnectedGoes,
       ConnectedMediaGoes, UnbindGoes, UnlockGoes
  <2> QED
    BY <1>2, <2>1, <2>2 DEF MediaStep
<1>3. CASE \/ OpenAck("session") \/ SetPhone("session") \/ Opened("session")
           \/ AppendRx("session") \/ Callback("session") \/ GetRx("session")
           \/ SetRx("session") \/ Answered("session") \/ StartAck("session")
           \/ Started("session") \/ AppendTx("session") \/ SetTx("session")
  BY <1>3, OpenAckGoes, SetPhoneGoes, OpenedGoes, AppendRxGoes, CallbackGoes, GetRxGoes,
     SetRxGoes, AnsweredGoes, StartAckGoes, StartedGoes, AppendTxGoes, SetTxGoes
<1>4. CASE \/ Answer("session") \/ Complete("session") \/ CompleteLocked("session")
           \/ Hold("session") \/ Resume("session") \/ ResumeHeld("session")
           \/ Request("session")
  BY <1>4, AnswerGoes, CompleteGoes, CompleteLockedGoes, HoldGoes, ResumeGoes,
     ResumeHeldGoes, RequestGoes
<1>5. ~Endcall("session") /\ ~SetFlag("session")
  BY EndsIt DEF Going, TypeInv
<1> QED
  BY <1>1, <1>2, <1>3, <1>4, <1>5 DEF SessionStep

(* The streams of a call that nobody ends or redirects *)
StreamsInv ==
    ~Ending /\ ~call.redirected => Known /\ (Statuses = {"ok"} => Served)

(* At first there are none. *)
LEMMA InitStreams == Init => StreamsInv
<1> SUFFICES ASSUME Init PROVE Known /\ Served
  BY DEF StreamsInv
<1>1. Idle("session")
  BY PbxThread DEF Init, Idle
<1>2. (\A x : ~In(x, todo["session"])) /\ (\A s : ~At("session", s))
  BY <1>1, Idling
<1>3. /\ call.listed /\ call.state \in {"ringing", "dialing"} /\ rtp.rx = {} /\ rtp.tx = {}
      /\ toPhone = <<>> /\ ~phone.rx
  BY MediaAssumption DEF Init
<1>4. ~MayReceive
  BY <1>3 DEF MayReceive
<1>5. Known
  BY <1>2, <1>3, <1>4 DEF Known, CallInv, DeviceInv, ShapeInv, OpenInv, AddressInv, Resulting,
     Closing
<1>6. Served
  BY <1>2, <1>3 DEF Served, AgreedInv, StartInv, ConnectInv, Resulting, Closing, Stopping
<1> QED
  BY <1>5, <1>6

(* The streams go on, whatever happens. *)
LEMMA StreamsKept ==
    ASSUME Calls \subseteq {"ringing"} \/ PbxOps \subseteq {"peer"},
           IInv, StreamsInv, [Next]_vars
    PROVE  StreamsInv'
<1> SUFFICES ASSUME ~Ending', ~call'.redirected
             PROVE  Known' /\ (Statuses = {"ok"} => Served')
  BY DEF StreamsInv
<1>1. CASE UNCHANGED vars
  <2>1. ~Ending /\ ~call.redirected
    BY <1>1 DEF vars, Ending
  <2>2. Known /\ (Statuses = {"ok"} => Served)
    BY <2>1 DEF StreamsInv
  <2>3. /\ MayReceive' = MayReceive /\ MaySend' = MaySend
        /\ (OpenSent' <=> OpenSent) /\ (StartSent' <=> StartSent)
        /\ (NoAnswer' <=> NoAnswer) /\ (LastTells' <=> LastTells)
        /\ (RefusalDue' <=> RefusalDue) /\ (StartAcks' <=> StartAcks)
    BY <1>1, Unsaid DEF vars, MayReceive, MaySend
  <2>4. UNCHANGED <<todo, ack, result, call, rtp, phone>>
    BY <1>1 DEF vars
  <2>5. CASE LastTells
    BY <2>2, <2>3, <2>4, <2>5, OutsideGoes
  <2>6. CASE ~LastTells
    BY <2>2, <2>3, <2>4, <2>6, OutsideGoes
  <2> QED
    BY <2>5, <2>6
<1>2. CASE Next
  <2>1. ~Ending /\ ~call.redirected
    BY <1>2, EndingStays, CallOnward DEF IInv, TypeInv, OnwardOnly
  <2>2. Going /\ (Statuses = {"ok"} => Served)
    BY <2>1 DEF Going, IInv, StreamsInv
  <2>3. CASE SessionStep
    BY <2>2, <2>3, SessionGoes
  <2>4. CASE Press \/ PhoneStep
    BY <2>2, <2>4, PressGoes, PhoneGoes
  <2>5. ~PbxStep
    <3>1. Idle("pbx")
      BY <2>1, <2>2 DEF Going, SilentInv, HangupInv, Ending
    <3>2. \A s : ~At("pbx", s)
      BY <3>1 DEF Idle, At
    <3>3. ~MediaStep("pbx")
      BY <3>2 DEF MediaStep, Open, OpenFails, OpenMark, OpenSend, Close, Closed, Stop, Stopped,
         Start, StartReady, StartMark, StartSend, Connected, ConnectedMedia, Unbind, Unlock
    <3> QED
      BY <3>2, <3>3 DEF PbxStep, Waited, TimesOut, Relock, Remote, SetPeer, Unlist, Onhook,
         Clean, Gone
  <2>6. ~PbxBegins
    <3>1. ~Progress /\ ~RemoteAnswers
      BY DEF Progress, RemoteAnswers, Operates, IInv, DialInv
    <3>2. ~UpdatePeer
      BY DEF UpdatePeer, IInv, TypeInv, TypeOK, Call
    <3>3. ~Hangup
      BY EndsIt DEF IInv, TypeInv
    <3> QED
      BY <3>1, <3>2, <3>3 DEF PbxBegins
  <2> QED
    BY <1>2, <2>3, <2>4, <2>5, <2>6 DEF Next
<1> QED
  BY <1>1, <1>2

(* The invariant of every behaviour *)
LEMMA StreamsAlways ==
    ASSUME Calls \subseteq {"ringing"} \/ PbxOps \subseteq {"peer"}
    PROVE  Spec => [](IInv /\ StreamsInv)
<1>1. Init => IInv /\ StreamsInv
  <2>1. Init => DialInv
    BY DEF Init, DialInv
  <2> QED
    BY <2>1, InitType, InitSilent, InitStreams DEF IInv
<1>2. IInv /\ StreamsInv /\ [Next]_vars => (IInv /\ StreamsInv)'
  BY SilentKept, StreamsKept
<1> QED
  BY <1>1, <1>2, PTL DEF Spec

(* What the invariant says when everything is done *)
LEMMA AtRest ==
    ASSUME IInv, StreamsInv, Quiet, ~Ending, ~call.redirected
    PROVE  /\ phone.rx <=> "active" \in rtp.rx
           /\ phone.rx => rtp.address = phone.port
           /\ Statuses = {"ok"} =>
                 /\ phone.tx <=> "active" \in rtp.tx
                 /\ call.state = "connected" /\ rtp.instance => phone.rx /\ phone.tx
<1>1. /\ SilentInv /\ Known /\ (Statuses = {"ok"} => Served)
      /\ Idle("session") /\ toPhone = <<>> /\ fromPhone = <<>>
  BY PbxThread DEF IInv, StreamsInv, Quiet
<1>2. (\A x : ~In(x, todo["session"])) /\ (\A s : ~At("session", s))
  BY <1>1, Idling
<1>3. (MayReceive <=> phone.rx) /\ (MaySend <=> phone.tx)
  <2>1. Len(toPhone) = 0
    BY <1>1
  <2> QED
    BY <2>1 DEF MayReceive, MaySend
<1>4. ~OpenSent /\ ~StartSent /\ ~LastTells /\ ~RefusalDue /\ ~StartAcks
  <2>1. Len(toPhone) = 0 /\ Len(fromPhone) = 0
    BY <1>1
  <2> QED
    BY <2>1 DEF OpenSent, StartSent, LastTells, RefusalDue, StartAcks
<1>5. ~Closing /\ ~Stopping
  BY <1>2 DEF Closing, Stopping
<1>6. phone.rx <=> "progress" \in rtp.rx
  BY <1>1, <1>2, <1>3, <1>4, <1>5 DEF Known, OpenInv
<1>7. phone.rx => rtp.address = phone.port /\ "active" \in rtp.rx
  BY <1>1, <1>2, <1>4, <1>5, <1>6 DEF Known, AddressInv
<1>8. "active" \in rtp.rx => "progress" \in rtp.rx
  BY <1>1 DEF Known, ShapeInv
<1>9. ASSUME Statuses = {"ok"} PROVE phone.tx <=> "active" \in rtp.tx
  <2>1. phone.tx => rtp.tx # {}
    BY <1>1, <1>3 DEF SilentInv, StreamInv
  <2> QED
    BY <1>1, <1>2, <1>3, <1>4, <1>5, <1>9, <2>1 DEF Served, StartInv
<1>10. ASSUME Statuses = {"ok"}, call.state = "connected", rtp.instance
       PROVE  phone.rx /\ phone.tx
  <2>1. Served
    BY <1>1, <1>10
  <2>2. rtp.rx # {}
    BY <1>2, <1>10, <2>1 DEF Served, ConnectInv
  <2>3. phone.rx
    BY <1>1, <1>6, <2>1, <2>2 DEF Served, AgreedInv, Known, ShapeInv
  <2>4. rtp.tx # {}
    BY <1>2, <1>7, <1>10, <2>1, <2>3 DEF Served, ConnectInv
  <2> QED
    BY <1>2, <1>3, <1>5, <2>1, <2>3, <2>4 DEF Served, StartInv
<1> QED
  BY <1>6, <1>7, <1>8, <1>9, <1>10

(* The PBX sends to the port that the phone opened last, although the answers   *)
(* to several openings may be on their way and each is taken for that of the      *)
(* latest (handle_openReceiveChannelAck, sccp_rtp_set_phone), and although the   *)
(* phone may refuse any of them.  A call that the PBX redirected is left out.    *)
THEOREM PortKnown ==
    ASSUME Calls \subseteq {"ringing"} \/ PbxOps \subseteq {"peer"}
    PROVE  Spec => [](~call.redirected => AddressKnown)
<1>1. IInv /\ StreamsInv => (~call.redirected => AddressKnown)
  BY AtRest DEF AddressKnown
<1> QED
  BY <1>1, StreamsAlways, PTL

(* The driver and a phone that refuses nothing agree on what is open, in whatever *)
(* order the answers arrive and the user holds and resumes the call               *)
(* (sccp_channel_receiveChannelOpen, sccp_channel_mediaTransmissionStarted).      *)
THEOREM StreamsAgree ==
    ASSUME Calls \subseteq {"ringing"} \/ PbxOps \subseteq {"peer"}, Statuses = {"ok"}
    PROVE  Spec => []Agreement
<1>1. IInv /\ StreamsInv => Agreement
  BY AtRest DEF Agreement
<1> QED
  BY <1>1, StreamsAlways, PTL

(* A call that is connected is heard both ways, if the phone refuses nothing and  *)
(* the PBX has a stream for it: the callback of the reception is neither lost nor *)
(* run twice, whichever of sccp_indicate and the acknowledgement comes first      *)
(* (sccp_rtp_runCallback, sccp_channel_answer).                                   *)
THEOREM HeardBothWays ==
    ASSUME Calls \subseteq {"ringing"} \/ PbxOps \subseteq {"peer"}, Statuses = {"ok"}
    PROVE  Spec => []TwoWay
<1>1. IInv /\ StreamsInv => TwoWay
  BY AtRest DEF TwoWay
<1> QED
  BY <1>1, StreamsAlways, PTL

=============================================================================
