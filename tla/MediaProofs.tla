---------------------------- MODULE MediaProofs ----------------------------
(***************************************************************************)
(* Proofs about Media: every variable keeps its type (TypeCorrect), and a  *)
(* phone whose call is on hold or over is silent once every thread has     *)
(* nothing left to do and every message has been read (PhoneSilent).       *)
(*                                                                         *)
(* The second one rests on what each thread may have left to do under the  *)
(* step that it does next (SessionStands, PbxStands): these are the places *)
(* of the code where one function calls another.  With that at hand, the   *)
(* argument is short.  What the phone has open, or will once it has read   *)
(* what is on its way, the driver knows to be open of a call that has its  *)
(* phone (StreamInv); the phone is given up only after both streams were   *)
(* closed (CloseInv); and a hangup, which waits until every opening is     *)
(* answered (CountInv) or time is up, which leaves the session idle or     *)
(* blocked, finds no thread that is about to start a stream (PastInv).     *)
(*                                                                         *)
(* PhoneSilent is about every incoming call, and about dialed calls whose  *)
(* other side the PBX only redirects: an answer of the called party        *)
(* (sccp_pbx_remote_answer) whose opening is recorded and then overtaken   *)
(* by a hold breaks Silent.                                                *)
(***************************************************************************)
EXTENDS Media, FiniteSetTheorems, SequenceTheorems, TLAPS

In(step, s) == \E i \in 1 .. Len(s) : s[i] = step
On(step, rest) == <<step>> \o rest

(***************************************************************************)
(* Stacks                                                                  *)
(***************************************************************************)
(* A step on top of others. *)
LEMMA OnFacts ==
    ASSUME NEW S, NEW h \in S, NEW r \in Seq(S)
    PROVE  /\ On(h, r) \in Seq(S) /\ On(h, r) # <<>>
           /\ Head(On(h, r)) = h /\ Tail(On(h, r)) = r
           /\ \A x : In(x, On(h, r)) <=> x = h \/ In(x, r)
<1>0. PICK s : s = <<h>> \o r
  OBVIOUS
<1>1. s \in Seq(S) /\ Len(s) = Len(r) + 1 /\ Len(r) \in Nat
  BY <1>0
<1>2. s[1] = h /\ \A i \in 1 .. Len(r) : s[i + 1] = r[i]
  BY <1>0
<1>3. s # <<>>
  BY <1>1, EmptySeq
<1>4. Head(s) = h
  BY <1>1, <1>2, <1>3
<1>5. Tail(s) = r
  <2>1. Tail(s) \in Seq(S) /\ Len(Tail(s)) = Len(r)
        /\ \A i \in 1 .. Len(Tail(s)) : Tail(s)[i] = s[i + 1]
    BY <1>1, <1>3, HeadTailProperties
  <2>2. \A i \in 1 .. Len(Tail(s)) : Tail(s)[i] = r[i]
    BY <2>1, <1>2
  <2> QED
    BY <2>1, <2>2, SeqEqual
<1>6. ASSUME NEW x PROVE In(x, s) <=> x = h \/ In(x, r)
  <2>1. ASSUME NEW i \in 1 .. Len(s), s[i] = x PROVE x = h \/ In(x, r)
    <3>1. CASE i = 1
      BY <3>1, <1>2, <2>1
    <3>2. CASE i # 1
      <4>1. i - 1 \in 1 .. Len(r) /\ (i - 1) + 1 = i
        BY <3>2, <1>1
      <4>2. s[i] = r[i - 1]
        BY <4>1, <1>2
      <4> QED
        BY <4>1, <4>2, <2>1 DEF In
    <3> QED
      BY <3>1, <3>2
  <2>2. 1 \in 1 .. Len(s)
    BY <1>1
  <2>3. x = h => In(x, s)
    BY <2>2, <1>2 DEF In
  <2>4. ASSUME NEW i \in 1 .. Len(r), r[i] = x PROVE In(x, s)
    <3>1. i + 1 \in 1 .. Len(s)
      BY <1>1
    <3>2. s[i + 1] = x
      BY <2>4, <1>2
    <3> QED
      BY <3>1, <3>2 DEF In
  <2> QED
    BY <2>1, <2>3, <2>4 DEF In
<1> QED
  BY <1>0, <1>1, <1>3, <1>4, <1>5, <1>6 DEF On

(* Steps that take the place of one *)
LEMMA PushFacts ==
    ASSUME NEW S, NEW r \in Seq(S)
    PROVE  /\ <<>> \o r = r
           /\ \A a \in S : <<a>> \o r = On(a, r)
           /\ \A a, b \in S : <<a, b>> \o r = On(a, On(b, r))
           /\ \A a, b, c \in S : <<a, b, c>> \o r = On(a, On(b, On(c, r)))
           /\ \A a, b, c, d \in S :
                 <<a, b, c, d>> \o r = On(a, On(b, On(c, On(d, r))))
<1>1. ASSUME NEW a \in S, NEW s \in Seq(S) PROVE (<<a>> \o s) \o r = On(a, s \o r)
  BY <1>1, ConcatAssociative DEF On
<1>5. <<>> \o r = r
  BY ConcatEmptySeq
<1>6. \A a \in S : <<a>> \o r = On(a, r)
  BY DEF On
<1>7. ASSUME NEW a \in S, NEW b \in S PROVE <<a, b>> \o r = On(a, On(b, r))
  <2>1. <<b>> \in Seq(S) /\ <<a, b>> \in Seq(S) /\ <<a>> \o <<b>> \in Seq(S)
    BY <1>7
  <2>2. <<a, b>> = <<a>> \o <<b>>
    <3>1. Len(<<a, b>>) = 2 /\ Len(<<a>> \o <<b>>) = 2
      BY <1>7
    <3>2. \A i \in 1 .. 2 : <<a, b>>[i] = (<<a>> \o <<b>>)[i]
      BY <1>7
    <3> QED
      BY <2>1, <3>1, <3>2, SeqEqual
  <2> QED
    BY <2>1, <2>2, <1>1, <1>6
<1>8. ASSUME NEW a \in S, NEW b \in S, NEW c \in S
      PROVE  <<a, b, c>> \o r = On(a, On(b, On(c, r)))
  <2>1. <<b, c>> \in Seq(S)
    BY <1>8
  <2>2. <<a, b, c>> = <<a>> \o <<b, c>>
    BY <1>8
  <2> QED
    BY <2>1, <2>2, <1>1, <1>7
<1>9. ASSUME NEW a \in S, NEW b \in S, NEW c \in S, NEW d \in S
      PROVE  <<a, b, c, d>> \o r = On(a, On(b, On(c, On(d, r))))
  <2>1. <<b, c, d>> \in Seq(S)
    BY <1>9
  <2>2. <<a, b, c, d>> = <<a>> \o <<b, c, d>>
    BY <1>9
  <2>3. (<<a>> \o <<b, c, d>>) \o r = On(a, <<b, c, d>> \o r)
    BY <2>1, <1>1, <1>9
  <2>4. <<b, c, d>> \o r = On(b, On(c, On(d, r)))
    BY <1>8, <1>9
  <2> QED
    BY <2>2, <2>3, <2>4
<1> QED
  BY <1>5, <1>6, <1>7, <1>8, <1>9

(* What is on top and what is under it *)
LEMMA Unfold ==
    ASSUME NEW S, NEW s \in Seq(S), s # <<>>
    PROVE  Head(s) \in S /\ Tail(s) \in Seq(S) /\ s = On(Head(s), Tail(s))
<1>1. Head(s) \in S /\ Tail(s) \in Seq(S) /\ Len(Tail(s)) = Len(s) - 1
      /\ \A i \in 1 .. Len(Tail(s)) : Tail(s)[i] = s[i + 1]
  BY HeadTailProperties
<1>2. PICK h \in S, q \in Seq(S) : h = Head(s) /\ q = Tail(s)
  BY <1>1
<1>3. PICK r : r = <<h>> \o q
  OBVIOUS
<1>4. r \in Seq(S) /\ Len(r) = Len(q) + 1 /\ Len(q) \in Nat
  BY <1>3
<1>9. r[1] = h /\ \A i \in 1 .. Len(q) : r[i + 1] = q[i]
  BY <1>3
<1>5. Len(s) \in Nat \ {0} /\ s[1] = h
  BY <1>2, EmptySeq
<1>6. Len(r) = Len(s)
  BY <1>1, <1>2, <1>4, <1>5
<1>7. ASSUME NEW i \in 1 .. Len(r) PROVE r[i] = s[i]
  <2>1. CASE i = 1
    BY <2>1, <1>9, <1>5
  <2>2. CASE i # 1
    <3>1. i - 1 \in 1 .. Len(q) /\ (i - 1) + 1 = i
      BY <2>2, <1>4, <1>7
    <3> QED
      BY <3>1, <1>1, <1>2, <1>9
  <2> QED
    BY <2>1, <2>2
<1>8. r = s
  BY <1>4, <1>6, <1>7, SeqEqual
<1> QED
  BY <1>1, <1>2, <1>3, <1>8 DEF On

(* Nothing is on the empty stack. *)
LEMMA Empty == (\A S : <<>> \in Seq(S)) /\ \A x : ~In(x, <<>>)
  BY DEF In

Step == {"open", "openMark", "openSend", "close", "closed", "stop", "stopped",
         "start", "startReady", "startMark", "startSend", "connected", "connectedMedia",
         "unbind", "unlock", "openAck", "setPhone", "opened", "append", "callback",
         "getRx", "setRx", "answered", "startAck", "started", "appendTx", "setTx",
         "answer", "complete", "completeLocked", "hold", "resume", "resumeHeld",
         "endcall", "request", "flag", "wait", "relock", "remote", "peer", "unlist",
         "onhook", "clean", "gone"}

StackType == todo \in [Thread -> Seq(Step)]

(* An acknowledgement is at hand as long as it is looked at. *)
AckInv == In("openAck", todo["session"]) \/ In("setPhone", todo["session"]) => ack \in Ack

TypeInv == TypeOK /\ StackType /\ AckInv

(* What is put on a stack while an acknowledgement is handled, or without one *)
Plain == {s \in Seq(Step) : ~In("openAck", s) /\ ~In("setPhone", s)}

(* What is on two stacks, one on the other *)
LEMMA InConcat ==
    ASSUME NEW S, NEW s \in Seq(S), NEW r \in Seq(S)
    PROVE  s \o r \in Seq(S) /\ \A x : In(x, s \o r) <=> In(x, s) \/ In(x, r)
<1>1. s \o r \in Seq(S) /\ Len(s \o r) = Len(s) + Len(r) /\ Len(s) \in Nat /\ Len(r) \in Nat
      /\ \A i \in 1 .. Len(s) + Len(r) : (s \o r)[i] = IF i <= Len(s) THEN s[i] ELSE r[i - Len(s)]
  BY ConcatProperties, LenProperties
<1>2. PICK q : q = s \o r
  OBVIOUS
<1>3. ASSUME NEW x, NEW i \in 1 .. Len(q), q[i] = x PROVE In(x, s) \/ In(x, r)
  <2>1. CASE i <= Len(s)
    BY <2>1, <1>1, <1>2, <1>3 DEF In
  <2>2. CASE i > Len(s)
    <3>1. i - Len(s) \in 1 .. Len(r) /\ r[i - Len(s)] = x
      BY <2>2, <1>1, <1>2, <1>3
    <3> QED
      BY <3>1 DEF In
  <2> QED
    BY <2>1, <2>2, <1>1, <1>2
<1>4. ASSUME NEW x, NEW i \in 1 .. Len(s), s[i] = x PROVE In(x, q)
  BY <1>1, <1>2, <1>4 DEF In
<1>5. ASSUME NEW x, NEW i \in 1 .. Len(r), r[i] = x PROVE In(x, q)
  <2>1. i + Len(s) \in 1 .. Len(q) /\ (i + Len(s)) - Len(s) = i /\ ~(i + Len(s) <= Len(s))
    BY <1>1, <1>2
  <2>2. q[i + Len(s)] = x
    BY <2>1, <1>1, <1>2, <1>5
  <2> QED
    BY <2>1, <2>2 DEF In
<1>6. \A x : In(x, q) <=> In(x, s) \/ In(x, r)
  BY <1>3, <1>4, <1>5 DEF In
<1> QED
  BY <1>1, <1>2, <1>6

(* Plain steps *)
LEMMA PlainFacts ==
    /\ <<>> \in Plain
    /\ \A a \in Step \ {"openAck", "setPhone"} : <<a>> \in Plain
    /\ \A a, b \in Step \ {"openAck", "setPhone"} : <<a, b>> \in Plain
    /\ \A a, b, c \in Step \ {"openAck", "setPhone"} : <<a, b, c>> \in Plain
    /\ \A a, b, c, d \in Step \ {"openAck", "setPhone"} : <<a, b, c, d>> \in Plain
    /\ \A s, r \in Plain : s \o r \in Plain
<1> DEFINE P == Step \ {"openAck", "setPhone"}
<1>1. ASSUME NEW s \in Seq(P) PROVE s \in Plain
  <2>1. s \in Seq(Step) /\ \A i \in 1 .. Len(s) : s[i] \in P
    BY <1>1, SeqMonotonic, ElementOfSeq
  <2> QED
    BY <2>1 DEF Plain, In
<1> HIDE DEF P
<1>2. <<>> \in Plain
  <2>1. <<>> \in Seq(P)
    OBVIOUS
  <2> QED
    BY <2>1, <1>1
<1>3. ASSUME NEW a \in P PROVE <<a>> \in Plain
  <2>1. <<a>> \in Seq(P)
    OBVIOUS
  <2> QED
    BY <2>1, <1>1
<1>4. ASSUME NEW a \in P, NEW b \in P PROVE <<a, b>> \in Plain
  <2>1. <<a, b>> \in Seq(P)
    OBVIOUS
  <2> QED
    BY <2>1, <1>1
<1>5. ASSUME NEW a \in P, NEW b \in P, NEW c \in P PROVE <<a, b, c>> \in Plain
  <2>1. <<a, b, c>> \in Seq(P)
    OBVIOUS
  <2> QED
    BY <2>1, <1>1
<1>6. ASSUME NEW a \in P, NEW b \in P, NEW c \in P, NEW d \in P PROVE <<a, b, c, d>> \in Plain
  <2>1. <<a, b, c, d>> \in Seq(P)
    OBVIOUS
  <2> QED
    BY <2>1, <1>1
<1>7. \A s, r \in Plain : s \o r \in Plain
  BY InConcat DEF Plain
<1> QED
  BY <1>2, <1>3, <1>4, <1>5, <1>6, <1>7 DEF P

(* A thread goes on. *)
LEMMA GoesOn ==
    ASSUME StackType, NEW t \in Thread, NEW h, At(t, h)
    PROVE  \E r \in Seq(Step) :
              /\ h \in Step /\ todo[t] = On(h, r) /\ todo[t] # <<>>
              /\ \A steps : Then(t, steps) => todo' = [todo EXCEPT ![t] = steps \o r]
<1>1. todo[t] \in Seq(Step) /\ todo[t] # <<>> /\ Head(todo[t]) = h
  BY DEF StackType, At
<1>2. h \in Step /\ Tail(todo[t]) \in Seq(Step) /\ todo[t] = On(h, Tail(todo[t]))
  BY <1>1, Unfold
<1> QED
  BY <1>1, <1>2 DEF Then
(* A step that asks nothing of the acknowledgement leaves the stacks in order. *)
LEMMA ThenType ==
    ASSUME StackType, AckInv, NEW t \in Thread, NEW h, At(t, h),
           NEW steps \in Seq(Step), Then(t, steps), ack' = ack,
           steps \in Plain \/ ack \in Ack
    PROVE  StackType' /\ AckInv'
<1>1. PICK r \in Seq(Step) :
         todo[t] = On(h, r) /\ h \in Step /\ todo' = [todo EXCEPT ![t] = steps \o r]
  BY GoesOn
<1>2. steps \o r \in Seq(Step)
      /\ \A x : In(x, steps \o r) => In(x, steps) \/ In(x, todo[t])
  BY <1>1, InConcat, OnFacts
<1>3. StackType'
  BY <1>1, <1>2 DEF StackType
<1>4. todo'["session"] = todo["session"] \/ (t = "session" /\ todo'["session"] = steps \o r)
  BY <1>1 DEF StackType, Thread
<1>5. AckInv'
  BY <1>2, <1>4 DEF AckInv, Plain
<1> QED
  BY <1>3, <1>5

(* Plain steps are steps. *)
LEMMA PlainInSeq == Plain \subseteq Seq(Step)
  BY DEF Plain
(* The two threads *)
LEMMA PbxThread == "pbx" \in Thread /\ "session" \in Thread
  BY DEF Thread

(* Fields that are written keep their types. *)
LEMMA RtpUpdates ==
    ASSUME NEW q \in Rtp
    PROVE  /\ q.rx \in SUBSET Flag /\ q.tx \in SUBSET Flag
           /\ q.address \in Port \cup {Nobody}
           /\ \A x \in SUBSET Flag : [q EXCEPT !.rx = x] \in Rtp /\ [q EXCEPT !.tx = x] \in Rtp
           /\ \A x \in SUBSET Flag : [q EXCEPT !.instance = TRUE, !.rx = x] \in Rtp
           /\ \A c \in {"none", "start", "complete"} : [q EXCEPT !.cb = c] \in Rtp
           /\ \A p \in Port \cup {Nobody} : [q EXCEPT !.address = p] \in Rtp
  BY DEF Rtp

(* The updates of a call that the steps make are calls. *)
LEMMA CallUpdates ==
    ASSUME NEW c \in Call
    PROVE  /\ c.device \in BOOLEAN
           /\ c.state \in {"ringing", "dialing", "connected", "hold", "down"}
           /\ \A s \in {"ringing", "dialing", "connected", "hold", "down"} :
                 [c EXCEPT !.state = s] \in Call
           /\ \A b \in BOOLEAN :
                 /\ [c EXCEPT !.device = b] \in Call /\ [c EXCEPT !.listed = b] \in Call
                 /\ [c EXCEPT !.hanging = b] \in Call /\ [c EXCEPT !.hangup = b] \in Call
                 /\ [c EXCEPT !.answered = b] \in Call /\ [c EXCEPT !.redirected = b] \in Call
                 /\ [c EXCEPT !.answering = b, !.device = b] \in Call
                 /\ [c EXCEPT !.gone = b, !.hangup = b] \in Call
  BY DEF Call

(* What is sent is a message. *)
LEMMA SendType ==
    ASSUME TypeOK
    PROVE  \A m \in {"open", "close", "start", "stop"} :
              /\ Append(toPhone, m) \in Seq({"open", "close", "start", "stop"})
              /\ \A n \in {"open", "close", "start", "stop"} :
                    toPhone \o <<m, n>> \in Seq({"open", "close", "start", "stop"})
  BY DEF TypeOK

(* The steps keep the types. *)
LEMMA StepType ==
    ASSUME TypeInv, Next
    PROVE  TypeInv'
<1> USE DEF TypeInv

<1>1. ASSUME NEW t \in Thread, Open(t) PROVE TypeInv'
  <2>1. PICK steps \in Plain : Then(t, steps)
    BY <1>1, PlainFacts DEF Open, nothing, MayAsk, Ending, Step
  <2>2. At(t, "open") /\ ack' = ack
    BY <1>1 DEF Open, nothing
  <2>3. StackType' /\ AckInv'
    BY <2>1, <2>2, ThenType, PlainInSeq
  <2> QED
    BY <1>1, <2>2, <2>3 DEF Open, nothing, TypeOK, StackType, Thread
<1>2. ASSUME NEW t \in Thread, OpenFails(t) PROVE TypeInv'
  <2>1. PICK steps \in Plain : Then(t, steps)
    BY <1>2, PlainFacts DEF OpenFails, Done, nothing, Step
  <2>2. At(t, "openMark") /\ ack' = ack
    BY <1>2 DEF OpenFails, nothing
  <2>3. StackType' /\ AckInv'
    BY <2>1, <2>2, ThenType, PlainInSeq
  <2> QED
    BY <1>2, <2>2, <2>3 DEF OpenFails, nothing, TypeOK, StackType, Thread
<1>3. ASSUME NEW t \in Thread, OpenMark(t) PROVE TypeInv'
  <2>1. PICK steps \in Plain : Then(t, steps)
    BY <1>3, PlainFacts DEF OpenMark, rtpOnly, Step
  <2>2. At(t, "openMark") /\ ack' = ack
    BY <1>3 DEF OpenMark, rtpOnly
  <2>3. StackType' /\ AckInv'
    BY <2>1, <2>2, ThenType, PlainInSeq
  <2>4. rtp' \in Rtp
    BY <1>3, RtpUpdates DEF OpenMark, rtpOnly, TypeOK, Flag
  <2> QED
    BY <1>3, <2>2, <2>3, <2>4 DEF OpenMark, rtpOnly, TypeOK, StackType, Thread
<1>4. ASSUME NEW t \in Thread, OpenSend(t) PROVE TypeInv'
  <2>1. PICK steps \in Plain : Then(t, steps)
    BY <1>4, PlainFacts DEF OpenSend, Done, Step
  <2>2. At(t, "openSend") /\ ack' = ack
    BY <1>4 DEF OpenSend
  <2>3. StackType' /\ AckInv'
    BY <2>1, <2>2, ThenType, PlainInSeq
  <2>6. toPhone' \in Seq({"open", "close", "start", "stop"})
    BY <1>4, SendType DEF OpenSend, Send, TypeOK
  <2> QED
    BY <1>4, <2>2, <2>3, <2>6 DEF OpenSend, Send, TypeOK, StackType, Thread
<1>5. ASSUME NEW t \in Thread, Close(t) PROVE TypeInv'
  <2>1. PICK steps \in Plain : Then(t, steps)
    BY <1>5, PlainFacts DEF Close, Done, sendOnly, Step
  <2>2. At(t, "close") /\ ack' = ack
    BY <1>5 DEF Close, sendOnly
  <2>3. StackType' /\ AckInv'
    BY <2>1, <2>2, ThenType, PlainInSeq
  <2>6. toPhone' \in Seq({"open", "close", "start", "stop"})
    BY <1>5, SendType DEF Close, sendOnly, Send, TypeOK
  <2> QED
    BY <1>5, <2>2, <2>3, <2>6 DEF Close, sendOnly, Send, TypeOK, StackType, Thread
<1>6. ASSUME NEW t \in Thread, Closed(t) PROVE TypeInv'
  <2>1. PICK steps \in Plain : Then(t, steps)
    BY <1>6, PlainFacts DEF Closed, Done, rtpOnly, Step
  <2>2. At(t, "closed") /\ ack' = ack
    BY <1>6 DEF Closed, rtpOnly
  <2>3. StackType' /\ AckInv'
    BY <2>1, <2>2, ThenType, PlainInSeq
  <2>4. rtp' \in Rtp
    BY <1>6, RtpUpdates DEF Closed, rtpOnly, TypeOK, Flag
  <2> QED
    BY <1>6, <2>2, <2>3, <2>4 DEF Closed, rtpOnly, TypeOK, StackType, Thread
<1>7. ASSUME NEW t \in Thread, Stop(t) PROVE TypeInv'
  <2>1. PICK steps \in Plain : Then(t, steps)
    BY <1>7, PlainFacts DEF Stop, Done, sendOnly, Step
  <2>2. At(t, "stop") /\ ack' = ack
    BY <1>7 DEF Stop, sendOnly
  <2>3. StackType' /\ AckInv'
    BY <2>1, <2>2, ThenType, PlainInSeq
  <2>6. toPhone' \in Seq({"open", "close", "start", "stop"})
    BY <1>7, SendType DEF Stop, sendOnly, Send, TypeOK
  <2> QED
    BY <1>7, <2>2, <2>3, <2>6 DEF Stop, sendOnly, Send, TypeOK, StackType, Thread
<1>8. ASSUME NEW t \in Thread, Stopped(t) PROVE TypeInv'
  <2>1. PICK steps \in Plain : Then(t, steps)
    BY <1>8, PlainFacts DEF Stopped, Done, rtpOnly, Step
  <2>2. At(t, "stopped") /\ ack' = ack
    BY <1>8 DEF Stopped, rtpOnly
  <2>3. StackType' /\ AckInv'
    BY <2>1, <2>2, ThenType, PlainInSeq
  <2>4. rtp' \in Rtp
    BY <1>8, RtpUpdates DEF Stopped, rtpOnly, TypeOK, Flag
  <2> QED
    BY <1>8, <2>2, <2>3, <2>4 DEF Stopped, rtpOnly, TypeOK, StackType, Thread
<1>9. ASSUME NEW t \in Thread, Start(t) PROVE TypeInv'
  <2>1. PICK steps \in Plain : Then(t, steps)
    BY <1>9, PlainFacts DEF Start, nothing, Ending, Step
  <2>2. At(t, "start") /\ ack' = ack
    BY <1>9 DEF Start, nothing
  <2>3. StackType' /\ AckInv'
    BY <2>1, <2>2, ThenType, PlainInSeq
  <2> QED
    BY <1>9, <2>2, <2>3 DEF Start, nothing, TypeOK, StackType, Thread
<1>10. ASSUME NEW t \in Thread, StartReady(t) PROVE TypeInv'
  <2>1. PICK steps \in Plain : Then(t, steps)
    BY <1>10, PlainFacts DEF StartReady, nothing, Step
  <2>2. At(t, "startReady") /\ ack' = ack
    BY <1>10 DEF StartReady, nothing
  <2>3. StackType' /\ AckInv'
    BY <2>1, <2>2, ThenType, PlainInSeq
  <2> QED
    BY <1>10, <2>2, <2>3 DEF StartReady, nothing, TypeOK, StackType, Thread
<1>11. ASSUME NEW t \in Thread, StartMark(t) PROVE TypeInv'
  <2>1. PICK steps \in Plain : Then(t, steps)
    BY <1>11, PlainFacts DEF StartMark, rtpOnly, Step
  <2>2. At(t, "startMark") /\ ack' = ack
    BY <1>11 DEF StartMark, rtpOnly
  <2>3. StackType' /\ AckInv'
    BY <2>1, <2>2, ThenType, PlainInSeq
  <2>4. rtp' \in Rtp
    BY <1>11, RtpUpdates DEF StartMark, rtpOnly, TypeOK, Flag
  <2> QED
    BY <1>11, <2>2, <2>3, <2>4 DEF StartMark, rtpOnly, TypeOK, StackType, Thread
<1>12. ASSUME NEW t \in Thread, StartSend(t) PROVE TypeInv'
  <2>1. PICK steps \in Plain : Then(t, steps)
    BY <1>12, PlainFacts DEF StartSend, Done, sendOnly, Step
  <2>2. At(t, "startSend") /\ ack' = ack
    BY <1>12 DEF StartSend, sendOnly
  <2>3. StackType' /\ AckInv'
    BY <2>1, <2>2, ThenType, PlainInSeq
  <2>6. toPhone' \in Seq({"open", "close", "start", "stop"})
    BY <1>12, SendType DEF StartSend, sendOnly, Send, TypeOK
  <2> QED
    BY <1>12, <2>2, <2>3, <2>6 DEF StartSend, sendOnly, Send, TypeOK, StackType, Thread
<1>13. ASSUME NEW t \in Thread, Connected(t) PROVE TypeInv'
  <2>1. PICK steps \in Plain : Then(t, steps)
    BY <1>13, PlainFacts DEF Connected, Done, Step
  <2>2. At(t, "connected") /\ ack' = ack
    BY <1>13 DEF Connected
  <2>3. StackType' /\ AckInv'
    BY <2>1, <2>2, ThenType, PlainInSeq
  <2>4. rtp' \in Rtp
    BY <1>13, RtpUpdates DEF Connected, ConnectedCallback, TypeOK, Flag
  <2>5. call' \in Call
    BY <1>13, CallUpdates DEF Connected, TypeOK
  <2> QED
    BY <1>13, <2>2, <2>3, <2>4, <2>5 DEF Connected, ConnectedCallback, TypeOK, StackType,
       Thread
<1>14. ASSUME NEW t \in Thread, ConnectedMedia(t) PROVE TypeInv'
  <2>1. PICK steps \in Plain : Then(t, steps)
    BY <1>14, PlainFacts DEF ConnectedMedia, Done, RunCallback, CallbackSteps, rtpOnly,
       Step
  <2>2. At(t, "connectedMedia") /\ ack' = ack
    BY <1>14 DEF ConnectedMedia, rtpOnly
  <2>3. StackType' /\ AckInv'
    BY <2>1, <2>2, ThenType, PlainInSeq
  <2>4. rtp' \in Rtp
    BY <1>14, RtpUpdates DEF ConnectedMedia, rtpOnly, RunCallback, TypeOK, Flag
  <2> QED
    BY <1>14, <2>2, <2>3, <2>4 DEF ConnectedMedia, rtpOnly, RunCallback, TypeOK, StackType,
       Thread
<1>15. ASSUME NEW t \in Thread, Unbind(t) PROVE TypeInv'
  <2>1. PICK steps \in Plain : Then(t, steps)
    BY <1>15, PlainFacts DEF Unbind, Done, callOnly, Step
  <2>2. At(t, "unbind") /\ ack' = ack
    BY <1>15 DEF Unbind, callOnly
  <2>3. StackType' /\ AckInv'
    BY <2>1, <2>2, ThenType, PlainInSeq
  <2>5. call' \in Call
    BY <1>15, CallUpdates DEF Unbind, callOnly, TypeOK
  <2> QED
    BY <1>15, <2>2, <2>3, <2>5 DEF Unbind, callOnly, TypeOK, StackType, Thread
<1>16. ASSUME NEW t \in Thread, Unlock(t) PROVE TypeInv'
  <2>1. PICK steps \in Plain : Then(t, steps)
    BY <1>16, PlainFacts DEF Unlock, Done, callOnly, Step
  <2>2. At(t, "unlock") /\ ack' = ack
    BY <1>16 DEF Unlock, callOnly
  <2>3. StackType' /\ AckInv'
    BY <2>1, <2>2, ThenType, PlainInSeq
  <2> QED
    BY <1>16, <2>2, <2>3 DEF Unlock, callOnly, TypeOK, StackType, Thread
<1>17. ASSUME NEW t \in Thread, Opened(t) PROVE TypeInv'
  <2>1. PICK steps \in Plain : Then(t, steps)
    BY <1>17, PlainFacts DEF Opened, Done, OpenedSteps, Step
  <2>2. At(t, "opened") /\ ack' = ack
    BY <1>17 DEF Opened
  <2>3. StackType' /\ AckInv'
    BY <2>1, <2>2, ThenType, PlainInSeq
  <2> QED
    BY <1>17, <2>2, <2>3 DEF Opened, TypeOK, StackType, Flag, Thread
<1>18. ASSUME NEW t \in Thread, AppendRx(t) PROVE TypeInv'
  <2>1. PICK steps \in Plain : Then(t, steps)
    BY <1>18, PlainFacts DEF AppendRx, Done, rtpOnly, Step
  <2>2. At(t, "append") /\ ack' = ack
    BY <1>18 DEF AppendRx, rtpOnly
  <2>3. StackType' /\ AckInv'
    BY <2>1, <2>2, ThenType, PlainInSeq
  <2>4. rtp' \in Rtp
    BY <1>18, RtpUpdates DEF AppendRx, rtpOnly, TypeOK, Flag
  <2> QED
    BY <1>18, <2>2, <2>3, <2>4 DEF AppendRx, rtpOnly, TypeOK, StackType, Thread
<1>19. ASSUME NEW t \in Thread, Callback(t) PROVE TypeInv'
  <2>1. PICK steps \in Plain : Then(t, steps)
    BY <1>19, PlainFacts DEF Callback, Done, RunCallback, CallbackSteps, rtpOnly, Step
  <2>2. At(t, "callback") /\ ack' = ack
    BY <1>19 DEF Callback, rtpOnly
  <2>3. StackType' /\ AckInv'
    BY <2>1, <2>2, ThenType, PlainInSeq
  <2>4. rtp' \in Rtp
    BY <1>19, RtpUpdates DEF Callback, rtpOnly, RunCallback, TypeOK, Flag
  <2> QED
    BY <1>19, <2>2, <2>3, <2>4 DEF Callback, rtpOnly, RunCallback, TypeOK, StackType,
       Thread
<1>20. ASSUME NEW t \in Thread, GetRx(t) PROVE TypeInv'
  <2>1. PICK steps \in Plain : Then(t, steps)
    BY <1>20, PlainFacts DEF GetRx, Done, Step
  <2>2. At(t, "getRx") /\ ack' = ack
    BY <1>20 DEF GetRx
  <2>3. StackType' /\ AckInv'
    BY <2>1, <2>2, ThenType, PlainInSeq
  <2> QED
    BY <1>20, <2>2, <2>3 DEF GetRx, TypeOK, StackType, Flag, Rtp, Thread
<1>21. ASSUME NEW t \in Thread, SetRx(t) PROVE TypeInv'
  <2>1. PICK steps \in Plain : Then(t, steps)
    BY <1>21, PlainFacts DEF SetRx, Done, rtpOnly, Step
  <2>2. At(t, "setRx") /\ ack' = ack
    BY <1>21 DEF SetRx, rtpOnly
  <2>3. StackType' /\ AckInv'
    BY <2>1, <2>2, ThenType, PlainInSeq
  <2>4. rtp' \in Rtp
    BY <1>21, RtpUpdates DEF SetRx, rtpOnly, TypeOK, Flag
  <2> QED
    BY <1>21, <2>2, <2>3, <2>4 DEF SetRx, rtpOnly, TypeOK, StackType, Thread
<1>22. ASSUME NEW t \in Thread, Answered(t) PROVE TypeInv'
  <2>1. PICK steps \in Plain : Then(t, steps)
    BY <1>22, PlainFacts DEF Answered, Done, Step
  <2>2. At(t, "answered") /\ ack' = ack
    BY <1>22 DEF Answered
  <2>3. StackType' /\ AckInv'
    BY <2>1, <2>2, ThenType, PlainInSeq
  <2> QED
    BY <1>22, <2>2, <2>3 DEF Answered, OneFewer, TypeOK, StackType, Thread
<1>23. ASSUME NEW t \in Thread, StartAck(t) PROVE TypeInv'
  <2>1. PICK steps \in Plain : Then(t, steps)
    BY <1>23, PlainFacts DEF StartAck, Done, Refused, CloseAll, Step
  <2>2. At(t, "startAck") /\ ack' = ack
    BY <1>23 DEF StartAck
  <2>3. StackType' /\ AckInv'
    BY <2>1, <2>2, ThenType, PlainInSeq
  <2>6. toPhone' \in Seq({"open", "close", "start", "stop"})
    BY <1>23, SendType DEF StartAck, TypeOK
  <2> QED
    BY <1>23, <2>2, <2>3, <2>6 DEF StartAck, TypeOK, StackType, Flag, Thread
<1>24. ASSUME NEW t \in Thread, Started(t) PROVE TypeInv'
  <2>1. PICK steps \in Plain : Then(t, steps)
    BY <1>24, PlainFacts DEF Started, nothing, Step
  <2>2. At(t, "started") /\ ack' = ack
    BY <1>24 DEF Started, nothing
  <2>3. StackType' /\ AckInv'
    BY <2>1, <2>2, ThenType, PlainInSeq
  <2> QED
    BY <1>24, <2>2, <2>3 DEF Started, nothing, TypeOK, StackType, Thread
<1>25. ASSUME NEW t \in Thread, AppendTx(t) PROVE TypeInv'
  <2>1. PICK steps \in Plain : Then(t, steps)
    BY <1>25, PlainFacts DEF AppendTx, Done, rtpOnly, Step
  <2>2. At(t, "appendTx") /\ ack' = ack
    BY <1>25 DEF AppendTx, rtpOnly
  <2>3. StackType' /\ AckInv'
    BY <2>1, <2>2, ThenType, PlainInSeq
  <2>4. rtp' \in Rtp
    BY <1>25, RtpUpdates DEF AppendTx, rtpOnly, TypeOK, Flag
  <2> QED
    BY <1>25, <2>2, <2>3, <2>4 DEF AppendTx, rtpOnly, TypeOK, StackType, Thread
<1>26. ASSUME NEW t \in Thread, SetTx(t) PROVE TypeInv'
  <2>1. PICK steps \in Plain : Then(t, steps)
    BY <1>26, PlainFacts DEF SetTx, Done, rtpOnly, Step
  <2>2. At(t, "setTx") /\ ack' = ack
    BY <1>26 DEF SetTx, rtpOnly
  <2>3. StackType' /\ AckInv'
    BY <2>1, <2>2, ThenType, PlainInSeq
  <2>4. rtp' \in Rtp
    BY <1>26, RtpUpdates DEF SetTx, rtpOnly, TypeOK, Flag
  <2> QED
    BY <1>26, <2>2, <2>3, <2>4 DEF SetTx, rtpOnly, TypeOK, StackType, Thread
<1>27. ASSUME NEW t \in Thread, Answer(t) PROVE TypeInv'
  <2>1. PICK steps \in Plain : Then(t, steps)
    BY <1>27, PlainFacts DEF Answer, Done, Step
  <2>2. At(t, "answer") /\ ack' = ack
    BY <1>27 DEF Answer
  <2>3. StackType' /\ AckInv'
    BY <2>1, <2>2, ThenType, PlainInSeq
  <2>4. rtp' \in Rtp
    BY <1>27, RtpUpdates DEF Answer, TypeOK, Flag
  <2>5. call' \in Call
    BY <1>27, CallUpdates DEF Answer, TypeOK
  <2> QED
    BY <1>27, <2>2, <2>3, <2>4, <2>5 DEF Answer, TypeOK, StackType, Thread
<1>28. ASSUME NEW t \in Thread, Complete(t) PROVE TypeInv'
  <2>1. PICK steps \in Plain : Then(t, steps)
    BY <1>28, PlainFacts DEF Complete, nothing, Step
  <2>2. At(t, "complete") /\ ack' = ack
    BY <1>28 DEF Complete, nothing
  <2>3. StackType' /\ AckInv'
    BY <2>1, <2>2, ThenType, PlainInSeq
  <2> QED
    BY <1>28, <2>2, <2>3 DEF Complete, nothing, TypeOK, StackType, Thread
<1>29. ASSUME NEW t \in Thread, CompleteLocked(t) PROVE TypeInv'
  <2>1. PICK steps \in Plain : Then(t, steps)
    BY <1>29, PlainFacts DEF CompleteLocked, callOnly, Step
  <2>2. At(t, "completeLocked") /\ ack' = ack
    BY <1>29 DEF CompleteLocked, callOnly
  <2>3. StackType' /\ AckInv'
    BY <2>1, <2>2, ThenType, PlainInSeq
  <2> QED
    BY <1>29, <2>2, <2>3 DEF CompleteLocked, callOnly, Locks, TypeOK, StackType, Thread
<1>30. ASSUME NEW t \in Thread, Hold(t) PROVE TypeInv'
  <2>1. PICK steps \in Plain : Then(t, steps)
    BY <1>30, PlainFacts DEF Hold, Done, callOnly, HoldSteps, CloseAll, Step
  <2>2. At(t, "hold") /\ ack' = ack
    BY <1>30 DEF Hold, callOnly
  <2>3. StackType' /\ AckInv'
    BY <2>1, <2>2, ThenType, PlainInSeq
  <2>5. call' \in Call
    BY <1>30, CallUpdates DEF Hold, callOnly, TypeOK
  <2> QED
    BY <1>30, <2>2, <2>3, <2>5 DEF Hold, callOnly, TypeOK, StackType, Thread
<1>31. ASSUME NEW t \in Thread, Resume(t) PROVE TypeInv'
  <2>1. PICK steps \in Plain : Then(t, steps)
    BY <1>31, PlainFacts DEF Resume, callOnly, Step
  <2>2. At(t, "resume") /\ ack' = ack
    BY <1>31 DEF Resume, callOnly
  <2>3. StackType' /\ AckInv'
    BY <2>1, <2>2, ThenType, PlainInSeq
  <2> QED
    BY <1>31, <2>2, <2>3 DEF Resume, callOnly, Locks, TypeOK, StackType, Thread
<1>32. ASSUME NEW t \in Thread, ResumeHeld(t) PROVE TypeInv'
  <2>1. PICK steps \in Plain : Then(t, steps)
    BY <1>32, PlainFacts DEF ResumeHeld, callOnly, Step
  <2>2. At(t, "resumeHeld") /\ ack' = ack
    BY <1>32 DEF ResumeHeld, callOnly
  <2>3. StackType' /\ AckInv'
    BY <2>1, <2>2, ThenType, PlainInSeq
  <2>5. call' \in Call
    BY <1>32, CallUpdates DEF ResumeHeld, callOnly, TypeOK
  <2> QED
    BY <1>32, <2>2, <2>3, <2>5 DEF ResumeHeld, callOnly, TypeOK, StackType, Thread
<1>33. ASSUME NEW t \in Thread, Endcall(t) PROVE TypeInv'
  <2>1. PICK steps \in Plain : Then(t, steps)
    BY <1>33, PlainFacts DEF Endcall, callOnly, Step
  <2>2. At(t, "endcall") /\ ack' = ack
    BY <1>33 DEF Endcall, callOnly
  <2>3. StackType' /\ AckInv'
    BY <2>1, <2>2, ThenType, PlainInSeq
  <2>5. call' \in Call
    BY <1>33, CallUpdates DEF Endcall, callOnly, TypeOK
  <2> QED
    BY <1>33, <2>2, <2>3, <2>5 DEF Endcall, callOnly, TypeOK, StackType, Thread
<1>34. ASSUME NEW t \in Thread, Request(t) PROVE TypeInv'
  <2>1. PICK steps \in Plain : Then(t, steps)
    BY <1>34, PlainFacts DEF Request, Done, callOnly, Step
  <2>2. At(t, "request") /\ ack' = ack
    BY <1>34 DEF Request, callOnly
  <2>3. StackType' /\ AckInv'
    BY <2>1, <2>2, ThenType, PlainInSeq
  <2>5. call' \in Call
    BY <1>34, CallUpdates DEF Request, callOnly, TypeOK
  <2> QED
    BY <1>34, <2>2, <2>3, <2>5 DEF Request, callOnly, TypeOK, StackType, Thread
<1>35. ASSUME NEW t \in Thread, SetFlag(t) PROVE TypeInv'
  <2>1. PICK steps \in Plain : Then(t, steps)
    BY <1>35, PlainFacts DEF SetFlag, Done, callOnly, Step
  <2>2. At(t, "flag") /\ ack' = ack
    BY <1>35 DEF SetFlag, callOnly
  <2>3. StackType' /\ AckInv'
    BY <2>1, <2>2, ThenType, PlainInSeq
  <2>5. call' \in Call
    BY <1>35, CallUpdates DEF SetFlag, callOnly, TypeOK
  <2> QED
    BY <1>35, <2>2, <2>3, <2>5 DEF SetFlag, callOnly, TypeOK, StackType, Thread
<1>36. ASSUME Waited PROVE TypeInv'
  <2>1. PICK steps \in Plain : Then("pbx", steps)
    BY <1>36, PlainFacts DEF Waited, Done, nothing, Step
  <2>2. At("pbx", "wait") /\ ack' = ack
    BY <1>36 DEF Waited, nothing
  <2>3. StackType' /\ AckInv'
    BY <2>1, <2>2, ThenType, PlainInSeq, PbxThread
  <2> QED
    BY <1>36, <2>2, <2>3 DEF Waited, nothing, TypeOK, StackType, Thread
<1>37. ASSUME Relock PROVE TypeInv'
  <2>1. PICK steps \in Plain : Then("pbx", steps)
    BY <1>37, PlainFacts DEF Relock, Done, callOnly, Step
  <2>2. At("pbx", "relock") /\ ack' = ack
    BY <1>37 DEF Relock, callOnly
  <2>3. StackType' /\ AckInv'
    BY <2>1, <2>2, ThenType, PlainInSeq, PbxThread
  <2> QED
    BY <1>37, <2>2, <2>3 DEF Relock, callOnly, Locks, TypeOK, StackType, Thread
<1>38. ASSUME Remote PROVE TypeInv'
  <2>1. PICK steps \in Plain : Then("pbx", steps)
    BY <1>38, PlainFacts DEF Remote, nothing, RemoteSteps, Step
  <2>2. At("pbx", "remote") /\ ack' = ack
    BY <1>38 DEF Remote, nothing
  <2>3. StackType' /\ AckInv'
    BY <2>1, <2>2, ThenType, PlainInSeq, PbxThread
  <2> QED
    BY <1>38, <2>2, <2>3 DEF Remote, nothing, TypeOK, StackType, Thread
<1>39. ASSUME SetPeer PROVE TypeInv'
  <2>1. PICK steps \in Plain : Then("pbx", steps)
    BY <1>39, PlainFacts DEF SetPeer, nothing, Step
  <2>2. At("pbx", "peer") /\ ack' = ack
    BY <1>39 DEF SetPeer, nothing
  <2>3. StackType' /\ AckInv'
    BY <2>1, <2>2, ThenType, PlainInSeq, PbxThread
  <2> QED
    BY <1>39, <2>2, <2>3 DEF SetPeer, nothing, TypeOK, StackType, Thread
<1>40. ASSUME Unlist PROVE TypeInv'
  <2>1. PICK steps \in Plain : Then("pbx", steps)
    BY <1>40, PlainFacts DEF Unlist, Done, callOnly, Step
  <2>2. At("pbx", "unlist") /\ ack' = ack
    BY <1>40 DEF Unlist, callOnly
  <2>3. StackType' /\ AckInv'
    BY <2>1, <2>2, ThenType, PlainInSeq, PbxThread
  <2>5. call' \in Call
    BY <1>40, CallUpdates DEF Unlist, callOnly, TypeOK
  <2> QED
    BY <1>40, <2>2, <2>3, <2>5 DEF Unlist, callOnly, TypeOK, StackType, Thread
<1>41. ASSUME Onhook PROVE TypeInv'
  <2>1. PICK steps \in Plain : Then("pbx", steps)
    BY <1>41, PlainFacts DEF Onhook, Done, callOnly, Step
  <2>2. At("pbx", "onhook") /\ ack' = ack
    BY <1>41 DEF Onhook, callOnly
  <2>3. StackType' /\ AckInv'
    BY <2>1, <2>2, ThenType, PlainInSeq, PbxThread
  <2>5. call' \in Call
    BY <1>41, CallUpdates DEF Onhook, callOnly, TypeOK
  <2> QED
    BY <1>41, <2>2, <2>3, <2>5 DEF Onhook, callOnly, TypeOK, StackType, Thread
<1>42. ASSUME Clean PROVE TypeInv'
  <2>1. PICK steps \in Plain : Then("pbx", steps)
    BY <1>42, PlainFacts DEF Clean, nothing, CloseAll, Step
  <2>2. At("pbx", "clean") /\ ack' = ack
    BY <1>42 DEF Clean, nothing
  <2>3. StackType' /\ AckInv'
    BY <2>1, <2>2, ThenType, PlainInSeq, PbxThread
  <2> QED
    BY <1>42, <2>2, <2>3 DEF Clean, nothing, TypeOK, StackType, Thread
<1>43. ASSUME Gone PROVE TypeInv'
  <2>1. PICK steps \in Plain : Then("pbx", steps)
    BY <1>43, PlainFacts DEF Gone, Done, callOnly, Step
  <2>2. At("pbx", "gone") /\ ack' = ack
    BY <1>43 DEF Gone, callOnly
  <2>3. StackType' /\ AckInv'
    BY <2>1, <2>2, ThenType, PlainInSeq, PbxThread
  <2>5. call' \in Call
    BY <1>43, CallUpdates DEF Gone, callOnly, TypeOK
  <2> QED
    BY <1>43, <2>2, <2>3, <2>5 DEF Gone, callOnly, TypeOK, StackType, Thread
<1>44. ASSUME OpenAck("session") PROVE TypeInv'
  <2>1. At("session", "openAck") /\ ack' = ack
    BY <1>44 DEF OpenAck
  <2>2. ack \in Ack
    <3>1. PICK r \in Seq(Step) : todo["session"] = On("openAck", r)
      BY <2>1, GoesOn, PbxThread
    <3>2. In("openAck", todo["session"])
      <4>1. "openAck" \in Step /\ "setPhone" \in Step
        BY DEF Step
      <4> QED
        BY <3>1, <4>1, OnFacts
    <3> QED
      BY <3>2 DEF AckInv
  <2>3. PICK steps \in Seq(Step) : Then("session", steps)
    <3>1. <<"setPhone", "opened", "setRx">> \in Seq(Step)
      BY DEF Step
    <3>2. Refused \o <<"setRx">> \in Plain /\ <<>> \in Plain
      BY PlainFacts DEF Refused, CloseAll, Step
    <3> QED
      BY <1>44, <3>1, <3>2, PlainInSeq DEF OpenAck, Done
  <2>4. StackType' /\ AckInv'
    BY <2>1, <2>2, <2>3, ThenType, PbxThread
  <2>5. toPhone' \in Seq({"open", "close", "start", "stop"})
    BY <1>44, SendType DEF OpenAck, CloseLate, Send, TypeOK
  <2>6. result' \subseteq Flag
    BY <1>44 DEF OpenAck, TypeOK, Flag
  <2> QED
    BY <1>44, <2>1, <2>4, <2>5, <2>6 DEF OpenAck, TypeOK, StackType
<1>45. ASSUME SetPhone("session") PROVE TypeInv'
  <2>1. At("session", "setPhone") /\ ack' = ack
    BY <1>45 DEF SetPhone, rtpOnly
  <2>2. ack \in Ack
    <3>1. PICK r \in Seq(Step) : todo["session"] = On("setPhone", r)
      BY <2>1, GoesOn, PbxThread
    <3>2. In("setPhone", todo["session"])
      <4>1. "openAck" \in Step /\ "setPhone" \in Step
        BY DEF Step
      <4> QED
        BY <3>1, <4>1, OnFacts
    <3> QED
      BY <3>2 DEF AckInv
  <2>3. <<>> \in Seq(Step) /\ Then("session", <<>>)
    BY <1>45 DEF SetPhone, Done
  <2>4. StackType' /\ AckInv'
    BY <2>1, <2>2, <2>3, ThenType, PbxThread
  <2>5. rtp' \in Rtp
    <3>1. NewAddress \in Port \cup {Nobody}
      BY <2>2, RtpUpdates DEF NewAddress, Ack, TypeOK
    <3> QED
      BY <1>45, <3>1, RtpUpdates DEF SetPhone, TypeOK
  <2> QED
    BY <1>45, <2>1, <2>4, <2>5 DEF SetPhone, rtpOnly, TypeOK, StackType
<1>46. ASSUME Handle PROVE TypeInv'
  <2>1. PICK m : m = Head(fromPhone)
    OBVIOUS
  <2>2. m \in Ack \cup Key /\ fromPhone' \in Seq(Ack \cup Key)
    BY <1>46, <2>1, HeadTailProperties DEF Handle, TypeOK
  <2>3. m \in Key => m.what \in Keys
    BY DEF Key
  <2>4. m \in Ack => m.what \in {"openAck", "startAck"}
    BY DEF Ack
  <2>5. m.what \in {"openAck", "startAck"} => m \in Ack
    BY <2>2, <2>3, MediaAssumption
  <2>6. /\ todo' = [todo EXCEPT !["session"] = Steps(m)]
        /\ ack' = IF m.what \in {"openAck", "startAck"} THEN m ELSE Nobody
    BY <1>46, <2>1 DEF Handle
  <2>7. Steps(m) \in Plain \/ (Steps(m) \in Seq(Step) /\ m.what = "openAck")
    <3>1. CASE m.what = "openAck"
      <4>1. <<"openAck", "answered">> \in Seq(Step)
        BY DEF Step
      <4> QED
        BY <3>1, <4>1 DEF Steps
    <3>2. CASE m.what = "startAck"
      BY <3>2, PlainFacts DEF Steps, Step
    <3>3. CASE m.what \notin {"openAck", "startAck"}
      <4>1. m.what \in {"answer", "hold", "resume", "endcall"}
        BY <2>2, <2>3, <2>4, <3>3, MediaAssumption
      <4> QED
        BY <3>3, <4>1, PlainFacts DEF Steps, Step
    <3> QED
      BY <3>1, <3>2, <3>3
  <2>8. StackType'
    BY <2>6, <2>7, PlainInSeq DEF StackType
  <2>9. todo'["session"] = Steps(m)
    BY <2>6, PbxThread DEF StackType
  <2>10. AckInv'
    BY <2>5, <2>6, <2>7, <2>9 DEF AckInv, Plain
  <2>11. ack' \in Ack \cup {Nobody}
    BY <2>5, <2>6
  <2> QED
    BY <1>46, <2>2, <2>8, <2>10, <2>11 DEF Handle, TypeOK, StackType
<1>47. ASSUME TimesOut PROVE TypeInv'
  <2>1. todo["pbx"] \in Seq(Step) /\ todo["pbx"] # <<>>
    BY <1>47, PbxThread DEF TimesOut, At, StackType
  <2>2. Tail(todo["pbx"]) \in Seq(Step) /\ <<>> \in Seq(Step)
    BY <2>1, HeadTailProperties
  <2>3. StackType' /\ todo'["session"] = todo["session"]
    BY <1>47, <2>2, PbxThread DEF TimesOut, StackType
  <2> QED
    BY <1>47, <2>3 DEF TimesOut, TypeOK, AckInv, StackType
<1>48. ASSUME NEW op, NEW steps \in Seq(Step), Operates(op, steps), lock' \in {lock, "pbx"},
              call' \in Call
       PROVE  TypeInv'
  <2>1. StackType' /\ todo'["session"] = todo["session"]
    BY <1>48, PbxThread DEF Operates, StackType
  <2>2. ops' \in 0 .. MaxOps
    BY <1>48, MediaAssumption DEF Operates, TypeOK
  <2> QED
    BY <1>48, <2>1, <2>2 DEF Operates, TypeOK, AckInv, StackType, Thread
<1>49. ASSUME Progress PROVE TypeInv'
  <2>1. <<"open", "unlock">> \in Seq(Step)
    BY DEF Step
  <2> QED
    BY <1>48, <1>49, <2>1 DEF Progress, Locks, TypeOK
<1>50. ASSUME RemoteAnswers PROVE TypeInv'
  <2>1. <<"wait", "relock", "remote", "unlock">> \in Seq(Step)
    BY DEF Step
  <2>2. call' \in Call
    BY <1>50, CallUpdates DEF RemoteAnswers, TypeOK
  <2> QED
    BY <1>48, <1>50, <2>1, <2>2 DEF RemoteAnswers
<1>51. ASSUME UpdatePeer PROVE TypeInv'
  <2>1. <<"peer", "unlock">> \in Seq(Step)
    BY DEF Step
  <2>2. call' \in Call
    BY <1>51, CallUpdates DEF UpdatePeer, TypeOK
  <2> QED
    BY <1>48, <1>51, <2>1, <2>2 DEF UpdatePeer, Locks
<1>52. ASSUME Hangup PROVE TypeInv'
  <2>1. PICK s \in Seq(Step) : todo' = [todo EXCEPT !["pbx"] = s]
    <3>1. /\ <<"wait">> \in Seq(Step) /\ <<>> \in Seq(Step) /\ <<"close", "stop">> \in Seq(Step)
          /\ <<"unlist", "onhook", "clean", "gone", "unlock">> \in Seq(Step)
      BY DEF Step
    <3>2. (IF call.device THEN <<"wait">> ELSE <<>>) \in Seq(Step)
      BY <3>1
    <3>3. \A a, b, c \in Seq(Step) : a \o b \o c \in Seq(Step)
      BY InConcat
    <3> QED
      BY <1>52, <3>1, <3>2, <3>3 DEF Hangup, CloseAll
  <2>2. StackType' /\ todo'["session"] = todo["session"]
    BY <2>1, PbxThread DEF StackType
  <2>3. call' \in Call
    BY <1>52, CallUpdates DEF Hangup, TypeOK
  <2> QED
    BY <1>52, <2>2, <2>3 DEF Hangup, Locks, callOnly, TypeOK, AckInv, StackType, Thread
<1>53. ASSUME Press PROVE TypeInv'
  <2>1. fromPhone' \in Seq(Ack \cup Key)
    <3>1. PICK k \in Keys : fromPhone' = Append(fromPhone, [what |-> k])
      BY <1>53 DEF Press
    <3>2. [what |-> k] \in Ack \cup Key
      BY DEF Key
    <3> QED
      BY <3>1, <3>2 DEF TypeOK
  <2>2. keys' \in 0 .. MaxKeys
    BY <1>53, MediaAssumption DEF Press, TypeOK
  <2> QED
    BY <1>53, <2>1, <2>2 DEF Press, TypeOK, AckInv, StackType
<1>54. ASSUME PhoneStep PROVE TypeInv'
  <2>1. toPhone # <<>>
    BY <1>54 DEF PhoneStep, PhoneOpens, PhoneStarts, PhoneCloses
  <2>2. toPhone' \in Seq({"open", "close", "start", "stop"})
    BY <1>54, <2>1, HeadTailProperties DEF PhoneStep, TypeOK
  <2>3. ASSUME NEW w \in {"openAck", "startAck"}, NEW s \in Statuses, NEW p \in Port,
               Tells(w, s, p)
        PROVE  fromPhone' \in Seq(Ack \cup Key)
    <3>1. [what |-> w, status |-> s, port |-> p] \in Ack \cup Key
      BY DEF Ack
    <3> QED
      BY <2>3, <3>1 DEF Tells, TypeOK
  <2>4. fromPhone' \in Seq(Ack \cup Key) /\ phone' \in Phone
    <3>1. CASE PhoneOpens
      <4>1. PICK s \in Statuses, p \in Port :
              /\ Tells("openAck", s, p)
              /\ phone' = IF s = "ok" THEN [phone EXCEPT !.rx = TRUE, !.port = p] ELSE phone
        BY <3>1 DEF PhoneOpens
      <4>2. phone' \in Phone
        BY <4>1 DEF TypeOK, Phone
      <4> QED
        BY <4>1, <4>2, <2>3
    <3>2. CASE PhoneStarts
      <4>1. PICK s \in Statuses, p \in Port :
              /\ Tells("startAck", s, p)
              /\ phone' = IF s = "ok" THEN [phone EXCEPT !.tx = TRUE] ELSE phone
        BY <3>2 DEF PhoneStarts
      <4>2. phone' \in Phone
        BY <4>1 DEF TypeOK, Phone
      <4> QED
        BY <4>1, <4>2, <2>3
    <3>3. CASE PhoneCloses
      BY <3>3 DEF PhoneCloses, TypeOK, Phone
    <3> QED
      BY <1>54, <3>1, <3>2, <3>3 DEF PhoneStep
  <2> QED
    BY <1>54, <2>2, <2>4 DEF PhoneStep, TypeOK, AckInv, StackType
<1>55. ASSUME NEW t \in Thread, MediaStep(t) PROVE TypeInv'
  BY <1>55, <1>1, <1>2, <1>3, <1>4, <1>5, <1>6, <1>7, <1>8, <1>9, <1>10, <1>11, <1>12, <1>13,
     <1>14, <1>15, <1>16 DEF MediaStep
<1>56. ASSUME SessionStep PROVE TypeInv'
  BY <1>56, PbxThread, <1>55, <1>17, <1>18, <1>19, <1>20, <1>21, <1>22, <1>23, <1>24, <1>25,
     <1>26, <1>27, <1>28, <1>29, <1>30, <1>31, <1>32, <1>33, <1>34, <1>35, <1>44, <1>45, <1>46
     DEF SessionStep
<1>57. ASSUME PbxStep PROVE TypeInv'
  BY <1>57, PbxThread, <1>55, <1>36, <1>37, <1>38, <1>39, <1>40, <1>41, <1>42, <1>43,
     <1>47 DEF PbxStep
<1> QED
  BY <1>56, <1>57, <1>49, <1>50, <1>51, <1>52, <1>53, <1>54 DEF Next, PbxBegins

(* Stuttering, too. *)
LEMMA TypeKept ==
    ASSUME TypeInv, [Next]_vars
    PROVE  TypeInv'
<1>1. CASE UNCHANGED vars
  BY <1>1 DEF vars, TypeInv, TypeOK, StackType, AckInv
<1> QED
  BY <1>1, StepType

(* The types, from the start *)
LEMMA InitType == Init => TypeInv
<1> SUFFICES ASSUME Init PROVE TypeInv
  OBVIOUS
<1>1. todo = [t \in Thread |-> <<>>] /\ StackType
  BY DEF Init, StackType
<1>2. AckInv
  BY <1>1, Empty, PbxThread DEF AckInv
<1>3. call \in Call /\ rtp \in Rtp /\ phone \in Phone
  BY MediaAssumption DEF Init, Call, Rtp, Phone, Flag
<1> QED
  BY <1>1, <1>2, <1>3, MediaAssumption DEF Init, TypeInv, TypeOK

(* Every variable keeps its type: in particular the requests in flight are     *)
(* never below zero, although a wait that gives up resets them and the late    *)
(* answers are counted all the same (sccp_session_waitForPendingRequests,      *)
(* response_received); and an acknowledgement is at hand when it is looked at. *)
THEOREM TypeCorrect == Spec => []TypeOK
<1>1. Init => TypeInv
  BY InitType
<1>2. TypeInv /\ [Next]_vars => TypeInv'
  BY TypeKept
<1>3. TypeInv => TypeOK
  BY DEF TypeInv
<1> QED
  BY <1>1, <1>2, <1>3, PTL DEF Spec

(***************************************************************************)
(* Silent                                                                  *)
(***************************************************************************)
(* How the thread of the session stands: what it has yet to do under each step *)
Answering == On("answered", <<>>)
Setting == On("setRx", Answering)
Getting == On("getRx", Setting)
Unlocking == {On("unlock", <<>>), On("unlock", Getting)}
Completing == On("connected", On("connectedMedia", On("unlock", Getting)))
StartRests == {Getting, Completing} \cup Unlocking
Settled == {Setting, On("setTx", <<>>)}
Held == {<<>>, On("resumeHeld", <<>>)}
StopRests == Settled \cup {On("endcall", r) : r \in Settled} \cup {On("unbind", r) : r \in Held}
CloseRests == {On("stop", r) : r \in StopRests} \cup StartRests

SessionRests(step) ==
    CASE step \in {"answer", "resume", "resumeHeld", "startAck", "answered", "setTx"} -> {<<>>}
      [] step \in {"hold", "unbind"} -> Held
      [] step \in {"openAck", "setRx"} -> {Answering}
      [] step \in {"opened", "getRx"} -> {Setting}
      [] step = "setPhone" -> {On("opened", Setting)}
      [] step = "append" -> {On("callback", Getting)}
      [] step \in {"callback", "complete", "completeLocked"} -> {Getting}
      [] step \in {"started", "appendTx"} -> {On("setTx", <<>>)}
      [] step \in {"endcall", "request", "flag"} -> {<<>>} \cup Settled
      [] step \in {"stop", "stopped"} -> StopRests
      [] step \in {"close", "closed"} -> CloseRests
      [] step \in {"start", "startReady", "startMark", "startSend"} -> StartRests
      [] step \in {"open", "openMark", "openSend", "connectedMedia"} -> Unlocking
      [] step = "connected" -> {On("connectedMedia", r) : r \in Unlocking}
      [] step = "unlock" -> {<<>>, Getting}
      [] OTHER -> {}

(* How the hangup stands *)
Leaving == On("gone", On("unlock", <<>>))
Cleaning == On("clean", Leaving)
Unlisting == On("unlist", On("onhook", Cleaning))
HangupRests == {Unlisting, On("unbind", Leaving)}

PbxRests(step) ==
    CASE step = "wait" -> {On("close", On("stop", Unlisting))}
      [] step \in {"close", "closed"} -> {On("stop", r) : r \in HangupRests}
      [] step \in {"stop", "stopped"} -> HangupRests
      [] step = "unlist" -> {On("onhook", Cleaning)}
      [] step = "onhook" -> {Cleaning}
      [] step \in {"clean", "unbind"} -> {Leaving}
      [] step = "gone" -> {On("unlock", <<>>)}
      [] step = "unlock" -> {<<>>}
      [] OTHER -> {}

SessionStands ==
    ~Idle("session") => Tail(todo["session"]) \in SessionRests(Head(todo["session"]))
PbxStands == ~Idle("pbx") => Tail(todo["pbx"]) \in PbxRests(Head(todo["pbx"]))

(* Who has the channel locked *)
LockInv ==
    /\ lock = "pbx" <=> ~Idle("pbx")
    /\ lock = "session" <=> In("unlock", todo["session"]) \/ In("resumeHeld", todo["session"])

(* What is on its way may make the phone receive, or send. *)
MayReceive ==
    \/ phone.rx /\ \A i \in 1 .. Len(toPhone) : toPhone[i] # "close"
    \/ \E i \in 1 .. Len(toPhone) :
          toPhone[i] = "open" /\ \A j \in i .. Len(toPhone) : toPhone[j] # "close"
MaySend ==
    \/ phone.tx /\ \A i \in 1 .. Len(toPhone) : toPhone[i] # "stop"
    \/ \E i \in 1 .. Len(toPhone) :
          toPhone[i] = "start" /\ \A j \in i .. Len(toPhone) : toPhone[j] # "stop"

(* The hangup does not wait any more. *)
Past == ~Idle("pbx") /\ ~At("pbx", "wait")

(* What the hangup has done so far *)
HangupInv ==
    /\ ~Idle("pbx") => call.hanging
    /\ ~Idle("pbx") /\ ~In("onhook", todo["pbx"]) => call.state = "down"
    /\ ~Idle("pbx") /\ ~In("clean", todo["pbx"]) /\ ~In("unbind", todo["pbx"]) => ~call.device
    /\ call.gone => call.hangup /\ call.state = "down" /\ ~call.device
    /\ In("connected", todo["session"]) => ~call.gone /\ lock = "session"
    /\ ~Idle("pbx") /\ ~In("gone", todo["pbx"]) => call.gone

(* A call on hold has no phone, or is about to lose it or to be taken back. *)
HoldInv ==
    call.state = "hold" =>
        ~call.device \/ In("unbind", todo["session"]) \/ At("session", "connected")

(* The session asks for a stream of the phone that the call is bound to. *)
BoundInv ==
    /\ \A s \in {"openMark", "openSend", "startMark", "startSend"} :
          At("session", s) => call.device
    /\ At("session", "openSend") => rtp.rx # {}
    /\ At("session", "startSend") => rtp.tx # {}
    /\ At("session", "connectedMedia") => rtp.cb = "start"

(* Once the hangup has waited, the session starts nothing. *)
PastInv ==
    Past => /\ ~At("session", "startMark") /\ ~At("session", "startSend")
            /\ At("session", "startReady") => ~call.device

(* What the phone may have open, the driver knows to be open. *)
StreamInv ==
    /\ MayReceive => call.device /\ rtp.rx # {}
    /\ MaySend => call.device /\ rtp.tx # {}

(* What is closed, or about to be given up, is closed at the phone. *)
CloseInv ==
    \A t \in Thread :
        /\ At(t, "closed") => ~MayReceive
        /\ At(t, "stopped") => ~MaySend
        /\ In("unbind", todo[t]) /\ ~In("close", todo[t]) =>
              ~MayReceive /\ (~In("stop", todo[t]) => ~MaySend)

(* What is about to be recorded does not hide what the phone has open. *)
ResultInv ==
    /\ In("setTx", todo["session"]) => result # {}
    /\ In("setRx", todo["session"]) /\ ~In("getRx", todo["session"])
         /\ ~In("opened", todo["session"]) => (MayReceive => result # {})

(* The requests that the hangup waits for *)
Opens == Cardinality({i \in 1 .. Len(toPhone) : toPhone[i] = "open"})
Acks == Cardinality({i \in 1 .. Len(fromPhone) : fromPhone[i].what = "openAck"})
CountInv ==
    ~Past /\ ~call.gone =>
        inflight = Opens + Acks + IF In("answered", todo["session"]) THEN 1 ELSE 0

SilentInv ==
    /\ SessionStands /\ PbxStands /\ LockInv /\ HangupInv /\ HoldInv /\ BoundInv
    /\ PastInv /\ StreamInv /\ CloseInv /\ ResultInv /\ CountInv

(* An incoming call is not dialed. *)
DialInv == Calls \subseteq {"ringing"} => call.state # "dialing"

IInv == TypeInv /\ DialInv /\ (~call.redirected => SilentInv)

(* Every step is a step. *)
LEMMA AllSteps ==
    /\ "open" \in Step /\ "openMark" \in Step /\ "openSend" \in Step /\ "close" \in Step
    /\ "closed" \in Step /\ "stop" \in Step /\ "stopped" \in Step /\ "start" \in Step
    /\ "startReady" \in Step /\ "startMark" \in Step /\ "startSend" \in Step
    /\ "connected" \in Step /\ "connectedMedia" \in Step /\ "unbind" \in Step
    /\ "unlock" \in Step /\ "openAck" \in Step /\ "setPhone" \in Step /\ "opened" \in Step
    /\ "append" \in Step /\ "callback" \in Step /\ "getRx" \in Step /\ "setRx" \in Step
    /\ "answered" \in Step /\ "startAck" \in Step /\ "started" \in Step
    /\ "appendTx" \in Step /\ "setTx" \in Step /\ "answer" \in Step /\ "complete" \in Step
    /\ "completeLocked" \in Step /\ "hold" \in Step /\ "resume" \in Step
    /\ "resumeHeld" \in Step /\ "endcall" \in Step /\ "request" \in Step /\ "flag" \in Step
    /\ "wait" \in Step /\ "unlist" \in Step /\ "onhook" \in Step /\ "clean" \in Step
    /\ "gone" \in Step
  BY DEF Step

(* Stacks of steps *)
LEMMA StackFacts ==
    /\ <<>> \in Seq(Step) /\ \A x : ~In(x, <<>>)
    /\ \A h \in Step, r \in Seq(Step) :
          /\ On(h, r) \in Seq(Step) /\ On(h, r) # <<>>
          /\ Head(On(h, r)) = h /\ Tail(On(h, r)) = r
          /\ \A x : In(x, On(h, r)) <=> x = h \/ In(x, r)
<1>1. <<>> \in Seq(Step)
  OBVIOUS
<1> QED
  BY <1>1, OnFacts, Empty

(* The step a thread is at, and what it has yet to do under it *)
Stands(t, step, rest) ==
    /\ todo[t] # <<>> /\ Head(todo[t]) = step /\ Tail(todo[t]) = rest
    /\ step \in Step /\ rest \in Seq(Step)
    /\ \A x : In(x, todo[t]) <=> x = step \/ In(x, rest)

(* A stack made of a step and of what is under it *)
LEMMA Standing ==
    ASSUME NEW t \in Thread, NEW h \in Step, NEW r \in Seq(Step), todo[t] = On(h, r)
    PROVE  Stands(t, h, r)
<1>1. /\ On(h, r) # <<>> /\ Head(On(h, r)) = h /\ Tail(On(h, r)) = r
      /\ \A x : In(x, On(h, r)) <=> x = h \/ In(x, r)
  BY OnFacts
<1> QED
  BY <1>1 DEF Stands

(* The same of the stack after a step *)
LEMMA StandingNext ==
    ASSUME NEW t \in Thread, NEW h \in Step, NEW r \in Seq(Step), todo'[t] = On(h, r)
    PROVE  Stands(t, h, r)'
<1>1. /\ On(h, r) # <<>> /\ Head(On(h, r)) = h /\ Tail(On(h, r)) = r
      /\ \A x : In(x, On(h, r)) <=> x = h \/ In(x, r)
  BY OnFacts
<1> QED
  BY <1>1 DEF Stands

(* What is under the steps of the session *)
LEMMA RestTable ==
    /\ \A h \in {"answer", "resume", "resumeHeld", "startAck", "answered", "setTx"} :
          SessionRests(h) = {<<>>}
    /\ \A h \in {"hold", "unbind"} : SessionRests(h) = Held
    /\ \A h \in {"openAck", "setRx"} : SessionRests(h) = {Answering}
    /\ \A h \in {"opened", "getRx"} : SessionRests(h) = {Setting}
    /\ SessionRests("setPhone") = {On("opened", Setting)}
    /\ SessionRests("append") = {On("callback", Getting)}
    /\ \A h \in {"callback", "complete", "completeLocked"} : SessionRests(h) = {Getting}
    /\ \A h \in {"started", "appendTx"} : SessionRests(h) = {On("setTx", <<>>)}
    /\ \A h \in {"endcall", "request", "flag"} : SessionRests(h) = {<<>>} \cup Settled
    /\ \A h \in {"stop", "stopped"} : SessionRests(h) = StopRests
    /\ \A h \in {"close", "closed"} : SessionRests(h) = CloseRests
    /\ \A h \in {"start", "startReady", "startMark", "startSend"} : SessionRests(h) = StartRests
    /\ \A h \in {"open", "openMark", "openSend", "connectedMedia"} : SessionRests(h) = Unlocking
    /\ SessionRests("connected") = {On("connectedMedia", r) : r \in Unlocking}
    /\ SessionRests("unlock") = {<<>>, Getting}
  BY DEF SessionRests

(* Steps that take the place of one *)
LEMMA PushStep ==
    ASSUME NEW r \in Seq(Step)
    PROVE  /\ <<>> \o r = r
           /\ \A a \in Step : <<a>> \o r = On(a, r)
           /\ \A a, b \in Step : <<a, b>> \o r = On(a, On(b, r))
           /\ \A a, b, c \in Step : <<a, b, c>> \o r = On(a, On(b, On(c, r)))
           /\ \A a, b, c, d \in Step :
                 <<a, b, c, d>> \o r = On(a, On(b, On(c, On(d, r))))
  BY PushFacts

(* What the rests of a stack hold *)
LEMMA Contents ==
    /\ Answering \in Seq(Step) /\ \A x : In(x, Answering) <=> x = "answered"
    /\ Setting \in Seq(Step) /\ \A x : In(x, Setting) <=> x \in {"setRx", "answered"}
    /\ Getting \in Seq(Step) /\ \A x : In(x, Getting) <=> x \in {"getRx", "setRx", "answered"}
    /\ On("unlock", <<>>) \in Seq(Step) /\ \A x : In(x, On("unlock", <<>>)) <=> x = "unlock"
    /\ On("unlock", Getting) \in Seq(Step)
    /\ \A x : In(x, On("unlock", Getting)) <=> x \in {"unlock", "getRx", "setRx", "answered"}
    /\ On("setTx", <<>>) \in Seq(Step) /\ \A x : In(x, On("setTx", <<>>)) <=> x = "setTx"
    /\ On("resumeHeld", <<>>) \in Seq(Step)
    /\ \A x : In(x, On("resumeHeld", <<>>)) <=> x = "resumeHeld"
    /\ Completing \in Seq(Step)
    /\ \A x : In(x, Completing) <=>
          x \in {"connected", "connectedMedia", "unlock", "getRx", "setRx", "answered"}
<1>0. <<>> \in Seq(Step) /\ \A x : ~In(x, <<>>)
  BY StackFacts
<1>1. Answering \in Seq(Step) /\ \A x : In(x, Answering) <=> x = "answered"
  BY <1>0, AllSteps, OnFacts DEF Answering
<1>2. Setting \in Seq(Step) /\ \A x : In(x, Setting) <=> x \in {"setRx", "answered"}
  BY <1>1, AllSteps, OnFacts DEF Setting
<1>3. Getting \in Seq(Step) /\ \A x : In(x, Getting) <=> x \in {"getRx", "setRx", "answered"}
  BY <1>2, AllSteps, OnFacts DEF Getting
<1>4. On("unlock", <<>>) \in Seq(Step) /\ \A x : In(x, On("unlock", <<>>)) <=> x = "unlock"
  BY <1>0, AllSteps, OnFacts
<1>5. /\ On("unlock", Getting) \in Seq(Step)
      /\ \A x : In(x, On("unlock", Getting)) <=> x \in {"unlock", "getRx", "setRx", "answered"}
  BY <1>3, AllSteps, OnFacts
<1>6. On("setTx", <<>>) \in Seq(Step) /\ \A x : In(x, On("setTx", <<>>)) <=> x = "setTx"
  BY <1>0, AllSteps, OnFacts
<1>7. /\ On("resumeHeld", <<>>) \in Seq(Step)
      /\ \A x : In(x, On("resumeHeld", <<>>)) <=> x = "resumeHeld"
  BY <1>0, AllSteps, OnFacts
<1>8. PICK u \in Seq(Step) :
         /\ u = On("unlock", Getting)
         /\ \A x : In(x, u) <=> x \in {"unlock", "getRx", "setRx", "answered"}
  BY <1>5
<1>9. PICK r \in Seq(Step) :
         /\ r = On("connectedMedia", u)
         /\ \A x : In(x, r) <=> x \in {"connectedMedia", "unlock", "getRx", "setRx", "answered"}
  <2>1. "connectedMedia" \in Step
    BY AllSteps
  <2>2. /\ On("connectedMedia", u) \in Seq(Step)
        /\ \A x : In(x, On("connectedMedia", u)) <=> x = "connectedMedia" \/ In(x, u)
    BY <2>1, OnFacts
  <2> QED
    BY <1>8, <2>2
<1>10. PICK q \in Seq(Step) :
         /\ q = On("connected", r)
         /\ \A x : In(x, q) <=> x \in {"connected", "connectedMedia", "unlock", "getRx",
                                       "setRx", "answered"}
  <2>1. "connected" \in Step
    BY AllSteps
  <2>2. /\ On("connected", r) \in Seq(Step)
        /\ \A x : In(x, On("connected", r)) <=> x = "connected" \/ In(x, r)
    BY <2>1, OnFacts
  <2> QED
    BY <1>9, <2>2
<1>11. /\ Completing \in Seq(Step)
       /\ \A x : In(x, Completing) <=>
             x \in {"connected", "connectedMedia", "unlock", "getRx", "setRx", "answered"}
  BY <1>8, <1>9, <1>10 DEF Completing
<1> QED
  BY <1>1, <1>2, <1>3, <1>4, <1>5, <1>6, <1>7, <1>11

(* The thread of the session goes on: what is under the step, and what comes of it. *)
LEMMA SessionAt ==
    ASSUME StackType, SessionStands, NEW h, At("session", h)
    PROVE  \E r \in SessionRests(h) :
              /\ Stands("session", h, r)
              /\ \A steps : Then("session", steps) =>
                    todo'["session"] = steps \o r /\ todo'["pbx"] = todo["pbx"]
<1>1. PICK r \in Seq(Step) :
         /\ h \in Step /\ todo["session"] = On(h, r) /\ todo["session"] # <<>>
         /\ \A steps : Then("session", steps) => todo' = [todo EXCEPT !["session"] = steps \o r]
  BY GoesOn, PbxThread
<1>2. Stands("session", h, r)
  BY <1>1, Standing, PbxThread
<1>3. r \in SessionRests(h)
  BY <1>1, <1>2 DEF SessionStands, Idle, Stands
<1>4. \A steps : Then("session", steps) =>
         todo'["session"] = steps \o r /\ todo'["pbx"] = todo["pbx"]
  BY <1>1, PbxThread DEF StackType
<1> QED
  BY <1>2, <1>3, <1>4

(* What may be on top of the rest of a stack, and what is under it *)
Uncovered(h, r) ==
    \E k \in {"answered", "setRx", "getRx", "unlock", "setTx", "resumeHeld", "endcall",
              "unbind", "stop", "connected", "opened", "callback", "connectedMedia"} :
       \E q \in SessionRests(k) :
          /\ q \in Seq(Step) /\ r = On(k, q)
          /\ k = "connectedMedia" => h = "connected"

(* Under a step of the hold or of the answer that is about to unlock *)
LEMMA Unlockings ==
    ASSUME NEW h, NEW r \in Unlocking
    PROVE  r \in Seq(Step) /\ Uncovered(h, r)
<1>1. CASE r = On("unlock", <<>>)
  BY <1>1, Contents, StackFacts, RestTable DEF Uncovered
<1>2. CASE r = On("unlock", Getting)
  BY <1>2, Contents, RestTable DEF Uncovered
<1> QED
  BY <1>1, <1>2 DEF Unlocking

(* Under a step that starts the transmission *)
LEMMA Starts ==
    ASSUME NEW h, NEW r \in StartRests
    PROVE  r \in Seq(Step) /\ Uncovered(h, r) /\ ~In("unbind", r)
<1>1. CASE r = Getting
  <2>1. Setting \in SessionRests("getRx") /\ Setting \in Seq(Step)
    BY RestTable, Contents
  <2>2. Uncovered(h, r)
    BY <1>1, <2>1 DEF Uncovered, Getting
  <2>3. r \in Seq(Step) /\ \A x : In(x, r) <=> x \in {"getRx", "setRx", "answered"}
    BY <1>1, Contents
  <2> QED
    BY <2>2, <2>3
<1>2. CASE r = Completing
  <2>1. PICK u \in Seq(Step) : u = On("unlock", Getting) /\ u \in Unlocking
    BY Contents DEF Unlocking
  <2>2. "connectedMedia" \in Step
    BY AllSteps
  <2>3. PICK q \in Seq(Step) : q = On("connectedMedia", u)
    BY <2>2, OnFacts
  <2>4. q \in SessionRests("connected") /\ r = On("connected", q)
    BY <1>2, <2>1, <2>3, RestTable DEF Completing
  <2>5. Uncovered(h, r)
    BY <2>4 DEF Uncovered
  <2>6. /\ r \in Seq(Step)
        /\ \A x : In(x, r) <=>
              x \in {"connected", "connectedMedia", "unlock", "getRx", "setRx", "answered"}
    BY <1>2, Contents
  <2> QED
    BY <2>5, <2>6
<1>3. CASE r \in Unlocking
  <2>1. \A x : x = "unbind" => ~In(x, On("unlock", <<>>)) /\ ~In(x, On("unlock", Getting))
    BY Contents
  <2> QED
    BY <1>3, <2>1, Unlockings DEF Unlocking
<1> QED
  BY <1>1, <1>2, <1>3 DEF StartRests

(* Under a step that an acknowledgement put there *)
LEMMA Settleds ==
    ASSUME NEW h, NEW r \in Settled
    PROVE  r \in Seq(Step) /\ Uncovered(h, r) /\ ~In("unbind", r) /\ ~In("connected", r)
           /\ ~In("unlock", r) /\ ~In("resumeHeld", r) /\ ~In("close", r) /\ ~In("stop", r)
           /\ ~In("getRx", r) /\ ~In("opened", r)
<1>1. CASE r = Setting
  <2>1. Answering \in SessionRests("setRx") /\ Answering \in Seq(Step)
    BY RestTable, Contents
  <2>2. Uncovered(h, r)
    BY <1>1, <2>1 DEF Uncovered, Setting
  <2>3. r \in Seq(Step) /\ \A x : In(x, r) <=> x \in {"setRx", "answered"}
    BY <1>1, Contents
  <2> QED
    BY <2>2, <2>3
<1>2. CASE r = On("setTx", <<>>)
  <2>1. <<>> \in SessionRests("setTx") /\ <<>> \in Seq(Step)
    BY RestTable, StackFacts
  <2>2. Uncovered(h, r)
    BY <1>2, <2>1 DEF Uncovered
  <2>3. r \in Seq(Step) /\ \A x : In(x, r) <=> x = "setTx"
    BY <1>2, Contents
  <2> QED
    BY <2>2, <2>3
<1> QED
  BY <1>1, <1>2 DEF Settled

(* Under a step that holds the call *)
LEMMA Helds ==
    ASSUME NEW h, NEW r \in Held
    PROVE  r \in Seq(Step) /\ (r = <<>> \/ Uncovered(h, r))
           /\ \A x : In(x, r) => x = "resumeHeld"
<1>1. CASE r = <<>>
  BY <1>1, StackFacts
<1>2. CASE r = On("resumeHeld", <<>>)
  BY <1>2, Contents, StackFacts, RestTable DEF Uncovered
<1> QED
  BY <1>1, <1>2 DEF Held

(* Under a step that stops the transmission *)
LEMMA Stops ==
    ASSUME NEW h, NEW r \in StopRests
    PROVE  r \in Seq(Step) /\ Uncovered(h, r)
           /\ ~In("close", r) /\ ~In("stop", r) /\ ~In("connected", r)
           /\ ~In("getRx", r) /\ ~In("opened", r)
<1>1. CASE r \in Settled
  BY <1>1, Settleds
<1>2. CASE \E e \in Settled : r = On("endcall", e)
  <2>1. PICK e \in Settled : r = On("endcall", e)
    BY <1>2
  <2>2. "endcall" \in Step /\ e \in Seq(Step)
    BY Settleds, AllSteps
  <2>3. r \in Seq(Step) /\ \A x : In(x, r) <=> x = "endcall" \/ In(x, e)
    BY <2>1, <2>2, OnFacts
  <2>4. e \in SessionRests("endcall")
    BY RestTable
  <2>5. Uncovered(h, r)
    BY <2>1, <2>2, <2>4 DEF Uncovered
  <2> QED
    BY <2>3, <2>5, Settleds
<1>3. CASE \E e \in Held : r = On("unbind", e)
  <2>1. PICK e \in Held : r = On("unbind", e)
    BY <1>3
  <2>2. "unbind" \in Step /\ e \in Seq(Step) /\ \A x : In(x, e) => x = "resumeHeld"
    BY Helds, AllSteps
  <2>3. r \in Seq(Step) /\ \A x : In(x, r) <=> x = "unbind" \/ In(x, e)
    BY <2>1, <2>2, OnFacts
  <2>4. e \in SessionRests("unbind")
    BY RestTable
  <2> QED
    BY <2>1, <2>2, <2>3, <2>4 DEF Uncovered
<1> QED
  BY <1>1, <1>2, <1>3 DEF StopRests

(* Under a step that closes the reception *)
LEMMA Closes ==
    ASSUME NEW h, NEW r \in CloseRests
    PROVE  r \in Seq(Step) /\ Uncovered(h, r) /\ ~In("close", r)
           /\ (In("unbind", r) => In("stop", r))
<1>1. CASE r \in StartRests
  <2>1. \A x : x = "close" => ~In(x, Getting) /\ ~In(x, Completing)
               /\ ~In(x, On("unlock", <<>>)) /\ ~In(x, On("unlock", Getting))
    BY Contents
  <2>2. ~In("close", r)
    BY <1>1, <2>1 DEF StartRests, Unlocking
  <2> QED
    BY <1>1, <2>2, Starts
<1>2. CASE \E e \in StopRests : r = On("stop", e)
  <2>1. PICK e \in StopRests : r = On("stop", e)
    BY <1>2
  <2>2. "stop" \in Step /\ e \in Seq(Step) /\ ~In("close", e)
    BY Stops, AllSteps
  <2>3. r \in Seq(Step) /\ \A x : In(x, r) <=> x = "stop" \/ In(x, e)
    BY <2>1, <2>2, OnFacts
  <2>4. e \in SessionRests("stop")
    BY RestTable
  <2> QED
    BY <2>1, <2>2, <2>3, <2>4 DEF Uncovered
<1> QED
  BY <1>1, <1>2 DEF CloseRests

(* The first step is over. *)
LEMMA Popping ==
    ASSUME NEW h, NEW r \in Seq(Step), todo'["session"] = r, r = <<>> \/ Uncovered(h, r)
    PROVE  /\ SessionStands'
           /\ r # <<>> => /\ Head(r) \notin {"openMark", "openSend", "startMark", "startSend",
                                             "startReady", "closed", "stopped"}
                          /\ Head(r) = "connectedMedia" => h = "connected"
<1>1. CASE r = <<>>
  BY <1>1 DEF SessionStands, Idle
<1>2. CASE Uncovered(h, r)
  <2>1. PICK k \in {"answered", "setRx", "getRx", "unlock", "setTx", "resumeHeld", "endcall",
                    "unbind", "stop", "connected", "opened", "callback", "connectedMedia"} :
               \E q \in SessionRests(k) :
                  q \in Seq(Step) /\ r = On(k, q) /\ (k = "connectedMedia" => h = "connected")
    BY <1>2 DEF Uncovered
  <2>4. PICK q \in SessionRests(k) :
               q \in Seq(Step) /\ r = On(k, q) /\ (k = "connectedMedia" => h = "connected")
    BY <2>1
  <2>2. k \in Step
    BY <2>1, AllSteps
  <2>3. Head(r) = k /\ Tail(r) = q
    BY <2>4, <2>2, OnFacts
  <2> QED
    BY <2>1, <2>3, <2>4 DEF SessionStands, Idle
<1> QED
  BY <1>1, <1>2

(* What is on its way does not change. *)
LEMMA NoMessage ==
    ASSUME UNCHANGED <<toPhone, fromPhone, phone>>
    PROVE  /\ (MayReceive' <=> MayReceive) /\ (MaySend' <=> MaySend)
           /\ Opens' = Opens /\ Acks' = Acks
  BY DEF MayReceive, MaySend, Opens, Acks

(* Another message is sent. *)
LEMMA Sending ==
    ASSUME TypeOK, NEW m \in {"open", "close", "start", "stop"}, Send(m), UNCHANGED phone
    PROVE  /\ m = "open" => (MaySend' <=> MaySend)
           /\ m = "close" => ~MayReceive' /\ (MaySend' <=> MaySend)
           /\ m = "start" => (MayReceive' <=> MayReceive)
           /\ m = "stop" => ~MaySend' /\ (MayReceive' <=> MayReceive)
<1> DEFINE n == Len(toPhone)
<1>1. /\ n \in Nat /\ Len(toPhone') = n + 1 /\ toPhone'[n + 1] = m
      /\ \A i \in 1 .. n : toPhone'[i] = toPhone[i]
  BY DEF TypeOK, Send
<1> HIDE DEF n
<1>2. 1 .. n + 1 = (1 .. n) \cup {n + 1} /\ \A i \in 1 .. n : i \in 1 .. n + 1
  BY <1>1
<1>3. \A i \in 1 .. n : i .. n + 1 = (i .. n) \cup {n + 1}
  BY <1>1
<1>4. (n + 1) .. (n + 1) = {n + 1}
  BY <1>1
<1>5. \A i \in 1 .. n : \A j \in i .. n : j \in 1 .. n
  BY <1>1
<1>6. /\ MayReceive <=>
           \/ phone.rx /\ \A i \in 1 .. n : toPhone[i] # "close"
           \/ \E i \in 1 .. n : toPhone[i] = "open" /\ \A j \in i .. n : toPhone[j] # "close"
      /\ MaySend <=>
           \/ phone.tx /\ \A i \in 1 .. n : toPhone[i] # "stop"
           \/ \E i \in 1 .. n : toPhone[i] = "start" /\ \A j \in i .. n : toPhone[j] # "stop"
  BY DEF MayReceive, MaySend, n
<1>7. /\ MayReceive' <=>
           \/ phone.rx /\ m # "close" /\ \A i \in 1 .. n : toPhone'[i] # "close"
           \/ \E i \in 1 .. n : toPhone'[i] = "open" /\ m # "close"
                                /\ \A j \in i .. n : toPhone'[j] # "close"
           \/ m = "open"
      /\ MaySend' <=>
           \/ phone.tx /\ m # "stop" /\ \A i \in 1 .. n : toPhone'[i] # "stop"
           \/ \E i \in 1 .. n : toPhone'[i] = "start" /\ m # "stop"
                                /\ \A j \in i .. n : toPhone'[j] # "stop"
           \/ m = "start"
  BY <1>1, <1>2, <1>3, <1>4 DEF MayReceive, MaySend
<1>8. \A i \in 1 .. n : \A j \in i .. n : toPhone'[j] = toPhone[j]
  BY <1>1, <1>5
<1>9. /\ MayReceive' <=>
           \/ phone.rx /\ m # "close" /\ \A i \in 1 .. n : toPhone[i] # "close"
           \/ \E i \in 1 .. n : toPhone[i] = "open" /\ m # "close"
                                /\ \A j \in i .. n : toPhone[j] # "close"
           \/ m = "open"
      /\ MaySend' <=>
           \/ phone.tx /\ m # "stop" /\ \A i \in 1 .. n : toPhone[i] # "stop"
           \/ \E i \in 1 .. n : toPhone[i] = "start" /\ m # "stop"
                                /\ \A j \in i .. n : toPhone[j] # "stop"
           \/ m = "start"
  BY <1>1, <1>7, <1>8
<1> QED
  BY <1>6, <1>9

(* Both are closed at once. *)
LEMMA SendingBoth ==
    ASSUME TypeOK, toPhone' = toPhone \o <<"close", "stop">>, UNCHANGED phone
    PROVE  ~MayReceive' /\ ~MaySend'
<1>1. PICK n \in Nat : n = Len(toPhone)
  BY DEF TypeOK
<1>2. /\ Len(toPhone') = n + 2 /\ toPhone'[n + 1] = "close" /\ toPhone'[n + 2] = "stop"
      /\ \A i \in 1 .. n : toPhone'[i] = toPhone[i]
  BY <1>1 DEF TypeOK
<1>3. /\ n + 1 \in 1 .. n + 2 /\ n + 2 \in 1 .. n + 2
      /\ \A i \in 1 .. n + 2 : i = n + 2 \/ n + 1 \in i .. n + 2
      /\ \A i \in 1 .. n + 2 : n + 2 \in i .. n + 2
  OBVIOUS
<1>4. ~MayReceive'
  BY <1>2, <1>3 DEF MayReceive
<1>5. ~MaySend'
  BY <1>2, <1>3 DEF MaySend
<1> QED
  BY <1>4, <1>5

(* Positions are finite in number. *)
LEMMA CountAppend ==
    ASSUME NEW n \in Nat, NEW A \in SUBSET (1 .. n)
    PROVE  Cardinality(A) \in Nat /\ Cardinality(A \cup {n + 1}) = Cardinality(A) + 1
<1>1. IsFiniteSet(1 .. n)
  BY FS_Interval
<1>2. IsFiniteSet(A)
  BY <1>1, FS_Subset
<1>3. n + 1 \notin A
  OBVIOUS
<1> QED
  BY <1>2, <1>3, FS_AddElement, FS_CardinalityType

(* The first of them goes, the others move up. *)
LEMMA CountTail ==
    ASSUME NEW n \in Nat \ {0}, NEW A \in SUBSET (1 .. n),
           NEW B, B = {i \in 1 .. n - 1 : i + 1 \in A}
    PROVE  Cardinality(B) \in Nat
           /\ Cardinality(A) = Cardinality(B) + IF 1 \in A THEN 1 ELSE 0
<1>1. IsFiniteSet(1 .. n) /\ IsFiniteSet(1 .. n - 1)
  BY FS_Interval
<1>2. IsFiniteSet(A) /\ IsFiniteSet(B)
  BY <1>1, FS_Subset
<1> DEFINE f == [i \in B |-> i + 1]
<1>3. f \in Surjection(B, A \ {1})
  <2>1. f \in [B -> A \ {1}]
    OBVIOUS
  <2>2. ASSUME NEW a \in A \ {1} PROVE \E i \in B : f[i] = a
    <3>1. a - 1 \in B /\ (a - 1) + 1 = a
      OBVIOUS
    <3> QED
      BY <3>1
  <2> QED
    BY <2>1, <2>2 DEF Surjection
<1>4. f \in Injection(B, A \ {1})
  <2>1. f \in [B -> A \ {1}]
    OBVIOUS
  <2>2. ASSUME NEW i \in B, NEW j \in B, f[i] = f[j] PROVE i = j
    BY <2>2
  <2> QED
    BY <2>1, <2>2 DEF Injection, IsInjective
<1>5. Cardinality(A \ {1}) = Cardinality(B)
  <2> HIDE DEF f
  <2> QED
    BY <1>2, <1>3, <1>4, FS_Surjection
<1>6. Cardinality(A) \in Nat /\ Cardinality(B) \in Nat
  BY <1>2, FS_CardinalityType
<1>7. Cardinality(A \ {1}) = IF 1 \in A THEN Cardinality(A) - 1 ELSE Cardinality(A)
  BY <1>2, FS_RemoveElement
<1> QED
  BY <1>5, <1>6, <1>7

(* How many requests are not answered yet *)
LEMMA CountTypes ==
    ASSUME TypeOK
    PROVE  Opens \in Nat /\ Acks \in Nat
<1>1. Len(toPhone) \in Nat /\ Len(fromPhone) \in Nat
  BY DEF TypeOK
<1>2. {i \in 1 .. Len(toPhone) : toPhone[i] = "open"} \in SUBSET (1 .. Len(toPhone))
  OBVIOUS
<1>3. {i \in 1 .. Len(fromPhone) : fromPhone[i].what = "openAck"} \in SUBSET (1 .. Len(fromPhone))
  OBVIOUS
<1> QED
  BY <1>1, <1>2, <1>3, CountAppend DEF Opens, Acks

(* A message more for the phone *)
LEMMA CountSend ==
    ASSUME TypeOK, NEW m \in {"open", "close", "start", "stop"}, Send(m)
    PROVE  Opens' = Opens + IF m = "open" THEN 1 ELSE 0
<1>1. PICK n \in Nat : n = Len(toPhone)
  BY DEF TypeOK
<1>2. /\ Len(toPhone') = n + 1 /\ toPhone'[n + 1] = m
      /\ \A i \in 1 .. n : toPhone'[i] = toPhone[i]
  BY <1>1 DEF TypeOK, Send
<1>3. PICK A \in SUBSET (1 .. n) : A = {i \in 1 .. n : toPhone[i] = "open"}
  OBVIOUS
<1>4. PICK B : B = {i \in 1 .. n + 1 : toPhone'[i] = "open"}
  OBVIOUS
<1>5. B = IF m = "open" THEN A \cup {n + 1} ELSE A
  BY <1>2, <1>3, <1>4
<1>6. Opens = Cardinality(A) /\ Opens' = Cardinality(B)
  BY <1>1, <1>2, <1>3, <1>4 DEF Opens
<1>7. Cardinality(A) \in Nat /\ Cardinality(A \cup {n + 1}) = Cardinality(A) + 1
  BY CountAppend
<1> QED
  BY <1>5, <1>6, <1>7

(* A message less for the phone *)
LEMMA CountTake ==
    ASSUME TypeOK, toPhone # <<>>, toPhone' = Tail(toPhone)
    PROVE  Opens = Opens' + (IF Head(toPhone) = "open" THEN 1 ELSE 0) /\ Opens' \in Nat
<1>1. PICK n \in Nat \ {0} : n = Len(toPhone)
  BY EmptySeq DEF TypeOK
<1>2. /\ Len(toPhone') = n - 1 /\ Head(toPhone) = toPhone[1]
      /\ \A i \in 1 .. n - 1 : toPhone'[i] = toPhone[i + 1]
  BY <1>1, HeadTailProperties DEF TypeOK
<1>3. PICK A \in SUBSET (1 .. n) : A = {i \in 1 .. n : toPhone[i] = "open"}
  OBVIOUS
<1>4. PICK B : B = {i \in 1 .. n - 1 : toPhone'[i] = "open"}
  OBVIOUS
<1>5. B = {i \in 1 .. n - 1 : i + 1 \in A}
  BY <1>2, <1>3, <1>4
<1>6. Opens = Cardinality(A) /\ Opens' = Cardinality(B)
  BY <1>1, <1>2, <1>3, <1>4 DEF Opens
<1>7. 1 \in A <=> Head(toPhone) = "open"
  BY <1>2, <1>3
<1> QED
  BY <1>5, <1>6, <1>7, CountTail

(* A message more from the phone *)
LEMMA CountTell ==
    ASSUME TypeOK, NEW m \in Ack \cup Key, fromPhone' = Append(fromPhone, m)
    PROVE  Acks' = Acks + IF m.what = "openAck" THEN 1 ELSE 0
<1>1. PICK n \in Nat : n = Len(fromPhone)
  BY DEF TypeOK
<1>2. /\ Len(fromPhone') = n + 1 /\ fromPhone'[n + 1] = m
      /\ \A i \in 1 .. n : fromPhone'[i] = fromPhone[i]
  BY <1>1 DEF TypeOK
<1>3. PICK A \in SUBSET (1 .. n) : A = {i \in 1 .. n : fromPhone[i].what = "openAck"}
  OBVIOUS
<1>4. PICK B : B = {i \in 1 .. n + 1 : fromPhone'[i].what = "openAck"}
  OBVIOUS
<1>5. B = IF m.what = "openAck" THEN A \cup {n + 1} ELSE A
  BY <1>2, <1>3, <1>4
<1>6. Acks = Cardinality(A) /\ Acks' = Cardinality(B)
  BY <1>1, <1>2, <1>3, <1>4 DEF Acks
<1>7. Cardinality(A) \in Nat /\ Cardinality(A \cup {n + 1}) = Cardinality(A) + 1
  BY CountAppend
<1> QED
  BY <1>5, <1>6, <1>7

(* A message less from the phone *)
LEMMA CountHandle ==
    ASSUME TypeOK, fromPhone # <<>>, fromPhone' = Tail(fromPhone)
    PROVE  Acks = Acks' + (IF Head(fromPhone).what = "openAck" THEN 1 ELSE 0) /\ Acks' \in Nat
<1>1. PICK n \in Nat \ {0} : n = Len(fromPhone)
  BY EmptySeq DEF TypeOK
<1>2. /\ Len(fromPhone') = n - 1 /\ Head(fromPhone) = fromPhone[1]
      /\ \A i \in 1 .. n - 1 : fromPhone'[i] = fromPhone[i + 1]
  BY <1>1, HeadTailProperties DEF TypeOK
<1>3. PICK A \in SUBSET (1 .. n) : A = {i \in 1 .. n : fromPhone[i].what = "openAck"}
  OBVIOUS
<1>4. PICK B : B = {i \in 1 .. n - 1 : fromPhone'[i].what = "openAck"}
  OBVIOUS
<1>5. B = {i \in 1 .. n - 1 : i + 1 \in A}
  BY <1>2, <1>3, <1>4
<1>6. Acks = Cardinality(A) /\ Acks' = Cardinality(B)
  BY <1>1, <1>2, <1>3, <1>4 DEF Acks
<1>7. 1 \in A <=> Head(fromPhone).what = "openAck"
  BY <1>2, <1>3
<1> QED
  BY <1>5, <1>6, <1>7, CountTail


(* Closing and stopping ask for no new answer. *)
LEMMA CountBoth ==
    ASSUME TypeOK, toPhone' = toPhone \o <<"close", "stop">>
    PROVE  Opens' = Opens
<1>1. PICK n \in Nat : n = Len(toPhone)
  BY DEF TypeOK
<1>2. /\ Len(toPhone') = n + 2 /\ toPhone'[n + 1] = "close" /\ toPhone'[n + 2] = "stop"
      /\ \A i \in 1 .. n : toPhone'[i] = toPhone[i]
  BY <1>1 DEF TypeOK
<1>3. \A i \in 1 .. n + 2 : i \in 1 .. n \/ i = n + 1 \/ i = n + 2
  OBVIOUS
<1>4. {i \in 1 .. n : toPhone[i] = "open"} = {i \in 1 .. n + 2 : toPhone'[i] = "open"}
  BY <1>2, <1>3
<1> QED
  BY <1>1, <1>2, <1>4 DEF Opens
(* Whatever a step of the session leaves is a stack. *)
LEMMA RestsUncovered ==
    ASSUME NEW h, NEW r \in SessionRests(h)
    PROVE  r \in Seq(Step) /\ (r = <<>> \/ Uncovered(h, r))
<1>1. CASE h \in {"answer", "resume", "resumeHeld", "startAck", "answered", "setTx"}
  <2>1. SessionRests(h) = {<<>>} /\ <<>> \in Seq(Step)
    BY <1>1, RestTable, StackFacts
  <2> QED
    BY <2>1
<1>2. CASE h \in {"hold", "unbind"}
  BY <1>2, RestTable, Helds
<1>3. CASE h \in {"openAck", "setRx"}
  <2>1. r = Answering /\ <<>> \in SessionRests("answered") /\ <<>> \in Seq(Step)
    BY <1>3, RestTable, StackFacts
  <2>2. Uncovered(h, r)
    BY <2>1 DEF Answering, Uncovered
  <2> QED
    BY <2>1, <2>2, Contents
<1>4. CASE h \in {"opened", "getRx"}
  BY <1>4, RestTable, Settleds DEF Settled
<1>5. CASE h = "setPhone"
  <2>1. r = On("opened", Setting) /\ Setting \in SessionRests("opened") /\ Setting \in Seq(Step)
    BY <1>5, RestTable, Contents
  <2>2. "opened" \in Step
    BY AllSteps
  <2>3. r \in Seq(Step)
    BY <2>1, <2>2, OnFacts
  <2> QED
    BY <2>1, <2>3 DEF Uncovered
<1>6. CASE h = "append"
  <2>1. /\ r = On("callback", Getting) /\ Getting \in SessionRests("callback")
        /\ Getting \in Seq(Step)
    BY <1>6, RestTable, Contents
  <2>2. "callback" \in Step
    BY AllSteps
  <2>3. r \in Seq(Step)
    BY <2>1, <2>2, OnFacts
  <2> QED
    BY <2>1, <2>3 DEF Uncovered
<1>7. CASE h \in {"callback", "complete", "completeLocked"}
  BY <1>7, RestTable, Starts DEF StartRests
<1>8. CASE h \in {"started", "appendTx"}
  BY <1>8, RestTable, Settleds DEF Settled
<1>9. CASE h \in {"endcall", "request", "flag"}
  BY <1>9, RestTable, Settleds, StackFacts
<1>10. CASE h \in {"stop", "stopped"}
  BY <1>10, RestTable, Stops
<1>11. CASE h \in {"close", "closed"}
  BY <1>11, RestTable, Closes
<1>12. CASE h \in {"start", "startReady", "startMark", "startSend"}
  BY <1>12, RestTable, Starts
<1>13. CASE h \in {"open", "openMark", "openSend", "connectedMedia"}
  BY <1>13, RestTable, Unlockings
<1>14. CASE h = "connected"
  <2>1. PICK u \in Unlocking : r = On("connectedMedia", u)
    BY <1>14, RestTable
  <2>2. u \in SessionRests("connectedMedia") /\ u \in Seq(Step) /\ "connectedMedia" \in Step
    BY RestTable, Unlockings, AllSteps
  <2>3. r \in Seq(Step)
    BY <2>1, <2>2, OnFacts
  <2> QED
    BY <1>14, <2>1, <2>2, <2>3 DEF Uncovered
<1>15. CASE h = "unlock"
  BY <1>15, RestTable, Starts, StackFacts DEF StartRests
<1> QED
  BY <1>1, <1>2, <1>3, <1>4, <1>5, <1>6, <1>7, <1>8, <1>9, <1>10, <1>11, <1>12, <1>13, <1>14,
     <1>15 DEF SessionRests


(* What is under the steps that open and start *)
LEMMA UnlockingHas ==
    ASSUME NEW r \in Unlocking
    PROVE  /\ In("unlock", r) /\ (In("setRx", r) => In("getRx", r))
           /\ \A x \in {"unbind", "close", "stop", "setTx", "opened", "connected"} : ~In(x, r)
<1>1. \A x : In(x, On("unlock", <<>>)) <=> x = "unlock"
  BY Contents
<1>2. \A x : In(x, On("unlock", Getting)) <=> x \in {"unlock", "getRx", "setRx", "answered"}
  BY Contents
<1>3. CASE r = On("unlock", <<>>)
  BY <1>1, <1>3
<1>4. CASE r = On("unlock", Getting)
  BY <1>2, <1>4
<1> QED
  BY <1>3, <1>4 DEF Unlocking

(* What is not under a step that starts the transmission *)
LEMMA StartHas ==
    ASSUME NEW r \in StartRests
    PROVE  /\ In("setRx", r) => In("getRx", r)
           /\ \A x \in {"unbind", "close", "stop", "setTx", "opened"} : ~In(x, r)
<1>1. \A x : In(x, Getting) <=> x \in {"getRx", "setRx", "answered"}
  BY Contents
<1>2. \A x : In(x, Completing) <=>
         x \in {"connected", "connectedMedia", "unlock", "getRx", "setRx", "answered"}
  BY Contents
<1>3. CASE r = Getting
  BY <1>1, <1>3
<1>4. CASE r = Completing
  BY <1>2, <1>4
<1>5. CASE r \in Unlocking
  BY <1>5, UnlockingHas
<1> QED
  BY <1>3, <1>4, <1>5 DEF StartRests

(* Steps put together *)
LEMMA Together ==
    ASSUME NEW S
    PROVE  /\ \A a, b, c \in S : <<a, b>> \o <<c>> = <<a, b, c>>
           /\ \A a, b, c, d \in S : <<a, b, c>> \o <<d>> = <<a, b, c, d>>
<1>1. ASSUME NEW a \in S, NEW b \in S PROVE <<a>> \o <<b>> = <<a, b>>
  <2>1. <<a>> \o <<b>> \in Seq(S) /\ <<a, b>> \in Seq(S)
    OBVIOUS
  <2>2. Len(<<a, b>>) = 2 /\ Len(<<a>> \o <<b>>) = 2
    OBVIOUS
  <2>3. \A i \in 1 .. 2 : <<a, b>>[i] = (<<a>> \o <<b>>)[i]
    OBVIOUS
  <2> QED
    BY <2>1, <2>2, <2>3, SeqEqual
<1>2. ASSUME NEW a \in S, NEW b \in S, NEW c \in S PROVE <<a, b, c>> = <<a>> \o <<b, c>>
  BY <1>2
<1>4. \A a \in S : \A s, q \in Seq(S) : (<<a>> \o s) \o q = <<a>> \o (s \o q)
  BY ConcatAssociative
<1>5. ASSUME NEW a \in S, NEW b \in S, NEW c \in S
      PROVE  <<a, b>> \o <<c>> = <<a, b, c>>
  <2>1. <<b>> \in Seq(S) /\ <<c>> \in Seq(S)
    OBVIOUS
  <2>2. (<<a>> \o <<b>>) \o <<c>> = <<a>> \o (<<b>> \o <<c>>)
    BY <1>4, <2>1
  <2>3. <<a>> \o <<b>> = <<a, b>> /\ <<b>> \o <<c>> = <<b, c>>
    BY <1>1
  <2>4. <<a>> \o <<b, c>> = <<a, b, c>>
    BY <1>2
  <2> QED
    BY <2>2, <2>3, <2>4
<1>6. ASSUME NEW a \in S, NEW b \in S, NEW c \in S, NEW d \in S
      PROVE  <<a, b, c>> \o <<d>> = <<a, b, c, d>>
  <2>1. <<b, c>> \in Seq(S) /\ <<d>> \in Seq(S)
    OBVIOUS
  <2>2. (<<a>> \o <<b, c>>) \o <<d>> = <<a>> \o (<<b, c>> \o <<d>>)
    BY <1>4, <2>1
  <2>3. <<a>> \o <<b, c>> = <<a, b, c>>
    BY <1>2
  <2>5. <<a, b, c, d>> = <<a>> \o <<b, c, d>>
    OBVIOUS
  <2>4. <<b, c>> \o <<d>> = <<b, c, d>>
    BY <1>5
  <2> QED
    BY <2>2, <2>3, <2>4, <2>5
<1> QED
  BY <1>5, <1>6

(* What a refused stream comes to, and what holding a call takes *)
LEMMA RefusedIs ==
    \A s \in Step : \/ Refused \o <<s>> = <<"close", "stop", s>>
                     \/ Refused \o <<s>> = <<"close", "stop", "endcall", s>>
<1>1. TAKE s \in Step
<1>2. PICK a \in Step, b \in Step, c \in Step : a = "close" /\ b = "stop" /\ c = "endcall"
  BY AllSteps
<1>3. <<a, b>> \o <<s>> = <<a, b, s>> /\ <<a, b>> \o <<c>> = <<a, b, c>>
      /\ <<a, b, c>> \o <<s>> = <<a, b, c, s>>
  BY Together
<1>4. Refused = <<a, b, c>> \/ Refused = <<a, b>>
  BY <1>2, <1>3 DEF Refused, CloseAll
<1> QED
  BY <1>2, <1>3, <1>4

(* What holding a call does *)
LEMMA HoldIs == HoldSteps = <<"close", "stop", "unbind">>
<1>1. PICK a \in Step, b \in Step, c \in Step : a = "close" /\ b = "stop" /\ c = "unbind"
  BY AllSteps
<1>2. <<a, b>> \o <<c>> = <<a, b, c>>
  BY Together
<1> QED
  BY <1>1, <1>2 DEF HoldSteps, CloseAll
(* What the hangup has yet to do while it waits *)
LEMMA WaitCloses ==
    ASSUME StackType, PbxStands, ~Past
    PROVE  In("unbind", todo["pbx"]) => In("close", todo["pbx"])
<1>1. CASE Idle("pbx")
  BY <1>1, StackFacts DEF Idle
<1>2. CASE At("pbx", "wait")
  <2>1. todo["pbx"] \in Seq(Step) /\ todo["pbx"] # <<>> /\ Head(todo["pbx"]) = "wait"
    BY <1>2, PbxThread DEF StackType, At
  <2>2. PICK r \in Seq(Step) : r = Tail(todo["pbx"]) /\ todo["pbx"] = On("wait", r)
    BY <2>1, Unfold
  <2>3. r = On("close", On("stop", Unlisting))
    BY <2>1, <2>2 DEF PbxStands, PbxRests, Idle
  <2>4. Unlisting \in Seq(Step)
    <3>1. <<>> \in Seq(Step)
      OBVIOUS
    <3>2. On("gone", On("unlock", <<>>)) \in Seq(Step)
      BY <3>1, AllSteps, OnFacts
    <3>3. Cleaning \in Seq(Step)
      BY <3>2, AllSteps, OnFacts DEF Cleaning, Leaving
    <3> QED
      BY <3>3, AllSteps, OnFacts DEF Unlisting
  <2>5. On("stop", Unlisting) \in Seq(Step)
    BY <2>4, AllSteps, OnFacts
  <2>6. In("close", r)
    BY <2>3, <2>5, AllSteps, OnFacts
  <2>7. "wait" \in Step
    BY AllSteps
  <2>8. \A x : In(x, On("wait", r)) <=> x = "wait" \/ In(x, r)
    BY <2>7, OnFacts
  <2> QED
    BY <2>2, <2>6, <2>8
<1> QED
  BY <1>1, <1>2 DEF Past

(* The session opens. *)
LEMMA OpenKeeps ==
    ASSUME TypeInv, SilentInv, Open("session")
    PROVE  SilentInv'
<1> USE DEF TypeInv, SilentInv
<1>1. At("session", "open")
  BY DEF Open
<1>2. PICK r \in SessionRests("open") :
         /\ Stands("session", "open", r)
         /\ \A steps : Then("session", steps) =>
               todo'["session"] = steps \o r /\ todo'["pbx"] = todo["pbx"]
  BY <1>1, SessionAt
<1>3. r \in Seq(Step)
  BY <1>2 DEF Stands
<1>4. lock' = lock /\ result' = result /\ inflight' = inflight /\ call' = call /\ rtp' = rtp
  BY DEF Open, nothing
<1>5. (MayReceive' <=> MayReceive) /\ (MaySend' <=> MaySend) /\ Opens' = Opens /\ Acks' = Acks
  BY NoMessage DEF Open, nothing
<1>6. CASE Done("session")
  <2>1. todo'["session"] = r /\ todo'["pbx"] = todo["pbx"]
    BY <1>6, <1>2, <1>3, PushStep DEF Done
  <2>2. /\ SessionStands'
        /\ r # <<>> => /\ Head(r) \notin {"openMark", "openSend", "startMark", "startSend",
                                          "startReady", "closed", "stopped"}
                       /\ Head(r) # "connectedMedia"
    BY <1>2, <1>3, <2>1, RestsUncovered, Popping
  <2> QED
    BY <1>2, <1>3, <1>4, <1>5, <1>6, <2>1, <2>2 DEF SessionStands, PbxStands, LockInv,
       HangupInv, HoldInv, BoundInv, PastInv, Past, StreamInv, CloseInv, ResultInv, CountInv,
       Stands, At, Idle, Thread
<1>7. CASE call.device /\ Then("session", <<"openMark">>)
  <2>1. todo'["session"] = <<"openMark">> \o r /\ todo'["pbx"] = todo["pbx"]
    BY <1>7, <1>2
  <2>2. "openMark" \in Step
    BY AllSteps
  <2>3. <<"openMark">> \o r = On("openMark", r)
    BY <1>3, <2>2, PushStep
  <2>4. Stands("session", "openMark", r)'
    BY <1>3, <2>1, <2>3, <2>2, <1>3, StandingNext, PbxThread
  <2>5. r \in SessionRests("openMark")
    BY <1>2, RestTable
  <2> QED
    BY <1>2, <1>3, <1>4, <1>5, <1>7, <2>1, <2>4, <2>5 DEF SessionStands, PbxStands, LockInv,
       HangupInv, HoldInv, BoundInv, PastInv, Past, StreamInv, CloseInv, ResultInv, CountInv,
       Stands, At, Idle, Thread
<1> QED
  BY <1>6, <1>7 DEF Open, nothing, Done

(* The PBX refuses the stream. *)
LEMMA OpenFailsKeeps ==
    ASSUME TypeInv, SilentInv, OpenFails("session")
    PROVE  SilentInv'
<1> USE DEF TypeInv, SilentInv
<1>1. At("session", "openMark")
  BY DEF OpenFails
<1>2. PICK r \in SessionRests("openMark") :
         /\ Stands("session", "openMark", r)
         /\ \A steps : Then("session", steps) =>
               todo'["session"] = steps \o r /\ todo'["pbx"] = todo["pbx"]
  BY <1>1, SessionAt
<1>3. r \in Seq(Step)
  BY <1>2 DEF Stands
<1>4. lock' = lock /\ result' = result /\ inflight' = inflight /\ call' = call /\ rtp' = rtp
  BY DEF OpenFails, nothing
<1>5. (MayReceive' <=> MayReceive) /\ (MaySend' <=> MaySend) /\ Opens' = Opens /\ Acks' = Acks
  BY NoMessage DEF OpenFails, nothing
<1>6. CASE Done("session")
  <2>1. todo'["session"] = r /\ todo'["pbx"] = todo["pbx"]
    BY <1>6, <1>2, <1>3, PushStep DEF Done
  <2>2. /\ SessionStands'
        /\ r # <<>> => /\ Head(r) \notin {"openMark", "openSend", "startMark", "startSend",
                                          "startReady", "closed", "stopped"}
                       /\ Head(r) # "connectedMedia"
    BY <1>2, <1>3, <2>1, RestsUncovered, Popping
  <2> QED
    BY <1>2, <1>3, <1>4, <1>5, <1>6, <2>1, <2>2 DEF SessionStands, PbxStands, LockInv,
       HangupInv, HoldInv, BoundInv, PastInv, Past, StreamInv, CloseInv, ResultInv, CountInv,
       Stands, At, Idle, Thread
<1> QED
  BY <1>6 DEF OpenFails, nothing

(* The opening is recorded. *)
LEMMA OpenMarkKeeps ==
    ASSUME TypeInv, SilentInv, OpenMark("session")
    PROVE  SilentInv'
<1> USE DEF TypeInv, SilentInv
<1>1. At("session", "openMark")
  BY DEF OpenMark
<1>2. PICK r \in SessionRests("openMark") :
         /\ Stands("session", "openMark", r)
         /\ \A steps : Then("session", steps) =>
               todo'["session"] = steps \o r /\ todo'["pbx"] = todo["pbx"]
  BY <1>1, SessionAt
<1>3. r \in Seq(Step)
  BY <1>2 DEF Stands
<1>4. lock' = lock /\ result' = result /\ inflight' = inflight /\ call' = call
  BY DEF OpenMark, rtpOnly
<1>5. rtp'.rx = {"progress"} /\ rtp'.tx = rtp.tx /\ rtp'.cb = rtp.cb
  BY DEF OpenMark, rtpOnly, TypeOK, Rtp
<1>6. (MayReceive' <=> MayReceive) /\ (MaySend' <=> MaySend) /\ Opens' = Opens /\ Acks' = Acks
  BY NoMessage DEF OpenMark, rtpOnly
<1>7. CASE Then("session", <<"openSend">>)
  <2>1. todo'["session"] = <<"openSend">> \o r /\ todo'["pbx"] = todo["pbx"]
    BY <1>7, <1>2
  <2>2. "openSend" \in Step
    BY AllSteps
  <2>3. <<"openSend">> \o r = On("openSend", r)
    BY <1>3, <2>2, PushStep
  <2>4. Stands("session", "openSend", r)'
    BY <1>3, <2>1, <2>3, <2>2, <1>3, StandingNext, PbxThread
  <2>5. r \in SessionRests("openSend")
    BY <1>2, RestTable
  <2> QED
    BY <1>2, <1>3, <1>4, <1>5, <1>6, <1>7, <2>1, <2>4, <2>5 DEF SessionStands, PbxStands,
       LockInv, HangupInv, HoldInv, BoundInv, PastInv, Past, StreamInv, CloseInv, ResultInv,
       CountInv, Stands, At, Idle, Thread
<1> QED
  BY <1>7 DEF OpenMark, rtpOnly

(* The phone is told to open. *)
LEMMA OpenSendKeeps ==
    ASSUME TypeInv, SilentInv, OpenSend("session")
    PROVE  SilentInv'
<1> USE DEF TypeInv, SilentInv
<1>1. At("session", "openSend")
  BY DEF OpenSend
<1>2. PICK r \in SessionRests("openSend") :
         /\ Stands("session", "openSend", r)
         /\ \A steps : Then("session", steps) =>
               todo'["session"] = steps \o r /\ todo'["pbx"] = todo["pbx"]
  BY <1>1, SessionAt
<1>3. r \in Seq(Step)
  BY <1>2 DEF Stands
<1>4. /\ In("unlock", r) /\ (In("setRx", r) => In("getRx", r))
      /\ \A x \in {"unbind", "close", "stop", "setTx", "opened", "connected"} : ~In(x, r)
  BY <1>2, RestTable, UnlockingHas
<1>5. lock = "session" /\ todo["pbx"] = <<>>
  BY <1>2, <1>4 DEF LockInv, Stands, Idle
<1>6. \A x : ~In(x, todo["pbx"])
  BY <1>5, Empty
<1>7. lock' = lock /\ result' = result /\ call' = call /\ rtp' = rtp
  BY DEF OpenSend
<1>8. /\ MaySend' <=> MaySend
      /\ Opens' = Opens + 1 /\ Acks' = Acks /\ inflight' = inflight + 1
  BY Sending, CountSend DEF OpenSend, Acks
<1>9. inflight \in Nat /\ Opens \in Nat /\ Acks \in Nat
  BY CountTypes DEF TypeOK
<1>10. CASE Done("session")
  <2>1. todo'["session"] = r /\ todo'["pbx"] = todo["pbx"]
    BY <1>10, <1>2, <1>3, PushStep DEF Done
  <2>2. /\ SessionStands'
        /\ r # <<>> => /\ Head(r) \notin {"openMark", "openSend", "startMark", "startSend",
                                          "startReady", "closed", "stopped"}
                       /\ Head(r) # "connectedMedia"
    BY <1>2, <1>3, <2>1, RestsUncovered, Popping
  <2> QED
    BY <1>2, <1>3, <1>4, <1>5, <1>6, <1>7, <1>8, <1>9, <1>10, <2>1, <2>2 DEF SessionStands,
       PbxStands, LockInv, HangupInv, HoldInv, BoundInv, PastInv, Past, StreamInv, CloseInv,
       ResultInv, CountInv, Stands, At, Idle, Thread
<1> QED
  BY <1>10 DEF OpenSend

(* The session closes the reception. *)
LEMMA CloseKeeps ==
    ASSUME TypeInv, SilentInv, Close("session")
    PROVE  SilentInv'
<1> USE DEF TypeInv, SilentInv
<1>1. At("session", "close")
  BY DEF Close
<1>2. PICK r \in SessionRests("close") :
         /\ Stands("session", "close", r)
         /\ \A steps : Then("session", steps) =>
               todo'["session"] = steps \o r /\ todo'["pbx"] = todo["pbx"]
  BY <1>1, SessionAt
<1>3. r \in Seq(Step)
  BY <1>2 DEF Stands
<1>4. ~In("close", r) /\ (In("unbind", r) => In("stop", r))
  BY <1>2, RestTable, Closes
<1>5. lock' = lock /\ result' = result /\ inflight' = inflight /\ call' = call /\ rtp' = rtp
  BY DEF Close, sendOnly
<1>6. CASE call.device /\ rtp.rx # {} /\ Send("close") /\ Then("session", <<"closed">>)
  <2>1. todo'["session"] = <<"closed">> \o r /\ todo'["pbx"] = todo["pbx"]
    BY <1>6, <1>2
  <2>2. "closed" \in Step
    BY AllSteps
  <2>3. <<"closed">> \o r = On("closed", r)
    BY <1>3, <2>2, PushStep
  <2>4. Stands("session", "closed", r)'
    BY <1>3, <2>1, <2>3, <2>2, <1>3, StandingNext, PbxThread
  <2>5. r \in SessionRests("closed")
    BY <1>2, RestTable
  <2>6. ~MayReceive' /\ (MaySend' <=> MaySend) /\ Opens' = Opens /\ Acks' = Acks
    BY <1>6, Sending, CountSend, CountTypes DEF Close, sendOnly, sendOnly, Acks
  <2> QED
    BY <1>2, <1>3, <1>4, <1>5, <1>6, <2>1, <2>4, <2>5, <2>6 DEF SessionStands, PbxStands,
       LockInv, HangupInv, HoldInv, BoundInv, PastInv, Past, StreamInv, CloseInv, ResultInv,
       CountInv, Stands, At, Idle, Thread
<1>7. CASE ~(call.device /\ rtp.rx # {}) /\ toPhone' = toPhone /\ Done("session")
  <2>1. todo'["session"] = r /\ todo'["pbx"] = todo["pbx"]
    BY <1>7, <1>2, <1>3, PushStep DEF Done
  <2>2. /\ SessionStands'
        /\ r # <<>> => /\ Head(r) \notin {"openMark", "openSend", "startMark", "startSend",
                                          "startReady", "closed", "stopped"}
                       /\ Head(r) # "connectedMedia"
    BY <1>2, <1>3, <2>1, RestsUncovered, Popping
  <2>3. (MayReceive' <=> MayReceive) /\ (MaySend' <=> MaySend) /\ Opens' = Opens /\ Acks' = Acks
    BY <1>7, NoMessage DEF Close, sendOnly, sendOnly
  <2> QED
    BY <1>2, <1>3, <1>4, <1>5, <1>7, <2>1, <2>2, <2>3 DEF SessionStands, PbxStands, LockInv,
       HangupInv, HoldInv, BoundInv, PastInv, Past, StreamInv, CloseInv, ResultInv, CountInv,
       Stands, At, Idle, Thread
<1> QED
  BY <1>6, <1>7 DEF Close, sendOnly, Done

(* The reception is closed. *)
LEMMA ClosedKeeps ==
    ASSUME TypeInv, SilentInv, Closed("session")
    PROVE  SilentInv'
<1> USE DEF TypeInv, SilentInv
<1>1. At("session", "closed")
  BY DEF Closed
<1>2. PICK r \in SessionRests("closed") :
         /\ Stands("session", "closed", r)
         /\ \A steps : Then("session", steps) =>
               todo'["session"] = steps \o r /\ todo'["pbx"] = todo["pbx"]
  BY <1>1, SessionAt
<1>3. r \in Seq(Step)
  BY <1>2 DEF Stands
<1>4. lock' = lock /\ result' = result /\ inflight' = inflight /\ call' = call
  BY DEF Closed, rtpOnly
<1>5. rtp'.rx = {} /\ rtp'.tx = rtp.tx /\ rtp'.cb = rtp.cb
  BY DEF Closed, rtpOnly, TypeOK, Rtp
<1>6. (MayReceive' <=> MayReceive) /\ (MaySend' <=> MaySend) /\ Opens' = Opens /\ Acks' = Acks
  BY NoMessage DEF Closed, rtpOnly
<1>7. CASE Done("session")
  <2>1. todo'["session"] = r /\ todo'["pbx"] = todo["pbx"]
    BY <1>7, <1>2, <1>3, PushStep DEF Done
  <2>2. /\ SessionStands'
        /\ r # <<>> => /\ Head(r) \notin {"openMark", "openSend", "startMark", "startSend",
                                          "startReady", "closed", "stopped"}
                       /\ Head(r) # "connectedMedia"
    BY <1>2, <1>3, <2>1, RestsUncovered, Popping
  <2> QED
    BY <1>2, <1>3, <1>4, <1>5, <1>6, <1>7, <2>1, <2>2 DEF SessionStands, PbxStands, LockInv,
       HangupInv, HoldInv, BoundInv, PastInv, Past, StreamInv, CloseInv, ResultInv, CountInv,
       Stands, At, Idle, Thread
<1> QED
  BY <1>7 DEF Closed, rtpOnly

(* The session stops the transmission. *)
LEMMA StopKeeps ==
    ASSUME TypeInv, SilentInv, Stop("session")
    PROVE  SilentInv'
<1> USE DEF TypeInv, SilentInv
<1>1. At("session", "stop")
  BY DEF Stop
<1>2. PICK r \in SessionRests("stop") :
         /\ Stands("session", "stop", r)
         /\ \A steps : Then("session", steps) =>
               todo'["session"] = steps \o r /\ todo'["pbx"] = todo["pbx"]
  BY <1>1, SessionAt
<1>3. r \in Seq(Step)
  BY <1>2 DEF Stands
<1>4. ~In("close", r) /\ ~In("stop", r)
  BY <1>2, RestTable, Stops
<1>5. lock' = lock /\ result' = result /\ inflight' = inflight /\ call' = call /\ rtp' = rtp
  BY DEF Stop, sendOnly
<1>6. CASE call.device /\ rtp.tx # {} /\ Send("stop") /\ Then("session", <<"stopped">>)
  <2>1. todo'["session"] = <<"stopped">> \o r /\ todo'["pbx"] = todo["pbx"]
    BY <1>6, <1>2
  <2>2. "stopped" \in Step
    BY AllSteps
  <2>3. <<"stopped">> \o r = On("stopped", r)
    BY <1>3, <2>2, PushStep
  <2>4. Stands("session", "stopped", r)'
    BY <1>3, <2>1, <2>3, <2>2, <1>3, StandingNext, PbxThread
  <2>5. r \in SessionRests("stopped")
    BY <1>2, RestTable
  <2>6. ~MaySend' /\ (MayReceive' <=> MayReceive) /\ Opens' = Opens /\ Acks' = Acks
    BY <1>6, Sending, CountSend, CountTypes DEF Stop, sendOnly, sendOnly, Acks
  <2> QED
    BY <1>2, <1>3, <1>4, <1>5, <1>6, <2>1, <2>4, <2>5, <2>6 DEF SessionStands, PbxStands,
       LockInv, HangupInv, HoldInv, BoundInv, PastInv, Past, StreamInv, CloseInv, ResultInv,
       CountInv, Stands, At, Idle, Thread
<1>7. CASE ~(call.device /\ rtp.tx # {}) /\ toPhone' = toPhone /\ Done("session")
  <2>1. todo'["session"] = r /\ todo'["pbx"] = todo["pbx"]
    BY <1>7, <1>2, <1>3, PushStep DEF Done
  <2>2. /\ SessionStands'
        /\ r # <<>> => /\ Head(r) \notin {"openMark", "openSend", "startMark", "startSend",
                                          "startReady", "closed", "stopped"}
                       /\ Head(r) # "connectedMedia"
    BY <1>2, <1>3, <2>1, RestsUncovered, Popping
  <2>3. (MayReceive' <=> MayReceive) /\ (MaySend' <=> MaySend) /\ Opens' = Opens /\ Acks' = Acks
    BY <1>7, NoMessage DEF Stop, sendOnly, sendOnly
  <2> QED
    BY <1>2, <1>3, <1>4, <1>5, <1>7, <2>1, <2>2, <2>3 DEF SessionStands, PbxStands, LockInv,
       HangupInv, HoldInv, BoundInv, PastInv, Past, StreamInv, CloseInv, ResultInv, CountInv,
       Stands, At, Idle, Thread
<1> QED
  BY <1>6, <1>7 DEF Stop, sendOnly, Done

(* The transmission is stopped. *)
LEMMA StoppedKeeps ==
    ASSUME TypeInv, SilentInv, Stopped("session")
    PROVE  SilentInv'
<1> USE DEF TypeInv, SilentInv
<1>1. At("session", "stopped")
  BY DEF Stopped
<1>2. PICK r \in SessionRests("stopped") :
         /\ Stands("session", "stopped", r)
         /\ \A steps : Then("session", steps) =>
               todo'["session"] = steps \o r /\ todo'["pbx"] = todo["pbx"]
  BY <1>1, SessionAt
<1>3. r \in Seq(Step)
  BY <1>2 DEF Stands
<1>4. ~In("close", r) /\ ~In("stop", r)
  BY <1>2, RestTable, Stops
<1>5. lock' = lock /\ result' = result /\ inflight' = inflight /\ call' = call
  BY DEF Stopped, rtpOnly
<1>6. rtp'.rx = rtp.rx /\ rtp'.tx = {} /\ rtp'.cb = rtp.cb
  BY DEF Stopped, rtpOnly, TypeOK, Rtp
<1>7. (MayReceive' <=> MayReceive) /\ (MaySend' <=> MaySend) /\ Opens' = Opens /\ Acks' = Acks
  BY NoMessage DEF Stopped, rtpOnly
<1>8. CASE Done("session")
  <2>1. todo'["session"] = r /\ todo'["pbx"] = todo["pbx"]
    BY <1>8, <1>2, <1>3, PushStep DEF Done
  <2>2. /\ SessionStands'
        /\ r # <<>> => /\ Head(r) \notin {"openMark", "openSend", "startMark", "startSend",
                                          "startReady", "closed", "stopped"}
                       /\ Head(r) # "connectedMedia"
    BY <1>2, <1>3, <2>1, RestsUncovered, Popping
  <2> QED
    BY <1>2, <1>3, <1>4, <1>5, <1>6, <1>7, <1>8, <2>1, <2>2 DEF SessionStands, PbxStands,
       LockInv, HangupInv, HoldInv, BoundInv, PastInv, Past, StreamInv, CloseInv, ResultInv,
       CountInv, Stands, At, Idle, Thread
<1> QED
  BY <1>8 DEF Stopped, rtpOnly

(* The session starts the transmission. *)
LEMMA StartKeeps ==
    ASSUME TypeInv, SilentInv, Start("session")
    PROVE  SilentInv'
<1> USE DEF TypeInv, SilentInv
<1>1. At("session", "start")
  BY DEF Start
<1>2. PICK r \in SessionRests("start") :
         /\ Stands("session", "start", r)
         /\ \A steps : Then("session", steps) =>
               todo'["session"] = steps \o r /\ todo'["pbx"] = todo["pbx"]
  BY <1>1, SessionAt
<1>3. r \in Seq(Step)
  BY <1>2 DEF Stands
<1>4. lock' = lock /\ result' = result /\ inflight' = inflight /\ call' = call /\ rtp' = rtp
  BY DEF Start, nothing
<1>5. (MayReceive' <=> MayReceive) /\ (MaySend' <=> MaySend) /\ Opens' = Opens /\ Acks' = Acks
  BY NoMessage DEF Start, nothing
<1>6. CASE Done("session")
  <2>1. todo'["session"] = r /\ todo'["pbx"] = todo["pbx"]
    BY <1>6, <1>2, <1>3, PushStep DEF Done
  <2>2. /\ SessionStands'
        /\ r # <<>> => /\ Head(r) \notin {"openMark", "openSend", "startMark", "startSend",
                                          "startReady", "closed", "stopped"}
                       /\ Head(r) # "connectedMedia"
    BY <1>2, <1>3, <2>1, RestsUncovered, Popping
  <2> QED
    BY <1>2, <1>3, <1>4, <1>5, <1>6, <2>1, <2>2 DEF SessionStands, PbxStands, LockInv,
       HangupInv, HoldInv, BoundInv, PastInv, Past, StreamInv, CloseInv, ResultInv, CountInv,
       Stands, At, Idle, Thread
<1>7. CASE ~call.hanging /\ Then("session", <<"startReady">>)
  <2>1. todo'["session"] = <<"startReady">> \o r /\ todo'["pbx"] = todo["pbx"]
    BY <1>7, <1>2
  <2>2. "startReady" \in Step
    BY AllSteps
  <2>3. <<"startReady">> \o r = On("startReady", r)
    BY <1>3, <2>2, PushStep
  <2>4. Stands("session", "startReady", r)'
    BY <1>3, <2>1, <2>3, <2>2, <1>3, StandingNext, PbxThread
  <2>5. r \in SessionRests("startReady")
    BY <1>2, RestTable
  <2> QED
    BY <1>2, <1>3, <1>4, <1>5, <1>7, <2>1, <2>4, <2>5 DEF SessionStands, PbxStands, LockInv,
       HangupInv, HoldInv, BoundInv, PastInv, Past, StreamInv, CloseInv, ResultInv, CountInv,
       Stands, At, Idle, Thread
<1> QED
  BY <1>6, <1>7 DEF Start, nothing, Done, Ending

(* The phone is found to receive, or the reception is closed. *)
LEMMA StartReadyKeeps ==
    ASSUME TypeInv, SilentInv, StartReady("session")
    PROVE  SilentInv'
<1> USE DEF TypeInv, SilentInv
<1>1. At("session", "startReady")
  BY DEF StartReady
<1>2. PICK r \in SessionRests("startReady") :
         /\ Stands("session", "startReady", r)
         /\ \A steps : Then("session", steps) =>
               todo'["session"] = steps \o r /\ todo'["pbx"] = todo["pbx"]
  BY <1>1, SessionAt
<1>3. r \in Seq(Step)
  BY <1>2 DEF Stands
<1>4. lock' = lock /\ result' = result /\ inflight' = inflight /\ call' = call /\ rtp' = rtp
  BY DEF StartReady, nothing
<1>5. (MayReceive' <=> MayReceive) /\ (MaySend' <=> MaySend) /\ Opens' = Opens /\ Acks' = Acks
  BY NoMessage DEF StartReady, nothing
<1>6. CASE call.device /\ Then("session", <<"startMark">>)
  <2>1. todo'["session"] = <<"startMark">> \o r /\ todo'["pbx"] = todo["pbx"]
    BY <1>6, <1>2
  <2>2. "startMark" \in Step
    BY AllSteps
  <2>3. <<"startMark">> \o r = On("startMark", r)
    BY <1>3, <2>2, PushStep
  <2>4. Stands("session", "startMark", r)'
    BY <1>3, <2>1, <2>3, <2>2, <1>3, StandingNext, PbxThread
  <2>5. r \in SessionRests("startMark")
    BY <1>2, RestTable
  <2> QED
    BY <1>2, <1>3, <1>4, <1>5, <1>6, <2>1, <2>4, <2>5 DEF SessionStands, PbxStands, LockInv,
       HangupInv, HoldInv, BoundInv, PastInv, Past, StreamInv, CloseInv, ResultInv, CountInv,
       Stands, At, Idle, Thread
<1>7. CASE Then("session", <<"close">>)
  <2>1. todo'["session"] = <<"close">> \o r /\ todo'["pbx"] = todo["pbx"]
    BY <1>7, <1>2
  <2>2. "close" \in Step
    BY AllSteps
  <2>3. <<"close">> \o r = On("close", r)
    BY <1>3, <2>2, PushStep
  <2>4. Stands("session", "close", r)'
    BY <1>3, <2>1, <2>3, <2>2, <1>3, StandingNext, PbxThread
  <2>5. r \in SessionRests("close")
    BY <1>2, RestTable DEF CloseRests
  <2> QED
    BY <1>2, <1>3, <1>4, <1>5, <1>7, <2>1, <2>4, <2>5 DEF SessionStands, PbxStands, LockInv,
       HangupInv, HoldInv, BoundInv, PastInv, Past, StreamInv, CloseInv, ResultInv, CountInv,
       Stands, At, Idle, Thread
<1> QED
  BY <1>6, <1>7 DEF StartReady, nothing

(* The transmission is recorded. *)
LEMMA StartMarkKeeps ==
    ASSUME TypeInv, SilentInv, StartMark("session")
    PROVE  SilentInv'
<1> USE DEF TypeInv, SilentInv
<1>1. At("session", "startMark")
  BY DEF StartMark
<1>2. PICK r \in SessionRests("startMark") :
         /\ Stands("session", "startMark", r)
         /\ \A steps : Then("session", steps) =>
               todo'["session"] = steps \o r /\ todo'["pbx"] = todo["pbx"]
  BY <1>1, SessionAt
<1>3. r \in Seq(Step)
  BY <1>2 DEF Stands
<1>4. lock' = lock /\ result' = result /\ inflight' = inflight /\ call' = call
  BY DEF StartMark, rtpOnly
<1>5. rtp'.rx = rtp.rx /\ rtp'.tx = rtp.tx \cup {"progress"} /\ rtp'.cb = rtp.cb
  BY DEF StartMark, rtpOnly, TypeOK, Rtp
<1>6. (MayReceive' <=> MayReceive) /\ (MaySend' <=> MaySend) /\ Opens' = Opens /\ Acks' = Acks
  BY NoMessage DEF StartMark, rtpOnly
<1>7. CASE Then("session", <<"startSend">>)
  <2>1. todo'["session"] = <<"startSend">> \o r /\ todo'["pbx"] = todo["pbx"]
    BY <1>7, <1>2
  <2>2. "startSend" \in Step
    BY AllSteps
  <2>3. <<"startSend">> \o r = On("startSend", r)
    BY <1>3, <2>2, PushStep
  <2>4. Stands("session", "startSend", r)'
    BY <1>3, <2>1, <2>3, <2>2, <1>3, StandingNext, PbxThread
  <2>5. r \in SessionRests("startSend")
    BY <1>2, RestTable
  <2> QED
    BY <1>2, <1>3, <1>4, <1>5, <1>6, <1>7, <2>1, <2>4, <2>5 DEF SessionStands, PbxStands,
       LockInv, HangupInv, HoldInv, BoundInv, PastInv, Past, StreamInv, CloseInv, ResultInv,
       CountInv, Stands, At, Idle, Thread
<1> QED
  BY <1>7 DEF StartMark, rtpOnly

(* The phone is told to start. *)
LEMMA StartSendKeeps ==
    ASSUME TypeInv, SilentInv, StartSend("session")
    PROVE  SilentInv'
<1> USE DEF TypeInv, SilentInv
<1>1. At("session", "startSend")
  BY DEF StartSend
<1>2. PICK r \in SessionRests("startSend") :
         /\ Stands("session", "startSend", r)
         /\ \A steps : Then("session", steps) =>
               todo'["session"] = steps \o r /\ todo'["pbx"] = todo["pbx"]
  BY <1>1, SessionAt
<1>3. r \in Seq(Step)
  BY <1>2 DEF Stands
<1>4. /\ In("setRx", r) => In("getRx", r)
      /\ \A x \in {"unbind", "close", "stop", "setTx", "opened"} : ~In(x, r)
  BY <1>2, RestTable, StartHas
<1>5. lock' = lock /\ result' = result /\ inflight' = inflight /\ call' = call /\ rtp' = rtp
  BY DEF StartSend, sendOnly
<1>6. (MayReceive' <=> MayReceive) /\ Opens' = Opens /\ Acks' = Acks
  BY Sending, CountSend, CountTypes DEF StartSend, sendOnly, Acks
<1>7. ~Past /\ (In("unbind", todo["pbx"]) => In("close", todo["pbx"]))
  BY <1>1, WaitCloses DEF PastInv
<1>8. CASE Done("session")
  <2>1. todo'["session"] = r /\ todo'["pbx"] = todo["pbx"]
    BY <1>8, <1>2, <1>3, PushStep DEF Done
  <2>2. /\ SessionStands'
        /\ r # <<>> => /\ Head(r) \notin {"openMark", "openSend", "startMark", "startSend",
                                          "startReady", "closed", "stopped"}
                       /\ Head(r) # "connectedMedia"
    BY <1>2, <1>3, <2>1, RestsUncovered, Popping
  <2> QED
    BY <1>2, <1>3, <1>4, <1>5, <1>6, <1>7, <1>8, <2>1, <2>2 DEF SessionStands, PbxStands,
       LockInv, HangupInv, HoldInv, BoundInv, PastInv, Past, StreamInv, CloseInv, ResultInv,
       CountInv, Stands, At, Idle, Thread
<1> QED
  BY <1>8 DEF StartSend, sendOnly

(* The call is connected. *)
LEMMA ConnectedKeeps ==
    ASSUME TypeInv, SilentInv, Connected("session")
    PROVE  SilentInv'
<1> USE DEF TypeInv, SilentInv
<1>1. At("session", "connected")
  BY DEF Connected
<1>2. PICK r \in SessionRests("connected") :
         /\ Stands("session", "connected", r)
         /\ \A steps : Then("session", steps) =>
               todo'["session"] = steps \o r /\ todo'["pbx"] = todo["pbx"]
  BY <1>1, SessionAt
<1>3. r \in Seq(Step)
  BY <1>2 DEF Stands
<1>4. PICK u \in Unlocking : r = On("connectedMedia", u)
  BY <1>2, RestTable
<1>5. /\ u \in Seq(Step) /\ In("unlock", u)
      /\ \A x \in {"unbind", "close", "stop", "setTx", "opened", "connected"} : ~In(x, u)
  BY UnlockingHas, Unlockings
<1>6. "connectedMedia" \in Step
  BY AllSteps
<1>7. /\ In("unlock", r)
      /\ \A x \in {"unbind", "close", "stop", "setTx", "opened", "connected"} : ~In(x, r)
  BY <1>4, <1>5, <1>6, StackFacts
<1>8. lock = "session" /\ todo["pbx"] = <<>>
  BY <1>2, <1>7 DEF LockInv, Stands, Idle
<1>9. \A x : ~In(x, todo["pbx"])
  BY <1>8, Empty
<1>10. lock' = lock /\ result' = result /\ inflight' = inflight
  BY DEF Connected
<1>11. /\ call'.state = "connected" /\ call'.device = call.device /\ call'.gone = call.gone
      /\ call'.hanging = call.hanging /\ call'.hangup = call.hangup
  BY DEF Connected, TypeOK, Call
<1>12. rtp'.rx = rtp.rx /\ rtp'.tx = rtp.tx /\ rtp'.cb = "start"
  BY DEF Connected, TypeOK, Rtp, ConnectedCallback
<1>13. (MayReceive' <=> MayReceive) /\ (MaySend' <=> MaySend) /\ Opens' = Opens /\ Acks' = Acks
  BY NoMessage DEF Connected
<1>14. CASE Done("session")
  <2>1. todo'["session"] = r /\ todo'["pbx"] = todo["pbx"]
    BY <1>14, <1>2, <1>3, PushStep DEF Done
  <2>2. /\ SessionStands'
        /\ r # <<>> => /\ Head(r) \notin {"openMark", "openSend", "startMark", "startSend",
                                          "startReady", "closed", "stopped"}
    BY <1>2, <1>3, <2>1, RestsUncovered, Popping
  <2> QED
    BY <1>2, <1>3, <1>4, <1>5, <1>6, <1>7, <1>8, <1>9, <1>10, <1>11, <1>12, <1>13, <1>14,
       <2>1, <2>2 DEF SessionStands, PbxStands, LockInv, HangupInv, HoldInv, BoundInv, PastInv,
       Past, StreamInv, CloseInv, ResultInv, CountInv, Stands, At, Idle, Thread
<1> QED
  BY <1>14 DEF Connected

(* The streams of a call that was connected are opened, started or kept. *)
LEMMA ConnectedMediaKeeps ==
    ASSUME TypeInv, SilentInv, ConnectedMedia("session")
    PROVE  SilentInv'
<1> USE DEF TypeInv, SilentInv
<1>1. At("session", "connectedMedia")
  BY DEF ConnectedMedia
<1>2. PICK r \in SessionRests("connectedMedia") :
         /\ Stands("session", "connectedMedia", r)
         /\ \A steps : Then("session", steps) =>
               todo'["session"] = steps \o r /\ todo'["pbx"] = todo["pbx"]
  BY <1>1, SessionAt
<1>3. r \in Seq(Step)
  BY <1>2 DEF Stands
<1>4. /\ In("unlock", r) /\ (In("setRx", r) => In("getRx", r))
      /\ \A x \in {"unbind", "close", "stop", "setTx", "opened", "connected"} : ~In(x, r)
  BY <1>2, RestTable, UnlockingHas
<1>5. lock = "session" /\ todo["pbx"] = <<>>
  BY <1>2, <1>4 DEF LockInv, Stands, Idle
<1>6. \A x : ~In(x, todo["pbx"])
  BY <1>5, Empty
<1>7. rtp.cb = "start"
  BY <1>1 DEF BoundInv
<1>8. lock' = lock /\ result' = result /\ inflight' = inflight /\ call' = call
  BY DEF ConnectedMedia, rtpOnly
<1>9. rtp'.rx = rtp.rx /\ rtp'.tx = rtp.tx
  BY DEF ConnectedMedia, rtpOnly, TypeOK, Rtp, RunCallback
<1>10. (MayReceive' <=> MayReceive) /\ (MaySend' <=> MaySend) /\ Opens' = Opens /\ Acks' = Acks
  BY NoMessage DEF ConnectedMedia, rtpOnly
<1>11. CASE Then("session", <<"open">>)
  <2>1. todo'["session"] = <<"open">> \o r /\ todo'["pbx"] = todo["pbx"]
    BY <1>11, <1>2
  <2>2. "open" \in Step
    BY AllSteps
  <2>3. <<"open">> \o r = On("open", r)
    BY <1>3, <2>2, PushStep
  <2>4. Stands("session", "open", r)'
    BY <1>3, <2>1, <2>3, <2>2, <1>3, StandingNext, PbxThread
  <2>5. r \in SessionRests("open")
    BY <1>2, RestTable
  <2> QED
    BY <1>2, <1>3, <1>4, <1>5, <1>6, <1>7, <1>8, <1>9, <1>10, <1>11, <2>1, <2>4, <2>5 DEF
       SessionStands, PbxStands, LockInv, HangupInv, HoldInv, BoundInv, PastInv, Past, StreamInv,
       CloseInv, ResultInv, CountInv, Stands, At, Idle, Thread
<1>12. CASE Then("session", <<"start">>)
  <2>1. todo'["session"] = <<"start">> \o r /\ todo'["pbx"] = todo["pbx"]
    BY <1>12, <1>2
  <2>2. "start" \in Step
    BY AllSteps
  <2>3. <<"start">> \o r = On("start", r)
    BY <1>3, <2>2, PushStep
  <2>4. Stands("session", "start", r)'
    BY <1>3, <2>1, <2>3, <2>2, <1>3, StandingNext, PbxThread
  <2>5. r \in SessionRests("start")
    BY <1>2, RestTable DEF StartRests
  <2> QED
    BY <1>2, <1>3, <1>4, <1>5, <1>6, <1>7, <1>8, <1>9, <1>10, <1>12, <2>1, <2>4, <2>5 DEF
       SessionStands, PbxStands, LockInv, HangupInv, HoldInv, BoundInv, PastInv, Past, StreamInv,
       CloseInv, ResultInv, CountInv, Stands, At, Idle, Thread
<1>13. CASE Done("session")
  <2>1. todo'["session"] = r /\ todo'["pbx"] = todo["pbx"]
    BY <1>13, <1>2, <1>3, PushStep DEF Done
  <2>2. /\ SessionStands'
        /\ r # <<>> => /\ Head(r) \notin {"openMark", "openSend", "startMark", "startSend",
                                          "startReady", "closed", "stopped"}
                       /\ Head(r) # "connectedMedia"
    BY <1>2, <1>3, <2>1, RestsUncovered, Popping
  <2> QED
    BY <1>2, <1>3, <1>4, <1>5, <1>6, <1>7, <1>8, <1>9, <1>10, <1>13, <2>1, <2>2 DEF
       SessionStands, PbxStands, LockInv, HangupInv, HoldInv, BoundInv, PastInv, Past, StreamInv,
       CloseInv, ResultInv, CountInv, Stands, At, Idle, Thread
<1> QED
  BY <1>11, <1>12, <1>13, <1>7 DEF ConnectedMedia, rtpOnly, RunCallback, CallbackSteps

(* The call leaves the phone. *)
LEMMA UnbindKeeps ==
    ASSUME TypeInv, SilentInv, Unbind("session")
    PROVE  SilentInv'
<1> USE DEF TypeInv, SilentInv
<1>1. At("session", "unbind")
  BY DEF Unbind
<1>2. PICK r \in SessionRests("unbind") :
         /\ Stands("session", "unbind", r)
         /\ \A steps : Then("session", steps) =>
               todo'["session"] = steps \o r /\ todo'["pbx"] = todo["pbx"]
  BY <1>1, SessionAt
<1>3. r \in Seq(Step)
  BY <1>2 DEF Stands
<1>4. \A x : In(x, r) => x = "resumeHeld"
  BY <1>2, RestTable, Helds
<1>5. lock' = lock /\ result' = result /\ inflight' = inflight /\ rtp' = rtp
  BY DEF Unbind, callOnly
<1>6. /\ call'.state = call.state /\ call'.device = FALSE /\ call'.gone = call.gone
      /\ call'.hanging = call.hanging /\ call'.hangup = call.hangup
  BY DEF Unbind, callOnly, TypeOK, Call
<1>7. (MayReceive' <=> MayReceive) /\ (MaySend' <=> MaySend) /\ Opens' = Opens /\ Acks' = Acks
  BY NoMessage DEF Unbind, callOnly
<1>8. CASE Done("session")
  <2>1. todo'["session"] = r /\ todo'["pbx"] = todo["pbx"]
    BY <1>8, <1>2, <1>3, PushStep DEF Done
  <2>2. /\ SessionStands'
        /\ r # <<>> => /\ Head(r) \notin {"openMark", "openSend", "startMark", "startSend",
                                          "startReady", "closed", "stopped"}
                       /\ Head(r) # "connectedMedia"
    BY <1>2, <1>3, <2>1, RestsUncovered, Popping
  <2> QED
    BY <1>2, <1>3, <1>4, <1>5, <1>6, <1>7, <1>8, <2>1, <2>2 DEF SessionStands, PbxStands,
       LockInv, HangupInv, HoldInv, BoundInv, PastInv, Past, StreamInv, CloseInv, ResultInv,
       CountInv, Stands, At, Idle, Thread
<1> QED
  BY <1>8 DEF Unbind, callOnly

(* The session gives the channel up. *)
LEMMA UnlockKeeps ==
    ASSUME TypeInv, SilentInv, Unlock("session")
    PROVE  SilentInv'
<1> USE DEF TypeInv, SilentInv
<1>1. At("session", "unlock")
  BY DEF Unlock
<1>2. PICK r \in SessionRests("unlock") :
         /\ Stands("session", "unlock", r)
         /\ \A steps : Then("session", steps) =>
               todo'["session"] = steps \o r /\ todo'["pbx"] = todo["pbx"]
  BY <1>1, SessionAt
<1>3. r \in Seq(Step)
  BY <1>2 DEF Stands
<1>4. r = <<>> \/ r = Getting
  BY <1>2, RestTable
<1>5. \A x \in {"unlock", "resumeHeld", "connected"} : ~In(x, <<>>) /\ ~In(x, Getting)
  BY Empty, Contents
<1>6. ~In("unlock", r) /\ ~In("resumeHeld", r) /\ ~In("connected", r)
  BY <1>4, <1>5
<1>7. lock = "session" /\ todo["pbx"] = <<>>
  BY <1>2, <1>6 DEF LockInv, Stands, Idle
<1>8. \A x : ~In(x, todo["pbx"])
  BY <1>7, Empty
<1>9. lock' = Nobody /\ Nobody \notin Thread
  BY MediaAssumption DEF Unlock, Thread
<1>10. result' = result /\ inflight' = inflight /\ call' = call /\ rtp' = rtp
  BY DEF Unlock, callOnly
<1>11. (MayReceive' <=> MayReceive) /\ (MaySend' <=> MaySend) /\ Opens' = Opens /\ Acks' = Acks
  BY NoMessage DEF Unlock, callOnly
<1>12. CASE Done("session")
  <2>1. todo'["session"] = r /\ todo'["pbx"] = todo["pbx"]
    BY <1>12, <1>2, <1>3, PushStep DEF Done
  <2>2. /\ SessionStands'
        /\ r # <<>> => /\ Head(r) \notin {"openMark", "openSend", "startMark", "startSend",
                                          "startReady", "closed", "stopped"}
                       /\ Head(r) # "connectedMedia"
    BY <1>2, <1>3, <2>1, RestsUncovered, Popping
  <2> QED
    BY <1>2, <1>3, <1>4, <1>5, <1>6, <1>7, <1>8, <1>9, <1>10, <1>11, <1>12, <2>1, <2>2 DEF
       SessionStands, PbxStands, LockInv, HangupInv, HoldInv, BoundInv, PastInv, Past, StreamInv,
       CloseInv, ResultInv, CountInv, Stands, At, Idle, Thread
<1> QED
  BY <1>12 DEF Unlock, callOnly

(* The phone has answered a request to open. *)
LEMMA OpenAckKeeps ==
    ASSUME TypeInv, SilentInv, OpenAck("session")
    PROVE  SilentInv'
<1> USE DEF TypeInv, SilentInv
<1>1. At("session", "openAck")
  BY DEF OpenAck
<1>2. PICK r \in SessionRests("openAck") :
         /\ Stands("session", "openAck", r)
         /\ \A steps : Then("session", steps) =>
               todo'["session"] = steps \o r /\ todo'["pbx"] = todo["pbx"]
  BY <1>1, SessionAt
<1>3. r \in Seq(Step)
  BY <1>2 DEF Stands
<1>4. r = Answering /\ \A x : In(x, r) <=> x = "answered"
  BY <1>2, RestTable, Contents
<1>5. "setRx" \in Step
  BY AllSteps
<1>6. \/ Refused \o <<"setRx">> = <<"close", "stop", "setRx">>
      \/ Refused \o <<"setRx">> = <<"close", "stop", "endcall", "setRx">>
  BY <1>5, RefusedIs
<1>7. lock' = lock /\ inflight' = inflight /\ call' = call /\ rtp' = rtp
  BY DEF OpenAck
<1>8. CASE /\ result' = result /\ toPhone' = toPhone
           /\ Then("session", <<"setPhone", "opened", "setRx">>)
  <2>1. todo'["session"] = <<"setPhone", "opened", "setRx">> \o r /\ todo'["pbx"] = todo["pbx"]
    BY <1>8, <1>2
  <2>2. "setPhone" \in Step /\ "opened" \in Step /\ "setRx" \in Step
    BY AllSteps
  <2>3. On("setRx", r) \in Seq(Step)
        /\ \A x : In(x, On("setRx", r)) <=> x = "setRx" \/ In(x, r)
    BY <1>3, <2>2, StackFacts
  <2>4. PICK q1 \in Seq(Step) :
           q1 = On("setRx", r) /\ \A x : In(x, q1) <=> x = "setRx" \/ In(x, r)
    BY <2>3
  <2>5. On("opened", q1) \in Seq(Step)
        /\ \A x : In(x, On("opened", q1)) <=> x = "opened" \/ In(x, q1)
    BY <2>4, <2>2, StackFacts
  <2>6. PICK q2 \in Seq(Step) :
           q2 = On("opened", q1) /\ \A x : In(x, q2) <=> x = "opened" \/ In(x, q1)
    BY <2>5
  <2>7. <<"setPhone", "opened", "setRx">> \o r = On("setPhone", On("opened", On("setRx", r)))
    BY <1>3, <2>2, PushStep, SMTT(30)
  <2>8. <<"setPhone", "opened", "setRx">> \o r = On("setPhone", q2)
    BY <2>7, <2>4, <2>6
  <2>9. Stands("session", "setPhone", q2)'
    BY <1>3, <2>1, <2>8, <2>2, <2>6, StandingNext, PbxThread
  <2>10. q2 \in SessionRests("setPhone")
    BY <1>2, RestTable, <2>4, <2>6, <1>4 DEF Setting
  <2>11. (MayReceive' <=> MayReceive) /\ (MaySend' <=> MaySend) /\ Opens' = Opens /\ Acks' = Acks
    BY <1>8, NoMessage DEF OpenAck
  <2> QED
    BY <1>2, <1>3, <1>4, <1>5, <1>6, <1>7, <1>8, <2>1, <2>4, <2>6, <2>9, <2>10, <2>11 DEF
       SessionStands, PbxStands, LockInv, HangupInv, HoldInv, BoundInv, PastInv, Past, StreamInv,
       CloseInv, ResultInv, CountInv, Stands, At, Idle, Thread
<1>9. CASE /\ result' = {"error"} /\ toPhone' = toPhone
           /\ Then("session", <<"close", "stop", "setRx">>)
  <2>1. todo'["session"] = <<"close", "stop", "setRx">> \o r /\ todo'["pbx"] = todo["pbx"]
    BY <1>9, <1>2
  <2>2. "close" \in Step /\ "stop" \in Step /\ "setRx" \in Step
    BY AllSteps
  <2>3. On("setRx", r) \in Seq(Step)
        /\ \A x : In(x, On("setRx", r)) <=> x = "setRx" \/ In(x, r)
    BY <1>3, <2>2, StackFacts
  <2>4. PICK q1 \in Seq(Step) :
           q1 = On("setRx", r) /\ \A x : In(x, q1) <=> x = "setRx" \/ In(x, r)
    BY <2>3
  <2>5. On("stop", q1) \in Seq(Step)
        /\ \A x : In(x, On("stop", q1)) <=> x = "stop" \/ In(x, q1)
    BY <2>4, <2>2, StackFacts
  <2>6. PICK q2 \in Seq(Step) :
           q2 = On("stop", q1) /\ \A x : In(x, q2) <=> x = "stop" \/ In(x, q1)
    BY <2>5
  <2>7. <<"close", "stop", "setRx">> \o r = On("close", On("stop", On("setRx", r)))
    BY <1>3, <2>2, PushStep, SMTT(30)
  <2>8. <<"close", "stop", "setRx">> \o r = On("close", q2)
    BY <2>7, <2>4, <2>6
  <2>9. Stands("session", "close", q2)'
    BY <1>3, <2>1, <2>8, <2>2, <2>6, StandingNext, PbxThread
  <2>10. q2 \in SessionRests("close")
    BY <1>2, RestTable, <2>4, <2>6, <1>4 DEF CloseRests, StopRests, Settled, Setting
  <2>11. (MayReceive' <=> MayReceive) /\ (MaySend' <=> MaySend) /\ Opens' = Opens /\ Acks' = Acks
    BY <1>9, NoMessage DEF OpenAck
  <2> QED
    BY <1>2, <1>3, <1>4, <1>5, <1>6, <1>7, <1>9, <2>1, <2>4, <2>6, <2>9, <2>10, <2>11 DEF
       SessionStands, PbxStands, LockInv, HangupInv, HoldInv, BoundInv, PastInv, Past, StreamInv,
       CloseInv, ResultInv, CountInv, Stands, At, Idle, Thread
<1>10. CASE /\ result' = {"error"} /\ toPhone' = toPhone
            /\ Then("session", <<"close", "stop", "endcall", "setRx">>)
  <2>1. /\ todo'["session"] = <<"close", "stop", "endcall", "setRx">> \o r
        /\ todo'["pbx"] = todo["pbx"]
    BY <1>10, <1>2
  <2>2. "close" \in Step /\ "stop" \in Step /\ "endcall" \in Step /\ "setRx" \in Step
    BY AllSteps
  <2>3. On("setRx", r) \in Seq(Step)
        /\ \A x : In(x, On("setRx", r)) <=> x = "setRx" \/ In(x, r)
    BY <1>3, <2>2, StackFacts
  <2>4. PICK q1 \in Seq(Step) :
           q1 = On("setRx", r) /\ \A x : In(x, q1) <=> x = "setRx" \/ In(x, r)
    BY <2>3
  <2>5. On("endcall", q1) \in Seq(Step)
        /\ \A x : In(x, On("endcall", q1)) <=> x = "endcall" \/ In(x, q1)
    BY <2>4, <2>2, StackFacts
  <2>6. PICK q2 \in Seq(Step) :
           q2 = On("endcall", q1) /\ \A x : In(x, q2) <=> x = "endcall" \/ In(x, q1)
    BY <2>5
  <2>7. On("stop", q2) \in Seq(Step)
        /\ \A x : In(x, On("stop", q2)) <=> x = "stop" \/ In(x, q2)
    BY <2>6, <2>2, StackFacts
  <2>8. PICK q3 \in Seq(Step) :
           q3 = On("stop", q2) /\ \A x : In(x, q3) <=> x = "stop" \/ In(x, q2)
    BY <2>7
  <2>9. <<"close", "stop", "endcall", "setRx">> \o r
          = On("close", On("stop", On("endcall", On("setRx", r))))
    BY <1>3, <2>2, PushStep, SMTT(30)
  <2>10. <<"close", "stop", "endcall", "setRx">> \o r = On("close", q3)
    BY <2>9, <2>4, <2>6, <2>8
  <2>11. Stands("session", "close", q3)'
    BY <1>3, <2>1, <2>10, <2>2, <2>8, StandingNext, PbxThread
  <2>12. q3 \in SessionRests("close")
    BY <1>2, RestTable, <2>4, <2>6, <2>8, <1>4 DEF CloseRests, StopRests, Settled, Setting
  <2>13. (MayReceive' <=> MayReceive) /\ (MaySend' <=> MaySend) /\ Opens' = Opens /\ Acks' = Acks
    BY <1>10, NoMessage DEF OpenAck
  <2> QED
    BY <1>2, <1>3, <1>4, <1>5, <1>6, <1>7, <1>10, <2>1, <2>4, <2>6, <2>8, <2>11, <2>12, <2>13
       DEF SessionStands, PbxStands, LockInv, HangupInv, HoldInv, BoundInv, PastInv, Past,
       StreamInv, CloseInv, ResultInv, CountInv, Stands, At, Idle, Thread
<1>11. CASE result' = result /\ toPhone' = toPhone /\ Done("session")
  <2>1. todo'["session"] = r /\ todo'["pbx"] = todo["pbx"]
    BY <1>11, <1>2, <1>3, PushStep DEF Done
  <2>2. /\ SessionStands'
        /\ r # <<>> => /\ Head(r) \notin {"openMark", "openSend", "startMark", "startSend",
                                          "startReady", "closed", "stopped"}
                       /\ Head(r) # "connectedMedia"
    BY <1>2, <1>3, <2>1, RestsUncovered, Popping
  <2>3. (MayReceive' <=> MayReceive) /\ (MaySend' <=> MaySend) /\ Opens' = Opens /\ Acks' = Acks
    BY <1>11, NoMessage DEF OpenAck
  <2> QED
    BY <1>2, <1>3, <1>4, <1>5, <1>6, <1>7, <1>11, <2>1, <2>2, <2>3 DEF SessionStands,
       PbxStands, LockInv, HangupInv, HoldInv, BoundInv, PastInv, Past, StreamInv, CloseInv,
       ResultInv, CountInv, Stands, At, Idle, Thread
<1>12. CASE result' = result /\ Send("close") /\ Done("session")
  <2>1. todo'["session"] = r /\ todo'["pbx"] = todo["pbx"]
    BY <1>12, <1>2, <1>3, PushStep DEF Done
  <2>2. /\ SessionStands'
        /\ r # <<>> => /\ Head(r) \notin {"openMark", "openSend", "startMark", "startSend",
                                          "startReady", "closed", "stopped"}
                       /\ Head(r) # "connectedMedia"
    BY <1>2, <1>3, <2>1, RestsUncovered, Popping
  <2>3. ~MayReceive' /\ (MaySend' <=> MaySend) /\ Opens' = Opens /\ Acks' = Acks
    BY <1>12, Sending, CountSend, CountTypes DEF OpenAck, Acks
  <2> QED
    BY <1>2, <1>3, <1>4, <1>5, <1>6, <1>7, <1>12, <2>1, <2>2, <2>3 DEF SessionStands,
       PbxStands, LockInv, HangupInv, HoldInv, BoundInv, PastInv, Past, StreamInv, CloseInv,
       ResultInv, CountInv, Stands, At, Idle, Thread
<1> QED
  BY <1>8, <1>9, <1>10, <1>11, <1>12, <1>5, <1>6 DEF OpenAck, CloseLate

(* The PBX learns the address of the phone. *)
LEMMA SetPhoneKeeps ==
    ASSUME TypeInv, SilentInv, SetPhone("session")
    PROVE  SilentInv'
<1> USE DEF TypeInv, SilentInv
<1>1. At("session", "setPhone")
  BY DEF SetPhone
<1>2. PICK r \in SessionRests("setPhone") :
         /\ Stands("session", "setPhone", r)
         /\ \A steps : Then("session", steps) =>
               todo'["session"] = steps \o r /\ todo'["pbx"] = todo["pbx"]
  BY <1>1, SessionAt
<1>3. r \in Seq(Step)
  BY <1>2 DEF Stands
<1>4. lock' = lock /\ result' = result /\ inflight' = inflight /\ call' = call
  BY DEF SetPhone, rtpOnly
<1>5. rtp'.rx = rtp.rx /\ rtp'.tx = rtp.tx /\ rtp'.cb = rtp.cb
  BY DEF SetPhone, rtpOnly, TypeOK, Rtp
<1>6. (MayReceive' <=> MayReceive) /\ (MaySend' <=> MaySend) /\ Opens' = Opens /\ Acks' = Acks
  BY NoMessage DEF SetPhone, rtpOnly
<1>7. CASE Done("session")
  <2>1. todo'["session"] = r /\ todo'["pbx"] = todo["pbx"]
    BY <1>7, <1>2, <1>3, PushStep DEF Done
  <2>2. /\ SessionStands'
        /\ r # <<>> => /\ Head(r) \notin {"openMark", "openSend", "startMark", "startSend",
                                          "startReady", "closed", "stopped"}
                       /\ Head(r) # "connectedMedia"
    BY <1>2, <1>3, <2>1, RestsUncovered, Popping
  <2> QED
    BY <1>2, <1>3, <1>4, <1>5, <1>6, <1>7, <2>1, <2>2 DEF SessionStands, PbxStands, LockInv,
       HangupInv, HoldInv, BoundInv, PastInv, Past, StreamInv, CloseInv, ResultInv, CountInv,
       Stands, At, Idle, Thread
<1> QED
  BY <1>7 DEF SetPhone, rtpOnly

(* The phone receives. *)
LEMMA OpenedKeeps ==
    ASSUME TypeInv, SilentInv, Opened("session")
    PROVE  SilentInv'
<1> USE DEF TypeInv, SilentInv
<1>1. At("session", "opened")
  BY DEF Opened
<1>2. PICK r \in SessionRests("opened") :
         /\ Stands("session", "opened", r)
         /\ \A steps : Then("session", steps) =>
               todo'["session"] = steps \o r /\ todo'["pbx"] = todo["pbx"]
  BY <1>1, SessionAt
<1>3. r \in Seq(Step)
  BY <1>2 DEF Stands
<1>4. r = Setting /\ \A x : In(x, r) <=> x \in {"setRx", "answered"}
  BY <1>2, RestTable, Contents
<1>5. lock' = lock /\ inflight' = inflight /\ call' = call /\ rtp' = rtp
  BY DEF Opened
<1>6. (MayReceive' <=> MayReceive) /\ (MaySend' <=> MaySend) /\ Opens' = Opens /\ Acks' = Acks
  BY NoMessage DEF Opened
<1>7. CASE result' = {"active"} /\ Done("session")
  <2>1. todo'["session"] = r /\ todo'["pbx"] = todo["pbx"]
    BY <1>7, <1>2, <1>3, PushStep DEF Done
  <2>2. /\ SessionStands'
        /\ r # <<>> => /\ Head(r) \notin {"openMark", "openSend", "startMark", "startSend",
                                          "startReady", "closed", "stopped"}
                       /\ Head(r) # "connectedMedia"
    BY <1>2, <1>3, <2>1, RestsUncovered, Popping
  <2> QED
    BY <1>2, <1>3, <1>4, <1>5, <1>6, <1>7, <2>1, <2>2 DEF SessionStands, PbxStands, LockInv,
       HangupInv, HoldInv, BoundInv, PastInv, Past, StreamInv, CloseInv, ResultInv, CountInv,
       Stands, At, Idle, Thread
<1>8. CASE result' = result /\ Then("session", <<"append", "callback", "getRx">>)
  <2>1. todo'["session"] = <<"append", "callback", "getRx">> \o r /\ todo'["pbx"] = todo["pbx"]
    BY <1>8, <1>2
  <2>2. "append" \in Step /\ "callback" \in Step /\ "getRx" \in Step
    BY AllSteps
  <2>3. On("getRx", r) \in Seq(Step)
        /\ \A x : In(x, On("getRx", r)) <=> x = "getRx" \/ In(x, r)
    BY <1>3, <2>2, StackFacts
  <2>4. PICK q1 \in Seq(Step) :
           q1 = On("getRx", r) /\ \A x : In(x, q1) <=> x = "getRx" \/ In(x, r)
    BY <2>3
  <2>5. On("callback", q1) \in Seq(Step)
        /\ \A x : In(x, On("callback", q1)) <=> x = "callback" \/ In(x, q1)
    BY <2>4, <2>2, StackFacts
  <2>6. PICK q2 \in Seq(Step) :
           q2 = On("callback", q1) /\ \A x : In(x, q2) <=> x = "callback" \/ In(x, q1)
    BY <2>5
  <2>7. <<"append", "callback", "getRx">> \o r = On("append", On("callback", On("getRx", r)))
    BY <1>3, <2>2, PushStep, SMTT(30)
  <2>8. <<"append", "callback", "getRx">> \o r = On("append", q2)
    BY <2>7, <2>4, <2>6
  <2>9. Stands("session", "append", q2)'
    BY <1>3, <2>1, <2>8, <2>2, <2>6, StandingNext, PbxThread
  <2>10. q2 \in SessionRests("append")
    BY <1>2, RestTable, <2>4, <2>6, <1>4 DEF Getting
  <2> QED
    BY <1>2, <1>3, <1>4, <1>5, <1>6, <1>8, <2>1, <2>4, <2>6, <2>9, <2>10 DEF SessionStands,
       PbxStands, LockInv, HangupInv, HoldInv, BoundInv, PastInv, Past, StreamInv, CloseInv,
       ResultInv, CountInv, Stands, At, Idle, Thread
<1> QED
  BY <1>7, <1>8 DEF Opened, OpenedSteps

(* The reception is active. *)
LEMMA AppendRxKeeps ==
    ASSUME TypeInv, SilentInv, AppendRx("session")
    PROVE  SilentInv'
<1> USE DEF TypeInv, SilentInv
<1>1. At("session", "append")
  BY DEF AppendRx
<1>2. PICK r \in SessionRests("append") :
         /\ Stands("session", "append", r)
         /\ \A steps : Then("session", steps) =>
               todo'["session"] = steps \o r /\ todo'["pbx"] = todo["pbx"]
  BY <1>1, SessionAt
<1>3. r \in Seq(Step)
  BY <1>2 DEF Stands
<1>4. lock' = lock /\ result' = result /\ inflight' = inflight /\ call' = call
  BY DEF AppendRx, rtpOnly
<1>5. rtp'.rx = rtp.rx \cup {"active"} /\ rtp'.tx = rtp.tx /\ rtp'.cb = rtp.cb
  BY DEF AppendRx, rtpOnly, TypeOK, Rtp
<1>6. (MayReceive' <=> MayReceive) /\ (MaySend' <=> MaySend) /\ Opens' = Opens /\ Acks' = Acks
  BY NoMessage DEF AppendRx, rtpOnly
<1>7. CASE Done("session")
  <2>1. todo'["session"] = r /\ todo'["pbx"] = todo["pbx"]
    BY <1>7, <1>2, <1>3, PushStep DEF Done
  <2>2. /\ SessionStands'
        /\ r # <<>> => /\ Head(r) \notin {"openMark", "openSend", "startMark", "startSend",
                                          "startReady", "closed", "stopped"}
                       /\ Head(r) # "connectedMedia"
    BY <1>2, <1>3, <2>1, RestsUncovered, Popping
  <2> QED
    BY <1>2, <1>3, <1>4, <1>5, <1>6, <1>7, <2>1, <2>2 DEF SessionStands, PbxStands, LockInv,
       HangupInv, HoldInv, BoundInv, PastInv, Past, StreamInv, CloseInv, ResultInv, CountInv,
       Stands, At, Idle, Thread
<1> QED
  BY <1>7 DEF AppendRx, rtpOnly

(* The callback of the reception. *)
LEMMA CallbackKeeps ==
    ASSUME TypeInv, SilentInv, Callback("session")
    PROVE  SilentInv'
<1> USE DEF TypeInv, SilentInv
<1>1. At("session", "callback")
  BY DEF Callback
<1>2. PICK r \in SessionRests("callback") :
         /\ Stands("session", "callback", r)
         /\ \A steps : Then("session", steps) =>
               todo'["session"] = steps \o r /\ todo'["pbx"] = todo["pbx"]
  BY <1>1, SessionAt
<1>3. r \in Seq(Step)
  BY <1>2 DEF Stands
<1>4. r = Getting /\ \A x : In(x, r) <=> x \in {"getRx", "setRx", "answered"}
  BY <1>2, RestTable, Contents
<1>5. lock' = lock /\ result' = result /\ inflight' = inflight /\ call' = call
  BY DEF Callback, rtpOnly
<1>6. rtp'.rx = rtp.rx /\ rtp'.tx = rtp.tx
  BY DEF Callback, rtpOnly, TypeOK, Rtp, RunCallback
<1>7. (MayReceive' <=> MayReceive) /\ (MaySend' <=> MaySend) /\ Opens' = Opens /\ Acks' = Acks
  BY NoMessage DEF Callback, rtpOnly
<1>8. CASE Done("session")
  <2>1. todo'["session"] = r /\ todo'["pbx"] = todo["pbx"]
    BY <1>8, <1>2, <1>3, PushStep DEF Done
  <2>2. /\ SessionStands'
        /\ r # <<>> => /\ Head(r) \notin {"openMark", "openSend", "startMark", "startSend",
                                          "startReady", "closed", "stopped"}
                       /\ Head(r) # "connectedMedia"
    BY <1>2, <1>3, <2>1, RestsUncovered, Popping
  <2> QED
    BY <1>2, <1>3, <1>4, <1>5, <1>6, <1>7, <1>8, <2>1, <2>2 DEF SessionStands, PbxStands,
       LockInv, HangupInv, HoldInv, BoundInv, PastInv, Past, StreamInv, CloseInv, ResultInv,
       CountInv, Stands, At, Idle, Thread
<1>9. CASE Then("session", <<"start">>)
  <2>1. todo'["session"] = <<"start">> \o r /\ todo'["pbx"] = todo["pbx"]
    BY <1>9, <1>2
  <2>2. "start" \in Step
    BY AllSteps
  <2>3. <<"start">> \o r = On("start", r)
    BY <1>3, <2>2, PushStep
  <2>4. Stands("session", "start", r)'
    BY <1>3, <2>1, <2>3, <2>2, <1>3, StandingNext, PbxThread
  <2>5. r \in SessionRests("start")
    BY <1>2, RestTable, <1>4 DEF StartRests
  <2> QED
    BY <1>2, <1>3, <1>4, <1>5, <1>6, <1>7, <1>9, <2>1, <2>4, <2>5 DEF SessionStands,
       PbxStands, LockInv, HangupInv, HoldInv, BoundInv, PastInv, Past, StreamInv, CloseInv,
       ResultInv, CountInv, Stands, At, Idle, Thread
<1>10. CASE Then("session", <<"complete">>)
  <2>1. todo'["session"] = <<"complete">> \o r /\ todo'["pbx"] = todo["pbx"]
    BY <1>10, <1>2
  <2>2. "complete" \in Step
    BY AllSteps
  <2>3. <<"complete">> \o r = On("complete", r)
    BY <1>3, <2>2, PushStep
  <2>4. Stands("session", "complete", r)'
    BY <1>3, <2>1, <2>3, <2>2, <1>3, StandingNext, PbxThread
  <2>5. r \in SessionRests("complete")
    BY <1>2, RestTable, <1>4
  <2> QED
    BY <1>2, <1>3, <1>4, <1>5, <1>6, <1>7, <1>10, <2>1, <2>4, <2>5 DEF SessionStands,
       PbxStands, LockInv, HangupInv, HoldInv, BoundInv, PastInv, Past, StreamInv, CloseInv,
       ResultInv, CountInv, Stands, At, Idle, Thread
<1> QED
  BY <1>8, <1>9, <1>10 DEF Callback, rtpOnly, RunCallback, CallbackSteps, Done

(* What is to be recorded is what is recorded. *)
LEMMA GetRxKeeps ==
    ASSUME TypeInv, SilentInv, GetRx("session")
    PROVE  SilentInv'
<1> USE DEF TypeInv, SilentInv
<1>1. At("session", "getRx")
  BY DEF GetRx
<1>2. PICK r \in SessionRests("getRx") :
         /\ Stands("session", "getRx", r)
         /\ \A steps : Then("session", steps) =>
               todo'["session"] = steps \o r /\ todo'["pbx"] = todo["pbx"]
  BY <1>1, SessionAt
<1>3. r \in Seq(Step)
  BY <1>2 DEF Stands
<1>4. r = Setting /\ \A x : In(x, r) <=> x \in {"setRx", "answered"}
  BY <1>2, RestTable, Contents
<1>5. lock' = lock /\ inflight' = inflight /\ call' = call /\ rtp' = rtp
  BY DEF GetRx
<1>6. (MayReceive' <=> MayReceive) /\ (MaySend' <=> MaySend) /\ Opens' = Opens /\ Acks' = Acks
  BY NoMessage DEF GetRx
<1>7. result' = rtp.rx
  BY DEF GetRx
<1>8. CASE Done("session")
  <2>1. todo'["session"] = r /\ todo'["pbx"] = todo["pbx"]
    BY <1>8, <1>2, <1>3, PushStep DEF Done
  <2>2. /\ SessionStands'
        /\ r # <<>> => /\ Head(r) \notin {"openMark", "openSend", "startMark", "startSend",
                                          "startReady", "closed", "stopped"}
                       /\ Head(r) # "connectedMedia"
    BY <1>2, <1>3, <2>1, RestsUncovered, Popping
  <2> QED
    BY <1>2, <1>3, <1>4, <1>5, <1>6, <1>7, <1>8, <2>1, <2>2 DEF SessionStands, PbxStands,
       LockInv, HangupInv, HoldInv, BoundInv, PastInv, Past, StreamInv, CloseInv, ResultInv,
       CountInv, Stands, At, Idle, Thread
<1> QED
  BY <1>8 DEF GetRx

(* The result of an opening is recorded. *)
LEMMA SetRxKeeps ==
    ASSUME TypeInv, SilentInv, SetRx("session")
    PROVE  SilentInv'
<1> USE DEF TypeInv, SilentInv
<1>1. At("session", "setRx")
  BY DEF SetRx
<1>2. PICK r \in SessionRests("setRx") :
         /\ Stands("session", "setRx", r)
         /\ \A steps : Then("session", steps) =>
               todo'["session"] = steps \o r /\ todo'["pbx"] = todo["pbx"]
  BY <1>1, SessionAt
<1>3. r \in Seq(Step)
  BY <1>2 DEF Stands
<1>4. r = Answering /\ \A x : In(x, r) <=> x = "answered"
  BY <1>2, RestTable, Contents
<1>5. lock' = lock /\ result' = result /\ inflight' = inflight /\ call' = call
  BY DEF SetRx, rtpOnly
<1>6. rtp'.rx = result /\ rtp'.tx = rtp.tx /\ rtp'.cb = rtp.cb
  BY DEF SetRx, rtpOnly, TypeOK, Rtp
<1>7. (MayReceive' <=> MayReceive) /\ (MaySend' <=> MaySend) /\ Opens' = Opens /\ Acks' = Acks
  BY NoMessage DEF SetRx, rtpOnly
<1>8. CASE Done("session")
  <2>1. todo'["session"] = r /\ todo'["pbx"] = todo["pbx"]
    BY <1>8, <1>2, <1>3, PushStep DEF Done
  <2>2. /\ SessionStands'
        /\ r # <<>> => /\ Head(r) \notin {"openMark", "openSend", "startMark", "startSend",
                                          "startReady", "closed", "stopped"}
                       /\ Head(r) # "connectedMedia"
    BY <1>2, <1>3, <2>1, RestsUncovered, Popping
  <2> QED
    BY <1>2, <1>3, <1>4, <1>5, <1>6, <1>7, <1>8, <2>1, <2>2 DEF SessionStands, PbxStands,
       LockInv, HangupInv, HoldInv, BoundInv, PastInv, Past, StreamInv, CloseInv, ResultInv,
       CountInv, Stands, At, Idle, Thread
<1> QED
  BY <1>8 DEF SetRx, rtpOnly

(* The request is answered. *)
LEMMA AnsweredKeeps ==
    ASSUME TypeInv, SilentInv, Answered("session")
    PROVE  SilentInv'
<1> USE DEF TypeInv, SilentInv
<1>1. At("session", "answered")
  BY DEF Answered
<1>2. PICK r \in SessionRests("answered") :
         /\ Stands("session", "answered", r)
         /\ \A steps : Then("session", steps) =>
               todo'["session"] = steps \o r /\ todo'["pbx"] = todo["pbx"]
  BY <1>1, SessionAt
<1>3. r \in Seq(Step)
  BY <1>2 DEF Stands
<1>4. r = <<>> /\ \A x : ~In(x, r)
  BY <1>2, RestTable, StackFacts
<1>5. lock' = lock /\ result' = result /\ call' = call /\ rtp' = rtp
  BY DEF Answered
<1>6. (MayReceive' <=> MayReceive) /\ (MaySend' <=> MaySend) /\ Opens' = Opens /\ Acks' = Acks
  BY NoMessage DEF Answered
<1>7. inflight \in Nat /\ Opens \in Nat /\ Acks \in Nat
  BY CountTypes DEF TypeOK
<1>8. inflight' = IF inflight > 0 THEN inflight - 1 ELSE 0
  BY DEF Answered, OneFewer
<1>9. CASE Done("session")
  <2>1. todo'["session"] = r /\ todo'["pbx"] = todo["pbx"]
    BY <1>9, <1>2, <1>3, PushStep DEF Done
  <2>2. /\ SessionStands'
        /\ r # <<>> => /\ Head(r) \notin {"openMark", "openSend", "startMark", "startSend",
                                          "startReady", "closed", "stopped"}
                       /\ Head(r) # "connectedMedia"
    BY <1>2, <1>3, <2>1, RestsUncovered, Popping
  <2> QED
    BY <1>2, <1>3, <1>4, <1>5, <1>6, <1>7, <1>8, <1>9, <2>1, <2>2 DEF SessionStands,
       PbxStands, LockInv, HangupInv, HoldInv, BoundInv, PastInv, Past, StreamInv, CloseInv,
       ResultInv, CountInv, Stands, At, Idle, Thread
<1> QED
  BY <1>9 DEF Answered

(* The phone has answered a request to start. *)
LEMMA StartAckKeeps ==
    ASSUME TypeInv, SilentInv, StartAck("session")
    PROVE  SilentInv'
<1> USE DEF TypeInv, SilentInv
<1>1. At("session", "startAck")
  BY DEF StartAck
<1>2. PICK r \in SessionRests("startAck") :
         /\ Stands("session", "startAck", r)
         /\ \A steps : Then("session", steps) =>
               todo'["session"] = steps \o r /\ todo'["pbx"] = todo["pbx"]
  BY <1>1, SessionAt
<1>3. r \in Seq(Step)
  BY <1>2 DEF Stands
<1>4. r = <<>> /\ \A x : ~In(x, r)
  BY <1>2, RestTable, StackFacts
<1>5. "setTx" \in Step
  BY AllSteps
<1>6. \/ Refused \o <<"setTx">> = <<"close", "stop", "setTx">>
      \/ Refused \o <<"setTx">> = <<"close", "stop", "endcall", "setTx">>
  BY <1>5, RefusedIs
<1>7. lock' = lock /\ inflight' = inflight /\ call' = call /\ rtp' = rtp
  BY DEF StartAck
<1>8. CASE result' = {"active"} /\ toPhone' = toPhone /\ Then("session", <<"started", "setTx">>)
  <2>1. todo'["session"] = <<"started", "setTx">> \o r /\ todo'["pbx"] = todo["pbx"]
    BY <1>8, <1>2
  <2>2. "started" \in Step /\ "setTx" \in Step
    BY AllSteps
  <2>3. On("setTx", r) \in Seq(Step)
        /\ \A x : In(x, On("setTx", r)) <=> x = "setTx" \/ In(x, r)
    BY <1>3, <2>2, StackFacts
  <2>4. PICK q1 \in Seq(Step) :
           q1 = On("setTx", r) /\ \A x : In(x, q1) <=> x = "setTx" \/ In(x, r)
    BY <2>3
  <2>5. <<"started", "setTx">> \o r = On("started", On("setTx", r))
    BY <1>3, <2>2, PushStep
  <2>6. <<"started", "setTx">> \o r = On("started", q1)
    BY <2>5, <2>4
  <2>7. Stands("session", "started", q1)'
    BY <1>3, <2>1, <2>6, <2>2, <2>4, StandingNext, PbxThread
  <2>8. q1 \in SessionRests("started")
    BY <1>2, RestTable, <2>4, <1>4
  <2>9. (MayReceive' <=> MayReceive) /\ (MaySend' <=> MaySend) /\ Opens' = Opens /\ Acks' = Acks
    BY <1>8, NoMessage DEF StartAck
  <2>10. SessionStands'
    BY <1>2, <1>3, <1>4, <1>5, <1>6, <1>7, <1>8, <2>1, <2>4, <2>7, <2>8, <2>9 DEF
       SessionStands, Stands, At, Idle, Thread
  <2>11. PbxStands'
    BY <1>2, <1>3, <1>4, <1>5, <1>6, <1>7, <1>8, <2>1, <2>4, <2>7, <2>8, <2>9 DEF PbxStands,
       Stands, At, Idle, Thread
  <2>12. LockInv'
    BY <1>2, <1>3, <1>4, <1>5, <1>6, <1>7, <1>8, <2>1, <2>4, <2>7, <2>8, <2>9 DEF LockInv,
       Stands, At, Idle, Thread
  <2>13. HangupInv'
    BY <1>2, <1>3, <1>4, <1>5, <1>6, <1>7, <1>8, <2>1, <2>4, <2>7, <2>8, <2>9 DEF HangupInv,
       LockInv, Stands, At, Idle, Thread
  <2>14. HoldInv'
    BY <1>2, <1>3, <1>4, <1>5, <1>6, <1>7, <1>8, <2>1, <2>4, <2>7, <2>8, <2>9 DEF HoldInv,
       Stands, At, Idle, Thread
  <2>15. BoundInv'
    BY <1>2, <1>3, <1>4, <1>5, <1>6, <1>7, <1>8, <2>1, <2>4, <2>7, <2>8, <2>9 DEF BoundInv,
       Stands, At, Idle, Thread
  <2>16. PastInv'
    BY <1>2, <1>3, <1>4, <1>5, <1>6, <1>7, <1>8, <2>1, <2>4, <2>7, <2>8, <2>9 DEF PastInv,
       Past, HangupInv, Stands, At, Idle, Thread
  <2>17. StreamInv'
    BY <1>2, <1>3, <1>4, <1>5, <1>6, <1>7, <1>8, <2>1, <2>4, <2>7, <2>8, <2>9 DEF StreamInv,
       BoundInv, CloseInv, ResultInv, Stands, At, Idle, Thread
  <2>18. CloseInv'
    BY <1>2, <1>3, <1>4, <1>5, <1>6, <1>7, <1>8, <2>1, <2>4, <2>7, <2>8, <2>9 DEF CloseInv,
       StreamInv, LockInv, PastInv, Past, Stands, At, Idle, Thread
  <2>19. ResultInv'
    BY <1>2, <1>3, <1>4, <1>5, <1>6, <1>7, <1>8, <2>1, <2>4, <2>7, <2>8, <2>9 DEF ResultInv,
       StreamInv, Stands, At, Idle, Thread
  <2>20. CountInv'
    BY <1>2, <1>3, <1>4, <1>5, <1>6, <1>7, <1>8, <2>1, <2>4, <2>7, <2>8, <2>9 DEF CountInv,
       Past, LockInv, Stands, At, Idle, Thread
  <2> QED
    BY <2>10, <2>11, <2>12, <2>13, <2>14, <2>15, <2>16, <2>17, <2>18, <2>19, <2>20
<1>9. CASE /\ result' = {"error"} /\ toPhone' = toPhone
           /\ Then("session", <<"close", "stop", "setTx">>)
  <2>1. todo'["session"] = <<"close", "stop", "setTx">> \o r /\ todo'["pbx"] = todo["pbx"]
    BY <1>9, <1>2
  <2>2. "close" \in Step /\ "stop" \in Step /\ "setTx" \in Step
    BY AllSteps
  <2>3. On("setTx", r) \in Seq(Step)
        /\ \A x : In(x, On("setTx", r)) <=> x = "setTx" \/ In(x, r)
    BY <1>3, <2>2, StackFacts
  <2>4. PICK q1 \in Seq(Step) :
           q1 = On("setTx", r) /\ \A x : In(x, q1) <=> x = "setTx" \/ In(x, r)
    BY <2>3
  <2>5. On("stop", q1) \in Seq(Step)
        /\ \A x : In(x, On("stop", q1)) <=> x = "stop" \/ In(x, q1)
    BY <2>4, <2>2, StackFacts
  <2>6. PICK q2 \in Seq(Step) :
           q2 = On("stop", q1) /\ \A x : In(x, q2) <=> x = "stop" \/ In(x, q1)
    BY <2>5
  <2>7. <<"close", "stop", "setTx">> \o r = On("close", On("stop", On("setTx", r)))
    BY <1>3, <2>2, PushStep, SMTT(30)
  <2>8. <<"close", "stop", "setTx">> \o r = On("close", q2)
    BY <2>7, <2>4, <2>6
  <2>9. Stands("session", "close", q2)'
    BY <1>3, <2>1, <2>8, <2>2, <2>6, StandingNext, PbxThread
  <2>10. q2 \in SessionRests("close")
    BY <1>2, RestTable, <2>4, <2>6, <1>4 DEF CloseRests, StopRests, Settled, Setting
  <2>11. (MayReceive' <=> MayReceive) /\ (MaySend' <=> MaySend) /\ Opens' = Opens /\ Acks' = Acks
    BY <1>9, NoMessage DEF StartAck
  <2>12. SessionStands'
    BY <1>2, <1>3, <1>4, <1>5, <1>6, <1>7, <1>9, <2>1, <2>4, <2>6, <2>9, <2>10, <2>11 DEF
       SessionStands, Stands, At, Idle, Thread
  <2>13. PbxStands'
    BY <1>2, <1>3, <1>4, <1>5, <1>6, <1>7, <1>9, <2>1, <2>4, <2>6, <2>9, <2>10, <2>11 DEF
       PbxStands, Stands, At, Idle, Thread
  <2>14. LockInv'
    BY <1>2, <1>3, <1>4, <1>5, <1>6, <1>7, <1>9, <2>1, <2>4, <2>6, <2>9, <2>10, <2>11 DEF
       LockInv, Stands, At, Idle, Thread
  <2>15. HangupInv'
    BY <1>2, <1>3, <1>4, <1>5, <1>6, <1>7, <1>9, <2>1, <2>4, <2>6, <2>9, <2>10, <2>11 DEF
       HangupInv, LockInv, Stands, At, Idle, Thread
  <2>16. HoldInv'
    BY <1>2, <1>3, <1>4, <1>5, <1>6, <1>7, <1>9, <2>1, <2>4, <2>6, <2>9, <2>10, <2>11 DEF
       HoldInv, Stands, At, Idle, Thread
  <2>17. BoundInv'
    BY <1>2, <1>3, <1>4, <1>5, <1>6, <1>7, <1>9, <2>1, <2>4, <2>6, <2>9, <2>10, <2>11 DEF
       BoundInv, Stands, At, Idle, Thread
  <2>18. PastInv'
    BY <1>2, <1>3, <1>4, <1>5, <1>6, <1>7, <1>9, <2>1, <2>4, <2>6, <2>9, <2>10, <2>11 DEF
       PastInv, Past, HangupInv, Stands, At, Idle, Thread
  <2>19. StreamInv'
    BY <1>2, <1>3, <1>4, <1>5, <1>6, <1>7, <1>9, <2>1, <2>4, <2>6, <2>9, <2>10, <2>11 DEF
       StreamInv, BoundInv, CloseInv, ResultInv, Stands, At, Idle, Thread
  <2>20. CloseInv'
    BY <1>2, <1>3, <1>4, <1>5, <1>6, <1>7, <1>9, <2>1, <2>4, <2>6, <2>9, <2>10, <2>11 DEF
       CloseInv, StreamInv, LockInv, PastInv, Past, Stands, At, Idle, Thread
  <2>21. ResultInv'
    BY <1>2, <1>3, <1>4, <1>5, <1>6, <1>7, <1>9, <2>1, <2>4, <2>6, <2>9, <2>10, <2>11 DEF
       ResultInv, StreamInv, Stands, At, Idle, Thread
  <2>22. CountInv'
    BY <1>2, <1>3, <1>4, <1>5, <1>6, <1>7, <1>9, <2>1, <2>4, <2>6, <2>9, <2>10, <2>11 DEF
       CountInv, Past, LockInv, Stands, At, Idle, Thread
  <2> QED
    BY <2>12, <2>13, <2>14, <2>15, <2>16, <2>17, <2>18, <2>19, <2>20, <2>21, <2>22
<1>10. CASE /\ result' = {"error"} /\ toPhone' = toPhone
            /\ Then("session", <<"close", "stop", "endcall", "setTx">>)
  <2>1. /\ todo'["session"] = <<"close", "stop", "endcall", "setTx">> \o r
        /\ todo'["pbx"] = todo["pbx"]
    BY <1>10, <1>2
  <2>2. "close" \in Step /\ "stop" \in Step /\ "endcall" \in Step /\ "setTx" \in Step
    BY AllSteps
  <2>3. On("setTx", r) \in Seq(Step)
        /\ \A x : In(x, On("setTx", r)) <=> x = "setTx" \/ In(x, r)
    BY <1>3, <2>2, StackFacts
  <2>4. PICK q1 \in Seq(Step) :
           q1 = On("setTx", r) /\ \A x : In(x, q1) <=> x = "setTx" \/ In(x, r)
    BY <2>3
  <2>5. On("endcall", q1) \in Seq(Step)
        /\ \A x : In(x, On("endcall", q1)) <=> x = "endcall" \/ In(x, q1)
    BY <2>4, <2>2, StackFacts
  <2>6. PICK q2 \in Seq(Step) :
           q2 = On("endcall", q1) /\ \A x : In(x, q2) <=> x = "endcall" \/ In(x, q1)
    BY <2>5
  <2>7. On("stop", q2) \in Seq(Step)
        /\ \A x : In(x, On("stop", q2)) <=> x = "stop" \/ In(x, q2)
    BY <2>6, <2>2, StackFacts
  <2>8. PICK q3 \in Seq(Step) :
           q3 = On("stop", q2) /\ \A x : In(x, q3) <=> x = "stop" \/ In(x, q2)
    BY <2>7
  <2>9. <<"close", "stop", "endcall", "setTx">> \o r
          = On("close", On("stop", On("endcall", On("setTx", r))))
    BY <1>3, <2>2, PushStep, SMTT(30)
  <2>10. <<"close", "stop", "endcall", "setTx">> \o r = On("close", q3)
    BY <2>9, <2>4, <2>6, <2>8
  <2>11. Stands("session", "close", q3)'
    BY <1>3, <2>1, <2>10, <2>2, <2>8, StandingNext, PbxThread
  <2>12. q3 \in SessionRests("close")
    BY <1>2, RestTable, <2>4, <2>6, <2>8, <1>4 DEF CloseRests, StopRests, Settled, Setting
  <2>13. (MayReceive' <=> MayReceive) /\ (MaySend' <=> MaySend) /\ Opens' = Opens /\ Acks' = Acks
    BY <1>10, NoMessage DEF StartAck
  <2>14. SessionStands'
    BY <1>2, <1>3, <1>4, <1>5, <1>6, <1>7, <1>10, <2>1, <2>4, <2>6, <2>8, <2>11, <2>12, <2>13
       DEF SessionStands, Stands, At, Idle, Thread
  <2>15. PbxStands'
    BY <1>2, <1>3, <1>4, <1>5, <1>6, <1>7, <1>10, <2>1, <2>4, <2>6, <2>8, <2>11, <2>12, <2>13
       DEF PbxStands, Stands, At, Idle, Thread
  <2>16. LockInv'
    BY <1>2, <1>3, <1>4, <1>5, <1>6, <1>7, <1>10, <2>1, <2>4, <2>6, <2>8, <2>11, <2>12, <2>13
       DEF LockInv, Stands, At, Idle, Thread
  <2>17. HangupInv'
    BY <1>2, <1>3, <1>4, <1>5, <1>6, <1>7, <1>10, <2>1, <2>4, <2>6, <2>8, <2>11, <2>12, <2>13
       DEF HangupInv, LockInv, Stands, At, Idle, Thread
  <2>18. HoldInv'
    BY <1>2, <1>3, <1>4, <1>5, <1>6, <1>7, <1>10, <2>1, <2>4, <2>6, <2>8, <2>11, <2>12, <2>13
       DEF HoldInv, Stands, At, Idle, Thread
  <2>19. BoundInv'
    BY <1>2, <1>3, <1>4, <1>5, <1>6, <1>7, <1>10, <2>1, <2>4, <2>6, <2>8, <2>11, <2>12, <2>13
       DEF BoundInv, Stands, At, Idle, Thread
  <2>20. PastInv'
    BY <1>2, <1>3, <1>4, <1>5, <1>6, <1>7, <1>10, <2>1, <2>4, <2>6, <2>8, <2>11, <2>12, <2>13
       DEF PastInv, Past, HangupInv, Stands, At, Idle, Thread
  <2>21. StreamInv'
    BY <1>2, <1>3, <1>4, <1>5, <1>6, <1>7, <1>10, <2>1, <2>4, <2>6, <2>8, <2>11, <2>12, <2>13
       DEF StreamInv, BoundInv, CloseInv, ResultInv, Stands, At, Idle, Thread
  <2>22. CloseInv'
    BY <1>2, <1>3, <1>4, <1>5, <1>6, <1>7, <1>10, <2>1, <2>4, <2>6, <2>8, <2>11, <2>12, <2>13
       DEF CloseInv, StreamInv, LockInv, PastInv, Past, Stands, At, Idle, Thread
  <2>23. ResultInv'
    BY <1>2, <1>3, <1>4, <1>5, <1>6, <1>7, <1>10, <2>1, <2>4, <2>6, <2>8, <2>11, <2>12, <2>13
       DEF ResultInv, StreamInv, Stands, At, Idle, Thread
  <2>24. CountInv'
    BY <1>2, <1>3, <1>4, <1>5, <1>6, <1>7, <1>10, <2>1, <2>4, <2>6, <2>8, <2>11, <2>12, <2>13
       DEF CountInv, Past, LockInv, Stands, At, Idle, Thread
  <2> QED
    BY <2>14, <2>15, <2>16, <2>17, <2>18, <2>19, <2>20, <2>21, <2>22, <2>23, <2>24
<1>11. CASE result' = result /\ toPhone' = toPhone /\ Done("session")
  <2>1. todo'["session"] = r /\ todo'["pbx"] = todo["pbx"]
    BY <1>11, <1>2, <1>3, PushStep DEF Done
  <2>2. /\ SessionStands'
        /\ r # <<>> => /\ Head(r) \notin {"openMark", "openSend", "startMark", "startSend",
                                          "startReady", "closed", "stopped"}
                       /\ Head(r) # "connectedMedia"
    BY <1>2, <1>3, <2>1, RestsUncovered, Popping
  <2>3. (MayReceive' <=> MayReceive) /\ (MaySend' <=> MaySend) /\ Opens' = Opens /\ Acks' = Acks
    BY <1>11, NoMessage DEF StartAck
  <2>4. SessionStands'
    BY <1>2, <1>3, <1>4, <1>5, <1>6, <1>7, <1>11, <2>1, <2>2, <2>3 DEF SessionStands, Stands,
       At, Idle, Thread
  <2>5. PbxStands'
    BY <1>2, <1>3, <1>4, <1>5, <1>6, <1>7, <1>11, <2>1, <2>2, <2>3 DEF PbxStands, Stands, At,
       Idle, Thread
  <2>6. LockInv'
    BY <1>2, <1>3, <1>4, <1>5, <1>6, <1>7, <1>11, <2>1, <2>2, <2>3 DEF LockInv, Stands, At,
       Idle, Thread
  <2>7. HangupInv'
    BY <1>2, <1>3, <1>4, <1>5, <1>6, <1>7, <1>11, <2>1, <2>2, <2>3 DEF HangupInv, LockInv,
       Stands, At, Idle, Thread
  <2>8. HoldInv'
    BY <1>2, <1>3, <1>4, <1>5, <1>6, <1>7, <1>11, <2>1, <2>2, <2>3 DEF HoldInv, Stands, At,
       Idle, Thread
  <2>9. BoundInv'
    BY <1>2, <1>3, <1>4, <1>5, <1>6, <1>7, <1>11, <2>1, <2>2, <2>3 DEF BoundInv, Stands, At,
       Idle, Thread
  <2>10. PastInv'
    BY <1>2, <1>3, <1>4, <1>5, <1>6, <1>7, <1>11, <2>1, <2>2, <2>3 DEF PastInv, Past,
       HangupInv, Stands, At, Idle, Thread
  <2>11. StreamInv'
    BY <1>2, <1>3, <1>4, <1>5, <1>6, <1>7, <1>11, <2>1, <2>2, <2>3 DEF StreamInv, BoundInv,
       CloseInv, ResultInv, Stands, At, Idle, Thread
  <2>12. CloseInv'
    BY <1>2, <1>3, <1>4, <1>5, <1>6, <1>7, <1>11, <2>1, <2>2, <2>3 DEF CloseInv, StreamInv,
       LockInv, PastInv, Past, Stands, At, Idle, Thread
  <2>13. ResultInv'
    BY <1>2, <1>3, <1>4, <1>5, <1>6, <1>7, <1>11, <2>1, <2>2, <2>3 DEF ResultInv, StreamInv,
       Stands, At, Idle, Thread
  <2>14. CountInv'
    BY <1>2, <1>3, <1>4, <1>5, <1>6, <1>7, <1>11, <2>1, <2>2, <2>3 DEF CountInv, Past,
       LockInv, Stands, At, Idle, Thread
  <2> QED
    BY <2>4, <2>5, <2>6, <2>7, <2>8, <2>9, <2>10, <2>11, <2>12, <2>13, <2>14
<1>12. CASE result' = result /\ toPhone' = toPhone \o <<"close", "stop">> /\ Done("session")
  <2>1. todo'["session"] = r /\ todo'["pbx"] = todo["pbx"]
    BY <1>12, <1>2, <1>3, PushStep DEF Done
  <2>2. /\ SessionStands'
        /\ r # <<>> => /\ Head(r) \notin {"openMark", "openSend", "startMark", "startSend",
                                          "startReady", "closed", "stopped"}
                       /\ Head(r) # "connectedMedia"
    BY <1>2, <1>3, <2>1, RestsUncovered, Popping
  <2>3. ~MayReceive' /\ ~MaySend' /\ Opens' = Opens /\ Acks' = Acks
    BY <1>12, SendingBoth, CountBoth DEF StartAck, Acks
  <2>4. SessionStands'
    BY <1>2, <1>3, <1>4, <1>5, <1>6, <1>7, <1>12, <2>1, <2>2, <2>3 DEF SessionStands, Stands,
       At, Idle, Thread
  <2>5. PbxStands'
    BY <1>2, <1>3, <1>4, <1>5, <1>6, <1>7, <1>12, <2>1, <2>2, <2>3 DEF PbxStands, Stands, At,
       Idle, Thread
  <2>6. LockInv'
    BY <1>2, <1>3, <1>4, <1>5, <1>6, <1>7, <1>12, <2>1, <2>2, <2>3 DEF LockInv, Stands, At,
       Idle, Thread
  <2>7. HangupInv'
    BY <1>2, <1>3, <1>4, <1>5, <1>6, <1>7, <1>12, <2>1, <2>2, <2>3 DEF HangupInv, LockInv,
       Stands, At, Idle, Thread
  <2>8. HoldInv'
    BY <1>2, <1>3, <1>4, <1>5, <1>6, <1>7, <1>12, <2>1, <2>2, <2>3 DEF HoldInv, Stands, At,
       Idle, Thread
  <2>9. BoundInv'
    BY <1>2, <1>3, <1>4, <1>5, <1>6, <1>7, <1>12, <2>1, <2>2, <2>3 DEF BoundInv, Stands, At,
       Idle, Thread
  <2>10. PastInv'
    BY <1>2, <1>3, <1>4, <1>5, <1>6, <1>7, <1>12, <2>1, <2>2, <2>3 DEF PastInv, Past,
       HangupInv, Stands, At, Idle, Thread
  <2>11. StreamInv'
    BY <1>2, <1>3, <1>4, <1>5, <1>6, <1>7, <1>12, <2>1, <2>2, <2>3 DEF StreamInv, BoundInv,
       CloseInv, ResultInv, Stands, At, Idle, Thread
  <2>12. CloseInv'
    BY <1>2, <1>3, <1>4, <1>5, <1>6, <1>7, <1>12, <2>1, <2>2, <2>3 DEF CloseInv, StreamInv,
       LockInv, PastInv, Past, Stands, At, Idle, Thread
  <2>13. ResultInv'
    BY <1>2, <1>3, <1>4, <1>5, <1>6, <1>7, <1>12, <2>1, <2>2, <2>3 DEF ResultInv, StreamInv,
       Stands, At, Idle, Thread
  <2>14. CountInv'
    BY <1>2, <1>3, <1>4, <1>5, <1>6, <1>7, <1>12, <2>1, <2>2, <2>3 DEF CountInv, Past,
       LockInv, Stands, At, Idle, Thread
  <2> QED
    BY <2>4, <2>5, <2>6, <2>7, <2>8, <2>9, <2>10, <2>11, <2>12, <2>13, <2>14
<1> QED
  BY <1>8, <1>9, <1>10, <1>11, <1>12, <1>5, <1>6 DEF StartAck

(* The phone sends. *)
LEMMA StartedKeeps ==
    ASSUME TypeInv, SilentInv, Started("session")
    PROVE  SilentInv'
<1> USE DEF TypeInv, SilentInv
<1>1. At("session", "started")
  BY DEF Started
<1>2. PICK r \in SessionRests("started") :
         /\ Stands("session", "started", r)
         /\ \A steps : Then("session", steps) =>
               todo'["session"] = steps \o r /\ todo'["pbx"] = todo["pbx"]
  BY <1>1, SessionAt
<1>3. r \in Seq(Step)
  BY <1>2 DEF Stands
<1>4. r = On("setTx", <<>>) /\ \A x : In(x, r) <=> x = "setTx"
  BY <1>2, RestTable, Contents
<1>5. lock' = lock /\ result' = result /\ inflight' = inflight /\ call' = call /\ rtp' = rtp
  BY DEF Started, nothing
<1>6. (MayReceive' <=> MayReceive) /\ (MaySend' <=> MaySend) /\ Opens' = Opens /\ Acks' = Acks
  BY NoMessage DEF Started, nothing
<1>7. CASE Done("session")
  <2>1. todo'["session"] = r /\ todo'["pbx"] = todo["pbx"]
    BY <1>7, <1>2, <1>3, PushStep DEF Done
  <2>2. /\ SessionStands'
        /\ r # <<>> => /\ Head(r) \notin {"openMark", "openSend", "startMark", "startSend",
                                          "startReady", "closed", "stopped"}
                       /\ Head(r) # "connectedMedia"
    BY <1>2, <1>3, <2>1, RestsUncovered, Popping
  <2> QED
    BY <1>2, <1>3, <1>4, <1>5, <1>6, <1>7, <2>1, <2>2 DEF SessionStands, PbxStands, LockInv,
       HangupInv, HoldInv, BoundInv, PastInv, Past, StreamInv, CloseInv, ResultInv, CountInv,
       Stands, At, Idle, Thread
<1>8. CASE Then("session", <<"appendTx">>)
  <2>1. todo'["session"] = <<"appendTx">> \o r /\ todo'["pbx"] = todo["pbx"]
    BY <1>8, <1>2
  <2>2. "appendTx" \in Step
    BY AllSteps
  <2>3. <<"appendTx">> \o r = On("appendTx", r)
    BY <1>3, <2>2, PushStep
  <2>4. Stands("session", "appendTx", r)'
    BY <1>3, <2>1, <2>3, <2>2, <1>3, StandingNext, PbxThread
  <2>5. r \in SessionRests("appendTx")
    BY <1>2, RestTable, <1>4
  <2> QED
    BY <1>2, <1>3, <1>4, <1>5, <1>6, <1>8, <2>1, <2>4, <2>5 DEF SessionStands, PbxStands,
       LockInv, HangupInv, HoldInv, BoundInv, PastInv, Past, StreamInv, CloseInv, ResultInv,
       CountInv, Stands, At, Idle, Thread
<1> QED
  BY <1>7, <1>8 DEF Started, nothing, Done

(* The transmission is active. *)
LEMMA AppendTxKeeps ==
    ASSUME TypeInv, SilentInv, AppendTx("session")
    PROVE  SilentInv'
<1> USE DEF TypeInv, SilentInv
<1>1. At("session", "appendTx")
  BY DEF AppendTx
<1>2. PICK r \in SessionRests("appendTx") :
         /\ Stands("session", "appendTx", r)
         /\ \A steps : Then("session", steps) =>
               todo'["session"] = steps \o r /\ todo'["pbx"] = todo["pbx"]
  BY <1>1, SessionAt
<1>3. r \in Seq(Step)
  BY <1>2 DEF Stands
<1>4. r = On("setTx", <<>>) /\ \A x : In(x, r) <=> x = "setTx"
  BY <1>2, RestTable, Contents
<1>5. lock' = lock /\ result' = result /\ inflight' = inflight /\ call' = call
  BY DEF AppendTx, rtpOnly
<1>6. rtp'.rx = rtp.rx /\ rtp'.tx = rtp.tx \cup {"active"} /\ rtp'.cb = rtp.cb
  BY DEF AppendTx, rtpOnly, TypeOK, Rtp
<1>7. (MayReceive' <=> MayReceive) /\ (MaySend' <=> MaySend) /\ Opens' = Opens /\ Acks' = Acks
  BY NoMessage DEF AppendTx, rtpOnly
<1>8. CASE Done("session")
  <2>1. todo'["session"] = r /\ todo'["pbx"] = todo["pbx"]
    BY <1>8, <1>2, <1>3, PushStep DEF Done
  <2>2. /\ SessionStands'
        /\ r # <<>> => /\ Head(r) \notin {"openMark", "openSend", "startMark", "startSend",
                                          "startReady", "closed", "stopped"}
                       /\ Head(r) # "connectedMedia"
    BY <1>2, <1>3, <2>1, RestsUncovered, Popping
  <2> QED
    BY <1>2, <1>3, <1>4, <1>5, <1>6, <1>7, <1>8, <2>1, <2>2 DEF SessionStands, PbxStands,
       LockInv, HangupInv, HoldInv, BoundInv, PastInv, Past, StreamInv, CloseInv, ResultInv,
       CountInv, Stands, At, Idle, Thread
<1> QED
  BY <1>8 DEF AppendTx, rtpOnly

(* The result of a starting is recorded. *)
LEMMA SetTxKeeps ==
    ASSUME TypeInv, SilentInv, SetTx("session")
    PROVE  SilentInv'
<1> USE DEF TypeInv, SilentInv
<1>1. At("session", "setTx")
  BY DEF SetTx
<1>2. PICK r \in SessionRests("setTx") :
         /\ Stands("session", "setTx", r)
         /\ \A steps : Then("session", steps) =>
               todo'["session"] = steps \o r /\ todo'["pbx"] = todo["pbx"]
  BY <1>1, SessionAt
<1>3. r \in Seq(Step)
  BY <1>2 DEF Stands
<1>4. r = <<>> /\ \A x : ~In(x, r)
  BY <1>2, RestTable, StackFacts
<1>5. lock' = lock /\ result' = result /\ inflight' = inflight /\ call' = call
  BY DEF SetTx, rtpOnly
<1>6. rtp'.rx = rtp.rx /\ rtp'.tx = result /\ rtp'.cb = rtp.cb
  BY DEF SetTx, rtpOnly, TypeOK, Rtp
<1>7. (MayReceive' <=> MayReceive) /\ (MaySend' <=> MaySend) /\ Opens' = Opens /\ Acks' = Acks
  BY NoMessage DEF SetTx, rtpOnly
<1>8. CASE Done("session")
  <2>1. todo'["session"] = r /\ todo'["pbx"] = todo["pbx"]
    BY <1>8, <1>2, <1>3, PushStep DEF Done
  <2>2. /\ SessionStands'
        /\ r # <<>> => /\ Head(r) \notin {"openMark", "openSend", "startMark", "startSend",
                                          "startReady", "closed", "stopped"}
                       /\ Head(r) # "connectedMedia"
    BY <1>2, <1>3, <2>1, RestsUncovered, Popping
  <2> QED
    BY <1>2, <1>3, <1>4, <1>5, <1>6, <1>7, <1>8, <2>1, <2>2 DEF SessionStands, PbxStands,
       LockInv, HangupInv, HoldInv, BoundInv, PastInv, Past, StreamInv, CloseInv, ResultInv,
       CountInv, Stands, At, Idle, Thread
<1> QED
  BY <1>8 DEF SetTx, rtpOnly

(* The user answers. *)
LEMMA AnswerKeeps ==
    ASSUME TypeInv, SilentInv, Answer("session")
    PROVE  SilentInv'
<1> USE DEF TypeInv, SilentInv
<1>1. At("session", "answer")
  BY DEF Answer
<1>2. PICK r \in SessionRests("answer") :
         /\ Stands("session", "answer", r)
         /\ \A steps : Then("session", steps) =>
               todo'["session"] = steps \o r /\ todo'["pbx"] = todo["pbx"]
  BY <1>1, SessionAt
<1>3. r \in Seq(Step)
  BY <1>2 DEF Stands
<1>4. r = <<>> /\ \A x : ~In(x, r)
  BY <1>2, RestTable, StackFacts
<1>5. result' = result /\ inflight' = inflight
  BY DEF Answer
<1>6. (MayReceive' <=> MayReceive) /\ (MaySend' <=> MaySend) /\ Opens' = Opens /\ Acks' = Acks
  BY NoMessage DEF Answer
<1>7. CASE ~call.hangup /\ call.state = "ringing" /\ lock' = "session"
        /\ call' = [call EXCEPT !.answering = TRUE, !.device = TRUE]
        /\ rtp' = [rtp EXCEPT !.cb = "complete"] /\ Then("session", <<"open", "unlock">>)
  <2>1. todo'["session"] = <<"open", "unlock">> \o r /\ todo'["pbx"] = todo["pbx"]
    BY <1>7, <1>2
  <2>2. "open" \in Step /\ "unlock" \in Step
    BY AllSteps
  <2>3. On("unlock", r) \in Seq(Step)
        /\ \A x : In(x, On("unlock", r)) <=> x = "unlock" \/ In(x, r)
    BY <1>3, <2>2, StackFacts
  <2>4. PICK q1 \in Seq(Step) :
           q1 = On("unlock", r) /\ \A x : In(x, q1) <=> x = "unlock" \/ In(x, r)
    BY <2>3
  <2>5. <<"open", "unlock">> \o r = On("open", On("unlock", r))
    BY <1>3, <2>2, PushStep
  <2>6. <<"open", "unlock">> \o r = On("open", q1)
    BY <2>5, <2>4
  <2>7. Stands("session", "open", q1)'
    BY <1>3, <2>1, <2>6, <2>2, <2>4, StandingNext, PbxThread
  <2>8. q1 \in SessionRests("open")
    BY <1>2, RestTable, <2>4, <1>4 DEF Unlocking
  <2>9. /\ call'.state = call.state /\ call'.device = TRUE /\ call'.gone = call.gone
         /\ call'.hanging = call.hanging /\ call'.hangup = call.hangup
    BY <1>7 DEF TypeOK, Call
  <2>10. /\ rtp'.rx = rtp.rx /\ rtp'.tx = rtp.tx
        /\ lock = Nobody /\ lock' = "session" /\ Nobody \notin Thread
    BY <1>7, MediaAssumption DEF Answer, TypeOK, Rtp, Thread
  <2> QED
    BY <1>2, <1>3, <1>4, <1>5, <1>6, <1>7, <2>1, <2>4, <2>7, <2>8, <2>9, <2>10 DEF
       SessionStands, PbxStands, LockInv, HangupInv, HoldInv, BoundInv, PastInv, Past, StreamInv,
       CloseInv, ResultInv, CountInv, Stands, At, Idle, Thread
<1>8. CASE UNCHANGED <<lock, call, rtp>> /\ Done("session")
  <2>1. todo'["session"] = r /\ todo'["pbx"] = todo["pbx"]
    BY <1>8, <1>2, <1>3, PushStep DEF Done
  <2>2. /\ SessionStands'
        /\ r # <<>> => /\ Head(r) \notin {"openMark", "openSend", "startMark", "startSend",
                                          "startReady", "closed", "stopped"}
                       /\ Head(r) # "connectedMedia"
    BY <1>2, <1>3, <2>1, RestsUncovered, Popping
  <2> QED
    BY <1>2, <1>3, <1>4, <1>5, <1>6, <1>8, <2>1, <2>2 DEF SessionStands, PbxStands, LockInv,
       HangupInv, HoldInv, BoundInv, PastInv, Past, StreamInv, CloseInv, ResultInv, CountInv,
       Stands, At, Idle, Thread
<1> QED
  BY <1>7, <1>8 DEF Answer, Done

(* The call that was answered receives. *)
LEMMA CompleteKeeps ==
    ASSUME TypeInv, SilentInv, Complete("session")
    PROVE  SilentInv'
<1> USE DEF TypeInv, SilentInv
<1>1. At("session", "complete")
  BY DEF Complete
<1>2. PICK r \in SessionRests("complete") :
         /\ Stands("session", "complete", r)
         /\ \A steps : Then("session", steps) =>
               todo'["session"] = steps \o r /\ todo'["pbx"] = todo["pbx"]
  BY <1>1, SessionAt
<1>3. r \in Seq(Step)
  BY <1>2 DEF Stands
<1>4. r = Getting /\ \A x : In(x, r) <=> x \in {"getRx", "setRx", "answered"}
  BY <1>2, RestTable, Contents
<1>5. lock' = lock /\ result' = result /\ inflight' = inflight /\ call' = call /\ rtp' = rtp
  BY DEF Complete, nothing
<1>6. (MayReceive' <=> MayReceive) /\ (MaySend' <=> MaySend) /\ Opens' = Opens /\ Acks' = Acks
  BY NoMessage DEF Complete, nothing
<1>7. CASE Done("session")
  <2>1. todo'["session"] = r /\ todo'["pbx"] = todo["pbx"]
    BY <1>7, <1>2, <1>3, PushStep DEF Done
  <2>2. /\ SessionStands'
        /\ r # <<>> => /\ Head(r) \notin {"openMark", "openSend", "startMark", "startSend",
                                          "startReady", "closed", "stopped"}
                       /\ Head(r) # "connectedMedia"
    BY <1>2, <1>3, <2>1, RestsUncovered, Popping
  <2> QED
    BY <1>2, <1>3, <1>4, <1>5, <1>6, <1>7, <2>1, <2>2 DEF SessionStands, PbxStands, LockInv,
       HangupInv, HoldInv, BoundInv, PastInv, Past, StreamInv, CloseInv, ResultInv, CountInv,
       Stands, At, Idle, Thread
<1>8. CASE Then("session", <<"completeLocked">>)
  <2>1. todo'["session"] = <<"completeLocked">> \o r /\ todo'["pbx"] = todo["pbx"]
    BY <1>8, <1>2
  <2>2. "completeLocked" \in Step
    BY AllSteps
  <2>3. <<"completeLocked">> \o r = On("completeLocked", r)
    BY <1>3, <2>2, PushStep
  <2>4. Stands("session", "completeLocked", r)'
    BY <1>3, <2>1, <2>3, <2>2, <1>3, StandingNext, PbxThread
  <2>5. r \in SessionRests("completeLocked")
    BY <1>2, RestTable, <1>4
  <2> QED
    BY <1>2, <1>3, <1>4, <1>5, <1>6, <1>8, <2>1, <2>4, <2>5 DEF SessionStands, PbxStands,
       LockInv, HangupInv, HoldInv, BoundInv, PastInv, Past, StreamInv, CloseInv, ResultInv,
       CountInv, Stands, At, Idle, Thread
<1> QED
  BY <1>7, <1>8 DEF Complete, nothing, Done

(* The call that was answered is completed. *)
LEMMA CompleteLockedKeeps ==
    ASSUME TypeInv, SilentInv, CompleteLocked("session")
    PROVE  SilentInv'
<1> USE DEF TypeInv, SilentInv
<1>1. At("session", "completeLocked")
  BY DEF CompleteLocked
<1>2. PICK r \in SessionRests("completeLocked") :
         /\ Stands("session", "completeLocked", r)
         /\ \A steps : Then("session", steps) =>
               todo'["session"] = steps \o r /\ todo'["pbx"] = todo["pbx"]
  BY <1>1, SessionAt
<1>3. r \in Seq(Step)
  BY <1>2 DEF Stands
<1>4. r = Getting /\ \A x : In(x, r) <=> x \in {"getRx", "setRx", "answered"}
  BY <1>2, RestTable, Contents
<1>5. result' = result /\ inflight' = inflight /\ call' = call /\ rtp' = rtp
  BY DEF CompleteLocked, callOnly
<1>6. (MayReceive' <=> MayReceive) /\ (MaySend' <=> MaySend) /\ Opens' = Opens /\ Acks' = Acks
  BY NoMessage DEF CompleteLocked, callOnly
<1>7. lock = Nobody /\ lock' = "session" /\ Nobody \notin Thread
  BY MediaAssumption DEF CompleteLocked, Locks, Thread
<1>8. CASE Then("session", <<"unlock">>)
  <2>1. todo'["session"] = <<"unlock">> \o r /\ todo'["pbx"] = todo["pbx"]
    BY <1>8, <1>2
  <2>2. "unlock" \in Step
    BY AllSteps
  <2>3. <<"unlock">> \o r = On("unlock", r)
    BY <1>3, <2>2, PushStep
  <2>4. Stands("session", "unlock", r)'
    BY <1>3, <2>1, <2>3, <2>2, <1>3, StandingNext, PbxThread
  <2>5. r \in SessionRests("unlock")
    BY <1>2, RestTable, <1>4
  <2> QED
    BY <1>2, <1>3, <1>4, <1>5, <1>6, <1>7, <1>8, <2>1, <2>4, <2>5 DEF SessionStands,
       PbxStands, LockInv, HangupInv, HoldInv, BoundInv, PastInv, Past, StreamInv, CloseInv,
       ResultInv, CountInv, Stands, At, Idle, Thread
<1>9. CASE ~call.hangup /\ Then("session", <<"start", "connected", "connectedMedia", "unlock">>)
  <2>1. /\ todo'["session"] = <<"start", "connected", "connectedMedia", "unlock">> \o r
        /\ todo'["pbx"] = todo["pbx"]
    BY <1>9, <1>2
  <2>2. "start" \in Step /\ "connected" \in Step /\ "connectedMedia" \in Step /\ "unlock" \in Step
    BY AllSteps
  <2>3. On("unlock", r) \in Seq(Step)
        /\ \A x : In(x, On("unlock", r)) <=> x = "unlock" \/ In(x, r)
    BY <1>3, <2>2, StackFacts
  <2>4. PICK q1 \in Seq(Step) :
           q1 = On("unlock", r) /\ \A x : In(x, q1) <=> x = "unlock" \/ In(x, r)
    BY <2>3
  <2>5. On("connectedMedia", q1) \in Seq(Step)
        /\ \A x : In(x, On("connectedMedia", q1)) <=> x = "connectedMedia" \/ In(x, q1)
    BY <2>4, <2>2, StackFacts
  <2>6. PICK q2 \in Seq(Step) :
           q2 = On("connectedMedia", q1) /\ \A x : In(x, q2) <=> x = "connectedMedia" \/ In(x, q1)
    BY <2>5
  <2>7. On("connected", q2) \in Seq(Step)
        /\ \A x : In(x, On("connected", q2)) <=> x = "connected" \/ In(x, q2)
    BY <2>6, <2>2, StackFacts
  <2>8. PICK q3 \in Seq(Step) :
           q3 = On("connected", q2) /\ \A x : In(x, q3) <=> x = "connected" \/ In(x, q2)
    BY <2>7
  <2>9. <<"start", "connected", "connectedMedia", "unlock">> \o r
          = On("start", On("connected", On("connectedMedia", On("unlock", r))))
    BY <1>3, <2>2, PushStep, SMTT(30)
  <2>10. <<"start", "connected", "connectedMedia", "unlock">> \o r = On("start", q3)
    BY <2>9, <2>4, <2>6, <2>8
  <2>11. Stands("session", "start", q3)'
    BY <1>3, <2>1, <2>10, <2>2, <2>8, StandingNext, PbxThread
  <2>12. q3 \in SessionRests("start")
    BY <1>2, RestTable, <2>4, <2>6, <2>8, <1>4 DEF StartRests, Completing
  <2> QED
    BY <1>2, <1>3, <1>4, <1>5, <1>6, <1>7, <1>9, <2>1, <2>4, <2>6, <2>8, <2>11, <2>12 DEF
       SessionStands, PbxStands, LockInv, HangupInv, HoldInv, BoundInv, PastInv, Past, StreamInv,
       CloseInv, ResultInv, CountInv, Stands, At, Idle, Thread
<1> QED
  BY <1>8, <1>9 DEF CompleteLocked, callOnly

(* The user holds the call. *)
LEMMA HoldKeeps ==
    ASSUME TypeInv, SilentInv, Hold("session")
    PROVE  SilentInv'
<1> USE DEF TypeInv, SilentInv
<1>1. At("session", "hold")
  BY DEF Hold
<1>2. PICK r \in SessionRests("hold") :
         /\ Stands("session", "hold", r)
         /\ \A steps : Then("session", steps) =>
               todo'["session"] = steps \o r /\ todo'["pbx"] = todo["pbx"]
  BY <1>1, SessionAt
<1>3. r \in Seq(Step)
  BY <1>2 DEF Stands
<1>4. r \in Held /\ \A x : In(x, r) => x = "resumeHeld"
  BY <1>2, RestTable, Helds
<1>5. lock' = lock /\ result' = result /\ inflight' = inflight /\ rtp' = rtp
  BY DEF Hold, callOnly
<1>6. (MayReceive' <=> MayReceive) /\ (MaySend' <=> MaySend) /\ Opens' = Opens /\ Acks' = Acks
  BY NoMessage DEF Hold, callOnly
<1>7. CASE /\ call.state = "connected" /\ call' = [call EXCEPT !.state = "hold"]
           /\ Then("session", <<"close", "stop", "unbind">>)
  <2>1. todo'["session"] = <<"close", "stop", "unbind">> \o r /\ todo'["pbx"] = todo["pbx"]
    BY <1>7, <1>2
  <2>2. "close" \in Step /\ "stop" \in Step /\ "unbind" \in Step
    BY AllSteps
  <2>3. On("unbind", r) \in Seq(Step)
        /\ \A x : In(x, On("unbind", r)) <=> x = "unbind" \/ In(x, r)
    BY <1>3, <2>2, StackFacts
  <2>4. PICK q1 \in Seq(Step) :
           q1 = On("unbind", r) /\ \A x : In(x, q1) <=> x = "unbind" \/ In(x, r)
    BY <2>3
  <2>5. On("stop", q1) \in Seq(Step)
        /\ \A x : In(x, On("stop", q1)) <=> x = "stop" \/ In(x, q1)
    BY <2>4, <2>2, StackFacts
  <2>6. PICK q2 \in Seq(Step) :
           q2 = On("stop", q1) /\ \A x : In(x, q2) <=> x = "stop" \/ In(x, q1)
    BY <2>5
  <2>7. <<"close", "stop", "unbind">> \o r = On("close", On("stop", On("unbind", r)))
    BY <1>3, <2>2, PushStep, SMTT(30)
  <2>8. <<"close", "stop", "unbind">> \o r = On("close", q2)
    BY <2>7, <2>4, <2>6
  <2>9. Stands("session", "close", q2)'
    BY <1>3, <2>1, <2>8, <2>2, <2>6, StandingNext, PbxThread
  <2>10. q2 \in SessionRests("close")
    BY <1>2, RestTable, <2>4, <2>6, <1>4 DEF CloseRests, StopRests
  <2>11. /\ call'.state = "hold" /\ call'.device = call.device /\ call'.gone = call.gone
         /\ call'.hanging = call.hanging /\ call'.hangup = call.hangup
    BY <1>7 DEF TypeOK, Call
  <2>12. SessionStands'
    BY <1>2, <1>3, <1>4, <1>5, <1>6, <1>7, <2>1, <2>4, <2>6, <2>9, <2>10, <2>11 DEF
       SessionStands, Stands, At, Idle, Thread
  <2>13. PbxStands'
    BY <1>2, <1>3, <1>4, <1>5, <1>6, <1>7, <2>1, <2>4, <2>6, <2>9, <2>10, <2>11 DEF PbxStands,
       Stands, At, Idle, Thread
  <2>14. LockInv'
    BY <1>2, <1>3, <1>4, <1>5, <1>6, <1>7, <2>1, <2>4, <2>6, <2>9, <2>10, <2>11 DEF LockInv,
       Stands, At, Idle, Thread
  <2>15. HangupInv'
    BY <1>2, <1>3, <1>4, <1>5, <1>6, <1>7, <2>1, <2>4, <2>6, <2>9, <2>10, <2>11 DEF HangupInv,
       LockInv, Stands, At, Idle, Thread
  <2>16. HoldInv'
    BY <1>2, <1>3, <1>4, <1>5, <1>6, <1>7, <2>1, <2>4, <2>6, <2>9, <2>10, <2>11 DEF HoldInv,
       Stands, At, Idle, Thread
  <2>17. BoundInv'
    BY <1>2, <1>3, <1>4, <1>5, <1>6, <1>7, <2>1, <2>4, <2>6, <2>9, <2>10, <2>11 DEF BoundInv,
       Stands, At, Idle, Thread
  <2>18. PastInv'
    BY <1>2, <1>3, <1>4, <1>5, <1>6, <1>7, <2>1, <2>4, <2>6, <2>9, <2>10, <2>11 DEF PastInv,
       Past, HangupInv, Stands, At, Idle, Thread
  <2>19. StreamInv'
    BY <1>2, <1>3, <1>4, <1>5, <1>6, <1>7, <2>1, <2>4, <2>6, <2>9, <2>10, <2>11 DEF StreamInv,
       BoundInv, CloseInv, ResultInv, Stands, At, Idle, Thread
  <2>20. CloseInv'
    BY <1>2, <1>3, <1>4, <1>5, <1>6, <1>7, <2>1, <2>4, <2>6, <2>9, <2>10, <2>11 DEF CloseInv,
       StreamInv, LockInv, PastInv, Past, Stands, At, Idle, Thread
  <2>21. ResultInv'
    BY <1>2, <1>3, <1>4, <1>5, <1>6, <1>7, <2>1, <2>4, <2>6, <2>9, <2>10, <2>11 DEF ResultInv,
       StreamInv, Stands, At, Idle, Thread
  <2>22. CountInv'
    BY <1>2, <1>3, <1>4, <1>5, <1>6, <1>7, <2>1, <2>4, <2>6, <2>9, <2>10, <2>11 DEF CountInv,
       Past, LockInv, Stands, At, Idle, Thread
  <2> QED
    BY <2>12, <2>13, <2>14, <2>15, <2>16, <2>17, <2>18, <2>19, <2>20, <2>21, <2>22
<1>8. CASE call' = call /\ Done("session")
  <2>1. todo'["session"] = r /\ todo'["pbx"] = todo["pbx"]
    BY <1>8, <1>2, <1>3, PushStep DEF Done
  <2>2. /\ SessionStands'
        /\ r # <<>> => /\ Head(r) \notin {"openMark", "openSend", "startMark", "startSend",
                                          "startReady", "closed", "stopped"}
                       /\ Head(r) # "connectedMedia"
    BY <1>2, <1>3, <2>1, RestsUncovered, Popping
  <2>3. SessionStands'
    BY <1>2, <1>3, <1>4, <1>5, <1>6, <1>8, <2>1, <2>2 DEF SessionStands, Stands, At, Idle,
       Thread
  <2>4. PbxStands'
    BY <1>2, <1>3, <1>4, <1>5, <1>6, <1>8, <2>1, <2>2 DEF PbxStands, Stands, At, Idle, Thread
  <2>5. LockInv'
    BY <1>2, <1>3, <1>4, <1>5, <1>6, <1>8, <2>1, <2>2 DEF LockInv, Stands, At, Idle, Thread
  <2>6. HangupInv'
    BY <1>2, <1>3, <1>4, <1>5, <1>6, <1>8, <2>1, <2>2 DEF HangupInv, LockInv, Stands, At,
       Idle, Thread
  <2>7. HoldInv'
    BY <1>2, <1>3, <1>4, <1>5, <1>6, <1>8, <2>1, <2>2 DEF HoldInv, Stands, At, Idle, Thread
  <2>8. BoundInv'
    BY <1>2, <1>3, <1>4, <1>5, <1>6, <1>8, <2>1, <2>2 DEF BoundInv, Stands, At, Idle, Thread
  <2>9. PastInv'
    BY <1>2, <1>3, <1>4, <1>5, <1>6, <1>8, <2>1, <2>2 DEF PastInv, Past, HangupInv, Stands,
       At, Idle, Thread
  <2>10. StreamInv'
    BY <1>2, <1>3, <1>4, <1>5, <1>6, <1>8, <2>1, <2>2 DEF StreamInv, BoundInv, CloseInv,
       ResultInv, Stands, At, Idle, Thread
  <2>11. CloseInv'
    BY <1>2, <1>3, <1>4, <1>5, <1>6, <1>8, <2>1, <2>2 DEF CloseInv, StreamInv, LockInv,
       PastInv, Past, Stands, At, Idle, Thread
  <2>12. ResultInv'
    BY <1>2, <1>3, <1>4, <1>5, <1>6, <1>8, <2>1, <2>2 DEF ResultInv, StreamInv, Stands, At,
       Idle, Thread
  <2>13. CountInv'
    BY <1>2, <1>3, <1>4, <1>5, <1>6, <1>8, <2>1, <2>2 DEF CountInv, Past, LockInv, Stands, At,
       Idle, Thread
  <2> QED
    BY <2>3, <2>4, <2>5, <2>6, <2>7, <2>8, <2>9, <2>10, <2>11, <2>12, <2>13
<1> QED
  BY <1>7, <1>8, HoldIs DEF Hold, callOnly, Done

(* The user resumes the call. *)
LEMMA ResumeKeeps ==
    ASSUME TypeInv, SilentInv, Resume("session")
    PROVE  SilentInv'
<1> USE DEF TypeInv, SilentInv
<1>1. At("session", "resume")
  BY DEF Resume
<1>2. PICK r \in SessionRests("resume") :
         /\ Stands("session", "resume", r)
         /\ \A steps : Then("session", steps) =>
               todo'["session"] = steps \o r /\ todo'["pbx"] = todo["pbx"]
  BY <1>1, SessionAt
<1>3. r \in Seq(Step)
  BY <1>2 DEF Stands
<1>4. r = <<>> /\ \A x : ~In(x, r)
  BY <1>2, RestTable, StackFacts
<1>5. result' = result /\ inflight' = inflight /\ call' = call /\ rtp' = rtp
  BY DEF Resume, callOnly
<1>6. (MayReceive' <=> MayReceive) /\ (MaySend' <=> MaySend) /\ Opens' = Opens /\ Acks' = Acks
  BY NoMessage DEF Resume, callOnly
<1>7. lock = Nobody /\ lock' = "session" /\ Nobody \notin Thread
  BY MediaAssumption DEF Resume, Locks, Thread
<1>8. CASE Then("session", <<"hold", "resumeHeld">>)
  <2>1. todo'["session"] = <<"hold", "resumeHeld">> \o r /\ todo'["pbx"] = todo["pbx"]
    BY <1>8, <1>2
  <2>2. "hold" \in Step /\ "resumeHeld" \in Step
    BY AllSteps
  <2>3. On("resumeHeld", r) \in Seq(Step)
        /\ \A x : In(x, On("resumeHeld", r)) <=> x = "resumeHeld" \/ In(x, r)
    BY <1>3, <2>2, StackFacts
  <2>4. PICK q1 \in Seq(Step) :
           q1 = On("resumeHeld", r) /\ \A x : In(x, q1) <=> x = "resumeHeld" \/ In(x, r)
    BY <2>3
  <2>5. <<"hold", "resumeHeld">> \o r = On("hold", On("resumeHeld", r))
    BY <1>3, <2>2, PushStep
  <2>6. <<"hold", "resumeHeld">> \o r = On("hold", q1)
    BY <2>5, <2>4
  <2>7. Stands("session", "hold", q1)'
    BY <1>3, <2>1, <2>6, <2>2, <2>4, StandingNext, PbxThread
  <2>8. q1 \in SessionRests("hold")
    BY <1>2, RestTable, <2>4, <1>4 DEF Held
  <2> QED
    BY <1>2, <1>3, <1>4, <1>5, <1>6, <1>7, <1>8, <2>1, <2>4, <2>7, <2>8 DEF SessionStands,
       PbxStands, LockInv, HangupInv, HoldInv, BoundInv, PastInv, Past, StreamInv, CloseInv,
       ResultInv, CountInv, Stands, At, Idle, Thread
<1>9. CASE Then("session", <<"resumeHeld">>)
  <2>1. todo'["session"] = <<"resumeHeld">> \o r /\ todo'["pbx"] = todo["pbx"]
    BY <1>9, <1>2
  <2>2. "resumeHeld" \in Step
    BY AllSteps
  <2>3. <<"resumeHeld">> \o r = On("resumeHeld", r)
    BY <1>3, <2>2, PushStep
  <2>4. Stands("session", "resumeHeld", r)'
    BY <1>3, <2>1, <2>3, <2>2, <1>3, StandingNext, PbxThread
  <2>5. r \in SessionRests("resumeHeld")
    BY <1>2, RestTable, <1>4
  <2> QED
    BY <1>2, <1>3, <1>4, <1>5, <1>6, <1>7, <1>9, <2>1, <2>4, <2>5 DEF SessionStands,
       PbxStands, LockInv, HangupInv, HoldInv, BoundInv, PastInv, Past, StreamInv, CloseInv,
       ResultInv, CountInv, Stands, At, Idle, Thread
<1> QED
  BY <1>8, <1>9 DEF Resume, callOnly

(* The call that was held is taken back. *)
LEMMA ResumeHeldKeeps ==
    ASSUME TypeInv, SilentInv, ResumeHeld("session")
    PROVE  SilentInv'
<1> USE DEF TypeInv, SilentInv
<1>1. At("session", "resumeHeld")
  BY DEF ResumeHeld
<1>2. PICK r \in SessionRests("resumeHeld") :
         /\ Stands("session", "resumeHeld", r)
         /\ \A steps : Then("session", steps) =>
               todo'["session"] = steps \o r /\ todo'["pbx"] = todo["pbx"]
  BY <1>1, SessionAt
<1>3. r \in Seq(Step)
  BY <1>2 DEF Stands
<1>4. r = <<>> /\ \A x : ~In(x, r)
  BY <1>2, RestTable, StackFacts
<1>5. lock = "session" /\ todo["pbx"] = <<>>
  BY <1>2, <1>4 DEF LockInv, Stands, Idle
<1>6. \A x : ~In(x, todo["pbx"])
  BY <1>5, Empty
<1>7. lock' = lock /\ result' = result /\ inflight' = inflight /\ rtp' = rtp
  BY DEF ResumeHeld, callOnly
<1>8. (MayReceive' <=> MayReceive) /\ (MaySend' <=> MaySend) /\ Opens' = Opens /\ Acks' = Acks
  BY NoMessage DEF ResumeHeld, callOnly
<1>9. CASE /\ call.state = "hold" /\ call' = [call EXCEPT !.device = TRUE]
           /\ Then("session", <<"connected", "connectedMedia", "unlock">>)
  <2>1. /\ todo'["session"] = <<"connected", "connectedMedia", "unlock">> \o r
        /\ todo'["pbx"] = todo["pbx"]
    BY <1>9, <1>2
  <2>2. "connected" \in Step /\ "connectedMedia" \in Step /\ "unlock" \in Step
    BY AllSteps
  <2>3. On("unlock", r) \in Seq(Step)
        /\ \A x : In(x, On("unlock", r)) <=> x = "unlock" \/ In(x, r)
    BY <1>3, <2>2, StackFacts
  <2>4. PICK q1 \in Seq(Step) :
           q1 = On("unlock", r) /\ \A x : In(x, q1) <=> x = "unlock" \/ In(x, r)
    BY <2>3
  <2>5. On("connectedMedia", q1) \in Seq(Step)
        /\ \A x : In(x, On("connectedMedia", q1)) <=> x = "connectedMedia" \/ In(x, q1)
    BY <2>4, <2>2, StackFacts
  <2>6. PICK q2 \in Seq(Step) :
           q2 = On("connectedMedia", q1) /\ \A x : In(x, q2) <=> x = "connectedMedia" \/ In(x, q1)
    BY <2>5
  <2>7. <<"connected", "connectedMedia", "unlock">> \o r
          = On("connected", On("connectedMedia", On("unlock", r)))
    BY <1>3, <2>2, PushStep, SMTT(30)
  <2>8. <<"connected", "connectedMedia", "unlock">> \o r = On("connected", q2)
    BY <2>7, <2>4, <2>6
  <2>9. Stands("session", "connected", q2)'
    BY <1>3, <2>1, <2>8, <2>2, <2>6, StandingNext, PbxThread
  <2>10. q2 \in SessionRests("connected")
    BY <1>2, RestTable, <2>4, <2>6, <1>4 DEF Unlocking
  <2>11. /\ call'.state = call.state /\ call'.device = TRUE /\ call'.gone = call.gone
         /\ call'.hanging = call.hanging /\ call'.hangup = call.hangup
    BY <1>9 DEF TypeOK, Call
  <2>12. ~In("unbind", todo'["session"])
    BY <1>4, <2>4, <2>6, <2>9 DEF Stands
  <2>13. \A x : ~In(x, todo'["pbx"])
    BY <2>1, <1>6
  <2>14. SessionStands'
    BY <1>2, <1>3, <1>4, <1>5, <1>6, <1>7, <1>8, <1>9, <2>1, <2>4, <2>6, <2>9, <2>10, <2>11,
       <2>12, <2>13 DEF SessionStands, Stands, At, Idle, Thread
  <2>15. PbxStands'
    BY <1>2, <1>3, <1>4, <1>5, <1>6, <1>7, <1>8, <1>9, <2>1, <2>4, <2>6, <2>9, <2>10, <2>11,
       <2>12, <2>13 DEF PbxStands, Stands, At, Idle, Thread
  <2>16. LockInv'
    BY <1>2, <1>3, <1>4, <1>5, <1>6, <1>7, <1>8, <1>9, <2>1, <2>4, <2>6, <2>9, <2>10, <2>11,
       <2>12, <2>13 DEF LockInv, Stands, At, Idle, Thread
  <2>17. HangupInv'
    BY <1>2, <1>3, <1>4, <1>5, <1>6, <1>7, <1>8, <1>9, <2>1, <2>4, <2>6, <2>9, <2>10, <2>11,
       <2>12, <2>13 DEF HangupInv, LockInv, Stands, At, Idle, Thread
  <2>18. HoldInv'
    BY <1>2, <1>3, <1>4, <1>5, <1>6, <1>7, <1>8, <1>9, <2>1, <2>4, <2>6, <2>9, <2>10, <2>11,
       <2>12, <2>13 DEF HoldInv, Stands, At, Idle, Thread
  <2>19. BoundInv'
    BY <1>2, <1>3, <1>4, <1>5, <1>6, <1>7, <1>8, <1>9, <2>1, <2>4, <2>6, <2>9, <2>10, <2>11,
       <2>12, <2>13 DEF BoundInv, Stands, At, Idle, Thread
  <2>20. PastInv'
    BY <1>2, <1>3, <1>4, <1>5, <1>6, <1>7, <1>8, <1>9, <2>1, <2>4, <2>6, <2>9, <2>10, <2>11,
       <2>12, <2>13 DEF PastInv, Past, HangupInv, Stands, At, Idle, Thread
  <2>21. StreamInv'
    BY <1>2, <1>3, <1>4, <1>5, <1>6, <1>7, <1>8, <1>9, <2>1, <2>4, <2>6, <2>9, <2>10, <2>11,
       <2>12, <2>13 DEF StreamInv, BoundInv, CloseInv, ResultInv, Stands, At, Idle, Thread
  <2>22. CloseInv'
    BY <1>2, <1>3, <1>4, <1>5, <1>6, <1>7, <1>8, <1>9, <2>1, <2>4, <2>6, <2>9, <2>10, <2>11,
       <2>12, <2>13 DEF CloseInv, StreamInv, LockInv, PastInv, Past, Stands, At, Idle, Thread
  <2>23. ResultInv'
    BY <1>2, <1>3, <1>4, <1>5, <1>6, <1>7, <1>8, <1>9, <2>1, <2>4, <2>6, <2>9, <2>10, <2>11,
       <2>12, <2>13 DEF ResultInv, StreamInv, Stands, At, Idle, Thread
  <2>24. CountInv'
    BY <1>2, <1>3, <1>4, <1>5, <1>6, <1>7, <1>8, <1>9, <2>1, <2>4, <2>6, <2>9, <2>10, <2>11,
       <2>12, <2>13 DEF CountInv, Past, LockInv, Stands, At, Idle, Thread
  <2> QED
    BY <2>14, <2>15, <2>16, <2>17, <2>18, <2>19, <2>20, <2>21, <2>22, <2>23, <2>24
<1>10. CASE call.state # "hold" /\ call' = call /\ Then("session", <<"unlock">>)
  <2>1. todo'["session"] = <<"unlock">> \o r /\ todo'["pbx"] = todo["pbx"]
    BY <1>10, <1>2
  <2>2. "unlock" \in Step
    BY AllSteps
  <2>3. <<"unlock">> \o r = On("unlock", r)
    BY <1>3, <2>2, PushStep
  <2>4. Stands("session", "unlock", r)'
    BY <1>3, <2>1, <2>3, <2>2, <1>3, StandingNext, PbxThread
  <2>5. r \in SessionRests("unlock")
    BY <1>2, RestTable, <1>4
  <2>6. SessionStands'
    BY <1>2, <1>3, <1>4, <1>5, <1>6, <1>7, <1>8, <1>10, <2>1, <2>4, <2>5 DEF SessionStands,
       Stands, At, Idle, Thread
  <2>7. PbxStands'
    BY <1>2, <1>3, <1>4, <1>5, <1>6, <1>7, <1>8, <1>10, <2>1, <2>4, <2>5 DEF PbxStands,
       Stands, At, Idle, Thread
  <2>8. LockInv'
    BY <1>2, <1>3, <1>4, <1>5, <1>6, <1>7, <1>8, <1>10, <2>1, <2>4, <2>5 DEF LockInv, Stands,
       At, Idle, Thread
  <2>9. HangupInv'
    BY <1>2, <1>3, <1>4, <1>5, <1>6, <1>7, <1>8, <1>10, <2>1, <2>4, <2>5 DEF HangupInv,
       LockInv, Stands, At, Idle, Thread
  <2>10. HoldInv'
    BY <1>2, <1>3, <1>4, <1>5, <1>6, <1>7, <1>8, <1>10, <2>1, <2>4, <2>5 DEF HoldInv, Stands,
       At, Idle, Thread
  <2>11. BoundInv'
    BY <1>2, <1>3, <1>4, <1>5, <1>6, <1>7, <1>8, <1>10, <2>1, <2>4, <2>5 DEF BoundInv, Stands,
       At, Idle, Thread
  <2>12. PastInv'
    BY <1>2, <1>3, <1>4, <1>5, <1>6, <1>7, <1>8, <1>10, <2>1, <2>4, <2>5 DEF PastInv, Past,
       HangupInv, Stands, At, Idle, Thread
  <2>13. StreamInv'
    BY <1>2, <1>3, <1>4, <1>5, <1>6, <1>7, <1>8, <1>10, <2>1, <2>4, <2>5 DEF StreamInv,
       BoundInv, CloseInv, ResultInv, Stands, At, Idle, Thread
  <2>14. CloseInv'
    BY <1>2, <1>3, <1>4, <1>5, <1>6, <1>7, <1>8, <1>10, <2>1, <2>4, <2>5 DEF CloseInv,
       StreamInv, LockInv, PastInv, Past, Stands, At, Idle, Thread
  <2>15. ResultInv'
    BY <1>2, <1>3, <1>4, <1>5, <1>6, <1>7, <1>8, <1>10, <2>1, <2>4, <2>5 DEF ResultInv,
       StreamInv, Stands, At, Idle, Thread
  <2>16. CountInv'
    BY <1>2, <1>3, <1>4, <1>5, <1>6, <1>7, <1>8, <1>10, <2>1, <2>4, <2>5 DEF CountInv, Past,
       LockInv, Stands, At, Idle, Thread
  <2> QED
    BY <2>6, <2>7, <2>8, <2>9, <2>10, <2>11, <2>12, <2>13, <2>14, <2>15, <2>16
<1> QED
  BY <1>9, <1>10 DEF ResumeHeld, callOnly

(* The user ends the call. *)
LEMMA EndcallKeeps ==
    ASSUME TypeInv, SilentInv, Endcall("session")
    PROVE  SilentInv'
<1> USE DEF TypeInv, SilentInv
<1>1. At("session", "endcall")
  BY DEF Endcall
<1>2. PICK r \in SessionRests("endcall") :
         /\ Stands("session", "endcall", r)
         /\ \A steps : Then("session", steps) =>
               todo'["session"] = steps \o r /\ todo'["pbx"] = todo["pbx"]
  BY <1>1, SessionAt
<1>3. r \in Seq(Step)
  BY <1>2 DEF Stands
<1>4. lock' = lock /\ result' = result /\ inflight' = inflight /\ rtp' = rtp
  BY DEF Endcall, callOnly
<1>5. /\ call'.state = call.state /\ call'.device = call.device /\ call'.gone = call.gone
      /\ call'.hanging = TRUE /\ call'.hangup = call.hangup
  BY DEF Endcall, callOnly, TypeOK, Call
<1>6. (MayReceive' <=> MayReceive) /\ (MaySend' <=> MaySend) /\ Opens' = Opens /\ Acks' = Acks
  BY NoMessage DEF Endcall, callOnly
<1>7. CASE Then("session", <<"request">>)
  <2>1. todo'["session"] = <<"request">> \o r /\ todo'["pbx"] = todo["pbx"]
    BY <1>7, <1>2
  <2>2. "request" \in Step
    BY AllSteps
  <2>3. <<"request">> \o r = On("request", r)
    BY <1>3, <2>2, PushStep
  <2>4. Stands("session", "request", r)'
    BY <1>3, <2>1, <2>3, <2>2, <1>3, StandingNext, PbxThread
  <2>5. r \in SessionRests("request")
    BY <1>2, RestTable
  <2> QED
    BY <1>2, <1>3, <1>4, <1>5, <1>6, <1>7, <2>1, <2>4, <2>5 DEF SessionStands, PbxStands,
       LockInv, HangupInv, HoldInv, BoundInv, PastInv, Past, StreamInv, CloseInv, ResultInv,
       CountInv, Stands, At, Idle, Thread
<1> QED
  BY <1>7 DEF Endcall, callOnly

(* The PBX is asked to hang up. *)
LEMMA RequestKeeps ==
    ASSUME TypeInv, SilentInv, Request("session")
    PROVE  SilentInv'
<1> USE DEF TypeInv, SilentInv
<1>1. At("session", "request")
  BY DEF Request
<1>2. PICK r \in SessionRests("request") :
         /\ Stands("session", "request", r)
         /\ \A steps : Then("session", steps) =>
               todo'["session"] = steps \o r /\ todo'["pbx"] = todo["pbx"]
  BY <1>1, SessionAt
<1>3. r \in Seq(Step)
  BY <1>2 DEF Stands
<1>4. lock' = lock /\ result' = result /\ inflight' = inflight /\ rtp' = rtp
  BY DEF Request, callOnly
<1>5. (MayReceive' <=> MayReceive) /\ (MaySend' <=> MaySend) /\ Opens' = Opens /\ Acks' = Acks
  BY NoMessage DEF Request, callOnly
<1>6. CASE /\ call.hangup /\ call' = [call EXCEPT !.state = IF call.device THEN "down" ELSE @]
           /\ Done("session")
  <2>1. todo'["session"] = r /\ todo'["pbx"] = todo["pbx"]
    BY <1>6, <1>2, <1>3, PushStep DEF Done
  <2>2. /\ SessionStands'
        /\ r # <<>> => /\ Head(r) \notin {"openMark", "openSend", "startMark", "startSend",
                                          "startReady", "closed", "stopped"}
                       /\ Head(r) # "connectedMedia"
    BY <1>2, <1>3, <2>1, RestsUncovered, Popping
  <2>3. /\ call'.state = (IF call.device THEN "down" ELSE call.state)
        /\ call'.device = call.device /\ call'.gone = call.gone
         /\ call'.hanging = call.hanging /\ call'.hangup = call.hangup
    BY <1>6 DEF TypeOK, Call
  <2> QED
    BY <1>2, <1>3, <1>4, <1>5, <1>6, <2>1, <2>2, <2>3 DEF SessionStands, PbxStands, LockInv,
       HangupInv, HoldInv, BoundInv, PastInv, Past, StreamInv, CloseInv, ResultInv, CountInv,
       Stands, At, Idle, Thread
<1>7. CASE call' = call /\ Then("session", <<"flag">>)
  <2>1. todo'["session"] = <<"flag">> \o r /\ todo'["pbx"] = todo["pbx"]
    BY <1>7, <1>2
  <2>2. "flag" \in Step
    BY AllSteps
  <2>3. <<"flag">> \o r = On("flag", r)
    BY <1>3, <2>2, PushStep
  <2>4. Stands("session", "flag", r)'
    BY <1>3, <2>1, <2>3, <2>2, <1>3, StandingNext, PbxThread
  <2>5. r \in SessionRests("flag")
    BY <1>2, RestTable
  <2> QED
    BY <1>2, <1>3, <1>4, <1>5, <1>7, <2>1, <2>4, <2>5 DEF SessionStands, PbxStands, LockInv,
       HangupInv, HoldInv, BoundInv, PastInv, Past, StreamInv, CloseInv, ResultInv, CountInv,
       Stands, At, Idle, Thread
<1> QED
  BY <1>6, <1>7 DEF Request, callOnly, Done

(* The channel is flagged. *)
LEMMA SetFlagKeeps ==
    ASSUME TypeInv, SilentInv, SetFlag("session")
    PROVE  SilentInv'
<1> USE DEF TypeInv, SilentInv
<1>1. At("session", "flag")
  BY DEF SetFlag
<1>2. PICK r \in SessionRests("flag") :
         /\ Stands("session", "flag", r)
         /\ \A steps : Then("session", steps) =>
               todo'["session"] = steps \o r /\ todo'["pbx"] = todo["pbx"]
  BY <1>1, SessionAt
<1>3. r \in Seq(Step)
  BY <1>2 DEF Stands
<1>4. lock' = lock /\ result' = result /\ inflight' = inflight /\ rtp' = rtp
  BY DEF SetFlag, callOnly
<1>5. /\ call'.state = call.state /\ call'.device = call.device /\ call'.gone = call.gone
      /\ call'.hanging = call.hanging /\ call'.hangup = TRUE
  BY DEF SetFlag, callOnly, TypeOK, Call
<1>6. (MayReceive' <=> MayReceive) /\ (MaySend' <=> MaySend) /\ Opens' = Opens /\ Acks' = Acks
  BY NoMessage DEF SetFlag, callOnly
<1>7. CASE Done("session")
  <2>1. todo'["session"] = r /\ todo'["pbx"] = todo["pbx"]
    BY <1>7, <1>2, <1>3, PushStep DEF Done
  <2>2. /\ SessionStands'
        /\ r # <<>> => /\ Head(r) \notin {"openMark", "openSend", "startMark", "startSend",
                                          "startReady", "closed", "stopped"}
                       /\ Head(r) # "connectedMedia"
    BY <1>2, <1>3, <2>1, RestsUncovered, Popping
  <2> QED
    BY <1>2, <1>3, <1>4, <1>5, <1>6, <1>7, <2>1, <2>2 DEF SessionStands, PbxStands, LockInv,
       HangupInv, HoldInv, BoundInv, PastInv, Past, StreamInv, CloseInv, ResultInv, CountInv,
       Stands, At, Idle, Thread
<1> QED
  BY <1>7 DEF SetFlag, callOnly

(* What is under the steps of the hangup *)
LEMMA PbxTable ==
    /\ PbxRests("wait") = {On("close", On("stop", Unlisting))}
    /\ \A h \in {"close", "closed"} : PbxRests(h) = {On("stop", r) : r \in HangupRests}
    /\ \A h \in {"stop", "stopped"} : PbxRests(h) = HangupRests
    /\ PbxRests("unlist") = {On("onhook", Cleaning)} /\ PbxRests("onhook") = {Cleaning}
    /\ \A h \in {"clean", "unbind"} : PbxRests(h) = {Leaving}
    /\ PbxRests("gone") = {On("unlock", <<>>)} /\ PbxRests("unlock") = {<<>>}
  BY DEF PbxRests

(* A step of the hangup on top of others *)
LEMMA OnStep ==
    ASSUME NEW h \in Step, NEW r \in Seq(Step)
    PROVE  On(h, r) \in Seq(Step) /\ \A x : In(x, On(h, r)) <=> x = h \/ In(x, r)
  BY StackFacts

(* What the rests of the hangup hold *)
LEMMA PbxContents ==
    /\ Leaving \in Seq(Step) /\ \A x : In(x, Leaving) <=> x \in {"gone", "unlock"}
    /\ Cleaning \in Seq(Step) /\ \A x : In(x, Cleaning) <=> x \in {"clean", "gone", "unlock"}
    /\ On("onhook", Cleaning) \in Seq(Step)
    /\ \A x : In(x, On("onhook", Cleaning)) <=> x \in {"onhook", "clean", "gone", "unlock"}
    /\ Unlisting \in Seq(Step)
    /\ \A x : In(x, Unlisting) <=> x \in {"unlist", "onhook", "clean", "gone", "unlock"}
    /\ On("unbind", Leaving) \in Seq(Step)
    /\ \A x : In(x, On("unbind", Leaving)) <=> x \in {"unbind", "gone", "unlock"}
<1>1. On("unlock", <<>>) \in Seq(Step) /\ \A x : In(x, On("unlock", <<>>)) <=> x = "unlock"
  BY Contents
<1>2. Leaving \in Seq(Step) /\ \A x : In(x, Leaving) <=> x \in {"gone", "unlock"}
  BY <1>1, AllSteps, OnStep DEF Leaving
<1>3. Cleaning \in Seq(Step) /\ \A x : In(x, Cleaning) <=> x \in {"clean", "gone", "unlock"}
  BY <1>2, AllSteps, OnStep DEF Cleaning
<1>4. PICK o \in Seq(Step) :
         /\ o = On("onhook", Cleaning)
         /\ \A x : In(x, o) <=> x \in {"onhook", "clean", "gone", "unlock"}
  <2>1. "onhook" \in Step
    BY AllSteps
  <2>2. /\ On("onhook", Cleaning) \in Seq(Step)
        /\ \A x : In(x, On("onhook", Cleaning)) <=> x = "onhook" \/ In(x, Cleaning)
    BY <1>3, <2>1, OnStep
  <2> QED
    BY <1>3, <2>2
<1>5. PICK u \in Seq(Step) :
         /\ u = On("unlist", o)
         /\ \A x : In(x, u) <=> x \in {"unlist", "onhook", "clean", "gone", "unlock"}
  <2>1. "unlist" \in Step
    BY AllSteps
  <2>2. /\ On("unlist", o) \in Seq(Step)
        /\ \A x : In(x, On("unlist", o)) <=> x = "unlist" \/ In(x, o)
    BY <2>1, OnStep
  <2> QED
    BY <1>4, <2>2
<1>6. PICK b \in Seq(Step) :
         /\ b = On("unbind", Leaving)
         /\ \A x : In(x, b) <=> x \in {"unbind", "gone", "unlock"}
  <2>1. "unbind" \in Step
    BY AllSteps
  <2>2. /\ On("unbind", Leaving) \in Seq(Step)
        /\ \A x : In(x, On("unbind", Leaving)) <=> x = "unbind" \/ In(x, Leaving)
    BY <1>2, <2>1, OnStep
  <2> QED
    BY <1>2, <2>2
<1>7. Unlisting = u
  BY <1>4, <1>5 DEF Unlisting
<1> QED
  BY <1>2, <1>3, <1>4, <1>5, <1>6, <1>7

(* What the hangup has yet to do under the closing of the streams *)
LEMMA HangupHas ==
    ASSUME NEW r \in HangupRests
    PROVE  /\ r \in Seq(Step) /\ In("gone", r) /\ ~In("close", r) /\ ~In("stop", r)
           /\ \E k \in {"unlist", "unbind"}, q \in Seq(Step) : r = On(k, q) /\ q \in PbxRests(k)
<1>1. CASE r = Unlisting
  <2>1. /\ r \in Seq(Step)
        /\ \A x : In(x, r) <=> x \in {"unlist", "onhook", "clean", "gone", "unlock"}
    BY <1>1, PbxContents
  <2>2. r = On("unlist", On("onhook", Cleaning)) /\ On("onhook", Cleaning) \in Seq(Step)
        /\ On("onhook", Cleaning) \in PbxRests("unlist")
    BY <1>1, PbxContents, PbxTable DEF Unlisting
  <2> QED
    BY <2>1, <2>2
<1>2. CASE r = On("unbind", Leaving)
  BY <1>2, PbxContents, PbxTable
<1> QED
  BY <1>1, <1>2 DEF HangupRests

(* What is under the steps that close the streams at a hangup *)
LEMMA ClosingHas ==
    ASSUME NEW p \in HangupRests
    PROVE  /\ On("stop", p) \in Seq(Step) /\ On("stop", p) \in PbxRests("close")
           /\ On("stop", p) \in PbxRests("closed") /\ p \in PbxRests("stop")
           /\ \A x : In(x, On("stop", p)) <=> x = "stop" \/ In(x, p)
  BY HangupHas, AllSteps, OnStep, PbxTable

(* The first step is over. *)
LEMMA PbxPopping ==
    ASSUME NEW h, NEW r \in PbxRests(h), todo'["pbx"] = r
    PROVE  /\ r \in Seq(Step) /\ PbxStands' /\ (r = <<>> <=> h = "unlock")
           /\ r # <<>> => Head(r) \notin {"closed", "stopped", "wait"}
<1> DEFINE K == {"close", "stop", "unlist", "unbind", "onhook", "clean", "gone", "unlock"}
<1>1. ASSUME NEW k \in K, NEW q \in Seq(Step), r = On(k, q), q \in PbxRests(k)
      PROVE  /\ r \in Seq(Step) /\ PbxStands' /\ r # <<>>
             /\ Head(r) \notin {"closed", "stopped", "wait"}
  <2>1. k \in Step
    BY AllSteps
  <2>2. r \in Seq(Step) /\ r # <<>> /\ Head(r) = k /\ Tail(r) = q
    <3>1. On(k, q) \in Seq(Step) /\ On(k, q) # <<>> /\ Head(On(k, q)) = k /\ Tail(On(k, q)) = q
      BY <2>1, StackFacts
    <3> QED
      BY <1>1, <3>1
  <2> QED
    BY <1>1, <2>2 DEF PbxStands, Idle
<1>2. CASE h = "wait"
  <2>1. r = On("close", On("stop", Unlisting)) /\ Unlisting \in HangupRests
    BY <1>2, PbxTable DEF HangupRests
  <2>2. On("stop", Unlisting) \in Seq(Step) /\ On("stop", Unlisting) \in PbxRests("close")
    BY <2>1, ClosingHas
  <2> QED
    BY <1>2, <1>1, <2>1, <2>2
<1>3. CASE h \in {"close", "closed"}
  <2>1. PICK p \in HangupRests : r = On("stop", p)
    BY <1>3, PbxTable
  <2>2. p \in Seq(Step) /\ p \in PbxRests("stop")
    BY HangupHas, ClosingHas
  <2> QED
    BY <1>3, <1>1, <2>1, <2>2
<1>4. CASE h \in {"stop", "stopped"}
  <2>1. r \in HangupRests
    BY <1>4, PbxTable
  <2>2. PICK k \in {"unlist", "unbind"} : \E q \in Seq(Step) : r = On(k, q) /\ q \in PbxRests(k)
    BY <2>1, HangupHas
  <2> QED
    BY <1>4, <1>1, <2>2
<1>5. CASE h = "unlist"
  <2>1. Cleaning \in PbxRests("onhook") /\ Cleaning \in Seq(Step) /\ r = On("onhook", Cleaning)
    BY <1>5, PbxTable, PbxContents
  <2> QED
    BY <1>5, <1>1, <2>1
<1>6. CASE h = "onhook"
  <2>1. Leaving \in PbxRests("clean") /\ Leaving \in Seq(Step) /\ r = On("clean", Leaving)
    BY <1>6, PbxTable, PbxContents DEF Cleaning
  <2> QED
    BY <1>6, <1>1, <2>1
<1>7. CASE h \in {"clean", "unbind"}
  <2>1. r = On("gone", On("unlock", <<>>))
    BY <1>7, PbxTable DEF Leaving
  <2>2. On("unlock", <<>>) \in PbxRests("gone") /\ On("unlock", <<>>) \in Seq(Step)
    BY PbxTable, Contents
  <2> QED
    BY <1>7, <1>1, <2>1, <2>2
<1>8. CASE h = "gone"
  <2>1. r = On("unlock", <<>>) /\ <<>> \in PbxRests("unlock") /\ <<>> \in Seq(Step)
    BY <1>8, PbxTable, StackFacts
  <2> QED
    BY <1>8, <1>1, <2>1
<1>9. CASE h = "unlock"
  <2>1. r = <<>> /\ <<>> \in Seq(Step)
    BY <1>9, PbxTable, StackFacts
  <2> QED
    BY <1>9, <2>1 DEF PbxStands, Idle
<1> QED
  BY <1>2, <1>3, <1>4, <1>5, <1>6, <1>7, <1>8, <1>9 DEF PbxRests

(* The thread of the PBX goes on: what is under the step, and what comes of it. *)
LEMMA PbxAt ==
    ASSUME StackType, PbxStands, NEW h, At("pbx", h)
    PROVE  \E r \in PbxRests(h) :
              /\ Stands("pbx", h, r)
              /\ \A steps : Then("pbx", steps) =>
                    todo'["pbx"] = steps \o r /\ todo'["session"] = todo["session"]
<1>1. PICK r \in Seq(Step) :
         /\ h \in Step /\ todo["pbx"] = On(h, r) /\ todo["pbx"] # <<>>
         /\ \A steps : Then("pbx", steps) => todo' = [todo EXCEPT !["pbx"] = steps \o r]
  BY GoesOn, PbxThread
<1>2. Stands("pbx", h, r)
  BY <1>1, Standing, PbxThread
<1>3. r \in PbxRests(h)
  BY <1>1, <1>2 DEF PbxStands, Idle, Stands
<1>4. \A steps : Then("pbx", steps) =>
         todo'["pbx"] = steps \o r /\ todo'["session"] = todo["session"]
  BY <1>1, PbxThread DEF StackType
<1> QED
  BY <1>2, <1>3, <1>4

(* The hangup has the channel, so the session does not open. *)
LEMMA HangupHolds ==
    ASSUME TypeInv, SilentInv, ~Idle("pbx")
    PROVE  /\ lock = "pbx" /\ ~In("unlock", todo["session"]) /\ ~In("resumeHeld", todo["session"])
           /\ ~In("connected", todo["session"])
           /\ ~At("session", "openMark") /\ ~At("session", "openSend")
<1> USE DEF TypeInv, SilentInv
<1>1. lock = "pbx" /\ ~In("unlock", todo["session"]) /\ ~In("resumeHeld", todo["session"])
      /\ ~In("connected", todo["session"])
  BY DEF LockInv, HangupInv
<1>2. ASSUME NEW h \in {"openMark", "openSend"}, At("session", h) PROVE FALSE
  <2>1. PICK r \in SessionRests(h) : Stands("session", h, r)
    BY <1>2, SessionAt
  <2>2. In("unlock", r)
    BY <2>1, RestTable, UnlockingHas
  <2> QED
    BY <1>1, <2>1, <2>2 DEF Stands
<1> QED
  BY <1>1, <1>2

(* No thread that starts a transmission is left when every request is answered. *)
LEMMA NoneStarts ==
    ASSUME TypeInv, SilentInv, ~Idle("pbx"), ~In("answered", todo["session"]),
           NEW h \in {"startReady", "startMark", "startSend"}
    PROVE  ~At("session", h)
<1> USE DEF TypeInv, SilentInv
<1>1. SUFFICES ASSUME At("session", h) PROVE FALSE
  OBVIOUS
<1>2. PICK r \in SessionRests(h) : Stands("session", h, r)
  BY <1>1, SessionAt
<1>3. r \in StartRests
  BY <1>2, RestTable
<1>4. In("answered", Getting) /\ In("answered", Completing)
  BY Contents
<1>5. r \in Unlocking
  BY <1>2, <1>3, <1>4 DEF StartRests, Stands
<1>6. In("unlock", r)
  BY <1>5, UnlockingHas
<1> QED
  BY <1>2, <1>6, HangupHolds DEF Stands

(* What the hangup has yet to do when it has waited, and to unbind the phone *)
LEMMA WaitHas ==
    /\ On("close", On("stop", Unlisting)) \in Seq(Step)
    /\ \A x : In(x, On("close", On("stop", Unlisting))) <=>
              x \in {"close", "stop", "unlist", "onhook", "clean", "gone", "unlock"}
<1>1. PICK s \in Seq(Step) :
         s = On("stop", Unlisting) /\ \A x : In(x, s) <=> x = "stop" \/ In(x, Unlisting)
  BY PbxContents, ClosingHas DEF HangupRests
<1>2. "close" \in Step
  BY AllSteps
<1>3. On("close", s) \in Seq(Step) /\ \A x : In(x, On("close", s)) <=> x = "close" \/ In(x, s)
  BY <1>2, OnStep
<1>4. \A x : In(x, Unlisting) <=> x \in {"unlist", "onhook", "clean", "gone", "unlock"}
  BY PbxContents
<1> QED
  BY <1>1, <1>3, <1>4

(* What a hangup does with the phone of an idle call *)
LEMMA UnbindIs == CloseAll \o <<"unbind">> = <<"close", "stop", "unbind">>
  BY HoldIs DEF HoldSteps

(* The hangup closes the reception. *)
LEMMA PbxCloseKeeps ==
    ASSUME TypeInv, SilentInv, Close("pbx")
    PROVE  SilentInv'
<1> USE DEF TypeInv, SilentInv
<1>1. At("pbx", "close")
  BY DEF Close
<1>2. PICK r \in PbxRests("close") :
         /\ Stands("pbx", "close", r)
         /\ \A steps : Then("pbx", steps) =>
               todo'["pbx"] = steps \o r /\ todo'["session"] = todo["session"]
  BY <1>1, PbxAt
<1>3. /\ lock = "pbx" /\ ~In("unlock", todo["session"]) /\ ~In("resumeHeld", todo["session"])
      /\ ~In("connected", todo["session"])
      /\ ~At("session", "openMark") /\ ~At("session", "openSend")
  BY <1>2, HangupHolds DEF Stands, Idle
<1>4. r \in Seq(Step)
  BY <1>2 DEF Stands
<1>5. PICK p \in HangupRests : r = On("stop", p)
  BY <1>2, PbxTable
<1>6. /\ \A x : In(x, r) <=> x = "stop" \/ In(x, p)
      /\ In("gone", p) /\ ~In("close", p) /\ ~In("stop", p)
  BY <1>5, ClosingHas, HangupHas
<1>7. lock' = lock /\ result' = result /\ inflight' = inflight /\ call' = call /\ rtp' = rtp
  BY DEF Close, sendOnly
<1>8. CASE call.device /\ rtp.rx # {} /\ Send("close") /\ Then("pbx", <<"closed">>)
  <2>1. todo'["pbx"] = <<"closed">> \o r /\ todo'["session"] = todo["session"]
    BY <1>8, <1>2
  <2>2. "closed" \in Step
    BY AllSteps
  <2>3. <<"closed">> \o r = On("closed", r)
    BY <1>4, <2>2, PushStep
  <2>4. Stands("pbx", "closed", r)'
    BY <1>4, <2>1, <2>3, <2>2, <1>4, StandingNext, PbxThread
  <2>5. r \in PbxRests("closed")
    BY <1>2, PbxTable
  <2>6. ~MayReceive' /\ (MaySend' <=> MaySend) /\ Opens' = Opens /\ Acks' = Acks
    BY <1>8, Sending, CountSend, CountTypes DEF Close, sendOnly, Acks
  <2> QED
    BY <1>2, <1>3, <1>4, <1>5, <1>6, <1>7, <1>8, <2>1, <2>4, <2>5, <2>6 DEF SessionStands,
       PbxStands, LockInv, HangupInv, HoldInv, BoundInv, PastInv, Past, StreamInv, CloseInv,
       ResultInv, CountInv, Stands, At, Idle, Thread
<1>9. CASE ~(call.device /\ rtp.rx # {}) /\ toPhone' = toPhone /\ Done("pbx")
  <2>1. todo'["pbx"] = r /\ todo'["session"] = todo["session"]
    BY <1>9, <1>2, <1>4, PushStep DEF Done
  <2>2. /\ PbxStands' /\ (r = <<>> <=> "close" = "unlock")
        /\ r # <<>> => Head(r) \notin {"closed", "stopped", "wait"}
    BY <1>2, <2>1, PbxPopping
  <2>3. (MayReceive' <=> MayReceive) /\ (MaySend' <=> MaySend) /\ Opens' = Opens /\ Acks' = Acks
    BY <1>9, NoMessage DEF Close, sendOnly
  <2> QED
    BY <1>2, <1>3, <1>4, <1>5, <1>6, <1>7, <1>9, <2>1, <2>2, <2>3 DEF SessionStands,
       PbxStands, LockInv, HangupInv, HoldInv, BoundInv, PastInv, Past, StreamInv, CloseInv,
       ResultInv, CountInv, Stands, At, Idle, Thread
<1> QED
  BY <1>8, <1>9 DEF Close, sendOnly, Done

(* The reception is closed by the hangup. *)
LEMMA PbxClosedKeeps ==
    ASSUME TypeInv, SilentInv, Closed("pbx")
    PROVE  SilentInv'
<1> USE DEF TypeInv, SilentInv
<1>1. At("pbx", "closed")
  BY DEF Closed
<1>2. PICK r \in PbxRests("closed") :
         /\ Stands("pbx", "closed", r)
         /\ \A steps : Then("pbx", steps) =>
               todo'["pbx"] = steps \o r /\ todo'["session"] = todo["session"]
  BY <1>1, PbxAt
<1>3. /\ lock = "pbx" /\ ~In("unlock", todo["session"]) /\ ~In("resumeHeld", todo["session"])
      /\ ~In("connected", todo["session"])
      /\ ~At("session", "openMark") /\ ~At("session", "openSend")
  BY <1>2, HangupHolds DEF Stands, Idle
<1>4. r \in Seq(Step)
  BY <1>2 DEF Stands
<1>5. PICK p \in HangupRests : r = On("stop", p)
  BY <1>2, PbxTable
<1>6. /\ \A x : In(x, r) <=> x = "stop" \/ In(x, p)
      /\ In("gone", p) /\ ~In("close", p) /\ ~In("stop", p)
  BY <1>5, ClosingHas, HangupHas
<1>7. lock' = lock /\ result' = result /\ inflight' = inflight /\ call' = call
  BY DEF Closed, rtpOnly
<1>8. rtp'.rx = {} /\ rtp'.tx = rtp.tx /\ rtp'.cb = rtp.cb
  BY DEF Closed, rtpOnly, TypeOK, Rtp
<1>9. (MayReceive' <=> MayReceive) /\ (MaySend' <=> MaySend) /\ Opens' = Opens /\ Acks' = Acks
  BY NoMessage DEF Closed, rtpOnly
<1>10. CASE Done("pbx")
  <2>1. todo'["pbx"] = r /\ todo'["session"] = todo["session"]
    BY <1>10, <1>2, <1>4, PushStep DEF Done
  <2>2. /\ PbxStands' /\ (r = <<>> <=> "closed" = "unlock")
        /\ r # <<>> => Head(r) \notin {"closed", "stopped", "wait"}
    BY <1>2, <2>1, PbxPopping
  <2> QED
    BY <1>2, <1>3, <1>4, <1>5, <1>6, <1>7, <1>8, <1>9, <1>10, <2>1, <2>2 DEF SessionStands,
       PbxStands, LockInv, HangupInv, HoldInv, BoundInv, PastInv, Past, StreamInv, CloseInv,
       ResultInv, CountInv, Stands, At, Idle, Thread
<1> QED
  BY <1>10 DEF Closed, rtpOnly

(* The hangup stops the transmission. *)
LEMMA PbxStopKeeps ==
    ASSUME TypeInv, SilentInv, Stop("pbx")
    PROVE  SilentInv'
<1> USE DEF TypeInv, SilentInv
<1>1. At("pbx", "stop")
  BY DEF Stop
<1>2. PICK r \in PbxRests("stop") :
         /\ Stands("pbx", "stop", r)
         /\ \A steps : Then("pbx", steps) =>
               todo'["pbx"] = steps \o r /\ todo'["session"] = todo["session"]
  BY <1>1, PbxAt
<1>3. /\ lock = "pbx" /\ ~In("unlock", todo["session"]) /\ ~In("resumeHeld", todo["session"])
      /\ ~In("connected", todo["session"])
      /\ ~At("session", "openMark") /\ ~At("session", "openSend")
  BY <1>2, HangupHolds DEF Stands, Idle
<1>4. r \in Seq(Step)
  BY <1>2 DEF Stands
<1>5. r \in HangupRests /\ In("gone", r) /\ ~In("close", r) /\ ~In("stop", r)
  BY <1>2, PbxTable, HangupHas
<1>6. lock' = lock /\ result' = result /\ inflight' = inflight /\ call' = call /\ rtp' = rtp
  BY DEF Stop, sendOnly
<1>7. CASE call.device /\ rtp.tx # {} /\ Send("stop") /\ Then("pbx", <<"stopped">>)
  <2>1. todo'["pbx"] = <<"stopped">> \o r /\ todo'["session"] = todo["session"]
    BY <1>7, <1>2
  <2>2. "stopped" \in Step
    BY AllSteps
  <2>3. <<"stopped">> \o r = On("stopped", r)
    BY <1>4, <2>2, PushStep
  <2>4. Stands("pbx", "stopped", r)'
    BY <1>4, <2>1, <2>3, <2>2, <1>4, StandingNext, PbxThread
  <2>5. r \in PbxRests("stopped")
    BY <1>2, PbxTable
  <2>6. ~MaySend' /\ (MayReceive' <=> MayReceive) /\ Opens' = Opens /\ Acks' = Acks
    BY <1>7, Sending, CountSend, CountTypes DEF Stop, sendOnly, Acks
  <2> QED
    BY <1>2, <1>3, <1>4, <1>5, <1>6, <1>7, <2>1, <2>4, <2>5, <2>6 DEF SessionStands,
       PbxStands, LockInv, HangupInv, HoldInv, BoundInv, PastInv, Past, StreamInv, CloseInv,
       ResultInv, CountInv, Stands, At, Idle, Thread
<1>8. CASE ~(call.device /\ rtp.tx # {}) /\ toPhone' = toPhone /\ Done("pbx")
  <2>1. todo'["pbx"] = r /\ todo'["session"] = todo["session"]
    BY <1>8, <1>2, <1>4, PushStep DEF Done
  <2>2. /\ PbxStands' /\ (r = <<>> <=> "stop" = "unlock")
        /\ r # <<>> => Head(r) \notin {"closed", "stopped", "wait"}
    BY <1>2, <2>1, PbxPopping
  <2>3. (MayReceive' <=> MayReceive) /\ (MaySend' <=> MaySend) /\ Opens' = Opens /\ Acks' = Acks
    BY <1>8, NoMessage DEF Stop, sendOnly
  <2> QED
    BY <1>2, <1>3, <1>4, <1>5, <1>6, <1>8, <2>1, <2>2, <2>3 DEF SessionStands, PbxStands,
       LockInv, HangupInv, HoldInv, BoundInv, PastInv, Past, StreamInv, CloseInv, ResultInv,
       CountInv, Stands, At, Idle, Thread
<1> QED
  BY <1>7, <1>8 DEF Stop, sendOnly, Done

(* The transmission is stopped by the hangup. *)
LEMMA PbxStoppedKeeps ==
    ASSUME TypeInv, SilentInv, Stopped("pbx")
    PROVE  SilentInv'
<1> USE DEF TypeInv, SilentInv
<1>1. At("pbx", "stopped")
  BY DEF Stopped
<1>2. PICK r \in PbxRests("stopped") :
         /\ Stands("pbx", "stopped", r)
         /\ \A steps : Then("pbx", steps) =>
               todo'["pbx"] = steps \o r /\ todo'["session"] = todo["session"]
  BY <1>1, PbxAt
<1>3. /\ lock = "pbx" /\ ~In("unlock", todo["session"]) /\ ~In("resumeHeld", todo["session"])
      /\ ~In("connected", todo["session"])
      /\ ~At("session", "openMark") /\ ~At("session", "openSend")
  BY <1>2, HangupHolds DEF Stands, Idle
<1>4. r \in Seq(Step)
  BY <1>2 DEF Stands
<1>5. r \in HangupRests /\ In("gone", r) /\ ~In("close", r) /\ ~In("stop", r)
  BY <1>2, PbxTable, HangupHas
<1>6. lock' = lock /\ result' = result /\ inflight' = inflight /\ call' = call
  BY DEF Stopped, rtpOnly
<1>7. rtp'.rx = rtp.rx /\ rtp'.tx = {} /\ rtp'.cb = rtp.cb
  BY DEF Stopped, rtpOnly, TypeOK, Rtp
<1>8. (MayReceive' <=> MayReceive) /\ (MaySend' <=> MaySend) /\ Opens' = Opens /\ Acks' = Acks
  BY NoMessage DEF Stopped, rtpOnly
<1>9. CASE Done("pbx")
  <2>1. todo'["pbx"] = r /\ todo'["session"] = todo["session"]
    BY <1>9, <1>2, <1>4, PushStep DEF Done
  <2>2. /\ PbxStands' /\ (r = <<>> <=> "stopped" = "unlock")
        /\ r # <<>> => Head(r) \notin {"closed", "stopped", "wait"}
    BY <1>2, <2>1, PbxPopping
  <2> QED
    BY <1>2, <1>3, <1>4, <1>5, <1>6, <1>7, <1>8, <1>9, <2>1, <2>2 DEF SessionStands,
       PbxStands, LockInv, HangupInv, HoldInv, BoundInv, PastInv, Past, StreamInv, CloseInv,
       ResultInv, CountInv, Stands, At, Idle, Thread
<1> QED
  BY <1>9 DEF Stopped, rtpOnly

(* The call that is hung up leaves the phone. *)
LEMMA PbxUnbindKeeps ==
    ASSUME TypeInv, SilentInv, Unbind("pbx")
    PROVE  SilentInv'
<1> USE DEF TypeInv, SilentInv
<1>1. At("pbx", "unbind")
  BY DEF Unbind
<1>2. PICK r \in PbxRests("unbind") :
         /\ Stands("pbx", "unbind", r)
         /\ \A steps : Then("pbx", steps) =>
               todo'["pbx"] = steps \o r /\ todo'["session"] = todo["session"]
  BY <1>1, PbxAt
<1>3. /\ lock = "pbx" /\ ~In("unlock", todo["session"]) /\ ~In("resumeHeld", todo["session"])
      /\ ~In("connected", todo["session"])
      /\ ~At("session", "openMark") /\ ~At("session", "openSend")
  BY <1>2, HangupHolds DEF Stands, Idle
<1>4. r \in Seq(Step)
  BY <1>2 DEF Stands
<1>5. r = Leaving /\ \A x : In(x, r) <=> x \in {"gone", "unlock"}
  BY <1>2, PbxTable, PbxContents
<1>6. lock' = lock /\ result' = result /\ inflight' = inflight /\ rtp' = rtp
  BY DEF Unbind, callOnly
<1>7. /\ call'.state = call.state /\ call'.device = FALSE /\ call'.gone = call.gone
      /\ call'.hanging = call.hanging /\ call'.hangup = call.hangup
  BY DEF Unbind, callOnly, TypeOK, Call
<1>8. (MayReceive' <=> MayReceive) /\ (MaySend' <=> MaySend) /\ Opens' = Opens /\ Acks' = Acks
  BY NoMessage DEF Unbind, callOnly
<1>9. CASE Done("pbx")
  <2>1. todo'["pbx"] = r /\ todo'["session"] = todo["session"]
    BY <1>9, <1>2, <1>4, PushStep DEF Done
  <2>2. /\ PbxStands' /\ (r = <<>> <=> "unbind" = "unlock")
        /\ r # <<>> => Head(r) \notin {"closed", "stopped", "wait"}
    BY <1>2, <2>1, PbxPopping
  <2> QED
    BY <1>2, <1>3, <1>4, <1>5, <1>6, <1>7, <1>8, <1>9, <2>1, <2>2 DEF SessionStands,
       PbxStands, LockInv, HangupInv, HoldInv, BoundInv, PastInv, Past, StreamInv, CloseInv,
       ResultInv, CountInv, Stands, At, Idle, Thread
<1> QED
  BY <1>9 DEF Unbind, callOnly

(* The hangup gives the channel up. *)
LEMMA PbxUnlockKeeps ==
    ASSUME TypeInv, SilentInv, Unlock("pbx")
    PROVE  SilentInv'
<1> USE DEF TypeInv, SilentInv
<1>1. At("pbx", "unlock")
  BY DEF Unlock
<1>2. PICK r \in PbxRests("unlock") :
         /\ Stands("pbx", "unlock", r)
         /\ \A steps : Then("pbx", steps) =>
               todo'["pbx"] = steps \o r /\ todo'["session"] = todo["session"]
  BY <1>1, PbxAt
<1>3. /\ lock = "pbx" /\ ~In("unlock", todo["session"]) /\ ~In("resumeHeld", todo["session"])
      /\ ~In("connected", todo["session"])
      /\ ~At("session", "openMark") /\ ~At("session", "openSend")
  BY <1>2, HangupHolds DEF Stands, Idle
<1>4. r \in Seq(Step)
  BY <1>2 DEF Stands
<1>5. r = <<>> /\ \A x : ~In(x, r)
  BY <1>2, PbxTable, StackFacts
<1>6. lock' = Nobody /\ Nobody \notin Thread
  BY MediaAssumption DEF Unlock, Thread
<1>7. result' = result /\ inflight' = inflight /\ call' = call /\ rtp' = rtp
  BY DEF Unlock, callOnly
<1>8. (MayReceive' <=> MayReceive) /\ (MaySend' <=> MaySend) /\ Opens' = Opens /\ Acks' = Acks
  BY NoMessage DEF Unlock, callOnly
<1>9. CASE Done("pbx")
  <2>1. todo'["pbx"] = r /\ todo'["session"] = todo["session"]
    BY <1>9, <1>2, <1>4, PushStep DEF Done
  <2>2. /\ PbxStands' /\ (r = <<>> <=> "unlock" = "unlock")
        /\ r # <<>> => Head(r) \notin {"closed", "stopped", "wait"}
    BY <1>2, <2>1, PbxPopping
  <2> QED
    BY <1>2, <1>3, <1>4, <1>5, <1>6, <1>7, <1>8, <1>9, <2>1, <2>2 DEF SessionStands,
       PbxStands, LockInv, HangupInv, HoldInv, BoundInv, PastInv, Past, StreamInv, CloseInv,
       ResultInv, CountInv, Stands, At, Idle, Thread
<1> QED
  BY <1>9 DEF Unlock, callOnly

(* The channel leaves its line. *)
LEMMA UnlistKeeps ==
    ASSUME TypeInv, SilentInv, Unlist
    PROVE  SilentInv'
<1> USE DEF TypeInv, SilentInv
<1>1. At("pbx", "unlist")
  BY DEF Unlist
<1>2. PICK r \in PbxRests("unlist") :
         /\ Stands("pbx", "unlist", r)
         /\ \A steps : Then("pbx", steps) =>
               todo'["pbx"] = steps \o r /\ todo'["session"] = todo["session"]
  BY <1>1, PbxAt
<1>3. /\ lock = "pbx" /\ ~In("unlock", todo["session"]) /\ ~In("resumeHeld", todo["session"])
      /\ ~In("connected", todo["session"])
      /\ ~At("session", "openMark") /\ ~At("session", "openSend")
  BY <1>2, HangupHolds DEF Stands, Idle
<1>4. r \in Seq(Step)
  BY <1>2 DEF Stands
<1>5. \A x : In(x, r) <=> x \in {"onhook", "clean", "gone", "unlock"}
  BY <1>2, PbxTable, PbxContents
<1>6. lock' = lock /\ result' = result /\ inflight' = inflight /\ rtp' = rtp
  BY DEF Unlist, callOnly
<1>7. /\ call'.state = call.state /\ call'.device = call.device /\ call'.gone = call.gone
      /\ call'.hanging = call.hanging /\ call'.hangup = call.hangup
  BY DEF Unlist, callOnly, TypeOK, Call
<1>8. (MayReceive' <=> MayReceive) /\ (MaySend' <=> MaySend) /\ Opens' = Opens /\ Acks' = Acks
  BY NoMessage DEF Unlist, callOnly
<1>9. CASE Done("pbx")
  <2>1. todo'["pbx"] = r /\ todo'["session"] = todo["session"]
    BY <1>9, <1>2, <1>4, PushStep DEF Done
  <2>2. /\ PbxStands' /\ (r = <<>> <=> "unlist" = "unlock")
        /\ r # <<>> => Head(r) \notin {"closed", "stopped", "wait"}
    BY <1>2, <2>1, PbxPopping
  <2> QED
    BY <1>2, <1>3, <1>4, <1>5, <1>6, <1>7, <1>8, <1>9, <2>1, <2>2 DEF SessionStands,
       PbxStands, LockInv, HangupInv, HoldInv, BoundInv, PastInv, Past, StreamInv, CloseInv,
       ResultInv, CountInv, Stands, At, Idle, Thread
<1> QED
  BY <1>9 DEF Unlist, callOnly

(* The channel is on hook. *)
LEMMA OnhookKeeps ==
    ASSUME TypeInv, SilentInv, Onhook
    PROVE  SilentInv'
<1> USE DEF TypeInv, SilentInv
<1>1. At("pbx", "onhook")
  BY DEF Onhook
<1>2. PICK r \in PbxRests("onhook") :
         /\ Stands("pbx", "onhook", r)
         /\ \A steps : Then("pbx", steps) =>
               todo'["pbx"] = steps \o r /\ todo'["session"] = todo["session"]
  BY <1>1, PbxAt
<1>3. /\ lock = "pbx" /\ ~In("unlock", todo["session"]) /\ ~In("resumeHeld", todo["session"])
      /\ ~In("connected", todo["session"])
      /\ ~At("session", "openMark") /\ ~At("session", "openSend")
  BY <1>2, HangupHolds DEF Stands, Idle
<1>4. r \in Seq(Step)
  BY <1>2 DEF Stands
<1>5. \A x : In(x, r) <=> x \in {"clean", "gone", "unlock"}
  BY <1>2, PbxTable, PbxContents
<1>6. lock' = lock /\ result' = result /\ inflight' = inflight /\ rtp' = rtp
  BY DEF Onhook, callOnly
<1>7. /\ call'.state = "down" /\ call'.device = call.device /\ call'.gone = call.gone
      /\ call'.hanging = call.hanging /\ call'.hangup = call.hangup
  BY DEF Onhook, callOnly, TypeOK, Call
<1>8. (MayReceive' <=> MayReceive) /\ (MaySend' <=> MaySend) /\ Opens' = Opens /\ Acks' = Acks
  BY NoMessage DEF Onhook, callOnly
<1>9. CASE Done("pbx")
  <2>1. todo'["pbx"] = r /\ todo'["session"] = todo["session"]
    BY <1>9, <1>2, <1>4, PushStep DEF Done
  <2>2. /\ PbxStands' /\ (r = <<>> <=> "onhook" = "unlock")
        /\ r # <<>> => Head(r) \notin {"closed", "stopped", "wait"}
    BY <1>2, <2>1, PbxPopping
  <2> QED
    BY <1>2, <1>3, <1>4, <1>5, <1>6, <1>7, <1>8, <1>9, <2>1, <2>2 DEF SessionStands,
       PbxStands, LockInv, HangupInv, HoldInv, BoundInv, PastInv, Past, StreamInv, CloseInv,
       ResultInv, CountInv, Stands, At, Idle, Thread
<1> QED
  BY <1>9 DEF Onhook, callOnly

(* The channel is cleaned. *)
LEMMA CleanKeeps ==
    ASSUME TypeInv, SilentInv, Clean
    PROVE  SilentInv'
<1> USE DEF TypeInv, SilentInv
<1>1. At("pbx", "clean")
  BY DEF Clean
<1>2. PICK r \in PbxRests("clean") :
         /\ Stands("pbx", "clean", r)
         /\ \A steps : Then("pbx", steps) =>
               todo'["pbx"] = steps \o r /\ todo'["session"] = todo["session"]
  BY <1>1, PbxAt
<1>3. /\ lock = "pbx" /\ ~In("unlock", todo["session"]) /\ ~In("resumeHeld", todo["session"])
      /\ ~In("connected", todo["session"])
      /\ ~At("session", "openMark") /\ ~At("session", "openSend")
  BY <1>2, HangupHolds DEF Stands, Idle
<1>4. r \in Seq(Step)
  BY <1>2 DEF Stands
<1>5. r = Leaving /\ \A x : In(x, r) <=> x \in {"gone", "unlock"}
  BY <1>2, PbxTable, PbxContents
<1>6. lock' = lock /\ result' = result /\ inflight' = inflight /\ call' = call /\ rtp' = rtp
  BY DEF Clean, nothing
<1>7. (MayReceive' <=> MayReceive) /\ (MaySend' <=> MaySend) /\ Opens' = Opens /\ Acks' = Acks
  BY NoMessage DEF Clean, nothing
<1>8. CASE Then("pbx", <<"close", "stop", "unbind">>)
  <2>1. todo'["pbx"] = <<"close", "stop", "unbind">> \o r /\ todo'["session"] = todo["session"]
    BY <1>8, <1>2
  <2>2. "close" \in Step /\ "stop" \in Step /\ "unbind" \in Step
    BY AllSteps
  <2>3. On("unbind", r) \in Seq(Step)
        /\ \A x : In(x, On("unbind", r)) <=> x = "unbind" \/ In(x, r)
    BY <1>4, <2>2, StackFacts
  <2>4. PICK q1 \in Seq(Step) :
           q1 = On("unbind", r) /\ \A x : In(x, q1) <=> x = "unbind" \/ In(x, r)
    BY <2>3
  <2>5. On("stop", q1) \in Seq(Step)
        /\ \A x : In(x, On("stop", q1)) <=> x = "stop" \/ In(x, q1)
    BY <2>4, <2>2, StackFacts
  <2>6. PICK q2 \in Seq(Step) :
           q2 = On("stop", q1) /\ \A x : In(x, q2) <=> x = "stop" \/ In(x, q1)
    BY <2>5
  <2>7. <<"close", "stop", "unbind">> \o r = On("close", On("stop", On("unbind", r)))
    BY <1>4, <2>2, PushStep
  <2>8. <<"close", "stop", "unbind">> \o r = On("close", q2)
    BY <2>7, <2>4, <2>6
  <2>9. Stands("pbx", "close", q2)'
    BY <1>4, <2>1, <2>8, <2>2, <2>6, StandingNext, PbxThread
  <2>10. q2 \in PbxRests("close")
    BY <1>2, PbxTable, <2>4, <2>6, <1>5 DEF HangupRests
  <2> QED
    BY <1>2, <1>3, <1>4, <1>5, <1>6, <1>7, <1>8, <2>1, <2>4, <2>6, <2>9, <2>10 DEF
       SessionStands, PbxStands, LockInv, HangupInv, HoldInv, BoundInv, PastInv, Past, StreamInv,
       CloseInv, ResultInv, CountInv, Stands, At, Idle, Thread
<1>9. CASE ~call.device /\ Done("pbx")
  <2>1. todo'["pbx"] = r /\ todo'["session"] = todo["session"]
    BY <1>9, <1>2, <1>4, PushStep DEF Done
  <2>2. /\ PbxStands' /\ (r = <<>> <=> "clean" = "unlock")
        /\ r # <<>> => Head(r) \notin {"closed", "stopped", "wait"}
    BY <1>2, <2>1, PbxPopping
  <2> QED
    BY <1>2, <1>3, <1>4, <1>5, <1>6, <1>7, <1>9, <2>1, <2>2 DEF SessionStands, PbxStands,
       LockInv, HangupInv, HoldInv, BoundInv, PastInv, Past, StreamInv, CloseInv, ResultInv,
       CountInv, Stands, At, Idle, Thread
<1> QED
  BY <1>8, <1>9, UnbindIs DEF Clean, nothing, CloseAll, Done

(* The channel is gone. *)
LEMMA GoneKeeps ==
    ASSUME TypeInv, SilentInv, Gone
    PROVE  SilentInv'
<1> USE DEF TypeInv, SilentInv
<1>1. At("pbx", "gone")
  BY DEF Gone
<1>2. PICK r \in PbxRests("gone") :
         /\ Stands("pbx", "gone", r)
         /\ \A steps : Then("pbx", steps) =>
               todo'["pbx"] = steps \o r /\ todo'["session"] = todo["session"]
  BY <1>1, PbxAt
<1>3. /\ lock = "pbx" /\ ~In("unlock", todo["session"]) /\ ~In("resumeHeld", todo["session"])
      /\ ~In("connected", todo["session"])
      /\ ~At("session", "openMark") /\ ~At("session", "openSend")
  BY <1>2, HangupHolds DEF Stands, Idle
<1>4. r \in Seq(Step)
  BY <1>2 DEF Stands
<1>5. \A x : In(x, r) <=> x = "unlock"
  BY <1>2, PbxTable, Contents
<1>6. call.state = "down" /\ ~call.device
  BY <1>2, <1>5 DEF HangupInv, Stands, Idle
<1>7. lock' = lock /\ result' = result /\ inflight' = inflight /\ rtp' = rtp
  BY DEF Gone, callOnly
<1>8. /\ call'.state = call.state /\ call'.device = call.device /\ call'.gone = TRUE
      /\ call'.hanging = call.hanging /\ call'.hangup = TRUE
  BY DEF Gone, callOnly, TypeOK, Call
<1>9. (MayReceive' <=> MayReceive) /\ (MaySend' <=> MaySend) /\ Opens' = Opens /\ Acks' = Acks
  BY NoMessage DEF Gone, callOnly
<1>10. CASE Done("pbx")
  <2>1. todo'["pbx"] = r /\ todo'["session"] = todo["session"]
    BY <1>10, <1>2, <1>4, PushStep DEF Done
  <2>2. /\ PbxStands' /\ (r = <<>> <=> "gone" = "unlock")
        /\ r # <<>> => Head(r) \notin {"closed", "stopped", "wait"}
    BY <1>2, <2>1, PbxPopping
  <2> QED
    BY <1>2, <1>3, <1>4, <1>5, <1>6, <1>7, <1>8, <1>9, <1>10, <2>1, <2>2 DEF SessionStands,
       PbxStands, LockInv, HangupInv, HoldInv, BoundInv, PastInv, Past, StreamInv, CloseInv,
       ResultInv, CountInv, Stands, At, Idle, Thread
<1> QED
  BY <1>10 DEF Gone, callOnly

(* Every request is answered. *)
LEMMA WaitedKeeps ==
    ASSUME TypeInv, SilentInv, Waited
    PROVE  SilentInv'
<1> USE DEF TypeInv, SilentInv
<1>1. At("pbx", "wait")
  BY DEF Waited
<1>2. PICK r \in PbxRests("wait") :
         /\ Stands("pbx", "wait", r)
         /\ \A steps : Then("pbx", steps) =>
               todo'["pbx"] = steps \o r /\ todo'["session"] = todo["session"]
  BY <1>1, PbxAt
<1>3. /\ lock = "pbx" /\ ~In("unlock", todo["session"]) /\ ~In("resumeHeld", todo["session"])
      /\ ~In("connected", todo["session"])
      /\ ~At("session", "openMark") /\ ~At("session", "openSend")
  BY <1>2, HangupHolds DEF Stands, Idle
<1>4. r \in Seq(Step)
  BY <1>2 DEF Stands
<1>5. /\ In("close", r) /\ In("stop", r) /\ In("gone", r)
  BY <1>2, PbxTable, WaitHas
<1>6. call.gone \/ ~In("answered", todo["session"])
  BY <1>1, CountTypes DEF CountInv, Past, Waited
<1>7. /\ ~At("session", "startMark") /\ ~At("session", "startSend")
      /\ (At("session", "startReady") => ~call.device)
  BY <1>2, <1>6, NoneStarts DEF BoundInv, HangupInv, Stands, Idle
<1>8. lock' = lock /\ result' = result /\ inflight' = inflight /\ call' = call /\ rtp' = rtp
  BY DEF Waited, nothing
<1>9. (MayReceive' <=> MayReceive) /\ (MaySend' <=> MaySend) /\ Opens' = Opens /\ Acks' = Acks
  BY NoMessage DEF Waited, nothing
<1>10. CASE Done("pbx")
  <2>1. todo'["pbx"] = r /\ todo'["session"] = todo["session"]
    BY <1>10, <1>2, <1>4, PushStep DEF Done
  <2>2. /\ PbxStands' /\ (r = <<>> <=> "wait" = "unlock")
        /\ r # <<>> => Head(r) \notin {"closed", "stopped", "wait"}
    BY <1>2, <2>1, PbxPopping
  <2> QED
    BY <1>2, <1>3, <1>4, <1>5, <1>6, <1>7, <1>8, <1>9, <1>10, <2>1, <2>2 DEF SessionStands,
       PbxStands, LockInv, HangupInv, HoldInv, BoundInv, PastInv, Past, StreamInv, CloseInv,
       ResultInv, CountInv, Stands, At, Idle, Thread
<1> QED
  BY <1>10 DEF Waited, nothing

(* Five seconds are over: the session is idle or waits for the channel. *)
LEMMA TimesOutKeeps ==
    ASSUME TypeInv, SilentInv, TimesOut
    PROVE  SilentInv'
<1> USE DEF TypeInv, SilentInv
<1>1. At("pbx", "wait")
  BY DEF TimesOut
<1>2. PICK r \in PbxRests("wait") :
         /\ Stands("pbx", "wait", r)
         /\ \A steps : Then("pbx", steps) =>
               todo'["pbx"] = steps \o r /\ todo'["session"] = todo["session"]
  BY <1>1, PbxAt
<1>3. /\ lock = "pbx" /\ ~In("unlock", todo["session"]) /\ ~In("resumeHeld", todo["session"])
      /\ ~In("connected", todo["session"])
      /\ ~At("session", "openMark") /\ ~At("session", "openSend")
  BY <1>2, HangupHolds DEF Stands, Idle
<1>4. r \in Seq(Step) /\ In("close", r) /\ In("stop", r) /\ In("gone", r)
  BY <1>2, PbxTable, WaitHas
<1>5. todo'["pbx"] = r /\ todo'["session"] = todo["session"]
  BY <1>2, <1>3, PbxThread DEF TimesOut, Stands, StackType
<1>6. /\ PbxStands' /\ r # <<>> /\ Head(r) \notin {"closed", "stopped", "wait"}
  BY <1>2, <1>5, PbxPopping
<1>7. ~At("session", "startMark") /\ ~At("session", "startSend") /\ ~At("session", "startReady")
  BY DEF TimesOut, Blocked, Idle, At
<1>8. lock' = lock /\ result' = result /\ call' = call /\ rtp' = rtp
  BY DEF TimesOut
<1>9. (MayReceive' <=> MayReceive) /\ (MaySend' <=> MaySend)
  BY DEF TimesOut, MayReceive, MaySend
<1> QED
  BY <1>2, <1>3, <1>4, <1>5, <1>6, <1>7, <1>8, <1>9 DEF SessionStands, PbxStands, LockInv,
     HangupInv, HoldInv, BoundInv, PastInv, Past, StreamInv, CloseInv, ResultInv, CountInv,
     Stands, At, Idle, Thread

(* Steps on top of nothing *)
LEMMA AtTheEnd ==
    ASSUME NEW a \in Step, NEW b \in Step, NEW c \in Step, NEW d \in Step
    PROVE  /\ <<a>> = On(a, <<>>) /\ <<a, b>> = On(a, On(b, <<>>))
           /\ <<a, b, c, d>> = On(a, On(b, On(c, On(d, <<>>))))
<1>1. PICK n \in Seq(Step) : n = <<>>
  BY StackFacts
<1>2. <<a>> \o n = On(a, n) /\ <<a, b>> \o n = On(a, On(b, n))
  BY PushStep
<1>5. <<a, b, c, d>> \o n = On(a, On(b, On(c, On(d, n))))
  BY PushStep
<1>3. <<a>> \in Seq(Step) /\ <<a, b>> \in Seq(Step) /\ <<a, b, c, d>> \in Seq(Step)
  OBVIOUS
<1>4. <<a>> \o <<>> = <<a>> /\ <<a, b>> \o <<>> = <<a, b>>
      /\ <<a, b, c, d>> \o <<>> = <<a, b, c, d>>
  BY <1>3, ConcatEmptySeq
<1> QED
  BY <1>1, <1>2, <1>4, <1>5

(* What the hangup has to do *)
LEMMA HangupIs ==
    LET rest == <<"unlist", "onhook", "clean", "gone", "unlock">>
    IN  /\ <<"wait">> \o CloseAll \o rest = On("wait", On("close", On("stop", Unlisting)))
        /\ <<>> \o CloseAll \o rest = On("close", On("stop", Unlisting))
<1>1. ASSUME NEW a \in Step, NEW b \in Step, NEW c \in Step, NEW d \in Step, NEW e \in Step
      PROVE  <<a, b, c, d, e>> \in Seq(Step)
             /\ <<a, b, c, d, e>> = On(a, On(b, On(c, On(d, On(e, <<>>)))))
  <2>1. <<b, c, d, e>> = On(b, On(c, On(d, On(e, <<>>))))
    BY AtTheEnd
  <2>2. <<a, b, c, d, e>> = <<a>> \o <<b, c, d, e>>
    OBVIOUS
  <2>3. <<a, b, c, d, e>> \in Seq(Step)
    OBVIOUS
  <2> QED
    BY <2>1, <2>2, <2>3 DEF On
<1>2. ASSUME NEW w \in Seq(Step), NEW x \in Step, NEW y \in Step, NEW z \in Step
      PROVE  /\ <<x>> \o <<y, z>> \o w = On(x, On(y, On(z, w)))
             /\ <<>> \o <<y, z>> \o w = On(y, On(z, w))
  <2>1. <<x, y, z>> = <<x>> \o <<y, z>>
    OBVIOUS
  <2>2. <<y, z>> \o w = On(y, On(z, w))
    BY PushStep
  <2>5. <<x, y, z>> \o w = On(x, On(y, On(z, w)))
    BY PushStep
  <2>3. <<y, z>> \in Seq(Step)
    OBVIOUS
  <2>4. <<>> \o <<y, z>> = <<y, z>>
    BY <2>3, ConcatEmptySeq
  <2> QED
    BY <2>1, <2>2, <2>4, <2>5
<1>3. PICK w \in Seq(Step) :
         w = <<"unlist", "onhook", "clean", "gone", "unlock">> /\ w = Unlisting
  <2>1. PICK a \in Step, b \in Step, c \in Step, d \in Step, e \in Step :
           a = "unlist" /\ b = "onhook" /\ c = "clean" /\ d = "gone" /\ e = "unlock"
    BY AllSteps
  <2>2. <<a, b, c, d, e>> \in Seq(Step)
        /\ <<a, b, c, d, e>> = On(a, On(b, On(c, On(d, On(e, <<>>)))))
    BY <1>1
  <2> QED
    BY <2>1, <2>2 DEF Unlisting, Cleaning, Leaving
<1>4. /\ <<"wait">> \o CloseAll \o w = On("wait", On("close", On("stop", w)))
      /\ <<>> \o CloseAll \o w = On("close", On("stop", w))
  BY <1>2, AllSteps DEF CloseAll
<1> QED
  BY <1>3, <1>4

(* The PBX hangs up. *)
LEMMA HangupKeeps ==
    ASSUME TypeInv, SilentInv, Hangup
    PROVE  SilentInv'
<1> USE DEF TypeInv, SilentInv
<1>1. /\ todo["pbx"] = <<>> /\ ~call.gone /\ lock = Nobody /\ lock' = "pbx"
      /\ result' = result /\ inflight' = inflight /\ rtp' = rtp
  BY DEF Hangup, Locks, callOnly, Idle
<1>2. Nobody \notin Thread /\ \A x : ~In(x, todo["pbx"])
  BY <1>1, Empty, MediaAssumption DEF Thread
<1>3. /\ call'.state = call.state /\ call'.device = call.device /\ call'.gone = call.gone
      /\ call'.hanging = TRUE /\ call'.hangup = call.hangup
  BY DEF Hangup, TypeOK, Call
<1>4. (MayReceive' <=> MayReceive) /\ (MaySend' <=> MaySend) /\ Opens' = Opens /\ Acks' = Acks
  BY NoMessage DEF Hangup, callOnly
<1>5. PICK w \in Seq(Step) :
         /\ w = On("close", On("stop", Unlisting))
         /\ \A x : In(x, w) <=>
               x \in {"close", "stop", "unlist", "onhook", "clean", "gone", "unlock"}
  BY WaitHas
<1>6. todo'["session"] = todo["session"]
  BY PbxThread DEF Hangup, StackType
<1>7. CASE call.device
  <2>1. todo'["pbx"] = On("wait", w)
    BY <1>5, <1>7, HangupIs, PbxThread DEF Hangup, StackType
  <2>2. Stands("pbx", "wait", w)'
    BY <2>1, AllSteps, StandingNext, PbxThread
  <2>3. w \in PbxRests("wait")
    BY <1>5, PbxTable
  <2> QED
    BY <1>1, <1>2, <1>3, <1>4, <1>5, <1>6, <1>7, <2>2, <2>3 DEF SessionStands, PbxStands,
       LockInv, HangupInv, HoldInv, BoundInv, PastInv, Past, StreamInv, CloseInv, ResultInv,
       CountInv, Stands, At, Idle, Thread
<1>8. CASE ~call.device
  <2>1. Unlisting \in HangupRests
    BY DEF HangupRests
  <2>2. PICK s \in Seq(Step) : s = On("stop", Unlisting) /\ s \in PbxRests("close")
    BY <2>1, ClosingHas
  <2>3. todo'["pbx"] = On("close", s) /\ w = On("close", s)
    BY <1>5, <1>8, <2>2, HangupIs, PbxThread DEF Hangup, StackType
  <2>4. Stands("pbx", "close", s)'
    BY <2>3, AllSteps, StandingNext, PbxThread
  <2>5. todo'["pbx"] = w
    BY <2>3
  <2> QED
    BY <1>1, <1>2, <1>3, <1>4, <1>5, <1>6, <1>8, <2>2, <2>4, <2>5 DEF SessionStands, PbxStands,
       LockInv, HangupInv, HoldInv, BoundInv, PastInv, Past, StreamInv, CloseInv, ResultInv,
       CountInv, Stands, At, Idle, Thread
<1> QED
  BY <1>7, <1>8

(* The session takes the next message. *)
LEMMA HandleKeeps ==
    ASSUME TypeInv, SilentInv, Handle
    PROVE  SilentInv'
<1> USE DEF TypeInv, SilentInv
<1>1. todo["session"] = <<>> /\ \A x : ~In(x, todo["session"])
  BY Empty DEF Handle, Idle
<1>2. PICK m \in Ack \cup Key : m = Head(fromPhone)
  BY HeadTailProperties DEF Handle, TypeOK
<1>3. todo'["session"] = Steps(m) /\ todo'["pbx"] = todo["pbx"]
  BY <1>2, PbxThread DEF Handle, StackType
<1>4. lock' = lock /\ result' = result /\ inflight' = inflight /\ call' = call /\ rtp' = rtp
  BY DEF Handle
<1>5. (MayReceive' <=> MayReceive) /\ (MaySend' <=> MaySend) /\ Opens' = Opens
  BY DEF Handle, MayReceive, MaySend, Opens
<1>6. Acks = Acks' + (IF m.what = "openAck" THEN 1 ELSE 0) /\ Acks' \in Nat
  BY <1>2, CountHandle DEF Handle
<1>7. Opens \in Nat
  BY CountTypes
<1>8. CASE m.what = "openAck"
  <2>1. todo'["session"] = <<"openAck", "answered">>
    BY <1>3, <1>8 DEF Steps
  <2>2. <<"openAck", "answered">> = On("openAck", Answering)
    BY AllSteps, AtTheEnd DEF Answering
  <2>3. Answering \in Seq(Step) /\ (\A x : In(x, Answering) <=> x = "answered")
    BY Contents
  <2>4. Stands("session", "openAck", Answering)'
    BY <2>1, <2>2, <2>3, AllSteps, StandingNext, PbxThread
  <2>5. Answering \in SessionRests("openAck")
    BY RestTable
  <2>6. SessionStands'
    BY <1>1, <1>3, <1>4, <1>5, <1>6, <1>7, <1>8, <2>3, <2>4, <2>5 DEF SessionStands,
       Stands, At, Idle, Thread
  <2>7. PbxStands'
    BY <1>1, <1>3, <1>4, <1>5, <1>6, <1>7, <1>8, <2>3, <2>4, <2>5 DEF PbxStands,
       Stands, At, Idle, Thread
  <2>8. LockInv'
    BY <1>1, <1>3, <1>4, <1>5, <1>6, <1>7, <1>8, <2>3, <2>4, <2>5 DEF LockInv,
       Stands, At, Idle, Thread
  <2>9. HangupInv'
    BY <1>1, <1>3, <1>4, <1>5, <1>6, <1>7, <1>8, <2>3, <2>4, <2>5 DEF HangupInv,
       Stands, At, Idle, Thread
  <2>10. HoldInv'
    BY <1>1, <1>3, <1>4, <1>5, <1>6, <1>7, <1>8, <2>3, <2>4, <2>5 DEF HoldInv,
       Stands, At, Idle, Thread
  <2>11. BoundInv'
    BY <1>1, <1>3, <1>4, <1>5, <1>6, <1>7, <1>8, <2>3, <2>4, <2>5 DEF BoundInv,
       Stands, At, Idle, Thread
  <2>12. PastInv'
    BY <1>1, <1>3, <1>4, <1>5, <1>6, <1>7, <1>8, <2>3, <2>4, <2>5 DEF PastInv, Past,
       Stands, At, Idle, Thread
  <2>13. StreamInv'
    BY <1>1, <1>3, <1>4, <1>5, <1>6, <1>7, <1>8, <2>3, <2>4, <2>5 DEF StreamInv,
       Stands, At, Idle, Thread
  <2>14. CloseInv'
    BY <1>1, <1>3, <1>4, <1>5, <1>6, <1>7, <1>8, <2>3, <2>4, <2>5 DEF CloseInv,
       Stands, At, Idle, Thread
  <2>15. ResultInv'
    BY <1>1, <1>3, <1>4, <1>5, <1>6, <1>7, <1>8, <2>3, <2>4, <2>5 DEF ResultInv,
       Stands, At, Idle, Thread
  <2>16. CountInv'
    BY <1>1, <1>3, <1>4, <1>5, <1>6, <1>7, <1>8, <2>3, <2>4, <2>5 DEF CountInv, Past,
       Stands, At, Idle, Thread
  <2> QED
    BY <2>6, <2>7, <2>8, <2>9, <2>10, <2>11, <2>12,
       <2>13, <2>14, <2>15, <2>16
<1>9. CASE m.what # "openAck"
  <2>1. ASSUME NEW h \in {"startAck", "answer", "hold", "resume", "endcall"},
               todo'["session"] = <<h>>
        PROVE  SilentInv'
    <3>1. h \in Step /\ <<>> \in Seq(Step) /\ (\A x : ~In(x, <<>>))
      BY AllSteps, StackFacts
    <3>2. <<h>> = On(h, <<>>)
      BY <3>1, AtTheEnd
    <3>3. Stands("session", h, <<>>)'
      BY <2>1, <3>1, <3>2, StandingNext, PbxThread
    <3>4. <<>> \in SessionRests(h)
      BY RestTable DEF Held
    <3>5. SessionStands'
      BY <1>1, <1>3, <1>4, <1>5, <1>6, <1>7, <1>9, <3>1, <3>3, <3>4 DEF SessionStands,
         Stands, At, Idle, Thread
    <3>6. PbxStands'
      BY <1>1, <1>3, <1>4, <1>5, <1>6, <1>7, <1>9, <3>1, <3>3, <3>4 DEF PbxStands,
         Stands, At, Idle, Thread
    <3>7. LockInv'
      BY <1>1, <1>3, <1>4, <1>5, <1>6, <1>7, <1>9, <3>1, <3>3, <3>4 DEF LockInv,
         Stands, At, Idle, Thread
    <3>8. HangupInv'
      BY <1>1, <1>3, <1>4, <1>5, <1>6, <1>7, <1>9, <3>1, <3>3, <3>4 DEF HangupInv,
         Stands, At, Idle, Thread
    <3>9. HoldInv'
      BY <1>1, <1>3, <1>4, <1>5, <1>6, <1>7, <1>9, <3>1, <3>3, <3>4 DEF HoldInv,
         Stands, At, Idle, Thread
    <3>10. BoundInv'
      BY <1>1, <1>3, <1>4, <1>5, <1>6, <1>7, <1>9, <3>1, <3>3, <3>4 DEF BoundInv,
         Stands, At, Idle, Thread
    <3>11. PastInv'
      BY <1>1, <1>3, <1>4, <1>5, <1>6, <1>7, <1>9, <3>1, <3>3, <3>4 DEF PastInv, Past,
         Stands, At, Idle, Thread
    <3>12. StreamInv'
      BY <1>1, <1>3, <1>4, <1>5, <1>6, <1>7, <1>9, <3>1, <3>3, <3>4 DEF StreamInv,
         Stands, At, Idle, Thread
    <3>13. CloseInv'
      BY <1>1, <1>3, <1>4, <1>5, <1>6, <1>7, <1>9, <3>1, <3>3, <3>4 DEF CloseInv,
         Stands, At, Idle, Thread
    <3>14. ResultInv'
      BY <1>1, <1>3, <1>4, <1>5, <1>6, <1>7, <1>9, <3>1, <3>3, <3>4 DEF ResultInv,
         Stands, At, Idle, Thread
    <3>15. CountInv'
      BY <1>1, <1>3, <1>4, <1>5, <1>6, <1>7, <1>9, <3>1, <3>3, <3>4 DEF CountInv, Past,
         Stands, At, Idle, Thread
    <3> QED
      BY <3>5, <3>6, <3>7, <3>8, <3>9, <3>10, <3>11,
         <3>12, <3>13, <3>14, <3>15
  <2>2. ASSUME todo'["session"] = <<>> PROVE SilentInv'
    BY <1>1, <1>3, <1>4, <1>5, <1>6, <1>7, <1>9, <2>2 DEF SessionStands, PbxStands, LockInv,
       HangupInv, HoldInv, BoundInv, PastInv, Past, StreamInv, CloseInv, ResultInv, CountInv,
       At, Idle, Thread
  <2>3. m.what \in {"startAck", "answer", "hold", "resume", "endcall"}
    BY <1>2, <1>9, MediaAssumption DEF Ack, Key
  <2>4. Steps(m) = <<m.what>> \/ Steps(m) = <<>>
    BY <1>9, <2>3 DEF Steps
  <2> QED
    BY <1>3, <2>1, <2>2, <2>3, <2>4
<1> QED
  BY <1>8, <1>9

(* Nothing that is about silence has changed, or less is on its way. *)
LEMMA OutsideKeeps ==
    ASSUME TypeInv, SilentInv, UNCHANGED <<todo, lock, result, call, rtp, inflight>>,
           MayReceive' => MayReceive, MaySend' => MaySend, Opens' + Acks' = Opens + Acks,
           Opens \in Nat, Acks \in Nat, Opens' \in Nat, Acks' \in Nat
    PROVE  SilentInv'
<1> USE DEF TypeInv, SilentInv
<1>1. SessionStands' /\ PbxStands' /\ LockInv' /\ HangupInv' /\ HoldInv' /\ BoundInv' /\ PastInv'
  BY DEF SessionStands, PbxStands, LockInv, HangupInv, HoldInv, BoundInv, PastInv, Past, At,
     Idle
<1>2. StreamInv' /\ CloseInv' /\ ResultInv'
  BY DEF StreamInv, CloseInv, ResultInv, At
<1>3. CountInv'
  BY DEF CountInv, Past, At, Idle
<1> QED
  BY <1>1, <1>2, <1>3

(* Nor does a key that the user presses. *)
LEMMA PressKeeps ==
    ASSUME TypeInv, SilentInv, Press
    PROVE  SilentInv'
<1> USE DEF TypeInv
<1>1. PICK k \in Keys : fromPhone' = Append(fromPhone, [what |-> k])
  BY DEF Press
<1>2. [what |-> k] \in Ack \cup Key /\ [what |-> k].what # "openAck"
  BY MediaAssumption DEF Key
<1>3. Acks' = Acks
  <2>1. Acks \in Nat
    BY CountTypes
  <2> QED
    BY <1>1, <1>2, <2>1, CountTell
<1>4. (MayReceive' <=> MayReceive) /\ (MaySend' <=> MaySend) /\ Opens' = Opens
  BY DEF Press, MayReceive, MaySend, Opens
<1> QED
  BY <1>3, <1>4, CountTypes, OutsideKeeps DEF Press

(* The phone takes a message. *)
LEMMA PhoneTakes ==
    ASSUME TypeOK, toPhone # <<>>, toPhone' = Tail(toPhone),
           phone'.rx => phone.rx \/ Head(toPhone) = "open",
           phone'.tx => phone.tx \/ Head(toPhone) = "start",
           Head(toPhone) = "close" => ~phone'.rx,
           Head(toPhone) = "stop" => ~phone'.tx
    PROVE  (MayReceive' => MayReceive) /\ (MaySend' => MaySend)
<1>1. PICK n \in Nat \ {0} : n = Len(toPhone)
  BY EmptySeq DEF TypeOK
<1>2. /\ Len(toPhone') = n - 1 /\ Head(toPhone) = toPhone[1]
      /\ \A i \in 1 .. n - 1 : toPhone'[i] = toPhone[i + 1]
  BY <1>1, HeadTailProperties DEF TypeOK
<1>3. \A j \in 2 .. n : j - 1 \in 1 .. n - 1 /\ toPhone[j] = toPhone'[j - 1]
  <2>1. ASSUME NEW j \in 2 .. n PROVE j - 1 \in 1 .. n - 1 /\ (j - 1) + 1 = j
    OBVIOUS
  <2> QED
    BY <1>2, <2>1
<1>4. ASSUME NEW a, NEW i \in 1 .. n - 1, \A j \in i .. n - 1 : toPhone'[j] # a
      PROVE  i + 1 \in 1 .. n /\ \A j \in i + 1 .. n : toPhone[j] # a
  <2>1. i + 1 \in 1 .. n
    OBVIOUS
  <2>2. ASSUME NEW j \in i + 1 .. n PROVE toPhone[j] # a
    <3>1. j \in 2 .. n /\ j - 1 \in i .. n - 1
      OBVIOUS
    <3> QED
      BY <3>1, <1>3, <1>4
  <2> QED
    BY <2>1, <2>2
<1>5. ASSUME NEW a, \A j \in 1 .. n - 1 : toPhone'[j] # a, toPhone[1] # a
      PROVE  \A j \in 1 .. n : toPhone[j] # a
  <2>1. ASSUME NEW j \in 1 .. n PROVE toPhone[j] # a
    <3>1. j = 1 \/ j \in 2 .. n
      OBVIOUS
    <3> QED
      BY <3>1, <1>3, <1>5
  <2> QED
    BY <2>1
<1>6. 1 \in 1 .. n
  BY <1>1
<1>7. ASSUME MayReceive' PROVE MayReceive
  <2>1. CASE phone'.rx /\ \A i \in 1 .. n - 1 : toPhone'[i] # "close"
    BY <1>1, <1>2, <1>5, <1>6, <2>1 DEF MayReceive
  <2>2. CASE \E i \in 1 .. n - 1 :
                toPhone'[i] = "open" /\ \A j \in i .. n - 1 : toPhone'[j] # "close"
    <3>1. PICK i \in 1 .. n - 1 :
             toPhone'[i] = "open" /\ \A j \in i .. n - 1 : toPhone'[j] # "close"
      BY <2>2
    <3>2. i + 1 \in 1 .. n /\ toPhone[i + 1] = "open"
          /\ \A j \in i + 1 .. n : toPhone[j] # "close"
      BY <1>2, <1>4, <3>1
    <3> QED
      BY <1>1, <3>2 DEF MayReceive
  <2> QED
    BY <1>2, <1>7, <2>1, <2>2 DEF MayReceive
<1>8. ASSUME MaySend' PROVE MaySend
  <2>1. CASE phone'.tx /\ \A i \in 1 .. n - 1 : toPhone'[i] # "stop"
    BY <1>1, <1>2, <1>5, <1>6, <2>1 DEF MaySend
  <2>2. CASE \E i \in 1 .. n - 1 :
                toPhone'[i] = "start" /\ \A j \in i .. n - 1 : toPhone'[j] # "stop"
    <3>1. PICK i \in 1 .. n - 1 :
             toPhone'[i] = "start" /\ \A j \in i .. n - 1 : toPhone'[j] # "stop"
      BY <2>2
    <3>2. i + 1 \in 1 .. n /\ toPhone[i + 1] = "start"
          /\ \A j \in i + 1 .. n : toPhone[j] # "stop"
      BY <1>2, <1>4, <3>1
    <3> QED
      BY <1>1, <3>2 DEF MaySend
  <2> QED
    BY <1>2, <1>8, <2>1, <2>2 DEF MaySend
<1> QED
  BY <1>7, <1>8

(* The phone does only what it was told to do. *)
LEMMA PhoneKeeps ==
    ASSUME TypeInv, SilentInv, PhoneStep
    PROVE  SilentInv'
<1> USE DEF TypeInv
<1>1. /\ toPhone' = Tail(toPhone) /\ toPhone # <<>>
      /\ UNCHANGED <<todo, lock, ack, result, call, rtp, inflight, keys, ops>>
  BY DEF PhoneStep, PhoneOpens, PhoneStarts, PhoneCloses
<1>2. Opens = Opens' + (IF Head(toPhone) = "open" THEN 1 ELSE 0) /\ Opens' \in Nat
  BY <1>1, CountTake
<1>3. Opens \in Nat /\ Acks \in Nat
  BY CountTypes
<1>4. CASE PhoneOpens
  <2>1. PICK s \in Statuses, p \in Port \ {phone.port} :
           /\ Tells("openAck", s, p)
           /\ phone' = IF s = "ok" THEN [phone EXCEPT !.rx = TRUE, !.port = p] ELSE phone
    BY <1>4 DEF PhoneOpens
  <2>2. PICK m \in Ack : m.what = "openAck" /\ fromPhone' = Append(fromPhone, m)
    BY <2>1 DEF Tells, Ack
  <2>3. Acks' = Acks + 1
    BY <2>2, CountTell
  <2>4. Head(toPhone) = "open" /\ phone'.tx = phone.tx
    BY <1>4, <2>1 DEF PhoneOpens, TypeOK, Phone
  <2>5. (MayReceive' => MayReceive) /\ (MaySend' => MaySend)
    BY <1>1, <2>4, PhoneTakes
  <2>6. Opens' + Acks' = Opens + Acks /\ Acks' \in Nat
    BY <1>2, <1>3, <2>3, <2>4
  <2> QED
    BY <1>1, <1>2, <1>3, <2>5, <2>6, OutsideKeeps
<1>5. CASE PhoneStarts
  <2>1. PICK s \in Statuses, p \in Port :
           /\ Tells("startAck", s, p)
           /\ phone' = IF s = "ok" THEN [phone EXCEPT !.tx = TRUE] ELSE phone
    BY <1>5 DEF PhoneStarts
  <2>2. PICK m \in Ack : m.what = "startAck" /\ fromPhone' = Append(fromPhone, m)
    BY <2>1 DEF Tells, Ack
  <2>3. Acks' = Acks
    BY <1>3, <2>2, CountTell
  <2>4. Head(toPhone) = "start" /\ phone'.rx = phone.rx
    BY <1>5, <2>1 DEF PhoneStarts, TypeOK, Phone
  <2>5. (MayReceive' => MayReceive) /\ (MaySend' => MaySend)
    BY <1>1, <2>4, PhoneTakes
  <2>6. Opens' + Acks' = Opens + Acks /\ Acks' \in Nat
    BY <1>2, <1>3, <2>3, <2>4
  <2> QED
    BY <1>1, <1>2, <1>3, <2>5, <2>6, OutsideKeeps
<1>6. CASE PhoneCloses
  <2>1. /\ Head(toPhone) \in {"close", "stop"} /\ fromPhone' = fromPhone
        /\ phone'.rx => phone.rx
        /\ phone'.tx => phone.tx
        /\ Head(toPhone) = "close" => ~phone'.rx
        /\ Head(toPhone) = "stop" => ~phone'.tx
    BY <1>6 DEF PhoneCloses, TypeOK, Phone
  <2>2. Acks' = Acks
    BY <2>1 DEF Acks
  <2>3. (MayReceive' => MayReceive) /\ (MaySend' => MaySend)
    BY <1>1, <2>1, PhoneTakes
  <2>4. Opens' + Acks' = Opens + Acks /\ Acks' \in Nat
    BY <1>2, <1>3, <2>1, <2>2
  <2> QED
    BY <1>1, <1>2, <1>3, <2>3, <2>4, OutsideKeeps
<1> QED
  BY <1>4, <1>5, <1>6 DEF PhoneStep

(* While the PBX has redirected nothing, its thread only hangs up. *)
LEMMA PbxOnly ==
    ASSUME StackType, PbxStands, NEW h, At("pbx", h)
    PROVE  h \in {"wait", "close", "closed", "stop", "stopped", "unlist", "onhook", "clean",
                  "unbind", "gone", "unlock"}
<1>1. PICK r \in PbxRests(h) : TRUE
  BY PbxAt
<1> QED
  BY <1>1 DEF PbxRests

(* No step of the session lets the phone go on. *)
LEMMA SessionKeeps ==
    ASSUME TypeInv, SilentInv, SessionStep
    PROVE  SilentInv'
<1>1. CASE Handle
  BY <1>1, HandleKeeps
<1>2. CASE MediaStep("session")
  BY <1>2, OpenKeeps, OpenFailsKeeps, OpenMarkKeeps, OpenSendKeeps, CloseKeeps, ClosedKeeps,
     StopKeeps, StoppedKeeps, StartKeeps, StartReadyKeeps, StartMarkKeeps, StartSendKeeps,
     ConnectedKeeps, ConnectedMediaKeeps, UnbindKeeps, UnlockKeeps DEF MediaStep
<1>3. CASE \/ OpenAck("session") \/ SetPhone("session") \/ Opened("session")
           \/ AppendRx("session") \/ Callback("session") \/ GetRx("session")
           \/ SetRx("session") \/ Answered("session") \/ StartAck("session")
           \/ Started("session") \/ AppendTx("session") \/ SetTx("session")
  BY <1>3, OpenAckKeeps, SetPhoneKeeps, OpenedKeeps, AppendRxKeeps, CallbackKeeps, GetRxKeeps,
     SetRxKeeps, AnsweredKeeps, StartAckKeeps, StartedKeeps, AppendTxKeeps, SetTxKeeps
<1>4. CASE \/ Answer("session") \/ Complete("session") \/ CompleteLocked("session")
           \/ Hold("session") \/ Resume("session") \/ ResumeHeld("session")
           \/ Endcall("session") \/ Request("session") \/ SetFlag("session")
  BY <1>4, AnswerKeeps, CompleteKeeps, CompleteLockedKeeps, HoldKeeps, ResumeKeeps,
     ResumeHeldKeeps, EndcallKeeps, RequestKeeps, SetFlagKeeps
<1> QED
  BY <1>1, <1>2, <1>3, <1>4 DEF SessionStep

(* Nor does a step of the hangup. *)
LEMMA PbxKeeps ==
    ASSUME TypeInv, SilentInv, PbxStep
    PROVE  SilentInv'
<1>1. \A h : At("pbx", h) =>
         h \in {"wait", "close", "closed", "stop", "stopped", "unlist", "onhook", "clean",
                "unbind", "gone", "unlock"}
  BY PbxOnly DEF TypeInv, SilentInv
<1>2. CASE MediaStep("pbx")
  <2>1. \/ Close("pbx") \/ Closed("pbx") \/ Stop("pbx") \/ Stopped("pbx")
        \/ Unbind("pbx") \/ Unlock("pbx")
    BY <1>1, <1>2 DEF MediaStep, Open, OpenFails, OpenMark, OpenSend, Start, StartReady,
       StartMark, StartSend, Connected, ConnectedMedia
  <2> QED
    BY <2>1, PbxCloseKeeps, PbxClosedKeeps, PbxStopKeeps, PbxStoppedKeeps, PbxUnbindKeeps,
       PbxUnlockKeeps
<1>3. CASE Waited \/ TimesOut \/ Unlist \/ Onhook \/ Clean \/ Gone
  BY <1>3, WaitedKeeps, TimesOutKeeps, UnlistKeeps, OnhookKeeps, CleanKeeps, GoneKeeps
<1>4. ~Relock /\ ~Remote /\ ~SetPeer
  BY <1>1 DEF Relock, Remote, SetPeer
<1> QED
  BY <1>2, <1>3, <1>4 DEF PbxStep

(* What was redirected stays so, and no call is dialed twice. *)
OnwardOnly ==
    /\ call.redirected => call'.redirected
    /\ call'.state = "dialing" => call.state = "dialing"

LEMMA CallOnward ==
    ASSUME TypeOK, Next
    PROVE  OnwardOnly
<1> USE DEF OnwardOnly
<1>1. ASSUME NEW b \in BOOLEAN, NEW s \in {"connected", "hold", "down"}
      PROVE  /\ [call EXCEPT !.state = s].redirected = call.redirected
             /\ [call EXCEPT !.state = s].state = s
             /\ \A c \in {[call EXCEPT !.device = b], [call EXCEPT !.listed = b],
                         [call EXCEPT !.hanging = b], [call EXCEPT !.hangup = b],
                         [call EXCEPT !.answered = b],
                         [call EXCEPT !.answering = b, !.device = b],
                         [call EXCEPT !.gone = b, !.hangup = b]} :
                   c.redirected = call.redirected /\ c.state = call.state
  BY DEF TypeOK, Call
<1>2. ASSUME NEW t, MediaStep(t) PROVE OnwardOnly
  <2>1. CASE Connected(t)
    BY <2>1, <1>1 DEF Connected
  <2>2. CASE Unbind(t)
    BY <2>2, <1>1 DEF Unbind
  <2>3. CASE \/ Open(t) \/ OpenFails(t) \/ OpenMark(t) \/ OpenSend(t)
             \/ Close(t) \/ Closed(t) \/ Stop(t) \/ Stopped(t)
    BY <2>3 DEF Open, OpenFails, OpenMark, OpenSend, Close, Closed, Stop, Stopped, nothing,
       rtpOnly, sendOnly
  <2>4. CASE \/ Start(t) \/ StartReady(t) \/ StartMark(t) \/ StartSend(t)
             \/ ConnectedMedia(t) \/ Unlock(t)
    BY <2>4 DEF Start, StartReady, StartMark, StartSend, ConnectedMedia, Unlock, nothing,
       rtpOnly, sendOnly
  <2> QED
    BY <1>2, <2>1, <2>2, <2>3, <2>4 DEF MediaStep
<1>3. ASSUME SessionStep PROVE OnwardOnly
  <2>1. ASSUME NEW t, \/ OpenAck(t) \/ SetPhone(t) \/ Opened(t) \/ AppendRx(t)
                      \/ Callback(t) \/ GetRx(t) \/ SetRx(t) \/ Answered(t)
                      \/ StartAck(t) \/ Started(t) \/ AppendTx(t) \/ SetTx(t)
        PROVE  OnwardOnly
    BY <2>1 DEF OpenAck, SetPhone, Opened, AppendRx, Callback, GetRx, SetRx, Answered, StartAck,
       Started, AppendTx, SetTx, nothing, rtpOnly
  <2>2. ASSUME NEW t, \/ Answer(t) \/ Complete(t) \/ CompleteLocked(t) \/ Hold(t)
                      \/ Resume(t) \/ ResumeHeld(t)
        PROVE  OnwardOnly
    BY <2>2, <1>1 DEF Answer, Complete, CompleteLocked, Hold, Resume, ResumeHeld, nothing
  <2>3. ASSUME NEW t, Endcall(t) \/ Request(t) \/ SetFlag(t)
        PROVE  OnwardOnly
    <3>1. CASE Endcall(t) \/ SetFlag(t)
      BY <3>1, <1>1 DEF Endcall, SetFlag
    <3>2. CASE Request(t)
      BY <3>2 DEF Request, TypeOK, Call
    <3> QED
      BY <2>3, <3>1, <3>2
  <2>4. ASSUME Handle PROVE OnwardOnly
    BY <2>4 DEF Handle
  <2> QED
    BY <1>3, <1>2, <2>1, <2>2, <2>3, <2>4 DEF SessionStep
<1>4. ASSUME PbxStep PROVE OnwardOnly
  <2>1. ASSUME Waited \/ TimesOut \/ Relock \/ Remote \/ SetPeer \/ Clean PROVE OnwardOnly
    BY <2>1 DEF Waited, TimesOut, Relock, Remote, SetPeer, Clean, nothing
  <2>2. ASSUME Unlist \/ Onhook \/ Gone PROVE OnwardOnly
    BY <2>2, <1>1 DEF Unlist, Onhook, Gone
  <2> QED
    BY <1>4, <1>2, <2>1, <2>2 DEF PbxStep
<1>5. ASSUME PbxBegins PROVE OnwardOnly
  BY <1>5, <1>1 DEF PbxBegins, Progress, RemoteAnswers, UpdatePeer, Hangup, TypeOK, Call
<1>6. ASSUME Press \/ PhoneStep PROVE OnwardOnly
  BY <1>6 DEF Press, PhoneStep
<1> QED
  BY <1>3, <1>4, <1>5, <1>6 DEF Next

(* At first nothing is open. *)
LEMMA InitSilent == Init => SilentInv
<1> SUFFICES ASSUME Init PROVE SilentInv
  OBVIOUS
<1>1. /\ todo["session"] = <<>> /\ todo["pbx"] = <<>> /\ lock = Nobody /\ lock \notin Thread
      /\ \A x : ~In(x, <<>>)
  BY Empty, PbxThread, MediaAssumption DEF Init, Thread
<1>2. ~call.gone /\ call.state # "hold" /\ ~phone.rx /\ ~phone.tx /\ inflight = 0
  BY MediaAssumption DEF Init
<1>3. ~MayReceive /\ ~MaySend
  BY <1>2 DEF Init, MayReceive, MaySend
<1>4. Opens = 0 /\ Acks = 0
  <2>1. {i \in 1 .. Len(toPhone) : toPhone[i] = "open"} = {}
        /\ {i \in 1 .. Len(fromPhone) : fromPhone[i].what = "openAck"} = {}
    BY DEF Init
  <2> QED
    BY <2>1, FS_EmptySet DEF Opens, Acks
<1> QED
  BY <1>1, <1>2, <1>3, <1>4 DEF SilentInv, SessionStands, PbxStands, LockInv, HangupInv,
     HoldInv, BoundInv, PastInv, Past, StreamInv, CloseInv, ResultInv, CountInv, At, Idle,
     Thread

(* The invariant is kept, by calls of which the PBX does not open a stream. *)
LEMMA SilentKept ==
    ASSUME Calls \subseteq {"ringing"} \/ PbxOps \subseteq {"peer"}, IInv, [Next]_vars
    PROVE  IInv'
<1>1. TypeInv'
  BY TypeKept DEF IInv
<1>2. ASSUME Next PROVE OnwardOnly
  BY <1>2, CallOnward DEF IInv, TypeInv
<1>3. CASE UNCHANGED vars
  <2>1. DialInv'
    BY <1>3 DEF IInv, DialInv, vars
  <2>2. ASSUME ~call'.redirected PROVE SilentInv'
    <3>1. SilentInv
      BY <2>2, <1>3 DEF IInv, vars
    <3>2. MayReceive' = MayReceive /\ MaySend' = MaySend /\ Opens' = Opens /\ Acks' = Acks
      BY <1>3 DEF vars, MayReceive, MaySend, Opens, Acks
    <3> QED
      BY <1>3, <3>1, <3>2, CountTypes, OutsideKeeps DEF vars, IInv, TypeInv
  <2> QED
    BY <1>1, <2>1, <2>2 DEF IInv
<1>4. CASE Next
  <2>1. DialInv'
    BY <1>2, <1>4 DEF IInv, DialInv, OnwardOnly
  <2>2. ASSUME ~call'.redirected PROVE SilentInv'
    <3>1. ~call.redirected /\ ~UpdatePeer
      BY <2>2, <1>2, <1>4 DEF OnwardOnly, IInv, UpdatePeer, TypeInv, TypeOK, Call
    <3>2. TypeInv /\ SilentInv
      BY <3>1 DEF IInv
    <3>3. ~Progress /\ ~RemoteAnswers
      BY DEF Progress, RemoteAnswers, Operates, IInv, DialInv
    <3> QED
      BY <1>4, <3>1, <3>2, <3>3, SessionKeeps, PbxKeeps, HangupKeeps, PressKeeps, PhoneKeeps
         DEF Next, PbxBegins
  <2> QED
    BY <1>1, <2>1, <2>2 DEF IInv
<1> QED
  BY <1>3, <1>4

(* Once every thread is done and every message is read, a phone whose call is  *)
(* on hold or over neither receives nor sends: the streams are closed            *)
(* (sccp_channel_closeAllMediaTransmitAndReceive) before the phone is given up,  *)
(* a late acknowledgement (handle_openReceiveChannelAck) opens nothing anew, and *)
(* the hangup waits for the answers that are due                                 *)
(* (sccp_session_waitForPendingRequests).  So it is of every incoming call, and  *)
(* of a dialed one whose other side is at most redirected by the PBX.            *)
THEOREM PhoneSilent ==
    ASSUME Calls \subseteq {"ringing"} \/ PbxOps \subseteq {"peer"}
    PROVE  Spec => []Silent
<1>1. Init => IInv
  <2>1. Init => DialInv
    BY DEF Init, DialInv
  <2> QED
    BY <2>1, InitType, InitSilent DEF IInv
<1>2. IInv /\ [Next]_vars => IInv'
  BY SilentKept
<1>3. IInv => Silent
  <2> SUFFICES ASSUME IInv, Quiet, call.gone \/ call.state = "hold", ~call.redirected
               PROVE  ~phone.rx /\ ~phone.tx
    BY DEF Silent
  <2>1. SilentInv /\ toPhone = <<>> /\ todo["session"] = <<>>
    BY PbxThread DEF IInv, Quiet, Idle
  <2>2. ~call.device
    <3>1. ~In("unbind", todo["session"]) /\ ~At("session", "connected")
      BY <2>1, Empty DEF At
    <3> QED
      BY <2>1, <3>1 DEF SilentInv, HangupInv, HoldInv
  <2>3. ~MayReceive /\ ~MaySend
    BY <2>1, <2>2 DEF SilentInv, StreamInv
  <2>4. Len(toPhone) = 0
    BY <2>1
  <2> QED
    BY <2>3, <2>4 DEF MayReceive, MaySend
<1> QED
  BY <1>1, <1>2, <1>3, PTL DEF Spec

=============================================================================
