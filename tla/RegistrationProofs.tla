------------------------- MODULE RegistrationProofs -------------------------
(***************************************************************************)
(* Of every number of connections, with reloads, unloading and waits that  *)
(* run out: nobody ends a connection another one is ending, the device     *)
(* never refers to a session whose locks are gone, and connections never   *)
(* wait for each other in a circle.                                        *)
(***************************************************************************)
EXTENDS Registration, TLAPS

(* The type of what control depends on. *)
ControlOK ==
    /\ pc \in [Actor -> PC]
    /\ peer \in [Actor -> Session \cup {None}]
    /\ ret \in [Actor -> CleanReturns]
    /\ back \in [Actor -> EndReturns]
    /\ thread \subseteq Session
    /\ owner \in Session \cup {None}
    /\ \A a \in Actor : pc[a] \in Ending \cup {"unbind", "stopOwner"} => peer[a] \in Session

(* The type of the rest. *)
DataOK ==
    /\ bound \subseteq Session /\ stop \subseteq Session /\ thread \subseteq Session
    /\ cancelled \subseteq Session /\ posted \subseteq Session /\ listed \subseteq Session
    /\ exempt \subseteq Session /\ silent \subseteq Session
    /\ regState \in RegStates
    /\ pending \subseteq {"update", "delete"}
    /\ reloads \in 0..MaxReloads
    /\ acked \in BOOLEAN /\ onCall \in BOOLEAN /\ stale \in BOOLEAN /\ known \in BOOLEAN
    /\ reloading \in BOOLEAN /\ locked \in BOOLEAN /\ running \in BOOLEAN

(* A connection with a thread has been accepted; one that is being ended has *)
(* been accepted and its id is gone.                                         *)
IdGone ==
    /\ \A s \in thread : pc[s] # "none"
    /\ \A a \in Actor : Ends(a) => pc[peer[a]] # "none" /\ peer[a] \notin thread

(* Cleaning a device is not left but through "settle". *)
CallsNest == \A a \in Actor : ret[a] # "idle" =>
                pc[a] \in Cleaning \/ (pc[a] \in Ending /\ back[a] = "settle")

(* A connection past detaching from the device is not its session. *)
Detached(s) == ret[s] = "release" \/ pc[s] \in {"clean", "release", "close", "gone"}
OwnerBound == \A s \in Session : owner = s => s \in bound /\ ~Detached(s)

(* Who ends another connection, or is about to, has given up the device itself ... *)
Waits(s) == pc[s] \in Ending \/ (pc[s] \in {"unbind", "stopOwner"} /\ peer[s] # s)
OwnerFree == \A s \in Session : Waits(s) => owner # s

(* ... so that whoever comes to wait comes to wait for one who does not. *)
WaitsGrow == \A s \in Session : Waits(s)' => \/ Waits(s) /\ peer'[s] = peer[s]
                                             \/ peer'[s] = owner /\ owner # s
WaitCircle(C) == \A s \in C : Waits(s) /\ peer[s] \in C
NoWaitCircle == \A C \in SUBSET Session : WaitCircle(C) => C = {}

IInv == ControlOK /\ IdGone /\ OneEnder /\ CallsNest /\ OwnerBound /\ OwnerFree /\ NoWaitCircle

(* Every step leaves control with its type: whoever ends a connection, or is *)
(* about to, knows which (the handlers of Registration, one by one).         *)
LEMMA ControlStep == ControlOK /\ Next => ControlOK'
<1> SUFFICES ASSUME ControlOK, Next PROVE ControlOK'
  OBVIOUS
<1> USE RegistrationAssumption
    DEF ControlOK, Actor, PC, Handling, Leaving, Cleaning, Ending, Reading, CleanReturns, EndReturns,
        callVars, sessVars, devVars, sysVars, At, Goto
<1>1. ASSUME NEW s \in Session, RoundStep(s)
      PROVE  ControlOK'
  <2>1. CASE LoopEnds(s)
    BY <2>1 DEF LoopEnds
  <2>2. CASE LoopGoesOn(s)
    BY <2>2 DEF LoopGoesOn
  <2>3. CASE LoopPending(s)
    BY <2>3 DEF LoopPending, Resume
  <2>4. CASE LoopUpdates(s)
    BY <2>4 DEF LoopUpdates, Resume, BeginClean
  <2>5. CASE PollInterrupted(s)
    BY <2>5 DEF PollInterrupted
  <2>6. CASE PollTimesOut(s)
    BY <2>6 DEF PollTimesOut
  <2> QED BY <1>1, <2>1, <2>2, <2>3, <2>4, <2>5, <2>6 DEF RoundStep
<1>2. ASSUME NEW s \in Session, TokenStep(s)
      PROVE  ControlOK'
  <2>1. CASE Token(s)
    <3>1. /\ TokenOver(s) \/ EndPrevious(s, "tokenReject") \/ (Goto(s, "tokenBind") /\ UNCHANGED callVars)
          /\ UNCHANGED <<owner, thread, bound>>
      BY <2>1 DEF Token, StopSelf
    <3>2. CASE TokenOver(s)
      BY <2>1, <3>1, <3>2 DEF Token, TokenOver
    <3>3. CASE EndPrevious(s, "tokenReject")
      BY <2>1, <3>1, <3>3 DEF Token, EndPrevious, End, CrossDevice
    <3>4. CASE Goto(s, "tokenBind") /\ UNCHANGED callVars
      BY <2>1, <3>1, <3>4 DEF Token
    <3> QED BY <3>1, <3>2, <3>3, <3>4
  <2>2. CASE TokenReject(s)
    BY <2>2 DEF TokenReject
  <2>3. CASE TokenBind(s)
    BY <2>3 DEF TokenBind, Bind
  <2>4. CASE TokenSet(s)
    BY <2>4 DEF TokenSet
  <2> QED BY <1>2, <2>1, <2>2, <2>3, <2>4 DEF TokenStep
<1>3. ASSUME NEW s \in Session, RegisterStep(s)
      PROVE  ControlOK'
  <2>1. CASE Register(s)
    BY <2>1 DEF Register, EndPrevious, End, CrossDevice
  <2>2. CASE RegisterReject(s)
    BY <2>2 DEF RegisterReject
  <2>3. CASE RegisterBind(s)
    BY <2>3 DEF RegisterBind, Bind
  <2>4. CASE RegisterSet(s)
    BY <2>4 DEF RegisterSet
  <2> QED BY <1>3, <2>1, <2>2, <2>3, <2>4 DEF RegisterStep
<1>4. ASSUME NEW s \in Session, MessageStep(s)
      PROVE  ControlOK'
  <2>1. CASE Message(s)
    BY <2>1 DEF Message, EndPrevious, End, CrossDevice
  <2>2. CASE Handle(s)
    BY <2>2 DEF Handle
  <2>3. CASE GiveUp(s)
    BY <2>3 DEF GiveUp
  <2> QED BY <1>4, <2>1, <2>2, <2>3 DEF MessageStep
<1>5. ASSUME NEW s \in Session, LeaveStep(s)
      PROVE  ControlOK'
  <2>1. CASE Exit(s)
    BY <2>1 DEF Exit
  <2>2. CASE Detach(s)
    BY <2>2 DEF Detach
  <2>3. CASE Clean(s)
    BY <2>3 DEF Clean, BeginClean
  <2>4. CASE ReleaseDevice(s)
    BY <2>4 DEF ReleaseDevice, Unbind
  <2>5. CASE Close(s)
    BY <2>5 DEF Close
  <2> QED BY <1>5, <2>1, <2>2, <2>3, <2>4, <2>5 DEF LeaveStep
<1>6. ASSUME NEW a \in Actor, CleanStep(a)
      PROVE  ControlOK'
  <2>1. CASE Hangup(a)
    BY <2>1 DEF Hangup, HasSession
  <2>2. CASE UnbindOther(a)
    BY <2>2 DEF UnbindOther, OwnerCleared, Unbind
  <2>3. CASE StopOwner(a)
    BY <2>3 DEF StopOwner, End
  <2>4. CASE Settle(a)
    BY <2>4 DEF Settle
  <2> QED BY <1>6, <2>1, <2>2, <2>3, <2>4 DEF CleanStep
<1>7. ASSUME NEW a \in Actor, EndStep(a)
      PROVE  ControlOK'
  <2>1. CASE Take(a)
    BY <2>1 DEF Take, Ended, Taken
  <2>2. CASE Cancel(a)
    BY <2>2 DEF Cancel
  <2>3. CASE Await(a)
    BY <2>3 DEF Await, Ended
  <2>4. CASE AwaitTimesOut(a)
    BY <2>4 DEF AwaitTimesOut, Ended
  <2> QED BY <1>7, <2>1, <2>2, <2>3, <2>4 DEF EndStep, EndWork
<1>8. ASSUME NEW s \in Session, PhoneStep(s)
      PROVE  ControlOK'
  <2>1. CASE Accept(s)
    BY <2>1 DEF Accept
  <2>2. CASE PollHangup(s)
    BY <2>2 DEF PollHangup
  <2>3. CASE Unregister(s)
    BY <2>3 DEF Unregister
  <2>4. CASE Vanish(s)
    BY <2>4 DEF Vanish
  <2>5. CASE SendFails(s)
    BY <2>5 DEF SendFails
  <2>6. ASSUME NEW what \in {"token", "register", "message"}, PollMessage(s, what)
        PROVE  ControlOK'
    BY <2>6 DEF PollMessage
  <2> QED BY <1>8, <2>1, <2>2, <2>3, <2>4, <2>5, <2>6 DEF PhoneStep
<1>9. ASSUME ReloadStep
      PROVE  ControlOK'
  <2>1. CASE PreReload
    BY <2>1 DEF PreReload
  <2>2. CASE ReadConfig
    BY <2>2 DEF ReadConfig
  <2>3. CASE PostReload
    BY <2>3 DEF PostReload, BeginClean
  <2>4. CASE Reloaded
    BY <2>4 DEF Reloaded
  <2> QED BY <1>9, <2>1, <2>2, <2>3, <2>4 DEF ReloadStep
<1>10. CASE Terminate
  BY <1>10 DEF Terminate, End
<1>11. ASSUME NEW kind \in Reloads, Reload(kind)
      PROVE  ControlOK'
  BY <1>11 DEF Reload
<1>12. CASE Unload
  BY <1>12 DEF Unload, BeginClean
<1>13. CASE CallStarts \/ CallEnds
  BY <1>13 DEF CallStarts, CallEnds
<1>14. CASE ReloadRefused
  BY <1>14 DEF ReloadRefused
<1> QED
  BY <1>1, <1>2, <1>3, <1>4, <1>5, <1>6, <1>7, <1>8, <1>9, <1>10, <1>11, <1>12, <1>13, <1>14
  DEF Next, SessionStep, SessionWork, AdminStep, AdminWork, Actor

(* Every step leaves the data of sessions, device and system with its type. *)
LEMMA DataStep == ControlOK /\ DataOK /\ Next => DataOK'
<1> SUFFICES ASSUME ControlOK, DataOK, Next PROVE DataOK'
  OBVIOUS
<1> USE RegistrationAssumption
    DEF ControlOK, DataOK, RegStates, callVars, sessVars, devVars, sysVars, At, Goto
<1>1. ASSUME NEW s \in Session, RoundStep(s)
      PROVE  DataOK'
  <2>1. CASE LoopEnds(s)
    BY <2>1 DEF LoopEnds
  <2>2. CASE LoopGoesOn(s)
    BY <2>2 DEF LoopGoesOn, Exempt
  <2>3. CASE LoopPending(s)
    BY <2>3 DEF LoopPending, Resume, Exempt
  <2>4. CASE LoopUpdates(s)
    BY <2>4 DEF LoopUpdates, Resume, BeginClean, Exempt, NeedsRestart
  <2>5. CASE PollInterrupted(s)
    BY <2>5 DEF PollInterrupted
  <2>6. CASE PollTimesOut(s)
    BY <2>6 DEF PollTimesOut, Stop
  <2> QED BY <1>1, <2>1, <2>2, <2>3, <2>4, <2>5, <2>6 DEF RoundStep
<1>2. ASSUME NEW s \in Session, TokenStep(s)
      PROVE  DataOK'
  <2>1. CASE Token(s)
    BY <2>1 DEF Token, TokenOver, EndPrevious, End, CrossDevice, StopSelf, Stop
  <2>2. CASE TokenReject(s)
    BY <2>2 DEF TokenReject, StopSelf, Stop
  <2>3. CASE TokenBind(s)
    BY <2>3 DEF TokenBind, Bind
  <2>4. CASE TokenSet(s)
    BY <2>4 DEF TokenSet
  <2> QED BY <1>2, <2>1, <2>2, <2>3, <2>4 DEF TokenStep
<1>3. ASSUME NEW s \in Session, RegisterStep(s)
      PROVE  DataOK'
  <2>1. CASE Register(s)
    BY <2>1 DEF Register, EndPrevious, End, CrossDevice
  <2>2. CASE RegisterReject(s)
    BY <2>2 DEF RegisterReject
  <2>3. CASE RegisterBind(s)
    BY <2>3 DEF RegisterBind, Bind
  <2>4. CASE RegisterSet(s)
    BY <2>4 DEF RegisterSet
  <2> QED BY <1>3, <2>1, <2>2, <2>3, <2>4 DEF RegisterStep
<1>4. ASSUME NEW s \in Session, MessageStep(s)
      PROVE  DataOK'
  <2>1. CASE Message(s)
    BY <2>1 DEF Message, EndPrevious, End, CrossDevice
  <2>2. CASE Handle(s)
    BY <2>2 DEF Handle
  <2>3. CASE GiveUp(s)
    BY <2>3 DEF GiveUp, Stop
  <2> QED BY <1>4, <2>1, <2>2, <2>3 DEF MessageStep
<1>5. ASSUME NEW s \in Session, LeaveStep(s)
      PROVE  DataOK'
  <2>1. CASE Exit(s)
    BY <2>1 DEF Exit
  <2>2. CASE Detach(s)
    BY <2>2 DEF Detach
  <2>3. CASE Clean(s)
    BY <2>3 DEF Clean, BeginClean
  <2>4. CASE ReleaseDevice(s)
    BY <2>4 DEF ReleaseDevice, Unbind, CrossDevice
  <2>5. CASE Close(s)
    BY <2>5 DEF Close, Signal
  <2> QED BY <1>5, <2>1, <2>2, <2>3, <2>4, <2>5 DEF LeaveStep
<1>6. ASSUME NEW a \in Actor, CleanStep(a)
      PROVE  DataOK'
  <2>1. CASE Hangup(a)
    BY <2>1 DEF Hangup, HasSession
  <2>2. CASE UnbindOther(a)
    BY <2>2 DEF UnbindOther, OwnerCleared, Unbind, CrossDevice
  <2>3. CASE StopOwner(a)
    BY <2>3 DEF StopOwner, End, StopSelf, Stop
  <2>4. CASE Settle(a)
    BY <2>4 DEF Settle
  <2> QED BY <1>6, <2>1, <2>2, <2>3, <2>4 DEF CleanStep
<1>7. ASSUME NEW a \in Actor, EndStep(a)
      PROVE  DataOK'
  <2>1. CASE Take(a)
    BY <2>1 DEF Take, Ended, Taken
  <2>2. CASE Cancel(a)
    BY <2>2 DEF Cancel, Ending, Actor
  <2>3. CASE Await(a)
    BY <2>3 DEF Await, Ended
  <2>4. CASE AwaitTimesOut(a)
    BY <2>4 DEF AwaitTimesOut, Ended
  <2> QED BY <1>7, <2>1, <2>2, <2>3, <2>4 DEF EndStep, EndWork
<1>8. ASSUME NEW s \in Session, PhoneStep(s)
      PROVE  DataOK'
  <2>1. CASE Accept(s)
    BY <2>1 DEF Accept
  <2>2. CASE PollHangup(s)
    BY <2>2 DEF PollHangup, Stop
  <2>3. CASE Unregister(s)
    BY <2>3 DEF Unregister, StopSelf, Stop
  <2>4. CASE Vanish(s)
    BY <2>4 DEF Vanish
  <2>5. CASE SendFails(s)
    BY <2>5 DEF SendFails, Stop
  <2>6. ASSUME NEW what \in {"token", "register", "message"}, PollMessage(s, what)
        PROVE  DataOK'
    BY <2>6 DEF PollMessage
  <2> QED BY <1>8, <2>1, <2>2, <2>3, <2>4, <2>5, <2>6 DEF PhoneStep
<1>9. ASSUME ReloadStep
      PROVE  DataOK'
  <2>1. CASE PreReload
    BY <2>1 DEF PreReload
  <2>2. CASE ReadConfig
    BY <2>2 DEF ReadConfig
  <2>3. CASE PostReload
    BY <2>3 DEF PostReload, BeginClean, NeedsRestart
  <2>4. CASE Reloaded
    BY <2>4 DEF Reloaded
  <2> QED BY <1>9, <2>1, <2>2, <2>3, <2>4 DEF ReloadStep
<1>10. CASE Terminate
  BY <1>10 DEF Terminate, End
<1>11. ASSUME NEW kind \in Reloads, Reload(kind)
      PROVE  DataOK'
  BY <1>11 DEF Reload, KeepsLock
<1>12. CASE Unload
  BY <1>12 DEF Unload, BeginClean
<1>13. CASE CallStarts \/ CallEnds
  BY <1>13 DEF CallStarts, CallEnds
<1>14. CASE ReloadRefused
  BY <1>14 DEF ReloadRefused
<1> QED
  BY <1>1, <1>2, <1>3, <1>4, <1>5, <1>6, <1>7, <1>8, <1>9, <1>10, <1>11, <1>12, <1>13, <1>14
  DEF Next, SessionStep, SessionWork, AdminStep, AdminWork, Actor

(* The id of a thread is taken once: whoever cancels or waits for a connection *)
(* took its id out, and it has no other (__sccp_netsock_end_device_thread).    *)
LEMMA EndingStep == ControlOK /\ CallsNest /\ IdGone /\ OneEnder /\ Next
                    => CallsNest' /\ IdGone' /\ OneEnder'
<1> SUFFICES ASSUME ControlOK /\ CallsNest /\ IdGone /\ OneEnder, Next
             PROVE  CallsNest' /\ IdGone' /\ OneEnder'
  OBVIOUS
<1> USE RegistrationAssumption
    DEF ControlOK, Actor, PC, Handling, Leaving, Cleaning, Ending, Reading, CleanReturns, EndReturns,
        callVars, sessVars, devVars, sysVars, At, Goto,
        CallsNest, IdGone, OneEnder, Ends
<1>1. ASSUME NEW s \in Session, RoundStep(s)
      PROVE  CallsNest' /\ IdGone' /\ OneEnder'
  <2>1. CASE LoopEnds(s)
    BY <2>1 DEF LoopEnds
  <2>2. CASE LoopGoesOn(s)
    BY <2>2 DEF LoopGoesOn
  <2>3. CASE LoopPending(s)
    BY <2>3 DEF LoopPending, Resume
  <2>4. CASE LoopUpdates(s)
    BY <2>4 DEF LoopUpdates, Resume, BeginClean
  <2>5. CASE PollInterrupted(s)
    BY <2>5 DEF PollInterrupted
  <2>6. CASE PollTimesOut(s)
    BY <2>6 DEF PollTimesOut
  <2> QED BY <1>1, <2>1, <2>2, <2>3, <2>4, <2>5, <2>6 DEF RoundStep
<1>2. ASSUME NEW s \in Session, TokenStep(s)
      PROVE  CallsNest' /\ IdGone' /\ OneEnder'
  <2>1. CASE Token(s)
    <3>1. /\ TokenOver(s) \/ EndPrevious(s, "tokenReject") \/ (Goto(s, "tokenBind") /\ UNCHANGED callVars)
          /\ UNCHANGED <<owner, thread, bound>>
      BY <2>1 DEF Token, StopSelf
    <3>2. CASE TokenOver(s)
      BY <2>1, <3>1, <3>2 DEF Token, TokenOver
    <3>3. CASE EndPrevious(s, "tokenReject")
      BY <2>1, <3>1, <3>3 DEF Token, EndPrevious, End, CrossDevice
    <3>4. CASE Goto(s, "tokenBind") /\ UNCHANGED callVars
      BY <2>1, <3>1, <3>4 DEF Token
    <3> QED BY <3>1, <3>2, <3>3, <3>4
  <2>2. CASE TokenReject(s)
    BY <2>2 DEF TokenReject
  <2>3. CASE TokenBind(s)
    BY <2>3 DEF TokenBind, Bind
  <2>4. CASE TokenSet(s)
    BY <2>4 DEF TokenSet
  <2> QED BY <1>2, <2>1, <2>2, <2>3, <2>4 DEF TokenStep
<1>3. ASSUME NEW s \in Session, RegisterStep(s)
      PROVE  CallsNest' /\ IdGone' /\ OneEnder'
  <2>1. CASE Register(s)
    BY <2>1 DEF Register, EndPrevious, End, CrossDevice
  <2>2. CASE RegisterReject(s)
    BY <2>2 DEF RegisterReject
  <2>3. CASE RegisterBind(s)
    BY <2>3 DEF RegisterBind, Bind
  <2>4. CASE RegisterSet(s)
    BY <2>4 DEF RegisterSet
  <2> QED BY <1>3, <2>1, <2>2, <2>3, <2>4 DEF RegisterStep
<1>4. ASSUME NEW s \in Session, MessageStep(s)
      PROVE  CallsNest' /\ IdGone' /\ OneEnder'
  <2>1. CASE Message(s)
    BY <2>1 DEF Message, EndPrevious, End, CrossDevice
  <2>2. CASE Handle(s)
    BY <2>2 DEF Handle
  <2>3. CASE GiveUp(s)
    BY <2>3 DEF GiveUp
  <2> QED BY <1>4, <2>1, <2>2, <2>3 DEF MessageStep
<1>5. ASSUME NEW s \in Session, LeaveStep(s)
      PROVE  CallsNest' /\ IdGone' /\ OneEnder'
  <2>1. CASE Exit(s)
    BY <2>1 DEF Exit
  <2>2. CASE Detach(s)
    BY <2>2 DEF Detach
  <2>3. CASE Clean(s)
    BY <2>3 DEF Clean, BeginClean
  <2>4. CASE ReleaseDevice(s)
    BY <2>4 DEF ReleaseDevice, Unbind
  <2>5. CASE Close(s)
    BY <2>5 DEF Close
  <2> QED BY <1>5, <2>1, <2>2, <2>3, <2>4, <2>5 DEF LeaveStep
<1>6. ASSUME NEW a \in Actor, CleanStep(a)
      PROVE  CallsNest' /\ IdGone' /\ OneEnder'
  <2>1. CASE Hangup(a)
    BY <2>1 DEF Hangup, HasSession
  <2>2. CASE UnbindOther(a)
    BY <2>2 DEF UnbindOther, OwnerCleared, Unbind
  <2>3. CASE StopOwner(a)
    BY <2>3 DEF StopOwner, End
  <2>4. CASE Settle(a)
    BY <2>4 DEF Settle
  <2> QED BY <1>6, <2>1, <2>2, <2>3, <2>4 DEF CleanStep
<1>7. ASSUME NEW a \in Actor, EndStep(a)
      PROVE  CallsNest' /\ IdGone' /\ OneEnder'
  <2>1. CASE Take(a)
    BY <2>1 DEF Take, Ended, Taken
  <2>2. CASE Cancel(a)
    BY <2>2 DEF Cancel
  <2>3. CASE Await(a)
    BY <2>3 DEF Await, Ended
  <2>4. CASE AwaitTimesOut(a)
    BY <2>4 DEF AwaitTimesOut, Ended
  <2> QED BY <1>7, <2>1, <2>2, <2>3, <2>4 DEF EndStep, EndWork
<1>8. ASSUME NEW s \in Session, PhoneStep(s)
      PROVE  CallsNest' /\ IdGone' /\ OneEnder'
  <2>1. CASE Accept(s)
    BY <2>1 DEF Accept
  <2>2. CASE PollHangup(s)
    BY <2>2 DEF PollHangup
  <2>3. CASE Unregister(s)
    BY <2>3 DEF Unregister
  <2>4. CASE Vanish(s)
    BY <2>4 DEF Vanish
  <2>5. CASE SendFails(s)
    BY <2>5 DEF SendFails
  <2>6. ASSUME NEW what \in {"token", "register", "message"}, PollMessage(s, what)
        PROVE  CallsNest' /\ IdGone' /\ OneEnder'
    BY <2>6 DEF PollMessage
  <2> QED BY <1>8, <2>1, <2>2, <2>3, <2>4, <2>5, <2>6 DEF PhoneStep
<1>9. ASSUME ReloadStep
      PROVE  CallsNest' /\ IdGone' /\ OneEnder'
  <2>1. CASE PreReload
    BY <2>1 DEF PreReload
  <2>2. CASE ReadConfig
    BY <2>2 DEF ReadConfig
  <2>3. CASE PostReload
    BY <2>3 DEF PostReload, BeginClean
  <2>4. CASE Reloaded
    BY <2>4 DEF Reloaded
  <2> QED BY <1>9, <2>1, <2>2, <2>3, <2>4 DEF ReloadStep
<1>10. CASE Terminate
  BY <1>10 DEF Terminate, End
<1>11. ASSUME NEW kind \in Reloads, Reload(kind)
      PROVE  CallsNest' /\ IdGone' /\ OneEnder'
  BY <1>11 DEF Reload
<1>12. CASE Unload
  BY <1>12 DEF Unload, BeginClean
<1>13. CASE CallStarts \/ CallEnds
  BY <1>13 DEF CallStarts, CallEnds
<1>14. CASE ReloadRefused
  BY <1>14 DEF ReloadRefused
<1> QED
  BY <1>1, <1>2, <1>3, <1>4, <1>5, <1>6, <1>7, <1>8, <1>9, <1>10, <1>11, <1>12, <1>13, <1>14
  DEF Next, SessionStep, SessionWork, AdminStep, AdminWork, Actor

(* The device's session is bound and has not detached; a connection that waits *)
(* for another is not the device's session, and who comes to wait comes to wait *)
(* for the device's session (Bind, Detach, _sccp_dev_clean, EndPrevious).       *)
LEMMA OwnStep == ControlOK /\ CallsNest /\ OwnerBound /\ OwnerFree /\ Next
                 => OwnerBound' /\ OwnerFree' /\ WaitsGrow
<1> SUFFICES ASSUME ControlOK /\ CallsNest /\ OwnerBound /\ OwnerFree, Next
             PROVE  OwnerBound' /\ OwnerFree' /\ WaitsGrow
  OBVIOUS
<1> USE RegistrationAssumption
    DEF ControlOK, Actor, PC, Handling, Leaving, Cleaning, Ending, Reading, CleanReturns, EndReturns,
        callVars, sessVars, devVars, sysVars, At, Goto,
        CallsNest, OwnerBound, Detached, OwnerFree, Waits, WaitsGrow
<1>1. ASSUME NEW s \in Session, RoundStep(s)
      PROVE  OwnerBound' /\ OwnerFree' /\ WaitsGrow
  <2>1. CASE LoopEnds(s)
    BY <2>1 DEF LoopEnds
  <2>2. CASE LoopGoesOn(s)
    BY <2>2 DEF LoopGoesOn
  <2>3. CASE LoopPending(s)
    BY <2>3 DEF LoopPending, Resume
  <2>4. CASE LoopUpdates(s)
    BY <2>4 DEF LoopUpdates, Resume, BeginClean
  <2>5. CASE PollInterrupted(s)
    BY <2>5 DEF PollInterrupted
  <2>6. CASE PollTimesOut(s)
    BY <2>6 DEF PollTimesOut
  <2> QED BY <1>1, <2>1, <2>2, <2>3, <2>4, <2>5, <2>6 DEF RoundStep
<1>2. ASSUME NEW s \in Session, TokenStep(s)
      PROVE  OwnerBound' /\ OwnerFree' /\ WaitsGrow
  <2>1. CASE Token(s)
    <3>1. /\ TokenOver(s) \/ EndPrevious(s, "tokenReject") \/ (Goto(s, "tokenBind") /\ UNCHANGED callVars)
          /\ UNCHANGED <<owner, thread, bound>>
      BY <2>1 DEF Token, StopSelf
    <3>2. CASE TokenOver(s)
      BY <2>1, <3>1, <3>2 DEF Token, TokenOver
    <3>3. CASE EndPrevious(s, "tokenReject")
      BY <2>1, <3>1, <3>3 DEF Token, EndPrevious, End, CrossDevice
    <3>4. CASE Goto(s, "tokenBind") /\ UNCHANGED callVars
      BY <2>1, <3>1, <3>4 DEF Token
    <3> QED BY <3>1, <3>2, <3>3, <3>4
  <2>2. CASE TokenReject(s)
    BY <2>2 DEF TokenReject
  <2>3. CASE TokenBind(s)
    BY <2>3 DEF TokenBind, Bind
  <2>4. CASE TokenSet(s)
    BY <2>4 DEF TokenSet
  <2> QED BY <1>2, <2>1, <2>2, <2>3, <2>4 DEF TokenStep
<1>3. ASSUME NEW s \in Session, RegisterStep(s)
      PROVE  OwnerBound' /\ OwnerFree' /\ WaitsGrow
  <2>1. CASE Register(s)
    BY <2>1 DEF Register, EndPrevious, End, CrossDevice
  <2>2. CASE RegisterReject(s)
    BY <2>2 DEF RegisterReject
  <2>3. CASE RegisterBind(s)
    BY <2>3 DEF RegisterBind, Bind
  <2>4. CASE RegisterSet(s)
    BY <2>4 DEF RegisterSet
  <2> QED BY <1>3, <2>1, <2>2, <2>3, <2>4 DEF RegisterStep
<1>4. ASSUME NEW s \in Session, MessageStep(s)
      PROVE  OwnerBound' /\ OwnerFree' /\ WaitsGrow
  <2>1. CASE Message(s)
    BY <2>1 DEF Message, EndPrevious, End, CrossDevice
  <2>2. CASE Handle(s)
    BY <2>2 DEF Handle
  <2>3. CASE GiveUp(s)
    BY <2>3 DEF GiveUp
  <2> QED BY <1>4, <2>1, <2>2, <2>3 DEF MessageStep
<1>5. ASSUME NEW s \in Session, LeaveStep(s)
      PROVE  OwnerBound' /\ OwnerFree' /\ WaitsGrow
  <2>1. CASE Exit(s)
    BY <2>1 DEF Exit
  <2>2. CASE Detach(s)
    BY <2>2 DEF Detach
  <2>3. CASE Clean(s)
    BY <2>3 DEF Clean, BeginClean
  <2>4. CASE ReleaseDevice(s)
    BY <2>4 DEF ReleaseDevice, Unbind
  <2>5. CASE Close(s)
    BY <2>5 DEF Close
  <2> QED BY <1>5, <2>1, <2>2, <2>3, <2>4, <2>5 DEF LeaveStep
<1>6. ASSUME NEW a \in Actor, CleanStep(a)
      PROVE  OwnerBound' /\ OwnerFree' /\ WaitsGrow
  <2>1. CASE Hangup(a)
    BY <2>1 DEF Hangup, HasSession
  <2>2. CASE UnbindOther(a)
    BY <2>2 DEF UnbindOther, OwnerCleared, Unbind
  <2>3. CASE StopOwner(a)
    BY <2>3 DEF StopOwner, End
  <2>4. CASE Settle(a)
    BY <2>4 DEF Settle
  <2> QED BY <1>6, <2>1, <2>2, <2>3, <2>4 DEF CleanStep
<1>7. ASSUME NEW a \in Actor, EndStep(a)
      PROVE  OwnerBound' /\ OwnerFree' /\ WaitsGrow
  <2>1. CASE Take(a)
    BY <2>1 DEF Take, Ended, Taken
  <2>2. CASE Cancel(a)
    BY <2>2 DEF Cancel
  <2>3. CASE Await(a)
    BY <2>3 DEF Await, Ended
  <2>4. CASE AwaitTimesOut(a)
    BY <2>4 DEF AwaitTimesOut, Ended
  <2> QED BY <1>7, <2>1, <2>2, <2>3, <2>4 DEF EndStep, EndWork
<1>8. ASSUME NEW s \in Session, PhoneStep(s)
      PROVE  OwnerBound' /\ OwnerFree' /\ WaitsGrow
  <2>1. CASE Accept(s)
    BY <2>1 DEF Accept
  <2>2. CASE PollHangup(s)
    BY <2>2 DEF PollHangup
  <2>3. CASE Unregister(s)
    BY <2>3 DEF Unregister
  <2>4. CASE Vanish(s)
    BY <2>4 DEF Vanish
  <2>5. CASE SendFails(s)
    BY <2>5 DEF SendFails
  <2>6. ASSUME NEW what \in {"token", "register", "message"}, PollMessage(s, what)
        PROVE  OwnerBound' /\ OwnerFree' /\ WaitsGrow
    BY <2>6 DEF PollMessage
  <2> QED BY <1>8, <2>1, <2>2, <2>3, <2>4, <2>5, <2>6 DEF PhoneStep
<1>9. ASSUME ReloadStep
      PROVE  OwnerBound' /\ OwnerFree' /\ WaitsGrow
  <2>1. CASE PreReload
    BY <2>1 DEF PreReload
  <2>2. CASE ReadConfig
    BY <2>2 DEF ReadConfig
  <2>3. CASE PostReload
    BY <2>3 DEF PostReload, BeginClean
  <2>4. CASE Reloaded
    BY <2>4 DEF Reloaded
  <2> QED BY <1>9, <2>1, <2>2, <2>3, <2>4 DEF ReloadStep
<1>10. CASE Terminate
  BY <1>10 DEF Terminate, End
<1>11. ASSUME NEW kind \in Reloads, Reload(kind)
      PROVE  OwnerBound' /\ OwnerFree' /\ WaitsGrow
  BY <1>11 DEF Reload
<1>12. CASE Unload
  BY <1>12 DEF Unload, BeginClean
<1>13. CASE CallStarts \/ CallEnds
  BY <1>13 DEF CallStarts, CallEnds
<1>14. CASE ReloadRefused
  BY <1>14 DEF ReloadRefused
<1> QED
  BY <1>1, <1>2, <1>3, <1>4, <1>5, <1>6, <1>7, <1>8, <1>9, <1>10, <1>11, <1>12, <1>13, <1>14
  DEF Next, SessionStep, SessionWork, AdminStep, AdminWork, Actor

(* Variables keep their types, and whoever ends a connection knows which one. *)
THEOREM TypeCorrect == Spec => []TypeOK
<1>1. TypeOK <=> ControlOK /\ DataOK
  BY DEF TypeOK, ControlOK, DataOK
<1>2. Init => TypeOK
  <2> SUFFICES ASSUME Init PROVE TypeOK
    OBVIOUS
  <2>1. ControlOK
    BY RegistrationAssumption DEF Init, ControlOK, Actor, PC, Ending, CleanReturns, EndReturns
  <2>2. DataOK
    <3>1. reloads \in 0..MaxReloads
      BY RegistrationAssumption DEF Init
    <3> QED BY <3>1 DEF Init, DataOK, RegStates
  <2> QED BY <1>1, <2>1, <2>2
<1>3. TypeOK /\ [Next]_vars => TypeOK'
  <2> SUFFICES ASSUME TypeOK, [Next]_vars PROVE TypeOK'
    OBVIOUS
  <2>1. CASE Next
    <3>1. ControlOK' /\ DataOK'
      BY <1>1, <2>1, ControlStep, DataStep
    <3> QED BY <3>1 DEF TypeOK, ControlOK, DataOK
  <2>2. CASE UNCHANGED vars
    BY <2>2 DEF vars, sessVars, devVars, sysVars, callVars, TypeOK
  <2> QED BY <2>1, <2>2
<1> QED BY <1>2, <1>3, PTL DEF Spec

(* Initially no connection has been accepted, so no one waits for any. *)
LEMMA InitIInv == Init => IInv
<1> SUFFICES ASSUME Init PROVE IInv
  OBVIOUS
<1> USE RegistrationAssumption DEF Init, Actor
<1>1. ControlOK
  BY DEF ControlOK, PC, Ending, CleanReturns, EndReturns
<1>2. IdGone /\ OneEnder /\ CallsNest
  BY DEF IdGone, OneEnder, Ends, CallsNest
<1>3. OwnerBound /\ OwnerFree
  BY DEF OwnerBound, OwnerFree
<1>4. NoWaitCircle
  BY DEF NoWaitCircle, WaitCircle, Waits, Ending
<1> QED BY <1>1, <1>2, <1>3, <1>4 DEF IInv

(* As only the device's session is newly waited for, and it waits for nobody, no *)
(* circle is closed (sccp_session_crossdevice_cleanup).                          *)
LEMMA CircleStep == OwnerFree /\ NoWaitCircle /\ WaitsGrow => NoWaitCircle'
<1> SUFFICES ASSUME OwnerFree, NoWaitCircle, WaitsGrow,
                    NEW C \in SUBSET Session, WaitCircle(C)'
             PROVE  C = {}
  BY DEF NoWaitCircle
<1>1. ASSUME NEW s \in C
      PROVE  Waits(s) /\ peer'[s] = peer[s]
  <2>1. Waits(s)' /\ peer'[s] \in C
    BY DEF WaitCircle
  <2>2. CASE peer'[s] = owner /\ owner # s
    <3>1. PICK q \in C : q = owner
      BY <2>1, <2>2
    <3>2. ~Waits(q)
      BY <3>1 DEF OwnerFree
    <3>3. ~Waits(q)'
      BY <3>1, <3>2 DEF WaitsGrow
    <3>4. Waits(q)'
      BY DEF WaitCircle
    <3> QED BY <3>3, <3>4
  <2> QED BY <2>1, <2>2 DEF WaitsGrow
<1>2. WaitCircle(C)
  BY <1>1 DEF WaitCircle
<1> QED BY <1>2 DEF NoWaitCircle

(* The invariant is kept by every step, and by a step that changes nothing. *)
LEMMA StepIInv == IInv /\ [Next]_vars => IInv'
<1> SUFFICES ASSUME IInv, [Next]_vars PROVE IInv'
  OBVIOUS
<1>1. CASE Next
  <2>1. ControlOK' /\ CallsNest' /\ IdGone' /\ OneEnder'
    BY <1>1, ControlStep, EndingStep DEF IInv
  <2>2. OwnerBound' /\ OwnerFree' /\ WaitsGrow
    BY <1>1, OwnStep DEF IInv
  <2>3. NoWaitCircle'
    BY <2>2, CircleStep DEF IInv
  <2> QED BY <2>1, <2>2, <2>3 DEF IInv
<1>2. CASE UNCHANGED vars
  <2> USE <1>2 DEF IInv, vars, sessVars, devVars, callVars
  <2>1. ControlOK' /\ CallsNest' /\ IdGone' /\ OneEnder'
    BY DEF ControlOK, CallsNest, IdGone, OneEnder, Ends
  <2>2. OwnerBound' /\ OwnerFree'
    BY DEF OwnerBound, Detached, OwnerFree, Waits
  <2>3. NoWaitCircle'
    BY DEF NoWaitCircle, WaitCircle, Waits
  <2> QED BY <2>1, <2>2, <2>3 DEF IInv
<1> QED BY <1>1, <1>2

(* The invariant holds of every behaviour (the whole of Registration). *)
THEOREM AlwaysIInv == Spec => []IInv
  BY InitIInv, StepIInv, PTL DEF Spec

(* However many connections and handlers there are, one of them ends a given      *)
(* connection: nobody cancels or waits for a thread that another one is ending    *)
(* (__sccp_netsock_end_device_thread).                                            *)
THEOREM EndedByOne == Spec => []OneEnder
<1>1. IInv => OneEnder
  BY DEF IInv
<1> QED BY <1>1, AlwaysIInv, PTL

(* The device never refers to a session that has been cleaned up                  *)
(* (sccp_session_device_thread_exit and sccp_session_cleanup).                    *)
THEOREM NeverDangles == Spec => []NoDangling
<1>1. IInv => NoDangling
  BY DEF IInv, OwnerBound, Detached, NoDangling, Closed
<1> QED BY <1>1, AlwaysIInv, PTL

(* However many connections a phone opens, they never wait for each other in a     *)
(* circle (sccp_session_crossdevice_cleanup, _sccp_dev_clean).                     *)
THEOREM NeverACircle == Spec => []NoCircle
<1>1. IInv => NoCircle
  <2> SUFFICES ASSUME NoWaitCircle, NEW C \in (SUBSET Session) \ {{}},
                      \A s \in C : pc[s] \in Ending /\ peer[s] \in C
               PROVE  FALSE
    BY DEF IInv, NoCircle
  <2>1. WaitCircle(C)
    BY DEF WaitCircle, Waits
  <2> QED BY <2>1 DEF NoWaitCircle
<1> QED BY <1>1, AlwaysIInv, PTL
=============================================================================
