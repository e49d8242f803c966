---------------------------- MODULE WakeProofs -----------------------------
(* Proofs about Wake, for every number of calls, of tryWake goroutines and  *)
(* of sends: the types and one wake at a time; the status that a call hands *)
(* out is the engine's current one; no wake-up is lost unless one of the    *)
(* two slips has happened.                                                  *)
EXTENDS WakeInv, TLAPS
BaseInv == TypeOK /\ WakerInv /\ CallInv /\ HandOutInv

-----------------------------------------------------------------------------
(* The types. *)

LEMMA InitBase == Init => BaseInv
<1> SUFFICES ASSUME Init PROVE BaseInv
  OBVIOUS
<1> USE DEF Init
<1>1. TypeOK
  <2>1. SendsOK
    BY SendsAssumption DEF SendsOK
  <2>2. QED
    BY <2>1 DEF TypeOK, Status, Result
<1>2. WakerInv
  BY DEF WakerInv, OneWakeAtATime
<1>3. CallInv
  BY CallsAssumption DEF CallInv, Reporters
<1>4. HandOutInv
  BY DEF HandOutInv, WakesMainSession, Finished
<1>5. QED
  BY <1>1, <1>2, <1>3, <1>4 DEF BaseInv

LEMMA LoopType == TypeOK /\ Loop => TypeOK'
<1> SUFFICES ASSUME TypeOK, Loop PROVE TypeOK'
  OBVIOUS
<1>0. SendsOK'
  BY DEF TypeOK, SendsOK, Loop, LoopTake, LoopAdvance, LoopBump, LoopWake,
     LoopClose, wakeVars
<1>f. UNCHANGED <<call, chClosed, gone, answer, reporter, wakerVars, guestVars,
                  stopping>>
  BY DEF Loop
<1> USE <1>0, <1>f DEF TypeOK, LoopStep, callVars, wakeVars, wakerVars, guestVars,
            runVars, Status, Result, Bump, RequestWake, Slip, Advance
<1>1. CASE LoopTake
  <2>1. ticket' \in [Calls -> Result \cup {"none", "next", "running"}]
    BY <1>1 DEF LoopTake
  <2>2. queued' \in BOOLEAN
    BY <1>1 DEF LoopTake
  <2>3. QED
    BY <1>1, <2>1, <2>2 DEF LoopTake
<1>2. CASE LoopAdvance
  BY <1>2 DEF LoopAdvance
<1>3. CASE LoopBump
  BY <1>3 DEF LoopBump
<1>4. CASE LoopWake
  BY <1>4 DEF LoopWake
<1>5. CASE LoopClose
  BY <1>5 DEF LoopClose
<1>6. QED
  BY <1>1, <1>2, <1>3, <1>4, <1>5 DEF Loop

LEMMA HandlerType == TypeOK /\ (\E h \in Calls : Handler(h)) => TypeOK'
<1> SUFFICES ASSUME TypeOK, NEW h \in Calls, Handler(h) PROVE TypeOK'
  OBVIOUS
<1>0. SendsOK'
  BY SendsAssumption DEF TypeOK, SendsOK, Handler, ClearWaiting, WaitCh,
     KickAdvance, RunDone, RunTimeout, Stopped, ChangedClosed, SelectTimeout,
     MarkWaiting, MissedWake, Return, UndeliveredWake, Deliver, wakeVars
<1>f. UNCHANGED <<pos, reporter, wakerVars, stopping>>
  BY DEF Handler
<1> USE <1>0, <1>f DEF TypeOK, Goto, Answer, DropTicket, Over, loopVars, wakeVars,
            wakerVars, guestVars, runVars, Status, Result
<1>1. CASE ClearWaiting(h)
  <2>1. waiting' \in BOOLEAN /\ wantWake' \in BOOLEAN
    BY <1>1 DEF ClearWaiting
  <2>2. QED
    BY <1>1, <2>1 DEF ClearWaiting
<1>2. CASE WaitCh(h)
  BY <1>2 DEF WaitCh
<1>3. CASE KickAdvance(h)
  BY <1>3 DEF KickAdvance, Kick
<1>4. CASE RunDone(h)
  BY <1>4 DEF RunDone
<1>5. CASE RunTimeout(h)
  BY <1>5 DEF RunTimeout
<1>6. CASE Stopped(h)
  BY <1>6 DEF Stopped
<1>7. CASE ChangedClosed(h)
  BY <1>7 DEF ChangedClosed
<1>8. CASE SelectTimeout(h)
  BY <1>8 DEF SelectTimeout, Slip
<1>9. CASE MarkWaiting(h)
  BY <1>9 DEF MarkWaiting
<1>10. CASE MissedWake(h)
  BY <1>10 DEF MissedWake, RequestWake
<1>11. CASE Return(h)
  BY <1>11 DEF Return
<1>12. CASE UndeliveredWake(h)
  BY <1>12 DEF UndeliveredWake, RequestWake
<1>13. CASE Deliver(h)
  BY <1>13 DEF Deliver, Receive
<1>14. QED
  BY <1>1, <1>2, <1>3, <1>4, <1>5, <1>6, <1>7, <1>8, <1>9, <1>10, <1>11,
     <1>12, <1>13 DEF Handler

LEMMA ReporterType == TypeOK /\ (Accept \/ \E r \in Reporters : Reporter(r)) => TypeOK'
<1> SUFFICES ASSUME TypeOK, Accept \/ \E r \in Reporters : Reporter(r)
             PROVE TypeOK'
  OBVIOUS
<1>0. SendsOK'
  BY DEF TypeOK, SendsOK, Accept, Reporter, ReporterFrame
<1>f. ReporterFrame
  BY DEF Accept, Reporter
<1> USE <1>0, <1>f DEF TypeOK, ReporterFrame, Step, loopVars, wakeVars,
            wakerVars, guestVars, runVars, Status, Result, Reporters
<1>1. CASE AcceptDecision
  BY <1>1 DEF AcceptDecision
<1>2. CASE AcceptReport
  BY <1>2 DEF AcceptReport
<1>3. ASSUME NEW r \in Reporters, CloseChanged(r) PROVE TypeOK'
  BY <1>3 DEF CloseChanged
<1>4. ASSUME NEW r \in Reporters, NotifyBump(r) PROVE TypeOK'
  BY <1>4 DEF NotifyBump, Bump
<1>5. ASSUME NEW r \in Reporters, NotifyWake(r) PROVE TypeOK'
  BY <1>5 DEF NotifyWake, RequestWake
<1>6. CASE SaveDecision
  BY <1>6 DEF SaveDecision
<1>7. CASE DirectAdvance
  BY <1>7 DEF DirectAdvance, Advance, Slip
<1>8. CASE ReportKick
  BY <1>8 DEF ReportKick, Kick
<1>9. QED
  BY <1>1, <1>2, <1>3, <1>4, <1>5, <1>6, <1>7, <1>8 DEF Accept, Reporter

\* tryWake counts a send only while it is the only sender, so the count stays
\* within the bound it checked before sending.
LEMMA WakerType ==
    TypeOK /\ WakerInv /\ (\E w \in Wakers : Waker(w)) => TypeOK' /\ WakerInv'
<1> SUFFICES ASSUME TypeOK, WakerInv, NEW w \in Wakers, Waker(w)
             PROVE TypeOK' /\ WakerInv'
  OBVIOUS
<1>1. SendsOK'
  BY SendsAssumption DEF TypeOK, SendsOK, WakerInv, Waker, WakeTry, WakeType,
     WakeFail, WakeDone, WakerStep
<1>2. TypeOK'
  <2>1. waking' \in BOOLEAN
    BY DEF TypeOK, Waker, WakeTry, WakeType, WakeFail, WakeDone
  <2>2. typed' \in BOOLEAN
    BY DEF TypeOK, Waker, WakeTry, WakeType, WakeFail, WakeDone
  <2>3. waker' \in [Wakers -> {"idle", "sending", "sent", "failed"}]
    BY DEF TypeOK, Waker, WakeTry, WakeType, WakeFail, WakeDone, WakerStep
  <2>4. UNCHANGED <<pos, loopVars, callVars, reporter, waiting, wantWake,
                    guest, live, runVars>>
    BY DEF Waker, WakerFrame
  <2>5. QED
    BY <1>1, <2>1, <2>2, <2>3, <2>4 DEF TypeOK, loopVars, callVars, runVars
<1>3. OneWakeAtATime'
  BY DEF TypeOK, WakerInv, OneWakeAtATime, Waker, WakeTry, WakeType, WakeFail,
     WakeDone, WakerStep
<1>4. ASSUME NEW v \in Wakers, waker'[v] # "idle"
      PROVE  waking' /\ wakeSends' < WakeMaxSends
  <2>1. CASE WakeDone(w)
    <3>1. waker'[w] = "idle"
      BY <2>1 DEF WakeDone, WakerStep, TypeOK
    <3>2. v # w /\ waker[v] # "idle" /\ waker[w] # "idle"
      BY <1>4, <2>1, <3>1 DEF WakeDone, WakerStep, TypeOK
    <3>3. QED
      BY <3>2 DEF WakerInv, OneWakeAtATime
  <2>2. CASE ~WakeDone(w)
    BY <1>4, <2>2 DEF TypeOK, WakerInv, Waker, WakeTry, WakeType, WakeFail,
       WakerStep
  <2>3. QED
    BY <2>1, <2>2
<1>5. QED
  BY <1>2, <1>3, <1>4 DEF WakerInv

LEMMA GuestType == TypeOK /\ Guest => TypeOK'
<1> SUFFICES ASSUME TypeOK, Guest PROVE TypeOK'
  OBVIOUS
<1>0. SendsOK'
  BY DEF TypeOK, SendsOK, Guest, GuestFrame, wakeVars
<1>f. GuestFrame
  BY DEF Guest
<1> USE DEF TypeOK, Guest, Arrive, Disconnect, FinishTask, TakeWake, LoseText,
            HumanPrompts, Goto
<1>1. call' \in [Calls -> {"idle", "clear", "watch", "kick", "run", "select",
                           "mark", "askwake", "return", "undelivered",
                           "deliver"}]
  OBVIOUS
<1>2. gone' \in [Calls -> BOOLEAN]
  OBVIOUS
<1>3. guest' \in {"turn", "calling", "working", "parked", "lost", "ended"}
  OBVIOUS
<1>4. live' \in Calls \cup {NoCall}
  OBVIOUS
<1>5. typed' \in BOOLEAN
  OBVIOUS
<1> HIDE DEF Guest, Arrive, Disconnect, FinishTask, TakeWake, LoseText,
             HumanPrompts, Goto
<1>6. QED
  BY <1>0, <1>f, <1>1, <1>2, <1>3, <1>4, <1>5
     DEF GuestFrame, loopVars, wakeVars, wakerVars, runVars

LEMMA StopType == TypeOK /\ (Stop \/ UNCHANGED vars) => TypeOK'
<1>1. TypeOK /\ (Stop \/ UNCHANGED vars) => SendsOK'
  BY DEF TypeOK, SendsOK, Stop, vars, wakeVars
<1>2. ASSUME TypeOK, SendsOK', Stop PROVE TypeOK'
  BY <1>2 DEF TypeOK, Stop, loopVars, callVars, wakeVars, wakerVars, guestVars
<1>3. ASSUME TypeOK, SendsOK', UNCHANGED vars PROVE TypeOK'
  BY <1>3 DEF TypeOK, vars, loopVars, callVars, wakeVars, wakerVars, guestVars,
     runVars
<1>4. QED
  BY <1>1, <1>2, <1>3

LEMMA WakerInvStep ==
    TypeOK /\ WakerInv /\ [Next]_vars => WakerInv'
<1> SUFFICES ASSUME TypeOK, WakerInv, [Next]_vars PROVE WakerInv'
  OBVIOUS
<1> USE DEF WakerInv, OneWakeAtATime, wakerVars, wakeVars
<1>1. CASE Loop
  BY <1>1 DEF Loop, LoopTake, LoopAdvance, LoopBump, LoopWake, LoopClose
<1>2. ASSUME NEW h \in Calls, Handler(h) PROVE WakerInv'
  <2>1. CASE ClearWaiting(h)
    BY <1>2, <2>1, SendsAssumption DEF Handler, ClearWaiting, TypeOK
  <2>2. CASE ~ClearWaiting(h)
    <3>1. UNCHANGED <<wakerVars, wakeSends>>
      BY <1>2, <2>2 DEF Handler, WaitCh, KickAdvance, RunDone, RunTimeout,
         Stopped, ChangedClosed, SelectTimeout, MarkWaiting, MissedWake,
         Return, UndeliveredWake, Deliver
    <3>2. QED
      BY <3>1
  <2>3. QED
    BY <2>1, <2>2
<1>3. CASE Accept \/ \E r \in Reporters : Reporter(r)
  BY <1>3 DEF Accept, Reporter, ReporterFrame
<1>4. CASE \E w \in Wakers : Waker(w)
  BY <1>4, WakerType
<1>5. CASE Guest
  BY <1>5 DEF Guest, GuestFrame
<1>6. CASE Stop \/ UNCHANGED vars
  BY <1>6 DEF Stop, vars
<1>7. QED
  BY <1>1, <1>2, <1>3, <1>4, <1>5, <1>6 DEF Next, Terminated

LEMMA TypeStep == TypeOK /\ WakerInv /\ [Next]_vars => TypeOK'
BY LoopType, HandlerType, ReporterType, WakerType, GuestType, StopType
   DEF Next, Terminated

\* Every variable stays in its type; in particular wakeSends within its bound.
THEOREM TypeCorrect == Spec => []TypeOK
<1>1. Init => TypeOK /\ WakerInv
  BY InitBase DEF BaseInv
<1>2. TypeOK /\ WakerInv /\ [Next]_vars => (TypeOK /\ WakerInv)'
  BY TypeStep, WakerInvStep
<1>3. QED
  BY <1>1, <1>2, PTL DEF Spec

\* At most one goroutine of tryWake is sending.
THEOREM OneWake == Spec => []OneWakeAtATime
<1>1. Init => TypeOK /\ WakerInv
  BY InitBase DEF BaseInv
<1>2. TypeOK /\ WakerInv /\ [Next]_vars => (TypeOK /\ WakerInv)'
  BY TypeStep, WakerInvStep
<1>3. TypeOK /\ WakerInv => OneWakeAtATime
  BY DEF WakerInv
<1>4. QED
  BY <1>1, <1>2, <1>3, PTL DEF Spec

-----------------------------------------------------------------------------
(* What a call hands out.  CallInv says whose call and whose ticket is      *)
(* whose, HandOutInv follows a status from the end of an advance to the     *)
(* answer.                                                                  *)

TaskInv == CallInv /\ HandOutInv

\* The clauses of CallInv that speak of one handler.
OneCall(h) ==
    /\ call[h] = "idle" => ~gone[h]
    /\ call[h] # "idle" /\ ~gone[h] => live = h
    /\ call[h] = "undelivered" => gone[h]
    /\ ticket[h] # "none" => call[h] = "run"
    /\ ticket[h] = "next" => queued
    /\ ticket[h] = "running" => loop \in {"advance", "bump", "wake", "close"}

\* Those that speak of the session.
Session ==
    /\ live \in Calls => call[live] # "idle" /\ ~gone[live]
    /\ guest = "calling" <=> live \in Calls
    /\ reporter["tool"] # "idle" => guest = "working"

OneHandOut(h) ==
    ~gone[h] =>
        /\ ticket[h] = "running" /\ Finished /\ WakesMainSession(loopSt) =>
              pos = loopSt
        /\ WakesMainSession(ticket[h]) => pos = ticket[h]
        /\ WakesMainSession(answer[h]) => call[h] # "idle" /\ pos = answer[h]

LEMMA Parts == TaskInv <=> Session /\ \A h \in Calls : OneCall(h) /\ OneHandOut(h)
BY DEF TaskInv, CallInv, HandOutInv, Session, OneCall, OneHandOut

LEMMA PartsNext == TaskInv' <=> Session' /\ \A h \in Calls : OneCall(h)' /\ OneHandOut(h)'
BY DEF TaskInv, CallInv, HandOutInv, Session, OneCall, OneHandOut, Finished

-----------------------------------------------------------------------------

\* The loop: a ticket that waits is taken by the next advance, and what it gets
\* is where that advance ended.
LEMMA LoopTask == TypeOK /\ TaskInv /\ Loop => TaskInv'
<1> SUFFICES ASSUME TypeOK, TaskInv, Loop PROVE TaskInv'
  OBVIOUS
<1>1. UNCHANGED <<call, gone, answer, reporter, live, guest>>
  BY DEF Loop, guestVars
<1>2. Session'
  BY <1>1, Parts DEF Session
<1>3. ASSUME NEW h \in Calls PROVE OneCall(h)' /\ OneHandOut(h)'
  <2>1. OneCall(h) /\ OneHandOut(h)
    BY Parts
  <2> USE <1>1, <2>1 DEF OneCall, OneHandOut, LoopStep, Finished, WakesMainSession
  <2>2. CASE LoopTake
    BY <2>2 DEF LoopTake, TypeOK
  <2>3. CASE LoopAdvance
    BY <2>3 DEF LoopAdvance, Advance, TypeOK, Result, Status
  <2>4. CASE LoopBump
    BY <2>4 DEF LoopBump, TypeOK
  <2>5. CASE LoopWake
    BY <2>5 DEF LoopWake, TypeOK
  <2>6. CASE LoopClose
    BY <2>6 DEF LoopClose, TypeOK, Result, Status
  <2>7. QED
    BY <2>2, <2>3, <2>4, <2>5, <2>6 DEF Loop
<1>4. QED
  BY <1>2, <1>3, PartsNext

\* The other handlers do not notice what one of them does, unless it kicks the
\* loop, which only adds to `queued`.
LEMMA HandlerOthers ==
    ASSUME TypeOK, TaskInv, NEW h \in Calls, Handler(h), NEW g \in Calls, g # h
    PROVE  OneCall(g)' /\ OneHandOut(g)'
<1>1. OneCall(g) /\ OneHandOut(g)
  BY Parts
<1>2. OneCall(h) /\ Session
  BY Parts
<1>3. UNCHANGED <<pos, loopSt>>
  BY DEF Handler, ClearWaiting, WaitCh, KickAdvance, RunDone, RunTimeout, Stopped,
     ChangedClosed, SelectTimeout, MarkWaiting, MissedWake, Return,
     UndeliveredWake, Deliver, Over, loopVars
<1>4. /\ call'[g] = call[g] /\ gone'[g] = gone[g]
      /\ ticket'[g] = ticket[g] /\ answer'[g] = answer[g]
  BY DEF TypeOK, Handler, ClearWaiting, WaitCh, KickAdvance, RunDone, RunTimeout,
     Stopped, ChangedClosed, SelectTimeout, MarkWaiting, MissedWake, Return,
     UndeliveredWake, Deliver, Over, Goto, Answer, DropTicket
<1>5. (queued => queued') /\ (loop' = loop \/ (loop = "off" /\ loop' = "take"))
  BY DEF Handler, ClearWaiting, WaitCh, KickAdvance, Kick, RunDone, RunTimeout,
     Stopped, ChangedClosed, SelectTimeout, MarkWaiting, MissedWake, Return,
     UndeliveredWake, Deliver, Over, loopVars
<1>6. live' = live \/ live = h
  BY DEF Handler, ClearWaiting, WaitCh, KickAdvance, RunDone, RunTimeout, Stopped,
     ChangedClosed, SelectTimeout, MarkWaiting, MissedWake, Return,
     UndeliveredWake, Deliver, guestVars
<1>7. OneCall(g)'
  BY <1>1, <1>4, <1>5, <1>6 DEF OneCall
<1>8. OneHandOut(g)'
  BY <1>1, <1>3, <1>4, <1>5 DEF OneHandOut, Finished
<1>9. QED
  BY <1>7, <1>8

\* A handler hands out what its advance ended with; it is over only after its
\* ticket is spent.
LEMMA HandlerSelf ==
    ASSUME TypeOK, TaskInv, NEW h \in Calls, Handler(h)
    PROVE  OneCall(h)' /\ OneHandOut(h)'
<1>1. OneCall(h) /\ OneHandOut(h) /\ Session
  BY Parts
<1>2. pos' = pos
  BY DEF Handler
<1> USE <1>1, <1>2 DEF TypeOK, OneCall, OneHandOut, Finished, WakesMainSession, Goto,
        Answer, DropTicket, loopVars, guestVars
<1>3. CASE ClearWaiting(h)
  BY <1>3 DEF ClearWaiting
<1>4. CASE WaitCh(h)
  BY <1>4 DEF WaitCh
<1>5. CASE KickAdvance(h)
  BY <1>5 DEF KickAdvance, Kick
<1>6. CASE RunDone(h)
  BY <1>6 DEF RunDone, Result, Status
<1>7. CASE RunTimeout(h)
  BY <1>7 DEF RunTimeout
<1>8. CASE Stopped(h)
  BY <1>8 DEF Stopped
<1>9. CASE ChangedClosed(h)
  BY <1>9 DEF ChangedClosed
<1>10. CASE SelectTimeout(h)
  BY <1>10 DEF SelectTimeout
<1>11. CASE MarkWaiting(h)
  BY <1>11 DEF MarkWaiting
<1>12. CASE MissedWake(h)
  BY <1>12 DEF MissedWake
<1>13. CASE Return(h)
  BY <1>13 DEF Return
<1>14. CASE UndeliveredWake(h)
  BY <1>14 DEF UndeliveredWake, Over
<1>15. CASE Deliver(h)
  BY <1>15 DEF Deliver, Over
<1>16. QED
  BY <1>3, <1>4, <1>5, <1>6, <1>7, <1>8, <1>9, <1>10, <1>11, <1>12, <1>13,
     <1>14, <1>15 DEF Handler

LEMMA HandlerTask == TypeOK /\ TaskInv /\ (\E h \in Calls : Handler(h)) => TaskInv'
<1> SUFFICES ASSUME TypeOK, TaskInv, NEW h \in Calls, Handler(h) PROVE TaskInv'
  OBVIOUS
<1>1. OneCall(h) /\ Session
  BY Parts
<1>2. reporter' = reporter
  BY DEF Handler
<1>3. CASE Deliver(h) /\ live = h
  <2>1. guest = "calling" /\ reporter["tool"] = "idle"
    BY <1>1, <1>3 DEF Session
  <2>2. live' = NoCall /\ guest' # "calling"
    BY <1>3 DEF Deliver, Receive
  <2>3. QED
    BY <1>2, <2>1, <2>2, CallsAssumption, PartsNext, HandlerSelf, HandlerOthers
       DEF Session
<1>4. CASE ~(Deliver(h) /\ live = h)
  <2>1. UNCHANGED <<live, guest>>
    BY <1>4 DEF Handler, ClearWaiting, WaitCh, KickAdvance, RunDone, RunTimeout,
       Stopped, ChangedClosed, SelectTimeout, MarkWaiting, MissedWake, Return,
       UndeliveredWake, Deliver, guestVars
  <2>2. live = h => call'[h] # "idle" /\ ~gone'[h]
    BY <1>1, <1>4 DEF TypeOK, Session, OneCall, Handler, ClearWaiting, WaitCh,
       KickAdvance, RunDone, RunTimeout, Stopped, ChangedClosed, SelectTimeout,
       MarkWaiting, MissedWake, Return, UndeliveredWake, Deliver, Goto
  <2>3. \A g \in Calls \ {h} : call'[g] = call[g] /\ gone'[g] = gone[g]
    BY DEF TypeOK, Handler, ClearWaiting, WaitCh, KickAdvance, RunDone, RunTimeout,
       Stopped, ChangedClosed, SelectTimeout, MarkWaiting, MissedWake, Return,
       UndeliveredWake, Deliver, Over, Goto
  <2>4. Session'
    BY <1>1, <1>2, <2>1, <2>2, <2>3 DEF Session
  <2>5. QED
    BY <2>4, PartsNext, HandlerSelf, HandlerOthers
<1>5. QED
  BY <1>3, <1>4

\* A report moves the engine on only where no call holds a task or an end: a
\* decision at a gate, a sub-agent's report while the session is at work.
LEMMA ReporterTask ==
    TypeOK /\ TaskInv /\ (Accept \/ \E r \in Reporters : Reporter(r)) => TaskInv'
<1> SUFFICES ASSUME TypeOK, TaskInv, Accept \/ \E r \in Reporters : Reporter(r)
             PROVE TaskInv'
  OBVIOUS
<1>1. UNCHANGED <<loopSt, call, ticket, gone, answer, live, guest>>
  BY DEF Accept, Reporter, ReporterFrame, guestVars
<1>2. (queued => queued') /\ (loop' = loop \/ (loop = "off" /\ loop' = "take"))
  BY DEF Accept, AcceptDecision, AcceptReport, Reporter, CloseChanged, NotifyBump,
     NotifyWake, SaveDecision, DirectAdvance, ReportKick, Kick
<1>3. Session'
  <2>1. reporter'["tool"] # "idle" => reporter["tool"] # "idle" \/ guest = "working"
    BY DEF TypeOK, Reporters, Accept, AcceptDecision, AcceptReport, Reporter,
       CloseChanged, NotifyBump, NotifyWake, SaveDecision, DirectAdvance,
       ReportKick, Step
  <2>2. QED
    BY <1>1, <2>1, Parts DEF Session
<1>4. ASSUME NEW h \in Calls PROVE OneCall(h)'
  BY <1>1, <1>2, <1>4, Parts DEF OneCall
<1>5. ASSUME NEW h \in Calls PROVE OneHandOut(h)'
  <2>1. OneCall(h) /\ OneHandOut(h) /\ Session
    BY Parts
  <2>2. pos' = pos \/ pos = "host" \/ AcceptDecision \/ AcceptReport
    BY DEF Accept, Reporter, CloseChanged, NotifyBump, NotifyWake, SaveDecision,
       DirectAdvance, Advance, ReportKick
  <2>3. CASE pos' = pos
    BY <1>1, <1>2, <2>1, <2>3 DEF OneHandOut, Finished
  <2>4. CASE pos = "host" \/ AcceptDecision
    BY <1>1, <1>2, <2>1, <2>4 DEF OneHandOut, Finished, WakesMainSession,
       AcceptDecision
  <2>5. CASE AcceptReport
    BY <1>1, <2>1, <2>5 DEF OneHandOut, OneCall, Session, WakesMainSession,
       AcceptReport
  <2>6. QED
    BY <2>2, <2>3, <2>4, <2>5
<1>6. QED
  BY <1>3, <1>4, <1>5, PartsNext

LEMMA GuestTask == TypeOK /\ TaskInv /\ Guest => TaskInv'
<1> SUFFICES ASSUME TypeOK, TaskInv, Guest PROVE TaskInv'
  OBVIOUS
<1>1. UNCHANGED <<pos, loopVars, ticket, answer, reporter>>
  BY DEF Guest, GuestFrame
<1>2. Session
  BY Parts
<1>3. Session'
  <2> USE <1>1, <1>2, CallsAssumption DEF Session, TypeOK
  <2>1. CASE \E h \in Calls : Arrive(h)
    <3>1. PICK h \in Calls : Arrive(h)
      BY <2>1
    <3>2. OneCall(h)
      BY Parts
    <3>3. QED
      BY <3>1, <3>2 DEF Arrive, Goto, OneCall
  <2>2. CASE Disconnect
    BY <2>2 DEF Disconnect
  <2>3. CASE FinishTask
    BY <2>3 DEF FinishTask
  <2>4. CASE TakeWake \/ LoseText \/ HumanPrompts
    BY <2>4 DEF TakeWake, LoseText, HumanPrompts
  <2>5. QED
    BY <2>1, <2>2, <2>3, <2>4 DEF Guest
<1>4. ASSUME NEW h \in Calls PROVE OneCall(h)' /\ OneHandOut(h)'
  <2>1. OneCall(h) /\ OneHandOut(h)
    BY Parts
  <2> USE <1>1, <1>2, <2>1 DEF TypeOK, OneCall, OneHandOut, Session, Finished, loopVars,
          WakesMainSession
  <2>2. ASSUME NEW g \in Calls, Arrive(g) PROVE OneCall(h)' /\ OneHandOut(h)'
    BY <2>2 DEF Arrive, Goto
  <2>3. CASE Disconnect
    BY <2>3 DEF Disconnect
  <2>4. CASE FinishTask \/ TakeWake \/ LoseText \/ HumanPrompts
    BY <2>4 DEF FinishTask, TakeWake, LoseText, HumanPrompts
  <2>5. QED
    BY <2>2, <2>3, <2>4 DEF Guest
<1>5. QED
  BY <1>3, <1>4, PartsNext

LEMMA TaskStep == TypeOK /\ TaskInv /\ [Next]_vars => TaskInv'
<1> SUFFICES ASSUME TypeOK, TaskInv, [Next]_vars PROVE TaskInv'
  OBVIOUS
<1>1. CASE (\E w \in Wakers : Waker(w)) \/ Stop \/ UNCHANGED vars
  <2>1. UNCHANGED <<pos, loopVars, call, ticket, gone, answer, reporter, guest, live>>
    BY <1>1 DEF Waker, WakerFrame, Stop, vars, callVars, guestVars
  <2>2. QED
    BY <2>1 DEF TaskInv, CallInv, HandOutInv, Finished, loopVars
<1>2. QED
  BY <1>1, LoopTask, HandlerTask, ReporterTask, GuestTask DEF Next, Terminated

\* Nobody hands a task or an end to the main session that the engine has left:
\* kick never joins an advance that began before the call.
THEOREM HandsOut == Spec => []HandsOutCurrentTask
<1>1. Init => TypeOK /\ WakerInv /\ TaskInv
  BY InitBase DEF BaseInv, TaskInv
<1>2. TypeOK /\ WakerInv /\ TaskInv /\ [Next]_vars => (TypeOK /\ WakerInv /\ TaskInv)'
  BY TypeStep, WakerInvStep, TaskStep
<1>3. TypeOK /\ TaskInv => HandsOutCurrentTask
  BY DEF TaskInv, CallInv, HandOutInv, HandsOutCurrentTask, WakesMainSession
<1>4. QED
  BY <1>1, <1>2, <1>3, PTL DEF Spec

-----------------------------------------------------------------------------
(* No wake-up is lost.  The invariant is WakeupInv of WakeInv.  What it     *)
(* says of a handler that is not cut off (LiveCallInv) and of the parked    *)
(* session (ParkedInv) is needed only while nobody has asked for a wake     *)
(* (Guarded).                                                               *)

Guarded == slip = "none" /\ ~stopping /\ ~Assured
ParkedInv == guest = "parked" => waiting /\ (Danger => Owed)
CallsInv == \A h \in Calls : ~gone[h] => LiveCallInv(h)

LEMMA WakeupParts == WakeupInv <=> (Guarded => CallsInv /\ ParkedInv)
BY DEF WakeupInv, Guarded, ParkedInv, CallsInv

LEMMA WakeupPartsNext == WakeupInv' <=> (Guarded' => CallsInv' /\ ParkedInv')
BY DEF WakeupInv, Guarded, ParkedInv, CallsInv

\* A handler that is neither over nor cut off is the one the session waits for.
LEMMA OnlyLive ==
    ASSUME TaskInv, NEW h \in Calls, call[h] # "idle", ~gone[h]
    PROVE  /\ live = h /\ guest = "calling" /\ reporter["tool"] = "idle"
           /\ \A g \in Calls : g # h /\ ~gone[g] => call[g] = "idle" /\ ticket[g] = "none"
BY Parts DEF OneCall, Session

-----------------------------------------------------------------------------

\* The loop pays what it owes: a bump while it is at work, then a wake.
LEMMA LoopWakeup == TypeOK /\ TaskInv /\ WakeupInv /\ Loop => WakeupInv'
<1> SUFFICES ASSUME TypeOK, TaskInv, WakeupInv, Loop, Guarded'
             PROVE  CallsInv' /\ ParkedInv'
  BY WakeupPartsNext
<1>1. UNCHANGED <<call, chClosed, gone, answer, reporter, guest, live, stopping, waiting>>
  BY DEF Loop, LoopTake, LoopAdvance, LoopBump, LoopWake, LoopClose, guestVars, wakeVars
<1>2. Guarded
  <2>1. slip' = slip \/ slip' # "none"
    BY DEF Loop, LoopTake, LoopAdvance, Advance, Slip, LoopBump, LoopWake, LoopClose
  <2>2. wantWake => wantWake'
    BY DEF Loop, LoopTake, LoopAdvance, LoopBump, LoopWake, RequestWake, LoopClose, wakeVars
  <2>3. QED
    BY <1>1, <2>1, <2>2 DEF Guarded, Assured
<1>3. CallsInv /\ ParkedInv
  BY <1>2, WakeupParts
<1> USE <1>1 DEF LoopStep, Danger, Owed, LoopOwesBump, WakesMainSession
<1>4. ParkedInv'
  <2> USE <1>3 DEF ParkedInv
  <2>1. CASE LoopTake
    BY <2>1, <1>2 DEF LoopTake, Guarded
  <2>2. CASE LoopAdvance
    BY <2>2 DEF LoopAdvance, Advance, Slip, Guarded, TypeOK, Result, Status
  <2>3. CASE LoopBump
    BY <2>3 DEF LoopBump
  <2>4. CASE LoopWake
    <3>1. waiting => wantWake'
      BY <2>4 DEF LoopWake, RequestWake
    <3>2. ~waiting
      BY <3>1 DEF Guarded, Assured
    <3>3. guest # "parked"
      BY <3>2
    <3>4. QED
      BY <3>3
  <2>5. CASE LoopClose
    BY <2>5 DEF LoopClose
  <2>6. QED
    BY <2>1, <2>2, <2>3, <2>4, <2>5 DEF Loop
<1>5. ASSUME NEW h \in Calls, ~gone[h] PROVE LiveCallInv(h)'
  <2>1. LiveCallInv(h) /\ OneCall(h)
    BY <1>3, <1>5, Parts DEF CallsInv
  <2> USE <2>1 DEF LiveCallInv, StaleSeen, Finished, TypeOK, Result, Status
  <2>2. CASE LoopTake
    BY <2>2, <1>2 DEF LoopTake, Guarded
  <2>3. CASE LoopAdvance
    BY <2>3 DEF LoopAdvance, Advance, Slip, Guarded
  <2>4. CASE LoopBump
    BY <2>4 DEF LoopBump, Bump
  <2>5. CASE LoopWake
    BY <2>5 DEF LoopWake, RequestWake, Guarded, Assured
  <2>6. CASE LoopClose
    BY <2>6 DEF LoopClose
  <2>7. QED
    BY <2>2, <2>3, <2>4, <2>5, <2>6 DEF Loop
<1>6. QED
  BY <1>1, <1>4, <1>5 DEF CallsInv

\* A handler that is cut off asks for a wake at its end, if `waiting` is set then.
LEMMA GoneWakeup ==
    ASSUME TypeOK, TaskInv, WakeupInv, NEW h \in Calls, Handler(h), gone[h]
    PROVE  WakeupInv'
<1> SUFFICES ASSUME Guarded' PROVE CallsInv' /\ ParkedInv'
  BY WakeupPartsNext
<1>1. OneCall(h)
  BY Parts
<1>2. call[h] \in {"undelivered", "deliver"}
  <2>1. ASSUME ~(call[h] \in {"undelivered", "deliver"}) PROVE FALSE
    <3>1. gone'[h] /\ ~stopping'
      BY <2>1 DEF TypeOK, Handler, ClearWaiting, WaitCh, KickAdvance, RunDone,
         RunTimeout, Stopped, ChangedClosed, SelectTimeout, MarkWaiting, MissedWake,
         Return, UndeliveredWake, Deliver, Goto, Guarded
    <3>2. \/ call'[h] \notin {"idle", "undelivered", "deliver"}
          \/ call'[h] = "undelivered" /\ waiting'
      BY <2>1, <3>1 DEF TypeOK, Handler, ClearWaiting, WaitCh, KickAdvance, RunDone,
         RunTimeout, Stopped, ChangedClosed, SelectTimeout, MarkWaiting, MissedWake,
         Return, UndeliveredWake, Deliver, Goto
    <3>3. QED
      BY <3>1, <3>2 DEF Guarded, Assured
  <2>2. QED
    BY <2>1
<1>3. UndeliveredWake(h) \/ Deliver(h)
  BY <1>2 DEF Handler, ClearWaiting, WaitCh, KickAdvance, RunDone, RunTimeout,
     Stopped, ChangedClosed, SelectTimeout, MarkWaiting, MissedWake, Return, Goto
<1>4. live # h
  BY Parts DEF Session
<1>5. UNCHANGED <<pos, loopVars, ticket, reporter, stopping, slip, guest, live, waiting>>
  BY <1>3, <1>4 DEF Handler, UndeliveredWake, Deliver, Over, guestVars, wakeVars
<1>6. \A g \in Calls \ {h} : /\ call'[g] = call[g] /\ gone'[g] = gone[g]
                             /\ answer'[g] = answer[g] /\ moved'[g] = moved[g]
                             /\ chClosed'[g] = chClosed[g]
  BY <1>3 DEF TypeOK, UndeliveredWake, Deliver, Over, Goto, Answer
<1>7. call'[h] = "idle" /\ ticket'[h] = "none"
  BY <1>1, <1>2, <1>3, <1>5 DEF TypeOK, UndeliveredWake, Deliver, Goto, OneCall
<1>8. ~(waiting /\ call[h] = "undelivered")
  BY <1>3, <1>2 DEF Deliver, UndeliveredWake, RequestWake, Guarded, Assured, Goto, wakeVars
<1>9. wantWake' = wantWake
  <2>1. CASE UndeliveredWake(h)
    <3>1. ~waiting /\ wantWake' = (wantWake \/ waiting)
      BY <1>8, <2>1 DEF UndeliveredWake, RequestWake, Goto
    <3>2. wantWake \in BOOLEAN
      BY DEF TypeOK
    <3>3. QED
      BY <3>1, <3>2
  <2>2. CASE Deliver(h)
    BY <2>2 DEF Deliver, wakeVars
  <2>3. QED
    BY <1>3, <2>1, <2>2
<1>10. Guarded
  BY <1>2, <1>5, <1>6, <1>8, <1>9 DEF Guarded, Assured
<1>11. CallsInv /\ ParkedInv
  BY <1>10, WakeupParts
<1>12. ParkedInv'
  BY <1>5, <1>11 DEF ParkedInv, Danger, Owed, LoopOwesBump, loopVars
<1>13. ASSUME NEW g \in Calls, ~gone'[g] PROVE LiveCallInv(g)'
  <2>1. CASE g = h
    BY <2>1, <1>7 DEF LiveCallInv, Result, Status
  <2>2. CASE g # h
    BY <2>2, <1>5, <1>6, <1>11, <1>13 DEF CallsInv, LiveCallInv, StaleSeen, Finished,
       Danger, Owed, LoopOwesBump, loopVars
  <2>3. QED
    BY <2>1, <2>2
<1>14. QED
  BY <1>12, <1>13 DEF CallsInv

\* The call that the session waits for: from clearWaiting, which starts anew,
\* through the two selects to `waiting`, which it marks before it looks for what
\* it has missed.
LEMMA LiveWakeup ==
    ASSUME TypeOK, TaskInv, WakeupInv, NEW h \in Calls, Handler(h), ~gone[h]
    PROVE  WakeupInv'
<1> SUFFICES ASSUME Guarded' PROVE CallsInv' /\ ParkedInv'
  BY WakeupPartsNext
<1>1. OneCall(h) /\ call[h] # "idle"
  BY Parts DEF Handler, ClearWaiting, WaitCh, KickAdvance, RunDone, RunTimeout,
     Stopped, ChangedClosed, SelectTimeout, MarkWaiting, MissedWake, Return,
     UndeliveredWake, Deliver, Goto
<1>2. /\ live = h /\ guest = "calling"
      /\ \A g \in Calls : g # h /\ ~gone[g] => call[g] = "idle" /\ ticket[g] = "none"
  BY <1>1, OnlyLive
<1>3. UNCHANGED <<pos, reporter, stopping>>
  BY DEF Handler
<1>4. ASSUME NEW g \in Calls, g # h, ~gone'[g] PROVE LiveCallInv(g)'
  <2>1. call'[g] = call[g] /\ ticket'[g] = ticket[g] /\ gone'[g] = gone[g]
    BY <1>4 DEF TypeOK, Handler, ClearWaiting, WaitCh, KickAdvance, RunDone, RunTimeout,
       Stopped, ChangedClosed, SelectTimeout, MarkWaiting, MissedWake, Return,
       UndeliveredWake, Deliver, Over, Goto, Answer, DropTicket
  <2>2. call'[g] = "idle" /\ ticket'[g] = "none"
    BY <1>2, <1>4, <2>1
  <2>3. QED
    BY <2>2 DEF LiveCallInv, Result, Status
<1>5. CASE ClearWaiting(h)
  <2>1. /\ ticket'[h] = "none" /\ guest' = "calling"
        /\ call'[h] = "watch" \/ (call'[h] = "return" /\ answer'[h] = "error")
    BY <1>1, <1>2, <1>5 DEF ClearWaiting, OneCall, Goto, Answer, TypeOK, guestVars
  <2>2. LiveCallInv(h)' /\ ParkedInv'
    BY <2>1 DEF LiveCallInv, ParkedInv, Result, Status
  <2>3. QED
    BY <1>4, <2>2 DEF CallsInv
<1>6. CASE ~ClearWaiting(h)
  <2>1. Guarded
    <3>1. slip' = slip \/ slip' # "none"
      BY <1>6 DEF Handler, WaitCh, KickAdvance, RunDone, RunTimeout, Stopped,
         ChangedClosed, SelectTimeout, Slip, MarkWaiting, MissedWake, Return,
         UndeliveredWake, Deliver, Over
    <3>2. (waiting => waiting') /\ (wantWake => wantWake')
      <4>1. \/ UNCHANGED wakeVars \/ MarkWaiting(h) \/ MissedWake(h)
            \/ Return(h) \/ UndeliveredWake(h)
        BY <1>6 DEF Handler, WaitCh, KickAdvance, RunDone, RunTimeout, Stopped,
           ChangedClosed, SelectTimeout, Deliver
      <4>2. CASE UNCHANGED wakeVars
        BY <4>2 DEF wakeVars
      <4>3. CASE MarkWaiting(h) \/ Return(h)
        <5>1. wantWake' = wantWake /\ (waiting => waiting')
          BY <4>3 DEF MarkWaiting, Return, TypeOK
        <5>2. QED
          BY <5>1
      <4>4. CASE MissedWake(h) \/ UndeliveredWake(h)
        <5>1. waiting' = waiting /\ wantWake' = (wantWake \/ waiting)
          BY <4>4 DEF MissedWake, UndeliveredWake, RequestWake
        <5>2. QED
          BY <5>1
      <4>5. QED
        BY <4>1, <4>2, <4>3, <4>4
    <3>3. \A g \in Calls : gone[g] => call'[g] = call[g] /\ gone'[g] = gone[g]
      BY ZenonT(60) DEF TypeOK, Handler, ClearWaiting, WaitCh, KickAdvance, RunDone, RunTimeout,
         Stopped, ChangedClosed, SelectTimeout, MarkWaiting, MissedWake, Return,
         UndeliveredWake, Deliver, Over, Goto
    <3>4. ASSUME NEW g \in Calls, call[g] = "undelivered", waiting
          PROVE waiting' /\ call'[g] = "undelivered" /\ gone'[g]
      BY <3>2, <3>3, <3>4, Parts DEF OneCall
    <3>5. QED
      BY <1>3, <3>1, <3>2, <3>3, <3>4 DEF Guarded, Assured
  <2>2. LiveCallInv(h)
    BY <2>1, WakeupParts DEF CallsInv
  <2>3. LiveCallInv(h)' /\ ParkedInv'
    <3> USE <1>1, <1>2, <1>3, <2>2 DEF TypeOK, OneCall, LiveCallInv, ParkedInv, StaleSeen,
            Finished, Goto, Answer, DropTicket, loopVars, guestVars, wakeVars, Danger, Owed,
            LoopOwesBump
    <3>1. CASE WaitCh(h)
      BY <3>1 DEF WaitCh, Result, Status
    <3>2. CASE KickAdvance(h)
      BY <3>2 DEF KickAdvance, Kick, Result, Status
    <3>3. CASE RunDone(h)
      BY <3>3 DEF RunDone, Result, Status
    <3>4. CASE RunTimeout(h)
      BY <3>4 DEF RunTimeout, Result, Status
    <3>5. CASE Stopped(h)
      BY <3>5 DEF Stopped, Guarded
    <3>6. CASE ChangedClosed(h)
      BY <3>6 DEF ChangedClosed, Result, Status
    <3>7. CASE SelectTimeout(h)
      BY <3>7, <2>1 DEF SelectTimeout, Slip, Guarded, WakesMainSession, Result, Status
    <3>8. CASE MarkWaiting(h)
      BY <3>8 DEF MarkWaiting, Result, Status
    <3>9. CASE MissedWake(h)
      BY <3>9 DEF MissedWake, RequestWake, Guarded, Assured
    <3>10. CASE Return(h)
      BY <3>10 DEF Return, Result, Status
    <3>11. CASE UndeliveredWake(h)
      BY <3>11 DEF UndeliveredWake
    <3>12. CASE Deliver(h)
      BY <3>12 DEF Deliver, Receive, Over, Result, Status
    <3>13. QED
      BY <1>6, <3>1, <3>2, <3>3, <3>4, <3>5, <3>6, <3>7, <3>8, <3>9, <3>10, <3>11,
         <3>12 DEF Handler
  <2>4. QED
    BY <1>4, <2>3 DEF CallsInv
<1>7. QED
  BY <1>5, <1>6

LEMMA HandlerWakeup ==
    TypeOK /\ TaskInv /\ WakeupInv /\ (\E h \in Calls : Handler(h)) => WakeupInv'
<1> SUFFICES ASSUME TypeOK, TaskInv, WakeupInv, NEW h \in Calls, Handler(h)
             PROVE  WakeupInv'
  OBVIOUS
<1>1. CASE gone[h]
  BY <1>1, GoneWakeup
<1>2. CASE ~gone[h]
  BY <1>2, LiveWakeup
<1>3. QED
  BY <1>1, <1>2

-----------------------------------------------------------------------------

\* A report closes the channel and moves the number before anybody advances past
\* it, and asks for a wake; a decision's own advance finds the loop still owing.
LEMMA ReporterWakeup ==
    TypeOK /\ TaskInv /\ WakeupInv /\ (Accept \/ \E r \in Reporters : Reporter(r))
        => WakeupInv'
<1> SUFFICES ASSUME TypeOK, TaskInv, WakeupInv,
                    Accept \/ \E r \in Reporters : Reporter(r), Guarded'
             PROVE  CallsInv' /\ ParkedInv'
  BY WakeupPartsNext
<1>1. UNCHANGED <<loopSt, call, ticket, gone, answer, guest, live, stopping, waiting>>
  BY DEF Accept, Reporter, ReporterFrame, guestVars
<1>2. wantWake => wantWake'
  <2>1. wantWake' = wantWake \/ wantWake' = (wantWake \/ waiting)
    BY DEF Accept, AcceptDecision, AcceptReport, Reporter, CloseChanged, NotifyBump,
       NotifyWake, RequestWake, SaveDecision, DirectAdvance, ReportKick
  <2>2. QED
    BY <2>1
<1>3. Guarded
  <2>1. slip' = slip \/ slip' # "none"
    BY DEF Accept, AcceptDecision, AcceptReport, Reporter, CloseChanged, NotifyBump,
       NotifyWake, SaveDecision, DirectAdvance, Advance, Slip, ReportKick
  <2>2. QED
    BY <1>1, <1>2, <2>1 DEF Guarded, Assured
<1>4. CallsInv /\ ParkedInv
  BY <1>3, WakeupParts
<1>5. CASE guest = "working"
  <2>1. ASSUME NEW h \in Calls, ~gone[h] PROVE call[h] = "idle" /\ ticket[h] = "none"
    BY <1>5, <2>1, Parts DEF OneCall, Session
  <2>2. ASSUME NEW h \in Calls, ~gone'[h] PROVE LiveCallInv(h)'
    BY <1>1, <2>1, <2>2 DEF LiveCallInv, Result, Status
  <2>3. ParkedInv'
    BY <1>1, <1>5 DEF ParkedInv
  <2>4. QED
    BY <2>2, <2>3 DEF CallsInv
<1> USE <1>1 DEF TypeOK, Reporters, Step, Danger, Owed, LoopOwesBump, WakesMainSession,
        StaleSeen, Finished
<1>6. CASE AcceptDecision
  BY <1>4, <1>6 DEF AcceptDecision, CallsInv, ParkedInv, LiveCallInv
<1>7. CASE SaveDecision
  BY <1>4, <1>7 DEF SaveDecision, CallsInv, ParkedInv, LiveCallInv
<1>8. ASSUME NEW r \in Reporters, CloseChanged(r) PROVE CallsInv' /\ ParkedInv'
  BY <1>4, <1>8 DEF CloseChanged, CallsInv, ParkedInv, LiveCallInv
<1>9. ASSUME NEW r \in Reporters, NotifyBump(r) PROVE CallsInv' /\ ParkedInv'
  BY <1>4, <1>9 DEF NotifyBump, Bump, CallsInv, ParkedInv, LiveCallInv
<1>10. ASSUME NEW r \in Reporters, NotifyWake(r) PROVE CallsInv' /\ ParkedInv'
  <2>1. waiting => wantWake'
    BY <1>10 DEF NotifyWake, RequestWake
  <2>2. ~waiting
    BY <2>1 DEF Guarded, Assured
  <2>3. UNCHANGED <<pos, queued, loop, moved, chClosed>>
    BY <1>10 DEF NotifyWake
  <2>4. Danger' = Danger
    BY <1>10, <2>3 DEF NotifyWake
  <2>5. ParkedInv'
    BY <1>4, <2>2 DEF ParkedInv
  <2>6. ASSUME NEW h \in Calls, ~gone[h] PROVE LiveCallInv(h)'
    BY <1>4, <1>10, <2>2, <2>3, <2>6 DEF CallsInv, LiveCallInv, NotifyWake
  <2>7. QED
    BY <2>5, <2>6 DEF CallsInv
<1>11. CASE DirectAdvance
  <2>1. PICK st \in Result : Advance(st)
    BY <1>11 DEF DirectAdvance
  <2>2. st # "error" /\ pos' = st /\ (pos # "host" => pos' = pos) /\ pos' # "host"
    BY <1>3, <2>1 DEF Advance, Slip, Guarded, Result, Status
  <2>3. reporter["api"] = "advance" /\ reporter'["api"] = "idle"
        /\ UNCHANGED <<queued, loop, moved, chClosed>>
    BY <1>11 DEF DirectAdvance
  <2>4. (Danger' => Danger) /\ (Owed => Owed')
    BY <2>2, <2>3
  <2>5. ParkedInv'
    BY <1>4, <2>4 DEF ParkedInv
  <2>6. ASSUME NEW h \in Calls, ~gone[h] PROVE LiveCallInv(h)'
    BY <1>4, <2>2, <2>3, <2>6 DEF CallsInv, LiveCallInv
  <2>7. QED
    BY <2>5, <2>6 DEF CallsInv
<1>12. QED
  <2>1. AcceptReport \/ ReportKick => guest = "working"
    BY Parts DEF AcceptReport, ReportKick, Session
  <2>2. QED
    BY <2>1, <1>5, <1>6, <1>7, <1>8, <1>9, <1>10, <1>11 DEF Accept, Reporter

\* A connection that is cut before the handler's check leaves a handler that
\* asks for a wake; a session that ends its turn later was not told to wait.
LEMMA GuestWakeup == TypeOK /\ TaskInv /\ WakeupInv /\ Guest => WakeupInv'
<1> SUFFICES ASSUME TypeOK, TaskInv, WakeupInv, Guest, Guarded'
             PROVE  CallsInv' /\ ParkedInv'
  BY WakeupPartsNext
<1>1. UNCHANGED <<pos, queued, loop, loopSt, ticket, moved, chClosed, answer, reporter,
                  waiting, wantWake, stopping, slip>>
  BY DEF Guest, GuestFrame, loopVars, wakeVars, runVars
<1>2. Session /\ \A h \in Calls : OneCall(h)
  BY Parts
<1> USE <1>1 DEF Danger, Owed, LoopOwesBump, StaleSeen, Finished
<1>3. ASSUME NEW g \in Calls, Arrive(g) PROVE CallsInv' /\ ParkedInv'
  <2>1. /\ call[g] = "idle" /\ call'[g] = "clear" /\ ticket[g] = "none"
        /\ UNCHANGED gone /\ guest' = "calling"
        /\ \A h \in Calls \ {g} : call'[h] = call[h]
    BY <1>2, <1>3 DEF TypeOK, Arrive, Goto, OneCall
  <2>2. Guarded
    BY <2>1, <1>2 DEF Guarded, Assured, OneCall
  <2>3. CallsInv
    BY <2>2, WakeupParts
  <2>4. ASSUME NEW h \in Calls, ~gone'[h] PROVE LiveCallInv(h)'
    BY <2>1, <2>3, <2>4 DEF CallsInv, LiveCallInv, Result, Status
  <2>5. QED
    BY <2>1, <2>4 DEF CallsInv, ParkedInv
<1>4. CASE Disconnect
  <2>1. live \in Calls /\ call[live] # "idle" /\ ~gone[live] /\ call[live] # "undelivered"
    BY <1>2, <1>4 DEF Disconnect, Session, OneCall
  <2>2. /\ call' = call /\ gone'[live]
        /\ \A h \in Calls \ {live} : gone'[h] = gone[h]
    BY <1>4, <2>1 DEF TypeOK, Disconnect
  <2>3. call[live] = "deliver"
    BY <2>1, <2>2 DEF Guarded, Assured
  <2>4. guest' # "parked"
    BY <1>4, <2>3 DEF Disconnect
  <2>5. Guarded
    BY <2>1, <2>2 DEF Guarded, Assured
  <2>6. CallsInv
    BY <2>5, WakeupParts
  <2>7. ASSUME NEW h \in Calls, ~gone'[h] PROVE LiveCallInv(h)'
    BY <2>2, <2>6, <2>7 DEF CallsInv, LiveCallInv
  <2>8. QED
    BY <2>4, <2>7 DEF CallsInv, ParkedInv
<1>5. CASE FinishTask \/ TakeWake \/ LoseText \/ HumanPrompts
  <2>1. UNCHANGED <<call, gone>> /\ (guest' = guest \/ guest' = "turn")
    BY <1>5 DEF FinishTask, TakeWake, LoseText, HumanPrompts
  <2>2. CallsInv /\ ParkedInv
    BY <2>1, WakeupParts DEF Guarded, Assured
  <2>3. QED
    BY <2>1, <2>2 DEF CallsInv, LiveCallInv, ParkedInv
<1>6. QED
  BY <1>3, <1>4, <1>5 DEF Guest

\* tryWake sends what was asked for; it never takes the question back.
LEMMA WakeupStep == TypeOK /\ TaskInv /\ WakeupInv /\ [Next]_vars => WakeupInv'
<1> SUFFICES ASSUME TypeOK, TaskInv, WakeupInv, [Next]_vars PROVE WakeupInv'
  OBVIOUS
<1>1. CASE (\E w \in Wakers : Waker(w)) \/ UNCHANGED vars
  <2>1. UNCHANGED <<pos, loopVars, callVars, reporter, waiting, wantWake, guest, runVars>>
    BY <1>1 DEF Waker, WakerFrame, vars, wakeVars, guestVars
  <2>2. QED
    BY <2>1 DEF WakeupInv, Assured, LiveCallInv, StaleSeen, Finished, Danger, Owed,
       LoopOwesBump, loopVars, callVars, runVars
<1>2. CASE Stop
  BY <1>2 DEF Stop, WakeupInv
<1>3. QED
  BY <1>1, <1>2, LoopWakeup, HandlerWakeup, ReporterWakeup, GuestWakeup
     DEF Next, Terminated

\* The invariant of the safety properties holds of every run.
THEOREM Invariant == Spec => []IInv
<1>1. Init => IInv
  <2>1. Init => WakeupInv
    BY DEF Init, WakeupInv, LiveCallInv, Danger, WakesMainSession, Result, Status
  <2>2. QED
    BY <2>1, InitBase DEF IInv, BaseInv
<1>2. IInv /\ [Next]_vars => IInv'
  BY TypeStep, WakerInvStep, TaskStep, WakeupStep DEF IInv, TaskInv
<1>3. QED
  BY <1>1, <1>2, PTL DEF Spec

\* No wake-up is lost unless a call took the timer's branch of its select with
\* `changed` closed, or a host node failed: a session that waits although there
\* is something to do has been asked for, or somebody is going to ask.
THEOREM NoWakeLost == Spec => []NoLostWakeUnlessSlip
<1>1. IInv => NoLostWakeUnlessSlip
  <2> SUFFICES ASSUME IInv, slip = "none", Forgotten, ~stopping, ~(waiting /\ wantWake)
               PROVE  WakeComing
    BY DEF NoLostWakeUnlessSlip, NoLostWake
  <2>1. CASE Assured
    BY <2>1 DEF Assured, IInv, CallInv, WakeComing
  <2>2. CASE ~Assured
    <3>1. ParkedInv
      BY <2>2, WakeupParts DEF IInv, Guarded
    <3>2. Owed
      BY <3>1 DEF ParkedInv, Forgotten, Danger
    <3>3. QED
      BY <3>2 DEF Owed, LoopOwesBump, WakeComing, Reporters
  <2>3. QED
    BY <2>1, <2>2
<1>2. QED
  BY <1>1, Invariant, PTL
=============================================================================
