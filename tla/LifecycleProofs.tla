-------------------------- MODULE LifecycleProofs --------------------------
(* Proofs about Lifecycle, for every number of run slots and every choice   *)
(* of Callers: the types; one run at a time is at work; and, up to the      *)
(* first slip, what workspace.json shows and the VM that exists belong      *)
(* together, what is stopped stays so and the VM of a run that goes on      *)
(* stays.                                                                   *)
EXTENDS LifecycleInv, TLAPS

\* The two that are inductive together: Begin keeps what it found in was, which
\* is a state because Remove is not under way in another operation.
TypeInv == TypeOK /\ PresentMeanwhile

-----------------------------------------------------------------------------
(* The types. *)

LEMMA InitType == Init => TypeInv
<1> SUFFICES ASSUME Init PROVE TypeInv
  OBVIOUS
<1> USE DEF Init
<1>1. pc \in [Runs -> [Actors -> Places]]
  BY DEF Places
<1>2. val \in [Runs -> [Actors -> States]]
  BY DEF States
<1>3. TypeOK
  BY <1>1, <1>2 DEF TypeOK, States
<1>4. PresentMeanwhile
  BY DEF PresentMeanwhile
<1>5. QED
  BY <1>3, <1>4 DEF TypeInv

\* Goto and Finish keep the types of the goroutines.
LEMMA GotoType ==
  ASSUME TypeOK, NEW r \in Runs, NEW k, NEW f, NEW t \in Places, Goto(r, k, f, t)
  PROVE  pc' \in [Runs -> [Actors -> Places]] /\ k \in Actors
BY DEF TypeOK, Goto

LEMMA FinishType ==
  ASSUME TypeOK, NEW r \in Runs, NEW k, NEW f, Finish(r, k, f)
  PROVE  /\ pc' \in [Runs -> [Actors -> Places]]
         /\ val' \in [Runs -> [Actors -> States]]
         /\ again' \in [Runs -> BOOLEAN]
         /\ k \in Actors
<1> DEFINE t == IF k = "loop" /\ again[r] /\ ~cancelled[r] THEN "advance"
                ELSE IF k = "ask" /\ val[r][k] = "waiting" THEN "asked"
                ELSE "idle"
<1>1. Goto(r, k, f, t)
  BY DEF Finish
<1>2. t \in Places
  BY DEF Places
<1> HIDE DEF t
<1>3. pc' \in [Runs -> [Actors -> Places]] /\ k \in Actors
  BY <1>1, <1>2, GotoType
<1>4. val' \in [Runs -> [Actors -> States]]
  BY <1>3 DEF Finish, TypeOK, States
<1>5. again' \in [Runs -> BOOLEAN]
  BY DEF Finish, TypeOK
<1>6. QED
  BY <1>3, <1>4, <1>5

LEMMA SlipType ==
  ASSUME TypeOK, NEW b, NEW s \in Slips,
         Slip(s) \/ SlipIf(b, s)
  PROVE  slip' \in Slips \cup {"none"}
BY DEF TypeOK, Slip, SlipIf

LEMMA UpdateType ==
  ASSUME TypeOK, NEW r \in Runs, NEW k \in Actors, NEW f, Update(r, k, f)
  PROVE  /\ pc' \in [Runs -> [Actors -> Places]]
         /\ val' \in [Runs -> [Actors -> States]]
         /\ again' \in [Runs -> BOOLEAN]
<1>1. CASE Finish(r, k, f)
  BY <1>1, FinishType
<1>2. CASE Goto(r, k, f, "save") /\ UNCHANGED <<val, again>>
  BY <1>2, GotoType DEF Places, TypeOK
<1>3. QED
  BY <1>1, <1>2 DEF Update

LEMMA WriteType == TypeInv /\ (\E r \in Runs : Write(r)) => TypeInv'
<1> SUFFICES ASSUME TypeInv, NEW r \in Runs, Write(r) PROVE TypeInv'
  OBVIOUS
<1>f. UNCHANGED <<run, cancelled, fresh, opVars, leftovers>>
  BY DEF Write
<1>t. TypeOK /\ PresentMeanwhile
  BY DEF TypeInv
<1>p. PICK k \in Actors : Advance(r, k) \/ Reflect(r, k) \/ Cleanup(r, k) \/ Save(r, k)
  BY DEF Write
<1>1. CASE Advance(r, k)
  <2>1. pc' \in [Runs -> [Actors -> Places]]
    BY <1>1, <1>t, GotoType DEF Advance, Places
  <2>2. PICK st \in {"agent", "human", "done", "blocked", "error"} :
          /\ pos' = IF st = "error" THEN pos ELSE st
          /\ val' = [val EXCEPT ![r][k] = StateOf[st]]
          /\ vm' \in {vm, NoRun}
    BY <1>1, <1>t DEF Advance, TypeOK
  <2>3. StateOf[st] \in States
    BY DEF StateOf, States
  <2>4. val' \in [Runs -> [Actors -> States]]
    BY <2>2, <2>3, <1>t DEF TypeOK
  <2>5. QED
    BY <1>1, <1>f, <1>t, <2>1, <2>2, <2>4
       DEF TypeInv, TypeOK, PresentMeanwhile, Advance, opVars
<1>2. CASE Reflect(r, k)
  <2>1. /\ pc' \in [Runs -> [Actors -> Places]]
        /\ val' \in [Runs -> [Actors -> States]]
        /\ again' \in [Runs -> BOOLEAN]
    <3>1. CASE Finish(r, k, "reflect")
      BY <3>1, <1>t, FinishType
    <3>2. CASE Update(r, k, "reflect")
      BY <3>2, <1>t, UpdateType
    <3>3. CASE Goto(r, k, "reflect", "cleanup") /\ UNCHANGED <<val, again>>
      BY <3>3, <1>t, GotoType DEF Places, TypeOK
    <3>4. QED
      BY <1>2, <3>1, <3>2, <3>3 DEF Reflect
  <2>2. QED
    BY <1>2, <1>f, <1>t, <2>1 DEF TypeInv, TypeOK, PresentMeanwhile, Reflect, opVars
<1>3. CASE Cleanup(r, k)
  <2>1. /\ pc' \in [Runs -> [Actors -> Places]]
        /\ val' \in [Runs -> [Actors -> States]]
        /\ again' \in [Runs -> BOOLEAN]
    BY <1>3, <1>t, UpdateType DEF Cleanup
  <2>2. slip' \in Slips \cup {"none"}
    BY <1>3, <1>t, SlipType DEF Slips, Cleanup
  <2>3. vm' \in {vm, NoRun}
    BY <1>3 DEF Cleanup
  <2>4. QED
    BY <1>3, <1>f, <1>t, <2>1, <2>2, <2>3
       DEF TypeInv, TypeOK, PresentMeanwhile, Cleanup, opVars
<1>4. CASE Save(r, k)
  <2>1. /\ pc' \in [Runs -> [Actors -> Places]]
        /\ val' \in [Runs -> [Actors -> States]]
        /\ again' \in [Runs -> BOOLEAN]
    BY <1>4, <1>t, FinishType DEF Save
  <2>2. slip' \in Slips \cup {"none"}
    BY <1>4, <1>t, SlipType DEF Slips, Save
  <2>3. disk' \in States
    BY <1>4, <1>t DEF Save, TypeOK
  <2>4. disk' # "absent"
    BY <2>3 DEF States
  <2>5. QED
    BY <1>4, <1>f, <1>t, <2>1, <2>2, <2>3, <2>4
       DEF TypeInv, TypeOK, PresentMeanwhile, Save, opVars
<1>5. QED
  BY <1>p, <1>1, <1>2, <1>3, <1>4

LEMMA BootType == TypeInv /\ (\E r \in Runs : Boot(r)) => TypeInv'
<1> SUFFICES ASSUME TypeInv, NEW r \in Runs, Boot(r) PROVE TypeInv'
  OBVIOUS
<1>f. UNCHANGED <<pos, again, opVars, leftovers>>
  BY DEF Boot
<1>t. TypeOK /\ PresentMeanwhile
  BY DEF TypeInv
<1>g. \A f, t : t \in Places /\ BootGoto(r, f, t) => pc' \in [Runs -> [Actors -> Places]]
  BY <1>t, GotoType DEF BootGoto
<1> USE <1>f, <1>t DEF TypeInv, TypeOK, PresentMeanwhile, opVars
<1>1. CASE BootDestroy(r)
  <2>1. pc' \in [Runs -> [Actors -> Places]]
    BY <1>1, <1>g DEF BootDestroy, Places
  <2>2. QED
    BY <1>1, <2>1 DEF BootDestroy
<1>2. CASE BootCreate(r)
  <2>1. pc' \in [Runs -> [Actors -> Places]]
    BY <1>2, <1>g DEF BootCreate, Places
  <2>2. QED
    BY <1>2, <2>1 DEF BootCreate
<1>3. CASE BootPrepare(r)
  <2>1. pc' \in [Runs -> [Actors -> Places]]
    BY <1>3, <1>g DEF BootPrepare, Places
  <2>2. QED
    BY <1>3, <2>1 DEF BootPrepare
<1>4. CASE BootReturn(r)
  <2>1. pc' \in [Runs -> [Actors -> Places]]
    <3>1. (IF disk = "absent" THEN "unregister"
           ELSE IF r = fresh THEN "save" ELSE "advance") \in Places
      BY DEF Places
    <3>2. "idle" \in Places /\ "unregister" \in Places
      BY DEF Places
    <3>3. QED
      BY <1>4, <1>g, <3>1, <3>2 DEF BootReturn
  <2>2. fresh' \in Runs \cup {NoRun}
    BY <1>4 DEF BootReturn
  <2>3. UNCHANGED <<disk, run, vm, val, cancelled, slip>>
    BY <1>4 DEF BootReturn
  <2>4. QED
    BY <2>1, <2>2, <2>3
<1>5. CASE BootUnregister(r)
  <2>1. pc' \in [Runs -> [Actors -> Places]]
    BY <1>5, <1>g DEF BootUnregister, Places
  <2>2. run' = NoRun /\ cancelled' \in [Runs -> BOOLEAN]
    BY <1>5 DEF BootUnregister, RemoveRun
  <2>3. QED
    BY <1>5, <2>1, <2>2 DEF BootUnregister
<1>6. CASE BootReap(r)
  <2>1. pc' \in [Runs -> [Actors -> Places]]
    <3>1. (IF disk = "absent" THEN "idle" ELSE "save") \in Places
      BY DEF Places
    <3>2. QED
      BY <1>6, <1>g, <3>1 DEF BootReap
  <2>2. val' \in [Runs -> [Actors -> States]]
    BY <1>6 DEF BootReap, States
  <2>3. slip' \in Slips \cup {"none"}
    BY <1>6, SlipType DEF Slips, BootReap
  <2>4. QED
    BY <1>6, <2>1, <2>2, <2>3 DEF BootReap
<1>7. QED
  BY <1>1, <1>2, <1>3, <1>4, <1>5, <1>6 DEF Boot

\* A kick of the loop.
LEMMA KickType ==
  ASSUME TypeOK, NEW r \in Runs, Kick(r)
  PROVE  pc' \in [Runs -> [Actors -> Places]] /\ again' \in [Runs -> BOOLEAN]
<1>1. [pc EXCEPT ![r]["loop"] = "advance"] \in [Runs -> [Actors -> Places]]
  BY DEF TypeOK, Places
<1>2. [again EXCEPT ![r] = TRUE] \in [Runs -> BOOLEAN]
  BY DEF TypeOK
<1>3. pc \in [Runs -> [Actors -> Places]] /\ again \in [Runs -> BOOLEAN]
  BY DEF TypeOK
<1>4. QED
  BY <1>1, <1>2, <1>3 DEF Kick

LEMMA TalkType == TypeInv /\ (\E r \in Runs : Talk(r)) => TypeInv'
<1> SUFFICES ASSUME TypeInv, NEW r \in Runs, Talk(r) PROVE TypeInv'
  OBVIOUS
<1>f. UNCHANGED <<disk, run, vm, cancelled, fresh, opVars, leftovers, slip>>
  BY DEF Talk
<1>t. TypeOK /\ PresentMeanwhile
  BY DEF TypeInv
<1>q. SUFFICES /\ pc' \in [Runs -> [Actors -> Places]]
               /\ val' \in [Runs -> [Actors -> States]]
               /\ again' \in [Runs -> BOOLEAN]
               /\ pos' \in {"host", "agent", "human", "done", "blocked"}
  BY <1>f, <1>t DEF TypeInv, TypeOK, PresentMeanwhile, opVars
<1>s. /\ pc \in [Runs -> [Actors -> Places]]
      /\ val \in [Runs -> [Actors -> States]]
      /\ again \in [Runs -> BOOLEAN]
      /\ pos \in {"host", "agent", "human", "done", "blocked"}
  BY <1>t DEF TypeOK
<1>1. CASE GuestAsks(r)
  BY <1>1, <1>s, <1>t, KickType DEF GuestAsks
<1>2. CASE GuestReports(r)
  BY <1>2, <1>s, <1>t, KickType DEF GuestReports
<1>3. CASE GuestQuestions(r)
  <2>1. pc' \in [Runs -> [Actors -> Places]]
    BY <1>3, <1>t, GotoType DEF GuestQuestions, Places
  <2>2. val' \in [Runs -> [Actors -> States]]
    BY <1>3, <1>s DEF GuestQuestions, States
  <2>3. QED
    BY <1>3, <1>s, <2>1, <2>2 DEF GuestQuestions
<1>4. CASE Decide(r)
  <2>1. pc' \in [Runs -> [Actors -> Places]]
    BY <1>4, <1>t, GotoType DEF Decide, Places
  <2>2. QED
    BY <1>4, <1>s, <2>1 DEF Decide
<1>5. CASE Answer(r)
  <2>1. pc' \in [Runs -> [Actors -> Places]]
    BY <1>5, <1>s DEF Answer, Places
  <2>2. QED
    BY <1>5, <1>s, <2>1 DEF Answer
<1>6. CASE AskReturns(r)
  <2>1. pc' \in [Runs -> [Actors -> Places]]
    <3>1. "save" \in Places /\ "idle" \in Places
      BY DEF Places
    <3>2. QED
      BY <1>6, <1>t, <3>1, GotoType DEF AskReturns
  <2>2. QED
    BY <1>6, <1>s, <2>1 DEF AskReturns
<1>7. QED
  BY <1>1, <1>2, <1>3, <1>4, <1>5, <1>6 DEF Talk

LEMMA OperationType == TypeInv /\ Operation => TypeInv'
<1> SUFFICES ASSUME TypeInv, Operation PROVE TypeInv'
  OBVIOUS
<1>f. UNCHANGED <<pos, val, again, leftovers>>
  BY DEF Operation
<1>t. TypeOK /\ PresentMeanwhile
  BY DEF TypeInv
<1>s. slip' \in Slips \cup {"none"}
  <2>1. CASE UNCHANGED slip
    BY <2>1, <1>t DEF TypeOK
  <2>2. CASE ResumeFail
    BY <2>2, <1>t, SlipType DEF Slips, ResumeFail
  <2>3. QED
    BY <2>1, <2>2 DEF Operation
<1>d. disk \in States \cup {"absent"} /\ "absent" \notin States
  BY <1>t DEF TypeOK, States
<1> USE <1>f, <1>t, <1>s, <1>d DEF TypeInv, TypeOK, PresentMeanwhile
<1>1. CASE StopBegin
  BY <1>1 DEF StopBegin, Begin
<1>2. CASE RemoveBegin
  BY <1>2 DEF RemoveBegin, Begin
<1>3. CASE ResumeBegin
  BY <1>3 DEF ResumeBegin, Begin
<1>4. CASE StopCancel
  BY <1>4 DEF StopCancel, StepTo
<1>5. CASE StopWait
  BY <1>5 DEF StopWait, StepTo
<1>6. CASE StopDestroy
  BY <1>6 DEF StopDestroy
<1>7. CASE StopFinish
  <2>1. "stopped" \in States
    BY DEF States
  <2>2. QED
    BY <1>7, <2>1 DEF StopFinish, End, States
<1>8. CASE ResumeStart
  BY <1>8 DEF ResumeStart, StepTo, States
<1>9. CASE ResumeLaunch
  <2>1. pc' \in [Runs -> [Actors -> Places]]
    BY <1>9 DEF ResumeLaunch, Places
  <2>2. QED
    BY <1>9, <2>1 DEF ResumeLaunch, End, States
<1>10. CASE \E r \in Runs : ResumeRegister(r)
  BY <1>10 DEF ResumeRegister, StepTo
<1>11. CASE ResumeFail
  <2>1. "starting" \in States
    BY DEF States
  <2>2. QED
    BY <1>11, <2>1 DEF ResumeFail, RemoveRun, End
<1>12. QED
  BY <1>1, <1>2, <1>3, <1>4, <1>5, <1>6, <1>7, <1>8, <1>9, <1>10, <1>11 DEF Operation

LEMMA ProcessType == TypeInv /\ (Restart \/ Leftover \/ Gone) => TypeInv'
<1> SUFFICES ASSUME TypeInv, Restart \/ Leftover \/ Gone PROVE TypeInv'
  OBVIOUS
<1> USE DEF TypeInv, TypeOK, PresentMeanwhile
<1>1. CASE Restart
  <2>1. slip' \in Slips \cup {"none"}
    BY <1>1, SlipType DEF Slips, Restart
  <2>2. /\ pc' \in [Runs -> [Actors -> Places]]
        /\ val' \in [Runs -> [Actors -> States]]
        /\ "stopped" \in States /\ "starting" \in States
    BY <1>1 DEF Restart, Places, States
  <2>3. QED
    BY <1>1, <2>1, <2>2 DEF Restart, Active
<1>2. CASE Leftover
  <2>1. slip' \in Slips \cup {"none"}
    BY <1>2, SlipType DEF Slips, Leftover
  <2>2. QED
    BY ZenonT(60), <1>2, <2>1 DEF Leftover, opVars
<1>3. CASE Gone
  BY <1>3 DEF Gone, vars, opVars
<1>4. QED
  BY <1>1, <1>2, <1>3

LEMMA NextType == TypeInv /\ [Next]_vars => TypeInv'
<1> SUFFICES ASSUME TypeInv, [Next]_vars PROVE TypeInv'
  OBVIOUS
<1>1. CASE UNCHANGED vars
  BY <1>1 DEF TypeInv, TypeOK, PresentMeanwhile, vars, opVars
<1>2. CASE Next
  BY <1>2, WriteType, BootType, TalkType, OperationType, ProcessType DEF Next
<1>3. QED
  BY <1>1, <1>2

\* The variables keep their types.
THEOREM TypeCorrect == Spec => []TypeOK
<1>1. TypeInv => TypeOK
  BY DEF TypeInv
<1>2. QED
  BY <1>1, InitType, NextType, PTL DEF Spec

-----------------------------------------------------------------------------
(* One run at a time. *)

\* A step that starts no boot.
NoNewBoot == \A q \in Runs : /\ Making(q)' => Making(q)
                             /\ pc[q]["boot"] = "idle" => pc'[q]["boot"] = "idle"

\* A step that registers nothing, and that starts no boot, keeps Registration.
LEMMA Frame ==
  ASSUME Registration, UNCHANGED <<run, cancelled, opVars>>, NoNewBoot
  PROVE  Registration'
<1>1. OthersAreCancelled'
  BY DEF Registration, OthersAreCancelled
<1>2. BootIsRegistered'
  BY DEF Registration, BootIsRegistered, NoNewBoot
<1>3. OperationInv'
  BY DEF Registration, OperationInv, opVars, NoNewBoot
<1>4. QED
  BY <1>1, <1>2, <1>3 DEF Registration

\* Goto moves one goroutine; the others stay where they are.
LEMMA GotoFrame ==
  ASSUME TypeOK, NEW r \in Runs, NEW k, NEW f, NEW t, Goto(r, k, f, t),
         f # "idle" \/ k # "boot",
         t \in {"destroy", "create", "prepare", "ready", "failed", "unregister"}
            => Making(r) /\ k = "boot"
  PROVE  NoNewBoot
<1> SUFFICES ASSUME NEW q \in Runs
             PROVE  /\ Making(q)' => Making(q)
                    /\ pc[q]["boot"] = "idle" => pc'[q]["boot"] = "idle"
  BY DEF NoNewBoot
<1>2. /\ pc[r][k] = f /\ k \in Actors /\ "boot" \in Actors
      /\ pc' = [pc EXCEPT ![r][k] = t]
  BY DEF Goto, Actors
<1>3. CASE q = r /\ k = "boot"
  BY <1>2, <1>3 DEF TypeOK, Making, Booting
<1>4. CASE ~(q = r /\ k = "boot")
  <2>1. pc'[q]["boot"] = pc[q]["boot"]
    BY <1>2, <1>4 DEF TypeOK
  <2>2. QED
    BY <2>1 DEF Making, Booting
<1>5. QED
  BY <1>3, <1>4

LEMMA WriteRun == TypeOK /\ Registration /\ (\E r \in Runs : Write(r)) => Registration'
<1> SUFFICES ASSUME TypeOK, Registration, NEW r \in Runs, Write(r) PROVE Registration'
  OBVIOUS
<1>1. UNCHANGED <<run, cancelled, opVars>>
  BY DEF Write
<1>2. PICK k \in Actors, f \in {"advance", "reflect", "cleanup", "save"},
           t \in {"reflect", "cleanup", "save", "advance", "asked", "idle"} :
        Goto(r, k, f, t)
  BY DEF Write, Advance, Reflect, Cleanup, Save, Update, Finish
<1>3. NoNewBoot
  BY <1>2, GotoFrame
<1>4. QED
  BY <1>1, <1>3, Frame

LEMMA TalkRun == TypeOK /\ Registration /\ (\E r \in Runs : Talk(r)) => Registration'
<1> SUFFICES ASSUME TypeOK, Registration, NEW r \in Runs, Talk(r) PROVE Registration'
  OBVIOUS
<1>1. UNCHANGED <<run, cancelled, opVars>>
  BY DEF Talk
<1>2. \A q \in Runs : pc'[q]["boot"] = pc[q]["boot"]
  <2>0. pc \in [Runs -> [Actors -> Places]] /\ "boot" \in Actors
    BY DEF TypeOK, Actors
  <2>1. CASE Kick(r)
    BY <2>0, <2>1 DEF Kick
  <2>2. CASE \E k \in {"ask", "direct"} : \E f, t : Goto(r, k, f, t)
    BY <2>0, <2>2 DEF Goto
  <2>3. CASE Answer(r)
    BY <2>0, <2>3 DEF Answer
  <2>4. QED
    BY <2>1, <2>2, <2>3
       DEF Talk, GuestAsks, GuestReports, GuestQuestions, Decide, AskReturns
<1>3. NoNewBoot
  BY <1>2 DEF NoNewBoot, Making, Booting
<1>4. QED
  BY <1>1, <1>3, Frame

LEMMA BootRun == TypeOK /\ Registration /\ (\E r \in Runs : Boot(r)) => Registration'
<1> SUFFICES ASSUME TypeOK, Registration, NEW r \in Runs, Boot(r) PROVE Registration'
  OBVIOUS
<1>f. UNCHANGED opVars
  BY DEF Boot
<1>1. CASE BootUnregister(r)
  <2>1. /\ run' = NoRun /\ \A q \in Runs : cancelled'[q] = (q = run \/ cancelled[q])
        /\ pc[r]["boot"] = "unregister"
        /\ \A q \in Runs : pc'[q]["boot"] = IF q = r THEN "reap" ELSE pc[q]["boot"]
    BY <1>1 DEF BootUnregister, RemoveRun, BootGoto, Goto, TypeOK
  <2>2. run = r
    BY <2>1 DEF Registration, BootIsRegistered, Making
  <2>3. OthersAreCancelled'
    BY <2>1 DEF Registration, OthersAreCancelled
  <2>4. BootIsRegistered'
    BY <2>1, <2>2 DEF Registration, BootIsRegistered, Making, Booting
  <2>5. OperationInv'
    BY <1>f, <2>1, <2>2 DEF Registration, OperationInv, opVars
  <2>6. QED
    BY <2>3, <2>4, <2>5 DEF Registration
<1>2. CASE BootReap(r)
  <2>1. PICK t \in {"idle", "save"} : Goto(r, "boot", "reap", t)
    BY <1>2 DEF BootReap, BootGoto
  <2>2. NoNewBoot
    BY <2>1, GotoFrame
  <2>3. QED
    BY <1>2, <1>f, <2>2, Frame DEF BootReap
<1>3. CASE BootDestroy(r) \/ BootCreate(r) \/ BootPrepare(r) \/ BootReturn(r)
  <2>1. PICK f \in {"destroy", "create", "prepare", "ready", "failed"},
             t \in {"create", "prepare", "failed", "ready", "idle", "unregister",
                    "save", "advance"} :
          Goto(r, "boot", f, t)
    BY <1>3 DEF BootDestroy, BootCreate, BootPrepare, BootReturn, BootGoto
  <2>2. Making(r)
    BY <2>1 DEF Goto, Making, Booting
  <2>3. NoNewBoot
    BY <2>1, <2>2, GotoFrame
  <2>4. UNCHANGED <<run, cancelled>>
    BY <1>3 DEF BootDestroy, BootCreate, BootPrepare, BootReturn
  <2>5. QED
    BY <1>f, <2>3, <2>4, Frame
<1>4. QED
  BY <1>1, <1>2, <1>3 DEF Boot

LEMMA OperationRun == TypeOK /\ Registration /\ Operation => Registration'
<1> SUFFICES ASSUME TypeOK, Registration, Operation PROVE Registration'
  OBVIOUS
<1>r. NoRun \notin Runs
  BY RunsAssumption
<1>i. OthersAreCancelled /\ BootIsRegistered /\ OperationInv
  BY DEF Registration
<1>b. \A q \in Runs : pc[q]["boot"] = "idle" => ~Making(q)
  BY DEF Making, Booting
<1>m. pc' = pc => \A q \in Runs : Making(q)' <=> Making(q)
  BY DEF Making, Booting
<1> USE <1>r, <1>i, <1>b, <1>m
        DEF Registration, OthersAreCancelled, BootIsRegistered, OperationInv
<1>1. CASE StopBegin
  BY <1>1 DEF StopBegin, Begin
<1>2. CASE RemoveBegin
  BY <1>2 DEF RemoveBegin, Begin
<1>3. CASE ResumeBegin
  BY <1>3 DEF ResumeBegin, Begin
<1>4. CASE StopCancel
  <2>1. \A q \in Runs : cancelled'[q]
    BY <1>4 DEF StopCancel
  <2>2. QED
    BY <1>4, <2>1 DEF StopCancel, StepTo, TypeOK
<1>5. CASE StopWait
  <2>1. \A q \in Runs : cancelled[q] /\ ~Making(q)
    BY <1>5 DEF StopWait, StepTo
  <2>2. QED
    BY <1>5, <2>1 DEF StopWait, StepTo
<1>6. CASE StopDestroy
  BY <1>6 DEF StopDestroy
<1>7. CASE StopFinish
  BY <1>7 DEF StopFinish, End
<1>8. CASE ResumeStart
  BY <1>8 DEF ResumeStart, StepTo
<1>9. CASE ResumeLaunch
  <2>1. step = "launch" /\ run \in Runs
    BY <1>9 DEF ResumeLaunch, End
  <2>2. \A q \in Runs : q # run => ~Making(q)' /\ cancelled'[q]
    BY <1>9, <2>1 DEF ResumeLaunch, TypeOK, Making, Booting
  <2>3. QED
    BY <1>9, <2>2 DEF ResumeLaunch, End
<1>10. CASE \E r \in Runs : ResumeRegister(r)
  <2>1. PICK r \in Runs : ResumeRegister(r)
    BY <1>10
  <2>2. run = NoRun /\ step' = "launch" /\ run' = r /\ pc' = pc
    BY <2>1 DEF ResumeRegister, StepTo
  <2>3. \A q \in Runs : ~Making(q)' /\ (q # r => cancelled'[q])
    BY <2>1, <2>2 DEF ResumeRegister, TypeOK
  <2>4. pc'[r]["boot"] = "idle"
    BY <2>1, <2>2 DEF ResumeRegister, Idle, Actors
  <2>5. QED
    BY <2>2, <2>3, <2>4
<1>11. CASE ResumeFail
  <2>1. \A q \in Runs : ~Making(q)
    BY <1>11 DEF ResumeFail, End
  <2>2. \A q \in Runs : cancelled'[q]
    BY <1>11 DEF ResumeFail, RemoveRun
  <2>3. QED
    BY <1>11, <2>1, <2>2 DEF ResumeFail, End, RemoveRun
<1>12. QED
  BY <1>1, <1>2, <1>3, <1>4, <1>5, <1>6, <1>7, <1>8, <1>9, <1>10, <1>11 DEF Operation

LEMMA ProcessRun == TypeOK /\ Registration /\ (Restart \/ Leftover \/ Gone) => Registration'
<1> SUFFICES ASSUME TypeOK, Registration, Restart \/ Leftover \/ Gone PROVE Registration'
  OBVIOUS
<1>1. CASE Restart
  <2>1. \A q \in Runs : pc'[q]["boot"] = "idle" /\ cancelled'[q]
    BY <1>1 DEF Restart, Actors
  <2>2. \A q \in Runs : ~Making(q)'
    BY <2>1 DEF Making, Booting
  <2>3. QED
    BY <1>1, <2>1, <2>2
       DEF Restart, Registration, OthersAreCancelled, BootIsRegistered, OperationInv
<1>2. CASE UNCHANGED <<pc, run, cancelled, opVars>>
  BY <1>2, Frame DEF NoNewBoot, Making, Booting
<1>3. QED
  BY <1>1, <1>2 DEF Leftover, Gone, vars

LEMMA InitRun == Init => Registration
<1> SUFFICES ASSUME Init PROVE Registration
  OBVIOUS
<1>1. \A q \in Runs : q # run => pc[q]["boot"] = "idle" /\ cancelled[q]
  BY DEF Init, Actors
<1>2. \A q \in Runs : q # run => ~Making(q)
  BY <1>1 DEF Making, Booting
<1>3. QED
  BY <1>1, <1>2
     DEF Init, Registration, OthersAreCancelled, BootIsRegistered, OperationInv

LEMMA NextRun == TypeOK /\ Registration /\ [Next]_vars => Registration'
<1> SUFFICES ASSUME TypeOK, Registration, [Next]_vars PROVE Registration'
  OBVIOUS
<1>1. CASE UNCHANGED vars
  BY <1>1, Frame DEF NoNewBoot, Making, Booting, vars
<1>2. CASE Next
  BY <1>2, WriteRun, BootRun, TalkRun, OperationRun, ProcessRun DEF Next
<1>3. QED
  BY <1>1, <1>2

LEMMA RunInvImplies == Registration => OneRunAtATime
BY DEF Registration, OthersAreCancelled, BootIsRegistered, Making, OneRunAtATime

\* What lifeMu, the wait for bootDone and the order in stopRun achieve together:
\* every boot that makes a VM is the boot of the registered run.
THEOREM RunInvariant == Spec => []RunInv
<1>1. Init => TypeInv /\ Registration
  BY InitType, InitRun
<1>2. TypeInv /\ Registration /\ [Next]_vars => (TypeInv /\ Registration)'
  BY NextType, NextRun DEF TypeInv
<1>3. TypeInv /\ Registration => RunInv
  BY DEF TypeInv, RunInv
<1>4. QED
  BY <1>1, <1>2, <1>3, PTL DEF Spec

\* Goroutines of other runs are told to stop, and one boot at a time makes a VM,
\* however many runs are still alive in some goroutine.
THEOREM OneRun == Spec => []OneRunAtATime
<1>1. RunInv => OneRunAtATime
  BY RunInvImplies DEF RunInv
<1>2. QED
  BY <1>1, RunInvariant, PTL

-----------------------------------------------------------------------------
(* The state and the VM.  AgreeInv (LifecycleInv) is the invariant; each of *)
(* its parts has a lemma with a step for every action.                      *)

\* What the actions of a group have in common.
WriteKeeps == UNCHANGED <<run, cancelled, fresh, opVars, leftovers>>
BootKeeps == UNCHANGED <<pos, again, opVars, leftovers>>
TalkKeeps == UNCHANGED <<disk, run, vm, cancelled, fresh, opVars, leftovers, slip>>
OperationKeeps == UNCHANGED <<pos, val, again, leftovers>>

LEMMA KickOne ==
  ASSUME TypeOK, NEW r \in Runs, Kick(r)
  PROVE  /\ "loop" \in Actors /\ pc'[r]["loop"] \in {"advance", pc[r]["loop"]}
         /\ pc[r]["loop"] # "idle" => pc'[r]["loop"] = pc[r]["loop"]
         /\ \A q \in Runs, j \in Actors : q # r \/ j # "loop" => pc'[q][j] = pc[q][j]
BY DEF TypeOK, Kick, Actors

-----------------------------------------------------------------------------
(* The parts of AgreeInv, with a step for every action. *)

\* A goroutine decides what to write in front of its write, and forgets it after.
LEMMA ValStep ==
  ASSUME TypeOK, Registration, ValInv, [Next]_vars
  PROVE  ValInv'
<1> USE RunsAssumption DEF TypeOK, Actors, opVars, WriteKeeps, BootKeeps, TalkKeeps,
         OperationKeeps, Registration, OperationInv, ValInv, StateOf
<1>1. ASSUME NEW r \in Runs, NEW k \in Actors, Advance(r, k), WriteKeeps PROVE ValInv'
  BY <1>1 DEF Advance, Goto
<1>2. ASSUME NEW r \in Runs, NEW k \in Actors, Reflect(r, k), WriteKeeps PROVE ValInv'
  BY <1>2 DEF Reflect, Goto, Finish, Update
<1>3. ASSUME NEW r \in Runs, NEW k \in Actors, Cleanup(r, k), WriteKeeps PROVE ValInv'
  BY <1>3 DEF Cleanup, Goto, Finish, Update, Slip, SlipIf
<1>4. ASSUME NEW r \in Runs, NEW k \in Actors, Save(r, k), WriteKeeps PROVE ValInv'
  BY <1>4 DEF Save, Goto, Finish, Slip, SlipIf
<1>5. ASSUME NEW r \in Runs, BootDestroy(r), BootKeeps PROVE ValInv'
  BY <1>5 DEF BootDestroy, BootGoto, Goto
<1>6. ASSUME NEW r \in Runs, BootCreate(r), BootKeeps PROVE ValInv'
  BY <1>6 DEF BootCreate, BootGoto, Goto
<1>7. ASSUME NEW r \in Runs, BootPrepare(r), BootKeeps PROVE ValInv'
  BY <1>7 DEF BootPrepare, BootGoto, Goto
<1>8. ASSUME NEW r \in Runs, BootReturn(r), BootKeeps PROVE ValInv'
  <2>1. PICK f \in {"ready", "failed"}, t \in {"idle", "unregister", "save", "advance"} : Goto(r, "boot", f, t)
    BY <1>8 DEF BootReturn, BootGoto
  <2>2. /\ pc[r]["boot"] = f /\ pc'[r]["boot"] = t
        /\ \A q \in Runs, j \in Actors : q # r \/ j # "boot" => pc'[q][j] = pc[q][j]
    BY <2>1 DEF Goto
  <2>3. UNCHANGED <<val, vm, run>>
    BY <1>8 DEF BootReturn
  <2>4. val[r]["boot"] = "running"
    BY <2>2
  <2>5. pc'[r]["boot"] # "cleanup"
    BY <2>2
  <2>6. \A q \in Runs, j \in Actors : pc'[q][j] = "cleanup" => pc[q][j] = "cleanup"
    BY <2>2
  <2>7. \A q \in Runs, j \in Actors :
           pc'[q][j] \notin {"reflect", "cleanup", "save"} => val'[q][j] = "running"
    <3> SUFFICES ASSUME NEW q \in Runs, NEW j \in Actors, pc'[q][j] \notin {"reflect", "cleanup", "save"}
                 PROVE  val[q][j] = "running"
      BY <2>3
    <3>1. CASE q = r /\ j = "boot"
      BY <2>4, <3>1
    <3>2. CASE q # r \/ j # "boot"
      BY <2>2, <3>2
    <3> QED
      BY <3>1, <3>2
  <2> QED
    BY <2>3, <2>6, <2>7
<1>9. ASSUME NEW r \in Runs, BootUnregister(r), BootKeeps PROVE ValInv'
  BY <1>9 DEF BootUnregister, BootGoto, Goto, RemoveRun
<1>10. ASSUME NEW r \in Runs, BootReap(r), BootKeeps PROVE ValInv'
  BY <1>10 DEF BootReap, BootGoto, Goto, Slip, SlipIf
<1>11. ASSUME NEW r \in Runs, GuestAsks(r), TalkKeeps PROVE ValInv'
  <2>1. /\ "loop" \in Actors /\ pc'[r]["loop"] \in {"advance", pc[r]["loop"]}
        /\ pc[r]["loop"] # "idle" => pc'[r]["loop"] = pc[r]["loop"]
        /\ \A q \in Runs, j \in Actors : q # r \/ j # "loop" => pc'[q][j] = pc[q][j]
    BY <1>11, KickOne DEF GuestAsks
  <2>2. UNCHANGED <<val, pos>>
    BY <1>11 DEF GuestAsks
  <2> QED
    BY <1>11, <2>1, <2>2
<1>12. ASSUME NEW r \in Runs, GuestReports(r), TalkKeeps PROVE ValInv'
  BY <1>12 DEF GuestReports, Kick
<1>13. ASSUME NEW r \in Runs, GuestQuestions(r), TalkKeeps PROVE ValInv'
  BY <1>13 DEF GuestQuestions, Goto
<1>14. ASSUME NEW r \in Runs, Decide(r), TalkKeeps PROVE ValInv'
  BY <1>14 DEF Decide, Goto
<1>15. ASSUME NEW r \in Runs, Answer(r), TalkKeeps PROVE ValInv'
  BY <1>15 DEF Answer
<1>16. ASSUME NEW r \in Runs, AskReturns(r), TalkKeeps PROVE ValInv'
  <2>1. PICK f \in {"answered", "asked"}, t \in {"save", "idle"} : Goto(r, "ask", f, t)
    BY <1>16 DEF AskReturns
  <2>2. /\ "ask" \in Actors /\ pc[r]["ask"] = f /\ pc'[r]["ask"] = t
        /\ \A q \in Runs, j \in Actors : q # r \/ j # "ask" => pc'[q][j] = pc[q][j]
    BY <2>1 DEF Goto
  <2>3. UNCHANGED <<val, pos>>
    BY <1>16 DEF AskReturns
  <2>4. val[r]["ask"] = "running"
    BY <2>2
  <2>5. \A q \in Runs, j \in Actors : pc'[q][j] = "cleanup" => pc[q][j] = "cleanup"
    BY <2>2
  <2>6. \A q \in Runs, j \in Actors :
           pc'[q][j] \notin {"reflect", "cleanup", "save"} => val'[q][j] = "running"
    <3> SUFFICES ASSUME NEW q \in Runs, NEW j \in Actors, pc'[q][j] \notin {"reflect", "cleanup", "save"}
                 PROVE  val[q][j] = "running"
      BY <2>3
    <3>1. CASE q = r /\ j = "ask"
      BY <2>4, <3>1
    <3>2. CASE q # r \/ j # "ask"
      BY <2>2, <3>2
    <3> QED
      BY <3>1, <3>2
  <2> QED
    BY <2>3, <2>5, <2>6
<1>17. ASSUME StopBegin, OperationKeeps, UNCHANGED slip PROVE ValInv'
  BY <1>17 DEF StopBegin, Begin
<1>18. ASSUME RemoveBegin, OperationKeeps, UNCHANGED slip PROVE ValInv'
  BY <1>18 DEF RemoveBegin, Begin
<1>19. ASSUME ResumeBegin, OperationKeeps, UNCHANGED slip PROVE ValInv'
  BY <1>19 DEF ResumeBegin, Begin
<1>20. ASSUME StopCancel, OperationKeeps, UNCHANGED slip PROVE ValInv'
  BY <1>20 DEF StopCancel, StepTo
<1>21. ASSUME StopWait, OperationKeeps, UNCHANGED slip PROVE ValInv'
  BY <1>21 DEF StopWait, StepTo
<1>22. ASSUME StopDestroy, OperationKeeps, UNCHANGED slip PROVE ValInv'
  BY <1>22 DEF StopDestroy
<1>23. ASSUME StopFinish, OperationKeeps, UNCHANGED slip PROVE ValInv'
  BY <1>23 DEF StopFinish, End
<1>24. ASSUME ResumeStart, OperationKeeps, UNCHANGED slip PROVE ValInv'
  BY <1>24 DEF ResumeStart, StepTo
<1>25. ASSUME ResumeLaunch, OperationKeeps, UNCHANGED slip PROVE ValInv'
  <2>1. \A q \in Runs, j \in Actors : pc'[q][j] \in {pc[q][j], "destroy"}
    BY <1>25 DEF ResumeLaunch
  <2>2. \A q \in Runs, j \in Actors : pc'[q][j] = "cleanup" => pc[q][j] = "cleanup"
    BY <2>1
  <2>3. step = "launch" /\ run \in Runs /\ pc[run]["boot"] = "idle"
    BY <1>25 DEF ResumeLaunch, End
  <2>4. \A q \in Runs, j \in Actors : (q = run /\ j = "boot") \/ pc'[q][j] = pc[q][j]
    BY <1>25, <2>3 DEF ResumeLaunch
  <2>5. val' = val
    BY <1>25
  <2> QED
    BY <1>25, <2>2, <2>3, <2>4, <2>5
<1>26. ASSUME NEW r \in Runs, ResumeRegister(r), OperationKeeps, UNCHANGED slip PROVE ValInv'
  BY <1>26 DEF ResumeRegister, StepTo, Idle
<1>27. ASSUME ResumeFail, OperationKeeps PROVE ValInv'
  BY <1>27 DEF ResumeFail, End, RemoveRun, Slip, SlipIf
<1>28. ASSUME Restart PROVE ValInv'
  BY <1>28 DEF Restart, Slip, SlipIf
<1>29. ASSUME Leftover PROVE ValInv'
  BY <1>29 DEF Leftover, Slip, SlipIf
<1>30. ASSUME Gone PROVE ValInv'
  BY <1>30 DEF Gone, vars
<1>31. CASE UNCHANGED vars
  BY <1>31 DEF vars
<1> QED
  BY <1>1, <1>2, <1>3, <1>4, <1>5, <1>6, <1>7, <1>8, <1>9, <1>10, <1>11, <1>12,
     <1>13, <1>14, <1>15, <1>16, <1>17, <1>18, <1>19, <1>20, <1>21, <1>22, <1>23, <1>24,
     <1>25, <1>26, <1>27, <1>28, <1>29, <1>30, <1>31
     DEF Next, Write, Boot, Talk, Operation

\* The engine does not leave DONE or BLOCKED.
LEMMA FinalStep ==
  ASSUME TypeOK, ValInv, FinalInv, [Next]_vars
  PROVE  FinalInv'
<1> USE RunsAssumption DEF TypeOK, Actors, opVars, WriteKeeps, BootKeeps, TalkKeeps,
         OperationKeeps, ValInv, FinalInv, StateOf
<1>1. ASSUME NEW r \in Runs, NEW k \in Actors, Advance(r, k), WriteKeeps PROVE FinalInv'
  BY <1>1 DEF Advance, Goto
<1>2. ASSUME NEW r \in Runs, NEW k \in Actors, Reflect(r, k), WriteKeeps PROVE FinalInv'
  BY <1>2 DEF Reflect, Goto, Finish, Update
<1>3. ASSUME NEW r \in Runs, NEW k \in Actors, Cleanup(r, k), WriteKeeps PROVE FinalInv'
  <2>1. \A q \in Runs, j \in Actors : val'[q][j] \in {val[q][j], "running"}
    BY <1>3 DEF Cleanup, Update, Goto, Finish
  <2> QED
    BY SMTT(30), <1>3, <2>1 DEF Cleanup
<1>4. ASSUME NEW r \in Runs, NEW k \in Actors, Save(r, k), WriteKeeps PROVE FinalInv'
  BY <1>4 DEF Save, Goto, Finish, Slip, SlipIf
<1>5. ASSUME NEW r \in Runs, BootDestroy(r), BootKeeps PROVE FinalInv'
  BY <1>5 DEF BootDestroy, BootGoto, Goto
<1>6. ASSUME NEW r \in Runs, BootCreate(r), BootKeeps PROVE FinalInv'
  BY <1>6 DEF BootCreate, BootGoto, Goto
<1>7. ASSUME NEW r \in Runs, BootPrepare(r), BootKeeps PROVE FinalInv'
  BY <1>7 DEF BootPrepare, BootGoto, Goto
<1>8. ASSUME NEW r \in Runs, BootReturn(r), BootKeeps PROVE FinalInv'
  BY <1>8 DEF BootReturn, BootGoto, Goto
<1>9. ASSUME NEW r \in Runs, BootUnregister(r), BootKeeps PROVE FinalInv'
  BY <1>9 DEF BootUnregister, BootGoto, Goto, RemoveRun
<1>10. ASSUME NEW r \in Runs, BootReap(r), BootKeeps PROVE FinalInv'
  BY <1>10 DEF BootReap, BootGoto, Goto, Slip, SlipIf
<1>11. ASSUME NEW r \in Runs, GuestAsks(r), TalkKeeps PROVE FinalInv'
  BY <1>11 DEF GuestAsks, Kick
<1>12. ASSUME NEW r \in Runs, GuestReports(r), TalkKeeps PROVE FinalInv'
  BY <1>12 DEF GuestReports, Kick
<1>13. ASSUME NEW r \in Runs, GuestQuestions(r), TalkKeeps PROVE FinalInv'
  BY <1>13 DEF GuestQuestions, Goto
<1>14. ASSUME NEW r \in Runs, Decide(r), TalkKeeps PROVE FinalInv'
  BY <1>14 DEF Decide, Goto
<1>15. ASSUME NEW r \in Runs, Answer(r), TalkKeeps PROVE FinalInv'
  BY <1>15 DEF Answer
<1>16. ASSUME NEW r \in Runs, AskReturns(r), TalkKeeps PROVE FinalInv'
  BY <1>16 DEF AskReturns, Goto
<1>17. ASSUME StopBegin, OperationKeeps, UNCHANGED slip PROVE FinalInv'
  BY <1>17 DEF StopBegin, Begin
<1>18. ASSUME RemoveBegin, OperationKeeps, UNCHANGED slip PROVE FinalInv'
  BY <1>18 DEF RemoveBegin, Begin
<1>19. ASSUME ResumeBegin, OperationKeeps, UNCHANGED slip PROVE FinalInv'
  BY <1>19 DEF ResumeBegin, Begin
<1>20. ASSUME StopCancel, OperationKeeps, UNCHANGED slip PROVE FinalInv'
  BY <1>20 DEF StopCancel, StepTo
<1>21. ASSUME StopWait, OperationKeeps, UNCHANGED slip PROVE FinalInv'
  BY <1>21 DEF StopWait, StepTo
<1>22. ASSUME StopDestroy, OperationKeeps, UNCHANGED slip PROVE FinalInv'
  BY <1>22 DEF StopDestroy
<1>23. ASSUME StopFinish, OperationKeeps, UNCHANGED slip PROVE FinalInv'
  BY <1>23 DEF StopFinish, End
<1>24. ASSUME ResumeStart, OperationKeeps, UNCHANGED slip PROVE FinalInv'
  BY <1>24 DEF ResumeStart, StepTo
<1>25. ASSUME ResumeLaunch, OperationKeeps, UNCHANGED slip PROVE FinalInv'
  BY <1>25 DEF ResumeLaunch, End
<1>26. ASSUME NEW r \in Runs, ResumeRegister(r), OperationKeeps, UNCHANGED slip PROVE FinalInv'
  BY <1>26 DEF ResumeRegister, StepTo, Idle
<1>27. ASSUME ResumeFail, OperationKeeps PROVE FinalInv'
  BY <1>27 DEF ResumeFail, End, RemoveRun, Slip, SlipIf
<1>28. ASSUME Restart PROVE FinalInv'
  BY <1>28 DEF Restart, Slip, SlipIf
<1>29. ASSUME Leftover PROVE FinalInv'
  BY <1>29 DEF Leftover, Slip, SlipIf
<1>30. ASSUME Gone PROVE FinalInv'
  BY <1>30 DEF Gone, vars
<1>31. CASE UNCHANGED vars
  BY <1>31 DEF vars
<1> QED
  BY <1>1, <1>2, <1>3, <1>4, <1>5, <1>6, <1>7, <1>8, <1>9, <1>10, <1>11, <1>12,
     <1>13, <1>14, <1>15, <1>16, <1>17, <1>18, <1>19, <1>20, <1>21, <1>22, <1>23, <1>24,
     <1>25, <1>26, <1>27, <1>28, <1>29, <1>30, <1>31
     DEF Next, Write, Boot, Talk, Operation

\* A run is taken away from its boot by nobody else.
LEMMA BootStep ==
  ASSUME TypeOK, Registration, StepInv, ValInv, BootInv, [Next]_vars
  PROVE  BootInv'
<1> USE RunsAssumption DEF TypeOK, Actors, opVars, WriteKeeps, BootKeeps, TalkKeeps,
         OperationKeeps, Registration, OperationInv, OthersAreCancelled, BootInv, StepInv
<1>1. ASSUME NEW r \in Runs, NEW k \in Actors, Advance(r, k), WriteKeeps PROVE BootInv'
  BY <1>1 DEF Advance, Goto
<1>2. ASSUME NEW r \in Runs, NEW k \in Actors, Reflect(r, k), WriteKeeps PROVE BootInv'
  BY <1>2 DEF Reflect, Goto, Finish, Update
<1>3. ASSUME NEW r \in Runs, NEW k \in Actors, Cleanup(r, k), WriteKeeps PROVE BootInv'
  BY <1>3 DEF Cleanup, Goto, Finish, Update, Slip, SlipIf
<1>4. ASSUME NEW r \in Runs, NEW k \in Actors, Save(r, k), WriteKeeps PROVE BootInv'
  BY <1>4 DEF Save, Goto, Finish, Slip, SlipIf
<1>5. ASSUME NEW r \in Runs, BootDestroy(r), BootKeeps PROVE BootInv'
  BY <1>5 DEF BootDestroy, BootGoto, Goto
<1>6. ASSUME NEW r \in Runs, BootCreate(r), BootKeeps PROVE BootInv'
  BY <1>6 DEF BootCreate, BootGoto, Goto
<1>7. ASSUME NEW r \in Runs, BootPrepare(r), BootKeeps PROVE BootInv'
  BY <1>7 DEF BootPrepare, BootGoto, Goto
<1>8. ASSUME NEW r \in Runs, BootReturn(r), BootKeeps PROVE BootInv'
  BY <1>8 DEF BootReturn, BootGoto, Goto
<1>9. ASSUME NEW r \in Runs, BootUnregister(r), BootKeeps PROVE BootInv'
  BY <1>9 DEF BootUnregister, BootGoto, Goto, RemoveRun
<1>10. ASSUME NEW r \in Runs, BootReap(r), BootKeeps PROVE BootInv'
  BY <1>10 DEF BootReap, BootGoto, Goto, Slip, SlipIf
<1>11. ASSUME NEW r \in Runs, GuestAsks(r), TalkKeeps PROVE BootInv'
  BY <1>11 DEF GuestAsks, Kick
<1>12. ASSUME NEW r \in Runs, GuestReports(r), TalkKeeps PROVE BootInv'
  BY <1>12 DEF GuestReports, Kick
<1>13. ASSUME NEW r \in Runs, GuestQuestions(r), TalkKeeps PROVE BootInv'
  BY <1>13 DEF GuestQuestions, Goto
<1>14. ASSUME NEW r \in Runs, Decide(r), TalkKeeps PROVE BootInv'
  BY <1>14 DEF Decide, Goto
<1>15. ASSUME NEW r \in Runs, Answer(r), TalkKeeps PROVE BootInv'
  BY <1>15 DEF Answer
<1>16. ASSUME NEW r \in Runs, AskReturns(r), TalkKeeps PROVE BootInv'
  <2>1. PICK f \in {"answered", "asked"}, t \in {"save", "idle"} : Goto(r, "ask", f, t)
    BY <1>16 DEF AskReturns
  <2>2. /\ "ask" \in Actors /\ pc[r]["ask"] = f /\ pc'[r]["ask"] = t
        /\ \A q \in Runs, j \in Actors : q # r \/ j # "ask" => pc'[q][j] = pc[q][j]
    BY <2>1 DEF Goto
  <2>3. UNCHANGED <<val, pos>>
    BY <1>16 DEF AskReturns
  <2> QED
    BY <1>16, <2>2, <2>3
<1>17. ASSUME StopBegin, OperationKeeps, UNCHANGED slip PROVE BootInv'
  BY <1>17 DEF StopBegin, Begin
<1>18. ASSUME RemoveBegin, OperationKeeps, UNCHANGED slip PROVE BootInv'
  BY <1>18 DEF RemoveBegin, Begin
<1>19. ASSUME ResumeBegin, OperationKeeps, UNCHANGED slip PROVE BootInv'
  BY <1>19 DEF ResumeBegin, Begin
<1>20. ASSUME StopCancel, OperationKeeps, UNCHANGED slip PROVE BootInv'
  BY <1>20 DEF StopCancel, StepTo
<1>21. ASSUME StopWait, OperationKeeps, UNCHANGED slip PROVE BootInv'
  BY <1>21 DEF StopWait, StepTo
<1>22. ASSUME StopDestroy, OperationKeeps, UNCHANGED slip PROVE BootInv'
  BY <1>22 DEF StopDestroy
<1>23. ASSUME StopFinish, OperationKeeps, UNCHANGED slip PROVE BootInv'
  BY <1>23 DEF StopFinish, End
<1>24. ASSUME ResumeStart, OperationKeeps, UNCHANGED slip PROVE BootInv'
  BY <1>24 DEF ResumeStart, StepTo
<1>25. ASSUME ResumeLaunch, OperationKeeps, UNCHANGED slip PROVE BootInv'
  BY <1>25 DEF ResumeLaunch, End
<1>26. ASSUME NEW r \in Runs, ResumeRegister(r), OperationKeeps, UNCHANGED slip PROVE BootInv'
  BY <1>26 DEF ResumeRegister, StepTo, Idle
<1>27. ASSUME ResumeFail, OperationKeeps PROVE BootInv'
  BY <1>27 DEF ResumeFail, End, RemoveRun, Slip, SlipIf
<1>28. ASSUME Restart PROVE BootInv'
  BY <1>28 DEF Restart, Slip, SlipIf
<1>29. ASSUME Leftover PROVE BootInv'
  BY <1>29 DEF Leftover, Slip, SlipIf
<1>30. ASSUME Gone PROVE BootInv'
  BY <1>30 DEF Gone, vars
<1>31. CASE UNCHANGED vars
  BY <1>31 DEF vars
<1> QED
  BY <1>1, <1>2, <1>3, <1>4, <1>5, <1>6, <1>7, <1>8, <1>9, <1>10, <1>11, <1>12,
     <1>13, <1>14, <1>15, <1>16, <1>17, <1>18, <1>19, <1>20, <1>21, <1>22, <1>23, <1>24,
     <1>25, <1>26, <1>27, <1>28, <1>29, <1>30, <1>31
     DEF Next, Write, Boot, Talk, Operation

\* The loop's write is over before its run is taken away.
LEMMA LoopStep ==
  ASSUME TypeOK, Registration, StepInv, NewVMInv, BootInv, LoopInv, [Next]_vars
  PROVE  LoopInv'
<1> USE RunsAssumption DEF TypeOK, Actors, opVars, WriteKeeps, BootKeeps, TalkKeeps,
         OperationKeeps, Registration, OperationInv, OthersAreCancelled, BootInv, StepInv,
         NewVMInv, LoopInv, Connected
<1>1. ASSUME NEW r \in Runs, NEW k \in Actors, Advance(r, k), WriteKeeps PROVE LoopInv'
  BY <1>1 DEF Advance, Goto
<1>2. ASSUME NEW r \in Runs, NEW k \in Actors, Reflect(r, k), WriteKeeps PROVE LoopInv'
  BY <1>2 DEF Reflect, Goto, Finish, Update
<1>3. ASSUME NEW r \in Runs, NEW k \in Actors, Cleanup(r, k), WriteKeeps PROVE LoopInv'
  BY <1>3 DEF Cleanup, Goto, Finish, Update, Slip, SlipIf
<1>4. ASSUME NEW r \in Runs, NEW k \in Actors, Save(r, k), WriteKeeps PROVE LoopInv'
  BY <1>4 DEF Save, Goto, Finish, Slip, SlipIf
<1>5. ASSUME NEW r \in Runs, BootDestroy(r), BootKeeps PROVE LoopInv'
  BY <1>5 DEF BootDestroy, BootGoto, Goto
<1>6. ASSUME NEW r \in Runs, BootCreate(r), BootKeeps PROVE LoopInv'
  BY <1>6 DEF BootCreate, BootGoto, Goto
<1>7. ASSUME NEW r \in Runs, BootPrepare(r), BootKeeps PROVE LoopInv'
  BY <1>7 DEF BootPrepare, BootGoto, Goto
<1>8. ASSUME NEW r \in Runs, BootReturn(r), BootKeeps PROVE LoopInv'
  BY <1>8 DEF BootReturn, BootGoto, Goto
<1>9. ASSUME NEW r \in Runs, BootUnregister(r), BootKeeps PROVE LoopInv'
  BY <1>9 DEF BootUnregister, BootGoto, Goto, RemoveRun
<1>10. ASSUME NEW r \in Runs, BootReap(r), BootKeeps PROVE LoopInv'
  BY <1>10 DEF BootReap, BootGoto, Goto, Slip, SlipIf
<1>11. ASSUME NEW r \in Runs, GuestAsks(r), TalkKeeps PROVE LoopInv'
  BY <1>11 DEF GuestAsks, Kick
<1>12. ASSUME NEW r \in Runs, GuestReports(r), TalkKeeps PROVE LoopInv'
  BY <1>12 DEF GuestReports, Kick
<1>13. ASSUME NEW r \in Runs, GuestQuestions(r), TalkKeeps PROVE LoopInv'
  BY <1>13 DEF GuestQuestions, Goto
<1>14. ASSUME NEW r \in Runs, Decide(r), TalkKeeps PROVE LoopInv'
  BY <1>14 DEF Decide, Goto
<1>15. ASSUME NEW r \in Runs, Answer(r), TalkKeeps PROVE LoopInv'
  BY <1>15 DEF Answer
<1>16. ASSUME NEW r \in Runs, AskReturns(r), TalkKeeps PROVE LoopInv'
  <2>1. PICK f \in {"answered", "asked"}, t \in {"save", "idle"} : Goto(r, "ask", f, t)
    BY <1>16 DEF AskReturns
  <2>2. /\ "ask" \in Actors /\ pc[r]["ask"] = f /\ pc'[r]["ask"] = t
        /\ \A q \in Runs, j \in Actors : q # r \/ j # "ask" => pc'[q][j] = pc[q][j]
    BY <2>1 DEF Goto
  <2>3. UNCHANGED <<val, pos>>
    BY <1>16 DEF AskReturns
  <2> QED
    BY SMTT(30), <1>16, <2>2, <2>3
<1>17. ASSUME StopBegin, OperationKeeps, UNCHANGED slip PROVE LoopInv'
  BY <1>17 DEF StopBegin, Begin
<1>18. ASSUME RemoveBegin, OperationKeeps, UNCHANGED slip PROVE LoopInv'
  BY <1>18 DEF RemoveBegin, Begin
<1>19. ASSUME ResumeBegin, OperationKeeps, UNCHANGED slip PROVE LoopInv'
  BY <1>19 DEF ResumeBegin, Begin
<1>20. ASSUME StopCancel, OperationKeeps, UNCHANGED slip PROVE LoopInv'
  BY <1>20 DEF StopCancel, StepTo
<1>21. ASSUME StopWait, OperationKeeps, UNCHANGED slip PROVE LoopInv'
  BY <1>21 DEF StopWait, StepTo
<1>22. ASSUME StopDestroy, OperationKeeps, UNCHANGED slip PROVE LoopInv'
  BY <1>22 DEF StopDestroy
<1>23. ASSUME StopFinish, OperationKeeps, UNCHANGED slip PROVE LoopInv'
  BY <1>23 DEF StopFinish, End
<1>24. ASSUME ResumeStart, OperationKeeps, UNCHANGED slip PROVE LoopInv'
  BY <1>24 DEF ResumeStart, StepTo
<1>25. ASSUME ResumeLaunch, OperationKeeps, UNCHANGED slip PROVE LoopInv'
  BY <1>25 DEF ResumeLaunch, End
<1>26. ASSUME NEW r \in Runs, ResumeRegister(r), OperationKeeps, UNCHANGED slip PROVE LoopInv'
  BY <1>26 DEF ResumeRegister, StepTo, Idle
<1>27. ASSUME ResumeFail, OperationKeeps PROVE LoopInv'
  BY <1>27 DEF ResumeFail, End, RemoveRun, Slip, SlipIf
<1>28. ASSUME Restart PROVE LoopInv'
  BY <1>28 DEF Restart, Slip, SlipIf
<1>29. ASSUME Leftover PROVE LoopInv'
  BY <1>29 DEF Leftover, Slip, SlipIf
<1>30. ASSUME Gone PROVE LoopInv'
  BY <1>30 DEF Gone, vars
<1>31. CASE UNCHANGED vars
  BY <1>31 DEF vars
<1> QED
  BY <1>1, <1>2, <1>3, <1>4, <1>5, <1>6, <1>7, <1>8, <1>9, <1>10, <1>11, <1>12,
     <1>13, <1>14, <1>15, <1>16, <1>17, <1>18, <1>19, <1>20, <1>21, <1>22, <1>23, <1>24,
     <1>25, <1>26, <1>27, <1>28, <1>29, <1>30, <1>31
     DEF Next, Write, Boot, Talk, Operation

\* Registered is what Resume registers, from STARTING on.
LEMMA StepStep ==
  ASSUME TypeOK, Registration, PresentMeanwhile, ValInv, BootInv, StepInv, [Next]_vars
  PROVE  StepInv'
<1> USE RunsAssumption DEF TypeOK, Actors, opVars, WriteKeeps, BootKeeps, TalkKeeps,
         OperationKeeps, Registration, OperationInv, OthersAreCancelled, PresentMeanwhile,
         ValInv, BootInv, StepInv, Active
<1>1. ASSUME NEW r \in Runs, NEW k \in Actors, Advance(r, k), WriteKeeps PROVE StepInv'
  BY <1>1 DEF Advance, Goto
<1>2. ASSUME NEW r \in Runs, NEW k \in Actors, Reflect(r, k), WriteKeeps PROVE StepInv'
  BY <1>2 DEF Reflect, Goto, Finish, Update
<1>3. ASSUME NEW r \in Runs, NEW k \in Actors, Cleanup(r, k), WriteKeeps PROVE StepInv'
  BY <1>3 DEF Cleanup, Goto, Finish, Update, Slip, SlipIf
<1>4. ASSUME NEW r \in Runs, NEW k \in Actors, Save(r, k), WriteKeeps PROVE StepInv'
  <2>1. disk' \in States /\ disk' # "stopped"
    BY <1>4 DEF Save, Finish, Goto
  <2> QED
    BY <1>4, <2>1 DEF Save, States
<1>5. ASSUME NEW r \in Runs, BootDestroy(r), BootKeeps PROVE StepInv'
  BY <1>5 DEF BootDestroy, BootGoto, Goto
<1>6. ASSUME NEW r \in Runs, BootCreate(r), BootKeeps PROVE StepInv'
  BY <1>6 DEF BootCreate, BootGoto, Goto
<1>7. ASSUME NEW r \in Runs, BootPrepare(r), BootKeeps PROVE StepInv'
  BY <1>7 DEF BootPrepare, BootGoto, Goto
<1>8. ASSUME NEW r \in Runs, BootReturn(r), BootKeeps PROVE StepInv'
  BY <1>8 DEF BootReturn, BootGoto, Goto
<1>9. ASSUME NEW r \in Runs, BootUnregister(r), BootKeeps PROVE StepInv'
  BY <1>9 DEF BootUnregister, BootGoto, Goto, RemoveRun
<1>10. ASSUME NEW r \in Runs, BootReap(r), BootKeeps PROVE StepInv'
  BY <1>10 DEF BootReap, BootGoto, Goto, Slip, SlipIf
<1>11. ASSUME NEW r \in Runs, GuestAsks(r), TalkKeeps PROVE StepInv'
  BY <1>11 DEF GuestAsks, Kick
<1>12. ASSUME NEW r \in Runs, GuestReports(r), TalkKeeps PROVE StepInv'
  BY <1>12 DEF GuestReports, Kick
<1>13. ASSUME NEW r \in Runs, GuestQuestions(r), TalkKeeps PROVE StepInv'
  BY <1>13 DEF GuestQuestions, Goto
<1>14. ASSUME NEW r \in Runs, Decide(r), TalkKeeps PROVE StepInv'
  BY <1>14 DEF Decide, Goto
<1>15. ASSUME NEW r \in Runs, Answer(r), TalkKeeps PROVE StepInv'
  BY <1>15 DEF Answer
<1>16. ASSUME NEW r \in Runs, AskReturns(r), TalkKeeps PROVE StepInv'
  BY <1>16 DEF AskReturns, Goto
<1>17. ASSUME StopBegin, OperationKeeps, UNCHANGED slip PROVE StepInv'
  BY <1>17 DEF StopBegin, Begin
<1>18. ASSUME RemoveBegin, OperationKeeps, UNCHANGED slip PROVE StepInv'
  BY <1>18 DEF RemoveBegin, Begin
<1>19. ASSUME ResumeBegin, OperationKeeps, UNCHANGED slip PROVE StepInv'
  BY <1>19 DEF ResumeBegin, Begin
<1>20. ASSUME StopCancel, OperationKeeps, UNCHANGED slip PROVE StepInv'
  BY <1>20 DEF StopCancel, StepTo
<1>21. ASSUME StopWait, OperationKeeps, UNCHANGED slip PROVE StepInv'
  BY <1>21 DEF StopWait, StepTo
<1>22. ASSUME StopDestroy, OperationKeeps, UNCHANGED slip PROVE StepInv'
  BY <1>22 DEF StopDestroy
<1>23. ASSUME StopFinish, OperationKeeps, UNCHANGED slip PROVE StepInv'
  BY <1>23 DEF StopFinish, End
<1>24. ASSUME ResumeStart, OperationKeeps, UNCHANGED slip PROVE StepInv'
  BY <1>24 DEF ResumeStart, StepTo
<1>25. ASSUME ResumeLaunch, OperationKeeps, UNCHANGED slip PROVE StepInv'
  BY <1>25 DEF ResumeLaunch, End
<1>26. ASSUME NEW r \in Runs, ResumeRegister(r), OperationKeeps, UNCHANGED slip PROVE StepInv'
  BY <1>26 DEF ResumeRegister, StepTo, Idle
<1>27. ASSUME ResumeFail, OperationKeeps PROVE StepInv'
  BY <1>27 DEF ResumeFail, End, RemoveRun, Slip, SlipIf
<1>28. ASSUME Restart PROVE StepInv'
  BY <1>28 DEF Restart, Slip, SlipIf
<1>29. ASSUME Leftover PROVE StepInv'
  BY <1>29 DEF Leftover, Slip, SlipIf
<1>30. ASSUME Gone PROVE StepInv'
  BY <1>30 DEF Gone, vars
<1>31. CASE UNCHANGED vars
  BY <1>31 DEF vars
<1> QED
  BY <1>1, <1>2, <1>3, <1>4, <1>5, <1>6, <1>7, <1>8, <1>9, <1>10, <1>11, <1>12,
     <1>13, <1>14, <1>15, <1>16, <1>17, <1>18, <1>19, <1>20, <1>21, <1>22, <1>23, <1>24,
     <1>25, <1>26, <1>27, <1>28, <1>29, <1>30, <1>31
     DEF Next, Write, Boot, Talk, Operation

\* A boot finds the VM of another run, or none.
LEMMA NewVMStep ==
  ASSUME TypeOK, Registration, NewVMInv, [Next]_vars
  PROVE  NewVMInv'
<1> USE RunsAssumption DEF TypeOK, Actors, opVars, WriteKeeps, BootKeeps, TalkKeeps,
         OperationKeeps, Registration, OperationInv, NewVMInv
<1>1. ASSUME NEW r \in Runs, NEW k \in Actors, Advance(r, k), WriteKeeps PROVE NewVMInv'
  BY <1>1 DEF Advance, Goto
<1>2. ASSUME NEW r \in Runs, NEW k \in Actors, Reflect(r, k), WriteKeeps PROVE NewVMInv'
  BY <1>2 DEF Reflect, Goto, Finish, Update
<1>3. ASSUME NEW r \in Runs, NEW k \in Actors, Cleanup(r, k), WriteKeeps PROVE NewVMInv'
  BY <1>3 DEF Cleanup, Goto, Finish, Update, Slip, SlipIf
<1>4. ASSUME NEW r \in Runs, NEW k \in Actors, Save(r, k), WriteKeeps PROVE NewVMInv'
  BY <1>4 DEF Save, Goto, Finish, Slip, SlipIf
<1>5. ASSUME NEW r \in Runs, BootDestroy(r), BootKeeps PROVE NewVMInv'
  BY <1>5 DEF BootDestroy, BootGoto, Goto
<1>6. ASSUME NEW r \in Runs, BootCreate(r), BootKeeps PROVE NewVMInv'
  BY <1>6 DEF BootCreate, BootGoto, Goto
<1>7. ASSUME NEW r \in Runs, BootPrepare(r), BootKeeps PROVE NewVMInv'
  BY <1>7 DEF BootPrepare, BootGoto, Goto
<1>8. ASSUME NEW r \in Runs, BootReturn(r), BootKeeps PROVE NewVMInv'
  <2>1. PICK f \in {"ready", "failed"}, t \in {"idle", "unregister", "save", "advance"} : Goto(r, "boot", f, t)
    BY <1>8 DEF BootReturn, BootGoto
  <2>2. /\ pc[r]["boot"] = f /\ pc'[r]["boot"] = t
        /\ \A q \in Runs, j \in Actors : q # r \/ j # "boot" => pc'[q][j] = pc[q][j]
    BY <2>1 DEF Goto
  <2>3. UNCHANGED <<val, vm, run>>
    BY <1>8 DEF BootReturn
  <2> QED
    BY <1>8, <2>2, <2>3
<1>9. ASSUME NEW r \in Runs, BootUnregister(r), BootKeeps PROVE NewVMInv'
  BY <1>9 DEF BootUnregister, BootGoto, Goto, RemoveRun
<1>10. ASSUME NEW r \in Runs, BootReap(r), BootKeeps PROVE NewVMInv'
  BY <1>10 DEF BootReap, BootGoto, Goto, Slip, SlipIf
<1>11. ASSUME NEW r \in Runs, GuestAsks(r), TalkKeeps PROVE NewVMInv'
  <2>1. /\ "loop" \in Actors /\ pc'[r]["loop"] \in {"advance", pc[r]["loop"]}
        /\ pc[r]["loop"] # "idle" => pc'[r]["loop"] = pc[r]["loop"]
        /\ \A q \in Runs, j \in Actors : q # r \/ j # "loop" => pc'[q][j] = pc[q][j]
    BY <1>11, KickOne DEF GuestAsks
  <2>2. UNCHANGED <<val, pos>>
    BY <1>11 DEF GuestAsks
  <2> QED
    BY <1>11, <2>1, <2>2
<1>12. ASSUME NEW r \in Runs, GuestReports(r), TalkKeeps PROVE NewVMInv'
  BY <1>12 DEF GuestReports, Kick
<1>13. ASSUME NEW r \in Runs, GuestQuestions(r), TalkKeeps PROVE NewVMInv'
  BY <1>13 DEF GuestQuestions, Goto
<1>14. ASSUME NEW r \in Runs, Decide(r), TalkKeeps PROVE NewVMInv'
  BY <1>14 DEF Decide, Goto
<1>15. ASSUME NEW r \in Runs, Answer(r), TalkKeeps PROVE NewVMInv'
  BY <1>15 DEF Answer
<1>16. ASSUME NEW r \in Runs, AskReturns(r), TalkKeeps PROVE NewVMInv'
  <2>1. PICK f \in {"answered", "asked"}, t \in {"save", "idle"} : Goto(r, "ask", f, t)
    BY <1>16 DEF AskReturns
  <2>2. /\ "ask" \in Actors /\ pc[r]["ask"] = f /\ pc'[r]["ask"] = t
        /\ \A q \in Runs, j \in Actors : q # r \/ j # "ask" => pc'[q][j] = pc[q][j]
    BY <2>1 DEF Goto
  <2>3. UNCHANGED <<val, pos>>
    BY <1>16 DEF AskReturns
  <2> QED
    BY <1>16, <2>2, <2>3
<1>17. ASSUME StopBegin, OperationKeeps, UNCHANGED slip PROVE NewVMInv'
  BY <1>17 DEF StopBegin, Begin
<1>18. ASSUME RemoveBegin, OperationKeeps, UNCHANGED slip PROVE NewVMInv'
  BY <1>18 DEF RemoveBegin, Begin
<1>19. ASSUME ResumeBegin, OperationKeeps, UNCHANGED slip PROVE NewVMInv'
  BY <1>19 DEF ResumeBegin, Begin
<1>20. ASSUME StopCancel, OperationKeeps, UNCHANGED slip PROVE NewVMInv'
  BY <1>20 DEF StopCancel, StepTo
<1>21. ASSUME StopWait, OperationKeeps, UNCHANGED slip PROVE NewVMInv'
  BY <1>21 DEF StopWait, StepTo
<1>22. ASSUME StopDestroy, OperationKeeps, UNCHANGED slip PROVE NewVMInv'
  BY <1>22 DEF StopDestroy
<1>23. ASSUME StopFinish, OperationKeeps, UNCHANGED slip PROVE NewVMInv'
  BY <1>23 DEF StopFinish, End
<1>24. ASSUME ResumeStart, OperationKeeps, UNCHANGED slip PROVE NewVMInv'
  BY <1>24 DEF ResumeStart, StepTo
<1>25. ASSUME ResumeLaunch, OperationKeeps, UNCHANGED slip PROVE NewVMInv'
  BY <1>25 DEF ResumeLaunch, End
<1>26. ASSUME NEW r \in Runs, ResumeRegister(r), OperationKeeps, UNCHANGED slip PROVE NewVMInv'
  BY <1>26 DEF ResumeRegister, StepTo, Idle
<1>27. ASSUME ResumeFail, OperationKeeps PROVE NewVMInv'
  BY <1>27 DEF ResumeFail, End, RemoveRun, Slip, SlipIf
<1>28. ASSUME Restart PROVE NewVMInv'
  BY <1>28 DEF Restart, Slip, SlipIf
<1>29. ASSUME Leftover PROVE NewVMInv'
  BY <1>29 DEF Leftover, Slip, SlipIf
<1>30. ASSUME Gone PROVE NewVMInv'
  BY <1>30 DEF Gone, vars
<1>31. CASE UNCHANGED vars
  BY <1>31 DEF vars
<1> QED
  BY <1>1, <1>2, <1>3, <1>4, <1>5, <1>6, <1>7, <1>8, <1>9, <1>10, <1>11, <1>12,
     <1>13, <1>14, <1>15, <1>16, <1>17, <1>18, <1>19, <1>20, <1>21, <1>22, <1>23, <1>24,
     <1>25, <1>26, <1>27, <1>28, <1>29, <1>30, <1>31
     DEF Next, Write, Boot, Talk, Operation

\* The VM is gone before STOPPED is written, and before Resume goes on.
LEMMA StoppedVMStep ==
  ASSUME TypeOK, Registration, PresentMeanwhile, ValInv, BootInv, StepInv, StoppedVMInv, [Next]_vars
  PROVE  StoppedVMInv'
<1> USE RunsAssumption DEF TypeOK, Actors, opVars, WriteKeeps, BootKeeps, TalkKeeps,
         OperationKeeps, Registration, OperationInv, OthersAreCancelled, PresentMeanwhile,
         ValInv, BootInv, StepInv, StoppedVMInv, Active
<1>1. ASSUME NEW r \in Runs, NEW k \in Actors, Advance(r, k), WriteKeeps PROVE StoppedVMInv'
  BY <1>1 DEF Advance, Goto
<1>2. ASSUME NEW r \in Runs, NEW k \in Actors, Reflect(r, k), WriteKeeps PROVE StoppedVMInv'
  BY <1>2 DEF Reflect, Goto, Finish, Update
<1>3. ASSUME NEW r \in Runs, NEW k \in Actors, Cleanup(r, k), WriteKeeps PROVE StoppedVMInv'
  BY <1>3 DEF Cleanup, Goto, Finish, Update, Slip, SlipIf
<1>4. ASSUME NEW r \in Runs, NEW k \in Actors, Save(r, k), WriteKeeps PROVE StoppedVMInv'
  <2>1. disk' \in States /\ disk' # "stopped"
    BY <1>4 DEF Save, Finish, Goto
  <2>2. vm' = vm /\ (slip' = "none" => slip = "none")
    BY <1>4 DEF Save, Slip, SlipIf
  <2> QED
    BY <1>4, <2>1, <2>2 DEF States
<1>5. ASSUME NEW r \in Runs, BootDestroy(r), BootKeeps PROVE StoppedVMInv'
  BY <1>5 DEF BootDestroy, BootGoto, Goto
<1>6. ASSUME NEW r \in Runs, BootCreate(r), BootKeeps PROVE StoppedVMInv'
  BY <1>6 DEF BootCreate, BootGoto, Goto
<1>7. ASSUME NEW r \in Runs, BootPrepare(r), BootKeeps PROVE StoppedVMInv'
  BY <1>7 DEF BootPrepare, BootGoto, Goto
<1>8. ASSUME NEW r \in Runs, BootReturn(r), BootKeeps PROVE StoppedVMInv'
  BY <1>8 DEF BootReturn, BootGoto, Goto
<1>9. ASSUME NEW r \in Runs, BootUnregister(r), BootKeeps PROVE StoppedVMInv'
  BY <1>9 DEF BootUnregister, BootGoto, Goto, RemoveRun
<1>10. ASSUME NEW r \in Runs, BootReap(r), BootKeeps PROVE StoppedVMInv'
  BY <1>10 DEF BootReap, BootGoto, Goto, Slip, SlipIf
<1>11. ASSUME NEW r \in Runs, GuestAsks(r), TalkKeeps PROVE StoppedVMInv'
  BY <1>11 DEF GuestAsks, Kick
<1>12. ASSUME NEW r \in Runs, GuestReports(r), TalkKeeps PROVE StoppedVMInv'
  BY <1>12 DEF GuestReports, Kick
<1>13. ASSUME NEW r \in Runs, GuestQuestions(r), TalkKeeps PROVE StoppedVMInv'
  BY <1>13 DEF GuestQuestions, Goto
<1>14. ASSUME NEW r \in Runs, Decide(r), TalkKeeps PROVE StoppedVMInv'
  BY <1>14 DEF Decide, Goto
<1>15. ASSUME NEW r \in Runs, Answer(r), TalkKeeps PROVE StoppedVMInv'
  BY <1>15 DEF Answer
<1>16. ASSUME NEW r \in Runs, AskReturns(r), TalkKeeps PROVE StoppedVMInv'
  BY <1>16 DEF AskReturns, Goto
<1>17. ASSUME StopBegin, OperationKeeps, UNCHANGED slip PROVE StoppedVMInv'
  BY <1>17 DEF StopBegin, Begin
<1>18. ASSUME RemoveBegin, OperationKeeps, UNCHANGED slip PROVE StoppedVMInv'
  BY <1>18 DEF RemoveBegin, Begin
<1>19. ASSUME ResumeBegin, OperationKeeps, UNCHANGED slip PROVE StoppedVMInv'
  BY <1>19 DEF ResumeBegin, Begin
<1>20. ASSUME StopCancel, OperationKeeps, UNCHANGED slip PROVE StoppedVMInv'
  BY <1>20 DEF StopCancel, StepTo
<1>21. ASSUME StopWait, OperationKeeps, UNCHANGED slip PROVE StoppedVMInv'
  BY <1>21 DEF StopWait, StepTo
<1>22. ASSUME StopDestroy, OperationKeeps, UNCHANGED slip PROVE StoppedVMInv'
  BY <1>22 DEF StopDestroy
<1>23. ASSUME StopFinish, OperationKeeps, UNCHANGED slip PROVE StoppedVMInv'
  BY <1>23 DEF StopFinish, End
<1>24. ASSUME ResumeStart, OperationKeeps, UNCHANGED slip PROVE StoppedVMInv'
  BY <1>24 DEF ResumeStart, StepTo
<1>25. ASSUME ResumeLaunch, OperationKeeps, UNCHANGED slip PROVE StoppedVMInv'
  BY <1>25 DEF ResumeLaunch, End
<1>26. ASSUME NEW r \in Runs, ResumeRegister(r), OperationKeeps, UNCHANGED slip PROVE StoppedVMInv'
  BY <1>26 DEF ResumeRegister, StepTo, Idle
<1>27. ASSUME ResumeFail, OperationKeeps PROVE StoppedVMInv'
  BY <1>27 DEF ResumeFail, End, RemoveRun, Slip, SlipIf
<1>28. ASSUME Restart PROVE StoppedVMInv'
  BY <1>28 DEF Restart, Slip, SlipIf
<1>29. ASSUME Leftover PROVE StoppedVMInv'
  BY <1>29 DEF Leftover, Slip, SlipIf
<1>30. ASSUME Gone PROVE StoppedVMInv'
  BY <1>30 DEF Gone, vars
<1>31. CASE UNCHANGED vars
  BY <1>31 DEF vars
<1> QED
  BY <1>1, <1>2, <1>3, <1>4, <1>5, <1>6, <1>7, <1>8, <1>9, <1>10, <1>11, <1>12,
     <1>13, <1>14, <1>15, <1>16, <1>17, <1>18, <1>19, <1>20, <1>21, <1>22, <1>23, <1>24,
     <1>25, <1>26, <1>27, <1>28, <1>29, <1>30, <1>31
     DEF Next, Write, Boot, Talk, Operation

\* The agent asks and reports one after the other.
LEMMA AskStep ==
  ASSUME TypeOK, AskInv, [Next]_vars
  PROVE  AskInv'
<1> USE RunsAssumption DEF TypeOK, Actors, opVars, WriteKeeps, BootKeeps, TalkKeeps,
         OperationKeeps, AskInv, Connected
<1>1. ASSUME NEW r \in Runs, NEW k \in Actors, Advance(r, k), WriteKeeps PROVE AskInv'
  BY <1>1 DEF Advance, Goto
<1>2. ASSUME NEW r \in Runs, NEW k \in Actors, Reflect(r, k), WriteKeeps PROVE AskInv'
  BY <1>2 DEF Reflect, Goto, Finish, Update
<1>3. ASSUME NEW r \in Runs, NEW k \in Actors, Cleanup(r, k), WriteKeeps PROVE AskInv'
  <2>1. PICK t \in {"save", "idle", "advance", "asked"} : Goto(r, k, "cleanup", t)
    BY <1>3 DEF Cleanup, Update, Finish
  <2>2. UNCHANGED <<pos, run>>
    BY <1>3 DEF Cleanup
  <2> QED
    BY <2>1, <2>2 DEF Goto
<1>4. ASSUME NEW r \in Runs, NEW k \in Actors, Save(r, k), WriteKeeps PROVE AskInv'
  BY <1>4 DEF Save, Goto, Finish, Slip, SlipIf
<1>5. ASSUME NEW r \in Runs, BootDestroy(r), BootKeeps PROVE AskInv'
  BY <1>5 DEF BootDestroy, BootGoto, Goto
<1>6. ASSUME NEW r \in Runs, BootCreate(r), BootKeeps PROVE AskInv'
  BY SMTT(30), <1>6 DEF BootCreate, BootGoto, Goto
<1>7. ASSUME NEW r \in Runs, BootPrepare(r), BootKeeps PROVE AskInv'
  BY <1>7 DEF BootPrepare, BootGoto, Goto
<1>8. ASSUME NEW r \in Runs, BootReturn(r), BootKeeps PROVE AskInv'
  BY <1>8 DEF BootReturn, BootGoto, Goto
<1>9. ASSUME NEW r \in Runs, BootUnregister(r), BootKeeps PROVE AskInv'
  BY <1>9 DEF BootUnregister, BootGoto, Goto, RemoveRun
<1>10. ASSUME NEW r \in Runs, BootReap(r), BootKeeps PROVE AskInv'
  BY <1>10 DEF BootReap, BootGoto, Goto, Slip, SlipIf
<1>11. ASSUME NEW r \in Runs, GuestAsks(r), TalkKeeps PROVE AskInv'
  BY <1>11 DEF GuestAsks, Kick
<1>12. ASSUME NEW r \in Runs, GuestReports(r), TalkKeeps PROVE AskInv'
  BY <1>12 DEF GuestReports, Kick
<1>13. ASSUME NEW r \in Runs, GuestQuestions(r), TalkKeeps PROVE AskInv'
  BY <1>13 DEF GuestQuestions, Goto
<1>14. ASSUME NEW r \in Runs, Decide(r), TalkKeeps PROVE AskInv'
  BY <1>14 DEF Decide, Goto
<1>15. ASSUME NEW r \in Runs, Answer(r), TalkKeeps PROVE AskInv'
  BY <1>15 DEF Answer
<1>16. ASSUME NEW r \in Runs, AskReturns(r), TalkKeeps PROVE AskInv'
  <2>1. PICK f \in {"answered", "asked"}, t \in {"save", "idle"} : Goto(r, "ask", f, t)
    BY <1>16 DEF AskReturns
  <2>2. /\ "ask" \in Actors /\ pc[r]["ask"] = f /\ pc'[r]["ask"] = t
        /\ \A q \in Runs, j \in Actors : q # r \/ j # "ask" => pc'[q][j] = pc[q][j]
    BY <2>1 DEF Goto
  <2>3. UNCHANGED <<val, pos>>
    BY <1>16 DEF AskReturns
  <2> QED
    BY <1>16, <2>2, <2>3
<1>17. ASSUME StopBegin, OperationKeeps, UNCHANGED slip PROVE AskInv'
  BY <1>17 DEF StopBegin, Begin
<1>18. ASSUME RemoveBegin, OperationKeeps, UNCHANGED slip PROVE AskInv'
  BY <1>18 DEF RemoveBegin, Begin
<1>19. ASSUME ResumeBegin, OperationKeeps, UNCHANGED slip PROVE AskInv'
  BY <1>19 DEF ResumeBegin, Begin
<1>20. ASSUME StopCancel, OperationKeeps, UNCHANGED slip PROVE AskInv'
  BY <1>20 DEF StopCancel, StepTo
<1>21. ASSUME StopWait, OperationKeeps, UNCHANGED slip PROVE AskInv'
  BY <1>21 DEF StopWait, StepTo
<1>22. ASSUME StopDestroy, OperationKeeps, UNCHANGED slip PROVE AskInv'
  BY <1>22 DEF StopDestroy
<1>23. ASSUME StopFinish, OperationKeeps, UNCHANGED slip PROVE AskInv'
  BY <1>23 DEF StopFinish, End
<1>24. ASSUME ResumeStart, OperationKeeps, UNCHANGED slip PROVE AskInv'
  BY <1>24 DEF ResumeStart, StepTo
<1>25. ASSUME ResumeLaunch, OperationKeeps, UNCHANGED slip PROVE AskInv'
  BY <1>25 DEF ResumeLaunch, End
<1>26. ASSUME NEW r \in Runs, ResumeRegister(r), OperationKeeps, UNCHANGED slip PROVE AskInv'
  BY <1>26 DEF ResumeRegister, StepTo, Idle
<1>27. ASSUME ResumeFail, OperationKeeps PROVE AskInv'
  BY <1>27 DEF ResumeFail, End, RemoveRun, Slip, SlipIf
<1>28. ASSUME Restart PROVE AskInv'
  BY <1>28 DEF Restart, Slip, SlipIf
<1>29. ASSUME Leftover PROVE AskInv'
  BY <1>29 DEF Leftover, Slip, SlipIf
<1>30. ASSUME Gone PROVE AskInv'
  BY <1>30 DEF Gone, vars
<1>31. CASE UNCHANGED vars
  BY <1>31 DEF vars
<1> QED
  BY <1>1, <1>2, <1>3, <1>4, <1>5, <1>6, <1>7, <1>8, <1>9, <1>10, <1>11, <1>12,
     <1>13, <1>14, <1>15, <1>16, <1>17, <1>18, <1>19, <1>20, <1>21, <1>22, <1>23, <1>24,
     <1>25, <1>26, <1>27, <1>28, <1>29, <1>30, <1>31
     DEF Next, Write, Boot, Talk, Operation

\* Under a Stop that found BLOCKED nobody writes an active state.
LEMMA BlockedStep ==
  ASSUME TypeOK, StepInv, FinalInv, BootInv, LoopInv, AskInv, BlockedInv, [Next]_vars
  PROVE  BlockedInv'
<1> USE RunsAssumption DEF TypeOK, Actors, opVars, WriteKeeps, BootKeeps, TalkKeeps,
         OperationKeeps, StepInv, FinalInv, BootInv, LoopInv, AskInv, BlockedInv, Active
<1>1. ASSUME NEW r \in Runs, NEW k \in Actors, Advance(r, k), WriteKeeps PROVE BlockedInv'
  BY <1>1 DEF Advance, Goto
<1>2. ASSUME NEW r \in Runs, NEW k \in Actors, Reflect(r, k), WriteKeeps PROVE BlockedInv'
  BY <1>2 DEF Reflect, Goto, Finish, Update
<1>3. ASSUME NEW r \in Runs, NEW k \in Actors, Cleanup(r, k), WriteKeeps PROVE BlockedInv'
  BY <1>3 DEF Cleanup, Goto, Finish, Update, Slip, SlipIf
<1>4. ASSUME NEW r \in Runs, NEW k \in Actors, Save(r, k), WriteKeeps PROVE BlockedInv'
  BY <1>4 DEF Save, Goto, Finish, Slip, SlipIf, Late, Stale, StateOf
<1>5. ASSUME NEW r \in Runs, BootDestroy(r), BootKeeps PROVE BlockedInv'
  BY <1>5 DEF BootDestroy, BootGoto, Goto
<1>6. ASSUME NEW r \in Runs, BootCreate(r), BootKeeps PROVE BlockedInv'
  BY <1>6 DEF BootCreate, BootGoto, Goto
<1>7. ASSUME NEW r \in Runs, BootPrepare(r), BootKeeps PROVE BlockedInv'
  BY <1>7 DEF BootPrepare, BootGoto, Goto
<1>8. ASSUME NEW r \in Runs, BootReturn(r), BootKeeps PROVE BlockedInv'
  BY <1>8 DEF BootReturn, BootGoto, Goto
<1>9. ASSUME NEW r \in Runs, BootUnregister(r), BootKeeps PROVE BlockedInv'
  BY <1>9 DEF BootUnregister, BootGoto, Goto, RemoveRun
<1>10. ASSUME NEW r \in Runs, BootReap(r), BootKeeps PROVE BlockedInv'
  BY <1>10 DEF BootReap, BootGoto, Goto, Slip, SlipIf
<1>11. ASSUME NEW r \in Runs, GuestAsks(r), TalkKeeps PROVE BlockedInv'
  BY <1>11 DEF GuestAsks, Kick
<1>12. ASSUME NEW r \in Runs, GuestReports(r), TalkKeeps PROVE BlockedInv'
  BY <1>12 DEF GuestReports, Kick
<1>13. ASSUME NEW r \in Runs, GuestQuestions(r), TalkKeeps PROVE BlockedInv'
  BY <1>13 DEF GuestQuestions, Goto
<1>14. ASSUME NEW r \in Runs, Decide(r), TalkKeeps PROVE BlockedInv'
  BY <1>14 DEF Decide, Goto
<1>15. ASSUME NEW r \in Runs, Answer(r), TalkKeeps PROVE BlockedInv'
  BY <1>15 DEF Answer
<1>16. ASSUME NEW r \in Runs, AskReturns(r), TalkKeeps PROVE BlockedInv'
  BY <1>16 DEF AskReturns, Goto
<1>17. ASSUME StopBegin, OperationKeeps, UNCHANGED slip PROVE BlockedInv'
  BY <1>17 DEF StopBegin, Begin
<1>18. ASSUME RemoveBegin, OperationKeeps, UNCHANGED slip PROVE BlockedInv'
  BY <1>18 DEF RemoveBegin, Begin
<1>19. ASSUME ResumeBegin, OperationKeeps, UNCHANGED slip PROVE BlockedInv'
  BY <1>19 DEF ResumeBegin, Begin
<1>20. ASSUME StopCancel, OperationKeeps, UNCHANGED slip PROVE BlockedInv'
  BY <1>20 DEF StopCancel, StepTo
<1>21. ASSUME StopWait, OperationKeeps, UNCHANGED slip PROVE BlockedInv'
  BY <1>21 DEF StopWait, StepTo
<1>22. ASSUME StopDestroy, OperationKeeps, UNCHANGED slip PROVE BlockedInv'
  BY <1>22 DEF StopDestroy
<1>23. ASSUME StopFinish, OperationKeeps, UNCHANGED slip PROVE BlockedInv'
  BY <1>23 DEF StopFinish, End
<1>24. ASSUME ResumeStart, OperationKeeps, UNCHANGED slip PROVE BlockedInv'
  BY <1>24 DEF ResumeStart, StepTo
<1>25. ASSUME ResumeLaunch, OperationKeeps, UNCHANGED slip PROVE BlockedInv'
  BY <1>25 DEF ResumeLaunch, End
<1>26. ASSUME NEW r \in Runs, ResumeRegister(r), OperationKeeps, UNCHANGED slip PROVE BlockedInv'
  BY <1>26 DEF ResumeRegister, StepTo, Idle
<1>27. ASSUME ResumeFail, OperationKeeps PROVE BlockedInv'
  BY <1>27 DEF ResumeFail, End, RemoveRun, Slip, SlipIf
<1>28. ASSUME Restart PROVE BlockedInv'
  BY <1>28 DEF Restart, Slip, SlipIf
<1>29. ASSUME Leftover PROVE BlockedInv'
  BY <1>29 DEF Leftover, Slip, SlipIf
<1>30. ASSUME Gone PROVE BlockedInv'
  BY <1>30 DEF Gone, vars
<1>31. CASE UNCHANGED vars
  BY <1>31 DEF vars
<1> QED
  BY <1>1, <1>2, <1>3, <1>4, <1>5, <1>6, <1>7, <1>8, <1>9, <1>10, <1>11, <1>12,
     <1>13, <1>14, <1>15, <1>16, <1>17, <1>18, <1>19, <1>20, <1>21, <1>22, <1>23, <1>24,
     <1>25, <1>26, <1>27, <1>28, <1>29, <1>30, <1>31
     DEF Next, Write, Boot, Talk, Operation

\* The VM goes after its run, or with its end.
LEMMA RunVMStep ==
  ASSUME TypeOK, Registration, ValInv, FinalInv, BootInv, StepInv, RunVMInv, [Next]_vars
  PROVE  RunVMInv'
<1> USE RunsAssumption DEF TypeOK, Actors, opVars, WriteKeeps, BootKeeps, TalkKeeps,
         OperationKeeps, Registration, OperationInv, OthersAreCancelled, ValInv, FinalInv,
         BootInv, StepInv, RunVMInv
<1>1. ASSUME NEW r \in Runs, NEW k \in Actors, Advance(r, k), WriteKeeps PROVE RunVMInv'
  BY <1>1 DEF Advance, Goto
<1>2. ASSUME NEW r \in Runs, NEW k \in Actors, Reflect(r, k), WriteKeeps PROVE RunVMInv'
  BY <1>2 DEF Reflect, Goto, Finish, Update
<1>3. ASSUME NEW r \in Runs, NEW k \in Actors, Cleanup(r, k), WriteKeeps PROVE RunVMInv'
  BY <1>3 DEF Cleanup, Goto, Finish, Update, Slip, SlipIf
<1>4. ASSUME NEW r \in Runs, NEW k \in Actors, Save(r, k), WriteKeeps PROVE RunVMInv'
  BY <1>4 DEF Save, Goto, Finish, Slip, SlipIf
<1>5. ASSUME NEW r \in Runs, BootDestroy(r), BootKeeps PROVE RunVMInv'
  BY <1>5 DEF BootDestroy, BootGoto, Goto
<1>6. ASSUME NEW r \in Runs, BootCreate(r), BootKeeps PROVE RunVMInv'
  BY <1>6 DEF BootCreate, BootGoto, Goto
<1>7. ASSUME NEW r \in Runs, BootPrepare(r), BootKeeps PROVE RunVMInv'
  BY <1>7 DEF BootPrepare, BootGoto, Goto
<1>8. ASSUME NEW r \in Runs, BootReturn(r), BootKeeps PROVE RunVMInv'
  BY <1>8 DEF BootReturn, BootGoto, Goto
<1>9. ASSUME NEW r \in Runs, BootUnregister(r), BootKeeps PROVE RunVMInv'
  BY <1>9 DEF BootUnregister, BootGoto, Goto, RemoveRun
<1>10. ASSUME NEW r \in Runs, BootReap(r), BootKeeps PROVE RunVMInv'
  BY <1>10 DEF BootReap, BootGoto, Goto, Slip, SlipIf
<1>11. ASSUME NEW r \in Runs, GuestAsks(r), TalkKeeps PROVE RunVMInv'
  BY <1>11 DEF GuestAsks, Kick
<1>12. ASSUME NEW r \in Runs, GuestReports(r), TalkKeeps PROVE RunVMInv'
  BY <1>12 DEF GuestReports, Kick
<1>13. ASSUME NEW r \in Runs, GuestQuestions(r), TalkKeeps PROVE RunVMInv'
  BY <1>13 DEF GuestQuestions, Goto
<1>14. ASSUME NEW r \in Runs, Decide(r), TalkKeeps PROVE RunVMInv'
  BY <1>14 DEF Decide, Goto
<1>15. ASSUME NEW r \in Runs, Answer(r), TalkKeeps PROVE RunVMInv'
  BY <1>15 DEF Answer
<1>16. ASSUME NEW r \in Runs, AskReturns(r), TalkKeeps PROVE RunVMInv'
  BY <1>16 DEF AskReturns, Goto
<1>17. ASSUME StopBegin, OperationKeeps, UNCHANGED slip PROVE RunVMInv'
  BY <1>17 DEF StopBegin, Begin
<1>18. ASSUME RemoveBegin, OperationKeeps, UNCHANGED slip PROVE RunVMInv'
  BY <1>18 DEF RemoveBegin, Begin
<1>19. ASSUME ResumeBegin, OperationKeeps, UNCHANGED slip PROVE RunVMInv'
  BY <1>19 DEF ResumeBegin, Begin
<1>20. ASSUME StopCancel, OperationKeeps, UNCHANGED slip PROVE RunVMInv'
  BY <1>20 DEF StopCancel, StepTo
<1>21. ASSUME StopWait, OperationKeeps, UNCHANGED slip PROVE RunVMInv'
  BY <1>21 DEF StopWait, StepTo
<1>22. ASSUME StopDestroy, OperationKeeps, UNCHANGED slip PROVE RunVMInv'
  BY <1>22 DEF StopDestroy
<1>23. ASSUME StopFinish, OperationKeeps, UNCHANGED slip PROVE RunVMInv'
  BY <1>23 DEF StopFinish, End
<1>24. ASSUME ResumeStart, OperationKeeps, UNCHANGED slip PROVE RunVMInv'
  BY <1>24 DEF ResumeStart, StepTo
<1>25. ASSUME ResumeLaunch, OperationKeeps, UNCHANGED slip PROVE RunVMInv'
  BY <1>25 DEF ResumeLaunch, End
<1>26. ASSUME NEW r \in Runs, ResumeRegister(r), OperationKeeps, UNCHANGED slip PROVE RunVMInv'
  BY <1>26 DEF ResumeRegister, StepTo, Idle
<1>27. ASSUME ResumeFail, OperationKeeps PROVE RunVMInv'
  BY <1>27 DEF ResumeFail, End, RemoveRun, Slip, SlipIf
<1>28. ASSUME Restart PROVE RunVMInv'
  BY <1>28 DEF Restart, Slip, SlipIf
<1>29. ASSUME Leftover PROVE RunVMInv'
  BY <1>29 DEF Leftover, Slip, SlipIf
<1>30. ASSUME Gone PROVE RunVMInv'
  BY <1>30 DEF Gone, vars
<1>31. CASE UNCHANGED vars
  BY <1>31 DEF vars
<1> QED
  BY <1>1, <1>2, <1>3, <1>4, <1>5, <1>6, <1>7, <1>8, <1>9, <1>10, <1>11, <1>12,
     <1>13, <1>14, <1>15, <1>16, <1>17, <1>18, <1>19, <1>20, <1>21, <1>22, <1>23, <1>24,
     <1>25, <1>26, <1>27, <1>28, <1>29, <1>30, <1>31
     DEF Next, Write, Boot, Talk, Operation

\* A run goes after the active state, or leaves a boot that writes SUSPENDED.
LEMMA FailedStep ==
  ASSUME TypeOK, Registration, StepInv, BootInv, LoopInv, BlockedInv, FailedInv, [Next]_vars
  PROVE  FailedInv'
<1> USE RunsAssumption DEF TypeOK, Actors, opVars, WriteKeeps, BootKeeps, TalkKeeps,
         OperationKeeps, Registration, OperationInv, OthersAreCancelled, StepInv, BootInv,
         LoopInv, BlockedInv, FailedInv, Active
<1>1. ASSUME NEW r \in Runs, NEW k \in Actors, Advance(r, k), WriteKeeps PROVE FailedInv'
  BY <1>1 DEF Advance, Goto
<1>2. ASSUME NEW r \in Runs, NEW k \in Actors, Reflect(r, k), WriteKeeps PROVE FailedInv'
  BY SMTT(30), <1>2 DEF Reflect, Goto, Finish, Update
<1>3. ASSUME NEW r \in Runs, NEW k \in Actors, Cleanup(r, k), WriteKeeps PROVE FailedInv'
  BY <1>3 DEF Cleanup, Goto, Finish, Update, Slip, SlipIf
<1>4. ASSUME NEW r \in Runs, NEW k \in Actors, Save(r, k), WriteKeeps PROVE FailedInv'
  <2> SUFFICES ASSUME slip' = "none", op = "none", run = NoRun, Active(disk') PROVE FALSE
    BY <1>4 DEF Save
  <2>1. disk' = val[r][k] /\ pc[r][k] = "save"
    BY <1>4 DEF Save, Finish, Goto
  <2>2. ~Late(r, k)
    BY <1>4 DEF Save, Slip
  <2>3. k # "boot"
    BY <2>1
  <2>4. k = "loop"
    BY <2>2, <2>3, CallersAssumption DEF Late
  <2> QED
    BY <2>1, <2>3, <2>4
<1>5. ASSUME NEW r \in Runs, BootDestroy(r), BootKeeps PROVE FailedInv'
  BY <1>5 DEF BootDestroy, BootGoto, Goto
<1>6. ASSUME NEW r \in Runs, BootCreate(r), BootKeeps PROVE FailedInv'
  BY <1>6 DEF BootCreate, BootGoto, Goto
<1>7. ASSUME NEW r \in Runs, BootPrepare(r), BootKeeps PROVE FailedInv'
  BY <1>7 DEF BootPrepare, BootGoto, Goto
<1>8. ASSUME NEW r \in Runs, BootReturn(r), BootKeeps PROVE FailedInv'
  BY <1>8 DEF BootReturn, BootGoto, Goto
<1>9. ASSUME NEW r \in Runs, BootUnregister(r), BootKeeps PROVE FailedInv'
  BY <1>9 DEF BootUnregister, BootGoto, Goto, RemoveRun
<1>10. ASSUME NEW r \in Runs, BootReap(r), BootKeeps PROVE FailedInv'
  BY <1>10 DEF BootReap, BootGoto, Goto, Slip, SlipIf
<1>11. ASSUME NEW r \in Runs, GuestAsks(r), TalkKeeps PROVE FailedInv'
  BY <1>11 DEF GuestAsks, Kick
<1>12. ASSUME NEW r \in Runs, GuestReports(r), TalkKeeps PROVE FailedInv'
  BY <1>12 DEF GuestReports, Kick
<1>13. ASSUME NEW r \in Runs, GuestQuestions(r), TalkKeeps PROVE FailedInv'
  BY <1>13 DEF GuestQuestions, Goto
<1>14. ASSUME NEW r \in Runs, Decide(r), TalkKeeps PROVE FailedInv'
  BY <1>14 DEF Decide, Goto
<1>15. ASSUME NEW r \in Runs, Answer(r), TalkKeeps PROVE FailedInv'
  BY <1>15 DEF Answer
<1>16. ASSUME NEW r \in Runs, AskReturns(r), TalkKeeps PROVE FailedInv'
  BY <1>16 DEF AskReturns, Goto
<1>17. ASSUME StopBegin, OperationKeeps, UNCHANGED slip PROVE FailedInv'
  BY <1>17 DEF StopBegin, Begin
<1>18. ASSUME RemoveBegin, OperationKeeps, UNCHANGED slip PROVE FailedInv'
  BY <1>18 DEF RemoveBegin, Begin
<1>19. ASSUME ResumeBegin, OperationKeeps, UNCHANGED slip PROVE FailedInv'
  BY <1>19 DEF ResumeBegin, Begin
<1>20. ASSUME StopCancel, OperationKeeps, UNCHANGED slip PROVE FailedInv'
  BY <1>20 DEF StopCancel, StepTo
<1>21. ASSUME StopWait, OperationKeeps, UNCHANGED slip PROVE FailedInv'
  BY <1>21 DEF StopWait, StepTo
<1>22. ASSUME StopDestroy, OperationKeeps, UNCHANGED slip PROVE FailedInv'
  BY <1>22 DEF StopDestroy
<1>23. ASSUME StopFinish, OperationKeeps, UNCHANGED slip PROVE FailedInv'
  BY <1>23 DEF StopFinish, End
<1>24. ASSUME ResumeStart, OperationKeeps, UNCHANGED slip PROVE FailedInv'
  BY <1>24 DEF ResumeStart, StepTo
<1>25. ASSUME ResumeLaunch, OperationKeeps, UNCHANGED slip PROVE FailedInv'
  BY <1>25 DEF ResumeLaunch, End
<1>26. ASSUME NEW r \in Runs, ResumeRegister(r), OperationKeeps, UNCHANGED slip PROVE FailedInv'
  BY <1>26 DEF ResumeRegister, StepTo, Idle
<1>27. ASSUME ResumeFail, OperationKeeps PROVE FailedInv'
  BY <1>27 DEF ResumeFail, End, RemoveRun, Slip, SlipIf
<1>28. ASSUME Restart PROVE FailedInv'
  BY <1>28 DEF Restart, Slip, SlipIf
<1>29. ASSUME Leftover PROVE FailedInv'
  BY <1>29 DEF Leftover, Slip, SlipIf
<1>30. ASSUME Gone PROVE FailedInv'
  BY <1>30 DEF Gone, vars
<1>31. CASE UNCHANGED vars
  BY <1>31 DEF vars
<1> QED
  BY <1>1, <1>2, <1>3, <1>4, <1>5, <1>6, <1>7, <1>8, <1>9, <1>10, <1>11, <1>12,
     <1>13, <1>14, <1>15, <1>16, <1>17, <1>18, <1>19, <1>20, <1>21, <1>22, <1>23, <1>24,
     <1>25, <1>26, <1>27, <1>28, <1>29, <1>30, <1>31
     DEF Next, Write, Boot, Talk, Operation

\* DONE comes after the VM has gone, or is followed by a boot that cleans up.
LEMMA DoneVMStep ==
  ASSUME TypeOK, Registration, ValInv, FinalInv, BootInv, StepInv, StoppedVMInv, DoneVMInv, [Next]_vars
  PROVE  DoneVMInv'
<1> USE RunsAssumption DEF TypeOK, Actors, opVars, WriteKeeps, BootKeeps, TalkKeeps,
         OperationKeeps, Registration, OperationInv, OthersAreCancelled, ValInv, FinalInv,
         BootInv, StepInv, StoppedVMInv, DoneVMInv, ShowsDone, Settles
<1>1. ASSUME NEW r \in Runs, NEW k \in Actors, Advance(r, k), WriteKeeps PROVE DoneVMInv'
  BY <1>1 DEF Advance, Goto, StateOf
<1>2. ASSUME NEW r \in Runs, NEW k \in Actors, Reflect(r, k), WriteKeeps PROVE DoneVMInv'
  <2>1. CASE cancelled[r] /\ Finish(r, k, "reflect")
    BY <1>2, <2>1 DEF Reflect, Finish, Goto
  <2>2. CASE ~cancelled[r] /\ val[r][k] # "done" /\ Update(r, k, "reflect")
    <3>1. CASE Finish(r, k, "reflect")
      BY <1>2, <2>2, <3>1 DEF Reflect, Finish, Goto
    <3>2. CASE Goto(r, k, "reflect", "save") /\ UNCHANGED <<val, again>>
      BY <1>2, <2>2, <3>2 DEF Reflect, Goto
    <3> QED
      BY <2>2, <3>1, <3>2 DEF Update
  <2>3. CASE ~cancelled[r] /\ val[r][k] = "done" /\ Goto(r, k, "reflect", "cleanup") /\ UNCHANGED <<val, again>>
    BY <1>2, <2>3 DEF Reflect, Goto
  <2> QED
    BY <1>2, <2>1, <2>2, <2>3 DEF Reflect
<1>3. ASSUME NEW r \in Runs, NEW k \in Actors, Cleanup(r, k), WriteKeeps PROVE DoneVMInv'
  BY <1>3 DEF Cleanup, Goto, Finish, Update, Slip, SlipIf
<1>4. ASSUME NEW r \in Runs, NEW k \in Actors, Save(r, k), WriteKeeps PROVE DoneVMInv'
  BY <1>4 DEF Save, Goto, Finish, Slip, SlipIf, Stale, StateOf, Overtaken, Late
<1>5. ASSUME NEW r \in Runs, BootDestroy(r), BootKeeps PROVE DoneVMInv'
  BY <1>5 DEF BootDestroy, BootGoto, Goto
<1>6. ASSUME NEW r \in Runs, BootCreate(r), BootKeeps PROVE DoneVMInv'
  BY <1>6 DEF BootCreate, BootGoto, Goto
<1>7. ASSUME NEW r \in Runs, BootPrepare(r), BootKeeps PROVE DoneVMInv'
  BY <1>7 DEF BootPrepare, BootGoto, Goto
<1>8. ASSUME NEW r \in Runs, BootReturn(r), BootKeeps PROVE DoneVMInv'
  BY <1>8 DEF BootReturn, BootGoto, Goto
<1>9. ASSUME NEW r \in Runs, BootUnregister(r), BootKeeps PROVE DoneVMInv'
  BY <1>9 DEF BootUnregister, BootGoto, Goto, RemoveRun
<1>10. ASSUME NEW r \in Runs, BootReap(r), BootKeeps PROVE DoneVMInv'
  BY <1>10 DEF BootReap, BootGoto, Goto, Slip, SlipIf
<1>11. ASSUME NEW r \in Runs, GuestAsks(r), TalkKeeps PROVE DoneVMInv'
  BY <1>11 DEF GuestAsks, Kick
<1>12. ASSUME NEW r \in Runs, GuestReports(r), TalkKeeps PROVE DoneVMInv'
  BY <1>12 DEF GuestReports, Kick
<1>13. ASSUME NEW r \in Runs, GuestQuestions(r), TalkKeeps PROVE DoneVMInv'
  BY <1>13 DEF GuestQuestions, Goto
<1>14. ASSUME NEW r \in Runs, Decide(r), TalkKeeps PROVE DoneVMInv'
  BY <1>14 DEF Decide, Goto
<1>15. ASSUME NEW r \in Runs, Answer(r), TalkKeeps PROVE DoneVMInv'
  BY <1>15 DEF Answer
<1>16. ASSUME NEW r \in Runs, AskReturns(r), TalkKeeps PROVE DoneVMInv'
  <2>1. PICK f \in {"answered", "asked"}, t \in {"save", "idle"} : Goto(r, "ask", f, t)
    BY <1>16 DEF AskReturns
  <2>2. /\ "ask" \in Actors /\ pc[r]["ask"] = f /\ pc'[r]["ask"] = t
        /\ \A q \in Runs, j \in Actors : q # r \/ j # "ask" => pc'[q][j] = pc[q][j]
    BY <2>1 DEF Goto
  <2>3. UNCHANGED <<val, pos>>
    BY <1>16 DEF AskReturns
  <2>4. val[r]["ask"] = "running"
    BY <2>2
  <2>5. ShowsDone' => ShowsDone
    BY <1>16, <2>2, <2>3, <2>4
  <2>6. \A q \in Runs : pc'[q]["boot"] = pc[q]["boot"]
    BY <2>2
  <2> QED
    BY <1>16, <2>3, <2>5, <2>6
<1>17. ASSUME StopBegin, OperationKeeps, UNCHANGED slip PROVE DoneVMInv'
  BY <1>17 DEF StopBegin, Begin
<1>18. ASSUME RemoveBegin, OperationKeeps, UNCHANGED slip PROVE DoneVMInv'
  BY <1>18 DEF RemoveBegin, Begin
<1>19. ASSUME ResumeBegin, OperationKeeps, UNCHANGED slip PROVE DoneVMInv'
  BY <1>19 DEF ResumeBegin, Begin
<1>20. ASSUME StopCancel, OperationKeeps, UNCHANGED slip PROVE DoneVMInv'
  BY <1>20 DEF StopCancel, StepTo
<1>21. ASSUME StopWait, OperationKeeps, UNCHANGED slip PROVE DoneVMInv'
  BY <1>21 DEF StopWait, StepTo
<1>22. ASSUME StopDestroy, OperationKeeps, UNCHANGED slip PROVE DoneVMInv'
  BY <1>22 DEF StopDestroy
<1>23. ASSUME StopFinish, OperationKeeps, UNCHANGED slip PROVE DoneVMInv'
  BY <1>23 DEF StopFinish, End
<1>24. ASSUME ResumeStart, OperationKeeps, UNCHANGED slip PROVE DoneVMInv'
  BY <1>24 DEF ResumeStart, StepTo
<1>25. ASSUME ResumeLaunch, OperationKeeps, UNCHANGED slip PROVE DoneVMInv'
  BY <1>25 DEF ResumeLaunch, End
<1>26. ASSUME NEW r \in Runs, ResumeRegister(r), OperationKeeps, UNCHANGED slip PROVE DoneVMInv'
  BY <1>26 DEF ResumeRegister, StepTo, Idle
<1>27. ASSUME ResumeFail, OperationKeeps PROVE DoneVMInv'
  BY <1>27 DEF ResumeFail, End, RemoveRun, Slip, SlipIf
<1>28. ASSUME Restart PROVE DoneVMInv'
  BY <1>28 DEF Restart, Slip, SlipIf
<1>29. ASSUME Leftover PROVE DoneVMInv'
  BY <1>29 DEF Leftover, Slip, SlipIf
<1>30. ASSUME Gone PROVE DoneVMInv'
  BY <1>30 DEF Gone, vars
<1>31. CASE UNCHANGED vars
  BY <1>31 DEF vars
<1> QED
  BY <1>1, <1>2, <1>3, <1>4, <1>5, <1>6, <1>7, <1>8, <1>9, <1>10, <1>11, <1>12,
     <1>13, <1>14, <1>15, <1>16, <1>17, <1>18, <1>19, <1>20, <1>21, <1>22, <1>23, <1>24,
     <1>25, <1>26, <1>27, <1>28, <1>29, <1>30, <1>31
     DEF Next, Write, Boot, Talk, Operation

-----------------------------------------------------------------------------
(* The steps. *)

\* A write of an earlier run over STOPPED is one of the slips.
LEMMA StoppedStep ==
  ASSUME TypeOK, StepInv, BootInv, LoopInv, [Next]_vars
  PROVE  (slip' = "none" => OnlyResumeRevives)
<1> USE RunsAssumption DEF TypeOK, Actors, opVars, WriteKeeps, BootKeeps, TalkKeeps,
         OperationKeeps, StepInv, BootInv, LoopInv, OnlyResumeRevives
<1>1. ASSUME NEW r \in Runs, NEW k \in Actors, Advance(r, k), WriteKeeps PROVE (slip' = "none" => OnlyResumeRevives)
  BY <1>1 DEF Advance, Goto
<1>2. ASSUME NEW r \in Runs, NEW k \in Actors, Reflect(r, k), WriteKeeps PROVE (slip' = "none" => OnlyResumeRevives)
  BY <1>2 DEF Reflect, Goto, Finish, Update
<1>3. ASSUME NEW r \in Runs, NEW k \in Actors, Cleanup(r, k), WriteKeeps PROVE (slip' = "none" => OnlyResumeRevives)
  BY <1>3 DEF Cleanup, Goto, Finish, Update, Slip, SlipIf
<1>4. ASSUME NEW r \in Runs, NEW k \in Actors, Save(r, k), WriteKeeps PROVE (slip' = "none" => OnlyResumeRevives)
  <2> SUFFICES ASSUME slip' = "none", disk \in {"stopped", "absent"} PROVE FALSE
    BY DEF OnlyResumeRevives
  <2>1. run = NoRun /\ pc[r][k] = "save"
    BY <1>4 DEF Save, Finish, Goto
  <2>2. ~Late(r, k) /\ ~Overtaken(r, k)
    BY <1>4 DEF Save, Slip
  <2>3. k # "boot"
    BY <2>1, <2>2 DEF Overtaken
  <2>4. k = "loop"
    BY <2>1, <2>2, <2>3, CallersAssumption DEF Late
  <2> QED
    BY <2>1, <2>3, <2>4
<1>5. ASSUME NEW r \in Runs, BootDestroy(r), BootKeeps PROVE (slip' = "none" => OnlyResumeRevives)
  BY <1>5 DEF BootDestroy, BootGoto, Goto
<1>6. ASSUME NEW r \in Runs, BootCreate(r), BootKeeps PROVE (slip' = "none" => OnlyResumeRevives)
  BY <1>6 DEF BootCreate, BootGoto, Goto
<1>7. ASSUME NEW r \in Runs, BootPrepare(r), BootKeeps PROVE (slip' = "none" => OnlyResumeRevives)
  BY <1>7 DEF BootPrepare, BootGoto, Goto
<1>8. ASSUME NEW r \in Runs, BootReturn(r), BootKeeps PROVE (slip' = "none" => OnlyResumeRevives)
  BY <1>8 DEF BootReturn, BootGoto, Goto
<1>9. ASSUME NEW r \in Runs, BootUnregister(r), BootKeeps PROVE (slip' = "none" => OnlyResumeRevives)
  BY <1>9 DEF BootUnregister, BootGoto, Goto, RemoveRun
<1>10. ASSUME NEW r \in Runs, BootReap(r), BootKeeps PROVE (slip' = "none" => OnlyResumeRevives)
  BY <1>10 DEF BootReap, BootGoto, Goto, Slip, SlipIf
<1>11. ASSUME NEW r \in Runs, GuestAsks(r), TalkKeeps PROVE (slip' = "none" => OnlyResumeRevives)
  BY <1>11 DEF GuestAsks, Kick
<1>12. ASSUME NEW r \in Runs, GuestReports(r), TalkKeeps PROVE (slip' = "none" => OnlyResumeRevives)
  BY <1>12 DEF GuestReports, Kick
<1>13. ASSUME NEW r \in Runs, GuestQuestions(r), TalkKeeps PROVE (slip' = "none" => OnlyResumeRevives)
  BY <1>13 DEF GuestQuestions, Goto
<1>14. ASSUME NEW r \in Runs, Decide(r), TalkKeeps PROVE (slip' = "none" => OnlyResumeRevives)
  BY <1>14 DEF Decide, Goto
<1>15. ASSUME NEW r \in Runs, Answer(r), TalkKeeps PROVE (slip' = "none" => OnlyResumeRevives)
  BY <1>15 DEF Answer
<1>16. ASSUME NEW r \in Runs, AskReturns(r), TalkKeeps PROVE (slip' = "none" => OnlyResumeRevives)
  BY <1>16 DEF AskReturns, Goto
<1>17. ASSUME StopBegin, OperationKeeps, UNCHANGED slip PROVE (slip' = "none" => OnlyResumeRevives)
  BY <1>17 DEF StopBegin, Begin
<1>18. ASSUME RemoveBegin, OperationKeeps, UNCHANGED slip PROVE (slip' = "none" => OnlyResumeRevives)
  BY <1>18 DEF RemoveBegin, Begin
<1>19. ASSUME ResumeBegin, OperationKeeps, UNCHANGED slip PROVE (slip' = "none" => OnlyResumeRevives)
  BY <1>19 DEF ResumeBegin, Begin
<1>20. ASSUME StopCancel, OperationKeeps, UNCHANGED slip PROVE (slip' = "none" => OnlyResumeRevives)
  BY <1>20 DEF StopCancel, StepTo
<1>21. ASSUME StopWait, OperationKeeps, UNCHANGED slip PROVE (slip' = "none" => OnlyResumeRevives)
  BY <1>21 DEF StopWait, StepTo
<1>22. ASSUME StopDestroy, OperationKeeps, UNCHANGED slip PROVE (slip' = "none" => OnlyResumeRevives)
  BY <1>22 DEF StopDestroy
<1>23. ASSUME StopFinish, OperationKeeps, UNCHANGED slip PROVE (slip' = "none" => OnlyResumeRevives)
  BY <1>23 DEF StopFinish, End
<1>24. ASSUME ResumeStart, OperationKeeps, UNCHANGED slip PROVE (slip' = "none" => OnlyResumeRevives)
  BY <1>24 DEF ResumeStart, StepTo
<1>25. ASSUME ResumeLaunch, OperationKeeps, UNCHANGED slip PROVE (slip' = "none" => OnlyResumeRevives)
  BY <1>25 DEF ResumeLaunch, End
<1>26. ASSUME NEW r \in Runs, ResumeRegister(r), OperationKeeps, UNCHANGED slip PROVE (slip' = "none" => OnlyResumeRevives)
  BY <1>26 DEF ResumeRegister, StepTo, Idle
<1>27. ASSUME ResumeFail, OperationKeeps PROVE (slip' = "none" => OnlyResumeRevives)
  BY <1>27 DEF ResumeFail, End, RemoveRun, Slip, SlipIf
<1>28. ASSUME Restart PROVE (slip' = "none" => OnlyResumeRevives)
  BY <1>28 DEF Restart, Slip, SlipIf, Active
<1>29. ASSUME Leftover PROVE (slip' = "none" => OnlyResumeRevives)
  BY <1>29 DEF Leftover, Slip, SlipIf
<1>30. ASSUME Gone PROVE (slip' = "none" => OnlyResumeRevives)
  BY <1>30 DEF Gone, vars
<1>31. CASE UNCHANGED vars
  BY <1>31 DEF vars
<1> QED
  BY <1>1, <1>2, <1>3, <1>4, <1>5, <1>6, <1>7, <1>8, <1>9, <1>10, <1>11, <1>12,
     <1>13, <1>14, <1>15, <1>16, <1>17, <1>18, <1>19, <1>20, <1>21, <1>22, <1>23, <1>24,
     <1>25, <1>26, <1>27, <1>28, <1>29, <1>30, <1>31
     DEF Next, Write, Boot, Talk, Operation

\* Whoever destroys the VM of a run that goes on makes a slip.
LEMMA LiveStep ==
  ASSUME TypeOK, Registration, ValInv, FinalInv, BootInv, StepInv, NewVMInv, [Next]_vars
  PROVE  (slip' = "none" => LiveVMStays)
<1> USE RunsAssumption DEF TypeOK, Actors, opVars, WriteKeeps, BootKeeps, TalkKeeps,
         OperationKeeps, Registration, OperationInv, OthersAreCancelled, ValInv, FinalInv,
         BootInv, StepInv, NewVMInv, LiveVMStays
<1>1. ASSUME NEW r \in Runs, NEW k \in Actors, Advance(r, k), WriteKeeps PROVE (slip' = "none" => LiveVMStays)
  BY <1>1 DEF Advance, Goto
<1>2. ASSUME NEW r \in Runs, NEW k \in Actors, Reflect(r, k), WriteKeeps PROVE (slip' = "none" => LiveVMStays)
  BY <1>2 DEF Reflect, Goto, Finish, Update
<1>3. ASSUME NEW r \in Runs, NEW k \in Actors, Cleanup(r, k), WriteKeeps PROVE (slip' = "none" => LiveVMStays)
  BY <1>3 DEF Cleanup, Goto, Finish, Update, Slip, SlipIf
<1>4. ASSUME NEW r \in Runs, NEW k \in Actors, Save(r, k), WriteKeeps PROVE (slip' = "none" => LiveVMStays)
  BY <1>4 DEF Save, Goto, Finish, Slip, SlipIf
<1>5. ASSUME NEW r \in Runs, BootDestroy(r), BootKeeps PROVE (slip' = "none" => LiveVMStays)
  BY <1>5 DEF BootDestroy, BootGoto, Goto
<1>6. ASSUME NEW r \in Runs, BootCreate(r), BootKeeps PROVE (slip' = "none" => LiveVMStays)
  BY <1>6 DEF BootCreate, BootGoto, Goto
<1>7. ASSUME NEW r \in Runs, BootPrepare(r), BootKeeps PROVE (slip' = "none" => LiveVMStays)
  BY <1>7 DEF BootPrepare, BootGoto, Goto
<1>8. ASSUME NEW r \in Runs, BootReturn(r), BootKeeps PROVE (slip' = "none" => LiveVMStays)
  BY <1>8 DEF BootReturn, BootGoto, Goto
<1>9. ASSUME NEW r \in Runs, BootUnregister(r), BootKeeps PROVE (slip' = "none" => LiveVMStays)
  BY <1>9 DEF BootUnregister, BootGoto, Goto, RemoveRun
<1>10. ASSUME NEW r \in Runs, BootReap(r), BootKeeps PROVE (slip' = "none" => LiveVMStays)
  BY <1>10 DEF BootReap, BootGoto, Goto, Slip, SlipIf
<1>11. ASSUME NEW r \in Runs, GuestAsks(r), TalkKeeps PROVE (slip' = "none" => LiveVMStays)
  BY <1>11 DEF GuestAsks, Kick
<1>12. ASSUME NEW r \in Runs, GuestReports(r), TalkKeeps PROVE (slip' = "none" => LiveVMStays)
  BY <1>12 DEF GuestReports, Kick
<1>13. ASSUME NEW r \in Runs, GuestQuestions(r), TalkKeeps PROVE (slip' = "none" => LiveVMStays)
  BY <1>13 DEF GuestQuestions, Goto
<1>14. ASSUME NEW r \in Runs, Decide(r), TalkKeeps PROVE (slip' = "none" => LiveVMStays)
  BY <1>14 DEF Decide, Goto
<1>15. ASSUME NEW r \in Runs, Answer(r), TalkKeeps PROVE (slip' = "none" => LiveVMStays)
  BY <1>15 DEF Answer
<1>16. ASSUME NEW r \in Runs, AskReturns(r), TalkKeeps PROVE (slip' = "none" => LiveVMStays)
  BY <1>16 DEF AskReturns, Goto
<1>17. ASSUME StopBegin, OperationKeeps, UNCHANGED slip PROVE (slip' = "none" => LiveVMStays)
  BY <1>17 DEF StopBegin, Begin
<1>18. ASSUME RemoveBegin, OperationKeeps, UNCHANGED slip PROVE (slip' = "none" => LiveVMStays)
  BY <1>18 DEF RemoveBegin, Begin
<1>19. ASSUME ResumeBegin, OperationKeeps, UNCHANGED slip PROVE (slip' = "none" => LiveVMStays)
  BY <1>19 DEF ResumeBegin, Begin
<1>20. ASSUME StopCancel, OperationKeeps, UNCHANGED slip PROVE (slip' = "none" => LiveVMStays)
  BY <1>20 DEF StopCancel, StepTo
<1>21. ASSUME StopWait, OperationKeeps, UNCHANGED slip PROVE (slip' = "none" => LiveVMStays)
  BY <1>21 DEF StopWait, StepTo
<1>22. ASSUME StopDestroy, OperationKeeps, UNCHANGED slip PROVE (slip' = "none" => LiveVMStays)
  BY <1>22 DEF StopDestroy
<1>23. ASSUME StopFinish, OperationKeeps, UNCHANGED slip PROVE (slip' = "none" => LiveVMStays)
  BY <1>23 DEF StopFinish, End
<1>24. ASSUME ResumeStart, OperationKeeps, UNCHANGED slip PROVE (slip' = "none" => LiveVMStays)
  BY <1>24 DEF ResumeStart, StepTo
<1>25. ASSUME ResumeLaunch, OperationKeeps, UNCHANGED slip PROVE (slip' = "none" => LiveVMStays)
  BY <1>25 DEF ResumeLaunch, End
<1>26. ASSUME NEW r \in Runs, ResumeRegister(r), OperationKeeps, UNCHANGED slip PROVE (slip' = "none" => LiveVMStays)
  BY <1>26 DEF ResumeRegister, StepTo, Idle
<1>27. ASSUME ResumeFail, OperationKeeps PROVE (slip' = "none" => LiveVMStays)
  BY <1>27 DEF ResumeFail, End, RemoveRun, Slip, SlipIf
<1>28. ASSUME Restart PROVE (slip' = "none" => LiveVMStays)
  BY <1>28 DEF Restart, Slip, SlipIf
<1>29. ASSUME Leftover PROVE (slip' = "none" => LiveVMStays)
  BY <1>29 DEF Leftover, Slip, SlipIf
<1>30. ASSUME Gone PROVE (slip' = "none" => LiveVMStays)
  BY <1>30 DEF Gone, vars
<1>31. CASE UNCHANGED vars
  BY <1>31 DEF vars
<1> QED
  BY <1>1, <1>2, <1>3, <1>4, <1>5, <1>6, <1>7, <1>8, <1>9, <1>10, <1>11, <1>12,
     <1>13, <1>14, <1>15, <1>16, <1>17, <1>18, <1>19, <1>20, <1>21, <1>22, <1>23, <1>24,
     <1>25, <1>26, <1>27, <1>28, <1>29, <1>30, <1>31
     DEF Next, Write, Boot, Talk, Operation


-----------------------------------------------------------------------------
(* The theorems. *)

LEMMA AgreeInit == Init => AgreeInv
<1> SUFFICES ASSUME Init PROVE AgreeInv
  OBVIOUS
<1> USE RunsAssumption DEF Init, Actors
<1>1. ValInv /\ FinalInv /\ BootInv
  BY DEF ValInv, FinalInv, BootInv
<1>2. LoopInv /\ StepInv /\ NewVMInv /\ StoppedVMInv
  BY DEF LoopInv, StepInv, NewVMInv, StoppedVMInv
<1>3. DoneVMInv
  BY DEF DoneVMInv, ShowsDone
<1>4. AskInv /\ BlockedInv /\ RunVMInv /\ FailedInv
  BY DEF AskInv, BlockedInv, RunVMInv, FailedInv
<1> QED
  BY <1>1, <1>2, <1>3, <1>4 DEF AgreeInv

LEMMA AgreeStep == TypeOK /\ RunInv /\ AgreeInv /\ [Next]_vars => AgreeInv'
BY ValStep, FinalStep, BootStep, LoopStep, StepStep, NewVMStep, StoppedVMStep, DoneVMStep, AskStep,
   BlockedStep, RunVMStep, FailedStep
   DEF AgreeInv, RunInv

\* The invariant behind the two that follow.
THEOREM AgreeHolds == Spec => []AgreeInv
<1>1. Init => AgreeInv
  BY AgreeInit
<1>2. TypeOK /\ RunInv /\ AgreeInv /\ [Next]_vars => AgreeInv'
  BY AgreeStep
<1> QED
  BY <1>1, <1>2, TypeCorrect, RunInvariant, PTL DEF Spec

LEMMA AgreeGives == TypeOK /\ AgreeInv => StateAndVMAgreeUnlessSlip
<1> SUFFICES ASSUME TypeOK, AgreeInv PROVE StateAndVMAgreeUnlessSlip
  OBVIOUS
<1>1. ActiveIsServedUnlessSlip
  <2> SUFFICES ASSUME slip = "none", op = "none", Active(disk) PROVE Served
    BY DEF ActiveIsServedUnlessSlip
  <2>1. CASE run = NoRun
    BY <2>1 DEF AgreeInv, FailedInv, Served
  <2>2. CASE run \in Runs
    <3>1. step = "none" /\ ~cancelled[run] /\ run # NoRun
      BY <2>2, RunsAssumption DEF AgreeInv, StepInv
    <3>2. \/ pc[run]["boot"] \in {"destroy", "create", "prepare", "failed", "unregister"}
          \/ vm = run
          \/ pos = "done"
      BY <2>2, <3>1 DEF AgreeInv, RunVMInv
    <3> QED
      BY <2>2, <3>1, <3>2 DEF Served, Booting
  <2> QED
    BY <2>1, <2>2 DEF TypeOK
<1>2. NoOrphanVMUnlessSlip
  <2> SUFFICES ASSUME slip = "none", op = "none", disk \in {"stopped", "absent", "done"}, ~leftovers,
                      \A r \in Runs : pc[r]["boot"] = "idle"
               PROVE  vm = NoRun
    BY DEF NoOrphanVMUnlessSlip, NoOrphanVM
  <2>1. CASE disk = "done"
    <3>1. ShowsDone /\ step = "none"
      BY <2>1 DEF ShowsDone, AgreeInv, StepInv
    <3>2. \A r \in Runs : ~Settles(r)
      BY DEF Settles
    <3> QED
      BY <3>1, <3>2 DEF AgreeInv, DoneVMInv
  <2>2. CASE disk # "done"
    BY <2>2 DEF AgreeInv, StoppedVMInv
  <2> QED
    BY <2>1, <2>2
<1> QED
  BY <1>1, <1>2 DEF StateAndVMAgreeUnlessSlip

\* An active state is served, and no VM is left behind one that is not, in every order of
\* boots, advances, decisions, Stop, Resume, Remove and restarts, up to the first slip
\* (serve/lifecycle.go, serve/boot.go, serve/run.go).
THEOREM StateAndVMAgree == Spec => []StateAndVMAgreeUnlessSlip
BY AgreeHolds, TypeCorrect, AgreeGives, PTL

\* Nothing but Resume revives what was stopped, and nobody destroys the VM of a run that
\* goes on, except by a slip (serve/run.go, reflect; serve/boot.go, destroySandbox).
THEOREM StoppedAndLiveStay == Spec => StoppedAndLiveStayUnlessSlip
<1>1. TypeOK /\ AgreeInv /\ [Next]_vars => (slip' = "none" => OnlyResumeRevives)
  BY StoppedStep DEF AgreeInv
<1>2. TypeOK /\ RunInv /\ AgreeInv /\ [Next]_vars => (slip' = "none" => LiveVMStays)
  BY LiveStep DEF AgreeInv, RunInv
<1>3. Spec => StoppedStaysUnlessSlip
  BY <1>1, AgreeHolds, TypeCorrect, PTL DEF Spec, StoppedStaysUnlessSlip
<1>4. Spec => LiveVMStaysUnlessSlip
  BY <1>2, AgreeHolds, TypeCorrect, RunInvariant, PTL DEF Spec, LiveVMStaysUnlessSlip
<1> QED
  BY <1>3, <1>4, PTL DEF StoppedAndLiveStayUnlessSlip
=============================================================================
