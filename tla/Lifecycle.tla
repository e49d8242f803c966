------------------------------ MODULE Lifecycle ------------------------------
(***************************************************************************)
(* The life of one workspace: serve/lifecycle.go (Stop, Resume, Remove,    *)
(* recoverInterrupted), serve/boot.go (boot) and the writers of            *)
(* workspace.json in serve/run.go (advance, reflect, update, AskHuman).    *)
(*                                                                         *)
(* Stop, Resume and Remove hold lifeMu, so at most one of them (op) is     *)
(* under way.  A run (runCtl) has up to four goroutines that end in a      *)
(* write of workspace.json: its boot, the advance loop, a decision of a    *)
(* human (which advances by itself), and an ask_human.  They outlive the   *)
(* run's registration: a slot of Runs stands for a run of which some       *)
(* goroutine is still there.                                               *)
(*                                                                         *)
(* A step is one critical section, one access of workspace.json, one call  *)
(* of the sandbox service or one check of ctx.  A call of the engine is    *)
(* one step (c.mu).  Wake models how advances are asked for; here the      *)
(* guest may ask whenever it runs.  WAITING_GATE and WAITING_QUESTION are  *)
(* both "waiting".  The service always destroys a VM it is told to.        *)
(***************************************************************************)
EXTENDS FiniteSets

CONSTANTS Runs,     \* slots for runs that are alive in some goroutine
          Callers   \* the goroutines, besides its boot, that a run may have

NoRun == "no run"
OldVM == "old VM"   \* a VM that an earlier process of serve made

ASSUME RunsAssumption == {NoRun, OldVM} \cap Runs = {}
ASSUME CallersAssumption == Callers \subseteq {"loop", "direct", "ask"}

Actors == {"boot"} \cup Callers

\* workspace.State
States == {"starting", "running", "waiting", "stopped", "suspended", "done",
           "blocked"}

\* active: the states in which there should be a VM and a registered run.
Active(s) == s \in {"starting", "running", "waiting"}

VARIABLES
    disk,       \* the state in workspace.json; "absent": removed
    pos,        \* the position in engine.json; "host": host nodes to run
    run,        \* the registered run (b.runs)
    vm,         \* whose boot created the VM that exists
    pc,         \* the goroutines of the runs
    val,        \* the state a goroutine is going to write
    again,      \* the loop has been asked for another advance
    cancelled,  \* the run's ctx is cancelled
    fresh,      \* the run that Run made, until its boot is over
    op,         \* the operation that holds lifeMu
    step,       \* where it stands
    target,     \* the run it is stopping
    was,        \* the state it found, to be kept or restored
    leftovers,  \* recoverInterrupted has a VM to destroy
    slip        \* history, see Slip

opVars == <<op, step, target, was>>
vars == <<disk, pos, run, vm, pc, val, again, cancelled, fresh, opVars,
          leftovers, slip>>

-----------------------------------------------------------------------------
\* Where a goroutine of a run may be.
Places == {"idle", "destroy", "create", "prepare", "ready", "failed", "unregister",
           "reap", "advance", "reflect", "cleanup", "save", "asked", "answered"}

Slips == {"late", "boot", "leftover", "lost", "kept", "stale", "restore"}

TypeOK ==
    /\ disk \in States \cup {"absent"}
    /\ pos \in {"host", "agent", "human", "done", "blocked"}
    /\ run \in Runs \cup {NoRun}
    /\ vm \in Runs \cup {NoRun, OldVM}
    /\ pc \in [Runs -> [Actors -> Places]]
    /\ val \in [Runs -> [Actors -> States]]
    /\ again \in [Runs -> BOOLEAN]
    /\ cancelled \in [Runs -> BOOLEAN]
    /\ fresh \in Runs \cup {NoRun}
    /\ op \in {"none", "stop", "resume", "remove"}
    /\ step \in {"none", "cancel", "wait", "destroy", "finish", "start", "register",
                "launch"}
    /\ target \in Runs \cup {NoRun}
    /\ was \in States
    /\ leftovers \in BOOLEAN
    /\ slip \in Slips \cup {"none"}

\* Run has returned: the workspace is STARTING and its boot is on its way.
Init ==
    /\ disk = "starting" /\ pos = "host"
    /\ run \in Runs /\ vm = NoRun /\ fresh = run
    /\ pc = [r \in Runs |-> [k \in Actors |->
                IF r = run /\ k = "boot" THEN "create" ELSE "idle"]]
    /\ val = [r \in Runs |-> [k \in Actors |-> "running"]]
    /\ again = [r \in Runs |-> FALSE]
    /\ cancelled = [r \in Runs |-> r # run]    \* a slot that is not in use
    /\ op = "none" /\ step = "none" /\ target = NoRun /\ was = "starting"
    /\ leftovers = FALSE /\ slip = "none"

\* History: the first of the races and failures that the properties except.
\*   late      a decision or an ask_human of a removed run writes its state
\*   boot      a failed boot reaps or writes after Stop or Resume got ahead of it
\*   leftover  recoverInterrupted's background destroys the VM of a resumed run
\*   lost      serve ends again before that, or while a VM is behind DONE
\*   kept      the Cleanup in front of DONE did not destroy the VM
\*   stale     two writers of one run write in the wrong order
\*   restore   a Resume that fails restores an active state
Slip(s) == slip' = IF slip = "none" THEN s ELSE slip
SlipIf(b, s) == IF b THEN Slip(s) ELSE UNCHANGED slip

-----------------------------------------------------------------------------
(* The goroutines of a run.                                                *)

Idle(r) == \A k \in Actors : pc[r][k] = "idle"

Goto(r, k, from, to) ==
    /\ k \in Actors /\ pc[r][k] = from
    /\ pc' = [pc EXCEPT ![r][k] = to]

\* The goroutine is over with its advance or its write.  The loop turns to the
\* next advance that it was asked for, ask_human waits for the answer.
Finish(r, k, from) ==
    /\ Goto(r, k, from,
            IF k = "loop" /\ again[r] /\ ~cancelled[r] THEN "advance"
            ELSE IF k = "ask" /\ val[r][k] = "waiting" THEN "asked"
            ELSE "idle")
    /\ val' = [val EXCEPT ![r][k] = "running"]
    /\ again' = IF k = "loop" THEN [again EXCEPT ![r] = FALSE] ELSE again

\* reflect: the state that shows a position.
StateOf == [agent |-> "running", human |-> "waiting", done |-> "done",
            blocked |-> "blocked", error |-> "suspended"]

\* eng.Advance runs the host nodes up to the next wait.  It fails without a
\* record; one that is cancelled may also still come to its end.  Before the
\* end there may be a publish or a discard, which destroys the VM.
Advance(r, k) ==
    /\ Goto(r, k, "advance", "reflect")
    /\ \E st \in (IF pos = "host" THEN {"agent", "human", "done", "blocked", "error"}
                                  ELSE {pos})
                 \cup (IF cancelled[r] THEN {"error"} ELSE {}) :
          /\ pos' = IF st = "error" THEN pos ELSE st
          /\ val' = [val EXCEPT ![r][k] = StateOf[st]]
          /\ vm' \in {vm} \cup (IF pos = "host" /\ st = "done" THEN {NoRun} ELSE {})
    /\ UNCHANGED <<disk, again, slip>>

\* update reads workspace.json and writes it back.  The write is a step of its
\* own.  stateMu keeps the pairs of one run apart; that makes no difference to
\* the state, which the write does not take from what was read.
Update(r, k, from) ==
    \/ disk = "absent" /\ Finish(r, k, from)
    \/ disk # "absent" /\ Goto(r, k, from, "save") /\ UNCHANGED <<val, again>>

\* A reflect without the check of ctx.
ReflectBlind(r, k) ==
    /\ IF val[r][k] = "done"
         THEN Goto(r, k, "reflect", "cleanup") /\ UNCHANGED <<val, again>>
         ELSE Update(r, k, "reflect")
    /\ UNCHANGED <<disk, pos, vm, slip>>

\* A reflect that cleans up after an error as well.
ReflectTidy(r, k) ==
    /\ \/ cancelled[r] /\ Finish(r, k, "reflect")
       \/ ~cancelled[r] /\ val[r][k] \notin {"done", "suspended"} /\ Update(r, k, "reflect")
       \/ /\ ~cancelled[r] /\ val[r][k] \in {"done", "suspended"}
          /\ Goto(r, k, "reflect", "cleanup")
          /\ UNCHANGED <<val, again>>
    /\ UNCHANGED <<disk, pos, vm, slip>>

\* reflect's check of ctx (and update's read after it), ...
Reflect(r, k) ==
    /\ \/ cancelled[r] /\ Finish(r, k, "reflect")
       \/ ~cancelled[r] /\ val[r][k] # "done" /\ Update(r, k, "reflect")
       \/ /\ ~cancelled[r] /\ val[r][k] = "done"
          /\ Goto(r, k, "reflect", "cleanup")
          /\ UNCHANGED <<val, again>>
    /\ UNCHANGED <<disk, pos, vm, slip>>

\* ... its Cleanup under that ctx, before DONE shows; the VM stays if the export
\* in front of the destruction fails, ...
Cleanup(r, k) ==
    /\ Update(r, k, "cleanup")
    /\ vm' \in {vm} \cup (IF cancelled[r] THEN {} ELSE {NoRun})
    /\ SlipIf(vm' # NoRun, "kept")
    /\ UNCHANGED <<disk, pos>>

\* A write of a run that is not registered (any more): of a decision or a
\* question that nobody waited for, or of a failed boot that Stop or Resume
\* has got ahead of.
Late(r, k) == run # r /\ k \in {"direct", "ask"}
Overtaken(r, k) == /\ run # r /\ k = "boot"
                   /\ val[r][k] = "suspended"
                   /\ disk # "starting" \/ run # NoRun \/ step = "register"

\* A write of a state that the engine has left: two advances that reflect in the
\* wrong order, or the RUNNING of a boot that the guest has got ahead of.
Stale(r, k) == \/ /\ k # "ask" /\ val[r][k] # "suspended"
                  /\ pos # "host" /\ val[r][k] # StateOf[pos]
               \/ k = "boot" /\ disk \notin {"starting", val[r][k]}

\* ... and update's write, under the stateMu of this run only.  The directory of
\* a removed workspace is still there: it keeps exports/.
Save(r, k) ==
    /\ Finish(r, k, "save")
    /\ disk' = val[r][k]
    /\ IF Late(r, k) THEN Slip("late")
       ELSE IF Overtaken(r, k) THEN Slip("boot") ELSE SlipIf(Stale(r, k), "stale")
    /\ UNCHANGED <<pos, vm>>

\* advance and update, in whichever goroutine.
Write(r) ==
    /\ \E k \in Actors : \/ Advance(r, k) \/ Reflect(r, k) \/ Cleanup(r, k)
                         \/ Save(r, k)
    /\ UNCHANGED <<run, cancelled, fresh, opVars, leftovers>>

-----------------------------------------------------------------------------
(* boot.                                                                   *)

BootGoto(r, from, to) == Goto(r, "boot", from, to)

\* A resumed run first destroys what is left of an earlier VM.
BootDestroy(r) ==
    /\ BootGoto(r, "destroy", "create")
    /\ vm' = NoRun
    /\ UNCHANGED <<disk, run, val, cancelled, fresh, slip>>

\* CreateSandbox; one that fails, or is cancelled, may have made the VM.
BootCreate(r) ==
    /\ \/ BootGoto(r, "create", "prepare") /\ vm = NoRun /\ vm' = r
       \/ BootGoto(r, "create", "failed") /\ vm' \in IF vm = NoRun THEN {vm, r} ELSE {vm}
    /\ UNCHANGED <<disk, run, val, cancelled, fresh, slip>>

\* The guest is prepared and the main session launched, unless an Exec fails.
BootPrepare(r) ==
    /\ \/ BootGoto(r, "prepare", "ready") /\ vm = r
       \/ BootGoto(r, "prepare", "failed")
    /\ UNCHANGED <<disk, run, vm, val, cancelled, fresh, slip>>

\* A boot that forgets to clean up when it fails.
BootReturnForgets(r) ==
    /\ \/ BootGoto(r, "failed", "idle")
       \/ cancelled[r] /\ BootGoto(r, "ready", "idle")
       \/ ~cancelled[r] /\ BootGoto(r, "ready", IF r = fresh THEN "save" ELSE "advance")
    /\ fresh' = IF r = fresh THEN NoRun ELSE fresh
    /\ UNCHANGED <<disk, run, vm, val, cancelled, slip>>

\* bootSandbox has returned: a cancelled boot leaves everything to Stop.  A new
\* run is RUNNING, a resumed one advances and shows where it is.
BootReturn(r) ==
    /\ \/ cancelled[r] /\ (BootGoto(r, "ready", "idle") \/ BootGoto(r, "failed", "idle"))
       \/ ~cancelled[r] /\ BootGoto(r, "failed", "unregister")
       \/ /\ ~cancelled[r]
          /\ BootGoto(r, "ready", IF disk = "absent" THEN "unregister"
                                  ELSE IF r = fresh THEN "save" ELSE "advance")
    /\ fresh' = IF r = fresh THEN NoRun ELSE fresh
    /\ UNCHANGED <<disk, run, vm, val, cancelled, slip>>

\* A removeRun that does not close the run.
RemoveRunQuiet == run' = NoRun /\ UNCHANGED cancelled

\* removeRun, which also cancels.
RemoveRun ==
    /\ run' = NoRun
    /\ cancelled' = [r \in Runs |-> r = run \/ cancelled[r]]

\* The boot failed (or the workspace is gone): the run is removed, ...
BootUnregister(r) ==
    /\ BootGoto(r, "unregister", "reap")
    /\ RemoveRun
    /\ UNCHANGED <<disk, vm, val, fresh, slip>>

\* ... the VM destroyed and then SUSPENDED written.  Nothing holds back a Stop
\* meanwhile, nor the Resume behind it.
BootReap(r) ==
    /\ BootGoto(r, "reap", IF disk = "absent" THEN "idle" ELSE "save")
    /\ vm' = NoRun
    /\ val' = [val EXCEPT ![r]["boot"] = IF disk = "absent" THEN "running" ELSE "suspended"]
    /\ SlipIf(vm \notin {r, NoRun}, "boot")
    /\ UNCHANGED <<disk, run, cancelled, fresh>>

Boot(r) ==
    /\ \/ BootDestroy(r) \/ BootCreate(r) \/ BootPrepare(r) \/ BootReturn(r)
       \/ BootUnregister(r) \/ BootReap(r)
    /\ UNCHANGED <<pos, again, opVars, leftovers>>

-----------------------------------------------------------------------------
(* The guest and the human.                                                *)

\* The main session runs, and the run's MCP server listens.
Connected(r) == /\ run = r /\ vm = r
                /\ pc[r]["boot"] \notin {"destroy", "create", "prepare", "failed",
                                         "unregister", "reap"}

Kick(r) ==
    /\ "loop" \in Callers
    /\ IF pc[r]["loop"] = "idle"
         THEN pc' = [pc EXCEPT ![r]["loop"] = "advance"] /\ UNCHANGED again
         ELSE again' = [again EXCEPT ![r] = TRUE] /\ UNCHANGED pc

\* next_task
GuestAsks(r) ==
    /\ Connected(r) /\ ~cancelled[r]
    /\ Kick(r)
    /\ UNCHANGED <<pos, val>>

\* report_result
GuestReports(r) ==
    /\ Connected(r) /\ ~cancelled[r] /\ pos = "agent"
    /\ "ask" \in Callers => pc[r]["ask"] = "idle"
    /\ pos' = "host"
    /\ Kick(r)
    /\ UNCHANGED val

\* ask_human, which does not look at the run's ctx before it writes
GuestQuestions(r) ==
    /\ Connected(r) /\ pos = "agent"
    /\ Goto(r, "ask", "idle", "save")
    /\ val' = [val EXCEPT ![r]["ask"] = "waiting"]
    /\ UNCHANGED <<pos, again>>

\* GateService.Decide, QuestionService.Answer of a question of the workflow
Decide(r) ==
    /\ run = r /\ ~cancelled[r] /\ pos = "human"
    /\ pos' = "host"
    /\ Goto(r, "direct", "idle", "advance")
    /\ UNCHANGED <<val, again>>

\* QuestionService.Answer of what ask_human asks
Answer(r) ==
    /\ run = r /\ ~cancelled[r]
    /\ {"ask", "direct"} \subseteq Callers
    /\ pc[r]["ask"] = "asked" /\ pc[r]["direct"] = "idle"
    /\ pc' = [pc EXCEPT ![r]["ask"] = "answered", ![r]["direct"] = "advance"]
    /\ UNCHANGED <<pos, val, again>>

\* ask_human wakes up: with the answer, or because the run is stopped.  (Its
\* own limit, a week, is left out.)
AskReturns(r) ==
    /\ \/ disk # "absent" /\ Goto(r, "ask", "answered", "save")
       \/ cancelled[r] /\ Goto(r, "ask", "asked", "idle")
       \/ (cancelled[r] \/ disk = "absent") /\ Goto(r, "ask", "answered", "idle")
    /\ UNCHANGED <<pos, val, again>>

Talk(r) ==
    /\ \/ GuestAsks(r) \/ GuestReports(r) \/ GuestQuestions(r)
       \/ Decide(r) \/ Answer(r) \/ AskReturns(r)
    /\ UNCHANGED <<disk, run, vm, cancelled, fresh, opVars, leftovers, slip>>

-----------------------------------------------------------------------------
(* Stop, Resume and Remove, under lifeMu.                                  *)

Begin(o, s) == op = "none" /\ op' = o /\ step' = s /\ was' = disk
StepTo(from, to) == step = from /\ step' = to /\ UNCHANGED <<op, was>>
End(s) == step = s /\ op' = "none" /\ step' = "none" /\ was' = "starting"

\* STOPPED is left as it is and DONE refused.
StopBegin ==
    /\ disk \notin {"absent", "stopped", "done"}
    /\ Begin("stop", "cancel")
    /\ UNCHANGED <<disk, run, vm, pc, cancelled, fresh, target>>

\* With force; without it an active workspace is refused.
RemoveBegin ==
    /\ disk # "absent"
    /\ Begin("remove", "cancel")
    /\ UNCHANGED <<disk, run, vm, pc, cancelled, fresh, target>>

\* Only STOPPED and SUSPENDED; a SUSPENDED run is stopped first.
ResumeBegin ==
    /\ \/ disk = "stopped" /\ run = NoRun /\ Begin("resume", "start")
       \/ disk = "suspended" /\ Begin("resume", "cancel")
    /\ UNCHANGED <<disk, run, vm, pc, cancelled, fresh, target>>

\* stopRun: cancel the registered run, ...
StopCancel ==
    /\ StepTo("cancel", IF run = NoRun THEN "destroy" ELSE "wait")
    /\ target' = run
    /\ cancelled' = [r \in Runs |-> r = run \/ cancelled[r]]
    /\ UNCHANGED <<disk, run, vm, pc, fresh>>

\* A stopRun that does not wait for the boot.
StopWaitNoBoot ==
    /\ StepTo("wait", "destroy")
    /\ "loop" \in Callers => pc[target]["loop"] \in {"idle", "advance"}
    /\ run' = NoRun
    /\ target' = NoRun
    /\ UNCHANGED <<disk, vm, pc, cancelled, fresh>>

\* ... wait for its boot and its loop, for the loop only for two minutes (long
\* enough for anything but a host node), and remove it, ...
StopWait ==
    /\ StepTo("wait", "destroy")
    /\ pc[target]["boot"] = "idle"
    /\ "loop" \in Callers => pc[target]["loop"] \in {"idle", "advance"}
    /\ run' = NoRun
    /\ target' = NoRun
    /\ UNCHANGED <<disk, vm, pc, cancelled, fresh>>

\* ... and destroy the VM.  Resume then reads workspace.json again.
StopDestroy ==
    /\ step = "destroy" /\ step' = (IF op = "resume" THEN "start" ELSE "finish")
    /\ was' = IF op = "resume" THEN disk ELSE was
    /\ vm' = NoRun
    /\ UNCHANGED <<disk, run, pc, cancelled, fresh, op, target>>

\* What was BLOCKED when Stop came stays so.
StopFinish ==
    /\ End("finish")
    /\ disk' = IF op = "remove" THEN "absent"
               ELSE IF was = "blocked" THEN disk ELSE "stopped"
    /\ UNCHANGED <<run, vm, pc, cancelled, fresh, target>>

\* Resume writes STARTING, ...
ResumeStart ==
    /\ StepTo("start", "register")
    /\ disk' = "starting"
    /\ UNCHANGED <<run, vm, pc, cancelled, fresh, target>>

\* ... makes a run, ...
ResumeRegister(r) ==
    /\ StepTo("register", "launch")
    /\ r # run /\ r # vm /\ Idle(r)
    /\ run' = r
    /\ cancelled' = [cancelled EXCEPT ![r] = FALSE]
    /\ UNCHANGED <<disk, vm, pc, fresh, target>>

\* ... and boots it in the background; ...
ResumeLaunch ==
    /\ End("launch")
    /\ pc' = [pc EXCEPT ![run]["boot"] = "destroy"]
    /\ UNCHANGED <<disk, run, vm, cancelled, fresh, target>>

\* ... if it cannot make the run or discard the questions, it removes the run
\* and restores what it found (and the run that it stopped may have been active
\* again by then).
ResumeFail ==
    /\ End("register") \/ End("launch")
    /\ RemoveRun
    /\ disk' = was
    /\ SlipIf(Active(was), "restore")
    /\ UNCHANGED <<vm, pc, fresh, target>>

Operation ==
    /\ \/ /\ \/ StopBegin \/ RemoveBegin \/ ResumeBegin
             \/ StopCancel \/ StopWait \/ StopDestroy \/ StopFinish
             \/ ResumeStart \/ ResumeLaunch
             \/ \E r \in Runs : ResumeRegister(r)
          /\ UNCHANGED slip
       \/ ResumeFail
    /\ UNCHANGED <<pos, val, again, leftovers>>

-----------------------------------------------------------------------------
(* The process.                                                            *)

\* serve ends, at any moment, and starts again: recoverInterrupted makes an
\* active workspace STOPPED and leaves its VM to the background.
Restart ==
    /\ disk' = IF Active(disk) THEN "stopped" ELSE disk
    /\ leftovers' = Active(disk)
    /\ SlipIf(vm # NoRun /\ (leftovers \/ disk = "done"), "lost")
    /\ vm' = IF vm = NoRun THEN NoRun ELSE OldVM
    /\ run' = NoRun /\ fresh' = NoRun
    /\ pc' = [r \in Runs |-> [k \in Actors |-> "idle"]]
    /\ val' = [r \in Runs |-> [k \in Actors |-> "running"]]
    /\ again' = [r \in Runs |-> FALSE]
    /\ cancelled' = [r \in Runs |-> TRUE]
    /\ op' = "none" /\ step' = "none" /\ target' = NoRun /\ was' = "starting"
    /\ UNCHANGED pos

\* What recoverInterrupted left: it holds no lock.
Leftover ==
    /\ leftovers /\ leftovers' = FALSE
    /\ vm' = NoRun
    /\ SlipIf(vm \in Runs, "leftover")
    /\ UNCHANGED <<disk, pos, run, pc, val, again, cancelled, fresh, opVars>>

\* Removed, and nothing goes on any more.
Gone ==
    /\ disk = "absent" /\ op = "none" /\ ~leftovers
    /\ \A r \in Runs : Idle(r)
    /\ UNCHANGED vars

Next == \/ \E r \in Runs : Write(r) \/ Boot(r) \/ Talk(r)
        \/ Operation \/ Restart \/ Leftover \/ Gone

Spec == Init /\ [][Next]_vars

-----------------------------------------------------------------------------
(* What is promised.                                                       *)

Booting(r) == pc[r]["boot"] \in {"destroy", "create", "prepare", "ready", "failed"}

\* A goroutine of a run that is no longer in b.runs has been told to stop, and
\* only one boot at a time is making a VM, although a boot holds no lock: Stop
\* and Resume wait for bootDone before they take the run away.
OneRunAtATime ==
    /\ \A r \in Runs : ~cancelled[r] => r = run
    /\ \A r, q \in Runs : Booting(r) /\ Booting(q) => r = q

\* A stopped or removed workspace comes back by a step of Resume only: no
\* goroutine of an earlier run writes over the STOPPED of Stop or brings
\* workspace.json back after Remove (reflect's comment, run.go).
OnlyResumeRevives == disk \in {"stopped", "absent"} /\ disk' \notin {"stopped", "absent"}
                        => op = "resume" /\ step' # step
\* Except for the writes that Late and Overtaken describe: what the advance loop and
\* a boot that Stop waits for can do (reflect's comment, run.go).
StoppedStaysUnlessSlip == [][slip' = "none" => OnlyResumeRevives]_vars

\* Where workspace.json shows an active state (lifecycle.go, active) there is a
\* run that serves it with its VM, or a boot on its way to one, or the news of
\* the end or of the failed boot is on its way.
Served == \/ run # NoRun /\ ~cancelled[run]
             /\ \/ Booting(run) \/ vm = run
                \/ pos = "done"
          \/ \E r \in Runs : pc[r]["boot"] \in {"unregister", "reap", "save"}

\* As long as none of the slips has happened, no order of a boot, the reflects,
\* Stop, Resume and a restart leaves an active state that nobody is going to
\* change.
ActiveIsServedUnlessSlip == slip = "none" /\ op = "none" /\ Active(disk) => Served

\* A VM is not left behind STOPPED, DONE or a removed workspace once Stop,
\* reflect or recoverInterrupted are through (destroySandbox, Cleanup); the
\* slips are a clean-up that failed and a second crash.
NoOrphanVM ==
    /\ op = "none" /\ disk \in {"stopped", "absent", "done"} /\ ~leftovers
    /\ \A r \in Runs : pc[r]["boot"] = "idle"
    => vm = NoRun
NoOrphanVMUnlessSlip == slip = "none" => NoOrphanVM

\* Nobody destroys the VM of a registered run that goes on, except at its end:
\* destroySandbox names a workspace, not a run, and four places call it.
LiveVMStays == run # NoRun /\ ~cancelled[run] /\ vm = run
                 => vm' = run \/ pos' = "done" \/ cancelled'[run]
LiveVMStaysUnlessSlip == [][slip' = "none" => LiveVMStays]_vars

\* An active state is served, and no VM is left behind one that is not
\* (serve/lifecycle.go, serve/boot.go).
StateAndVMAgreeUnlessSlip == ActiveIsServedUnlessSlip /\ NoOrphanVMUnlessSlip

\* What a step of any of them may not do: revive what was stopped, or destroy the VM of a
\* run that goes on (serve/run.go, reflect; serve/boot.go, destroySandbox).
StoppedAndLiveStayUnlessSlip == StoppedStaysUnlessSlip /\ LiveVMStaysUnlessSlip
=============================================================================
