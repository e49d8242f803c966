---------------------------- MODULE LifecycleInv ----------------------------
(* The inductive invariant behind OneRunAtATime: what lifeMu, the wait for   *)
(* bootDone and the order in stopRun achieve together.                       *)
EXTENDS Lifecycle

\* A boot that still makes a VM, or is about to remove its run.
Making(r) == Booting(r) \/ pc[r]["boot"] = "unregister"

\* It is the boot of the registered run: stopRun waits for it.
BootIsRegistered == \A r \in Runs : Making(r) => r = run

\* What is registered while an operation is under way.
OperationInv ==
    /\ step = "wait" => /\ target \in Runs /\ run \in {target, NoRun}
                        /\ \A r \in Runs : cancelled[r]
    /\ step \in {"destroy", "finish", "start", "register"} => run = NoRun
    /\ step = "launch" => run \in Runs /\ pc[run]["boot"] = "idle"

\* Nobody removes the workspace under an operation: only Remove does, at its end.
PresentMeanwhile == op # "none" => disk # "absent"

\* removeRun and Stop cancel what they take out of b.runs.
OthersAreCancelled == \A r \in Runs : ~cancelled[r] => r = run

\* The inductive invariant: with it every step keeps OneRunAtATime.
Registration == OthersAreCancelled /\ BootIsRegistered /\ OperationInv
RunInv == Registration /\ PresentMeanwhile

-----------------------------------------------------------------------------
(* The invariant behind StateAndVMAgreeUnlessSlip and                        *)
(* StoppedAndLiveStayUnlessSlip.                                             *)

\* What a goroutine is going to write: it has decided only where it is about to.
ValInv ==
    \A r \in Runs, k \in Actors :
        /\ pc[r][k] \notin {"reflect", "cleanup", "save"} => val[r][k] = "running"
        /\ pc[r][k] = "cleanup" => val[r][k] = "done"
        /\ val[r][k] # "stopped"

\* DONE and BLOCKED are final positions of the engine, whoever shows them.
FinalInv ==
    \A s \in {"done", "blocked"} :
        /\ disk = s \/ was = s => pos = s
        /\ \A r \in Runs, k \in Actors : val[r][k] = s => pos = s

\* The boot of a run that is not registered only has its failure to write.
BootInv ==
    \A r \in Runs :
        /\ pc[r]["boot"] \notin {"idle", "reap"}
              /\ ~(pc[r]["boot"] = "save" /\ val[r]["boot"] = "suspended") => r = run
        /\ pc[r]["boot"] = "reap" => r # run

\* The loop is waited for; it begins when the main session is there, which is not
\* before the boot has made the VM.
LoopInv ==
    \A r \in Runs, k \in Callers : k = "loop" =>
        /\ pc[r][k] \in {"cleanup", "save"} => r = run
        /\ pc[r]["boot"] \in {"destroy", "create", "prepare", "failed", "unregister"}
              \/ (step = "launch" /\ r = run)
           => pc[r][k] = "idle"

\* Nothing is registered where there is no run to be; the steps of an operation.
StepInv ==
    /\ disk \in {"stopped", "absent"} => run = NoRun
    /\ step = "register" => disk # "stopped"
    /\ op = "none" <=> step = "none"
    /\ step \in {"start", "register", "launch"} => op = "resume"
    /\ step = "finish" => op \in {"stop", "remove"}
    /\ run # NoRun /\ (\E r \in Runs : r = run /\ cancelled[r]) => step = "wait"

\* A new run does not have the VM yet.
NewVMInv ==
    \A r \in Runs :
        pc[r]["boot"] \in {"destroy", "create"} \/ (step = "launch" /\ r = run) => vm # r

\* No VM where the state says so, or the background is going to destroy it.
StoppedVMInv ==
    /\ step = "finish" => vm = NoRun
    /\ slip = "none" =>
        /\ disk \in {"stopped", "absent"} => leftovers \/ vm = NoRun
        /\ step \in {"start", "register", "launch"} => vm = NoRun \/ (leftovers /\ was = "stopped")

\* A boot that comes to clean up behind DONE, or to a write that is a slip.
Settles(r) ==
    \/ pc[r]["boot"] \in {"prepare", "ready", "failed", "unregister", "reap", "advance"}
    \/ pc[r]["boot"] \in {"reflect", "cleanup"} /\ (val[r]["boot"] = "done" \/ cancelled[r])
    \/ pc[r]["boot"] = "save" /\ val[r]["boot"] = "running"

\* DONE comes after a Cleanup, and what makes a VM behind it destroys it again.
ShowsDone == disk = "done" \/ \E r \in Runs, k \in Actors : pc[r][k] = "save" /\ val[r][k] = "done"
DoneVMInv ==
    slip = "none" /\ ShowsDone =>
        vm = NoRun \/ step \in {"wait", "destroy"} \/ \E r \in Runs : Settles(r)

\* ask_human is a tool of the agent, which does not report meanwhile.
AskInv == \A r \in Runs, k \in Callers : k = "ask" /\ r = run /\ pc[r][k] # "idle" => pos = "agent"

\* A Stop that found BLOCKED does not find an active state at its end.
BlockedInv == slip = "none" /\ op = "stop" /\ was = "blocked" => ~Active(disk)

\* A registered run that goes on has a VM, is about to, or is at its end.
RunVMInv ==
    \A r \in Runs : slip = "none" /\ r = run /\ ~cancelled[r] /\ step # "launch" =>
        \/ pc[r]["boot"] \in {"destroy", "create", "prepare", "failed", "unregister"}
        \/ vm = r
        \/ pos = "done"

\* An active state without a run is that of a boot that has failed.
FailedInv ==
    slip = "none" /\ op = "none" /\ run = NoRun /\ Active(disk) =>
        \E r \in Runs : pc[r]["boot"] \in {"reap", "save"}

AgreeInv ==
    /\ ValInv /\ FinalInv /\ BootInv /\ LoopInv /\ StepInv /\ NewVMInv /\ StoppedVMInv
    /\ DoneVMInv /\ AskInv /\ BlockedInv /\ RunVMInv /\ FailedInv
=============================================================================
