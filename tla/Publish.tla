------------------------------ MODULE Publish ------------------------------
(***************************************************************************)
(* The ends of a workspace: the staging repository against the user's      *)
(* repository and its remote (staging.Create, PublishLocal, PushRemote),   *)
(* and the ends of its VM.  Cleanup, with its exports, is what the publish *)
(* node, the reflect of DONE and stopRun (Stop, Remove, Resume of          *)
(* SUSPENDED) call; a boot that clears what is left or has failed, and a   *)
(* serve that starts over, destroy the VM alone.                           *)
(*                                                                         *)
(* A branch of the user's is a tip: the newest staging commit it contains   *)
(* and the number of the user's own commits on top.  A step is one git     *)
(* command, one step of Cleanup, or one call of the sandbox service.       *)
(***************************************************************************)
EXTENDS Integers

CONSTANTS MaxCommits,  \* bound: commits of the staging branch
          MaxUser,     \* bound: commits of the user, here and at the remote
          MaxFaults    \* bound: failures, ends of serve

ASSUME BoundsAssumption == {MaxCommits, MaxUser, MaxFaults} \subseteq Nat /\ MaxCommits > 0

Places == {"local", "remote"}
Cleaners == {"engine", "stop"}
Operations == {"stop", "resume", "remove"}

VARIABLES
    ws,        \* workspace.json: its state, as far as it matters here
    pos,       \* the engine's record: whether it is at the end of the workflow
    run,       \* the runCtl: none, where its boot stands, up, or cancelled
    halt,      \* the holder of lifeMu that is in stopRun
    failing,   \* a boot has failed: its VM and its state are still to do
    todo,      \* recoverInterrupted: its VM is still to do
    top,       \* the staging branch: the number of its newest commit
    approved,  \* the commit approved in the review gate
    tip,       \* the branch of the user's repository and of the remote
    work,      \* the user's working tree: whether the branch is checked out, and at what
    job,       \* the publish node: where it stands, what it has read
    clean,     \* Cleanup: where each caller stands
    destroyed, \* Runner.destroyed
    vm,        \* the sandbox of the workspace's name: see VM
    exported,  \* the execution log in exports/: none, behind the log, or as the log
    faults,
    slip       \* history: see Slips

runVars == <<pos, run, halt, failing, todo>>
gitVars == <<top, approved, tip, work>>
cleanVars == <<clean, destroyed, vm, exported>>
vars == <<ws, runVars, gitVars, job, cleanVars, faults, slip>>

Tip == [at : Nat, own : Nat]
NoTip == [at |-> 0, own |-> 0]
Idle == [at |-> "idle", to |-> "local", old |-> NoTip]

\* Whether it is up, the session has been launched in it, its transcripts are exported
\* as far as they can be read; and whether it is of no run, left by a serve that ended
\* or by a stopRun that could not destroy it.
VM == [up : BOOLEAN, live : BOOLEAN, talks : BOOLEAN, orphan : BOOLEAN]
NoVM == [up |-> FALSE, live |-> FALSE, talks |-> FALSE, orphan |-> FALSE]

Booting == {"clear", "create", "launch"}

\* checkout   the user checked the branch out after PublishLocal had looked, or
\* elsewhere  left it
\* failed     a Cleanup failed, or stopRun went on before the engine's had come back
Slips == {"checkout", "elsewhere", "failed"}

TypeOK ==
    /\ ws \in {"new", "resolved", "refused", "active", "suspended", "stopped", "done", "removed"}
    /\ pos \in {"open", "end"}
    /\ run \in {"none", "up", "cut"} \cup Booting
    /\ halt \in Operations \cup {"none"}
    /\ failing \in BOOLEAN /\ todo \in BOOLEAN
    /\ top \in 0..MaxCommits /\ approved \in 0..MaxCommits
    /\ tip \in [Places -> Tip]
    /\ work \in [on : BOOLEAN, at : Tip]
    /\ job \in [at : {"idle", "check", "fetch", "read", "merge", "ref", "push", "cleanup"}, to : Places, old : Tip]
    /\ clean \in [Cleaners -> {"idle", "lock", "export", "exportonly", "destroy", "ok", "failed", "end"}]
    /\ destroyed \in BOOLEAN /\ vm \in VM
    /\ exported \in {"none", "behind", "current"}
    /\ faults \in 0..MaxFaults
    /\ slip \in SUBSET Slips

\* The branch does not exist in the user's repository, or is at the base.
Init ==
    /\ ws = "new" /\ pos = "open" /\ run = "none" /\ halt = "none"
    /\ failing = FALSE /\ todo = FALSE
    /\ top = 0 /\ approved = 0
    /\ tip \in [local : {NoTip, [at |-> 1, own |-> 0]}, remote : {NoTip, [at |-> 1, own |-> 0]}]
    /\ work = [on |-> FALSE, at |-> NoTip]
    /\ job = Idle
    /\ clean = [c \in Cleaners |-> "idle"]
    /\ destroyed = FALSE /\ vm = NoVM /\ exported = "none"
    /\ faults = 0 /\ slip = {}

Fault == faults < MaxFaults /\ faults' = faults + 1

(***************************************************************************)
(* The beginning of a run, and the engine between its nodes                *)
(***************************************************************************)

\* Create refuses a branch that exists, unless --existing asks to go on with it.
CreateResolve(existing) ==
    /\ ws = "new"
    /\ ws' = IF tip["local"] # NoTip /\ ~existing THEN "refused" ELSE "resolved"
    /\ UNCHANGED <<runVars, gitVars, job, cleanVars, faults, slip>>

\* The clone, with the branch at the commit that was read; then the run.
CreateClone ==
    /\ ws = "resolved"
    /\ ws' = "active" /\ top' = 1 /\ run' = "create"
    /\ UNCHANGED <<pos, halt, failing, todo, approved, tip, work, job, cleanVars, faults, slip>>

\* A line of the log is not in the exports yet.
Log == exported' = IF exported = "none" THEN "none" ELSE "behind"

\* The engine advances for whoever asks, in SUSPENDED too while the run is there.
EngineIdle ==
    /\ ws \in {"active", "suspended"} /\ run = "up" /\ pos = "open"
    /\ job = Idle /\ clean["engine"] = "idle"

\* A commit node, and the review gate for what the branch is at.
Commit ==
    /\ EngineIdle /\ vm.up /\ top < MaxCommits
    /\ top' = top + 1 /\ ws' = "active"
    /\ Log
    /\ UNCHANGED <<runVars, approved, tip, work, job, clean, destroyed, vm, faults, slip>>

Approve ==
    /\ EngineIdle /\ approved # top
    /\ approved' = top
    /\ UNCHANGED <<ws, runVars, top, tip, work, job, cleanVars, faults, slip>>

\* A workflow may end without publish or discard.
EndNode ==
    /\ EngineIdle /\ approved > 0
    /\ pos' = "end" /\ Log
    /\ UNCHANGED <<ws, run, halt, failing, todo, gitVars, job, clean, destroyed, vm, faults, slip>>

(***************************************************************************)
(* The publish node                                                        *)
(***************************************************************************)

FastForward(t, c) == t.own = 0 /\ t.at <= c
Includes(t, c) == c <= t.at

Goto(at) == job' = [job EXCEPT !.at = at] /\ ws' = ws
GotoCleanup == job' = [Idle EXCEPT !.at = "cleanup"] /\ ws' = ws
\* The node returns an error: the workspace is SUSPENDED.  The node runs again when the
\* session asks again, or in a new VM after Resume.
Suspend == job' = Idle /\ ws' = "suspended"

PublishBegin(to) ==
    /\ EngineIdle /\ approved > 0
    /\ job' = [Idle EXCEPT !.at = "check", !.to = to]
    /\ UNCHANGED <<ws, runVars, gitVars, cleanVars, faults, slip>>

\* CheckHead, which PublishLocal repeats after the fetch, for FETCH_HEAD.
PublishCheck ==
    /\ job.at \in {"check", "fetch"}
    /\ IF top # approved THEN Suspend
       ELSE Goto(IF job.to = "remote" THEN "push" ELSE IF job.at = "check" THEN "fetch" ELSE "read")
    /\ UNCHANGED <<runVars, gitVars, cleanVars, faults, slip>>

\* Whether the branch is checked out is read first, the branch after it.
PublishRead ==
    /\ job.at = "read"
    /\ IF work.on THEN Goto("merge")
       ELSE job' = [job EXCEPT !.at = "ref", !.old = tip["local"]] /\ ws' = ws
    /\ UNCHANGED <<runVars, gitVars, cleanVars, faults, slip>>

\* update-ref without the old value.
PublishRefBlind ==
    /\ job.at = "ref"
    /\ IF FastForward(job.old, approved)
       THEN /\ tip' = [tip EXCEPT !["local"] = [at |-> approved, own |-> 0]]
            /\ slip' = IF work.on THEN slip \cup {"checkout"} ELSE slip
            /\ GotoCleanup
       ELSE Suspend /\ UNCHANGED <<tip, slip>>
    /\ UNCHANGED <<runVars, top, approved, work, cleanVars, faults>>

\* update-ref with the branch that was read as the old value.
PublishRef ==
    /\ job.at = "ref"
    /\ IF FastForward(job.old, approved) /\ tip["local"] = job.old
       THEN /\ tip' = [tip EXCEPT !["local"] = [at |-> approved, own |-> 0]]
            /\ slip' = IF work.on THEN slip \cup {"checkout"} ELSE slip
            /\ GotoCleanup
       ELSE Suspend /\ UNCHANGED <<tip, slip>>
    /\ UNCHANGED <<runVars, top, approved, work, cleanVars, faults>>

\* merge --ff-only, in the working tree.  A branch that contains the commit is up
\* to date; git refuses what is no fast-forward, or would overwrite changes of the
\* user's.
PublishMerge ==
    /\ job.at = "merge" /\ work.on
    /\ \/ /\ FastForward(tip["local"], approved)
          /\ tip' = [tip EXCEPT !["local"] = [at |-> approved, own |-> 0]]
          /\ work' = [work EXCEPT !.at = [at |-> approved, own |-> 0]]
          /\ GotoCleanup
       \/ /\ Includes(tip["local"], approved)
          /\ GotoCleanup /\ UNCHANGED <<tip, work>>
       \/ /\ ~Includes(tip["local"], approved)
          /\ Suspend /\ UNCHANGED <<tip, work>>
    /\ UNCHANGED <<runVars, top, approved, cleanVars, faults, slip>>

\* The user has left the branch since: the merge goes to whatever branch is
\* checked out now, if that is a fast-forward.
PublishElsewhere ==
    /\ job.at = "merge" /\ ~work.on
    /\ \/ GotoCleanup /\ slip' = slip \cup {"elsewhere"}
       \/ Suspend /\ slip' = slip
    /\ UNCHANGED <<runVars, gitVars, cleanVars, faults>>

\* push without force: the remote takes a fast-forward only.
PublishPush ==
    /\ job.at = "push"
    /\ IF FastForward(tip["remote"], approved)
       THEN tip' = [tip EXCEPT !["remote"] = [at |-> approved, own |-> 0]] /\ GotoCleanup
       ELSE tip' = tip /\ Suspend
    /\ UNCHANGED <<runVars, top, approved, work, cleanVars, faults, slip>>

\* discard is Cleanup alone.
Discard ==
    /\ EngineIdle
    /\ job' = [Idle EXCEPT !.at = "cleanup"]
    /\ UNCHANGED <<ws, runVars, gitVars, cleanVars, faults, slip>>

(***************************************************************************)
(* The VM of a run                                                         *)
(***************************************************************************)

\* Only a boot of Resume clears what is left; an error of it is ignored.
BootClear ==
    /\ run = "clear"
    /\ run' = "create"
    /\ \/ vm' = NoVM /\ faults' = faults
       \/ vm' = vm /\ Fault
    /\ UNCHANGED <<ws, pos, halt, failing, todo, gitVars, job, clean, destroyed, exported, slip>>

BootCreate ==
    /\ run = "create" /\ ~vm.up
    /\ run' = "launch" /\ vm' = [NoVM EXCEPT !.up = TRUE]
    /\ UNCHANGED <<ws, pos, halt, failing, todo, gitVars, job, clean, destroyed, exported, faults, slip>>

\* The session is launched last; then the run goes on from where the engine is.
BootLaunch ==
    /\ run = "launch"
    /\ run' = "up" /\ vm' = [vm EXCEPT !.live = vm.up]
    /\ UNCHANGED <<ws, pos, halt, failing, todo, gitVars, job, clean, destroyed, exported, faults, slip>>

\* A step of the boot fails; the last one may do so with the session launched.  There
\* is no second sandbox of one name.
BootFails ==
    /\ run \in Booting
    /\ IF run = "create" /\ vm.up THEN faults' = faults ELSE Fault
    /\ run' = "none" /\ failing' = TRUE
    /\ vm' = vm \/ (run = "launch" /\ vm' = [vm EXCEPT !.live = vm.up])
    /\ UNCHANGED <<ws, pos, halt, todo, gitVars, job, clean, destroyed, exported, slip>>

\* boot destroys the sandbox of the workspace, whoever made it, and writes SUSPENDED.
FailEnds ==
    /\ failing /\ failing' = FALSE
    /\ vm' = NoVM
    /\ ws' = IF ws = "removed" THEN ws ELSE "suspended"
    /\ UNCHANGED <<pos, run, halt, todo, gitVars, job, clean, destroyed, exported, faults, slip>>

\* The session writes more.  What it writes while a Cleanup reads is not told apart.
Talk ==
    /\ vm.live /\ vm.talks
    /\ \A c \in Cleaners : clean[c] \in {"idle", "lock"}
    /\ vm' = [vm EXCEPT !.talks = FALSE]
    /\ UNCHANGED <<ws, runVars, gitVars, job, clean, destroyed, exported, faults, slip>>

(***************************************************************************)
(* Cleanup, under cleanMu                                                  *)
(***************************************************************************)

CleanGoto(c, at) == clean' = [clean EXCEPT ![c] = at]
Holds(c) == clean[c] \in {"export", "exportonly", "destroy"}

\* A call with the context of a run that is cancelled: the sandbox service is not
\* reached any more.
Deaf(c) == c = "engine" /\ run # "up"
EngineAway == clean["engine"] = "idle" /\ job.at # "cleanup"

\* The publish or discard node; and the reflect of an advance that finds the engine at
\* its end, which looks first whether the run is cancelled, again when the session asks
\* once more.
CleanNode ==
    /\ clean["engine"] = "idle"
    /\ \/ job.at = "cleanup"
       \/ pos = "end" /\ job = Idle /\ run = "up" /\ (ws \in {"active", "suspended"} \/ (ws = "done" /\ vm.up))
    /\ CleanGoto("engine", "lock")
    /\ UNCHANGED <<ws, runVars, gitVars, job, destroyed, vm, exported, faults, slip>>

\* stopRun that cleans up only after a run.
CleanStopOfRun ==
    /\ halt # "none" /\ clean["stop"] = "idle"
    /\ slip' = IF EngineAway THEN slip ELSE slip \cup {"failed"}
    /\ run' = "none" /\ destroyed' = (destroyed /\ run # "none")
    /\ CleanGoto("stop", IF run = "none" THEN "ok" ELSE "lock")
    /\ UNCHANGED <<ws, pos, halt, failing, todo, gitVars, job, vm, exported, faults>>

\* stopRun, which waits for the engine's call, but not for ever, and not for the advance
\* of a Decide.  Where there is no run it makes a Runner.
CleanStop ==
    /\ halt # "none" /\ clean["stop"] = "idle"
    /\ slip' = IF EngineAway THEN slip ELSE slip \cup {"failed"}
    /\ run' = "none" /\ destroyed' = (destroyed /\ run # "none")
    /\ CleanGoto("stop", "lock")
    /\ UNCHANGED <<ws, pos, halt, failing, todo, gitVars, job, vm, exported, faults>>

\* While the sandbox is there, or it cannot be told, its transcripts are exported first;
\* one that cannot be read is a line in the log and no reason to stop.
CleanLock(c) ==
    /\ clean[c] = "lock" /\ \A d \in Cleaners : ~Holds(d)
    /\ IF ~destroyed /\ (vm.up \/ Deaf(c))
       THEN /\ CleanGoto(c, "export")
            /\ vm' = [vm EXCEPT !.talks = vm.talks \/ ~Deaf(c)]
            /\ Log \/ exported' = exported
       ELSE CleanGoto(c, "exportonly") /\ UNCHANGED <<vm, exported>>
    /\ UNCHANGED <<ws, runVars, gitVars, job, destroyed, faults, slip>>

\* WriteExports: the data the workflow exports and the execution log.
CleanExport(c) ==
    /\ clean[c] \in {"export", "exportonly"}
    /\ exported' = "current"
    /\ CleanGoto(c, IF clean[c] = "export" THEN "destroy" ELSE "ok")
    /\ UNCHANGED <<ws, runVars, gitVars, job, destroyed, vm, faults, slip>>

CleanDestroy(c) ==
    /\ clean[c] = "destroy" /\ ~Deaf(c)
    /\ destroyed' = TRUE /\ vm' = NoVM
    /\ CleanGoto(c, "ok")
    /\ UNCHANGED <<ws, runVars, gitVars, job, exported, faults, slip>>

CleanDeaf ==
    /\ clean["engine"] = "destroy" /\ Deaf("engine")
    /\ CleanGoto("engine", "failed")
    /\ slip' = slip \cup {"failed"}
    /\ UNCHANGED <<ws, runVars, gitVars, job, destroyed, vm, exported, faults>>

\* The export cannot be written, or the sandbox service does not answer; it may have
\* destroyed the VM for all that.
CleanFail(c) ==
    /\ Holds(c) /\ Fault
    /\ slip' = slip \cup {"failed"}
    /\ CleanGoto(c, "failed")
    /\ \/ vm' = vm
       \/ clean[c] = "destroy" /\ ~Deaf(c) /\ vm' = NoVM
    /\ UNCHANGED <<ws, runVars, gitVars, job, destroyed, exported>>

\* The node ends, with the lines of its end and of the run's end in the log, or returns
\* the error; of a cancelled run the engine records the end or not, and nothing is
\* reflected.
NodeReturns ==
    /\ clean["engine"] \in {"ok", "failed"} /\ job.at = "cleanup"
    /\ CleanGoto("engine", "idle") /\ job' = Idle
    /\ \/ clean["engine"] = "ok" /\ pos' = "end" /\ Log /\ ws' = ws
       \/ /\ clean["engine"] = "failed" \/ run # "up"
          /\ pos' = pos /\ exported' = exported
          /\ ws' = IF run = "up" THEN "suspended" ELSE ws
    /\ UNCHANGED <<run, halt, failing, todo, gitVars, destroyed, vm, faults, slip>>

\* reflect writes DONE whatever Cleanup returned, and does not look again whether the
\* run is cancelled.
ReflectReturns ==
    /\ clean["engine"] \in {"ok", "failed"} /\ job = Idle
    /\ CleanGoto("engine", "idle")
    /\ ws' = IF ws = "removed" THEN ws ELSE "done"
    /\ UNCHANGED <<runVars, gitVars, job, destroyed, vm, exported, faults, slip>>

(***************************************************************************)
(* Stop, Remove, Resume and a restart of serve                             *)
(***************************************************************************)

\* The operation takes lifeMu and stopRun cancels the run: a boot ends where it stands,
\* a git command before or after it has moved a ref.  A call of a run that is gone is
\* over before the next operation, or the next run: it could only write the log out.
Halt(op) ==
    /\ halt = "none" /\ (run = "none" => EngineAway)
    /\ ws \in CASE op = "stop" -> {"active", "suspended"}
                [] op = "resume" -> {"suspended"}
                [] op = "remove" -> {"active", "suspended", "stopped", "done"}
    /\ halt' = op
    /\ run' = IF run = "none" THEN run ELSE "cut"
    /\ job' = IF job.at = "cleanup" THEN job ELSE Idle
    /\ UNCHANGED <<ws, pos, failing, todo, gitVars, cleanVars, faults, slip>>

\* stopRun destroys the sandbox whatever Cleanup returned, and ignores the error.
HaltDestroys ==
    /\ clean["stop"] \in {"ok", "failed"}
    /\ CleanGoto("stop", "end")
    /\ \/ vm' = NoVM /\ faults' = faults
       \/ vm.up /\ vm' = [vm EXCEPT !.orphan = TRUE] /\ Fault
    /\ UNCHANGED <<ws, runVars, gitVars, job, destroyed, exported, slip>>

\* The operation after stopRun; Resume may fail before its boot, and puts the state back.
HaltEnds ==
    /\ clean["stop"] = "end"
    /\ CleanGoto("stop", "idle") /\ halt' = "none"
    /\ \/ halt = "stop" /\ ws' = "stopped" /\ UNCHANGED <<run, destroyed, faults>>
       \/ halt = "remove" /\ ws' = "removed" /\ UNCHANGED <<run, destroyed, faults>>
       \/ halt = "resume" /\ EngineAway /\ ws' = "active" /\ run' = "clear" /\ destroyed' = FALSE /\ faults' = faults
       \/ halt = "resume" /\ UNCHANGED <<ws, run, destroyed>> /\ Fault
    /\ UNCHANGED <<pos, failing, todo, gitVars, job, vm, exported, slip>>

\* Of a STOPPED workspace: a new run, with a new Runner; the engine goes on where it was.
Resume ==
    /\ ws = "stopped" /\ run = "none" /\ halt = "none" /\ EngineAway
    /\ ws' = "active" /\ run' = "clear" /\ destroyed' = FALSE
    /\ UNCHANGED <<pos, halt, failing, todo, gitVars, job, clean, vm, exported, faults, slip>>

\* serve ends and starts again: what it was doing is forgotten.  An active workspace is
\* STOPPED, its VM to be destroyed in the background; the others are left as they are.
Restart ==
    /\ ws \in {"active", "suspended", "stopped", "done"} /\ Fault
    /\ ws' = IF ws = "active" THEN "stopped" ELSE ws
    /\ todo' = (ws = "active")
    /\ vm' = [vm EXCEPT !.orphan = vm.orphan \/ (vm.up /\ ws = "active")]
    /\ run' = "none" /\ halt' = "none" /\ failing' = FALSE
    /\ job' = Idle /\ destroyed' = FALSE
    /\ clean' = [c \in Cleaners |-> "idle"]
    /\ UNCHANGED <<pos, gitVars, exported, slip>>

\* In the background, by the name of the workspace.
RecoverDestroys ==
    /\ todo /\ todo' = FALSE
    /\ \/ vm' = NoVM /\ faults' = faults
       \/ vm' = vm /\ Fault
    /\ UNCHANGED <<ws, pos, run, halt, failing, gitVars, job, clean, destroyed, exported, slip>>

(***************************************************************************)
(* The user                                                                *)
(***************************************************************************)

\* A commit on the branch here, or one that someone pushes.
UserCommit(p) ==
    /\ tip[p].own < MaxUser /\ tip[p] # NoTip
    /\ tip' = [tip EXCEPT ![p].own = @ + 1]
    /\ work' = IF p = "local" /\ work.on THEN [work EXCEPT !.at = tip'[p]] ELSE work
    /\ UNCHANGED <<ws, runVars, top, approved, job, cleanVars, faults, slip>>

\* The user checks the branch out, or another one.
UserCheckout ==
    /\ tip["local"] # NoTip
    /\ work' = IF work.on THEN [on |-> FALSE, at |-> NoTip] ELSE [on |-> TRUE, at |-> tip["local"]]
    /\ UNCHANGED <<ws, runVars, top, approved, tip, job, cleanVars, faults, slip>>

Next ==
    \/ \E existing \in BOOLEAN : CreateResolve(existing)
    \/ CreateClone \/ Commit \/ Approve \/ EndNode
    \/ \E p \in Places : PublishBegin(p)
    \/ PublishCheck \/ PublishRead \/ PublishRef \/ PublishMerge \/ PublishElsewhere \/ PublishPush
    \/ Discard
    \/ BootClear \/ BootCreate \/ BootLaunch \/ BootFails \/ FailEnds
    \/ Talk
    \/ CleanNode \/ CleanStop
    \/ \E c \in Cleaners : CleanLock(c) \/ CleanExport(c) \/ CleanDestroy(c) \/ CleanFail(c)
    \/ CleanDeaf
    \/ NodeReturns \/ ReflectReturns
    \/ \E op \in Operations : Halt(op)
    \/ HaltDestroys \/ HaltEnds
    \/ Resume \/ Restart \/ RecoverDestroys
    \/ \E p \in Places : UserCommit(p)
    \/ UserCheckout

Spec == Init /\ [][Next]_vars

(***************************************************************************)
(* Properties                                                              *)
(***************************************************************************)

\* Publishing moves a branch of the user's to the commit that was approved, which
\* is still the top of the staging branch, and never over a commit of the user's
\* (staging/publish.go, CheckHead, PublishLocal, PushRemote).
MovesToApproved ==
    \A p \in Places :
        /\ tip'[p].own >= tip[p].own
        /\ tip'[p].at # tip[p].at => tip'[p].at = approved /\ approved = top /\ tip[p].own = 0
PublishIsFastForwardOfApproved == [][MovesToApproved]_vars

\* A checked out branch does not move under its working tree, unless it was checked
\* out just then (staging/publish.go, the two cases of PublishLocal).
WorkTreeFollows == work.on /\ "checkout" \notin slip => work.at = tip["local"]

\* The node goes on to clean up only when the branch has the approved commit, unless the
\* user changed branches under PublishLocal (runner.go, Publish).
PublishedBeforeCleanup ==
    job'.at = "cleanup" /\ job.at \notin {"idle", "cleanup"} /\ "elsewhere" \notin slip'
        => Includes(tip'[job.to], approved)

\* The VM of a session goes when its transcripts have been read and the log has been
\* written out, unless a Cleanup failed; but not the VM a serve left when it ended while
\* the workspace was active, nor one a failed boot or a recovery still in the
\* background comes upon (runner.go, Cleanup; lifecycle.go, stopRun, recoverInterrupted;
\* boot.go, boot).
ExportedBeforeGone ==
    vm.live /\ ~vm'.up /\ ~(vm.orphan \/ failing \/ todo)
        => vm.talks /\ (exported = "current" \/ "failed" \in slip)

\* The records of a workspace, its log among them, are removed when the log has been
\* written out (lifecycle.go, Remove; runner.go, Cleanup).
ExportedBeforeRemoved ==
    ws # "removed" /\ ws' = "removed" => exported = "current" \/ "failed" \in slip
NothingLostWithVM == [][PublishedBeforeCleanup /\ ExportedBeforeGone /\ ExportedBeforeRemoved]_vars

\* When DONE can be seen, the exports are complete and the VM is gone, unless a Cleanup
\* failed or Stop did not wait (run.go, reflect).
DoneIsExported ==
    ws = "done" /\ "failed" \notin slip => exported = "current" /\ ~vm.up

\* Publishing and the user's own work: the two above, on the branch and on the working
\* tree (staging/publish.go, PublishLocal, PushRemote).
PublishKeepsUsersWork == PublishIsFastForwardOfApproved /\ []WorkTreeFollows

\* Nothing is lost with the VM or the records, and what DONE says of the exports is true:
\* the four above (runner.go, Cleanup; run.go, reflect; lifecycle.go, stopRun).
NothingLostAtTheEnd == NothingLostWithVM /\ []DoneIsExported
=============================================================================
