------------------------------ MODULE Activity ------------------------------
(***************************************************************************)
(* What serve shows of the activity of a workspace (serve/activity.go,      *)
(* serve/resources.go).                                                    *)
(*                                                                         *)
(* Three sources that share no clock tell it: the HTTP requests that the    *)
(* sandbox service saw, as a stream; the hooks of Claude Code, each a call  *)
(* of its own; and the patrol, which asks tmux in the VM.  All of them      *)
(* write the record of the workspace's id, so what was seen of the VM of a  *)
(* stopped run can be written of the next one.                             *)
(*                                                                         *)
(* Time passes in units of a minute (Tick).  Within a minute all that is in *)
(* flight is handled and a booted run has been patrolled once: the patrol   *)
(* looks every 30 seconds and its calls are cut off after 10.              *)
(***************************************************************************)
EXTENDS Integers, Sequences, FiniteSets

CONSTANTS Reqs,       \* ids of the requests that are followed at one time
          MaxRuns,    \* bound: runs of the workspace (Run, then Resumes)
          MaxFlight,  \* bound: events, and hooks, in flight
          MaxBreaks,  \* bound: breaks of the event stream
          MaxStrain   \* bound: changes of the load of a VM

ASSUME BoundsAssumption ==
    /\ MaxRuns \in Nat \ {0} /\ MaxFlight \in Nat \ {0}
    /\ MaxBreaks \in Nat /\ MaxStrain \in Nat

(* idlePromptAfter, inflightStale and the threshold of inactivity, in units *)
(* of Tick; an age stops at the longest of them.                           *)
IdlePromptAfter == 1
InflightStale == 2
StallAfter == 3
Ages == 0..StallAfter
Older(age) == IF age < StallAfter THEN age + 1 ELSE age

VARIABLES
    st,        \* the state of the workspace
    run,       \* the number of the run, and whether serve holds it (runs[id])
    booted,    \* runs whose boot has ended
    act,       \* acts[id], or NoAct
    vm,        \* the sandbox of the id
    guest,     \* what the session in it really does
    stream,    \* events of the sandbox that watchSandbox has still to handle
    watch,     \* watchSandbox is reading them
    hooks,     \* hooks that serve has still to handle
    held,      \* what handlers of a stopped run had received and not handled yet
    patrol,    \* the patrol: the run it looks at, and what it found
    patrolled, \* it has looked at the run since the last Tick
    ending,    \* the engine is done and its clean-up has destroyed the VM
    gone,      \* history: Ticks since the session ended that a patrol could have seen
    shown,     \* the activity of the last status event
    count,     \* breaks of the stream and changes of the load, for their bounds
    fault      \* history: see Faults

serveVars == <<st, run, booted>>
runningVars == <<serveVars, watch, held, ending>>
patrolVars == <<patrol, patrolled>>
activityVars == <<runningVars, act, vm, guest, stream, hooks, patrolVars, gone, shown, count, fault>>

(* old: what was seen of a stopped run was written of the next one;
   broken: the stream of the sandbox's events broke, nothing opens it again;
   crossed: an older request was handled after the hook of a wait;
   finishing: the clean-up of a run that is done was seen as its death.    *)
Faults == {"old", "broken", "crossed", "finishing"}

NoAct == [last |-> 0, inflight |-> [r \in Reqs |-> -1], wait |-> FALSE,
          dead |-> FALSE, auth |-> FALSE, warn |-> FALSE, kept |-> FALSE]
Fresh == [NoAct EXCEPT !.kept = TRUE]
NoVM == [session |-> "none", strained |-> FALSE, everStrained |-> FALSE]
Silent == [open |-> {}, quiet |-> 0, idle |-> FALSE, idleFor |-> 0, told |-> FALSE]
Events == [kind : {"started", "finished"}, req : Reqs, ok : BOOLEAN]
          \cup {[kind |-> "stopped"], [kind |-> "failed"]}
HookKinds == {"tool", "turn", "idle", "question", "end"}
Looks == {"idle", "alive", "measure", "dead", "load"}
Kinds == {"idle", "waiting_gate", "dead", "auth_rejected", "working", "waiting_input", "stalled"}

Accounts == [last : Ages, inflight : [Reqs -> Ages \cup {-1}], wait : BOOLEAN,
             dead : BOOLEAN, auth : BOOLEAN, warn : BOOLEAN, kept : BOOLEAN]
Machines == [session : {"none", "unlaunched", "alive", "ended", "failed", "destroyed"},
             strained : BOOLEAN, everStrained : BOOLEAN]
Habits == [open : SUBSET Reqs, quiet : Ages, idle : BOOLEAN, idleFor : Ages, told : BOOLEAN]

ActivityTypeOK ==
    /\ st \in {"starting", "running", "gate", "stopped", "done"}
    /\ run \in [no : 1..MaxRuns, here : BOOLEAN]
    /\ booted \subseteq 1..MaxRuns
    /\ act \in Accounts /\ vm \in Machines /\ guest \in Habits
    /\ stream \in Seq(Events) /\ Len(stream) <= MaxFlight + 1
    /\ watch \in BOOLEAN /\ ending \in BOOLEAN /\ patrolled \in BOOLEAN
    /\ hooks \in Seq(HookKinds) /\ Len(hooks) <= MaxFlight + 1
    /\ held \subseteq Events \cup [hook : HookKinds]
    /\ patrol \in [at : Looks, no : 0..MaxRuns, load : BOOLEAN]
    /\ gone \in 0..2
    /\ shown \in Kinds
    /\ count \in [breaks : 0..MaxBreaks, strain : 0..MaxStrain]
    /\ fault \subseteq Faults

ActivityInit ==
    /\ st = "starting" /\ run = [no |-> 1, here |-> TRUE] /\ booted = {}
    /\ act = Fresh /\ vm = NoVM /\ guest = Silent
    /\ stream = <<>> /\ watch = FALSE /\ hooks = <<>> /\ held = {}
    /\ patrol = [at |-> "idle", no |-> 0, load |-> FALSE] /\ patrolled = FALSE
    /\ ending = FALSE /\ gone = 0 /\ shown = "idle"
    /\ count = [breaks |-> 0, strain |-> 0] /\ fault = {}

(***************************************************************************)
(* The record of an id                                                     *)
(***************************************************************************)

Drop(a, age) == [a EXCEPT !.inflight = [r \in Reqs |-> IF a.inflight[r] >= age THEN -1 ELSE a.inflight[r]]]

\* Mutant: requests whose end never comes stay in flight.
DropNothing(a, age) == a

\* Requests that began this long ago are no longer in flight.
DropInflightBefore(a, age) == Drop(a, age)

Inflight(a) == {r \in Reqs : a.inflight[r] >= 0}

\* An event that shows that the session does something.
Touch(a) == [a EXCEPT !.last = 0, !.wait = FALSE]

\* The activity that serve shows, in the order of its certainty.
Kind(s, a) ==
    CASE s = "gate" -> "waiting_gate"
      [] s \in {"starting", "stopped", "done"} \/ (s = "running" /\ ~a.kept) -> "idle"
      [] OTHER -> IF a.dead THEN "dead"
                  ELSE IF a.auth THEN "auth_rejected"
                  ELSE IF Inflight(a) # {} THEN "working"
                  ELSE IF a.wait THEN "waiting_input"
                  ELSE IF a.last >= StallAfter THEN "stalled"
                  ELSE "working"

\* statusChanged once a is written of the id.
Show(s, a) ==
    LET now == DropInflightBefore(a, InflightStale) IN
    /\ act' = now
    /\ shown' = Kind(s, now)

\* A write of the record: nothing if there is none.
Update(a, b) == IF a.kept THEN b ELSE a

(***************************************************************************)
(* The session in the VM                                                   *)
(***************************************************************************)

Up == vm.session = "alive"
Sees(ev) == Len(stream) < MaxFlight /\ stream' = IF watch THEN Append(stream, ev) ELSE stream
Says(hook) == Len(hooks) < MaxFlight /\ hooks' = Append(hooks, hook)
Busy == guest' = [guest EXCEPT !.quiet = 0, !.idle = FALSE, !.idleFor = 0, !.told = FALSE]

\* The session, or a subagent of it, sends a request.
Request(r) ==
    /\ Up
    /\ r \notin guest.open /\ act.inflight[r] = -1
    /\ \A i \in DOMAIN stream : stream[i].kind = "started" => stream[i].req # r
    /\ Sees([kind |-> "started", req |-> r, ok |-> TRUE])
    /\ guest' = [Silent EXCEPT !.open = guest.open \cup {r}]
    /\ UNCHANGED <<runningVars, act, vm, hooks, patrolVars, gone, shown, count, fault>>

\* The head of the response arrives: the API took the token, or refused it.
Respond(r, ok) ==
    /\ Up /\ r \in guest.open
    /\ Sees([kind |-> "finished", req |-> r, ok |-> ok])
    /\ guest' = [guest EXCEPT !.open = @ \ {r}, !.quiet = 0]
    /\ UNCHANGED <<runningVars, act, vm, hooks, patrolVars, gone, shown, count, fault>>

\* The session gives a request up: the sandbox service says nothing of it.
CutRequest(r) ==
    /\ Up /\ r \in guest.open
    /\ guest' = [guest EXCEPT !.open = @ \ {r}]
    /\ UNCHANGED <<runningVars, act, vm, stream, hooks, patrolVars, gone, shown, count, fault>>

\* A tool has run.
UseTool ==
    /\ Up /\ Says("tool")
    /\ Busy
    /\ UNCHANGED <<runningVars, act, vm, stream, patrolVars, gone, shown, count, fault>>

\* A turn ends.
EndTurn ==
    /\ Up /\ guest.open = {} /\ Says("turn")
    /\ Busy
    /\ UNCHANGED <<runningVars, act, vm, stream, patrolVars, gone, shown, count, fault>>

\* The session waits for a person: it asks a question, and its hook says so at once, or it
\* waits at its prompt.
Wait(asks) ==
    /\ Up /\ guest.open = {} /\ ~guest.idle
    /\ guest' = [guest EXCEPT !.idle = TRUE, !.told = asks]
    /\ IF asks THEN Says("question") ELSE UNCHANGED hooks
    /\ UNCHANGED <<runningVars, act, vm, stream, patrolVars, gone, shown, count, fault>>

\* A minute later its hook says that it waits at its prompt.
IdlePrompt ==
    /\ Up /\ guest.idle /\ ~guest.told /\ guest.idleFor >= IdlePromptAfter
    /\ guest' = [guest EXCEPT !.told = TRUE]
    /\ Says("idle")
    /\ UNCHANGED <<runningVars, act, vm, stream, patrolVars, gone, shown, count, fault>>

\* The session ends, and its hook says so, or it is killed.
SessionEnds(says) ==
    /\ Up
    /\ vm' = [vm EXCEPT !.session = "ended"]
    /\ IF says THEN Says("end") ELSE UNCHANGED hooks
    /\ gone' = 0
    /\ UNCHANGED <<runningVars, act, guest, stream, patrolVars, shown, count, fault>>

\* The VM fails.
VMFails ==
    /\ Up
    /\ vm' = [vm EXCEPT !.session = "failed"]
    /\ Sees([kind |-> "failed"])
    /\ gone' = 0
    /\ UNCHANGED <<runningVars, act, guest, hooks, patrolVars, shown, count, fault>>

\* Its memory or its disks fill up, or are freed again.
Load ==
    /\ Up /\ count.strain < MaxStrain
    /\ vm' = [vm EXCEPT !.strained = ~@, !.everStrained = TRUE]
    /\ count' = [count EXCEPT !.strain = @ + 1]
    /\ UNCHANGED <<runningVars, act, guest, stream, hooks, patrolVars, gone, shown, fault>>

(***************************************************************************)
(* What serve hears                                                        *)
(***************************************************************************)

\* A request that serve does not know leaves the answer of the API unread.
Finished(a, ev) ==
    Touch([a EXCEPT !.inflight[ev.req] = -1,
                    !.auth = IF a.inflight[ev.req] = -1 THEN @ ELSE ~ev.ok])

\* What an event of the sandbox makes of the record.
Heard(a, ev) ==
    CASE ev.kind = "started" -> Touch([a EXCEPT !.inflight[ev.req] = 0])
      [] ev.kind = "finished" -> Finished(a, ev)
      [] OTHER -> [a EXCEPT !.dead = TRUE]

\* What a hook makes of it.
Hooked(a, hook) ==
    CASE hook = "tool" -> Touch(a)
      [] hook = "turn" -> [a EXCEPT !.last = 0]
      [] hook = "idle" -> DropInflightBefore([a EXCEPT !.wait = TRUE], IdlePromptAfter)
      [] hook = "question" -> [a EXCEPT !.wait = TRUE]
      [] hook = "end" -> [a EXCEPT !.dead = TRUE]

\* watchSandbox handles the next event.
WatchSandbox ==
    /\ stream # <<>>
    /\ LET ev == Head(stream) IN
       /\ Show(st, Update(act, Heard(act, ev)))
       /\ fault' = fault
                   \cup (IF act.wait /\ guest.idle /\ ev.kind \in {"started", "finished"}
                        THEN {"crossed"} ELSE {})
                   \cup (IF ev.kind = "stopped" /\ st = "running" THEN {"finishing"} ELSE {})
    /\ stream' = Tail(stream)
    /\ UNCHANGED <<runningVars, vm, guest, hooks, patrolVars, gone, count>>

\* The stream breaks, with the events in it.  Nothing opens it again.
StreamBreaks ==
    /\ watch /\ count.breaks < MaxBreaks
    /\ watch' = FALSE /\ stream' = <<>>
    /\ count' = [count EXCEPT !.breaks = @ + 1]
    /\ fault' = fault \cup {"broken"}
    /\ UNCHANGED <<serveVars, held, ending, act, vm, guest, hooks, patrolVars, gone, shown>>

\* observeHook
ObserveHook ==
    /\ hooks # <<>>
    /\ Show(st, Update(act, Hooked(act, Head(hooks))))
    /\ hooks' = Tail(hooks)
    /\ UNCHANGED <<runningVars, vm, guest, stream, patrolVars, gone, count, fault>>

\* A handler of a stopped run goes on with what it had received: it knows only the id.
OldObservation(o) ==
    /\ o \in held
    /\ Show(st, Update(act, IF "hook" \in DOMAIN o THEN Hooked(act, o.hook) ELSE Heard(act, o)))
    /\ held' = held \ {o}
    /\ fault' = IF act.kept THEN fault \cup {"old"} ELSE fault
    /\ UNCHANGED <<serveVars, watch, ending, vm, guest, stream, hooks, patrolVars, gone, count>>

(***************************************************************************)
(* The patrol                                                              *)
(***************************************************************************)

\* A round that finds the run still booting only shows its status again.
PatrolShows ==
    /\ patrol.at = "idle" /\ run.here /\ run.no \notin booted
    /\ Show(st, act)
    /\ UNCHANGED <<runningVars, vm, guest, stream, hooks, patrolVars, gone, count, fault>>

\* It asks tmux in the VM of the id whether the session is there.
PatrolLooks ==
    /\ patrol.at = "idle" /\ ~patrolled /\ run.here /\ run.no \in booted
    /\ patrol' = [at |-> "alive", no |-> run.no, load |-> FALSE]
    /\ UNCHANGED <<runningVars, act, vm, guest, stream, hooks, patrolled, gone, shown, count, fault>>

\* What the call says of the session.
HasSession == vm.session = "alive"

\* Mutant: no answer is an answer.
AliveIfAnswered ==
    /\ patrol.at = "alive"
    /\ \E answered \in BOOLEAN :
        /\ vm.session \in {"none", "failed", "destroyed"} => ~answered
        /\ patrol' = [patrol EXCEPT !.at = IF answered /\ HasSession THEN "measure" ELSE "dead"]
        /\ gone' = IF answered THEN gone ELSE 0
    /\ UNCHANGED <<runningVars, act, vm, guest, stream, hooks, patrolled, shown, count, fault>>

\* Mutant: the session is never found dead.
AliveAlways ==
    /\ patrol.at = "alive"
    /\ patrol' = [patrol EXCEPT !.at = "measure"]
    /\ UNCHANGED <<runningVars, act, vm, guest, stream, hooks, patrolled, gone, shown, count, fault>>

\* The answer: the session is dead only if the call was answered and says so.  A VM that is
\* not there, or has failed, does not answer.
Alive ==
    /\ patrol.at = "alive"
    /\ \E answered \in BOOLEAN :
        /\ vm.session \in {"none", "failed", "destroyed"} => ~answered
        /\ patrol' = [patrol EXCEPT !.at = IF answered => HasSession THEN "measure" ELSE "dead"]
        /\ gone' = IF answered THEN gone ELSE 0
    /\ UNCHANGED <<runningVars, act, vm, guest, stream, hooks, patrolled, shown, count, fault>>

NoLook == [at |-> "idle", no |-> 0, load |-> FALSE]

\* The load of the VM is measured; if it cannot be, what is shown stays.
Measure ==
    /\ patrol.at = "measure"
    /\ vm.session \in {"unlaunched", "alive", "ended"}
    /\ patrol' = [patrol EXCEPT !.at = "load", !.load = vm.strained]
    /\ UNCHANGED <<runningVars, act, vm, guest, stream, hooks, patrolled, gone, shown, count, fault>>

\* What the patrol found.
Found(a) ==
    CASE patrol.at = "dead" -> [a EXCEPT !.dead = TRUE]
      [] patrol.at = "load" -> [a EXCEPT !.warn = patrol.load]
      [] OTHER -> a

\* It is written of the id, and the round ends with the status of the workspace.
PatrolEnds ==
    /\ patrol.at \in {"dead", "load", "measure"}
    /\ Show(st, Update(act, Found(act)))
    /\ patrol' = NoLook
    /\ patrolled' = (patrolled \/ patrol.no = run.no)
    /\ fault' = IF act.kept /\ patrol.at # "measure" /\ patrol.no # run.no THEN fault \cup {"old"} ELSE fault
    /\ UNCHANGED <<runningVars, vm, guest, stream, hooks, gone, count>>

(***************************************************************************)
(* The run                                                                 *)
(***************************************************************************)

\* The boot creates the VM and begins to watch it.
CreateVM ==
    /\ st = "starting" /\ run.here /\ vm.session = "none"
    /\ vm' = [NoVM EXCEPT !.session = "unlaunched"]
    /\ watch' = TRUE
    /\ UNCHANGED <<serveVars, held, ending, act, guest, stream, hooks, patrolVars, gone, shown, count, fault>>

\* Claude Code runs, and the boot ends.
Launch ==
    /\ st = "starting" /\ vm.session = "unlaunched"
    /\ vm' = [vm EXCEPT !.session = "alive"]
    /\ guest' = Silent
    /\ booted' = booted \cup {run.no}
    /\ st' = "running"
    /\ Show("running", act)
    /\ UNCHANGED <<run, watch, held, ending, stream, hooks, patrolVars, gone, count, fault>>

\* The engine reaches a gate, or goes on from it.
EngineMoves ==
    /\ st \in {"running", "gate"} /\ ~ending
    /\ st' = IF st = "running" THEN "gate" ELSE "running"
    /\ Show(st', act)
    /\ UNCHANGED <<run, booted, watch, held, ending, vm, guest, stream, hooks, patrolVars, gone, count, fault>>

\* The engine is done: reflect destroys the VM and then writes DONE.
CleanUp ==
    /\ st \in {"running", "gate"} /\ ~ending /\ Len(stream) <= MaxFlight
    /\ ending' = TRUE
    /\ vm' = [vm EXCEPT !.session = IF @ = "alive" THEN "destroyed" ELSE @]
    /\ stream' = IF watch THEN Append(stream, [kind |-> "stopped"]) ELSE stream
    /\ UNCHANGED <<serveVars, watch, held, act, guest, hooks, patrolVars, gone, shown, count, fault>>

RunIsDone ==
    /\ ending
    /\ ending' = FALSE /\ st' = "done" /\ watch' = FALSE
    /\ Show("done", act)
    /\ UNCHANGED <<run, booted, held, vm, guest, stream, hooks, patrolVars, gone, count, fault>>

\* Stop: the run is cancelled and leaves runs, its VM is destroyed, its record dropped.
Stop ==
    /\ st \in {"starting", "running", "gate"} /\ run.here
    /\ st' = "stopped" /\ run' = [run EXCEPT !.here = FALSE]
    /\ vm' = NoVM /\ guest' = Silent /\ watch' = FALSE /\ ending' = FALSE
    /\ act' = NoAct /\ shown' = "idle" /\ gone' = 0
    /\ held' = {stream[i] : i \in {j \in DOMAIN stream : j = 1 /\ stream[j].kind \in {"started", "finished"}}}
               \cup {[hook |-> hooks[i]] : i \in {j \in DOMAIN hooks : j = 1}}
    /\ stream' = <<>> /\ hooks' = <<>>
    /\ UNCHANGED <<booted, patrolVars, count, fault>>

\* Resume: a new run, and a new record.
Resume ==
    /\ st = "stopped" /\ run.no < MaxRuns
    /\ st' = "starting" /\ run' = [no |-> run.no + 1, here |-> TRUE]
    /\ act' = Fresh
    /\ UNCHANGED <<booted, watch, held, ending, vm, guest, stream, hooks, patrolVars, gone, shown, count, fault>>

\* A minute passes.
Tick ==
    /\ stream = <<>> /\ hooks = <<>> /\ held = {} /\ patrol.at = "idle" /\ ~ending
    /\ st \in {"running", "gate"} /\ patrolled
    /\ act' = [act EXCEPT !.last = Older(@),
                          !.inflight = [r \in Reqs |-> IF @[r] = -1 THEN -1 ELSE Older(@[r])]]
    /\ guest' = [guest EXCEPT !.quiet = Older(@), !.idleFor = IF guest.idle THEN Older(@) ELSE 0]
    /\ gone' = IF vm.session \in {"ended", "failed"} /\ gone < 2 THEN gone + 1 ELSE gone
    /\ patrolled' = FALSE
    /\ UNCHANGED <<runningVars, vm, stream, hooks, patrol, shown, count, fault>>

ActivityNext ==
    \/ \E r \in Reqs : Request(r) \/ CutRequest(r) \/ \E ok \in BOOLEAN : Respond(r, ok)
    \/ UseTool \/ EndTurn \/ (\E asks \in BOOLEAN : Wait(asks)) \/ IdlePrompt
    \/ (\E says \in BOOLEAN : SessionEnds(says)) \/ VMFails \/ Load
    \/ WatchSandbox \/ StreamBreaks \/ ObserveHook \/ (\E o \in held : OldObservation(o))
    \/ PatrolShows \/ PatrolLooks \/ Alive \/ Measure \/ PatrolEnds
    \/ CreateVM \/ Launch \/ EngineMoves \/ CleanUp \/ RunIsDone \/ Stop \/ Resume \/ Tick

ActivitySpec == ActivityInit /\ [][ActivityNext]_activityVars

(***************************************************************************)
(* Properties                                                              *)
(***************************************************************************)

\* A workspace is shown DEAD only if the session in its VM has ended by itself: not because
\* a call of the patrol failed (alive), and not for what was seen of the VM of an earlier
\* run.  The slips: a patrol that asks for a stopped run reaches the VM that Resume made, in
\* which nothing is launched yet; and reflect destroys the VM of a run that is done before
\* it writes DONE, so watchSandbox shows it DEAD for a moment, which ends a masuda wait.
DeadIsTrue ==
    fault \cap {"old", "finishing"} = {} /\ shown = "dead" => vm.session \in {"ended", "failed"}

\* A session that has ended is shown DEAD within two minutes in which the patrol's calls were
\* answered, whether its hook came or not.  A VM that fails answers no call: it is shown DEAD
\* once its event is handled, and if the stream of its events is broken nothing tells of it.
DeadIsShownUnlessSlip ==
    st = "running" =>
        /\ gone = 2 => shown = "dead"
        /\ vm.session = "failed" /\ stream = <<>> => shown = "dead" \/ "broken" \in fault

\* A session that has told that it waits for a person is shown to wait after two minutes and a
\* patrol: requests that were given up, whose end the sandbox never reports, do not keep it WORKING
\* (inflightStale, idlePromptAfter).  The slips: the end of a request that was sent before
\* the question is handled after the hook of it, and takes the wait back, or what was seen of
\* a stopped run does.
WaitIsShownUnlessSlip ==
    /\ st = "running" /\ Up
    /\ guest.idle /\ guest.told /\ guest.idleFor > InflightStale /\ hooks = <<>>
    => shown \in {"waiting_input", "auth_rejected", "dead"} \/ fault \cap {"crossed", "old"} # {}

\* A workspace is shown STALLED only if its session has been quiet that long, as far as the
\* sandbox service and the hooks can tell; once the stream is broken its requests are not seen.
StalledIsTrue ==
    shown = "stalled" /\ stream = <<>> /\ hooks = <<>> => guest.quiet >= StallAfter \/ "broken" \in fault

\* A warning of the load of the VM is about the VM of this run, and what could not be
\* measured is no warning (checkResources).
WarningIsOfThisVM ==
    act.warn => vm.everStrained \/ "old" \in fault

\* What is shown of a run is true of the VM it has now: the three above.
ShownIsTrueUnlessSlip == DeadIsTrue /\ StalledIsTrue /\ WarningIsOfThisVM

\* The end of a session and its wait for a person are shown in the end: the two above
\* (serve/activity.go).
EndAndWaitAreShownUnlessSlip == DeadIsShownUnlessSlip /\ WaitIsShownUnlessSlip
=============================================================================
