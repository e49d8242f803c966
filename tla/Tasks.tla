------------------------------- MODULE Tasks --------------------------------
(***************************************************************************)
(* The tasks of a run: what the runner puts into the VM for a task and reads *)
(* back (internal/runner/runner.go, task.go), the calls write_output and      *)
(* report_result of the guest (serve/run.go, internal/mcp/mcp.go), and what   *)
(* is kept of a result on the host, in records/results and workspace.json.   *)
(*                                                                         *)
(* runCtl.mu serialises the calls of the engine.  write_output gives it up    *)
(* before it writes, report_result before it tidies up after the engine.     *)
(* The engine is a library: here it asks for a plan, and for each step of it, *)
(* unless that has been committed, for an implementation and a check.        *)
(***************************************************************************)
EXTENDS Integers, Sequences, FiniteSets

CONSTANTS Plans,    \* plans that may be written: sequences of steps [number, what]
          Bad,      \* a plan that the schema does not accept
          Reports,  \* the report_result calls
          MaxOcc,   \* bound: occurrences
          MaxRuns   \* bound: runs of the workspace

\* The steps of a plan; what names one, with all that the plan writes of it.
PlanSteps == [number : Int, what : STRING]

ASSUME TasksAssumption ==
    /\ Plans \subseteq Seq(PlanSteps) /\ Bad \in Seq(PlanSteps) \ Plans
    /\ IsFiniteSet(Reports) /\ MaxOcc \in Nat \ {0} /\ MaxRuns \in Nat

VARIABLES
    at,         \* the engine: its node, occurrence, plan, items and item
    taken,      \* the engine's record of each occurrence that is over
    committed,  \* records/committed-steps.json
    kept,       \* records/results/<occ>: feedback.md and output.log
    mu,         \* runCtl.mu of the run: nobody, the loop or a report holds it
    write,      \* the write_output call
    report,     \* the report_result calls
    loop,       \* advanceLoop: a command it runs, or the state it has seen
    kicked,     \* an advance has been asked for, and has not begun
    endFeedback,
    shown,      \* workspace.json: done, outcome and reason
    vm,         \* the VM: outputs by occurrence, and the task of the session
    gen,        \* the number of the run
    given,      \* history: what the task file said that the agent was given last
    accepted,   \* history: what write_output accepted last for each occurrence
    really,     \* history: the steps that were committed, as the agent was given them
    lapse       \* history: see Lapses

workflowVars == <<at, taken, committed, really>>
callVars == <<mu, write, report>>
loopVars == <<loop, kicked, endFeedback, shown>>
tasksVars == <<workflowVars, callVars, loopVars, kept, vm, gen, given, accepted, lapse>>

(* direct: the guest wrote an output without write_output;
   late: an output was written after the report had been taken;
   twice: a report was taken up while another of its occurrence was not over;
   cut: the run ended between a result and its record, or between the end and its reason;
   early: the end was shown before its feedback, which is empty, was known;
   crossed: the feedback of a report was noted after that of a later one;
   renumbered: a plan gives a number that is committed to another step, or none. *)
Lapses == {"direct", "late", "twice", "cut", "early", "crossed", "renumbered"}

Occs == 1..MaxOcc
NoValue == <<>>
NoWrite == [at |-> "idle", occ |-> 0, value |-> NoValue]
NoReport == [at |-> "idle", occ |-> 0, outcome |-> "done", text |-> 0, gen |-> 0]
NoRun == [at |-> "idle", passed |-> FALSE, output |-> 0]
NotTaken == [outcome |-> "none", value |-> NoValue, feedback |-> 0, output |-> 0]
NewVM == [out |-> [o \in Occs |-> NoValue], has |-> 0]

TasksInit ==
    /\ at = [node |-> "plan", occ |-> 1, plan |-> NoValue, items |-> <<>>, item |-> 0]
    /\ taken = [o \in Occs |-> NotTaken]
    /\ committed = {} /\ really = {}
    /\ kept = [o \in Occs |-> [feedback |-> 0, output |-> 0]]
    /\ mu = "nobody" /\ write = NoWrite
    /\ report = [r \in Reports |-> NoReport]
    /\ loop = NoRun /\ kicked = FALSE /\ endFeedback = 0
    /\ shown = [done |-> FALSE, outcome |-> "none", reason |-> 0]
    /\ vm = NewVM /\ gen = 1 /\ given = "nothing"
    /\ accepted = [o \in Occs |-> NoValue]
    /\ lapse = {}

(***************************************************************************)
(* The engine and its items                                                *)
(***************************************************************************)

\* Mutant: the place of a step is its key, also where it has a number.
StepKeyPlace(plan, i) == i

\* The key of a step: its number, or its place where it has none.
StepKey(plan, i) == IF plan[i].number = 0 THEN i ELSE plan[i].number

\* Items(steps): those that have been committed are Done.
StepItems(plan) ==
    [i \in 1..Len(plan) |->
        [key |-> StepKey(plan, i), what |-> plan[i].what, done |-> StepKey(plan, i) \in committed]]

\* The engine goes over the items in their order, and passes over what is done.
NextItem(items, i) ==
    LET left == {j \in (i + 1)..Len(items) : ~items[j].done}
    IN IF left = {} THEN 0 ELSE CHOOSE j \in left : \A k \in left : j <= k

To(node) == [at EXCEPT !.node = node, !.occ = @ + 1]
End == [at EXCEPT !.node = "end"]

\* The step after item i of these items, or the end.
Step(items, i) ==
    LET next == NextItem(items, i)
    IN IF next = 0 THEN [End EXCEPT !.items = items]
       ELSE [To("implement") EXCEPT !.items = items, !.item = next]

Agents == {"plan", "implement"}
Outputs == IF at.node = "plan" THEN {"plan"} ELSE {}
Outcomes == IF at.node = "plan" THEN {"done", "needs_human"} ELSE {"done", "stuck"}

\* The value is as its schema says.
Validate(value) == value \in Plans

(***************************************************************************)
(* The task in the VM                                                      *)
(***************************************************************************)

\* A file of the VM is replaced whole: a temporary file, and a rename.
PutFile(occ, value) == [vm EXCEPT !.out[occ] = value]

\* The file of an output, or that there is none.
ReadOutput(occ) == vm.out[occ]

\* The whole of a result is kept on the host.
KeepResult(occ, what, value) == [kept EXCEPT ![occ][what] = value]

\* What the inputs and the task file tell of the task the engine is at.
TaskFile == IF at.node = "implement" THEN at.items[at.item].what ELSE "plan"

\* MaterializeTask: whatever is there, the inputs and the task file are written.
MaterializeTask == given' = TaskFile

\* next_task comes back with the task that the advance has come to.
NextTask ==
    /\ mu = "nobody" /\ at.node \in Agents /\ vm.has # at.occ
    /\ MaterializeTask
    /\ vm' = [vm EXCEPT !.has = at.occ]
    /\ UNCHANGED <<workflowVars, callVars, loopVars, kept, gen, accepted, lapse>>

\* waitingAgent: the engine waits for the agent of the task that the session has.
WaitingAgent == at.node \in Agents /\ vm.has = at.occ

\* The agent has a shell, and writes the file of an output itself.
WriteDirectly(value) ==
    /\ WaitingAgent /\ Outputs # {} /\ lapse = {}
    /\ vm' = PutFile(at.occ, value)
    /\ lapse' = {"direct"}
    /\ UNCHANGED <<workflowVars, callVars, loopVars, kept, gen, given, accepted>>

(***************************************************************************)
(* write_output                                                            *)
(***************************************************************************)

\* Under mu: is this the task that is waited for?  Then its value is checked.
WriteCheck(value) ==
    /\ write = NoWrite /\ mu = "nobody"
    /\ WaitingAgent /\ Outputs # {} /\ Validate(value)
    /\ write' = [at |-> "checked", occ |-> at.occ, value |-> value]
    /\ UNCHANGED <<workflowVars, mu, report, loopVars, kept, vm, gen, given, accepted, lapse>>

\* Without mu: the file is written, whole, and the call is answered.
WriteOutput ==
    /\ write.at = "checked"
    /\ vm' = PutFile(write.occ, write.value)
    /\ accepted' = [accepted EXCEPT ![write.occ] = write.value]
    /\ lapse' = IF taken[write.occ] # NotTaken THEN lapse \cup {"late"} ELSE lapse
    /\ write' = NoWrite
    /\ UNCHANGED <<workflowVars, mu, report, loopVars, kept, gen, given>>

\* The sandbox service, or the VM, does not answer; the call ends with an error.
WriteFails ==
    /\ write.at = "checked"
    /\ write' = NoWrite
    /\ UNCHANGED <<workflowVars, mu, report, loopVars, kept, vm, gen, given, accepted, lapse>>

(***************************************************************************)
(* report_result                                                           *)
(***************************************************************************)

TakesUp(r, outcome, text) ==
    /\ mu' = "report"
    /\ report' = [report EXCEPT ![r] = [at |-> "checked", occ |-> at.occ, outcome |-> outcome, text |-> text, gen |-> gen]]
    /\ lapse' = IF \E q \in Reports \ {r} : report[q].at # "idle" /\ report[q].occ = at.occ
                THEN lapse \cup {"twice"} ELSE lapse
    /\ UNCHANGED <<workflowVars, write, loopVars, kept, vm, gen, given, accepted>>

\* Mutant: a report is taken up whatever has been written.
ReportCheckAny(r, outcome, text) ==
    /\ report[r] = NoReport /\ mu = "nobody"
    /\ WaitingAgent
    /\ TakesUp(r, outcome, text)

\* mu is taken, and kept.  "done" is refused while an output has not been written.
ReportCheck(r, outcome, text) ==
    /\ report[r] = NoReport /\ mu = "nobody"
    /\ WaitingAgent
    /\ outcome = "done" /\ Outputs # {} => ReadOutput(at.occ) # NoValue
    /\ TakesUp(r, outcome, text)

\* WriteFeedback: before the engine, whose record of it is cut short.
WriteFeedback(r) ==
    /\ report[r].at = "checked"
    /\ report' = [report EXCEPT ![r].at = "fed"]
    /\ kept' = IF report[r].text = 0 THEN kept ELSE KeepResult(report[r].occ, "feedback", report[r].text)
    /\ UNCHANGED <<workflowVars, mu, write, loopVars, vm, gen, given, accepted, lapse>>

\* A plan that keeps the numbers of what has been committed; it may write a step twice.
KeepsNumbers(plan) ==
    /\ \A i \in 1..Len(plan) : plan[i].number = 0 => committed = {}
    /\ \A d \in really :
         LET named == {i \in 1..Len(plan) : plan[i].number = d.key}
             written == {i \in 1..Len(plan) : plan[i].what = d.what}
         IN named \subseteq written /\ (written # {} => named # {})

Record(r, outcome, value) ==
    taken' = [taken EXCEPT ![at.occ] = [NotTaken EXCEPT !.outcome = outcome, !.value = value, !.feedback = report[r].text]]

\* The engine takes the report: it reads the outputs again, and goes on.
EngineTakes(r) ==
    LET out == ReadOutput(at.occ) IN
    \/ /\ at.node = "plan" /\ report[r].outcome = "done" /\ Validate(out)
       /\ at' = [Step(StepItems(out), 0) EXCEPT !.plan = out]
       /\ Record(r, "done", out)
       /\ lapse' = IF KeepsNumbers(out) THEN lapse ELSE lapse \cup {"renumbered"}
    \/ \* An output that is missing or not valid: the task is given again.
       /\ at.node = "plan" /\ report[r].outcome = "done" /\ ~Validate(out)
       /\ at' = To("plan")
       /\ Record(r, "again", NoValue)
       /\ UNCHANGED lapse
    \/ /\ report[r].outcome = "needs_human" /\ out # Bad
       /\ at' = End
       /\ Record(r, "needs_human", NoValue)
       /\ UNCHANGED lapse
    \/ /\ at.node = "implement" /\ report[r].outcome \in {"done", "stuck"}
       /\ at' = To(IF report[r].outcome = "done" THEN "check" ELSE "plan")
       /\ Record(r, report[r].outcome, NoValue)
       /\ UNCHANGED lapse

\* An outcome that the role does not declare, an output that is not valid, or a run that has
\* been stopped: the engine has recorded nothing.
EngineRefuses(r) ==
    \/ report[r].gen # gen
    \/ report[r].outcome \notin Outcomes
    \/ report[r].outcome = "needs_human" /\ ReadOutput(at.occ) = Bad

ReportEngine(r) ==
    /\ report[r].at = "fed"
    /\ IF EngineRefuses(r)
       THEN /\ report' = [report EXCEPT ![r].at = "refused"]
            /\ UNCHANGED <<at, taken, lapse>>
       ELSE /\ report' = [report EXCEPT ![r].at = "accepted"]
            /\ EngineTakes(r)
            /\ at'.occ \in Occs
    /\ mu' = IF report[r].gen = gen THEN "nobody" ELSE mu
    /\ UNCHANGED <<committed, really, write, loopVars, kept, vm, gen, given, accepted>>

\* Mutant: what was written for the engine stays, also when the engine refuses.
FeedbackStays(r) == UNCHANGED kept

RemoveFeedback(r) == kept' = [kept EXCEPT ![report[r].occ].feedback = 0]

\* A later report has been taken, and has been here already.
Crosses(r) ==
    /\ report[r].at = "accepted" /\ report[r].gen = gen
    /\ \E o \in Occs : /\ o > report[r].occ
                      /\ taken[o].outcome \in {"done", "again", "stuck", "needs_human"}
                      /\ ~\E q \in Reports : report[q].occ = o /\ report[q].at = "accepted"

\* Mutant: a report without feedback leaves what is noted.
NotedIfAny(r) == IF report[r].gen = gen /\ report[r].text # 0 THEN report[r].text ELSE endFeedback

\* What the run notes for the reason of an end.
Noted(r) == IF report[r].gen = gen THEN report[r].text ELSE endFeedback

\* mu is free again: the feedback is taken back, or noted as the reason of an end, and the
\* loop is asked to go on.  What a run that was stopped notes, nobody reads.
ReportReturns(r) ==
    /\ report[r].at \in {"refused", "accepted"}
    /\ IF report[r].at = "refused"
       THEN /\ RemoveFeedback(r)
            /\ UNCHANGED <<endFeedback, kicked>>
       ELSE /\ endFeedback' = Noted(r)
            /\ kicked' = (kicked \/ report[r].gen = gen)
            /\ UNCHANGED kept
    /\ report' = [report EXCEPT ![r] = NoReport]
    /\ lapse' = IF Crosses(r) THEN lapse \cup {"crossed"} ELSE lapse
    /\ UNCHANGED <<workflowVars, mu, write, loop, shown, vm, gen, given, accepted>>

(***************************************************************************)
(* advanceLoop                                                             *)
(***************************************************************************)

\* The advance of a kick, or of any next_task, comes to the check: RunCommand.
RunCommand ==
    /\ loop.at = "idle" /\ mu = "nobody" /\ at.node = "check"
    /\ mu' = "loop" /\ kicked' = FALSE
    /\ loop' = [loop EXCEPT !.at = "running"]
    /\ UNCHANGED <<workflowVars, write, report, endFeedback, shown, kept, vm, gen, given, accepted, lapse>>

\* It ends; the end of what it printed is kept whole, if it printed anything.
CommandEnds(passed, output) ==
    /\ loop.at = "running"
    /\ loop' = [at |-> "ran", passed |-> passed, output |-> output]
    /\ kept' = IF output = 0 THEN kept ELSE KeepResult(at.occ, "output", output)
    /\ UNCHANGED <<workflowVars, callVars, kicked, endFeedback, shown, vm, gen, given, accepted, lapse>>

\* The stream of the command ends without its exit: the advance fails, and another runs it again.
CommandLost ==
    /\ loop.at = "running"
    /\ loop' = NoRun /\ mu' = "nobody"
    /\ UNCHANGED <<workflowVars, write, report, kicked, endFeedback, shown, kept, vm, gen, given, accepted, lapse>>

Checked == taken' = [taken EXCEPT ![at.occ] = [NotTaken EXCEPT !.outcome = IF loop.passed THEN "passed" ELSE "failed",
                                                              !.output = loop.output]]

\* The engine records it.  A step that has passed is committed, and marked; the next is
\* taken up.  One that has not is implemented again.
CommandRecorded ==
    LET item == at.items[at.item] IN
    /\ loop.at = "ran"
    /\ Checked
    /\ IF loop.passed
       THEN /\ committed' = committed \cup {item.key}
            /\ really' = really \cup {[key |-> item.key, what |-> given]}
            /\ at' = Step(at.items, at.item)
       ELSE /\ at' = To("implement")
            /\ UNCHANGED <<committed, really>>
    /\ at'.occ \in Occs
    /\ mu' = "nobody"
    /\ loop' = [NoRun EXCEPT !.at = IF at'.node = "end" THEN "seen" ELSE "idle"]
    /\ UNCHANGED <<write, report, kicked, endFeedback, shown, kept, vm, gen, given, accepted, lapse>>

\* An advance finds the end.
SeeEnd ==
    /\ loop.at = "idle" /\ mu = "nobody" /\ at.node = "end"
    /\ kicked \/ ~shown.done
    /\ loop' = [loop EXCEPT !.at = "seen"]
    /\ kicked' = FALSE
    /\ UNCHANGED <<workflowVars, callVars, endFeedback, shown, kept, vm, gen, given, accepted, lapse>>

EndOutcome == IF taken[at.occ].outcome = "needs_human" THEN "needs_human" ELSE "done"

Reason == CASE EndOutcome = "done" -> 0
            [] EndOutcome # "done" /\ endFeedback # 0 -> endFeedback
            [] OTHER -> shown.reason

\* reflect.
Reflect ==
    /\ loop.at = "seen"
    /\ shown' = [done |-> TRUE, outcome |-> EndOutcome, reason |-> Reason]
    /\ loop' = NoRun
    /\ lapse' = IF EndOutcome # "done" /\ endFeedback # 0
                   /\ \E r \in Reports : report[r].at = "accepted" /\ report[r].gen = gen /\ report[r].text = 0
                THEN lapse \cup {"early"} ELSE lapse
    /\ UNCHANGED <<workflowVars, callVars, kicked, endFeedback, kept, vm, gen, given, accepted>>

(***************************************************************************)
(* Runs                                                                    *)
(***************************************************************************)

\* Stop, or the end of serve, and Resume: the VM is made anew.  A call that Stop does not
\* wait for goes on; its engine records nothing any more.
Restart(crash) ==
    /\ gen < MaxRuns /\ ~shown.done
    /\ gen' = gen + 1
    /\ vm' = NewVM
    /\ accepted' = [accepted EXCEPT ![at.occ] = IF taken[at.occ] = NotTaken THEN NoValue ELSE @]
    /\ mu' = "nobody" /\ loop' = NoRun /\ kicked' = FALSE /\ endFeedback' = 0
    /\ IF crash THEN write' = NoWrite /\ report' = [r \in Reports |-> NoReport]
       ELSE UNCHANGED <<write, report>>
    /\ lapse' = IF \/ loop.at = "ran" \/ at.node = "end"
                   \/ crash /\ \E r \in Reports : report[r].at \in {"fed", "refused"}
                THEN lapse \cup {"cut"} ELSE lapse
    /\ UNCHANGED <<workflowVars, shown, kept, given>>

(***************************************************************************)
(* Specification                                                           *)
(***************************************************************************)

\* What is said, and printed, with good and with bad news: a bound on the data.
Texts(outcome) ==
    (IF outcome = "done" THEN {} ELSE {at.occ}) \cup (IF outcome \in {"done", "needs_human"} THEN {0} ELSE {})
Output(passed) == IF passed THEN 0 ELSE gen

TasksNext ==
    \/ NextTask
    \/ WriteDirectly(Bad)
    \/ \E value \in Plans : WriteCheck(value)
    \/ WriteOutput \/ WriteFails
    \/ \E r \in Reports :
         \/ \E outcome \in Outcomes \cup {"odd"} : \E text \in Texts(outcome) : ReportCheck(r, outcome, text)
         \/ WriteFeedback(r) \/ ReportEngine(r) \/ ReportReturns(r)
    \/ RunCommand \/ CommandLost \/ CommandRecorded
    \/ \E passed \in BOOLEAN : CommandEnds(passed, Output(passed))
    \/ SeeEnd \/ Reflect
    \/ \E crash \in BOOLEAN : Restart(crash)

TasksSpec == TasksInit /\ [][TasksNext]_tasksVars

(***************************************************************************)
(* Properties                                                              *)
(***************************************************************************)

\* What the engine has of a task that is done is what write_output accepted last for it, and
\* no task is given again for what was not written, unless the guest wrote the file itself,
\* or a write that was accepted came after the report.
RecordIsAcceptedUnlessSlip ==
    lapse \cap {"direct", "late"} # {}
    \/ \A o \in Occs : /\ taken[o].outcome # "again"
                       /\ taken[o].value # NoValue => taken[o].value = accepted[o]

\* records/results has the whole of what the engine's record is cut from, and nothing of a
\* report that was refused, unless two reports of a task crossed or the run was cut off
\* between the two.
ResultsAreKeptUnlessSlip ==
    lapse \cap {"twice", "cut"} # {}
    \/ \A o \in Occs : taken[o] # NotTaken =>
         kept[o] = [feedback |-> taken[o].feedback, output |-> taken[o].output]

Quiet == shown.done /\ ~kicked /\ loop = NoRun /\ \A r \in Reports : report[r].at # "accepted"

\* A run that has ended otherwise than done shows the feedback of the report that ended it.
EndShowsItsReasonUnlessSlip ==
    lapse \cap {"early", "crossed", "cut"} # {}
    \/ (Quiet => /\ shown.outcome = EndOutcome
                 /\ shown.reason = IF EndOutcome = "done" THEN 0 ELSE taken[at.occ].feedback)

\* Another of these items is written as the step that was committed.
AnotherAlike(items, i, d) ==
    \E j \in (1..Len(items)) \ {i} : [key |-> items[j].key, what |-> items[j].what] = d

\* A step of a plan that is passed over has been committed as it is written, and one that was
\* committed is not taken up again, as long as plans keep the numbers of their steps: only
\* another step that the plan writes alike is.
StepsAreDoneOnceUnlessRenumbered ==
    "renumbered" \in lapse
    \/ \A i \in 1..Len(at.items) :
         /\ at.items[i].done => [key |-> at.items[i].key, what |-> at.items[i].what] \in really
         /\ at.node = "implement" /\ i = at.item =>
              \A d \in really : d.what = at.items[i].what => AnotherAlike(at.items, i, d)

\* The engine's record and records/results are of the report that was accepted: the two
\* above (runner.go, Report; records/results).
RecordsAreOfTheReportUnlessSlip == RecordIsAcceptedUnlessSlip /\ ResultsAreKeptUnlessSlip
=============================================================================
