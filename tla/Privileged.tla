---------------------------- MODULE Privileged -----------------------------
(***************************************************************************)
(* Privileged commands: the calls of run_privileged_command and of the     *)
(* privileged nodes (serve/privileged.go, internal/privileged), and the     *)
(* jobs of the sandbox service that run them in a VM of their own           *)
(* (fakesandbox/job.go).                                                   *)
(*                                                                         *)
(* A job and its caller run on their own: the caller sees the end of the   *)
(* stream, the job sees the end of the caller's context, and the deadline   *)
(* of the job passes at any time.  A run that is stopped and resumed has a  *)
(* new privMu, and calls of the old run may still be on their way.          *)
(***************************************************************************)
EXTENDS Integers, FiniteSets

CONSTANTS Callers,     \* calls at a time
          Plain,       \* approved commands without secrets
          Secret,      \* approved commands with secrets
          MaxRuns,     \* bound: records of runs
          MaxCommits,  \* bound: commits of the staging branch
          MaxFaults    \* bound: cut calls, failed writes and Stops

Commands == Plain \cup Secret

ASSUME CommandsAssumption == Plain \cap Secret = {} /\ "none" \notin Commands
ASSUME BoundsAssumption == MaxRuns \in Nat /\ MaxCommits \in Nat \ {0} /\ MaxFaults \in Nat

VARIABLES
    head,      \* staging: the head of the branch
    reviewed,  \* engine: the commit a publish would land now, or 0
    gen,       \* the number of the run: Resume makes the next one
    lock,      \* privMu of each run: the caller that holds it
    call,      \* the calls
    records,   \* records/privileged: what each run-id has
    inGuest,   \* /masuda/privileged of the main guest: the run-ids, each with its command
    job,       \* the job of each caller, in the sandbox service
    faults,
    slip       \* history: "late" when a deadline passed after the command had ended

callVars == <<lock, call, records, inGuest>>
envVars == <<head, reviewed, gen>>
vars == <<envVars, callVars, job, faults, slip>>

Numbers == 1..MaxRuns
Gens == 1..(MaxFaults + 1)
Idle == [at |-> "idle", cmd |-> "none", node |-> FALSE, commit |-> 0, gen |-> 0, n |-> 0, cut |-> FALSE]
NoJob == [at |-> "none", cmd |-> "none", ref |-> 0, late |-> FALSE, exited |-> "none", outputs |-> "none"]
WIP == -1

CallRecords ==
    [at : {"idle", "wait", "mkdir", "pin", "build", "bundle", "stream", "place", "save", "fail"},
     cmd : Commands \cup {"none"}, node : BOOLEAN, commit : 0..MaxCommits,
     gen : Gens \cup {0}, n : 0..(MaxRuns + 1), cut : BOOLEAN]
JobRecords ==
    [at : {"none", "inputs", "setup", "running", "outputs", "destroying", "finished", "failed"},
     cmd : Commands \cup {"none"}, ref : {WIP} \cup 0..MaxCommits, late : BOOLEAN,
     exited : {"none", "setup", "yes", "timeout"}, outputs : {"none", "all", "some"}]

TypeOK ==
    /\ head \in 1..MaxCommits /\ reviewed \in 0..MaxCommits
    /\ gen \in Gens
    /\ lock \in [Gens -> Callers \cup {"free"}]
    /\ call \in [Callers -> CallRecords]
    /\ records \in [Numbers -> {"none", "dir", "host", "error", "complete", "partial", "missing", "timeout"}]
    /\ inGuest \subseteq (Numbers \X Commands)
    /\ job \in [Callers -> JobRecords]
    /\ faults \in 0..MaxFaults
    /\ slip \in SUBSET {"late"}

Init ==
    /\ head = 1 /\ reviewed = 0 /\ gen = 1
    /\ lock = [g \in Gens |-> "free"]
    /\ call = [c \in Callers |-> Idle]
    /\ records = [n \in Numbers |-> "none"]
    /\ inGuest = {}
    /\ job = [c \in Callers |-> NoJob]
    /\ faults = 0 /\ slip = {}

(***************************************************************************)
(* Around the calls                                                        *)
(***************************************************************************)

\* advance holds runCtl.mu while a privileged node runs, so nothing else moves the engine.
EngineFree == \A c \in Callers : ~(call[c].node /\ call[c].gen = gen)

Commit ==
    /\ EngineFree /\ head < MaxCommits
    /\ head' = head + 1 /\ reviewed' = 0
    /\ UNCHANGED <<gen, callVars, job, faults, slip>>

Review ==
    /\ EngineFree /\ reviewed # head
    /\ reviewed' = head
    /\ UNCHANGED <<head, gen, callVars, job, faults, slip>>

\* Stop and Resume: the contexts of the old run end, and the VM is made anew.
Resume ==
    /\ faults < MaxFaults
    /\ faults' = faults + 1 /\ gen' = gen + 1
    /\ inGuest' = {}
    /\ UNCHANGED <<head, reviewed, lock, call, records, job, slip>>

\* The guest cuts the connection.
Cut(c) ==
    /\ call[c].at # "idle" /\ ~call[c].cut /\ ~call[c].node /\ faults < MaxFaults
    /\ faults' = faults + 1
    /\ call' = [call EXCEPT ![c].cut = TRUE]
    /\ UNCHANGED <<envVars, lock, records, inGuest, job, slip>>

Cancelled(c) == call[c].cut \/ call[c].gen # gen

(***************************************************************************)
(* A call                                                                  *)
(***************************************************************************)

Goes(c, at) == call' = [call EXCEPT ![c].at = at]

\* A job is still at work in the service; its caller may be gone.
Active(c) == job[c].at \notin {"none", "finished", "failed"}

\* Mutant: secrets are refused to callers that are no node by name only.
BeginTrusting(c, cmd, node) ==
    /\ call[c] = Idle /\ job[c] = NoJob
    /\ node => EngineFree
    /\ \E n \in Numbers : records[n] = "none"
    /\ call' = [call EXCEPT ![c] = [Idle EXCEPT !.at = "wait", !.cmd = cmd, !.node = node,
                                    !.commit = reviewed, !.gen = gen]]
    /\ UNCHANGED <<envVars, lock, records, inGuest, job, faults, slip>>

\* Resolve refuses a command that the definitions of the run do not declare, or whose
\* approval has another hash: Approvals.tla has the approvals.
\* With secrets only for a node, on the commit that a publish would land.
Begin(c, cmd, node) ==
    /\ call[c] = Idle /\ job[c] = NoJob
    /\ node => EngineFree
    /\ cmd \in Secret => node /\ reviewed # 0
    /\ \E n \in Numbers : records[n] = "none"
    /\ call' = [call EXCEPT ![c] = [Idle EXCEPT !.at = "wait", !.cmd = cmd, !.node = node,
                                    !.commit = IF node THEN reviewed ELSE 0, !.gen = gen]]
    /\ UNCHANGED <<envVars, lock, records, inGuest, job, faults, slip>>

\* The call returns and its lock is free; a job that is still at work ends by itself.
Ended(c) ==
    /\ call' = [call EXCEPT ![c] = Idle]
    /\ lock' = [lock EXCEPT ![call[c].gen] = "free"]
    /\ job' = IF Active(c) THEN job ELSE [job EXCEPT ![c] = NoJob]

\* privMu is taken, and the next number is one more than the last that the directory has.
Lock(c) ==
    /\ call[c].at = "wait" /\ lock[call[c].gen] = "free"
    /\ lock' = [lock EXCEPT ![call[c].gen] = c]
    /\ LET used == {n \in Numbers : records[n] # "none"} IN
         call' = [call EXCEPT ![c].at = "mkdir", ![c].n = Cardinality(used) + 1]
    /\ UNCHANGED <<envVars, records, inGuest, job, faults, slip>>

\* Mutant: os.MkdirAll.
NumberMakeAll(c) ==
    /\ call[c].at = "mkdir"
    /\ IF call[c].n \in Numbers
       THEN records' = [records EXCEPT ![call[c].n] = "dir"] /\ Goes(c, "pin") /\ UNCHANGED <<lock, job>>
       ELSE Ended(c) /\ UNCHANGED records
    /\ UNCHANGED <<envVars, inGuest, faults, slip>>

\* os.Mkdir, which fails when a call of an older run was first.
NumberMake(c) ==
    /\ call[c].at = "mkdir"
    /\ IF call[c].n \in Numbers /\ records[call[c].n] = "none"
       THEN records' = [records EXCEPT ![call[c].n] = "dir"] /\ Goes(c, "pin") /\ UNCHANGED <<lock, job>>
       ELSE Ended(c) /\ UNCHANGED records
    /\ UNCHANGED <<envVars, inGuest, faults, slip>>

\* The tree of the job: a snapshot of the working tree, or, with secrets, the commit
\* that is approved, if it still is the head of the branch.
Pin(c) ==
    /\ call[c].at = "pin"
    /\ IF Cancelled(c) \/ (call[c].cmd \in Secret /\ head # call[c].commit)
       THEN Ended(c)
       ELSE /\ Goes(c, "build") /\ UNCHANGED lock
            /\ job' = [job EXCEPT ![c].ref = IF call[c].cmd \in Secret THEN call[c].commit ELSE WIP]
    /\ UNCHANGED <<envVars, records, inGuest, faults, slip>>

\* The image is built.  A call that fails up to here leaves an empty directory.
Build(c) ==
    /\ call[c].at = "build"
    /\ IF Cancelled(c) THEN Ended(c) ELSE Goes(c, "bundle") /\ UNCHANGED <<lock, job>>
    /\ UNCHANGED <<envVars, records, inGuest, faults, slip>>

\* The snapshot or the image cannot be made.
BuildFails(c) ==
    /\ call[c].at \in {"pin", "build"} /\ faults < MaxFaults
    /\ faults' = faults + 1
    /\ Ended(c)
    /\ UNCHANGED <<envVars, records, inGuest, slip>>

\* privileged.Run makes the bundle and asks for the job.
Bundle(c) ==
    /\ call[c].at = "bundle"
    /\ IF Cancelled(c) THEN Goes(c, "fail") /\ UNCHANGED job
       ELSE /\ Goes(c, "stream")
            /\ job' = [job EXCEPT ![c].at = "inputs", ![c].cmd = call[c].cmd]
    /\ UNCHANGED <<envVars, lock, records, inGuest, faults, slip>>

\* It cannot make the bundle, or place the results.
RunFails(c) ==
    /\ call[c].at \in {"bundle", "place"} /\ faults < MaxFaults
    /\ faults' = faults + 1
    /\ Goes(c, "fail")
    /\ UNCHANGED <<envVars, lock, records, inGuest, job, slip>>

(***************************************************************************)
(* The job                                                                 *)
(***************************************************************************)

\* ctx.Err() # nil: the caller has gone.  jobTimedOut: it has not, and the deadline passed.
Gone(c) == Cancelled(c) \/ call[c].at # "stream"
TimedOut(c) == job[c].late /\ ~Gone(c)

JobGoes(c, at) == job' = [job EXCEPT ![c].at = at]
JobFails(c) == job' = IF Gone(c) THEN [job EXCEPT ![c] = NoJob] ELSE [job EXCEPT ![c].at = "failed"]
JobFrame == UNCHANGED <<envVars, callVars, faults>>

Deadline(c) ==
    /\ Active(c) /\ job[c].at # "destroying" /\ ~job[c].late
    /\ job' = [job EXCEPT ![c].late = TRUE]
    /\ slip' = IF job[c].at = "outputs" /\ job[c].exited # "none" THEN slip \cup {"late"} ELSE slip
    /\ JobFrame

\* The VM, then the bundle and the inputs, some of them from the main guest.
JobPrepares(c) ==
    /\ job[c].at = "inputs"
    /\ JobGoes(c, "setup")
    /\ UNCHANGED slip /\ JobFrame

\* An input cannot be placed, a shell not be run, or the outputs not be read; the deferred
\* destroy takes the VM away.
JobBreaks(c) ==
    /\ job[c].at \in {"inputs", "setup", "running", "outputs"} /\ faults < MaxFaults
    /\ faults' = faults + 1
    /\ JobFails(c)
    /\ UNCHANGED <<envVars, callVars, slip>>

\* setup_shell checks the tree out, or ends with another code than 0: then the command is
\* passed over, but not the outputs.  The deadline skips everything up to the end.
JobSetup(c) ==
    /\ job[c].at = "setup"
    /\ \/ Gone(c) /\ JobFails(c)
       \/ TimedOut(c) /\ JobGoes(c, "destroying")
       \/ ~Gone(c) /\ ~TimedOut(c) /\ job' = [job EXCEPT ![c].at = "running", ![c].exited = "setup"]
       \/ ~Gone(c) /\ ~TimedOut(c) /\ JobGoes(c, "outputs")
    /\ UNCHANGED slip /\ JobFrame

\* Mutant: the deadline of the job does not reach the command.
JobRunsOn(c) ==
    /\ job[c].at = "running"
    /\ \/ Gone(c) /\ JobFails(c)
       \/ /\ ~Gone(c) /\ ~TimedOut(c)
          /\ \E how \in {"yes", "timeout"} : job' = [job EXCEPT ![c].at = "outputs", ![c].exited = how]
    /\ UNCHANGED slip /\ JobFrame

\* The command ends, is killed at its own limit, at the deadline of the job, or because
\* the caller went away; it may also run on.
JobRuns(c) ==
    /\ job[c].at = "running"
    /\ \/ Gone(c) /\ JobFails(c)
       \/ TimedOut(c) /\ JobGoes(c, "destroying")
       \/ /\ ~Gone(c) /\ ~TimedOut(c)
          /\ \E how \in {"yes", "timeout"} : job' = [job EXCEPT ![c].at = "outputs", ![c].exited = how]
    /\ UNCHANGED slip /\ JobFrame

\* The outputs that are there are collected, unless the deadline passed in between.
JobOutputs(c) ==
    /\ job[c].at = "outputs"
    /\ \/ TimedOut(c) /\ JobGoes(c, "destroying")
       \/ /\ ~TimedOut(c)
          /\ \E got \in {"all", "some"} : job' = [job EXCEPT ![c].at = "destroying", ![c].outputs = got]
    /\ UNCHANGED slip /\ JobFrame

JobDestroy(c) ==
    /\ job[c].at = "destroying"
    /\ IF Gone(c) THEN JobFails(c) ELSE JobGoes(c, "finished")
    /\ UNCHANGED slip /\ JobFrame

(***************************************************************************)
(* The end of a call                                                       *)
(***************************************************************************)

\* The stream ends: with Finished, or with an error of the job or of the context.
\* A setup that did not end well is an error; a command that ended counts before a deadline.
StreamEnds(c) ==
    /\ call[c].at = "stream"
    /\ \/ Cancelled(c) /\ Goes(c, "fail") /\ UNCHANGED records
       \/ job[c].at = "failed" /\ Goes(c, "fail") /\ UNCHANGED records
       \/ /\ job[c].at = "finished"
          /\ IF job[c].exited = "none" THEN Goes(c, "fail") /\ UNCHANGED records
             ELSE Goes(c, "place") /\ records' = [records EXCEPT ![call[c].n] = "host"]
    /\ UNCHANGED <<envVars, lock, inGuest, job, faults, slip>>

\* A copy of the results for the main guest, but for those of commands with secrets.
Place(c) ==
    /\ call[c].at = "place"
    /\ IF call[c].cmd \in Secret THEN Goes(c, "save") /\ UNCHANGED inGuest
       ELSE IF Cancelled(c) THEN Goes(c, "fail") /\ UNCHANGED inGuest
       ELSE Goes(c, "save") /\ inGuest' = inGuest \cup {<<call[c].n, call[c].cmd>>}
    /\ UNCHANGED <<envVars, lock, records, job, faults, slip>>

\* What result.json says of the command and its outputs.
Outcome(j) ==
    IF j.exited = "setup" THEN "timeout"
    ELSE CASE j.outputs = "some" -> "partial"
           [] j.outputs = "all" -> "complete"
           [] OTHER -> "missing"

\* result.json, with the result; the lock is free again.
Save(c) ==
    /\ call[c].at = "save"
    /\ records' = [records EXCEPT ![call[c].n] = Outcome(job[c])]
    /\ Ended(c)
    /\ UNCHANGED <<envVars, inGuest, faults, slip>>

\* privileged.Run fails, and result.json has the error.
Fail(c) ==
    /\ call[c].at = "fail"
    /\ records' = [records EXCEPT ![call[c].n] = "error"]
    /\ Ended(c)
    /\ UNCHANGED <<envVars, inGuest, faults, slip>>

\* result.json cannot be written; the call returns what it has all the same.
SaveFails(c) ==
    /\ call[c].at \in {"save", "fail"} /\ faults < MaxFaults
    /\ faults' = faults + 1
    /\ Ended(c)
    /\ UNCHANGED <<envVars, records, inGuest, slip>>

(***************************************************************************)
(* Specification                                                           *)
(***************************************************************************)

CallStep(c) ==
    \/ Lock(c) \/ NumberMake(c) \/ Pin(c) \/ Build(c) \/ Bundle(c)
    \/ StreamEnds(c) \/ Place(c) \/ Save(c) \/ Fail(c)

JobStep(c) == JobPrepares(c) \/ JobSetup(c) \/ JobOutputs(c) \/ JobDestroy(c)

Next ==
    \/ Commit \/ Review \/ Resume
    \/ \E c \in Callers :
         \/ \E cmd \in Commands, node \in BOOLEAN : Begin(c, cmd, node)
         \/ CallStep(c) \/ BuildFails(c) \/ RunFails(c) \/ SaveFails(c) \/ Cut(c)
         \/ JobStep(c) \/ JobRuns(c) \/ JobBreaks(c) \/ Deadline(c)

\* A call and a job go on.  A command need not end, but its deadline passes, and what
\* runs then, or for a caller that has gone, is killed.
Fairness ==
    \A c \in Callers :
        /\ SF_vars(Lock(c)) /\ WF_vars(CallStep(c))
        /\ WF_vars(JobStep(c))
        /\ WF_vars(Deadline(c))
        /\ WF_vars(JobRuns(c) /\ (Gone(c) \/ TimedOut(c)))

Spec == Init /\ [][Next]_vars /\ Fairness

(***************************************************************************)
(* Properties                                                              *)
(***************************************************************************)

\* While a command with secrets runs for a caller that waits for it, its tree is the head
\* of the branch, and the commit a publish would land: nothing is committed and no review
\* is taken back behind it.  What it leaves is never put where the agents read.
SecretsStayInside ==
    /\ \A c \in Callers : job[c].at = "running" /\ job[c].cmd \in Secret /\ ~Gone(c)
                          => job[c].ref = reviewed /\ job[c].ref = head
    /\ \A p \in inGuest : p[2] \in Plain

\* Two calls never write into the directory of the same run-id, also when one of them is
\* left from before a Resume and holds the privMu of its own run.
RecordsAreOwn ==
    \A c, d \in Callers :
        LET owns(x) == call[x].n # 0 /\ call[x].at # "mkdir" IN
          owns(c) /\ owns(d) /\ call[c].n = call[d].n => c = d

\* The result.json of a command that ended has its outputs or says that some are missing,
\* but for a deadline of the job that passed after the command had ended.
OutputsAccounted == "late" \in slip \/ \A n \in Numbers : records[n] # "missing"

\* The records can be relied on: the two above.
RecordsAreTrueUnlessLate == RecordsAreOwn /\ OutputsAccounted

\* Every call returns and its VM goes away, whatever the command does, though the guest or
\* a Stop may cut the call at any time.
CallsEnd == \A c \in Callers : (call[c] # Idle \/ Active(c)) ~> (call[c] = Idle /\ ~Active(c))
=============================================================================
