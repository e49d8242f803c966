# A verification development for masuda

masuda runs coding agents in sandbox VMs. `masuda serve` (the packages under
`src/serve/` and `src/internal/`) owns everything that has state: it starts and
stops workspaces, drives the workflow engine, talks to the main session of the
guest over MCP, records gates and questions for the human, commits and publishes
what agents made, and streams events to clients. This directory models it in
TLA+, checks the models with TLC and proves their main properties with TLAPS.

- [The system](#the-system): its parts and what makes each correct
- [Modules](#modules): what models what, state by state
- [Runs](#runs): what TLC checks, on which instance, and why that is enough
- [What the code does not keep](#what-the-code-does-not-keep): the races and
  failures that the properties except
- [What is proved](#what-is-proved), and from what
- [What is not modelled](#what-is-not-modelled), and the [plan](#plan)

## The system

| component | source | state | operations | talks to |
|---|---|---|---|---|
| advance loop, `next_task`, wake-ups | `serve/run.go`, `serve/wake.go` | `advNext`, `advRunning`, `seq`, `waiting`, `wantWake`, `waking`, `wakeSends`, `changed` | `NextTask`, `advanceLoop`, `kick`, `notify`, `decide`, `answer`, `ReportResult`, `ReportConcern`, `tryWake` | the guest's main session (MCP, tmux), the engine, the API |
| workspace lifecycle | `serve/lifecycle.go`, `serve/boot.go`, `serve/workspace.go`, `reflect`/`update` of `serve/run.go` | `workspace.json`, the registered run, the VM, `bootDone` | `Run`, `Stop`, `Resume`, `Remove`, `boot`, `reflect`, `recoverInterrupted` | the sandbox service, the engine, the loop |
| event stream | `serve/events.go`, `cmd/masuda/wait.go` | a ring of events, the last status of each workspace, watchers | `publish`, `publishStatus`, `statusChanged`, `Watch`, `forget` | every other component publishes; clients watch |
| gates and questions | `serve/gates.go`, `serve/questions.go`, `internal/workspace/records.go` | one record per opening, with its decision, its answers, or why it was closed | open, supersede, `Decide`, `Answer`, `ask_human`, discard on resume | engine, runner, people |
| staging | `internal/staging`, `internal/runner` | a bare repository, the branch head, work in progress, the guest's head | snapshot, commit, publish, restore, synchronise, clean up | git, the guest, the user's repository, the remote |
| tasks | `internal/runner/runner.go`, `task.go`, `serve/run.go` | task files and outputs in the VM, `records/results`, `committed-steps.json`, the reason of an end | `write_output`, `report_result`, running a check, committing a step | engine, guest |
| files of a run | `internal/runner/store.go`, `internal/workspace/comments.go`, `records.go` | `engine.json`, `comments.jsonl`, `subagents.json` | check and write, append, import | engine, people |
| activity, patrol | `serve/activity.go`, `serve/resources.go` | last contact, requests in flight, warnings | observe, compute, patrol | sandbox events, hooks, tmux |
| privileged commands | `serve/privileged.go`, `internal/privileged`, `internal/fakesandbox/job.go` | `privMu`, records, the job of a call | resolve, run in a VM of its own, place results | runner, agents, sandbox service |
| configuration and approvals | `serve/config.go`, `internal/config`, `cmd/masuda/env.go`, `internal/secrets` | `settings.json`, `settings.local.json`, the secrets | approve, reject, pin, import, plan a boot | people, boot |
| the serve process | `serve/serve.go`, `serve/sandbox.go`, `cmd/masuda/serve.go` | the socket, the port, the contract with the sandbox service | start, stop, check | operating system, sandbox service |

What is hard in this code: goroutines that read a state, release a lock and act
on it; connections that are cut while their handler goes on; `Stop` and `Resume`
while goroutines of the former run still write; crashes between two writes of
two files; people and other processes that write the same files and branches;
watchers that fall behind a bounded ring. `PROJECT.json` lists these hazards,
each at its line, with the properties that would catch it.

What makes each component correct:

- *next_task and waking*: a session that was told to wait is woken when there is
  something to do; a status that is handed out is current; every call returns; a
  stopped run comes to rest.
- *lifecycle*: a stopped workspace stays stopped; no VM outlives its workspace's
  run; an active state is served by a run; one boot at a time makes a VM.
- *boot*: what runs is what was checked, file by file; a failure leaves nothing
  that is in the way of the next try.
- *events*: a stream passes over no event that is still kept and never sleeps over
  one; what a client sees is current once everything is sent; `masuda wait`
  returns.
- *records*: what is listed is what the engine waits for; an approval is of the
  contents that were shown; what was said reaches whom it was said to.
- *staging and publishing*: the branch gets what was allowed and nothing else; a VM
  gets back what was taken from the last one; the user's own commits are never
  written over; whoever cleans up exports a session's transcripts before its VM goes.
- *tasks*: what the engine has is what was accepted; a step is done once.
- *privileged commands, approvals*: secrets reach approved commits only; a VM opens
  no more than was approved; what was approved is what was read.
- *serve*: one process works on a data directory and clients find it.

## Modules

Every module opens with what a step of it is. Conventions: a goroutine or a call
is a program counter over its critical sections, system calls or git commands; a
counter that is only compared is kept as the outcome of the comparison; a
content is a version number or a model value; `...UnlessSlip` properties except
what the history variable `slip` (or `mishap`) says has happened, and the section
on [exceptions](#what-the-code-does-not-keep) lists every one of them. Operators
marked `Mutant:` are not part of a specification: each is a plausible bug in the
definition that follows it, and TLC finds a property violated when it takes that
definition's place (`PROJECT.json`, `mutants`).

Eight modules hold the theorems. `WakeProofs`, `LifecycleProofs` and
`PrivilegedProofs` are named for the component they begin with, and so are
`EventBusProofs`, `RecordsProofs`, `StagingProofs`, `PublishProofs` and `BootProofs`;
all but the first two are about a second component too, which shares no variable with
the first (the headings below say which).

### Wake, WakeInv, WakeProofs

`Wake` models one run (`runCtl`) with everything that calls into it. A step is
one critical section or one `select`.

| in the model | in the code |
|---|---|
| `pos` | the position `eng.Advance` computes from the records; `"host"`: host nodes are to be run |
| `queued`, `loop`, `loopSt` | `advNext`, the goroutine `advanceLoop`, the result of its advance |
| `call`, `ticket`, `moved`, `chClosed`, `gone`, `answer` | one handler of `NextTask` each: where it is, the `advanceRun` it holds, `seq # seen`, its `ch`, `ctx.Err()`, what it returns |
| `reporter` | `decide`/`answer` (`"api"`) and `ReportResult`/`ReportConcern` (`"tool"`) |
| `waiting`, `wantWake`, `waking`, `wakeSends`, `waker` | the fields of that name, the goroutines of `tryWake` |
| `guest`, `live`, `typed` | the main session, the call it waits on, the wake text in its input line |
| `stopping` | `c.ctx` is cancelled |

Timers (the ninety seconds of `next_task`, the sixty between two sends) may fire
at any moment. The engine is one step because every caller holds `c.mu`.

### Lifecycle, LifecycleInv, LifecycleProofs

`Lifecycle` models one workspace: `Stop`, `Resume` and `Remove` step by step,
the boot of a run, the other goroutines that write `workspace.json`, and a
restart of `serve` between any two steps.

| in the model | in the code |
|---|---|
| `disk`, `pos` | `State` in `workspace.json` (`"absent"`: removed), the position in `engine.json` |
| `run`, `cancelled` | the `runCtl` in `b.runs`, whether its `ctx` is cancelled |
| `vm` | the workspace's VM, and whose boot created it |
| `pc`, `val`, `again` | the boot, the advance loop, a decision's own advance and an `ask_human` of each run: where they are, the state they are about to write, `advNext` |
| `fresh` | the run that `Run` made (its boot does not advance at the end) |
| `op`, `step`, `target`, `was` | the operation that holds `lifeMu`, where it stands, the run it stops, the state it read |
| `leftovers` | the VM that `recoverInterrupted` destroys in the background |

A slot of `Runs` is a run of which some goroutine is still alive; goroutines
outlive the registration of their run, which is what makes this component hard.
`WAITING_GATE` and `WAITING_QUESTION` are one state here.

### Boot (proofs: BootProofs)

`Boot` models `Run` from the copy of `.masuda` to the launch of a session, and the
boots of later Resumes. A part of the definitions is its version: `tree` is the
working tree that people edit, `call` the call of `Run` with its temporary copy,
`disk` the directory of the workspace, `ctl` what `serve` holds of it, `boot` and
`vm` the boot and, in `placed`, every part that `Prepare` has put into the guest in
its order; `binary` is the version of what the binary bundles, which an upgrade
changes: definitions and agents, the rules of the loop and the hooks, which `Prepare`
puts beside the definitions of the run (`WithBundled`). A `Resume` can fail after its
state was saved as STARTING (`ResumeFails`): the old state is saved again, the
perspectives stay as copied. `images` has an image's name in the sandbox service and its
record in `serve`. `checked` is history: what `Run` has checked.

### EventFeed, EventBus (proofs: EventBusProofs)

`EventFeed` is what `Watch` promises: one log, and streams that go through it in
order, passing over nothing they want, except that a stream may jump to the
oldest event that is kept when its own position no longer is. `EventBus` is the
code: the ring, the comparison of status events, `statusChanged` in its two
steps, `Watch` with the checks of `after_seq`, the first statuses and the loop,
the client's side with cut connections, `masuda wait`, and a restart. `FeedSpec`
(`INSTANCE EventFeed WITH pos <- ...`) says that it implements `EventFeed`.

| in the model | in the code |
|---|---|
| `seq`, `events`, `last` | `eventBus.seq`, `.events`, `.lastStatus` |
| `closed` | whether the `wake` channel that a stream holds is closed |
| `state` | what `toProto` shows of a workspace, as three values |
| `pub` | goroutines inside `statusChanged` or `Remove` |
| `at`, `next`, `out`, `todo` | the handler of `Watch`: where it is, `next`, events not yet sent (a set: their order is that of their numbers, as `RingInv` says of the ring they are taken from), first statuses not yet sent |
| `seen`, `view`, `awaits` | the client: its last number, the status it shows, what `masuda wait` returns for |

### Records (proofs: RecordsProofs)

`wait` is what the engine waits for; `gates` and `qs` are the records of the
openings; `client` are calls of `Decide` and `Answer` with the record they read,
`asker` calls of `ask_human` with their wake channel `ch`; `running` says whether the
run goes on, is stopped, or is at one of the steps of `Resume`, and `listed` which
questions `discardAskedQuestions` has read as open and not closed yet. `truth` is
history: what the engine did with each opening. A step is one call of the engine
or one access of a record's file. `Stop` cuts a call of `ask_human` where it waits; one
that has not added its question yet still does (`AskLate`).

### Staging, StagingProofs, Publish, PublishProofs

`Staging` has the commits of the staging branch (`branch`), the WIP snapshots
(`wips`, `latest`, `worktree`), the guest with its `HEAD` and tree, and the
operation that the engine has called (`job`); a content is the number of the edit
that wrote it. A step is one git command that moves a ref or one script in the
guest. `Publish` has the ends of a workspace: creating the clone (`--existing` or
not), the publish node step by step (`job`), and the user who commits, checks out
and leaves the branch (`tip`, `work`). Its VM (`vm`: up, with a session launched in
it, its transcripts exported as far as they can be read, of no run any more) is
destroyed in the five places of the code: by `Cleanup`, whose exports come first,
for each of its callers (`clean`, with `cleanMu`: the publish and discard nodes and
the reflect of an end as `"engine"`, `stopRun` of `Stop`, `Resume` and `Remove` as
`"stop"`); by `stopRun` after it, whatever `Cleanup` returned; and without exports
by a boot of `Resume` that clears what is left (`BootClear`), by a boot that failed
(`FailEnds`), and in the background by a serve that starts over and has found the
workspace active (`Restart`, `RecoverDestroys`; a SUSPENDED one keeps its state and
its VM). `run` says where the boot stands and whether the run is cancelled; a
cancelled run's context reaches no sandbox (`Deaf`). Left to `Lifecycle`: BLOCKED,
the steps of `Resume` before its boot, and several runs at once; here a call of a
cancelled run, and the background of a boot, is over before the next operation. What
a session writes while a `Cleanup` reads its transcripts is not told apart from what
it wrote before.

### Tasks (proofs: StagingProofs)

`at` and `taken` are the engine; `kept` is `records/results`; `write`, `report` and
`loop` are `write_output`, the `report_result` calls and `advanceLoop`, which
exclude each other by `mu` only where the code does; `vm` has the task files and
outputs; `shown` is `workspace.json` at the end. A plan is a sequence of numbered
steps (`PlanSteps`), each with `what` it asks for; `StepKey` is how
`committed-steps.json` knows them. `accepted`, `given` and `really` are history: what
`write_output` accepted last, what the task file said that the agent was given last,
and the steps that were committed.

### RunFiles, EngineStore, FileStore, Notes (proofs: RecordsProofs)

`EngineStore` is what the engine is promised of its store: an `Apply` takes effect
at one moment, on the values it has checked, or not at all. `FileStore` is
`records/engine.json`: a map in memory, a temporary file and a rename, and two
stores over one file when `Stop` gave up waiting. `Notes` has `comments.jsonl`,
as a sequence of lines, each with the comments it has a part of and whether it has its
end, and the ids of subagents. `RunFiles` puts them under one `Resume` and
one crash.

### Activity (proofs: EventBusProofs)

`act` is `acts[id]`, `guest` what the session really does, `stream`, `hooks` and
`held` what was seen and not handled yet, `patrol` the patrol between its copy of
the runs and its write. Time passes in minutes (`Tick`), within which everything
in flight is handled and the patrol has looked once. `fault` is history: what has
happened that a record may be wrong for.

### Privileged, PrivilegedProofs, Approvals (proofs: BootProofs), Declared (proofs: PrivilegedProofs)

`Privileged`: the calls of `run_privileged_command` and of privileged nodes
(`call`), `privMu` of each run (`lock`), the numbered records, and the job of each
call in the sandbox service, which runs on its own. A call that fails before
`privileged.Run` leaves an empty directory, one that fails in it a `result.json` with the
error, and that write may fail too. `Approvals`: `settings.json`
(`decl`), `settings.local.json` (`local`) with its two writers, `ConfigService`
(`client`, under `mu`) and `env import` (`importer`), the secrets (`store`), and what
the plan of a run takes from them. `Declared` has no steps: a state is an input,
and its properties compare `Match` and the file selections of
`internal/privileged/glob.go`, and the three computations over the rules of
`settings.json`, with what they are to mean. `Match` computes, from the last segment of
a pattern to the first, the set of names from which the segments that are left match:
what the recursion of `matchSegs` returns, for all its calls at once. `Expands` is what
a pattern means: places of the path at which its segments begin.

### Server (proofs: PublishProofs)

Lives of `serve` processes over one socket name and one port (`sock`, `port`,
`at`), what each found when it looked (`seen`), a request and its boot (`req`,
`boot`), and the sandbox service with the contract it was built from. Every
removal is by name, as `os.Remove` and `unlinkOnClose` do it.

## Runs

Twelve runs, all of which pass; each property of a run has a mutant of the code
that violates it. `tlc -workers 2 -config X.cfg MCX` takes from seconds to three
minutes.

| run | instance | shows |
|---|---|---|
| `Wake` | one call slot with a cut call and its retry, one waker, two sends, `Stop`; deadlock checked | `NoLostWakeUnlessSlip`: a session that waits although there is something to do has been asked for or is going to be; `HandsOutCurrentTask`: no task that is already reported is handed out; `NobodyWaitsForEver`: it is woken, and every `next_task` returns |
| `Lifecycle` | two runs (symmetric), all goroutines; deadlock checked | `OneRunAtATime`; `StateAndVMAgreeUnlessSlip`: an active state is served, and no VM is left behind one that is not; `StoppedAndLiveStayUnlessSlip`: only `Resume` revives, and nobody destroys the VM of a run that goes on |
| `Boot` | all parts of `.masuda` edited once, two parts broken by their edit, an upgrade, two restarts, three VMs, a failing step | `RunsWhatWasCheckedUnlessUpgraded`, `FailuresLeaveNothingUnlessInterrupted`, `RecordIsOfTheNameUnlessSlip` (images) |
| `EventBus` | two workspaces, two publishers, a ring of one event, a client that resumes or `masuda wait`, three events from outside; deadlock checked | `ViewIsCurrentUnlessSlip`, `WaitReturns`, and `FeedSpec`: `EventBus` implements `EventFeed` |
| `Records` | one gate, one fixed and one agent's question node, two clients, two `ask_human`, three openings, one fault | `GateRecordsTrue`, `QuestionsAreTrue`, `ApprovalIsOfWhatWasSeen`, `AnsweredReturns` |
| `Staging` | a file outside the plan and a byproduct, two steps, two snapshots, two edits, three commits, two faults | `BranchIsAllowedAndShown`, `GuestHeadKnown`, `WorkIsKept` |
| `Publish` | two commits, one of the user's here and one at the remote, two faults, the second only where no commit and no checkout of the user's is there; in behaviours of their own, three serve processes with two requests and two exchanges of the service, and the inputs of `Declared` (patterns and paths of up to three segments, all settings over three secrets and two hosts) | `PublishKeepsUsersWork`, `NothingLostAtTheEnd`; `OneServeIsReachedUnlessMishap`, `BootsOnOwnContractUnlessMishap`; `SelectsWhatPatternsSay`, `DeclaredIsConsistent` |
| `Tasks` | a plan that writes one step twice, plans of another step under the number of the second and of the first; two reports, five occurrences, two runs | `RecordsAreOfTheReportUnlessSlip`, `EndShowsItsReasonUnlessSlip`, `StepsAreDoneOnceUnlessRenumbered` |
| `RunFiles` | two keys, two users of the store, two runs, one finding and one remark, two tasks | `PromisedUnlessTwo` (`FileStore` implements `EngineStore`), `CommentsKept`, `ContinuesToItsSubagent` |
| `Activity` | one request, two runs, one event and one hook in flight, one broken stream or one change of load | `ShownIsTrueUnlessSlip`, `EndAndWaitAreShownUnlessSlip` |
| `Privileged` | two calls, a command with secrets and one without, two records, two commits, one fault | `SecretsStayInside`, `RecordsAreTrueUnlessLate`, `CallsEnd` |
| `Approvals` | a host, a plaintext and a placeholder secret, two clients, two declarations, one import, one Stop; deadlock checked | `ApprovalsBindUnlessSlip`, `VarsWithTheirSecretsUnlessSlip`, `RunsAsReadUnlessSlip` |

`Publish` runs three specifications that share no variable (`MCPublish`): a
behaviour is one of `Publish`, or one of `Server`, or an input of `Declared`, with
the others at their beginning. Their product would show nothing more.

`MCRecords` takes, of the clients, calls and contents that differ in nothing but
their names, the first that is free (`FirstCalls`); `MCPrivileged` does so with the
callers (`FirstCaller`).

**Bounds.** Two of a kind are the least at which two can meet (runs, clients,
calls of `ask_human`, privileged calls, reports); three serve processes are the
least at which one stops, one starts, and another removes the socket of the
second. A ring of one makes every second event overrun it. Two commits of the staging branch
are the least at which the one that was approved need not be the newest. Counters of faults bound crashes, cut connections and failed writes
together; the runs have enough of them for a fault, and a second while the first
is cleaned up (`Staging`, `Publish`), and one where a second fault only repeats the
first. Every bound is a CONSTANT and stands in a guard.

**Constraints.** `NoSlip`, `StillPromised`, `ImagesInOrder`, `FewSlips` cut a behaviour
after a slip, because the properties say nothing from there on. `Few` of
`Lifecycle`: one run does whatever it can, of two together at most `MaxActive` = 2
goroutines, which is any pair in any order. `StopEarly` of `Wake` follows a `Stop`
only if it comes before a wake is under way, which is where the calls it has to
drain are. `OneTrouble` of `Activity` leaves out two troubles at a time. The
proofs below need none of them: they hold for every size.

**CHECK_DEADLOCK FALSE** stands where the system may stop: a workspace that is
done, or bounds that are used up. `Wake`, `Lifecycle`, `EventBus` and `Approvals` are checked
for deadlock.

**Fairness** is assumed by the liveness properties only.

- `Wake` (`FairSpec`): goroutines keep running; `patrol` runs `tryWake` at the latest
  every thirty seconds; the timer of `next_task` spans all of its loop, so it is
  strongly fair; an `Exec` in the sandbox does not fail for ever (strong fairness
  of `WakeType`); the session reads what is typed. Humans and the network owe
  nothing.
- `EventBus` (`FairSpec`): a `statusChanged` that has begun goes on, and so do the
  handlers of `Watch` and the client, which opens again after it was cut (`waitFor`
  does, every two seconds).
- `Records`: a call of `ask_human`, `Decide` or `Answer` that has begun goes on; nobody has to
  decide, answer or resume.
- `Privileged`: a call and a job go on, the lock is not kept from a caller for ever
  (`sync.Mutex` hands over after a millisecond), and the deadline of a job passes; a
  command need not end.

## What the code does not keep

Properties named `...UnlessSlip`, `...UnlessMishap` and so on hold until a history
variable says that one of the following has happened. Each was met while the
code was modelled, and TLC shows the property violated when the exception is
taken out. None is a statement against a test of the repository.

*Waking (`Wake`).*
- The timer of `next_task` and its `changed` channel are ready together and the
  select takes the timer, after `seen` was read past the change (`run.go:451`): the
  session is told to wait, and nobody wakes it.
- A host node fails in the loop and succeeds in the advance that `decide` does
  itself, which tells nobody (`run.go:747`).

*Lifecycle (`Lifecycle`).*
- `boot`: a boot that fails removes its run first, and destroys the VM and writes
  SUSPENDED afterwards, over a `Stop` or `Resume` in between (`boot.go:293`).
- `late`: a decision or an `ask_human` of a stopped run passes the check of `ctx` and
  writes after `Stop` (`run.go:277`).
- `leftover`, `lost`: the background of `recoverInterrupted` destroys the VM of a
  workspace that was resumed before its turn; a second restart forgets what is
  still to be destroyed (`lifecycle.go:342-345`).
- `kept`: the `Cleanup` before DONE fails; its error is dropped and `Stop` refuses DONE
  (`run.go:288`).
- `stale`: RUNNING of a boot, or an older reflect, lands on a newer state.
- `restore`: a failing `Resume` of SUSPENDED restores a state that the stopped run
  had made active (`lifecycle.go:157`).
- Without a slip: `Stop` decides before it waits for the loop whether the workspace
  is BLOCKED, and turns a BLOCKED that the loop writes meanwhile into STOPPED,
  which can be resumed (`lifecycle.go:87`). No property of the project says that
  BLOCKED stays.
- A host node that hangs in the boot of a resumed run keeps `Stop`, and with it
  `lifeMu`, for ever: `stopRun` waits for `bootDone` without a limit.

*Boot (`Boot`).*
- `interrupted`: serve ends within `Run` after the directory was made: the workspace
  is STOPPED at the next start, and can never run (`workspace.go:80`).
- `upgraded`: `Resume` builds a run again with what another binary bundles: its
  definitions and agents (`boot.go:39`), the rules of the loop in `CLAUDE.md` and the hooks
  in `settings.json` (`guest.go:154`, `guest.go:168`).
- `crossed`, `unrecorded`: two builds of an image are recorded in another order than
  they are named, or a build is cut off before its record (`images.go:86`).

*Events (`EventBus`).*
- `raced`: `statusChanged` publishes an older status after a newer one; `patrol`
  repairs it for a registered run (`events.go:119`).
- `ahead`: the first status of a stream is newer than the last status event; when
  the state goes back, `publishStatus` is silent (`events.go:70`).
- `cut`, `renumbered`: a stream that was cut among its first statuses resumes behind
  their number; a number of before a restart is valid again.
- `jumped`: the loop of `Watch` falls behind the ring and goes on without a word,
  which the check of `after_seq` avoids for a stream that is opened.
- `Remove` sends no event (`events.go:77`): a `masuda wait` that is connected to a
  removed workspace waits for ever. `WaitReturns` says nothing of it.

*Records (`Records`).*
- `stale`: a rejection, which carries no hash, reads one opening of a gate and meets
  the next in the engine (`gates.go:68`).
- `unsaved`: the engine has taken a decision or an answer whose record is not
  written; the record stays open (`run.go:741`).
- `again`, `twice`: `ask_human` is called again while its question is open; two people
  answer one question differently (`run.go:615`).
- `late`: a call of `ask_human` that `Stop` has cut adds its question after `Resume` has
  listed those to close; it stays open with nobody waiting (`run.go:637`).
- An answer that is written while `Resume` closes its question is written over, or
  answers a question that is closed. Nobody waits for it then; no property counts it.

*Staging (`Staging`), publishing (`Publish`).*
- `behind`: the branch has moved and telling the guest failed; the retry finds
  nothing to commit and returns before `syncGuestHead` (`runner.go:946`).
- `untaken`: a commit takes work that no WIP snapshot has (`runner.go:926`), so the
  next boot restores a tree that is older than the branch; `torn`: serve ends between
  a snapshot and noting it as the latest (`staging.go:331`); `reverted`: a tree
  restored after one of these.
- `forgot`: the snapshot of a step's diff is in memory; a gate opened after a restart
  shows another one (`runner.go:626`).
- `checkout`, `elsewhere`: the user checks the branch out, or leaves it, after
  `PublishLocal` has looked (`publish.go:41`).
- `failed`: a `Cleanup` fails, and its error is ignored (DONE at `run.go:285`, which
  `Stop` and `Resume` refuse after that; `stopRun` at `lifecycle.go:56`), or it runs
  with the context of a run that `Stop` has cancelled, or `stopRun` went on before the
  engine's call had come back (`lifecycle.go:44`): the exports may miss the end of the
  log. `stopRun` still reads the transcripts first.
- In the property itself, not slips: a VM may go with nothing exported if serve ended
  while the workspace was active (`orphan`: `lifecycle.go:338`; `boot.go:332`), if
  `stopRun` could not destroy it (`lifecycle.go:60`), if its boot failed after the
  session was launched (`boot.go:294`), or if the recovery of the last start, still
  in the background, destroys by name the VM that `Resume` has made since
  (`lifecycle.go:345`). For each of them TLC finds the export missing when the
  exception is taken out.

*Tasks (`Tasks`).*
- `direct`: the guest writes an output's file without `write_output`; `late`: an
  accepted `write_output` writes after the report was taken.
- `twice`: a refused report removes the feedback of another that was accepted
  meanwhile (`run.go:586`).
- `crossed`, `early`: the feedback for the reason of an end is noted without
  `runCtl.mu`: after that of a later report, or after the end is shown (`run.go:591`).
- `cut`: the run ends between a result and its record.
- `renumbered`: a plan gives a committed number to other work, which is passed over, or
  committed work comes again without its number (`runner.go:717`). Two steps that a plan
  writes alike are two to the run only by their numbers: `StepsAreDoneOnceUnlessRenumbered` lets the
  second be done after the first.

*Files of a run (`RunFiles`).*
- `two`: a host node of a run that `Stop` did not wait for writes `engine.json` over what
  the resumed run wrote (`boot.go:225`).
- `torn`: the comment that is appended to an unfinished line is lost with it
  (`comments.go:36`).

*Activity (`Activity`).*
- `old`: a patrol that looks at a stopped run asks the VM that `Resume` has just made, in which
  nothing runs yet, and marks the resumed run DEAD for good (`activity.go:363`).
- `broken`: the stream of the sandbox's events is never opened again
  (`activity.go:289`).
- `crossed`: an older request is handled after the hook of a wait and takes the wait
  back.
- `finishing`: `reflect` destroys the VM of a run that is done before it writes DONE, so
  it is DEAD for a moment, which ends a `masuda wait`.

*Privileged commands, approvals (`Privileged`, `Approvals`).*
- `late`: the deadline of a job passes after its command has exited and before its
  outputs are read: exit 0, timed out, and no outputs (`privileged.go:297`).
- `import`: `env import` writes `settings.local.json` back over an approval that `serve`
  wrote since (`env.go:184`).
- `unseen`: a command is approved by its name; what is pinned is its declaration at the
  call (`config.go:324`).
- `late` (of `Approvals`): a `SetPolicy` of a stopped run reaches the VM of the next one.
- `skipped`: `env import` passes over a secret that is not declared and writes the vars
  all the same (`env.go:107`).
- A file that is itself called `.git` is taken from the guest and not from the working
  tree (`glob.go`); `SelectsWhatPatternsSay` excepts it.

*serve (`Server`).*
- `raced`: of two starts that find one stale socket, the second removes the one that
  the first has bound since (`serve.go:327`).
- `closing`, `unlinked`: a start that comes while another process stops works beside it,
  and loses its socket to the second `os.Remove` of `Stop` (`serve.go:300`).
- `cut`: `Shutdown` does not wait for requests whose connection h2c has taken over.
- `swapped`: the sandbox service is exchanged between the check and the boot.

## What is proved

TLAPS checks the theorems below to the last leaf, for every value of the
constants, so without the bounds, the symmetry and the constraints of the runs.
They assume what the modules assume of their constants (the named `ASSUME`s, which
TLC evaluates on each run): finite bounds are naturals, the names of special
values are none of the names of real ones, what is approved is either plain or
secret, a finding is no remark (`NotesAssumption`), runs and tasks are numbered from 1
(`StoreAssumption`, `NotesAssumption`), a path has a name and is that of one file of a tree
(`DeclaredAssumption`). None assumes fairness. In each module the inductive invariant is a
conjunction of named parts, there is a lemma for each part with a step for each
action, and the theorem combines them.

**`WakeProofs`.** `TypeCorrect` (types; `wakeSends` within `wakeMaxSends`), `OneWake`
(`OneWakeAtATime`), `HandsOut` (`HandsOutCurrentTask`), `Invariant` and `NoWakeLost`
(`NoLostWakeUnlessSlip`). `WakerInv`: while a goroutine of `tryWake` is past its first
critical section, `waking` is set and there is room for the send it is going to
count. `CallInv` says whose call the session waits for and which advance a ticket
stands for; `HandOutInv` follows a status from the end of that advance to the answer,
and no other step moves `pos` on the way: only a decision at a gate (then nobody
holds a task) or a report of the session's own sub-agent (then it has no call
open). `WakeupInv` follows one call from its `clearWaiting` to the parked session.
While nobody has asked for a wake yet (`Guarded`), it says at each point of the call
why a change of the position cannot be missed: the call's own advance is still to
end, or its number or its channel will tell it, or the loop owes a bump, or a wake
comes that finds `waiting` set. `Danger` includes the advance that `decide` and `answer`
run themselves, which counts no event; without it the invariant is not inductive.
A handler that was cut asks for a wake at its end (`Assured`), so nothing is required
of it.

**`LifecycleProofs`.** `TypeCorrect`, `RunInvariant` and `OneRun` (`OneRunAtATime`), for any
number of run slots and any subset of the goroutines. `OneRunAtATime` is not
inductive: that a `Resume` may launch a boot depends on what `stopRun` has waited
for. `Registration` adds it: the boot that makes a VM belongs to the registered run;
from the wait of `stopRun` on every run is cancelled; nothing is registered between
`stopRun` and `newRunCtl`; the run that `Resume` launches has an idle boot. The types
need `PresentMeanwhile`: only `Remove` removes, at its end, so what `Stop` and `Resume`
read is a state. `AgreeHolds` proves `AgreeInv` over it, and from it follow
`StateAndVMAgree` (`StateAndVMAgreeUnlessSlip`) and, as properties of single steps,
`StoppedAndLiveStay` (`StoppedAndLiveStayUnlessSlip`). The parts of `AgreeInv`: what a goroutine
is about to write (`ValInv`); a run that has reached an end is not advanced again
(`FinalInv`, `LoopInv`, `BlockedInv`); where the boot stands and whose VM it is (`BootInv`, `RunVMInv`, `FailedInv`); what `Stop` and `Resume`
have already destroyed at each of their steps (`StepInv`, `NewVMInv`, `StoppedVMInv`,
`DoneVMInv`). All of it holds up to the first slip only, which each part says.

**`PublishProofs`.** `PublishHolds`, and from it `UsersWorkIsKept` (`PublishKeepsUsersWork`, a
property of steps) and `NothingIsLost` (`NothingLostAtTheEnd`, which has one of
states and one of steps). `PhaseInv`: who may be at work in which state of the
workspace, where the boot stands, and that a VM which a new run finds is of no run;
`HeadInv`: what `CheckHead` found still holds; `ExportInv`: one caller at a time is in
`Cleanup`, what each of its steps has done, and when a VM that goes has been read.
The exceptions of the statement (a VM left over, a failed boot, a recovery still to
do, a failed `Cleanup`) are its own words; nothing about them is assumed.

**`Server`, in `PublishProofs`.** `ServerTypesHold`; `SocketHolds` and from it `OneServeIsReached`
(`OneServeIsReachedUnlessMishap`), for any number of processes that start, stop and
crash; `BootsOnOwnContract`. A start removes a socket only after nobody answered on
it, but by its name: `StaleInv` says that the process it found there has ended.
`NamedInv` has the socket name point at whoever listens, `AloneInv` that nobody else
does, and `WorkInv` that requests and boots are those of a process that is there.

**`PrivilegedProofs`.** `PrivilegedHolds`, `SecretsHold` (`SecretsStayInside`), `RecordsHold`
(`RecordsAreTrueUnlessLate`), for any number of calls, records and Resumes. A call with
secrets is a node's, and holds `runCtl.mu` as long as its run is the present one, so
that what was reviewed at its beginning stays (`NodeInv`) and so does the head, once
`Pin` has compared the two (`PinInv`). `JobInv` ties the job to what its call has pinned
while the call waits for it; after that the job may end by itself. Numbers are
given once although `privMu` belongs to a run and not to the workspace: `NumberInv` says
that a call owns its number from the successful `os.Mkdir` on. `OutputsInv` follows a
job from the end of its command to the collection of its outputs.

**`Declared`, in `PrivilegedProofs`.** `SelectsAsPatternsSay` (`SelectsWhatPatternsSay`) and
`SettingsAreConsistent` (`DeclaredIsConsistent`), for patterns, paths, trees and settings
of any size. `Match` is a recursive function of the position in the pattern, and what
such a function computes cannot be proved by induction here. The proof needs none.
`Match` chooses a function that satisfies the equation of `matchSegs` (`Computes`). The
function that the meaning of a pattern gives (`From`) satisfies the equation
(`ExpandsStep`, `ComputedIs`), and no other function does (`MatchComputes`): two that do
would differ at some last position, where the equation has them equal. `Places` and
the lemmas after it take the places of the segments apart: the ones of `ExpandsFrom`
that begin at a `**`, at a name, and at the end.

**`EventBusProofs`.** `EventHolds`, `ViewIsCurrent` (`ViewIsCurrentUnlessSlip`) and `ImplementsFeed`
(`FeedSpec`: `EventBus` implements `EventFeed`), for any ring and any number of workspaces,
publishers and clients. `RingInv`: the kept events are the last of the log, which is
numbered without a gap. `LastInv`: `lastStatus` is what the last status event of a
workspace said. `PubInv`: a version has been published or somebody is about to publish
it, and one that has been and was not overtaken is the last status. `StreamInv`: what a
stream has still to send is all that it wants from there up to `next`. `ViewInv` relates a
client to all that: it has the last status, or a newer one lies behind what it has
seen, and the stream has still to send those up to `next`. What a step of the rest of
`serve` can mean for one workspace (`Passes`) is worked out once (`WorksMean`,
`OtherMeans`), so that the lemmas about streams do not go through those steps again.
The refinement has a lemma for each step of a stream (`FeedSince`, `FeedSend`, ...).

**`Activity`, in `EventBusProofs`.** `ActivityHolds`, `ShownIsTrue` (`ShownIsTrueUnlessSlip`) and
`EndAndWaitAreShown` (`EndAndWaitAreShownUnlessSlip`), for any number of requests, runs,
messages in flight and breaks. `RunInv`: what a state of the workspace says of its VM.
`MessagesInv` and `PatrolInv`: what is in flight, and what the patrol carries from its
look to its write, is so of the VM it is about, and a minute with an answer of the
patrol finds the end of a session. `DeadInv` and `QuietInv`: what the record says is so,
or something is in flight that will put it right. `WaitInv` is why a wait
shows: the hook that told of it is in the record or in flight, with nothing behind
it that takes it back (`Told`), and the requests that were given up are no longer
counted after two minutes and a patrol (`Rests`). `ShownInv`: what is shown is computed
from the record, but for its age.

**`RecordsProofs`.** `RecordsInvariant`, `GateRecordsAreTrue` (`GateRecordsTrue`), `QuestionsHold`
(`QuestionsAreTrue`) and `ApprovalHolds` (`ApprovalIsOfWhatWasSeen`, a property of steps), for any
number of gates, questions, openings, calls and faults. Nothing in the code locks a
record from the reading to the writing, so the properties rest on the engine: it
waits at the last opening of a gate, which has no outcome yet (`WaitInv`), so a call
that is about to write a decision writes of another opening, or the one that the
engine took (`ClientInv`); it has taken one answer at a time for a question, unless two
were given (`SaveInv`), so an answer that `ask_human` has returned is not written over. A
call of `ask_human` has its question from the adding on (`AskerInv`). Nobody
asks without a run that goes on, but for calls that Stop has cut (`ResumeInv`), and
what is open while Resume closes questions is on its list or awaited
(`AwaitedInv`); so when the list is empty, what is promised of the questions holds
again (`ResumeRunsStep`). The first lemmas say what a step does to one record, the
next what a part needs of a step that leaves it alone; then each action has one.

**`RunFiles`, in `RecordsProofs`.** `RunFilesHold`, `StoreRefines` (`PromisedUnlessTwo`: `FileStore`
implements `EngineStore`), `CommentsAreKept` (`CommentsKept`) and `Continues`
(`ContinuesToItsSubagent`), for any number of keys, users, runs, comments and tasks.
`StoreInv` with `OpInv`: of one store one `Apply` is in hand at a time, and what it writes was
checked on a memory that has not changed since. The refinement maps an `Apply` to what
has had no effect so far (`Pending`): its effect is the rename, and a failure, a crash or
a Resume drops what is pending (`DropsWhatIsGone`). A rename over a file that is not what
the store has in memory is what `two` notes, and nothing is claimed of that step. `LinesInv`: a line that can be read has one comment, an import
has still to write only what is not there, and at most one comment is lost, to a line
that was torn and has been ended since. `TasksInv` of the subagents: the session
works with a subagent of this VM.

**`StagingProofs`.** `StagingHolds`, `HeadIsKnown` (`GuestHeadKnown`), `BranchHolds` (`BranchIsAllowedAndShown`)
and `WorkHolds` (`WorkIsKept`, two properties of steps), for any number of files, steps,
snapshots, edits and failures. `HeadInv`: nobody moves the branch between the
reading of its head and `update-ref`, and the guest lacks at most the commit that it is
being told of. `NewestInv`: `latest-wip` names the newest snapshot but for the moment
between two git commands. `AheadInv` is why a boot brings back nothing older than the
branch: what was committed is in the guest, and in the newest snapshot unless a
commit took work that no snapshot had; it needs `ClockInv`, that no content is newer
than the clock, so that an edit can only bring the guest forward. `MarkInv` carries what
the commit has captured from `update-ref` to the mark on the step, and `GateInv` ties
the snapshot that `OpenGate` may show to the diff that was made of it.

**`Tasks`, in `StagingProofs`.** `TasksHold`, `RecordsAreOfTheReport`
(`RecordsAreOfTheReportUnlessSlip`), `EndShowsItsReason` (`EndShowsItsReasonUnlessSlip`) and
`StepsAreDoneOnce` (`StepsAreDoneOnceUnlessRenumbered`), for any plans, reports, occurrences
and runs. `PlaceInv`: who holds `runCtl.mu`, and that a report in hand is of the
occurrence the engine waits for. Each of the other parts holds until one of its own
lapses: `OutputInv`, what is in the VM for an occurrence that is not over is what
`write_output` accepted; `KeptInv`, what is in `records/results` for one that is not over
is of the report or the command in hand, and for one that is over, what the engine
took; `EndInv`, the report that ended the run has still to be noted, or an advance is
coming that will show it, or it shows; `ItemsInv`, the items from the one in hand on
are not committed, unless by another that the plan writes alike, and the agent was given
the one in hand. That a plan keeps numbers is
needed for the last only.

**`BootProofs`.** `BootingHolds`, `RunsWhatWasChecked` (`RunsWhatWasCheckedUnlessUpgraded`),
`FailuresLeaveNothing` (`FailuresLeaveNothingUnlessInterrupted`) and `RecordIsOfTheName`
(`RecordIsOfTheNameUnlessSlip`), for any parts, edits, upgrades, restarts, VMs and faults. The
working tree may be edited at any time, so the proof follows the copy: `CallInv` says at
each point of `Run` what it has made so far and that its copy is what was checked;
`DefsInv`, that the disk and the control of the run have that and nothing else;
`ReviewsInv`, that the perspectives are those that were merged from it. `BootInv` counts what the
boot has put into the guest: the parts so far are the first of what is promised, in
order (`GuestSoFar`). `WholeInv` and `LockInv` carry what a failure may leave: a lock only
for a VM that was, so that the next VM meets none. `ImageInv`: who has built has given
the name.

**`Approvals`, in `BootProofs`.** `ApprovalsHold`, `ApprovalsBind` (`ApprovalsBindUnlessSlip`),
`VarsHaveTheirSecrets` (`VarsWithTheirSecretsUnlessSlip`) and `RunsAsRead`
(`RunsAsReadUnlessSlip`), for any number of clients, hosts, secrets, declarations, imports and
Stops. The parts for the files: `MutexInv`, one call of `serve` has read the file at a time;
`CopyInv` and `ImportInv`, what it and an import have read is still on file, unless the other
has written; `FileInv` and `StoreInv`, the file says what people said, and no secret is
older than the vars. The parts for the run: `PlanInv`, a plan has what was approved
then; `ValuesInv`, its vars were read before its secrets; `VMInv`, only a run that is up
has a VM and policies of its own.

TLC alone checks

- liveness (`NobodyWaitsForEver`, `AnsweredReturns`, `CallsEnd`, `WaitReturns`: the properties
  that need fairness) and deadlock: fairness and ENABLED are out of the prover's reach.

Every other property of every run is stated by a theorem.

## What is not modelled

- The workflow engine is a library outside of this repository: a position and what
  an advance may do, modelled from how `serve` uses it and marked external. So are
  git, the kernel's sockets and pipes, and the sandbox service but for its jobs.
- Texts: prompts, messages, diffs and the contents of files are versions or model
  values. The decoding of requests is left out.
- The command line client (`cmd/masuda`) but for `wait` and `env import`: each command is
  one request. The log and its rotation, the listing of images, the free space of the
  disk, and generated code.
- Times are orders of events; the length of a timeout is nowhere compared.

The component list of `PROJECT.json` says for each part what is left out.

## Plan

What is left is breadth: the listing and the disk space of images, the rotation of the
log, `Exec` beyond a call that may fail, and the other commands of `cmd/masuda`, each of which is
one request to a handler that is modelled. The four liveness properties stay with
TLC on the instances above.
