------------------------------ MODULE Staging ------------------------------
(***************************************************************************)
(* The staging repository of a workspace and the working tree of its guest *)
(* VM: capture, Snapshot, RestoreWIP, Diff, OpenGate and Commit of         *)
(* internal/runner with the git operations of internal/staging they use.   *)
(*                                                                         *)
(* A commit of the staging branch is its position in `branch'.  A content  *)
(* is the number of the edit that wrote it, so of two contents of a file   *)
(* the larger one is the newer.  A step is one git command that moves a    *)
(* ref, or one shell script in the guest (the captures are serialised by   *)
(* guestMu, and the engine calls one operation at a time; SnapshotNamed is  *)
(* for a privileged command that an agent runs meanwhile).                 *)
(***************************************************************************)
EXTENDS Integers, Sequences, FiniteSets

CONSTANTS Files,
          Plan,        \* the paths that may be committed without a decision
          Byproducts,  \* paths that are neither committed nor a deviation
          Steps,       \* the steps of the plan
          Occurrences, \* names of WIP snapshots
          MaxEdits,    \* bound: edits in the guest
          MaxCommits,  \* bound: commits of the staging branch
          MaxFaults    \* bound: failures, crashes, lost VMs

ASSUME FilesAssumption == Plan \subseteq Files /\ Byproducts \subseteq Files
\* The name of a snapshot is not the word for having none.
ASSUME NamesAssumption == "none" \notin Occurrences
ASSUME BoundsAssumption == MaxEdits \in Nat /\ MaxCommits \in Nat /\ MaxFaults \in Nat

VARIABLES
    branch,    \* the trees of the commits of the staging branch, oldest first
    wips,      \* refs/masuda/wip/<occ>
    latest,    \* refs/masuda/latest-wip
    worktree,  \* refs/masuda/worktree
    guest,     \* the VM: its state, its HEAD and its working tree
    job,       \* the operation the engine has called, and where it stands
    allowed,   \* the paths the engine allows in a commit
    done,      \* committed-steps.json
    stepDiff,  \* stepDiffs: the snapshot of the last step-diff
    gate,      \* what an open gate shows and what its diff was made from
    clock,     \* counts edits
    faults,    \* counts faults
    newest,    \* history: the newest WIP snapshot fetched
    slip       \* history: see Slips

gitVars == <<branch, wips, latest, worktree>>
engineVars == <<allowed, done, stepDiff, gate>>
vars == <<gitVars, engineVars, guest, job, clock, faults, newest, slip>>

Tree == [Files -> Nat]
Snapshot == [tree : Tree, parent : Nat \ {0}]
None == [tree |-> [f \in Files |-> 0], parent |-> 0]
Snapshots == Snapshot \cup {None}

\* What makes the state worse than the code means it to be.
\*   behind   telling the guest of a new commit failed after the branch had moved
\*   untaken  a commit took work that no WIP snapshot had
\*   torn     serve ended between a WIP snapshot and noting it as the latest
\*   reverted the working tree was restored after one of these two
\*   forgot   a gate was opened for a diff made before serve started again
\* The next boot ends "behind", the next WIP snapshot "untaken" and "torn".
Slips == {"behind", "untaken", "torn", "reverted", "forgot"}

Idle == [op |-> "idle", at |-> "idle", arg |-> "none", head |-> 0, cur |-> None]
Down == [up |-> "down", head |-> 1, tree |-> [f \in Files |-> 0]]
NoGate == [open |-> FALSE, shows |-> None, diff |-> None]

Ops == {"idle", "boot", "snapshot", "diff", "changed", "commit"}
Points == {"idle", "restore", "capture", "latest", "move", "sync", "mark"}

GuestRecord == [up : {"down", "up"}, head : Nat \ {0}, tree : Tree]
JobRecord ==
    [op : Ops, at : Points, arg : Steps \cup Occurrences \cup {"none"}, head : Nat, cur : Snapshots]
GateRecord == [open : BOOLEAN, shows : Snapshots, diff : Snapshots]

TypeOK ==
    /\ branch \in Seq(Tree) /\ Len(branch) > 0
    /\ wips \in [Occurrences -> Snapshots]
    /\ latest \in Occurrences \cup {"none"}
    /\ worktree \in Snapshots
    /\ guest \in GuestRecord
    /\ job \in JobRecord
    /\ allowed \in SUBSET Files
    /\ done \in SUBSET Steps
    /\ stepDiff \in Snapshots
    /\ gate \in GateRecord
    /\ clock \in 0..MaxEdits /\ faults \in 0..MaxFaults
    /\ newest \in Snapshots
    /\ slip \in SUBSET Slips

Top == Len(branch)
TopTree == branch[Len(branch)]

\* Create: the branch starts at the base, in a clone of its own.  The branch of
\* the user's repository does not exist yet, or is the base (--existing).
Init ==
    /\ branch = <<[f \in Files |-> 0]>>
    /\ wips = [o \in Occurrences |-> None] /\ latest = "none" /\ worktree = None
    /\ guest = Down
    /\ job = Idle
    /\ allowed = Plan /\ done = {} /\ stepDiff = None /\ gate = NoGate
    /\ clock = 0 /\ faults = 0
    /\ newest = None
    /\ slip = {}

(***************************************************************************)
(* The guest                                                               *)
(***************************************************************************)

\* The staging repository is cloned into a new VM.
Clone ==
    /\ job.op = "idle" /\ guest.up = "down"
    /\ guest' = [up |-> "up", head |-> Top, tree |-> TopTree]
    /\ job' = [Idle EXCEPT !.op = "boot", !.at = "restore"]
    /\ slip' = slip \ {"behind"}
    /\ UNCHANGED <<gitVars, engineVars, clock, faults, newest>>

\* RestoreWIP lays the tree of the latest WIP over the clone.  The HEAD stays.
\* The bundle leaves out what the branch reaches, so the parent of the snapshot
\* must be a commit of the branch.
RestoreWIP ==
    /\ job.op = "boot"
    /\ LET snap == IF latest = "none" THEN None ELSE wips[latest] IN
         guest' = IF snap = None \/ snap.parent > guest.head THEN guest ELSE [guest EXCEPT !.tree = snap.tree]
    /\ job' = Idle
    /\ slip' = IF slip \cap {"untaken", "torn"} # {} THEN slip \cup {"reverted"} ELSE slip
    /\ UNCHANGED <<gitVars, engineVars, clock, faults, newest>>

\* An agent, a command or a hook in the guest writes a file, at any time.
Edit(f) ==
    /\ guest.up = "up" /\ job.op # "boot" /\ clock < MaxEdits
    /\ clock' = clock + 1
    /\ guest' = [guest EXCEPT !.tree[f] = clock + 1]
    /\ UNCHANGED <<gitVars, engineVars, job, faults, newest, slip>>

(***************************************************************************)
(* Captures                                                                *)
(***************************************************************************)

\* capture commits the working tree on top of the HEAD of the guest, and the
\* bundle of it can be fetched, since the HEAD is a commit of the branch.
Captured == [tree |-> guest.tree, parent |-> guest.head]
CanCapture == guest.up = "up" /\ guest.head <= Top

Call(op, at, arg) == job' = [Idle EXCEPT !.op = op, !.at = at, !.arg = arg]

Begin(op, at, arg) ==
    /\ job.op = "idle" /\ guest.up = "up"
    /\ Call(op, at, arg)
    /\ UNCHANGED <<gitVars, engineVars, guest, clock, faults, newest, slip>>

\* FetchBundle moves refs/masuda/wip/<occ> and then, in a second git command,
\* refs/masuda/latest-wip.
SnapshotFetch ==
    /\ job.op = "snapshot" /\ job.at = "capture" /\ CanCapture
    /\ wips' = [wips EXCEPT ![job.arg] = Captured]
    /\ newest' = Captured
    /\ job' = [job EXCEPT !.at = "latest"]
    /\ UNCHANGED <<branch, latest, worktree, engineVars, guest, clock, faults, slip>>

SnapshotLatest ==
    /\ job.op = "snapshot" /\ job.at = "latest"
    /\ latest' = job.arg
    /\ job' = Idle
    /\ slip' = slip \ {"untaken", "torn"}
    /\ UNCHANGED <<branch, wips, worktree, engineVars, guest, clock, faults, newest>>

\* A capture for a privileged command that is not noted as the latest.
SnapshotUnnoted(o) ==
    /\ CanCapture /\ job.at \notin {"restore", "latest"}
    /\ wips' = [wips EXCEPT ![o] = Captured]
    /\ newest' = Captured
    /\ slip' = slip \ {"untaken", "torn"}
    /\ UNCHANGED <<branch, latest, worktree, engineVars, guest, job, clock, faults>>

\* SnapshotNamed, from a call of the guest: the same under guestMu, so never
\* within a capture or a sync.
SnapshotNamed(o) ==
    /\ CanCapture /\ job.at \notin {"restore", "latest"}
    /\ wips' = [wips EXCEPT ![o] = Captured]
    /\ latest' = o
    /\ newest' = Captured
    /\ slip' = slip \ {"untaken", "torn"}
    /\ UNCHANGED <<branch, worktree, engineVars, guest, job, clock, faults>>

\* ChangedSince looks at the working tree as it is.
ChangedSince ==
    /\ job.op = "changed" /\ CanCapture
    /\ worktree' = Captured
    /\ job' = Idle
    /\ UNCHANGED <<branch, wips, latest, engineVars, guest, clock, faults, newest, slip>>

\* Diff of kind step-diff remembers what it captured, for OpenGate.
DiffStep ==
    /\ job.op = "diff" /\ CanCapture
    /\ worktree' = Captured
    /\ stepDiff' = Captured
    /\ gate' = [NoGate EXCEPT !.diff = Captured]
    /\ job' = Idle
    /\ UNCHANGED <<branch, wips, latest, allowed, done, guest, clock, faults, newest, slip>>

\* The gate shows the last capture, whoever made it.
OpenGateLast ==
    /\ job.op = "idle" /\ guest.up = "up" /\ gate.diff # None /\ ~gate.open
    /\ gate' = [gate EXCEPT !.open = TRUE, !.shows = worktree]
    /\ slip' = IF stepDiff = None THEN slip \cup {"forgot"} ELSE slip
    /\ stepDiff' = None
    /\ UNCHANGED <<gitVars, allowed, done, guest, job, clock, faults, newest>>

\* OpenGate for a step-diff: the snapshot of the diff, or if serve has started
\* again since, the last capture.
OpenGateStep ==
    /\ job.op = "idle" /\ guest.up = "up" /\ gate.diff # None /\ ~gate.open
    /\ gate' = [gate EXCEPT !.open = TRUE, !.shows = IF stepDiff # None THEN stepDiff ELSE worktree]
    /\ slip' = IF stepDiff = None THEN slip \cup {"forgot"} ELSE slip
    /\ stepDiff' = None
    /\ UNCHANGED <<gitVars, allowed, done, guest, job, clock, faults, newest>>

\* The gate is decided; a decision on deviations may allow more paths.
CloseGate ==
    /\ gate.open
    /\ gate' = NoGate
    /\ UNCHANGED <<gitVars, allowed, done, stepDiff, guest, job, clock, faults, newest, slip>>

(***************************************************************************)
(* Commit                                                                  *)
(***************************************************************************)

CommitCapture ==
    /\ job.op = "commit" /\ job.at = "capture" /\ CanCapture
    /\ worktree' = Captured
    /\ job' = [job EXCEPT !.at = "move", !.head = Top, !.cur = Captured]
    /\ UNCHANGED <<branch, wips, latest, engineVars, guest, clock, faults, newest, slip>>

Changed == {f \in Files : job.cur.tree[f] # branch[job.head][f]}
\* Byproducts are committed along with the rest.
TakenWithByproducts == Changed \cap (allowed \cup Byproducts)
Taken == Changed \cap allowed
Deviations == Changed \ (allowed \cup Byproducts)
OverlayTree == [f \in Files |-> IF f \in Taken THEN job.cur.tree[f] ELSE branch[job.head][f]]

\* Deviations do not end the commit.
CommitDespite ==
    /\ job.op = "commit" /\ job.at = "move" /\ Deviations # {}
    /\ \/ allowed' = allowed \cup Deviations
       \/ allowed' = allowed
    /\ job' = [job EXCEPT !.at = "mark"]
    /\ UNCHANGED <<gitVars, done, stepDiff, gate, guest, clock, faults, newest, slip>>

\* Deviations: nothing is written, and the engine opens a deviation gate, where
\* the paths may be allowed.
CommitDeviates ==
    /\ job.op = "commit" /\ job.at = "move" /\ Deviations # {}
    /\ \/ allowed' = allowed \cup Deviations
       \/ allowed' = allowed
    /\ job' = Idle
    /\ UNCHANGED <<gitVars, done, stepDiff, gate, guest, clock, faults, newest, slip>>

\* Nothing to take: the head stays, and is what Commit returns.
CommitNothing ==
    /\ job.op = "commit" /\ job.at = "move" /\ Deviations = {} /\ Taken = {}
    /\ job' = [job EXCEPT !.at = "mark"]
    /\ UNCHANGED <<gitVars, engineVars, guest, clock, faults, newest, slip>>

\* commit-tree, and update-ref with the head that was read.
CommitMove ==
    /\ job.op = "commit" /\ job.at = "move" /\ Deviations = {} /\ Taken # {}
    /\ Top = job.head /\ Top < MaxCommits
    /\ branch' = Append(branch, OverlayTree)
    /\ job' = [job EXCEPT !.at = "sync"]
    /\ slip' = IF latest # "none" /\ \E f \in Taken : job.cur.tree[f] > wips[latest].tree[f]
               THEN slip \cup {"untaken"} ELSE slip
    /\ UNCHANGED <<wips, latest, worktree, engineVars, guest, clock, faults, newest>>

\* The commit is fetched into the guest and the HEAD left where it is.
CommitFetchOnly ==
    /\ job.op = "commit" /\ job.at = "sync" /\ guest.up = "up"
    /\ guest.head >= job.head
    /\ job' = [job EXCEPT !.at = "mark"]
    /\ UNCHANGED <<gitVars, engineVars, guest, clock, faults, newest, slip>>

\* syncGuestHead: the bundle holds the branch from the old head on, so the guest
\* must have the old head.  The working tree is left alone.
CommitSync ==
    /\ job.op = "commit" /\ job.at = "sync" /\ guest.up = "up"
    /\ guest.head >= job.head
    /\ guest' = [guest EXCEPT !.head = Top]
    /\ job' = [job EXCEPT !.at = "mark"]
    /\ UNCHANGED <<gitVars, engineVars, clock, faults, newest, slip>>

\* A guest that has missed one commit does not have the old head of the next.
CommitSyncLacks ==
    /\ job.op = "commit" /\ job.at = "sync" /\ guest.up = "up"
    /\ guest.head < job.head
    /\ job' = Idle
    /\ UNCHANGED <<gitVars, engineVars, guest, clock, faults, newest, slip>>

CommitMark ==
    /\ job.op = "commit" /\ job.at = "mark"
    /\ done' = done \cup {job.arg}
    /\ job' = Idle
    /\ UNCHANGED <<gitVars, allowed, stepDiff, gate, guest, clock, faults, newest, slip>>

(***************************************************************************)
(* Faults                                                                  *)
(***************************************************************************)

\* The operation fails where it stands: git, the guest, the export or the sandbox
\* service returns an error.
Fail ==
    /\ job.op \notin {"idle", "boot"} /\ faults < MaxFaults
    /\ faults' = faults + 1
    /\ slip' = slip \cup (IF job.op = "commit" /\ job.at = "sync" THEN {"behind"} ELSE {})
                    \cup (IF job.op = "snapshot" /\ job.at = "latest" THEN {"torn"} ELSE {})
    /\ job' = Idle
    /\ UNCHANGED <<gitVars, engineVars, guest, clock, newest>>

\* serve ends, or the workspace is stopped, or the VM is lost: the next boot
\* starts from the staging repository.  stepDiffs is in memory.
Crash ==
    /\ guest.up = "up" /\ faults < MaxFaults
    /\ faults' = faults + 1
    /\ slip' = slip \cup (IF job.op = "snapshot" /\ job.at = "latest" THEN {"torn"} ELSE {})
    /\ guest' = Down
    /\ job' = Idle
    /\ stepDiff' = None
    /\ UNCHANGED <<gitVars, allowed, done, gate, clock, newest>>

Next ==
    \/ Clone \/ RestoreWIP \/ \E f \in Files : Edit(f)
    \/ \E o \in Occurrences : Begin("snapshot", "capture", o)
    \/ SnapshotFetch \/ SnapshotLatest \/ \E o \in Occurrences : SnapshotNamed(o)
    \/ Begin("changed", "capture", "none") \/ ChangedSince
    \/ (~gate.open /\ Begin("diff", "capture", "none")) \/ DiffStep
    \/ OpenGateStep \/ CloseGate
    \/ \E s \in Steps \ done : Begin("commit", "capture", s)
    \/ CommitCapture \/ CommitDeviates \/ CommitNothing \/ CommitMove
    \/ CommitSync \/ CommitSyncLacks \/ CommitMark
    \/ Fail \/ Crash

Spec == Init /\ [][Next]_vars

(***************************************************************************)
(* Properties                                                              *)
(***************************************************************************)

\* What the branch has beyond its base was in the plan or was allowed by a
\* decision: Commit overlays the paths it may take and nothing else
\* (staging/commit.go, Commit).
OnlyAllowed ==
    \A n \in 2..Top : \A f \in Files : branch[n][f] # branch[n - 1][f] => f \in allowed

\* Between two operations the HEAD of a guest is the top of the branch, unless
\* telling it has failed once; and every snapshot is on top of a commit of the
\* branch, so that its bundle can be fetched (runner.go, capture, syncGuestHead).
GuestHeadKnown ==
    /\ guest.head <= Top /\ worktree.parent <= Top
    /\ \A o \in Occurrences : wips[o].parent <= Top
    /\ guest.up = "up" /\ job.at \notin {"sync"} /\ "behind" \notin slip => guest.head = Top

\* The working tree comes back as the newest WIP snapshot has it, and with no file
\* older than on the branch, unless serve ended inside the snapshot or a commit
\* took work that no WIP snapshot had (runner.go, RestoreWIP and Commit).
RestoreBringsBack ==
    [][job.op = "boot" /\ job' = Idle /\ guest'.up = "up" =>
         /\ "torn" \notin slip /\ newest # None => guest'.tree = newest.tree
         /\ slip \cap {"untaken", "torn", "reverted"} = {} =>
               \A f \in Files : guest'.tree[f] >= TopTree[f]]_vars

\* A gate for a step-diff shows the snapshot that its diff was made from, unless
\* serve started again in between (runner.go, OpenGate and stepDiffSnapshot).
GateShowsItsDiff == gate.open /\ "forgot" \notin slip => gate.shows = gate.diff

\* A step counts as committed only when the branch has everything of it that may
\* be committed, also when the commit was tried again after a failure half way
\* (runner.go, Commit and markStepCommitted).
DoneIsCommitted ==
    [][done' # done => \A f \in allowed : TopTree[f] = job.cur.tree[f]]_vars

\* What a person sees and allows is what the branch gets: the two above
\* (runner.go, OpenGate; staging/commit.go, Commit).
BranchIsAllowedAndShown == OnlyAllowed /\ GateShowsItsDiff

\* What a subagent has done is kept: it comes back after a boot, and is in the branch
\* once its step counts as committed (runner.go, RestoreWIP, Commit).
WorkIsKept == RestoreBringsBack /\ DoneIsCommitted
=============================================================================
