---------------------------- MODULE StagingProofs ----------------------------
(***************************************************************************)
(* What the staging branch and the working tree of the guest owe each      *)
(* other, for any number of files, steps, snapshots, edits and failures;   *)
(* and what the engine's records, the VM and the host owe each other for    *)
(* the tasks of a run, for any plans, reports, occurrences and runs.        *)
(***************************************************************************)
EXTENDS Staging, Tasks, SequenceTheorems, WellFoundedInduction, TLAPS

(***************************************************************************)
(* The inductive invariant                                                 *)
(***************************************************************************)

\* What the engine has called, and that nothing goes on without a VM.
JobInv ==
    /\ job.op # "idle" => guest.up = "up"
    /\ job.op = "idle" <=> job.at = "idle"
    /\ job.op = "boot" <=> job.at = "restore"
    /\ job.at = "latest" => job.op = "snapshot"
    /\ job.at \in {"move", "sync", "mark"} => job.op = "commit"
    /\ job.op = "snapshot" => job.arg \in Occurrences
    /\ job.op = "commit" => job.arg \in Steps

\* Nobody moves the branch between the reading of its head and update-ref, and the guest
\* lacks at most the commit that it is being told of.
HeadInv ==
    /\ guest.head <= Top /\ worktree.parent <= Top
    /\ \A o \in Occurrences : wips[o].parent <= Top
    /\ job.at = "move" => job.head = Top
    /\ job.at = "sync" => job.head = Top - 1
    /\ guest.up = "up" /\ "behind" \notin slip => guest.head = IF job.at = "sync" THEN job.head ELSE Top
    /\ job.op = "boot" => guest.head = Top /\ guest.tree = TopTree

\* What OpenGate may show is what the last diff was made from.
GateInv == stepDiff # None => gate.diff = stepDiff /\ ~gate.open

\* From update-ref on the branch has what the commit has captured, as far as allowed.
MarkInv == job.at \in {"sync", "mark"} => \A f \in Files : f \in allowed => TopTree[f] = job.cur.tree[f]

\* latest-wip names the newest snapshot, but for the moment between two git commands.
NewestInv ==
    /\ "torn" \notin slip /\ job.at # "latest" => newest = IF latest = "none" THEN None ELSE wips[latest]
    /\ job.at = "latest" => newest = wips[job.arg]

\* No content is newer than the clock.
ClockInv == \A f \in Files :
    /\ TopTree[f] <= clock /\ guest.tree[f] <= clock
    /\ \A o \in Occurrences : wips[o].tree[f] <= clock
    /\ job.at = "move" => job.cur.tree[f] <= guest.tree[f]

\* The branch is not ahead of the guest, nor of the snapshot that a boot would restore.
AheadInv == "reverted" \notin slip => \A f \in Files :
    /\ guest.up = "up" => TopTree[f] <= guest.tree[f]
    /\ job.at = "latest" => TopTree[f] <= wips[job.arg].tree[f]
    /\ slip \cap {"untaken", "torn"} = {} /\ latest # "none" => TopTree[f] <= wips[latest].tree[f]

StagingInv ==
    /\ TypeOK /\ JobInv /\ HeadInv /\ GateInv /\ MarkInv /\ NewestInv /\ ClockInv /\ AheadInv
    /\ OnlyAllowed /\ GateShowsItsDiff

(***************************************************************************)
(* What a step does to a record                                            *)
(***************************************************************************)

LEMMA NoneRecord == None \in Snapshots /\ None.parent = 0 /\ None.tree \in Tree
  BY DEF None, Snapshots, Tree

LEMMA IdleRecord == Idle \in JobRecord /\ Idle.op = "idle" /\ Idle.at = "idle"
  BY NoneRecord DEF Idle, JobRecord, Ops, Points

LEMMA DownRecord == Down \in GuestRecord /\ Down.up = "down" /\ Down.head = 1 /\ \A f \in Files : Down.tree[f] = 0
  BY DEF Down, GuestRecord, Tree

LEMMA NoGateRecord == NoGate \in GateRecord /\ NoGate.open = FALSE
  BY NoneRecord DEF NoGate, GateRecord

\* A capture is a snapshot, and is not the one that stands for having none.
LEMMA CapturedRecord ==
    ASSUME TypeOK
    PROVE  Captured \in Snapshots /\ Captured.tree = guest.tree /\ Captured.parent = guest.head /\ Captured # None
<1>1. guest.tree \in Tree /\ guest.head \in Nat \ {0}
  BY DEF TypeOK, GuestRecord
<1>2. Captured \in Snapshots /\ Captured.tree = guest.tree /\ Captured.parent = guest.head
  BY <1>1 DEF Captured, Snapshots, Snapshot
<1> QED
  BY <1>1, <1>2, NoneRecord

LEMMA JobBegins ==
    ASSUME NEW op \in Ops, NEW point \in Points, NEW arg \in Steps \cup Occurrences \cup {"none"}, Call(op, point, arg)
    PROVE  job' \in JobRecord /\ job'.op = op /\ job'.at = point /\ job'.arg = arg
<1>1. job' = [op |-> op, at |-> point, arg |-> arg, head |-> 0, cur |-> None]
  BY DEF Call, Idle
<1> QED
  BY <1>1, NoneRecord DEF JobRecord

JobAt(point) == job' = [job EXCEPT !.at = point]

LEMMA JobGoes ==
    ASSUME TypeOK, NEW point \in Points, JobAt(point)
    PROVE  /\ job' \in JobRecord /\ job'.at = point /\ job'.op = job.op /\ job'.arg = job.arg
           /\ job'.head = job.head /\ job'.cur = job.cur
<1>1. job \in JobRecord
  BY DEF TypeOK
<1> QED
  BY <1>1 DEF JobAt, JobRecord

\* The numbers of the state.
LEMMA Numbers ==
    ASSUME TypeOK
    PROVE  /\ Top \in Nat /\ Top >= 1 /\ TopTree \in Tree /\ guest.tree \in Tree
           /\ guest.up \in {"up", "down"} /\ guest.head \in Nat /\ guest.head >= 1
           /\ job.head \in Nat /\ job.cur.tree \in Tree /\ clock \in Nat
           /\ worktree.parent \in Nat /\ \A o \in Occurrences : wips[o].parent \in Nat /\ wips[o].tree \in Tree
<1>1. /\ Top \in Nat /\ Top >= 1 /\ TopTree \in Tree
  BY DEF TypeOK, Top, TopTree
<1>2. guest.tree \in Tree /\ guest.up \in {"up", "down"} /\ guest.head \in Nat /\ guest.head >= 1
  BY DEF TypeOK, GuestRecord
<1>3. ASSUME NEW s \in Snapshots PROVE s.parent \in Nat /\ s.tree \in Tree
  BY NoneRecord DEF Snapshots, Snapshot
<1>4. job.head \in Nat /\ job.cur \in Snapshots
  BY DEF TypeOK, JobRecord
<1>5. worktree \in Snapshots /\ \A o \in Occurrences : wips[o] \in Snapshots
  BY DEF TypeOK
<1>6. clock \in Nat
  BY DEF TypeOK
<1> QED
  BY <1>1, <1>2, <1>3, <1>4, <1>5, <1>6

LEMMA Contents == ASSUME NEW t \in Tree, NEW f \in Files PROVE t[f] \in Nat
  BY DEF Tree

LEMMA AllowedStays ==
    ASSUME OnlyAllowed, UNCHANGED branch, allowed \subseteq allowed'
    PROVE  OnlyAllowed'
  BY DEF OnlyAllowed, Top

LEMMA TopStays == ASSUME UNCHANGED branch PROVE Top' = Top /\ TopTree' = TopTree
  BY DEF Top, TopTree

LEMMA SlipTypes == ASSUME TypeOK, slip' \subseteq slip \cup Slips PROVE slip' \in SUBSET Slips
  BY DEF TypeOK

(***************************************************************************)
(* The guest and the captures                                              *)
(***************************************************************************)

LEMMA CloneStep == ASSUME StagingInv, Clone PROVE StagingInv'
<1>1. /\ TypeOK /\ JobInv /\ HeadInv /\ GateInv /\ MarkInv /\ NewestInv /\ ClockInv /\ AheadInv
      /\ OnlyAllowed /\ GateShowsItsDiff
  BY DEF StagingInv
<1>2. /\ job.op = "idle" /\ UNCHANGED <<branch, wips, latest, worktree, allowed, done, stepDiff, gate, clock, faults, newest>>
      /\ guest' = [up |-> "up", head |-> Top, tree |-> TopTree]
      /\ slip' = slip \ {"behind"}
      /\ Top' = Top /\ TopTree' = TopTree
  BY TopStays DEF Clone, gitVars, engineVars
<1>3. job' = [op |-> "boot", at |-> "restore", arg |-> "none", head |-> 0, cur |-> None]
  BY DEF Clone, Idle
<1>4. TypeOK'
  <2>1. job' \in JobRecord
    BY <1>3, NoneRecord DEF JobRecord, Ops, Points
  <2>2. guest' \in GuestRecord
    BY <1>1, <1>2, Numbers DEF GuestRecord
  <2> QED
    BY <1>1, <1>2, <2>1, <2>2 DEF TypeOK
<1>5. JobInv' /\ HeadInv' /\ GateInv' /\ MarkInv' /\ GateShowsItsDiff'
  BY <1>1, <1>2, <1>3, Numbers DEF JobInv, HeadInv, GateInv, MarkInv, GateShowsItsDiff
<1>6. NewestInv'
  BY <1>1, <1>2, <1>3 DEF NewestInv, JobInv
<1>7. ClockInv'
  BY <1>1, <1>2, <1>3 DEF ClockInv
<1>8. AheadInv'
  <2> SUFFICES ASSUME "reverted" \notin slip, NEW f \in Files
               PROVE  /\ TopTree[f] <= TopTree[f]
                      /\ slip \cap {"untaken", "torn"} = {} /\ latest # "none" => TopTree[f] <= wips[latest].tree[f]
    BY <1>2, <1>3 DEF AheadInv
  <2> QED
    BY <1>1, Numbers, Contents DEF AheadInv
<1> QED
  BY <1>1, <1>2, <1>4, <1>5, <1>6, <1>7, <1>8, AllowedStays DEF StagingInv

\* What is restored can be fetched, and is the newest snapshot.
LEMMA RestoreStep == ASSUME StagingInv, RestoreWIP PROVE StagingInv'
<1>1. /\ TypeOK /\ JobInv /\ HeadInv /\ GateInv /\ MarkInv /\ NewestInv /\ ClockInv /\ AheadInv
      /\ OnlyAllowed /\ GateShowsItsDiff
  BY DEF StagingInv
<1>2. /\ job.op = "boot" /\ UNCHANGED <<branch, wips, latest, worktree, allowed, done, stepDiff, gate, clock, faults, newest>>
      /\ job' = Idle /\ Top' = Top /\ TopTree' = TopTree
      /\ slip' = IF slip \cap {"untaken", "torn"} # {} THEN slip \cup {"reverted"} ELSE slip
  BY TopStays DEF RestoreWIP, gitVars, engineVars
<1>3. \/ guest' = guest
      \/ latest # "none" /\ guest' = [guest EXCEPT !.tree = wips[latest].tree]
  BY DEF RestoreWIP
<1>4. /\ guest' \in GuestRecord /\ guest'.up = guest.up /\ guest'.head = guest.head
      /\ guest'.tree = guest.tree \/ (latest \in Occurrences /\ guest'.tree = wips[latest].tree)
  <2>1. guest \in GuestRecord
    BY <1>1 DEF TypeOK
  <2>2. CASE guest' = guest
    BY <2>1, <2>2
  <2>3. CASE latest # "none" /\ guest' = [guest EXCEPT !.tree = wips[latest].tree]
    <3>1. latest \in Occurrences
      BY <1>1, <2>3 DEF TypeOK
    <3>2. wips[latest].tree \in Tree
      BY <1>1, <3>1, Numbers
    <3> QED
      BY <2>1, <2>3, <3>1, <3>2 DEF GuestRecord
  <2> QED
    BY <1>3, <2>2, <2>3
<1>5. TypeOK'
  <2>1. slip' \in SUBSET Slips
    BY <1>1, <1>2, SlipTypes DEF Slips
  <2> QED
    BY <1>1, <1>2, <1>4, <2>1, IdleRecord DEF TypeOK
<1>6. JobInv' /\ GateInv' /\ MarkInv' /\ GateShowsItsDiff'
  BY <1>1, <1>2, IdleRecord DEF JobInv, GateInv, MarkInv, GateShowsItsDiff
<1>7. HeadInv'
  BY <1>1, <1>2, <1>4, IdleRecord DEF HeadInv, JobInv
<1>8. NewestInv'
  BY <1>1, <1>2, IdleRecord DEF NewestInv, JobInv
<1>9. ClockInv'
  BY <1>1, <1>2, <1>4, IdleRecord DEF ClockInv
<1>10. AheadInv'
  <2> SUFFICES ASSUME "reverted" \notin slip', NEW f \in Files
               PROVE  /\ TopTree[f] <= guest'.tree[f]
                      /\ latest # "none" => TopTree[f] <= wips[latest].tree[f]
    BY <1>2, IdleRecord DEF AheadInv
  <2>1. "reverted" \notin slip /\ slip \cap {"untaken", "torn"} = {}
    BY <1>2
  <2>2. latest # "none" => TopTree[f] <= wips[latest].tree[f]
    BY <1>1, <2>1 DEF AheadInv
  <2>3. TopTree[f] <= guest.tree[f]
    BY <1>1, <1>2, <2>1 DEF AheadInv, JobInv
  <2>4. latest \in Occurrences => latest # "none"
    BY NamesAssumption
  <2> QED
    BY <1>4, <2>2, <2>3, <2>4
<1> QED
  BY <1>1, <1>2, <1>5, <1>6, <1>7, <1>8, <1>9, <1>10, AllowedStays DEF StagingInv

LEMMA EditStep == ASSUME StagingInv, NEW g \in Files, Edit(g) PROVE StagingInv'
<1>1. /\ TypeOK /\ JobInv /\ HeadInv /\ GateInv /\ MarkInv /\ NewestInv /\ ClockInv /\ AheadInv
      /\ OnlyAllowed /\ GateShowsItsDiff
  BY DEF StagingInv
<1>2. /\ UNCHANGED <<branch, wips, latest, worktree, allowed, done, stepDiff, gate, job, faults, newest, slip>>
      /\ Top' = Top /\ TopTree' = TopTree /\ job.op # "boot"
      /\ clock < MaxEdits /\ clock' = clock + 1 /\ clock \in Nat
      /\ guest' = [guest EXCEPT !.tree[g] = clock + 1]
  BY <1>1, TopStays, Numbers DEF Edit, gitVars, engineVars
<1>3. /\ guest' \in GuestRecord /\ guest'.up = guest.up /\ guest'.head = guest.head
      /\ \A f \in Files : guest'.tree[f] = IF f = g THEN clock + 1 ELSE guest.tree[f]
  <2>1. guest \in GuestRecord /\ guest.tree \in Tree
    BY <1>1, Numbers DEF TypeOK
  <2>2. PICK t : t = [guest.tree EXCEPT ![g] = clock + 1]
    OBVIOUS
  <2>3. t \in Tree /\ \A f \in Files : t[f] = IF f = g THEN clock + 1 ELSE guest.tree[f]
    BY <1>2, <2>1, <2>2 DEF Tree
  <2>4. guest' = [guest EXCEPT !.tree = t]
    BY <1>2, <2>2
  <2> QED
    BY <2>1, <2>3, <2>4 DEF GuestRecord
<1>4. TypeOK'
  <2>1. clock' \in 0..MaxEdits
    BY <1>2, BoundsAssumption
  <2> QED
    BY <1>1, <1>2, <1>3, <2>1 DEF TypeOK
<1>5. JobInv' /\ GateInv' /\ MarkInv' /\ NewestInv' /\ GateShowsItsDiff'
  BY <1>1, <1>2, <1>3 DEF JobInv, GateInv, MarkInv, NewestInv, GateShowsItsDiff
<1>6. HeadInv'
  BY <1>1, <1>2, <1>3 DEF HeadInv
<1>7. ClockInv'
  <2> SUFFICES ASSUME NEW f \in Files
               PROVE  /\ TopTree[f] <= clock + 1 /\ guest'.tree[f] <= clock + 1
                      /\ \A o \in Occurrences : wips[o].tree[f] <= clock + 1
                      /\ job.at = "move" => job.cur.tree[f] <= guest'.tree[f]
    BY <1>2 DEF ClockInv
  <2>1. /\ TopTree[f] <= clock /\ guest.tree[f] <= clock
        /\ \A o \in Occurrences : wips[o].tree[f] <= clock
        /\ job.at = "move" => job.cur.tree[f] <= guest.tree[f]
    BY <1>1 DEF ClockInv
  <2>2. /\ TopTree[f] \in Nat /\ guest.tree[f] \in Nat /\ job.cur.tree[f] \in Nat
        /\ \A o \in Occurrences : wips[o].tree[f] \in Nat
    BY <1>1, Numbers, Contents
  <2> QED
    BY <1>2, <1>3, <2>1, <2>2
<1>8. AheadInv'
  <2> SUFFICES ASSUME "reverted" \notin slip, NEW f \in Files, guest.up = "up"
               PROVE  TopTree[f] <= guest'.tree[f]
    BY <1>1, <1>2, <1>3 DEF AheadInv
  <2>1. TopTree[f] <= guest.tree[f] /\ TopTree[f] <= clock /\ TopTree[f] \in Nat /\ guest.tree[f] \in Nat
    BY <1>1, Numbers, Contents DEF AheadInv, ClockInv
  <2> QED
    BY <1>2, <1>3, <2>1
<1> QED
  BY <1>1, <1>2, <1>4, <1>5, <1>6, <1>7, <1>8, AllowedStays DEF StagingInv

LEMMA BeginStep ==
    ASSUME StagingInv, NEW op \in {"snapshot", "changed", "diff", "commit"},
           NEW arg \in Steps \cup Occurrences \cup {"none"}, Begin(op, "capture", arg),
           op = "snapshot" => arg \in Occurrences, op = "commit" => arg \in Steps
    PROVE  StagingInv'
<1>1. /\ TypeOK /\ JobInv /\ HeadInv /\ GateInv /\ MarkInv /\ NewestInv /\ ClockInv /\ AheadInv
      /\ OnlyAllowed /\ GateShowsItsDiff
  BY DEF StagingInv
<1>2. /\ UNCHANGED <<branch, wips, latest, worktree, allowed, done, stepDiff, gate, guest, clock, faults, newest, slip>>
      /\ Top' = Top /\ TopTree' = TopTree /\ job.op = "idle" /\ guest.up = "up" /\ Call(op, "capture", arg)
  BY TopStays DEF Begin, gitVars, engineVars
<1>3. job' \in JobRecord /\ job'.op = op /\ job'.at = "capture" /\ job'.arg = arg
  BY <1>2, JobBegins DEF Ops, Points
<1>4. TypeOK'
  BY <1>1, <1>2, <1>3 DEF TypeOK
<1>5. JobInv' /\ GateInv' /\ MarkInv' /\ GateShowsItsDiff' /\ ClockInv' /\ AheadInv'
  BY <1>1, <1>2, <1>3 DEF JobInv, GateInv, MarkInv, GateShowsItsDiff, ClockInv, AheadInv
<1>6. HeadInv' /\ NewestInv'
  BY <1>1, <1>2, <1>3 DEF HeadInv, NewestInv, JobInv
<1> QED
  BY <1>1, <1>2, <1>4, <1>5, <1>6, AllowedStays DEF StagingInv

LEMMA SnapshotFetchStep == ASSUME StagingInv, SnapshotFetch PROVE StagingInv'
<1>1. /\ TypeOK /\ JobInv /\ HeadInv /\ GateInv /\ MarkInv /\ NewestInv /\ ClockInv /\ AheadInv
      /\ OnlyAllowed /\ GateShowsItsDiff
  BY DEF StagingInv
<1>2. /\ UNCHANGED <<branch, latest, worktree, allowed, done, stepDiff, gate, guest, clock, faults, slip>>
      /\ Top' = Top /\ TopTree' = TopTree /\ job.op = "snapshot" /\ job.at = "capture"
      /\ guest.up = "up" /\ guest.head <= Top /\ JobAt("latest") /\ newest' = Captured
      /\ wips' = [wips EXCEPT ![job.arg] = Captured] /\ job.arg \in Occurrences
  BY <1>1, TopStays DEF SnapshotFetch, CanCapture, JobAt, engineVars, JobInv
<1>3. Captured \in Snapshots /\ Captured.tree = guest.tree /\ Captured.parent = guest.head
  BY <1>1, CapturedRecord
<1>4. /\ job' \in JobRecord /\ job'.at = "latest" /\ job'.op = job.op /\ job'.arg = job.arg
      /\ job'.head = job.head /\ job'.cur = job.cur
  BY <1>1, <1>2, JobGoes DEF Points
<1>5. /\ wips' \in [Occurrences -> Snapshots]
      /\ \A o \in Occurrences : wips'[o] = IF o = job.arg THEN Captured ELSE wips[o]
  BY <1>1, <1>2, <1>3 DEF TypeOK
<1>6. TypeOK'
  BY <1>1, <1>2, <1>3, <1>4, <1>5 DEF TypeOK
<1>7. JobInv' /\ GateInv' /\ MarkInv' /\ GateShowsItsDiff'
  BY <1>1, <1>2, <1>4 DEF JobInv, GateInv, MarkInv, GateShowsItsDiff
<1>8. HeadInv'
  BY <1>1, <1>2, <1>3, <1>4, <1>5 DEF HeadInv
<1>9. NewestInv'
  BY <1>2, <1>4, <1>5 DEF NewestInv
<1>10. ClockInv'
  BY <1>1, <1>2, <1>3, <1>4, <1>5 DEF ClockInv
<1>11. AheadInv'
  <2>1. latest # "none" => latest \in Occurrences
    BY <1>1 DEF TypeOK
  <2> QED
    BY <1>1, <1>2, <1>3, <1>4, <1>5, <2>1 DEF AheadInv
<1> QED
  BY <1>1, <1>2, <1>6, <1>7, <1>8, <1>9, <1>10, <1>11, AllowedStays DEF StagingInv

LEMMA SnapshotLatestStep == ASSUME StagingInv, SnapshotLatest PROVE StagingInv'
<1>1. /\ TypeOK /\ JobInv /\ HeadInv /\ GateInv /\ MarkInv /\ NewestInv /\ ClockInv /\ AheadInv
      /\ OnlyAllowed /\ GateShowsItsDiff
  BY DEF StagingInv
<1>2. /\ UNCHANGED <<branch, wips, worktree, allowed, done, stepDiff, gate, guest, clock, faults, newest>>
      /\ Top' = Top /\ TopTree' = TopTree /\ job.at = "latest" /\ job' = Idle
      /\ latest' = job.arg /\ job.arg \in Occurrences /\ latest' # "none"
      /\ slip' = slip \ {"untaken", "torn"}
  BY <1>1, TopStays, NamesAssumption DEF SnapshotLatest, engineVars, JobInv
<1>3. TypeOK'
  BY <1>1, <1>2, IdleRecord, SlipTypes DEF TypeOK
<1>4. JobInv' /\ GateInv' /\ MarkInv' /\ GateShowsItsDiff' /\ ClockInv'
  BY <1>1, <1>2, IdleRecord DEF JobInv, GateInv, MarkInv, GateShowsItsDiff, ClockInv
<1>5. HeadInv'
  BY <1>1, <1>2, IdleRecord DEF HeadInv
<1>6. NewestInv' /\ AheadInv'
  BY <1>1, <1>2, IdleRecord DEF NewestInv, AheadInv
<1> QED
  BY <1>1, <1>2, <1>3, <1>4, <1>5, <1>6, AllowedStays DEF StagingInv

LEMMA SnapshotNamedStep == ASSUME StagingInv, NEW o \in Occurrences, SnapshotNamed(o) PROVE StagingInv'
<1>1. /\ TypeOK /\ JobInv /\ HeadInv /\ GateInv /\ MarkInv /\ NewestInv /\ ClockInv /\ AheadInv
      /\ OnlyAllowed /\ GateShowsItsDiff
  BY DEF StagingInv
<1>2. /\ UNCHANGED <<branch, worktree, allowed, done, stepDiff, gate, guest, job, clock, faults>>
      /\ Top' = Top /\ TopTree' = TopTree /\ job.at \notin {"restore", "latest"}
      /\ guest.up = "up" /\ guest.head <= Top /\ newest' = Captured
      /\ wips' = [wips EXCEPT ![o] = Captured] /\ latest' = o /\ o # "none"
      /\ slip' = slip \ {"untaken", "torn"}
  BY TopStays, NamesAssumption DEF SnapshotNamed, CanCapture, engineVars
<1>3. Captured \in Snapshots /\ Captured.tree = guest.tree /\ Captured.parent = guest.head
  BY <1>1, CapturedRecord
<1>4. /\ wips' \in [Occurrences -> Snapshots]
      /\ \A p \in Occurrences : wips'[p] = IF p = o THEN Captured ELSE wips[p]
  BY <1>1, <1>2, <1>3 DEF TypeOK
<1>5. TypeOK'
  BY <1>1, <1>2, <1>3, <1>4, SlipTypes DEF TypeOK
<1>6. JobInv' /\ GateInv' /\ MarkInv' /\ GateShowsItsDiff'
  BY <1>1, <1>2 DEF JobInv, GateInv, MarkInv, GateShowsItsDiff
<1>7. HeadInv'
  BY <1>1, <1>2, <1>3, <1>4 DEF HeadInv
<1>8. NewestInv'
  BY <1>2, <1>4 DEF NewestInv
<1>9. ClockInv'
  BY <1>1, <1>2, <1>3, <1>4 DEF ClockInv
<1>10. AheadInv'
  BY <1>1, <1>2, <1>3, <1>4 DEF AheadInv
<1> QED
  BY <1>1, <1>2, <1>5, <1>6, <1>7, <1>8, <1>9, <1>10, AllowedStays DEF StagingInv

(***************************************************************************)
(* The diffs and gates                                                     *)
(***************************************************************************)

LEMMA ChangedSinceStep == ASSUME StagingInv, ChangedSince PROVE StagingInv'
<1>1. /\ TypeOK /\ JobInv /\ HeadInv /\ GateInv /\ MarkInv /\ NewestInv /\ ClockInv /\ AheadInv
      /\ OnlyAllowed /\ GateShowsItsDiff
  BY DEF StagingInv
<1>2. /\ UNCHANGED <<branch, wips, latest, allowed, done, stepDiff, gate, guest, clock, faults, newest, slip>>
      /\ Top' = Top /\ TopTree' = TopTree /\ job.op = "changed" /\ job' = Idle
      /\ guest.up = "up" /\ guest.head <= Top /\ worktree' = Captured
  BY TopStays DEF ChangedSince, CanCapture, engineVars
<1>3. Captured \in Snapshots /\ Captured.parent = guest.head
  BY <1>1, CapturedRecord
<1>4. job.at \notin {"latest", "sync"}
  BY <1>1, <1>2 DEF JobInv
<1>5. TypeOK'
  BY <1>1, <1>2, <1>3, IdleRecord DEF TypeOK
<1>6. JobInv' /\ GateInv' /\ MarkInv' /\ GateShowsItsDiff' /\ ClockInv' /\ AheadInv'
  BY <1>1, <1>2, IdleRecord DEF JobInv, GateInv, MarkInv, GateShowsItsDiff, ClockInv, AheadInv
<1>7. HeadInv' /\ NewestInv'
  BY <1>1, <1>2, <1>3, <1>4, IdleRecord DEF HeadInv, NewestInv
<1> QED
  BY <1>1, <1>2, <1>5, <1>6, <1>7, AllowedStays DEF StagingInv

LEMMA DiffStepStep == ASSUME StagingInv, DiffStep PROVE StagingInv'
<1>1. /\ TypeOK /\ JobInv /\ HeadInv /\ GateInv /\ MarkInv /\ NewestInv /\ ClockInv /\ AheadInv
      /\ OnlyAllowed /\ GateShowsItsDiff
  BY DEF StagingInv
<1>2. /\ UNCHANGED <<branch, wips, latest, allowed, done, guest, clock, faults, newest, slip>>
      /\ Top' = Top /\ TopTree' = TopTree /\ job.op = "diff" /\ job' = Idle
      /\ guest.up = "up" /\ guest.head <= Top /\ worktree' = Captured /\ stepDiff' = Captured
  BY TopStays DEF DiffStep, CanCapture
<1>3. gate' = [open |-> FALSE, shows |-> None, diff |-> Captured]
  BY DEF DiffStep, NoGate
<1>4. Captured \in Snapshots /\ Captured.parent = guest.head
  BY <1>1, CapturedRecord
<1>5. job.at \notin {"latest", "sync"}
  BY <1>1, <1>2 DEF JobInv
<1>6. TypeOK'
  <2>1. gate' \in GateRecord
    BY <1>3, <1>4, NoneRecord DEF GateRecord
  <2> QED
    BY <1>1, <1>2, <1>4, <2>1, IdleRecord DEF TypeOK
<1>7. JobInv' /\ GateInv' /\ MarkInv' /\ GateShowsItsDiff' /\ ClockInv' /\ AheadInv'
  BY <1>1, <1>2, <1>3, IdleRecord DEF JobInv, GateInv, MarkInv, GateShowsItsDiff, ClockInv, AheadInv
<1>8. HeadInv' /\ NewestInv'
  BY <1>1, <1>2, <1>4, <1>5, IdleRecord DEF HeadInv, NewestInv
<1> QED
  BY <1>1, <1>2, <1>6, <1>7, <1>8, AllowedStays DEF StagingInv

\* A gate that was opened for a diff of this process shows the snapshot of it.
LEMMA GateOpens == ASSUME StagingInv, OpenGateStep PROVE StagingInv'
<1>1. /\ TypeOK /\ JobInv /\ HeadInv /\ GateInv /\ MarkInv /\ NewestInv /\ ClockInv /\ AheadInv
      /\ OnlyAllowed /\ GateShowsItsDiff
  BY DEF StagingInv
<1>2. /\ UNCHANGED <<branch, wips, latest, worktree, allowed, done, guest, job, clock, faults, newest>>
      /\ Top' = Top /\ TopTree' = TopTree /\ stepDiff' = None
      /\ slip' = IF stepDiff = None THEN slip \cup {"forgot"} ELSE slip
  BY TopStays DEF OpenGateStep, gitVars
<1>3. /\ gate' \in GateRecord /\ gate'.diff = gate.diff
      /\ gate'.shows = IF stepDiff # None THEN stepDiff ELSE worktree
  <2>1. gate \in GateRecord /\ stepDiff \in Snapshots /\ worktree \in Snapshots
    BY <1>1 DEF TypeOK
  <2>2. PICK s : s = IF stepDiff # None THEN stepDiff ELSE worktree
    OBVIOUS
  <2>3. gate' = [open |-> TRUE, shows |-> s, diff |-> gate.diff]
    BY <2>1, <2>2 DEF OpenGateStep, GateRecord
  <2> QED
    BY <2>1, <2>2, <2>3 DEF GateRecord
<1>4. TypeOK'
  BY <1>1, <1>2, <1>3, NoneRecord, SlipTypes DEF TypeOK, Slips
<1>5. JobInv' /\ MarkInv' /\ ClockInv' /\ AheadInv'
  BY <1>1, <1>2 DEF JobInv, MarkInv, ClockInv, AheadInv
<1>6. HeadInv' /\ NewestInv'
  BY <1>1, <1>2 DEF HeadInv, NewestInv
<1>7. GateInv' /\ GateShowsItsDiff'
  BY <1>1, <1>2, <1>3 DEF GateInv, GateShowsItsDiff
<1> QED
  BY <1>1, <1>2, <1>4, <1>5, <1>6, <1>7, AllowedStays DEF StagingInv

LEMMA CloseGateStep == ASSUME StagingInv, CloseGate PROVE StagingInv'
<1>1. /\ TypeOK /\ JobInv /\ HeadInv /\ GateInv /\ MarkInv /\ NewestInv /\ ClockInv /\ AheadInv
      /\ OnlyAllowed /\ GateShowsItsDiff
  BY DEF StagingInv
<1>2. /\ UNCHANGED <<branch, wips, latest, worktree, allowed, done, stepDiff, guest, job, clock, faults, newest, slip>>
      /\ Top' = Top /\ TopTree' = TopTree /\ gate.open /\ gate' = NoGate
  BY TopStays DEF CloseGate, gitVars
<1>3. TypeOK'
  BY <1>1, <1>2, NoGateRecord DEF TypeOK
<1>4. JobInv' /\ GateInv' /\ MarkInv' /\ GateShowsItsDiff' /\ ClockInv' /\ AheadInv'
  BY <1>1, <1>2, NoGateRecord DEF JobInv, GateInv, MarkInv, GateShowsItsDiff, ClockInv, AheadInv
<1>5. HeadInv' /\ NewestInv'
  BY <1>1, <1>2 DEF HeadInv, NewestInv
<1> QED
  BY <1>1, <1>2, <1>3, <1>4, <1>5, AllowedStays DEF StagingInv

(***************************************************************************)
(* Commit                                                                  *)
(***************************************************************************)

LEMMA CommitCaptureStep == ASSUME StagingInv, CommitCapture PROVE StagingInv'
<1>1. /\ TypeOK /\ JobInv /\ HeadInv /\ GateInv /\ MarkInv /\ NewestInv /\ ClockInv /\ AheadInv
      /\ OnlyAllowed /\ GateShowsItsDiff
  BY DEF StagingInv
<1>2. /\ UNCHANGED <<branch, wips, latest, allowed, done, stepDiff, gate, guest, clock, faults, newest, slip>>
      /\ Top' = Top /\ TopTree' = TopTree /\ job.op = "commit" /\ job.at = "capture"
      /\ guest.up = "up" /\ guest.head <= Top /\ worktree' = Captured
  BY TopStays DEF CommitCapture, CanCapture, engineVars
<1>3. Captured \in Snapshots /\ Captured.parent = guest.head /\ Captured.tree = guest.tree
  BY <1>1, CapturedRecord
<1>4. /\ job' \in JobRecord /\ job'.op = "commit" /\ job'.at = "move" /\ job'.arg = job.arg
      /\ job'.head = Top /\ job'.cur = Captured
  <2>1. job \in JobRecord /\ Top \in Nat
    BY <1>1, Numbers DEF TypeOK
  <2>2. job' = [job EXCEPT !.at = "move", !.head = Top, !.cur = Captured]
    BY DEF CommitCapture
  <2>3. job' = [op |-> job.op, at |-> "move", arg |-> job.arg, head |-> Top, cur |-> Captured]
    BY <2>1, <2>2 DEF JobRecord
  <2>4. job.arg \in Steps \cup Occurrences \cup {"none"}
    BY <2>1 DEF JobRecord
  <2> QED
    BY <1>2, <1>3, <2>1, <2>3, <2>4 DEF JobRecord, Ops, Points
<1>5. TypeOK'
  BY <1>1, <1>2, <1>3, <1>4 DEF TypeOK
<1>6. JobInv' /\ GateInv' /\ MarkInv' /\ GateShowsItsDiff'
  BY <1>1, <1>2, <1>4 DEF JobInv, GateInv, MarkInv, GateShowsItsDiff
<1>7. HeadInv' /\ NewestInv'
  BY <1>1, <1>2, <1>3, <1>4 DEF HeadInv, NewestInv
<1>8. ClockInv'
  <2>1. \A f \in Files : guest.tree[f] <= guest.tree[f]
    BY <1>1, Numbers, Contents
  <2> QED
    BY <1>1, <1>2, <1>3, <1>4, <2>1 DEF ClockInv
<1>9. AheadInv'
  BY <1>1, <1>2, <1>4 DEF AheadInv
<1> QED
  BY <1>1, <1>2, <1>5, <1>6, <1>7, <1>8, <1>9, AllowedStays DEF StagingInv

LEMMA CommitDeviatesStep == ASSUME StagingInv, CommitDeviates PROVE StagingInv'
<1>1. /\ TypeOK /\ JobInv /\ HeadInv /\ GateInv /\ MarkInv /\ NewestInv /\ ClockInv /\ AheadInv
      /\ OnlyAllowed /\ GateShowsItsDiff
  BY DEF StagingInv
<1>2. /\ UNCHANGED <<branch, wips, latest, worktree, done, stepDiff, gate, guest, clock, faults, newest, slip>>
      /\ Top' = Top /\ TopTree' = TopTree /\ job.op = "commit" /\ job.at = "move" /\ job' = Idle
      /\ allowed \subseteq allowed' /\ allowed' \in SUBSET Files
  BY <1>1, TopStays DEF CommitDeviates, gitVars, Deviations, Changed, TypeOK
<1>3. TypeOK'
  BY <1>1, <1>2, IdleRecord DEF TypeOK
<1>4. JobInv' /\ GateInv' /\ MarkInv' /\ GateShowsItsDiff' /\ ClockInv' /\ AheadInv'
  BY <1>1, <1>2, IdleRecord DEF JobInv, GateInv, MarkInv, GateShowsItsDiff, ClockInv, AheadInv
<1>5. HeadInv' /\ NewestInv'
  BY <1>1, <1>2, IdleRecord DEF HeadInv, NewestInv
<1> QED
  BY <1>1, <1>2, <1>3, <1>4, <1>5, AllowedStays DEF StagingInv

\* What may be taken and has changed is taken; with nothing of the kind the branch has it.
LEMMA NothingToTake ==
    ASSUME NEW f \in allowed, f \in Files, f \notin Taken
    PROVE  job.cur.tree[f] = branch[job.head][f]
  BY DEF Taken, Changed

LEMMA CommitNothingStep == ASSUME StagingInv, CommitNothing PROVE StagingInv'
<1>1. /\ TypeOK /\ JobInv /\ HeadInv /\ GateInv /\ MarkInv /\ NewestInv /\ ClockInv /\ AheadInv
      /\ OnlyAllowed /\ GateShowsItsDiff
  BY DEF StagingInv
<1>2. /\ UNCHANGED <<branch, wips, latest, worktree, allowed, done, stepDiff, gate, guest, clock, faults, newest, slip>>
      /\ Top' = Top /\ TopTree' = TopTree /\ job.op = "commit" /\ job.at = "move" /\ JobAt("mark") /\ Taken = {}
  BY TopStays DEF CommitNothing, gitVars, engineVars, JobAt
<1>3. /\ job' \in JobRecord /\ job'.at = "mark" /\ job'.op = job.op /\ job'.arg = job.arg
      /\ job'.head = job.head /\ job'.cur = job.cur
  BY <1>1, <1>2, JobGoes DEF Points
<1>4. TypeOK'
  BY <1>1, <1>2, <1>3 DEF TypeOK
<1>5. JobInv' /\ GateInv' /\ GateShowsItsDiff' /\ ClockInv' /\ AheadInv'
  BY <1>1, <1>2, <1>3 DEF JobInv, GateInv, GateShowsItsDiff, ClockInv, AheadInv
<1>6. MarkInv'
  <2>1. \A f \in Files : f \in allowed => job.cur.tree[f] = branch[job.head][f]
    BY <1>2, NothingToTake
  <2>2. TopTree = branch[job.head]
    BY <1>1, <1>2 DEF HeadInv, Top, TopTree
  <2> QED
    BY <1>2, <1>3, <2>1, <2>2 DEF MarkInv
<1>7. HeadInv' /\ NewestInv'
  BY <1>1, <1>2, <1>3 DEF HeadInv, NewestInv
<1> QED
  BY <1>1, <1>2, <1>4, <1>5, <1>6, <1>7, AllowedStays DEF StagingInv

\* The branch gets one commit, with what is allowed of the capture and nothing else.
LEMMA CommitMoveStep == ASSUME StagingInv, CommitMove PROVE StagingInv'
<1>1. /\ TypeOK /\ JobInv /\ HeadInv /\ GateInv /\ MarkInv /\ NewestInv /\ ClockInv /\ AheadInv
      /\ OnlyAllowed /\ GateShowsItsDiff
  BY DEF StagingInv
<1>2. /\ UNCHANGED <<wips, latest, worktree, allowed, done, stepDiff, gate, guest, clock, faults, newest>>
      /\ job.op = "commit" /\ job.at = "move" /\ JobAt("sync") /\ Top = job.head
      /\ branch' = Append(branch, OverlayTree)
      /\ slip' = IF latest # "none" /\ \E f \in Taken : job.cur.tree[f] > wips[latest].tree[f]
                 THEN slip \cup {"untaken"} ELSE slip
  BY DEF CommitMove, JobAt, engineVars
<1>3. /\ job' \in JobRecord /\ job'.at = "sync" /\ job'.op = job.op /\ job'.arg = job.arg
      /\ job'.head = job.head /\ job'.cur = job.cur
  BY <1>1, <1>2, JobGoes DEF Points
<1>4. /\ TopTree \in Tree /\ job.cur.tree \in Tree /\ Top \in Nat /\ Top >= 1
      /\ TopTree = branch[job.head]
  BY <1>1, <1>2, Numbers DEF Top, TopTree
<1>5. OverlayTree \in Tree /\ \A f \in Files : OverlayTree[f] = IF f \in Taken THEN job.cur.tree[f] ELSE TopTree[f]
  BY <1>4 DEF OverlayTree, Tree
<1>6. /\ branch' \in Seq(Tree) /\ Top' = Top + 1 /\ TopTree' = OverlayTree
      /\ branch'[Top + 1] = OverlayTree /\ \A n \in 1..Top : branch'[n] = branch[n]
  <2>1. branch \in Seq(Tree)
    BY <1>1 DEF TypeOK
  <2> QED
    BY <1>2, <1>5, <2>1 DEF Top, TopTree
<1>7. \A f \in Files : TopTree'[f] = job.cur.tree[f] \/ TopTree'[f] = TopTree[f]
  BY <1>5, <1>6
<1>8. TypeOK'
  <2>1. slip' \in SUBSET Slips
    BY <1>1, <1>2, SlipTypes DEF Slips
  <2>2. Len(branch') > 0
    BY <1>4, <1>6 DEF Top
  <2> QED
    BY <1>1, <1>2, <1>3, <1>6, <2>1, <2>2 DEF TypeOK
<1>9. JobInv' /\ GateInv' /\ GateShowsItsDiff'
  BY <1>1, <1>2, <1>3 DEF JobInv, GateInv, GateShowsItsDiff
<1>10. HeadInv'
  BY <1>1, <1>2, <1>3, <1>4, <1>6, Numbers DEF HeadInv
<1>11. MarkInv'
  <2> SUFFICES ASSUME NEW f \in Files, f \in allowed PROVE OverlayTree[f] = job.cur.tree[f]
    BY <1>2, <1>3, <1>6 DEF MarkInv
  <2>1. f \notin Taken => job.cur.tree[f] = TopTree[f]
    BY <1>4, NothingToTake
  <2> QED
    BY <1>5, <2>1
<1>12. NewestInv'
  BY <1>1, <1>2, <1>3 DEF NewestInv
<1>13. ClockInv'
  <2> SUFFICES ASSUME NEW f \in Files PROVE TopTree'[f] <= clock
    BY <1>1, <1>2, <1>3 DEF ClockInv
  <2>1. /\ TopTree[f] <= clock /\ guest.tree[f] <= clock /\ job.cur.tree[f] <= guest.tree[f]
    BY <1>1, <1>2 DEF ClockInv
  <2>2. guest.tree[f] \in Nat /\ job.cur.tree[f] \in Nat /\ clock \in Nat
    BY <1>1, Numbers, Contents
  <2> QED
    BY <1>7, <2>1, <2>2
<1>14. AheadInv'
  <2> SUFFICES ASSUME "reverted" \notin slip, NEW f \in Files
               PROVE  /\ guest.up = "up" => TopTree'[f] <= guest.tree[f]
                      /\ slip' \cap {"untaken", "torn"} = {} /\ latest # "none" => TopTree'[f] <= wips[latest].tree[f]
    BY <1>2, <1>3 DEF AheadInv
  <2>1. guest.up = "up" => TopTree'[f] <= guest.tree[f]
    BY <1>1, <1>2, <1>7 DEF AheadInv, ClockInv
  <2>2. ASSUME slip' \cap {"untaken", "torn"} = {}, latest # "none" PROVE TopTree'[f] <= wips[latest].tree[f]
    <3>1. slip \cap {"untaken", "torn"} = {} /\ \A g \in Taken : ~(job.cur.tree[g] > wips[latest].tree[g])
      BY <1>2, <2>2
    <3>2. TopTree[f] <= wips[latest].tree[f]
      BY <1>1, <2>2, <3>1 DEF AheadInv
    <3>3. job.cur.tree[f] \in Nat /\ wips[latest].tree[f] \in Nat
      BY <1>1, <2>2, Numbers, Contents DEF TypeOK
    <3> QED
      BY <1>5, <1>6, <3>1, <3>2, <3>3
  <2> QED
    BY <2>1, <2>2
<1>15. OnlyAllowed'
  <2> SUFFICES ASSUME NEW n \in 2..(Top + 1), NEW f \in Files, branch'[n][f] # branch'[n - 1][f] PROVE f \in allowed
    BY <1>2, <1>6 DEF OnlyAllowed
  <2>1. CASE n = Top + 1
    <3>1. branch'[n - 1] = TopTree
      <4>1. n - 1 = Top /\ Top \in 1..Top
        BY <1>4, <2>1
      <4>2. branch'[Top] = branch[Top]
        BY <1>6, <4>1
      <4> QED
        BY <1>2, <1>4, <4>1, <4>2
    <3>2. f \in Taken
      BY <1>5, <1>6, <2>1, <3>1
    <3> QED
      BY <3>2 DEF Taken
  <2>2. CASE n # Top + 1
    <3>1. n \in 2..Top /\ n \in 1..Top /\ n - 1 \in 1..Top
      BY <1>4, <2>2
    <3> QED
      BY <1>1, <1>6, <3>1 DEF OnlyAllowed
  <2> QED
    BY <2>1, <2>2
<1> QED
  BY <1>8, <1>9, <1>10, <1>11, <1>12, <1>13, <1>14, <1>15 DEF StagingInv

LEMMA CommitSyncStep == ASSUME StagingInv, CommitSync PROVE StagingInv'
<1>1. /\ TypeOK /\ JobInv /\ HeadInv /\ GateInv /\ MarkInv /\ NewestInv /\ ClockInv /\ AheadInv
      /\ OnlyAllowed /\ GateShowsItsDiff
  BY DEF StagingInv
<1>2. /\ UNCHANGED <<branch, wips, latest, worktree, allowed, done, stepDiff, gate, clock, faults, newest, slip>>
      /\ Top' = Top /\ TopTree' = TopTree /\ job.op = "commit" /\ job.at = "sync" /\ JobAt("mark")
      /\ guest' = [guest EXCEPT !.head = Top] /\ Top \in Nat /\ Top >= 1
  BY <1>1, TopStays, Numbers DEF CommitSync, gitVars, engineVars, JobAt
<1>3. /\ job' \in JobRecord /\ job'.at = "mark" /\ job'.op = job.op /\ job'.arg = job.arg
      /\ job'.head = job.head /\ job'.cur = job.cur
  BY <1>1, <1>2, JobGoes DEF Points
<1>4. guest' \in GuestRecord /\ guest'.up = guest.up /\ guest'.head = Top /\ guest'.tree = guest.tree
  BY <1>1, <1>2 DEF TypeOK, GuestRecord
<1>5. TypeOK'
  BY <1>1, <1>2, <1>3, <1>4 DEF TypeOK
<1>6. JobInv' /\ GateInv' /\ MarkInv' /\ GateShowsItsDiff' /\ ClockInv' /\ AheadInv'
  BY <1>1, <1>2, <1>3, <1>4 DEF JobInv, GateInv, MarkInv, GateShowsItsDiff, ClockInv, AheadInv
<1>7. HeadInv' /\ NewestInv'
  BY <1>1, <1>2, <1>3, <1>4 DEF HeadInv, NewestInv
<1> QED
  BY <1>1, <1>2, <1>5, <1>6, <1>7, AllowedStays DEF StagingInv

\* Only a guest that was left behind does not have the old head.
LEMMA CommitSyncLacksStep == ASSUME StagingInv, CommitSyncLacks PROVE StagingInv'
<1>1. /\ TypeOK /\ JobInv /\ HeadInv /\ GateInv /\ MarkInv /\ NewestInv /\ ClockInv /\ AheadInv
      /\ OnlyAllowed /\ GateShowsItsDiff
  BY DEF StagingInv
<1>2. /\ UNCHANGED <<branch, wips, latest, worktree, allowed, done, stepDiff, gate, guest, clock, faults, newest, slip>>
      /\ Top' = Top /\ TopTree' = TopTree /\ job.op = "commit" /\ job.at = "sync" /\ job' = Idle
      /\ guest.up = "up" /\ guest.head < job.head
  BY TopStays DEF CommitSyncLacks, gitVars, engineVars
<1>3. "behind" \in slip
  BY <1>1, <1>2, Numbers DEF HeadInv
<1>4. TypeOK'
  BY <1>1, <1>2, IdleRecord DEF TypeOK
<1>5. JobInv' /\ GateInv' /\ MarkInv' /\ GateShowsItsDiff' /\ ClockInv' /\ AheadInv'
  BY <1>1, <1>2, IdleRecord DEF JobInv, GateInv, MarkInv, GateShowsItsDiff, ClockInv, AheadInv
<1>6. HeadInv' /\ NewestInv'
  BY <1>1, <1>2, <1>3, IdleRecord DEF HeadInv, NewestInv
<1> QED
  BY <1>1, <1>2, <1>4, <1>5, <1>6, AllowedStays DEF StagingInv

LEMMA CommitMarkStep == ASSUME StagingInv, CommitMark PROVE StagingInv'
<1>1. /\ TypeOK /\ JobInv /\ HeadInv /\ GateInv /\ MarkInv /\ NewestInv /\ ClockInv /\ AheadInv
      /\ OnlyAllowed /\ GateShowsItsDiff
  BY DEF StagingInv
<1>2. /\ UNCHANGED <<branch, wips, latest, worktree, allowed, stepDiff, gate, guest, clock, faults, newest, slip>>
      /\ Top' = Top /\ TopTree' = TopTree /\ job.op = "commit" /\ job.at = "mark" /\ job' = Idle
      /\ done' = done \cup {job.arg}
  BY TopStays DEF CommitMark, gitVars
<1>3. TypeOK'
  BY <1>1, <1>2, IdleRecord DEF TypeOK, JobInv
<1>4. JobInv' /\ GateInv' /\ MarkInv' /\ GateShowsItsDiff' /\ ClockInv' /\ AheadInv'
  BY <1>1, <1>2, IdleRecord DEF JobInv, GateInv, MarkInv, GateShowsItsDiff, ClockInv, AheadInv
<1>5. HeadInv' /\ NewestInv'
  BY <1>1, <1>2, IdleRecord DEF HeadInv, NewestInv
<1> QED
  BY <1>1, <1>2, <1>3, <1>4, <1>5, AllowedStays DEF StagingInv

(***************************************************************************)
(* Faults                                                                  *)
(***************************************************************************)

LEMMA FailStep == ASSUME StagingInv, Fail PROVE StagingInv'
<1>1. /\ TypeOK /\ JobInv /\ HeadInv /\ GateInv /\ MarkInv /\ NewestInv /\ ClockInv /\ AheadInv
      /\ OnlyAllowed /\ GateShowsItsDiff
  BY DEF StagingInv
<1>2. /\ UNCHANGED <<branch, wips, latest, worktree, allowed, done, stepDiff, gate, guest, clock, newest>>
      /\ Top' = Top /\ TopTree' = TopTree /\ job' = Idle
      /\ faults < MaxFaults /\ faults' = faults + 1
      /\ slip \subseteq slip' /\ slip' \subseteq slip \cup {"behind", "torn"}
      /\ job.op = "commit" /\ job.at = "sync" => "behind" \in slip'
      /\ job.op = "snapshot" /\ job.at = "latest" => "torn" \in slip'
  BY TopStays DEF Fail, gitVars, engineVars
<1>3. TypeOK'
  <2>1. faults' \in 0..MaxFaults
    BY <1>1, <1>2, BoundsAssumption DEF TypeOK
  <2>2. slip' \in SUBSET Slips
    BY <1>1, <1>2, SlipTypes DEF Slips
  <2> QED
    BY <1>1, <1>2, <2>1, <2>2, IdleRecord DEF TypeOK
<1>4. JobInv' /\ GateInv' /\ MarkInv' /\ GateShowsItsDiff' /\ ClockInv'
  BY <1>1, <1>2, IdleRecord DEF JobInv, GateInv, MarkInv, GateShowsItsDiff, ClockInv
<1>5. HeadInv'
  BY <1>1, <1>2, IdleRecord DEF HeadInv, JobInv
<1>6. NewestInv'
  BY <1>1, <1>2, IdleRecord DEF NewestInv, JobInv
<1>7. AheadInv'
  BY <1>1, <1>2, IdleRecord DEF AheadInv
<1> QED
  BY <1>1, <1>2, <1>3, <1>4, <1>5, <1>6, <1>7, AllowedStays DEF StagingInv

LEMMA CrashStep == ASSUME StagingInv, Crash PROVE StagingInv'
<1>1. /\ TypeOK /\ JobInv /\ HeadInv /\ GateInv /\ MarkInv /\ NewestInv /\ ClockInv /\ AheadInv
      /\ OnlyAllowed /\ GateShowsItsDiff
  BY DEF StagingInv
<1>2. /\ UNCHANGED <<branch, wips, latest, worktree, allowed, done, gate, clock, newest>>
      /\ Top' = Top /\ TopTree' = TopTree /\ job' = Idle /\ guest' = Down /\ stepDiff' = None
      /\ faults < MaxFaults /\ faults' = faults + 1
      /\ slip \subseteq slip' /\ slip' \subseteq slip \cup {"torn"}
      /\ job.op = "snapshot" /\ job.at = "latest" => "torn" \in slip'
  BY TopStays DEF Crash, gitVars
<1>3. TypeOK'
  <2>1. faults' \in 0..MaxFaults
    BY <1>1, <1>2, BoundsAssumption DEF TypeOK
  <2>2. slip' \in SUBSET Slips
    BY <1>1, <1>2, SlipTypes DEF Slips
  <2> QED
    BY <1>1, <1>2, <2>1, <2>2, IdleRecord, DownRecord, NoneRecord DEF TypeOK
<1>4. JobInv' /\ GateInv' /\ MarkInv' /\ GateShowsItsDiff'
  BY <1>1, <1>2, IdleRecord DEF JobInv, GateInv, MarkInv, GateShowsItsDiff
<1>5. HeadInv'
  BY <1>1, <1>2, IdleRecord, DownRecord, Numbers DEF HeadInv
<1>6. NewestInv'
  BY <1>1, <1>2, IdleRecord DEF NewestInv, JobInv
<1>7. ClockInv'
  BY <1>1, <1>2, IdleRecord, DownRecord, Numbers DEF ClockInv
<1>8. AheadInv'
  BY <1>1, <1>2, IdleRecord, DownRecord DEF AheadInv
<1> QED
  BY <1>1, <1>2, <1>3, <1>4, <1>5, <1>6, <1>7, <1>8, AllowedStays DEF StagingInv

(***************************************************************************)
(* The theorems                                                            *)
(***************************************************************************)

LEMMA StagingInit == Init => StagingInv
<1> SUFFICES ASSUME Init PROVE StagingInv
  OBVIOUS
<1>1. /\ branch = <<[f \in Files |-> 0]>>
      /\ wips = [o \in Occurrences |-> None] /\ latest = "none" /\ worktree = None
      /\ guest = Down /\ job = Idle /\ allowed = Plan /\ done = {} /\ stepDiff = None /\ gate = NoGate
      /\ clock = 0 /\ faults = 0 /\ newest = None /\ slip = {}
  BY DEF Init
<1>2. /\ branch \in Seq(Tree) /\ Top = 1 /\ \A f \in Files : TopTree[f] = 0
  BY <1>1 DEF Top, TopTree, Tree
<1>3. TypeOK
  <2>1. clock \in 0..MaxEdits /\ faults \in 0..MaxFaults
    BY <1>1, BoundsAssumption
  <2>2. allowed \in SUBSET Files
    BY <1>1, FilesAssumption
  <2> QED
    BY <1>1, <1>2, <2>1, <2>2, IdleRecord, DownRecord, NoneRecord, NoGateRecord DEF TypeOK, Top
<1>4. JobInv /\ GateInv /\ MarkInv /\ NewestInv /\ GateShowsItsDiff
  BY <1>1, IdleRecord, NoGateRecord DEF JobInv, GateInv, MarkInv, NewestInv, GateShowsItsDiff
<1>5. HeadInv
  BY <1>1, <1>2, IdleRecord, DownRecord, NoneRecord DEF HeadInv
<1>6. ClockInv /\ AheadInv
  BY <1>1, <1>2, IdleRecord, DownRecord DEF ClockInv, AheadInv, None
<1>7. OnlyAllowed
  BY <1>2 DEF OnlyAllowed
<1> QED
  BY <1>3, <1>4, <1>5, <1>6, <1>7 DEF StagingInv

LEMMA StagingStep == StagingInv /\ [Next]_vars => StagingInv'
<1> SUFFICES ASSUME StagingInv, [Next]_vars PROVE StagingInv'
  OBVIOUS
<1>1. CASE UNCHANGED vars
  <2>1. UNCHANGED <<branch, wips, latest, worktree, allowed, done, stepDiff, gate, guest, job, clock, faults, newest, slip>>
    BY <1>1 DEF vars, gitVars, engineVars
  <2>2. Top' = Top /\ TopTree' = TopTree
    BY <2>1, TopStays
  <2> QED
    BY <2>1, <2>2, AllowedStays DEF StagingInv, TypeOK, JobInv, HeadInv, GateInv, MarkInv, NewestInv, ClockInv,
       AheadInv, GateShowsItsDiff
<1>2. ASSUME NEW o \in Occurrences, Begin("snapshot", "capture", o) PROVE StagingInv'
  BY <1>2, BeginStep
<1>3. ASSUME NEW s \in Steps, Begin("commit", "capture", s) PROVE StagingInv'
  BY <1>3, BeginStep
<1>4. CASE Begin("changed", "capture", "none") \/ Begin("diff", "capture", "none")
  BY <1>4, BeginStep
<1> QED
  BY <1>1, <1>2, <1>3, <1>4, CloneStep, RestoreStep, EditStep, SnapshotFetchStep, SnapshotLatestStep,
     SnapshotNamedStep, ChangedSinceStep, DiffStepStep, GateOpens, CloseGateStep, CommitCaptureStep,
     CommitDeviatesStep, CommitNothingStep, CommitMoveStep, CommitSyncStep, CommitSyncLacksStep,
     CommitMarkStep, FailStep, CrashStep DEF Next

\* The inductive invariant holds, and with it every snapshot, the guest and the branch
\* stand to each other as the operations of the runner need it (internal/runner).
THEOREM StagingHolds == Spec => []StagingInv
<1> QED
  BY StagingInit, StagingStep, PTL DEF Spec

\* The guest knows the head of the branch, and every snapshot can be fetched (capture,
\* syncGuestHead).
THEOREM HeadIsKnown == Spec => []GuestHeadKnown
<1>1. StagingInv => GuestHeadKnown
  BY DEF StagingInv, HeadInv, GuestHeadKnown
<1> QED
  BY <1>1, StagingHolds, PTL

\* The branch gets what was allowed, and a gate shows what its diff was made from
\* (staging.Commit, OpenGate).
THEOREM BranchHolds == Spec => []BranchIsAllowedAndShown
<1>1. StagingInv => BranchIsAllowedAndShown
  BY DEF StagingInv, BranchIsAllowedAndShown
<1> QED
  BY <1>1, StagingHolds, PTL

\* What a boot restores is the newest snapshot, and nothing in it is older than the branch.
LEMMA RestoresNewest ==
    ASSUME StagingInv, RestoreWIP
    PROVE  /\ "torn" \notin slip /\ newest # None => guest'.tree = newest.tree
           /\ slip \cap {"untaken", "torn", "reverted"} = {} => \A f \in Files : guest'.tree[f] >= TopTree[f]
<1>1. TypeOK /\ JobInv /\ HeadInv /\ NewestInv /\ AheadInv
  BY DEF StagingInv
<1>2. job.op = "boot" /\ job.at = "restore" /\ guest.up = "up" /\ guest.head = Top /\ guest.tree = TopTree
  BY <1>1 DEF RestoreWIP, JobInv, HeadInv
<1>3. guest \in GuestRecord
  BY <1>1 DEF TypeOK
<1>4. CASE latest = "none"
  <2>1. guest' = guest /\ ("torn" \notin slip => newest = None)
    BY <1>1, <1>2, <1>4 DEF RestoreWIP, NewestInv
  <2>2. \A f \in Files : TopTree[f] >= TopTree[f]
    BY <1>1, Numbers, Contents
  <2> QED
    BY <1>2, <2>1, <2>2
<1>5. CASE latest # "none"
  <2>1. latest \in Occurrences /\ wips[latest].parent \in Nat /\ wips[latest].parent <= guest.head
    BY <1>1, <1>2, <1>5, Numbers DEF TypeOK, HeadInv
  <2>2. guest' = IF wips[latest] = None THEN guest ELSE [guest EXCEPT !.tree = wips[latest].tree]
    BY <1>1, <1>5, <2>1, Numbers DEF RestoreWIP
  <2>3. wips[latest] # None => guest'.tree = wips[latest].tree
    BY <1>3, <2>2 DEF GuestRecord
  <2>4. "torn" \notin slip => newest = wips[latest]
    BY <1>1, <1>2, <1>5 DEF NewestInv
  <2>5. ASSUME slip \cap {"untaken", "torn", "reverted"} = {}, NEW f \in Files
        PROVE  guest'.tree[f] >= TopTree[f]
    <3>1. TopTree[f] <= wips[latest].tree[f] /\ TopTree[f] \in Nat /\ wips[latest].tree[f] \in Nat
      BY <1>1, <1>5, <2>1, <2>5, Numbers, Contents DEF AheadInv
    <3>2. CASE wips[latest] = None
      BY <1>2, <2>2, <3>1, <3>2
    <3>3. CASE wips[latest] # None
      BY <2>3, <3>1, <3>3
    <3> QED
      BY <3>2, <3>3
  <2> QED
    BY <2>3, <2>4, <2>5
<1> QED
  BY <1>4, <1>5

\* What a subagent has done comes back after a boot, and is in the branch once its step
\* counts as committed (RestoreWIP, Commit, markStepCommitted).
THEOREM WorkHolds == Spec => WorkIsKept
<1>1. StagingInv /\ [Next]_vars =>
        [job.op = "boot" /\ job' = Idle /\ guest'.up = "up" =>
           /\ "torn" \notin slip /\ newest # None => guest'.tree = newest.tree
           /\ slip \cap {"untaken", "torn", "reverted"} = {} =>
                 \A f \in Files : guest'.tree[f] >= TopTree[f]]_vars
  <2> SUFFICES ASSUME StagingInv, Next, job.op = "boot", job' = Idle, guest'.up = "up"
               PROVE  RestoreWIP
    BY RestoresNewest
  <2>1. ~Crash
    BY DownRecord DEF Crash
  <2>2. job.at = "restore"
    BY DEF StagingInv, JobInv
  <2> QED
    BY <2>1, <2>2, IdleRecord DEF Next, Clone, Edit, Begin, SnapshotFetch, SnapshotLatest, SnapshotNamed, ChangedSince,
       DiffStep, OpenGateStep, CloseGate, CommitCapture, CommitDeviates, CommitNothing, CommitMove, CommitSync,
       CommitSyncLacks, CommitMark, Fail
<1>2. StagingInv /\ [Next]_vars =>
        [done' # done => \A f \in allowed : TopTree[f] = job.cur.tree[f]]_vars
  <2> SUFFICES ASSUME StagingInv, Next, done' # done PROVE \A f \in allowed : TopTree[f] = job.cur.tree[f]
    OBVIOUS
  <2>1. CommitMark
    BY DEF Next, Clone, RestoreWIP, Edit, Begin, SnapshotFetch, SnapshotLatest, SnapshotNamed, ChangedSince,
       DiffStep, OpenGateStep, CloseGate, CommitCapture, CommitDeviates, CommitNothing, CommitMove, CommitSync,
       CommitSyncLacks, Fail, Crash, engineVars
  <2> QED
    BY <2>1 DEF CommitMark, StagingInv, MarkInv, TypeOK
<1> QED
  BY <1>1, <1>2, StagingHolds, PTL DEF Spec, WorkIsKept, RestoreBringsBack, DoneIsCommitted

(***************************************************************************)
(* The tasks of a run: the inductive invariant                             *)
(***************************************************************************)

Items == [key : Int, what : STRING, done : BOOLEAN]
Places == [node : {"plan", "implement", "check", "end"}, occ : Occs, plan : Seq(PlanSteps), items : Seq(Items), item : Nat]
Takings == [outcome : {"none", "done", "again", "needs_human", "stuck", "passed", "failed"},
            value : Seq(PlanSteps), feedback : Nat, output : Nat]
ReportStates == [at : {"idle", "checked", "fed", "refused", "accepted"}, occ : 0..MaxOcc,
                 outcome : {"done", "needs_human", "stuck", "odd"}, text : Nat, gen : Nat]

TasksTypes ==
    /\ at \in Places
    /\ taken \in [Occs -> Takings]
    /\ really \subseteq [key : Int, what : STRING] /\ committed = {d.key : d \in really}
    /\ kept \in [Occs -> [feedback : Nat, output : Nat]]
    /\ write \in [at : {"idle", "checked"}, occ : 0..MaxOcc, value : Seq(PlanSteps)]
    /\ report \in [Reports -> ReportStates]
    /\ loop \in [at : {"idle", "running", "ran", "seen"}, passed : BOOLEAN, output : Nat]
    /\ kicked \in BOOLEAN /\ endFeedback \in Nat
    /\ shown \in [done : BOOLEAN, outcome : {"none", "done", "needs_human"}, reason : Nat]
    /\ vm \in [out : [Occs -> Seq(PlanSteps)], has : 0..MaxOcc]
    /\ gen \in Nat /\ given \in STRING \cup {"plan", "nothing"}
    /\ accepted \in [Occs -> Seq(PlanSteps)]

\* A report of this run that the engine has not taken yet.
InHandNow(r) == report[r].at \in {"checked", "fed"} /\ report[r].gen = gen

\* Who holds runCtl.mu, and which occurrences are over.
PlaceInv ==
    /\ mu = "loop" <=> loop.at \in {"running", "ran"}
    /\ loop.at \in {"running", "ran"} => at.node = "check"
    /\ loop.at = "seen" => at.node = "end"
    /\ vm.has <= at.occ
    /\ \A o \in Occs : taken[o] = NotTaken <=> (o > at.occ \/ (o = at.occ /\ at.node # "end"))
    /\ \A r \in Reports :
         /\ report[r].gen <= gen
         /\ report[r].at # "idle" => report[r].occ \in Occs /\ report[r].occ <= at.occ
                                     /\ (report[r].occ = at.occ => at.node # "check")
         /\ report[r].at = "accepted" => taken[report[r].occ] # NotTaken
         /\ InHandNow(r) => /\ mu = "report" /\ WaitingAgent /\ report[r].occ = at.occ
                            /\ \A q \in Reports : InHandNow(q) => q = r
    /\ write.at = "checked" => write.occ \in Occs /\ write.occ <= at.occ

\* What is in the VM is what write_output accepted, while the engine has not taken it.
OutputInv ==
    lapse \cap {"direct", "late"} # {}
    \/ /\ \A o \in Occs :
            /\ taken[o].outcome # "again"
            /\ taken[o].value # NoValue => taken[o].value = accepted[o]
            /\ vm.out[o] \in Plans \cup {NoValue}
            /\ taken[o] = NotTaken => vm.out[o] = accepted[o]
            /\ o > at.occ => accepted[o] = NoValue
       /\ write.at = "checked" => write.value \in Plans
       /\ \A r \in Reports : InHandNow(r) /\ report[r].outcome = "done" /\ at.node = "plan" => vm.out[at.occ] \in Plans

\* What is kept of an occurrence that is not over is of the report, or the command, in hand.
KeptInv ==
    lapse \cap {"twice", "cut"} # {}
    \/ /\ \A o \in Occs :
            /\ taken[o] # NotTaken => kept[o] = [feedback |-> taken[o].feedback, output |-> taken[o].output]
            /\ taken[o] = NotTaken => kept[o].output = IF loop.at = "ran" /\ o = at.occ THEN loop.output ELSE 0
            /\ taken[o] = NotTaken /\ (\A r \in Reports : report[r].at \in {"fed", "refused"} => report[r].occ # o)
                 => kept[o].feedback = 0
       /\ \A r \in Reports :
            /\ report[r].at \in {"checked", "fed", "refused"} => taken[report[r].occ] = NotTaken
            /\ report[r].at \in {"fed", "refused"} => kept[report[r].occ].feedback = report[r].text
            /\ \A q \in Reports : report[r].at # "idle" /\ report[q].at # "idle" /\ report[r].occ = report[q].occ
                 => r = q

\* The report that ended the run has still to be noted, or it has been and the end is shown with it,
\* or will be.
EndInv ==
    /\ at.node # "end" => ~shown.done /\ shown.reason = 0
    /\ shown.done => shown.outcome = EndOutcome /\ (EndOutcome = "done" => shown.reason = 0)
    /\ \/ lapse \cap {"early", "crossed", "cut"} # {}
       \/ at.node = "end" /\ EndOutcome # "done" =>
            /\ taken[at.occ].feedback = 0 => shown.reason = 0
            /\ \A r \in Reports : report[r].at = "accepted" /\ report[r].occ = at.occ
                 => report[r].gen = gen /\ report[r].text = taken[at.occ].feedback
            /\ (\A r \in Reports : report[r].at = "accepted" => report[r].occ # at.occ)
                 => /\ endFeedback = taken[at.occ].feedback
                    /\ kicked \/ loop.at = "seen" \/ ~shown.done \/ shown.reason = taken[at.occ].feedback

\* The items from the one in hand on are not committed, unless by another that is written alike, and the
\* agent was given the one in hand.
ItemsInv ==
    /\ at.node \in {"implement", "check"} => at.item \in 1..Len(at.items) /\ ~at.items[at.item].done
    /\ at.node = "check" \/ (at.node = "implement" /\ vm.has = at.occ) => given = at.items[at.item].what
    /\ \/ "renumbered" \in lapse
       \/ /\ \A i \in 1..Len(at.items) :
               at.items[i].done => [key |-> at.items[i].key, what |-> at.items[i].what] \in really
          /\ at.node \in {"implement", "check"} =>
               \A i \in at.item..Len(at.items) :
                 ~at.items[i].done => \A d \in really : d.what = at.items[i].what => AnotherAlike(at.items, i, d)

TasksInv == TasksTypes /\ PlaceInv /\ OutputInv /\ KeptInv /\ EndInv /\ ItemsInv

(***************************************************************************)
(* The places of the engine                                                *)
(***************************************************************************)

LEMMA LeastOf == ASSUME NEW S \in SUBSET Nat, S # {} PROVE \E i \in S : \A j \in S : i <= j
<1>1. PICK R : R = OpToRel(<, Nat)
  OBVIOUS
<1>2. IsWellFoundedOn(R, Nat)
  BY <1>1, NatLessThanWellFounded
<1>3. \A x, y \in Nat : <<x, y>> \in R <=> x < y
  BY <1>1 DEF OpToRel
<1>4. PICK i \in S : \A j \in S : ~(<<j, i>> \in R)
  BY <1>2, WFMin
<1>5. \A j \in S : ~(j < i)
  BY <1>3, <1>4
<1> QED
  BY <1>5

LEMMA Lengths == ASSUME NEW S, NEW s \in Seq(S) PROVE Len(s) \in Nat /\ DOMAIN s = 1..Len(s) /\ \A i \in 1..Len(s) : s[i] \in S
  BY LenProperties

\* The item that the engine takes up after item i is one of those that are left.
LEMMA NextIsLeft ==
    ASSUME NEW items \in Seq(Items), NEW i \in Nat, NextItem(items, i) # 0
    PROVE  NextItem(items, i) \in (i + 1)..Len(items) /\ ~items[NextItem(items, i)].done
<1> DEFINE left == {j \in (i + 1)..Len(items) : ~items[j].done}
<1>1. left \in SUBSET Nat /\ left # {}
  BY Lengths DEF NextItem
<1>2. NextItem(items, i) = CHOOSE j \in left : \A k \in left : j <= k
  BY <1>1 DEF NextItem
<1>3. \E j \in left : \A k \in left : j <= k
  BY <1>1, LeastOf
<1> HIDE DEF left
<1>4. NextItem(items, i) \in left
  BY <1>2, <1>3
<1> QED
  BY <1>4 DEF left

LEMMA ToPlace ==
    ASSUME at \in Places, NEW node \in {"plan", "implement", "check"}, at.occ + 1 \in Occs, at' = To(node)
    PROVE  /\ at' \in Places /\ at'.node = node /\ at'.occ = at.occ + 1
           /\ at'.items = at.items /\ at'.item = at.item
  BY DEF To, Places

LEMMA EndPlace ==
    ASSUME at \in Places, at' = End
    PROVE  at' \in Places /\ at'.node = "end" /\ at'.occ = at.occ /\ at'.items = at.items /\ at'.item = at.item
  BY DEF End, Places

\* The engine is at the end, or at the next item that is left.
LEMMA StepPlace ==
    ASSUME at \in Places, NEW items \in Seq(Items), NEW i \in Nat, NEW p, p = Step(items, i), p.occ \in Occs
    PROVE  /\ p \in Places /\ p.items = items
           /\ \/ p.node = "end" /\ p.occ = at.occ
              \/ /\ p.node = "implement" /\ p.occ = at.occ + 1
                 /\ p.item \in (i + 1)..Len(items) /\ ~items[p.item].done
<1> DEFINE next == NextItem(items, i)
<1>1. CASE next = 0
  <2>1. p = [End EXCEPT !.items = items]
    BY <1>1 DEF Step
  <2> QED
    BY <2>1 DEF End, Places
<1>2. CASE next # 0
  <2>1. p = [To("implement") EXCEPT !.items = items, !.item = next]
    BY <1>2 DEF Step
  <2>2. next \in (i + 1)..Len(items) /\ ~items[next].done /\ Len(items) \in Nat
    BY <1>2, NextIsLeft, Lengths
  <2> HIDE DEF next
  <2>3. next \in Nat
    BY <2>2
  <2>4. p.occ = at.occ + 1 /\ p.node = "implement" /\ p.items = items /\ p.item = next
    BY <2>1 DEF To, Places
  <2>5. p \in Places
    BY <2>1, <2>3, <2>4 DEF To, Places
  <2> QED
    BY <2>2, <2>4, <2>5
<1> QED
  BY <1>1, <1>2

\* The items of a plan: what is committed is done.
LEMMA ItemsOf ==
    ASSUME NEW plan \in Plans
    PROVE  /\ StepItems(plan) \in Seq(Items) /\ Len(StepItems(plan)) = Len(plan) /\ Len(plan) \in Nat
           /\ \A i \in 1..Len(plan) :
                /\ plan[i] \in PlanSteps
                /\ StepItems(plan)[i].key = StepKey(plan, i) /\ StepItems(plan)[i].what = plan[i].what
                /\ StepItems(plan)[i].done <=> StepKey(plan, i) \in committed
<1>1. plan \in Seq(PlanSteps) /\ Len(plan) \in Nat /\ \A i \in 1..Len(plan) : plan[i] \in PlanSteps
  BY TasksAssumption, Lengths
<1>2. \A i \in 1..Len(plan) : StepKey(plan, i) \in Int
  BY <1>1 DEF StepKey, PlanSteps
<1>3. \A i \in 1..Len(plan) : [key |-> StepKey(plan, i), what |-> plan[i].what,
                               done |-> StepKey(plan, i) \in committed] \in Items
  BY <1>1, <1>2 DEF Items, PlanSteps
<1>4. StepItems(plan) \in [1..Len(plan) -> Items]
  BY <1>3 DEF StepItems
<1>5. StepItems(plan) \in Seq(Items) /\ Len(StepItems(plan)) = Len(plan)
  BY <1>1, <1>4, LenProperties
<1>6. ASSUME NEW i \in 1..Len(plan)
      PROVE  /\ StepItems(plan)[i].key = StepKey(plan, i) /\ StepItems(plan)[i].what = plan[i].what
             /\ StepItems(plan)[i].done <=> StepKey(plan, i) \in committed
  <2> PICK key, isDone : key = StepKey(plan, i) /\ isDone = (key \in committed)
    OBVIOUS
  <2>1. StepItems(plan)[i] = [key |-> key, what |-> plan[i].what, done |-> isDone]
    BY DEF StepItems
  <2>2. StepItems(plan)[i].key = key /\ StepItems(plan)[i].what = plan[i].what /\ StepItems(plan)[i].done = isDone
    BY <2>1
  <2> QED
    BY <2>2
<1> QED
  BY <1>1, <1>5, <1>6

(***************************************************************************)
(* The steps of a run's tasks                                              *)
(***************************************************************************)

LEMMA TasksInitHolds == TasksInit => TasksInv
<1> SUFFICES ASSUME TasksInit PROVE TasksInv
  OBVIOUS
<1>1. 1 \in Occs /\ Occs \subseteq 0..MaxOcc /\ 0 \in 0..MaxOcc /\ \A S : <<>> \in Seq(S)
  BY TasksAssumption, EmptySeq DEF Occs
<1>2. at \in Places /\ at.node = "plan" /\ at.occ = 1 /\ at.items = <<>> /\ Len(at.items) = 0
  BY <1>1, EmptySeq DEF TasksInit, Places, NoValue
<1>3. \A o \in Occs : taken[o] = NotTaken /\ kept[o].feedback = 0 /\ kept[o].output = 0
                      /\ vm.out[o] = NoValue /\ accepted[o] = NoValue
  BY DEF TasksInit, NewVM
<1>4. taken \in [Occs -> Takings]
  <2>1. NotTaken \in Takings
    BY <1>1 DEF NotTaken, Takings, NoValue
  <2> QED
    BY <2>1 DEF TasksInit
<1>5. report \in [Reports -> ReportStates] /\ \A r \in Reports : report[r].at = "idle" /\ report[r].gen = 0
  <2>1. NoReport \in ReportStates /\ NoReport.at = "idle" /\ NoReport.gen = 0
    BY <1>1 DEF NoReport, ReportStates
  <2> QED
    BY <2>1 DEF TasksInit
<1>6. TasksTypes
  <2>1. write \in [at : {"idle", "checked"}, occ : 0..MaxOcc, value : Seq(PlanSteps)]
    BY <1>1 DEF TasksInit, NoWrite, NoValue
  <2>2. loop \in [at : {"idle", "running", "ran", "seen"}, passed : BOOLEAN, output : Nat]
    BY DEF TasksInit, NoRun
  <2>3. /\ vm \in [out : [Occs -> Seq(PlanSteps)], has : 0..MaxOcc] /\ accepted \in [Occs -> Seq(PlanSteps)]
        /\ kept \in [Occs -> [feedback : Nat, output : Nat]]
    BY <1>1 DEF TasksInit, NewVM, NoValue
  <2>4. committed = {d.key : d \in really}
    BY DEF TasksInit
  <2> QED
    BY <1>2, <1>4, <1>5, <2>1, <2>2, <2>3, <2>4 DEF TasksInit, TasksTypes
<1>7. PlaceInv
  BY <1>1, <1>2, <1>3, <1>5 DEF TasksInit, PlaceInv, InHandNow, NoRun, NoWrite, NewVM, Occs
<1>8. OutputInv /\ KeptInv
  BY <1>1, <1>2, <1>3, <1>5 DEF TasksInit, OutputInv, KeptInv, InHandNow, NotTaken, NoValue, NoRun, NoWrite
<1>9. EndInv /\ ItemsInv
  BY <1>2 DEF TasksInit, EndInv, ItemsInv
<1> QED
  BY <1>6, <1>7, <1>8, <1>9 DEF TasksInv

\* What a step that leaves the engine and its records alone leaves alone.
LEMMA EngineIsLeft ==
    ASSUME TasksInv, UNCHANGED <<at, taken, gen>>, lapse \subseteq lapse'
    PROVE  /\ EndOutcome' = EndOutcome
           /\ (UNCHANGED <<really, given>> /\ vm'.has = vm.has => ItemsInv')
           /\ (UNCHANGED <<report, loop, kicked, endFeedback, shown>> => EndInv')
           /\ (UNCHANGED <<kept, report, loop>> => KeptInv')
           /\ (UNCHANGED <<accepted, write, report>> /\ vm'.out = vm.out => OutputInv')
           /\ (UNCHANGED <<mu, loop, report, write>> /\ vm'.has = vm.has => PlaceInv')
<1>1. EndOutcome' = EndOutcome
  BY DEF EndOutcome
<1>2. UNCHANGED <<really, given>> /\ vm'.has = vm.has => ItemsInv'
  BY DEF TasksInv, ItemsInv
<1>3. UNCHANGED <<report, loop, kicked, endFeedback, shown>> => EndInv'
  BY <1>1 DEF TasksInv, EndInv
<1>4. UNCHANGED <<kept, report, loop>> => KeptInv'
  BY DEF TasksInv, KeptInv
<1>5. UNCHANGED <<accepted, write, report>> /\ vm'.out = vm.out => OutputInv'
  BY DEF TasksInv, OutputInv, InHandNow
<1>6. UNCHANGED <<mu, loop, report, write>> /\ vm'.has = vm.has => PlaceInv'
  BY DEF TasksInv, PlaceInv, InHandNow, WaitingAgent
<1> QED
  BY <1>1, <1>2, <1>3, <1>4, <1>5, <1>6

LEMMA NextTaskStep == ASSUME TasksInv, NextTask PROVE TasksInv'
<1>1. /\ mu = "nobody" /\ at.node \in Agents /\ given' = TaskFile /\ vm' = [vm EXCEPT !.has = at.occ]
      /\ UNCHANGED <<at, taken, committed, really, mu, write, report, loop, kicked, endFeedback, shown, kept,
                     gen, accepted, lapse>>
  BY DEF NextTask, MaterializeTask, workflowVars, callVars, loopVars
<1>2. /\ at \in Places /\ at.occ \in 1..MaxOcc
      /\ vm'.out = vm.out /\ vm'.has = at.occ /\ vm' \in [out : [Occs -> Seq(PlanSteps)], has : 0..MaxOcc]
  <2>1. at \in Places /\ vm \in [out : [Occs -> Seq(PlanSteps)], has : 0..MaxOcc]
    BY DEF TasksInv, TasksTypes
  <2>2. at.occ \in 1..MaxOcc /\ at.occ \in 0..MaxOcc
    BY <2>1, TasksAssumption DEF Places, Occs
  <2> QED
    BY <1>1, <2>1, <2>2
<1>3. at.node = "implement" => given' = at.items[at.item].what /\ at.items[at.item].what \in STRING
  <2> SUFFICES ASSUME at.node = "implement"
               PROVE  given' = at.items[at.item].what /\ at.items[at.item].what \in STRING
    OBVIOUS
  <2>1. at.items \in Seq(Items) /\ at.item \in 1..Len(at.items)
    BY <1>2 DEF TasksInv, ItemsInv, Places
  <2>2. at.items[at.item] \in Items
    BY <2>1, Lengths
  <2> QED
    BY <1>1, <2>2 DEF TaskFile, Items
<1>4. given' \in STRING \cup {"plan", "nothing"}
  <2>1. at.node # "implement" => given' = "plan"
    BY <1>1 DEF TaskFile
  <2> QED
    BY <1>3, <2>1
<1>5. TasksTypes'
  BY <1>1, <1>2, <1>4 DEF TasksInv, TasksTypes
<1>6. PlaceInv'
  BY <1>1, <1>2 DEF TasksInv, PlaceInv, InHandNow, WaitingAgent
<1>7. ItemsInv'
  BY <1>1, <1>3 DEF TasksInv, ItemsInv, Agents
<1> QED
  BY <1>1, <1>2, <1>5, <1>6, <1>7, EngineIsLeft DEF TasksInv

LEMMA WriteDirectlyStep == ASSUME TasksInv, WriteDirectly(Bad) PROVE TasksInv'
<1>1. /\ vm' = PutFile(at.occ, Bad) /\ lapse' = {"direct"} /\ lapse = {}
      /\ UNCHANGED <<at, taken, committed, really, mu, write, report, loop, kicked, endFeedback, shown, kept,
                     gen, given, accepted>>
  BY DEF WriteDirectly, workflowVars, callVars, loopVars
<1>2. vm'.has = vm.has /\ vm' \in [out : [Occs -> Seq(PlanSteps)], has : 0..MaxOcc]
  BY <1>1, TasksAssumption DEF PutFile, TasksInv, TasksTypes
<1>3. TasksTypes'
  BY <1>1, <1>2 DEF TasksInv, TasksTypes
<1>4. OutputInv'
  BY <1>1 DEF OutputInv
<1> QED
  BY <1>1, <1>2, <1>3, <1>4, EngineIsLeft DEF TasksInv

LEMMA WriteCheckStep == ASSUME TasksInv, NEW value \in Plans, WriteCheck(value) PROVE TasksInv'
<1>1. /\ write' = [at |-> "checked", occ |-> at.occ, value |-> value]
      /\ UNCHANGED <<at, taken, committed, really, mu, report, loop, kicked, endFeedback, shown, kept,
                     vm, gen, given, accepted, lapse>>
  BY DEF WriteCheck, workflowVars, loopVars
<1>2. at.occ \in Occs /\ Occs \subseteq 0..MaxOcc /\ value \in Seq(PlanSteps) /\ at.occ <= at.occ
  <2>1. at.occ \in Occs
    BY DEF TasksInv, TasksTypes, Places
  <2>2. Occs \subseteq 0..MaxOcc /\ \A o \in Occs : o <= o
    BY TasksAssumption DEF Occs
  <2>3. value \in Seq(PlanSteps)
    BY TasksAssumption
  <2> QED
    BY <2>1, <2>2, <2>3
<1>3. TasksTypes'
  BY <1>1, <1>2 DEF TasksInv, TasksTypes
<1>4. PlaceInv'
  BY <1>1, <1>2 DEF TasksInv, PlaceInv, InHandNow, WaitingAgent
<1>5. OutputInv'
  BY <1>1 DEF TasksInv, OutputInv, InHandNow
<1> QED
  BY <1>1, <1>3, <1>4, <1>5, EngineIsLeft DEF TasksInv

LEMMA WriteOutputStep == ASSUME TasksInv, WriteOutput PROVE TasksInv'
<1>1. /\ write.at = "checked" /\ vm' = PutFile(write.occ, write.value)
      /\ accepted' = [accepted EXCEPT ![write.occ] = write.value]
      /\ lapse' = (IF taken[write.occ] # NotTaken THEN lapse \cup {"late"} ELSE lapse)
      /\ write' = NoWrite
      /\ UNCHANGED <<at, taken, committed, really, mu, report, loop, kicked, endFeedback, shown, kept, gen, given>>
  BY DEF WriteOutput, workflowVars, loopVars
<1>2. /\ write.occ \in Occs /\ write.occ <= at.occ /\ write.value \in Seq(PlanSteps) /\ at.occ \in Occs
      /\ vm.out \in [Occs -> Seq(PlanSteps)]
  BY <1>1 DEF TasksInv, TasksTypes, PlaceInv, Places
<1>3. vm'.out = [vm.out EXCEPT ![write.occ] = write.value] /\ vm'.has = vm.has
  BY <1>1 DEF PutFile, TasksInv, TasksTypes
<1>4. NoWrite.at = "idle" /\ NoWrite \in [at : {"idle", "checked"}, occ : 0..MaxOcc, value : Seq(PlanSteps)]
  BY TasksAssumption, EmptySeq DEF NoWrite, NoValue
<1>5. TasksTypes'
  <2>1. vm' \in [out : [Occs -> Seq(PlanSteps)], has : 0..MaxOcc]
    BY <1>1, <1>2 DEF PutFile, TasksInv, TasksTypes
  <2> QED
    BY <1>1, <1>2, <1>4, <2>1 DEF TasksInv, TasksTypes
<1>6. PlaceInv'
  BY <1>1, <1>3, <1>4 DEF TasksInv, PlaceInv, InHandNow, WaitingAgent
<1>7. OutputInv'
  <2> SUFFICES ASSUME lapse' \cap {"direct", "late"} = {} PROVE OutputInv'
    BY DEF OutputInv
  <2>1. lapse \cap {"direct", "late"} = {} /\ taken[write.occ] = NotTaken
    BY <1>1
  <2>2. write.value \in Plans
    BY <1>1, <2>1 DEF TasksInv, OutputInv
  <2>3. \A o \in Occs :
            /\ vm'.out[o] = IF o = write.occ THEN write.value ELSE vm.out[o]
            /\ accepted'[o] = IF o = write.occ THEN write.value ELSE accepted[o]
    BY <1>1, <1>2, <1>3 DEF TasksInv, TasksTypes
  <2>4. \A o \in Occs : o > at.occ => o # write.occ
    BY <1>2 DEF Occs
  <2>5. NotTaken.value = NoValue
    BY DEF NotTaken
  <2>6. \A o \in Occs : /\ taken[o].outcome # "again"
                        /\ taken[o].value # NoValue => taken[o].value = accepted'[o]
                        /\ vm'.out[o] \in Plans \cup {NoValue}
                        /\ taken[o] = NotTaken => vm'.out[o] = accepted'[o]
                        /\ o > at.occ => accepted'[o] = NoValue
    BY <2>1, <2>2, <2>3, <2>4, <2>5 DEF TasksInv, OutputInv
  <2>7. \A r \in Reports : InHandNow(r) /\ report[r].outcome = "done" /\ at.node = "plan" => vm'.out[at.occ] \in Plans
    BY <1>2, <2>1, <2>2, <2>3 DEF TasksInv, OutputInv
  <2> QED
    BY <1>1, <1>4, <2>6, <2>7 DEF OutputInv, InHandNow
<1> QED
  BY <1>1, <1>3, <1>5, <1>6, <1>7, EngineIsLeft DEF TasksInv

LEMMA WriteFailsStep == ASSUME TasksInv, WriteFails PROVE TasksInv'
<1>1. /\ write' = NoWrite
      /\ UNCHANGED <<at, taken, committed, really, mu, report, loop, kicked, endFeedback, shown, kept,
                     vm, gen, given, accepted, lapse>>
  BY DEF WriteFails, workflowVars, loopVars
<1>2. NoWrite.at = "idle" /\ NoWrite \in [at : {"idle", "checked"}, occ : 0..MaxOcc, value : Seq(PlanSteps)]
  BY TasksAssumption, EmptySeq DEF NoWrite, NoValue
<1>3. TasksTypes'
  BY <1>1, <1>2 DEF TasksInv, TasksTypes
<1>4. PlaceInv' /\ OutputInv'
  BY <1>1, <1>2 DEF TasksInv, PlaceInv, OutputInv, InHandNow, WaitingAgent
<1> QED
  BY <1>1, <1>3, <1>4, EngineIsLeft DEF TasksInv

\* A report that is where it was, or another one's step.
LEMMA ReportIsAt ==
    ASSUME TasksTypes, NEW r \in Reports, NEW new \in ReportStates, report' = [report EXCEPT ![r] = new]
    PROVE  /\ report' \in [Reports -> ReportStates] /\ report'[r] = new
           /\ \A q \in Reports : q # r => report'[q] = report[q]
  BY DEF TasksTypes

LEMMA ReportCheckStep ==
    ASSUME TasksInv, NEW r \in Reports, NEW outcome \in Outcomes \cup {"odd"}, NEW text \in Nat,
           ReportCheck(r, outcome, text)
    PROVE  TasksInv'
<1> DEFINE new == [at |-> "checked", occ |-> at.occ, outcome |-> outcome, text |-> text, gen |-> gen]
<1>1. /\ report[r] = NoReport /\ mu = "nobody" /\ WaitingAgent /\ mu' = "report"
      /\ outcome = "done" /\ Outputs # {} => ReadOutput(at.occ) # NoValue
      /\ report' = [report EXCEPT ![r] = new]
      /\ lapse' = (IF \E q \in Reports \ {r} : report[q].at # "idle" /\ report[q].occ = at.occ
                   THEN lapse \cup {"twice"} ELSE lapse)
      /\ UNCHANGED <<at, taken, committed, really, write, loop, kicked, endFeedback, shown, kept, vm, gen, given,
                     accepted>>
  BY DEF ReportCheck, TakesUp, workflowVars, loopVars
<1>2. /\ at.occ \in Occs /\ at.occ \in 0..MaxOcc /\ at.occ \in Nat /\ gen \in Nat
      /\ outcome \in {"done", "needs_human", "stuck", "odd"}
  BY TasksAssumption DEF TasksInv, TasksTypes, Places, Occs, Outcomes
<1>3. new \in ReportStates
  BY <1>2 DEF ReportStates
<1>4. /\ report' \in [Reports -> ReportStates] /\ report'[r] = new
      /\ \A q \in Reports : q # r => report'[q] = report[q]
  BY <1>1, <1>3, ReportIsAt DEF TasksInv
<1>5. /\ new.at = "checked" /\ new.occ = at.occ /\ new.outcome = outcome /\ new.text = text /\ new.gen = gen
      /\ report[r].at = "idle"
  BY <1>1 DEF NoReport
<1>6. at.node \in Agents /\ vm.has = at.occ /\ at.node # "check" /\ at.node # "end"
  BY <1>1 DEF WaitingAgent, Agents
<1>7. taken[at.occ] = NotTaken
  BY <1>2, <1>6 DEF TasksInv, PlaceInv
<1> HIDE DEF new
<1>8. TasksTypes'
  BY <1>1, <1>4 DEF TasksInv, TasksTypes
<1>9. \A q \in Reports : ~InHandNow(q) /\ (InHandNow(q)' => q = r)
  <2> SUFFICES ASSUME NEW q \in Reports PROVE ~InHandNow(q) /\ (InHandNow(q)' => q = r)
    OBVIOUS
  <2>1. ~InHandNow(q)
    BY <1>1 DEF TasksInv, PlaceInv
  <2> QED
    BY <1>1, <1>4, <2>1 DEF InHandNow
<1>10. PlaceInv'
  <2>1. ASSUME NEW q \in Reports
        PROVE  /\ report'[q].gen <= gen
               /\ report'[q].at # "idle" => report'[q].occ \in Occs /\ report'[q].occ <= at.occ
                                            /\ (report'[q].occ = at.occ => at.node # "check")
               /\ report'[q].at = "accepted" => taken[report'[q].occ] # NotTaken
               /\ InHandNow(q)' => report'[q].occ = at.occ
    <3>1. CASE q = r
      BY <1>2, <1>4, <1>5, <1>6, <3>1
    <3>2. CASE q # r
      BY <1>4, <1>9, <3>2 DEF TasksInv, PlaceInv
    <3> QED
      BY <3>1, <3>2
  <2>2. mu # "loop" /\ mu' # "loop"
    BY <1>1
  <2>3. WaitingAgent'
    BY <1>1 DEF WaitingAgent
  <2> QED
    BY <1>1, <1>9, <2>1, <2>2, <2>3 DEF TasksInv, PlaceInv
<1>11. OutputInv'
  <2> SUFFICES ASSUME lapse' \cap {"direct", "late"} = {} PROVE OutputInv'
    BY DEF OutputInv
  <2>1. lapse \cap {"direct", "late"} = {}
    BY <1>1
  <2>2. ASSUME outcome = "done", at.node = "plan" PROVE vm.out[at.occ] \in Plans
    BY <1>1, <1>2, <2>1, <2>2 DEF TasksInv, OutputInv, Outputs, ReadOutput
  <2> QED
    BY <1>1, <1>4, <1>5, <1>9, <2>1, <2>2 DEF TasksInv, OutputInv
<1>12. KeptInv'
  <2> SUFFICES ASSUME lapse' \cap {"twice", "cut"} = {} PROVE KeptInv'
    BY DEF KeptInv
  <2>1. lapse \cap {"twice", "cut"} = {} /\ \A q \in Reports : q # r /\ report[q].at # "idle" => report[q].occ # at.occ
    BY <1>1
  <2>2. \A q \in Reports : report'[q].at \in {"fed", "refused"} <=> report[q].at \in {"fed", "refused"}
    BY <1>4, <1>5
  <2>3. \A q \in Reports : report'[q].at \in {"fed", "refused"} => report'[q] = report[q]
    BY <1>4, <1>5
  <2>4. \A o \in Occs :
            /\ taken[o] # NotTaken => kept[o] = [feedback |-> taken[o].feedback, output |-> taken[o].output]
            /\ taken[o] = NotTaken => kept[o].output = IF loop.at = "ran" /\ o = at.occ THEN loop.output ELSE 0
            /\ taken[o] = NotTaken /\ (\A q \in Reports : report'[q].at \in {"fed", "refused"} => report'[q].occ # o)
                 => kept[o].feedback = 0
    BY <2>1, <2>2, <2>3 DEF TasksInv, KeptInv
  <2>5. ASSUME NEW p \in Reports
        PROVE  /\ report'[p].at \in {"checked", "fed", "refused"} => taken[report'[p].occ] = NotTaken
               /\ report'[p].at \in {"fed", "refused"} => kept[report'[p].occ].feedback = report'[p].text
               /\ \A q \in Reports : report'[p].at # "idle" /\ report'[q].at # "idle"
                                     /\ report'[p].occ = report'[q].occ => p = q
    BY <1>4, <1>5, <1>7, <2>1 DEF TasksInv, KeptInv
  <2> QED
    BY <1>1, <2>4, <2>5 DEF KeptInv
<1>13. EndInv'
  BY <1>1, <1>6 DEF TasksInv, EndInv
<1> QED
  BY <1>1, <1>8, <1>10, <1>11, <1>12, <1>13, EngineIsLeft DEF TasksInv

LEMMA WriteFeedbackStep == ASSUME TasksInv, NEW r \in Reports, WriteFeedback(r) PROVE TasksInv'
<1> DEFINE new == [report[r] EXCEPT !.at = "fed"]
<1>1. /\ report[r].at = "checked" /\ report' = [report EXCEPT ![r] = new]
      /\ kept' = (IF report[r].text = 0 THEN kept ELSE KeepResult(report[r].occ, "feedback", report[r].text))
      /\ UNCHANGED <<at, taken, committed, really, mu, write, loop, kicked, endFeedback, shown, vm, gen, given,
                     accepted, lapse>>
  BY DEF WriteFeedback, workflowVars, loopVars
<1>2. report[r] \in ReportStates /\ report[r].occ \in Occs
  BY <1>1 DEF TasksInv, TasksTypes, PlaceInv
<1>3. /\ new \in ReportStates /\ new.at = "fed" /\ new.occ = report[r].occ /\ new.outcome = report[r].outcome
      /\ new.text = report[r].text /\ new.gen = report[r].gen
  BY <1>2 DEF ReportStates
<1> HIDE DEF new
<1>4. /\ report' \in [Reports -> ReportStates] /\ report'[r] = new
      /\ \A q \in Reports : q # r => report'[q] = report[q]
  BY <1>1, <1>3, ReportIsAt DEF TasksInv
<1>5. /\ kept' \in [Occs -> [feedback : Nat, output : Nat]]
      /\ \A o \in Occs : o # report[r].occ => kept'[o] = kept[o]
      /\ kept'[report[r].occ].output = kept[report[r].occ].output
      /\ kept'[report[r].occ].feedback = IF report[r].text = 0 THEN kept[report[r].occ].feedback ELSE report[r].text
  <2>1. kept \in [Occs -> [feedback : Nat, output : Nat]] /\ report[r].text \in Nat
    BY <1>2 DEF TasksInv, TasksTypes, ReportStates
  <2>2. CASE report[r].text = 0
    BY <1>1, <2>1, <2>2
  <2>3. CASE report[r].text # 0
    <3>1. kept' = [kept EXCEPT ![report[r].occ].feedback = report[r].text]
      BY <1>1, <2>3 DEF KeepResult
    <3> QED
      BY <1>2, <2>1, <2>3, <3>1
  <2> QED
    BY <2>2, <2>3
<1>6. TasksTypes'
  BY <1>1, <1>4, <1>5 DEF TasksInv, TasksTypes
<1>7. \A q \in Reports :
        /\ InHandNow(q)' <=> InHandNow(q)
        /\ report'[q].occ = report[q].occ /\ report'[q].gen = report[q].gen /\ report'[q].outcome = report[q].outcome
        /\ report'[q].text = report[q].text
        /\ report'[q].at # "idle" <=> report[q].at # "idle"
        /\ report'[q].at = "accepted" <=> report[q].at = "accepted"
  BY <1>1, <1>3, <1>4 DEF InHandNow
<1>8. PlaceInv'
  BY <1>1, <1>7 DEF TasksInv, PlaceInv, WaitingAgent
<1>9. OutputInv'
  BY <1>1, <1>7 DEF TasksInv, OutputInv
<1>10. KeptInv'
  <2> SUFFICES ASSUME lapse \cap {"twice", "cut"} = {} PROVE KeptInv'
    BY <1>1 DEF KeptInv
  <2>1. /\ taken[report[r].occ] = NotTaken
        /\ \A q \in Reports : q # r /\ report[q].at # "idle" => report[q].occ # report[r].occ
        /\ kept[report[r].occ].feedback = 0
    BY <1>1, <1>2 DEF TasksInv, KeptInv
  <2>2. kept'[report[r].occ].feedback = report[r].text
    BY <1>5, <2>1
  <2>3. ASSUME NEW o \in Occs
        PROVE  /\ taken[o] # NotTaken => kept'[o] = [feedback |-> taken[o].feedback, output |-> taken[o].output]
               /\ taken[o] = NotTaken => kept'[o].output = IF loop.at = "ran" /\ o = at.occ THEN loop.output ELSE 0
               /\ taken[o] = NotTaken /\ (\A q \in Reports : report'[q].at \in {"fed", "refused"} => report'[q].occ # o)
                    => kept'[o].feedback = 0
    <3>1. CASE o = report[r].occ
      BY <1>3, <1>4, <1>5, <2>1, <3>1 DEF TasksInv, KeptInv
    <3>2. CASE o # report[r].occ
      BY <1>1, <1>4, <1>5, <3>2 DEF TasksInv, KeptInv
    <3> QED
      BY <3>1, <3>2
  <2>4. ASSUME NEW p \in Reports
        PROVE  /\ report'[p].at \in {"checked", "fed", "refused"} => taken[report'[p].occ] = NotTaken
               /\ report'[p].at \in {"fed", "refused"} => kept'[report'[p].occ].feedback = report'[p].text
               /\ \A q \in Reports : report'[p].at # "idle" /\ report'[q].at # "idle"
                                     /\ report'[p].occ = report'[q].occ => p = q
    <3>1. CASE p = r
      BY <1>3, <1>4, <1>7, <2>1, <2>2, <3>1
    <3>2. CASE p # r
      <4>1. report[p].at \in {"fed", "refused"} => report[p].occ \in Occs /\ report[p].occ # report[r].occ
        BY <2>1, <3>2 DEF TasksInv, PlaceInv
      <4> QED
        BY <1>4, <1>5, <1>7, <3>2, <4>1 DEF TasksInv, KeptInv
    <3> QED
      BY <3>1, <3>2
  <2> QED
    BY <1>1, <2>3, <2>4 DEF KeptInv
<1>11. EndInv'
  <2>1. EndOutcome' = EndOutcome
    BY <1>1 DEF EndOutcome
  <2> QED
    BY <1>1, <1>7, <2>1 DEF TasksInv, EndInv
<1> QED
  BY <1>1, <1>6, <1>8, <1>9, <1>10, <1>11, EngineIsLeft DEF TasksInv

\* An occurrence is over, and the engine is at the end or at the next one.
Goes ==
    /\ at' \in Places
    /\ \/ at'.node = "end" /\ at'.occ = at.occ
       \/ at'.node # "end" /\ at'.occ = at.occ + 1

LEMMA OverNow ==
    ASSUME TasksInv, at.node # "end", Goes, NEW t \in Takings, t.outcome # "none",
           taken' = [taken EXCEPT ![at.occ] = t]
    PROVE  /\ at.occ \in Occs /\ at.occ \in Nat /\ at'.occ \in Occs /\ at'.occ \in Nat /\ taken[at.occ] = NotTaken
           /\ at.occ <= at'.occ /\ taken'[at.occ] = t /\ t # NotTaken
           /\ taken' \in [Occs -> Takings] /\ \A o \in Occs : o # at.occ => taken'[o] = taken[o]
           /\ \A o \in Occs : taken'[o] = NotTaken <=> (o > at'.occ \/ (o = at'.occ /\ at'.node # "end"))
<1>1. at.occ \in Occs /\ at.occ \in Nat /\ at'.occ \in Occs /\ at'.occ \in Nat /\ at.occ <= at'.occ
  <2>1. at \in Places /\ at' \in Places
    BY DEF TasksInv, TasksTypes, Goes
  <2> QED
    BY <2>1, TasksAssumption DEF Places, Occs, Goes
<1>2. taken[at.occ] = NotTaken /\ \A o \in Occs : taken[o] = NotTaken <=> o >= at.occ
  BY <1>1 DEF TasksInv, PlaceInv, Occs
<1>3. t # NotTaken
  BY DEF NotTaken
<1>4. taken'[at.occ] = t /\ taken' \in [Occs -> Takings] /\ \A o \in Occs : o # at.occ => taken'[o] = taken[o]
  BY <1>1 DEF TasksInv, TasksTypes
<1>5. \A o \in Occs : taken'[o] = NotTaken <=> (o > at'.occ \/ (o = at'.occ /\ at'.node # "end"))
  <2> SUFFICES ASSUME NEW o \in Occs
               PROVE  taken'[o] = NotTaken <=> (o > at'.occ \/ (o = at'.occ /\ at'.node # "end"))
    OBVIOUS
  <2>1. o \in Nat /\ (taken'[o] = NotTaken <=> o > at.occ)
    BY <1>1, <1>2, <1>3, <1>4 DEF Occs
  <2> QED
    BY <1>1, <2>1 DEF Goes
<1> QED
  BY <1>1, <1>2, <1>3, <1>4, <1>5

\* What the engine takes of a report, and where it goes.
LEMMA EngineTakesWhat ==
    ASSUME TasksInv, NEW r \in Reports, InHandNow(r), report[r].outcome \in Outcomes, EngineTakes(r), at'.occ \in Occs
    PROVE  /\ Goes
           /\ \E t \in Takings :
                /\ taken' = [taken EXCEPT ![at.occ] = t]
                /\ t.outcome # "none" /\ t.feedback = report[r].text /\ t.output = 0
                /\ at'.node = "end" => t.outcome \in {"done", "needs_human"}
                /\ lapse \cap {"direct", "late"} = {} =>
                     t.outcome # "again" /\ (t.value # NoValue => t.value = accepted[at.occ])
           /\ lapse \subseteq lapse' /\ lapse' \subseteq lapse \cup {"renumbered"}
<1> DEFINE out == vm.out[at.occ]
           T(outcome, value) == [NotTaken EXCEPT !.outcome = outcome, !.value = value, !.feedback = report[r].text]
<1>1. /\ at \in Places /\ at.occ \in Occs /\ at.occ \in Nat /\ out \in Seq(PlanSteps) /\ report[r].text \in Nat
      /\ report[r] \in ReportStates
  <2>1. at \in Places /\ vm.out \in [Occs -> Seq(PlanSteps)] /\ report[r] \in ReportStates
    BY DEF TasksInv, TasksTypes
  <2>2. at.occ \in Occs /\ at.occ \in Nat
    BY <2>1, TasksAssumption DEF Places, Occs
  <2>3. out \in Seq(PlanSteps)
    BY <2>1, <2>2
  <2>4. report[r].text \in Nat
    BY <2>1 DEF ReportStates
  <2> QED
    BY <2>1, <2>2, <2>3, <2>4
<1>2. at.node \in Agents /\ taken[at.occ] = NotTaken
  BY <1>1 DEF TasksInv, PlaceInv, WaitingAgent, Agents
<1>3. ASSUME NEW outcome \in {"done", "again", "needs_human", "stuck"}, NEW value \in Seq(PlanSteps)
      PROVE  /\ T(outcome, value) \in Takings /\ T(outcome, value).outcome = outcome
             /\ T(outcome, value).value = value /\ T(outcome, value).feedback = report[r].text
             /\ T(outcome, value).output = 0
  BY <1>1, <1>3 DEF NotTaken, Takings
<1>4. NoValue \in Seq(PlanSteps)
  BY EmptySeq DEF NoValue
<1>5. ReadOutput(at.occ) = out
  BY DEF ReadOutput
<1> HIDE DEF out, T
<1>6. CASE /\ at.node = "plan" /\ report[r].outcome = "done" /\ Validate(out)
           /\ at' = [Step(StepItems(out), 0) EXCEPT !.plan = out]
           /\ Record(r, "done", out)
           /\ lapse' = IF KeepsNumbers(out) THEN lapse ELSE lapse \cup {"renumbered"}
  <2>1. StepItems(out) \in Seq(Items)
    BY <1>6, ItemsOf DEF Validate
  <2>2. PICK p : p = Step(StepItems(out), 0)
    OBVIOUS
  <2>3. at' = [p EXCEPT !.plan = out]
    BY <1>6, <2>2
  <2>4. p.occ \in Occs
    <3>1. "occ" \in DOMAIN p /\ at'.occ = p.occ
      BY <1>1, <2>2, <2>3 DEF Step, End, To, Places
    <3> QED
      BY <3>1
  <2>5. /\ p \in Places
        /\ \/ p.node = "end" /\ p.occ = at.occ
           \/ p.node = "implement" /\ p.occ = at.occ + 1
    BY <1>1, <2>1, <2>2, <2>4, StepPlace
  <2>6. at' \in Places /\ at'.node = p.node /\ at'.occ = p.occ
    BY <1>1, <2>3, <2>5 DEF Places
  <2>7. Goes
    BY <2>5, <2>6 DEF Goes
  <2>8. lapse \cap {"direct", "late"} = {} => out = accepted[at.occ]
    BY <1>1, <1>2 DEF out, TasksInv, OutputInv
  <2>9. taken' = [taken EXCEPT ![at.occ] = T("done", out)]
    BY <1>6 DEF Record, T
  <2>10. lapse \subseteq lapse' /\ lapse' \subseteq lapse \cup {"renumbered"}
    BY <1>6
  <2>11. PICK t : t = T("done", out)
    OBVIOUS
  <2>12. t \in Takings /\ t.outcome = "done" /\ t.value = out /\ t.feedback = report[r].text /\ t.output = 0
    BY <1>1, <1>3, <2>11
  <2> QED
    BY <2>7, <2>8, <2>9, <2>10, <2>11, <2>12
<1>7. CASE /\ at.node = "plan" /\ report[r].outcome = "done" /\ ~Validate(out)
           /\ at' = To("plan")
           /\ Record(r, "again", NoValue)
           /\ UNCHANGED lapse
  <2>1. at'.occ = at.occ + 1
    BY <1>1, <1>7 DEF To, Places
  <2>2. Goes
    BY <1>1, <1>7, <2>1, ToPlace DEF Goes
  <2>3. lapse \cap {"direct", "late"} # {}
    BY <1>7 DEF out, TasksInv, OutputInv, Validate
  <2>4. taken' = [taken EXCEPT ![at.occ] = T("again", NoValue)]
    BY <1>7 DEF Record, T
  <2>5. PICK t : t = T("again", NoValue)
    OBVIOUS
  <2>6. t \in Takings /\ t.outcome = "again" /\ t.feedback = report[r].text /\ t.output = 0
    BY <1>3, <1>4, <2>5
  <2>7. at'.node # "end"
    BY <1>1, <1>7, <2>1 DEF To, Places
  <2> QED
    BY <1>7, <2>2, <2>3, <2>4, <2>5, <2>6, <2>7
<1>8. CASE /\ report[r].outcome = "needs_human" /\ out # Bad
           /\ at' = End
           /\ Record(r, "needs_human", NoValue)
           /\ UNCHANGED lapse
  <2>1. Goes
    BY <1>1, <1>8, EndPlace DEF Goes
  <2>2. taken' = [taken EXCEPT ![at.occ] = T("needs_human", NoValue)]
    BY <1>8 DEF Record, T
  <2>3. PICK t : t = T("needs_human", NoValue)
    OBVIOUS
  <2>4. /\ t \in Takings /\ t.outcome = "needs_human" /\ t.value = NoValue
        /\ t.feedback = report[r].text /\ t.output = 0
    BY <1>3, <1>4, <2>3
  <2> QED
    BY <1>8, <2>1, <2>2, <2>3, <2>4
<1>9. CASE /\ at.node = "implement" /\ report[r].outcome \in {"done", "stuck"}
           /\ at' = To(IF report[r].outcome = "done" THEN "check" ELSE "plan")
           /\ Record(r, report[r].outcome, NoValue)
           /\ UNCHANGED lapse
  <2>1. at'.occ = at.occ + 1
    BY <1>1, <1>9 DEF To, Places
  <2>2. PICK node \in {"check", "plan"} : at' = To(node)
    BY <1>9
  <2>3. at' \in Places /\ at'.node = node
    BY <1>1, <2>1, <2>2, ToPlace
  <2>4. taken' = [taken EXCEPT ![at.occ] = T(report[r].outcome, NoValue)]
    BY <1>9 DEF Record, T
  <2>5. Goes /\ at'.node # "end"
    BY <2>1, <2>3 DEF Goes
  <2>6. PICK t : t = T(report[r].outcome, NoValue)
    OBVIOUS
  <2>7. /\ t \in Takings /\ t.outcome = report[r].outcome /\ t.value = NoValue
        /\ t.feedback = report[r].text /\ t.output = 0
    <3>1. report[r].outcome \in {"done", "again", "needs_human", "stuck"}
      BY <1>9
    <3> QED
      BY <1>3, <1>4, <2>6, <3>1
  <2>8. t.outcome # "again" /\ t.outcome # "none"
    BY <1>9, <2>7
  <2> QED
    BY <1>9, <2>4, <2>5, <2>6, <2>7, <2>8
<1> QED
  BY <1>5, <1>6, <1>7, <1>8, <1>9 DEF EngineTakes

\* A plan that keeps the numbers of what is committed: what is done in it has been committed as it is
\* written, and what is left has not, unless as another step that is written alike.
LEMMA NewItems ==
    ASSUME TasksInv, NEW plan \in Plans, "renumbered" \notin lapse, KeepsNumbers(plan),
           NEW items, items = StepItems(plan), NEW i \in 1..Len(plan)
    PROVE  /\ items[i].done => [key |-> items[i].key, what |-> items[i].what] \in really
           /\ ~items[i].done => \A d \in really : d.what = items[i].what => AnotherAlike(items, i, d)
<1>1. /\ Len(items) = Len(plan)
      /\ \A j \in 1..Len(plan) :
           /\ plan[j] \in PlanSteps /\ items[j].key = StepKey(plan, j) /\ items[j].what = plan[j].what
           /\ items[j].done <=> StepKey(plan, j) \in committed
  BY ItemsOf
<1>2. committed = {d.key : d \in really} /\ really \subseteq [key : Int, what : STRING]
  BY DEF TasksInv, TasksTypes
<1>3. \A d \in really : d.key \in committed /\ d = [key |-> d.key, what |-> d.what]
  BY <1>2
<1>4. ASSUME NEW d \in really, NEW j \in 1..Len(plan)
      PROVE  StepKey(plan, j) = plan[j].number /\ (plan[j].number = d.key => plan[j].what = d.what)
  <2>1. plan[j].number # 0
    BY <1>3, <1>4 DEF KeepsNumbers
  <2> QED
    BY <1>4, <2>1 DEF StepKey, KeepsNumbers
<1>5. ASSUME items[i].done PROVE [key |-> items[i].key, what |-> items[i].what] \in really
  <2>1. PICK d \in really : d.key = StepKey(plan, i)
    BY <1>1, <1>2, <1>5
  <2>2. items[i].key = d.key /\ items[i].what = d.what
    BY <1>1, <1>4, <2>1
  <2> QED
    BY <1>3, <2>2
<1>6. ASSUME ~items[i].done, NEW d \in really, d.what = items[i].what PROVE AnotherAlike(items, i, d)
  <2>1. \E j \in 1..Len(plan) : plan[j].what = d.what
    BY <1>1, <1>6
  <2>2. PICK j \in 1..Len(plan) : plan[j].number = d.key
    BY <2>1, <1>6 DEF KeepsNumbers
  <2>3. items[j].key = d.key /\ items[j].what = d.what /\ items[j].done
    BY <1>1, <1>3, <1>4, <2>2
  <2>4. j # i
    BY <1>6, <2>3
  <2> QED
    BY <1>1, <1>3, <2>3, <2>4 DEF AnotherAlike
<1> QED
  BY <1>5, <1>6

LEMMA EngineTakesItems ==
    ASSUME TasksInv, NEW r \in Reports, InHandNow(r), EngineTakes(r), at'.occ \in Occs, UNCHANGED <<vm, given, really>>
    PROVE  ItemsInv'
<1> DEFINE out == vm.out[at.occ]
<1>1. /\ at \in Places /\ at.occ \in Nat /\ at.node \in Agents /\ vm.has = at.occ
  BY TasksAssumption DEF TasksInv, TasksTypes, PlaceInv, WaitingAgent, Places, Occs
<1>2. ReadOutput(at.occ) = out
  BY DEF ReadOutput
<1> HIDE DEF out
<1>3. CASE /\ at.node = "plan" /\ report[r].outcome = "done" /\ Validate(out)
           /\ at' = [Step(StepItems(out), 0) EXCEPT !.plan = out]
           /\ lapse' = IF KeepsNumbers(out) THEN lapse ELSE lapse \cup {"renumbered"}
  <2>0. out \in Plans
    BY <1>3 DEF Validate
  <2> PICK items : items = StepItems(out)
    OBVIOUS
  <2>1. /\ items \in Seq(Items) /\ Len(items) = Len(out) /\ Len(out) \in Nat
        /\ \A i \in 1..Len(out) : items[i].what = out[i].what
    BY <2>0, ItemsOf
  <2>2. PICK p : p = Step(items, 0)
    OBVIOUS
  <2>3. at' = [p EXCEPT !.plan = out]
    BY <1>3, <2>2
  <2>4. "occ" \in DOMAIN p /\ at'.occ = p.occ
    BY <1>1, <2>2, <2>3 DEF Step, End, To, Places
  <2>5. /\ p \in Places /\ p.items = items
        /\ \/ p.node = "end" /\ p.occ = at.occ
           \/ /\ p.node = "implement" /\ p.occ = at.occ + 1
              /\ p.item \in 1..Len(items) /\ ~items[p.item].done
    BY <1>1, <2>1, <2>2, <2>4, StepPlace
  <2>6. at'.node = p.node /\ at'.items = items /\ at'.item = p.item
    BY <2>3, <2>5 DEF Places
  <2>7. ASSUME "renumbered" \notin lapse', NEW i \in 1..Len(items)
        PROVE  /\ items[i].done => [key |-> items[i].key, what |-> items[i].what] \in really
               /\ ~items[i].done => \A d \in really : d.what = items[i].what => AnotherAlike(items, i, d)
    <3>1. "renumbered" \notin lapse /\ KeepsNumbers(out)
      BY <1>3, <2>7
    <3> QED
      BY <2>0, <2>1, <3>1, NewItems
  <2>8. \A i \in p.item..Len(items) : p.node = "implement" => i \in 1..Len(items)
    BY <2>1, <2>5
  <2>9. at'.node # "check" /\ (at'.node = "implement" => vm'.has # at'.occ)
    BY <1>1, <2>4, <2>5, <2>6
  <2> QED
    BY <2>5, <2>6, <2>7, <2>8, <2>9 DEF ItemsInv
<1>4. CASE at' = End /\ UNCHANGED lapse
  <2>1. at'.node = "end" /\ at'.items = at.items
    BY <1>1, <1>4, EndPlace
  <2> QED
    BY <1>4, <2>1 DEF TasksInv, ItemsInv
<1>5. CASE at' = To("plan") /\ UNCHANGED lapse
  <2>1. at'.occ = at.occ + 1
    BY <1>1, <1>5 DEF To, Places
  <2>2. at'.node = "plan" /\ at'.items = at.items
    BY <1>1, <1>5, <2>1, ToPlace
  <2> QED
    BY <1>5, <2>2 DEF TasksInv, ItemsInv
<1>6. CASE at.node = "implement" /\ at' = To("check") /\ UNCHANGED lapse
  <2>1. at'.occ = at.occ + 1
    BY <1>1, <1>6 DEF To, Places
  <2>2. at'.node = "check" /\ at'.items = at.items /\ at'.item = at.item
    BY <1>1, <1>6, <2>1, ToPlace
  <2> QED
    BY <1>1, <1>6, <2>2 DEF TasksInv, ItemsInv
<1> QED
  BY <1>2, <1>3, <1>4, <1>5, <1>6 DEF EngineTakes

LEMMA ReportEngineStep == ASSUME TasksInv, NEW r \in Reports, ReportEngine(r) PROVE TasksInv'
<1>1. /\ report[r].at = "fed"
      /\ mu' = (IF report[r].gen = gen THEN "nobody" ELSE mu)
      /\ UNCHANGED <<committed, really, write, loop, kicked, endFeedback, shown, kept, vm, gen, given, accepted>>
  BY DEF ReportEngine, loopVars
<1>2. report[r] \in ReportStates /\ report[r].occ \in Occs
  BY <1>1 DEF TasksInv, TasksTypes, PlaceInv
<1>3. ASSUME NEW state \in {"refused", "accepted"}, report' = [report EXCEPT ![r].at = state]
      PROVE  /\ report' \in [Reports -> ReportStates] /\ report'[r].at = state
             /\ \A q \in Reports :
                  /\ q # r => report'[q] = report[q]
                  /\ report'[q].occ = report[q].occ /\ report'[q].gen = report[q].gen
                  /\ report'[q].outcome = report[q].outcome /\ report'[q].text = report[q].text
                  /\ InHandNow(q)' => InHandNow(q) /\ q # r
  <2> DEFINE new == [report[r] EXCEPT !.at = state]
  <2>1. new \in ReportStates /\ new.at = state /\ new.occ = report[r].occ /\ new.outcome = report[r].outcome
        /\ new.text = report[r].text /\ new.gen = report[r].gen
    BY <1>2 DEF ReportStates
  <2> HIDE DEF new
  <2>2. report' = [report EXCEPT ![r] = new]
    BY <1>3 DEF new
  <2> QED
    BY <1>1, <2>1, <2>2, ReportIsAt DEF TasksInv, InHandNow
<1>4. ASSUME InHandNow(r)
      PROVE  /\ mu = "report" /\ mu' = "nobody" /\ WaitingAgent /\ report[r].occ = at.occ
             /\ at.node \in Agents /\ at.node # "end" /\ at.node # "check" /\ loop.at = "idle"
             /\ \A q \in Reports : InHandNow(q) => q = r
  <2>1. mu = "report" /\ WaitingAgent /\ report[r].occ = at.occ /\ \A q \in Reports : InHandNow(q) => q = r
    BY <1>4 DEF TasksInv, PlaceInv
  <2>2. at.node \in Agents /\ at.node # "end" /\ at.node # "check"
    BY <2>1 DEF WaitingAgent, Agents
  <2>3. loop.at \in {"idle", "running", "ran", "seen"}
    BY DEF TasksInv, TasksTypes
  <2>4. loop.at = "idle"
    BY <2>1, <2>2, <2>3 DEF TasksInv, PlaceInv
  <2> QED
    BY <1>1, <1>4, <2>1, <2>2, <2>4 DEF InHandNow
<1>5. CASE EngineRefuses(r)
  <2>1. report' = [report EXCEPT ![r].at = "refused"] /\ UNCHANGED <<at, taken, lapse>>
    BY <1>5 DEF ReportEngine
  <2>2. /\ report' \in [Reports -> ReportStates] /\ report'[r].at = "refused"
        /\ \A q \in Reports :
                  /\ q # r => report'[q] = report[q]
                  /\ report'[q].occ = report[q].occ /\ report'[q].gen = report[q].gen
                  /\ report'[q].outcome = report[q].outcome /\ report'[q].text = report[q].text
                  /\ InHandNow(q)' => InHandNow(q) /\ q # r
    BY <1>3, <2>1
  <2>3. \A q \in Reports : report'[q].at # "idle" => report[q].at # "idle"
    BY <1>1, <2>2
  <2>4. \A q \in Reports : report'[q].at = "accepted" <=> report[q].at = "accepted"
    BY <1>1, <2>2
  <2>5. \A q \in Reports : /\ report'[q].at \in {"fed", "refused"} <=> report[q].at \in {"fed", "refused"}
                           /\ report'[q].at \in {"checked", "fed", "refused"} <=> report[q].at \in {"checked", "fed", "refused"}
    BY <1>1, <2>2
  <2>6. TasksTypes'
    BY <1>1, <2>1, <2>2 DEF TasksInv, TasksTypes
  <2>7. ASSUME NEW q \in Reports, InHandNow(q)'
        PROVE  /\ mu' = "report" /\ WaitingAgent' /\ report'[q].occ = at.occ
               /\ \A p \in Reports : InHandNow(p)' => p = q
    <3>1. InHandNow(q) /\ q # r
      BY <2>2, <2>7
    <3>2. ~InHandNow(r)
      BY <1>4, <3>1
    <3>3. mu' = mu
      BY <1>1, <3>2 DEF InHandNow
    <3> QED
      BY <1>1, <2>1, <2>2, <3>1, <3>3 DEF TasksInv, PlaceInv, WaitingAgent
  <2>8. mu' = "loop" <=> mu = "loop"
    BY <1>1, <1>4 DEF InHandNow
  <2>9. PlaceInv'
    BY <1>1, <2>1, <2>2, <2>3, <2>4, <2>7, <2>8 DEF TasksInv, PlaceInv
  <2>10. OutputInv'
    BY <1>1, <2>1, <2>2 DEF TasksInv, OutputInv
  <2>11. KeptInv'
    BY <1>1, <2>1, <2>2, <2>3, <2>5 DEF TasksInv, KeptInv
  <2>12. EndInv'
    <3>1. EndOutcome' = EndOutcome
      BY <2>1 DEF EndOutcome
    <3> QED
      BY <1>1, <2>1, <2>2, <2>4, <3>1 DEF TasksInv, EndInv
  <2> QED
    BY <1>1, <2>1, <2>6, <2>9, <2>10, <2>11, <2>12, EngineIsLeft DEF TasksInv
<1>6. CASE ~EngineRefuses(r)
  <2>1. report' = [report EXCEPT ![r].at = "accepted"] /\ EngineTakes(r) /\ at'.occ \in Occs
    BY <1>6 DEF ReportEngine
  <2>2. InHandNow(r) /\ report[r].outcome \in Outcomes
    BY <1>1, <1>6 DEF EngineRefuses, InHandNow
  <2>3. /\ report' \in [Reports -> ReportStates] /\ report'[r].at = "accepted"
        /\ \A q \in Reports :
                  /\ q # r => report'[q] = report[q]
                  /\ report'[q].occ = report[q].occ /\ report'[q].gen = report[q].gen
                  /\ report'[q].outcome = report[q].outcome /\ report'[q].text = report[q].text
                  /\ InHandNow(q)' => InHandNow(q) /\ q # r
    BY <1>3, <2>1
  <2>4. \A q \in Reports : ~InHandNow(q)'
    BY <1>4, <2>2, <2>3
  <2>5. Goes /\ lapse \subseteq lapse' /\ lapse' \subseteq lapse \cup {"renumbered"}
    BY <2>1, <2>2, EngineTakesWhat
  <2>6. PICK t \in Takings :
                /\ taken' = [taken EXCEPT ![at.occ] = t]
                /\ t.outcome # "none" /\ t.feedback = report[r].text /\ t.output = 0
                /\ at'.node = "end" => t.outcome \in {"done", "needs_human"}
                /\ lapse \cap {"direct", "late"} = {} =>
                     t.outcome # "again" /\ (t.value # NoValue => t.value = accepted[at.occ])
    BY <2>1, <2>2, EngineTakesWhat
  <2>7. /\ at.occ \in Occs /\ at.occ \in Nat /\ at'.occ \in Occs /\ at'.occ \in Nat /\ taken[at.occ] = NotTaken
        /\ at.occ <= at'.occ /\ taken'[at.occ] = t /\ t # NotTaken
        /\ taken' \in [Occs -> Takings] /\ \A o \in Occs : o # at.occ => taken'[o] = taken[o]
        /\ \A o \in Occs : taken'[o] = NotTaken <=> (o > at'.occ \/ (o = at'.occ /\ at'.node # "end"))
    BY <1>4, <2>2, <2>5, <2>6, OverNow
  <2>8. /\ mu' = "nobody" /\ report[r].occ = at.occ /\ loop.at = "idle" /\ at.node # "end" /\ at.node # "check"
    BY <1>4, <2>2
  <2>9. TasksTypes'
    BY <1>1, <2>3, <2>5, <2>7 DEF TasksInv, TasksTypes, Goes
  <2>10. PlaceInv'
    <3>1. vm.has <= at'.occ /\ vm.has \in Nat
      BY <2>7, TasksAssumption DEF TasksInv, TasksTypes, PlaceInv
    <3>2. ASSUME NEW q \in Reports
          PROVE  /\ report'[q].gen <= gen
                 /\ report'[q].at # "idle" => report'[q].occ \in Occs /\ report'[q].occ <= at'.occ
                                              /\ (report'[q].occ = at'.occ => at'.node # "check")
                 /\ report'[q].at = "accepted" => taken'[report'[q].occ] # NotTaken
      <4>1. report'[q].at # "idle" => report[q].occ \in Occs /\ report[q].occ \in Nat /\ report[q].occ <= at.occ
        BY <1>1, <2>3 DEF TasksInv, PlaceInv, Occs
      <4>2. report'[q].at # "idle" => report'[q].occ <= at'.occ /\ (report'[q].occ = at'.occ => at'.node # "check")
        BY <2>3, <2>5, <2>7, <4>1 DEF Goes
      <4>3. report'[q].at = "accepted" => taken'[report'[q].occ] # NotTaken
        BY <2>3, <2>7, <2>8 DEF TasksInv, PlaceInv
      <4> QED
        BY <2>3, <4>1, <4>2, <4>3 DEF TasksInv, PlaceInv
    <3>3. write.at = "checked" => write.occ \in Occs /\ write.occ <= at'.occ
      BY <2>7 DEF TasksInv, PlaceInv, Occs
    <3>4. mu' # "loop" /\ loop'.at = "idle"
      BY <1>1, <2>8
    <3> QED
      BY <1>1, <2>4, <2>7, <3>1, <3>2, <3>3, <3>4 DEF PlaceInv
  <2>11. OutputInv'
    <3> SUFFICES ASSUME lapse' \cap {"direct", "late"} = {} PROVE OutputInv'
      BY DEF OutputInv
    <3>1. lapse \cap {"direct", "late"} = {}
      BY <2>5
    <3>2. ASSUME NEW o \in Occs
          PROVE  /\ taken'[o].outcome # "again"
                 /\ taken'[o].value # NoValue => taken'[o].value = accepted[o]
                 /\ vm.out[o] \in Plans \cup {NoValue}
                 /\ taken'[o] = NotTaken => vm.out[o] = accepted[o]
                 /\ o > at'.occ => accepted[o] = NoValue
      <4>1. o > at'.occ => o > at.occ
        BY <2>7 DEF Occs
      <4> QED
        BY <2>6, <2>7, <3>1, <4>1 DEF TasksInv, OutputInv
    <3>3. write.at = "checked" => write.value \in Plans
      BY <3>1 DEF TasksInv, OutputInv
    <3> QED
      BY <1>1, <2>4, <3>2, <3>3 DEF OutputInv
  <2>12. KeptInv'
    <3> SUFFICES ASSUME lapse' \cap {"twice", "cut"} = {} PROVE KeptInv'
      BY DEF KeptInv
    <3>1. lapse \cap {"twice", "cut"} = {}
      BY <2>5
    <3>2. /\ kept[at.occ].feedback = report[r].text /\ kept[at.occ].output = 0
          /\ \A q \in Reports : q # r /\ report[q].at # "idle" => report[q].occ # at.occ
      BY <1>1, <2>7, <2>8, <3>1 DEF TasksInv, KeptInv
    <3>3. kept[at.occ] = [feedback |-> t.feedback, output |-> t.output]
      BY <2>6, <2>7, <3>2 DEF TasksInv, TasksTypes
    <3>4. ASSUME NEW o \in Occs
          PROVE  /\ taken'[o] # NotTaken => kept[o] = [feedback |-> taken'[o].feedback, output |-> taken'[o].output]
                 /\ taken'[o] = NotTaken => kept[o].output = 0
                 /\ taken'[o] = NotTaken
                      /\ (\A q \in Reports : report'[q].at \in {"fed", "refused"} => report'[q].occ # o)
                      => kept[o].feedback = 0
      <4>1. CASE o = at.occ
        BY <2>7, <3>3, <4>1
      <4>2. CASE o # at.occ
        BY <2>3, <2>7, <2>8, <3>1, <4>2 DEF TasksInv, KeptInv
      <4> QED
        BY <4>1, <4>2
    <3>5. ASSUME NEW p \in Reports
          PROVE  /\ report'[p].at \in {"checked", "fed", "refused"} => taken'[report'[p].occ] = NotTaken
                 /\ report'[p].at \in {"fed", "refused"} => kept[report'[p].occ].feedback = report'[p].text
                 /\ \A q \in Reports : report'[p].at # "idle" /\ report'[q].at # "idle"
                                       /\ report'[p].occ = report'[q].occ => p = q
      <4>1. \A q \in Reports : report'[q].at # "idle" => report[q].at # "idle"
        BY <1>1, <2>3
      <4>2. \A q \in Reports : report'[p].at # "idle" /\ report'[q].at # "idle" /\ report'[p].occ = report'[q].occ => p = q
        BY <2>3, <3>1, <4>1 DEF TasksInv, KeptInv
      <4>3. CASE p = r
        BY <2>3, <4>2, <4>3
      <4>4. CASE p # r
        <5>1. report[p].at # "idle" => report[p].occ \in Occs /\ report[p].occ # at.occ
          BY <3>2, <4>4 DEF TasksInv, PlaceInv
        <5> QED
          BY <2>3, <2>7, <3>1, <4>2, <4>4, <5>1 DEF TasksInv, KeptInv
      <4> QED
        BY <4>3, <4>4
    <3> QED
      BY <1>1, <2>8, <3>4, <3>5 DEF KeptInv
  <2>13. EndInv'
    <3>1. ~shown.done /\ shown.reason = 0
      BY <2>8 DEF TasksInv, EndInv
    <3>2. ASSUME at'.node = "end", NEW q \in Reports, report'[q].at = "accepted", report'[q].occ = at'.occ
          PROVE  report'[q].gen = gen /\ report'[q].text = taken'[at'.occ].feedback
      <4>1. at'.occ = at.occ
        BY <2>5, <3>2 DEF Goes
      <4>2. q = r
        BY <2>3, <2>7, <3>2, <4>1 DEF TasksInv, PlaceInv
      <4> QED
        BY <2>2, <2>3, <2>6, <2>7, <4>1, <4>2 DEF InHandNow
    <3>3. at'.node = "end" => report'[r].at = "accepted" /\ report'[r].occ = at'.occ
      BY <2>3, <2>5, <2>8 DEF Goes
    <3> QED
      BY <1>1, <3>1, <3>2, <3>3 DEF EndInv
  <2>14. ItemsInv'
    BY <1>1, <2>1, <2>2, EngineTakesItems
  <2> QED
    BY <2>9, <2>10, <2>11, <2>12, <2>13, <2>14 DEF TasksInv
<1> QED
  BY <1>5, <1>6

\* A report that has come back: what it left for the engine is taken back, or it is noted.
LEMMA ReportReturnsStep == ASSUME TasksInv, NEW r \in Reports, ReportReturns(r) PROVE TasksInv'
<1>1. /\ report[r].at \in {"refused", "accepted"} /\ report' = [report EXCEPT ![r] = NoReport]
      /\ lapse' = (IF Crosses(r) THEN lapse \cup {"crossed"} ELSE lapse)
      /\ UNCHANGED <<at, taken, committed, really, mu, write, loop, shown, vm, gen, given, accepted>>
  BY DEF ReportReturns, workflowVars
<1>2. report[r] \in ReportStates /\ report[r].occ \in Occs /\ report[r].text \in Nat
  BY <1>1 DEF TasksInv, TasksTypes, PlaceInv, ReportStates
<1>3. NoReport \in ReportStates /\ NoReport.at = "idle" /\ NoReport.gen = 0
  BY TasksAssumption DEF NoReport, ReportStates
<1>4. /\ report' \in [Reports -> ReportStates] /\ report'[r].at = "idle" /\ report'[r].gen = 0
      /\ \A q \in Reports : q # r => report'[q] = report[q]
  BY <1>1, <1>3, ReportIsAt DEF TasksInv
<1>5. lapse \subseteq lapse'
  BY <1>1
<1>6. \A q \in Reports : /\ InHandNow(q)' <=> InHandNow(q)
                         /\ report'[q].at # "idle" => report[q].at # "idle" /\ q # r
  BY <1>1, <1>4 DEF InHandNow
<1>7. PlaceInv'
  <2>1. ASSUME NEW q \in Reports
        PROVE  /\ report'[q].gen <= gen
               /\ report'[q].at # "idle" => report'[q].occ \in Occs /\ report'[q].occ <= at.occ
                                            /\ (report'[q].occ = at.occ => at.node # "check")
               /\ report'[q].at = "accepted" => taken[report'[q].occ] # NotTaken
    <3>1. CASE q = r
      <4>1. gen \in Nat
        BY DEF TasksInv, TasksTypes
      <4> QED
        BY <1>4, <3>1, <4>1
    <3>2. CASE q # r
      BY <1>4, <3>2 DEF TasksInv, PlaceInv
    <3> QED
      BY <3>1, <3>2
  <2>2. ASSUME NEW q \in Reports, InHandNow(q)'
        PROVE  /\ mu = "report" /\ WaitingAgent' /\ report'[q].occ = at.occ
               /\ \A p \in Reports : InHandNow(p)' => p = q
    <3>1. InHandNow(q) /\ q # r /\ report'[q] = report[q]
      BY <1>1, <1>4, <1>6, <2>2 DEF InHandNow
    <3> QED
      BY <1>1, <1>6, <3>1 DEF TasksInv, PlaceInv, WaitingAgent
  <2> QED
    BY <1>1, <2>1, <2>2 DEF TasksInv, PlaceInv
<1>8. OutputInv'
  <2> SUFFICES ASSUME lapse \cap {"direct", "late"} = {} PROVE OutputInv'
    BY <1>5 DEF OutputInv
  <2>1. \A q \in Reports : InHandNow(q)' => InHandNow(q) /\ report'[q].outcome = report[q].outcome
    BY <1>4, <1>6 DEF InHandNow
  <2> QED
    BY <1>1, <2>1 DEF TasksInv, OutputInv
<1>9. CASE report[r].at = "refused"
  <2>1. kept' = [kept EXCEPT ![report[r].occ].feedback = 0] /\ UNCHANGED <<endFeedback, kicked, lapse>>
    BY <1>1, <1>9 DEF ReportReturns, RemoveFeedback, Crosses
  <2>2. /\ kept' \in [Occs -> [feedback : Nat, output : Nat]]
        /\ \A o \in Occs : o # report[r].occ => kept'[o] = kept[o]
        /\ kept'[report[r].occ].output = kept[report[r].occ].output /\ kept'[report[r].occ].feedback = 0
    BY <1>2, <2>1 DEF TasksInv, TasksTypes
  <2>3. TasksTypes'
    BY <1>1, <1>4, <2>1, <2>2 DEF TasksInv, TasksTypes
  <2>4. KeptInv'
    <3> SUFFICES ASSUME lapse \cap {"twice", "cut"} = {} PROVE KeptInv'
      BY <2>1 DEF KeptInv
    <3>0. lapse \cap {"twice", "cut"} = {}
      OBVIOUS
    <3>1. /\ taken[report[r].occ] = NotTaken
          /\ \A q \in Reports : q # r /\ report[q].at # "idle" => report[q].occ # report[r].occ
      BY <1>1, <1>9 DEF TasksInv, KeptInv
    <3>2. ASSUME NEW o \in Occs
          PROVE  /\ taken[o] # NotTaken => kept'[o] = [feedback |-> taken[o].feedback, output |-> taken[o].output]
                 /\ taken[o] = NotTaken => kept'[o].output = IF loop.at = "ran" /\ o = at.occ THEN loop.output ELSE 0
                 /\ taken[o] = NotTaken /\ (\A q \in Reports : report'[q].at \in {"fed", "refused"} => report'[q].occ # o)
                      => kept'[o].feedback = 0
      <4>1. CASE o = report[r].occ
        BY <2>2, <3>1, <4>1 DEF TasksInv, KeptInv
      <4>2. CASE o # report[r].occ
        <5>1. kept'[o] = kept[o]
          BY <2>2, <4>2
        <5>2. (\A q \in Reports : report'[q].at \in {"fed", "refused"} => report'[q].occ # o)
              => \A q \in Reports : report[q].at \in {"fed", "refused"} => report[q].occ # o
          BY <1>4, <4>2
        <5> QED
          BY <3>0, <5>1, <5>2 DEF TasksInv, KeptInv
      <4> QED
        BY <4>1, <4>2
    <3>3. ASSUME NEW p \in Reports
          PROVE  /\ report'[p].at \in {"checked", "fed", "refused"} => taken[report'[p].occ] = NotTaken
                 /\ report'[p].at \in {"fed", "refused"} => kept'[report'[p].occ].feedback = report'[p].text
                 /\ \A q \in Reports : report'[p].at # "idle" /\ report'[q].at # "idle"
                                       /\ report'[p].occ = report'[q].occ => p = q
      <4>1. CASE p = r
        BY <1>4, <4>1
      <4>2. CASE p # r
        <5>1. report[p].at \in {"fed", "refused"} => report[p].occ \in Occs /\ report[p].occ # report[r].occ
          BY <3>1, <4>2 DEF TasksInv, PlaceInv
        <5> QED
          BY <1>4, <2>2, <4>2, <5>1 DEF TasksInv, KeptInv
      <4> QED
        BY <4>1, <4>2
    <3> QED
      BY <1>1, <3>2, <3>3 DEF KeptInv
  <2>5. EndInv'
    <3>1. EndOutcome' = EndOutcome
      BY <1>1 DEF EndOutcome
    <3>2. \A q \in Reports : report'[q].at = "accepted" <=> report[q].at = "accepted"
      BY <1>4, <1>9
    <3>3. \A q \in Reports : report[q].at = "accepted" => report'[q] = report[q]
      BY <1>4, <1>9
    <3> QED
      BY <1>1, <2>1, <3>1, <3>2, <3>3 DEF TasksInv, EndInv
  <2> QED
    BY <1>1, <1>5, <1>7, <1>8, <2>3, <2>4, <2>5, EngineIsLeft DEF TasksInv
<1>10. CASE report[r].at = "accepted"
  <2>1. endFeedback' = Noted(r) /\ kicked' = (kicked \/ report[r].gen = gen) /\ UNCHANGED kept
    BY <1>10 DEF ReportReturns
  <2>2. TasksTypes'
    BY <1>1, <1>2, <1>4, <2>1 DEF TasksInv, TasksTypes, Noted
  <2>3. KeptInv'
    <3> SUFFICES ASSUME lapse \cap {"twice", "cut"} = {} PROVE KeptInv'
      BY <1>5 DEF KeptInv
    <3>1. \A q \in Reports : report[q].at \in {"checked", "fed", "refused"} => report'[q] = report[q]
      BY <1>4, <1>10
    <3> QED
      BY <1>1, <1>4, <2>1, <3>1 DEF TasksInv, KeptInv
  <2>4. EndInv'
    <3>1. EndOutcome' = EndOutcome
      BY <1>1 DEF EndOutcome
    <3>2. \A q \in Reports : report'[q].at = "accepted" => report[q].at = "accepted" /\ report'[q] = report[q]
      BY <1>4
    <3>3. ASSUME lapse' \cap {"early", "crossed", "cut"} = {}, at.node = "end", EndOutcome # "done"
          PROVE  /\ taken[at.occ].feedback = 0 => shown.reason = 0
                 /\ \A q \in Reports : report'[q].at = "accepted" /\ report'[q].occ = at.occ
                      => report'[q].gen = gen /\ report'[q].text = taken[at.occ].feedback
                 /\ (\A q \in Reports : report'[q].at = "accepted" => report'[q].occ # at.occ)
                      => /\ endFeedback' = taken[at.occ].feedback
                         /\ kicked' \/ loop.at = "seen" \/ ~shown.done \/ shown.reason = taken[at.occ].feedback
      <4>1. /\ taken[at.occ].feedback = 0 => shown.reason = 0
            /\ \A q \in Reports : report[q].at = "accepted" /\ report[q].occ = at.occ
                 => report[q].gen = gen /\ report[q].text = taken[at.occ].feedback
            /\ (\A q \in Reports : report[q].at = "accepted" => report[q].occ # at.occ)
                 => /\ endFeedback = taken[at.occ].feedback
                    /\ kicked \/ loop.at = "seen" \/ ~shown.done \/ shown.reason = taken[at.occ].feedback
        BY <1>5, <3>3 DEF TasksInv, EndInv
      <4>2. CASE report[r].occ = at.occ
        BY <1>10, <2>1, <3>2, <4>1, <4>2 DEF Noted
      <4>3. CASE report[r].occ # at.occ /\ report[r].gen # gen
        <5>1. endFeedback' = endFeedback /\ kicked' = kicked
          BY <2>1, <4>3 DEF Noted, TasksInv, TasksTypes
        <5>2. (\A q \in Reports : report'[q].at = "accepted" => report'[q].occ # at.occ)
              => \A q \in Reports : report[q].at = "accepted" => report[q].occ # at.occ
          BY <1>4, <4>3
        <5> QED
          BY <3>2, <4>1, <5>1, <5>2
      <4>4. CASE report[r].occ # at.occ /\ report[r].gen = gen
        <5>1. at.occ \in Occs /\ at.occ > report[r].occ
          <6>1. at.occ \in Occs /\ report[r].occ <= at.occ
            BY <1>10 DEF TasksInv, TasksTypes, PlaceInv, Places
          <6> QED
            BY <1>2, <4>4, <6>1 DEF Occs
        <5>2. taken[at.occ].outcome = "needs_human"
          BY <3>3 DEF EndOutcome
        <5>3. ~Crosses(r)
          BY <1>1, <3>3
        <5>4. \E q \in Reports : report[q].occ = at.occ /\ report[q].at = "accepted"
          BY <1>10, <4>4, <5>1, <5>2, <5>3 DEF Crosses
        <5>5. \E q \in Reports : report'[q].occ = at.occ /\ report'[q].at = "accepted"
          BY <1>4, <4>4, <5>4
        <5> QED
          BY <3>2, <4>1, <5>5
      <4> QED
        BY <4>2, <4>3, <4>4
    <3> QED
      BY <1>1, <3>1, <3>3 DEF TasksInv, EndInv
  <2> QED
    BY <1>1, <1>5, <1>7, <1>8, <2>2, <2>3, <2>4, EngineIsLeft DEF TasksInv
<1> QED
  BY <1>1, <1>9, <1>10

\* The loop takes mu only where no report is in hand.
LEMMA NoneInHand == ASSUME TasksInv, mu # "report" PROVE \A r \in Reports : ~InHandNow(r)
  BY DEF TasksInv, PlaceInv

LEMMA NoRunIs ==
    /\ NoRun \in [at : {"idle", "running", "ran", "seen"}, passed : BOOLEAN, output : Nat]
    /\ NoRun.at = "idle" /\ NoRun.passed = FALSE
  BY DEF NoRun

LEMMA RunCommandStep == ASSUME TasksInv, RunCommand PROVE TasksInv'
<1>1. /\ loop.at = "idle" /\ mu = "nobody" /\ at.node = "check" /\ mu' = "loop" /\ kicked' = FALSE
      /\ loop' = [loop EXCEPT !.at = "running"]
      /\ UNCHANGED <<at, taken, committed, really, write, report, endFeedback, shown, kept, vm, gen, given, accepted, lapse>>
  BY DEF RunCommand, workflowVars
<1>2. /\ loop' \in [at : {"idle", "running", "ran", "seen"}, passed : BOOLEAN, output : Nat] /\ loop'.at = "running"
  BY <1>1 DEF TasksInv, TasksTypes
<1>3. TasksTypes'
  BY <1>1, <1>2 DEF TasksInv, TasksTypes
<1>4. \A r \in Reports : ~InHandNow(r)'
  BY <1>1, NoneInHand DEF InHandNow
<1>5. PlaceInv'
  BY <1>1, <1>2, <1>4 DEF TasksInv, PlaceInv
<1>6. KeptInv' /\ EndInv'
  BY <1>1, <1>2 DEF TasksInv, KeptInv, EndInv
<1> QED
  BY <1>1, <1>3, <1>5, <1>6, EngineIsLeft DEF TasksInv

LEMMA CommandLostStep == ASSUME TasksInv, CommandLost PROVE TasksInv'
<1>1. /\ loop.at = "running" /\ loop' = NoRun /\ mu' = "nobody"
      /\ UNCHANGED <<at, taken, committed, really, write, report, kicked, endFeedback, shown, kept, vm, gen, given,
                     accepted, lapse>>
  BY DEF CommandLost, workflowVars
<1>2. mu = "loop" /\ at.node = "check"
  BY <1>1 DEF TasksInv, PlaceInv
<1>3. TasksTypes'
  BY <1>1, NoRunIs DEF TasksInv, TasksTypes
<1>4. \A r \in Reports : ~InHandNow(r)'
  BY <1>1, <1>2, NoneInHand DEF InHandNow
<1>5. PlaceInv'
  BY <1>1, <1>4, NoRunIs DEF TasksInv, PlaceInv
<1>6. KeptInv' /\ EndInv'
  BY <1>1, <1>2, NoRunIs DEF TasksInv, KeptInv, EndInv
<1> QED
  BY <1>1, <1>3, <1>5, <1>6, EngineIsLeft DEF TasksInv

LEMMA CommandEndsStep ==
    ASSUME TasksInv, NEW passed \in BOOLEAN, NEW output \in Nat, CommandEnds(passed, output) PROVE TasksInv'
<1>1. /\ loop.at = "running" /\ loop' = [at |-> "ran", passed |-> passed, output |-> output]
      /\ kept' = (IF output = 0 THEN kept ELSE KeepResult(at.occ, "output", output))
      /\ UNCHANGED <<at, taken, committed, really, mu, write, report, kicked, endFeedback, shown, vm, gen, given,
                     accepted, lapse>>
  BY DEF CommandEnds, workflowVars, callVars
<1>2. mu = "loop" /\ at.node = "check" /\ at.occ \in Occs
  BY <1>1 DEF TasksInv, TasksTypes, PlaceInv, Places
<1>3. taken[at.occ] = NotTaken
  BY <1>2 DEF TasksInv, PlaceInv
<1>4. /\ kept' \in [Occs -> [feedback : Nat, output : Nat]]
      /\ \A o \in Occs : /\ o # at.occ => kept'[o] = kept[o]
                         /\ kept'[o].feedback = kept[o].feedback
      /\ kept'[at.occ].output = IF output = 0 THEN kept[at.occ].output ELSE output
  <2>1. kept \in [Occs -> [feedback : Nat, output : Nat]]
    BY DEF TasksInv, TasksTypes
  <2>2. CASE output = 0
    BY <1>1, <2>1, <2>2
  <2>3. CASE output # 0
    <3>1. kept' = [kept EXCEPT ![at.occ].output = output]
      BY <1>1, <2>3 DEF KeepResult
    <3> QED
      BY <1>2, <2>1, <2>3, <3>1
  <2> QED
    BY <2>2, <2>3
<1>5. loop'.at = "ran" /\ loop'.output = output
  BY <1>1
<1>6. TasksTypes'
  <2>1. loop' \in [at : {"idle", "running", "ran", "seen"}, passed : BOOLEAN, output : Nat]
    BY <1>1
  <2> QED
    BY <1>1, <1>4, <2>1 DEF TasksInv, TasksTypes
<1>7. PlaceInv'
  <2>1. \A r \in Reports : ~InHandNow(r)'
    BY <1>1, <1>2, NoneInHand DEF InHandNow
  <2> QED
    BY <1>1, <1>2, <1>5, <2>1 DEF TasksInv, PlaceInv
<1>8. KeptInv'
  <2> SUFFICES ASSUME lapse \cap {"twice", "cut"} = {} PROVE KeptInv'
    BY <1>1 DEF KeptInv
  <2>1. ASSUME NEW o \in Occs
        PROVE  /\ taken[o] # NotTaken => kept'[o] = [feedback |-> taken[o].feedback, output |-> taken[o].output]
               /\ taken[o] = NotTaken => kept'[o].output = IF o = at.occ THEN output ELSE 0
               /\ taken[o] = NotTaken /\ (\A q \in Reports : report[q].at \in {"fed", "refused"} => report[q].occ # o)
                    => kept'[o].feedback = 0
    <3>1. CASE o = at.occ
      BY <1>1, <1>3, <1>4, <3>1 DEF TasksInv, KeptInv
    <3>2. CASE o # at.occ
      BY <1>4, <3>2 DEF TasksInv, KeptInv
    <3> QED
      BY <3>1, <3>2
  <2>2. \A r \in Reports : report[r].at \in {"fed", "refused"} => kept'[report[r].occ].feedback = report[r].text
    BY <1>4 DEF TasksInv, KeptInv, PlaceInv
  <2> QED
    BY <1>1, <1>5, <2>1, <2>2 DEF TasksInv, KeptInv
<1>9. EndInv'
  BY <1>1, <1>2 DEF TasksInv, EndInv
<1> QED
  BY <1>1, <1>6, <1>7, <1>8, <1>9, EngineIsLeft DEF TasksInv

\* What the check has shown of the step in hand is recorded, and the engine goes on.
LEMMA CommandRecordedStep == ASSUME TasksInv, CommandRecorded PROVE TasksInv'
<1> DEFINE item == at.items[at.item]
           t == [NotTaken EXCEPT !.outcome = IF loop.passed THEN "passed" ELSE "failed", !.output = loop.output]
<1>1. /\ loop.at = "ran" /\ taken' = [taken EXCEPT ![at.occ] = t] /\ at'.occ \in Occs /\ mu' = "nobody"
      /\ loop' = [NoRun EXCEPT !.at = IF at'.node = "end" THEN "seen" ELSE "idle"]
      /\ UNCHANGED <<write, report, kicked, endFeedback, shown, kept, vm, gen, given, accepted, lapse>>
  BY DEF CommandRecorded, Checked
<1>2. /\ loop.passed => /\ committed' = committed \cup {item.key}
                        /\ really' = really \cup {[key |-> item.key, what |-> given]}
                        /\ at' = Step(at.items, at.item)
      /\ ~loop.passed => at' = To("implement") /\ UNCHANGED <<committed, really>>
  BY DEF CommandRecorded
<1>3. mu = "loop" /\ at.node = "check"
  BY <1>1 DEF TasksInv, PlaceInv
<1>4. /\ at \in Places /\ at.items \in Seq(Items) /\ Len(at.items) \in Nat /\ at.occ \in Occs /\ at.occ \in Nat
  <2>1. at \in Places /\ at.items \in Seq(Items)
    BY DEF TasksInv, TasksTypes, Places
  <2> QED
    BY <2>1, Lengths DEF Places, Occs
<1>5. /\ at.item \in 1..Len(at.items) /\ at.item \in Nat /\ item \in Items /\ given = item.what
  <2>1. at.item \in 1..Len(at.items) /\ given = item.what
    BY <1>3 DEF TasksInv, ItemsInv
  <2> QED
    BY <1>4, <2>1, Lengths
<1>6. /\ at' \in Places /\ at'.items = at.items
      /\ \/ loop.passed /\ at'.node = "end" /\ at'.occ = at.occ
         \/ /\ at'.node = "implement" /\ at'.occ = at.occ + 1
            /\ at'.item \in at.item..Len(at.items) /\ ~at.items[at'.item].done
            /\ loop.passed => at'.item # at.item
  <2>1. CASE loop.passed
    <3>1. /\ at' \in Places /\ at'.items = at.items
          /\ \/ at'.node = "end" /\ at'.occ = at.occ
             \/ /\ at'.node = "implement" /\ at'.occ = at.occ + 1
                /\ at'.item \in (at.item + 1)..Len(at.items) /\ ~at.items[at'.item].done
      <4>1. PICK p : p = at'
        OBVIOUS
      <4>2. p = Step(at.items, at.item) /\ p.occ \in Occs
        BY <1>1, <1>2, <2>1, <4>1
      <4> QED
        BY <1>4, <1>5, <4>1, <4>2, StepPlace
    <3>2. \A i \in (at.item + 1)..Len(at.items) : i \in at.item..Len(at.items) /\ i # at.item
      BY <1>4, <1>5
    <3> QED
      BY <2>1, <3>1, <3>2
  <2>2. CASE ~loop.passed
    <3>1. at' = To("implement") /\ at'.occ = at.occ + 1
      BY <1>2, <1>4, <2>2 DEF To, Places
    <3>2. at' \in Places /\ at'.node = "implement" /\ at'.items = at.items /\ at'.item = at.item
      BY <1>1, <1>4, <3>1, ToPlace
    <3>3. at.item \in at.item..Len(at.items) /\ ~at.items[at.item].done
      BY <1>3, <1>4, <1>5 DEF TasksInv, ItemsInv
    <3> QED
      BY <2>2, <3>1, <3>2, <3>3
  <2> QED
    BY <2>1, <2>2
<1>7. /\ t \in Takings /\ t.outcome \in {"passed", "failed"} /\ t.output = loop.output /\ t.feedback = 0
      /\ t.value = NoValue
  <2>1. loop.output \in Nat /\ loop.passed \in BOOLEAN
    BY DEF TasksInv, TasksTypes
  <2> QED
    BY <2>1, EmptySeq DEF NotTaken, Takings, NoValue
<1> HIDE DEF t
<1>8. /\ at'.occ \in Nat /\ taken[at.occ] = NotTaken
      /\ at.occ <= at'.occ /\ taken'[at.occ] = t /\ t # NotTaken
      /\ taken' \in [Occs -> Takings] /\ \A o \in Occs : o # at.occ => taken'[o] = taken[o]
      /\ \A o \in Occs : taken'[o] = NotTaken <=> (o > at'.occ \/ (o = at'.occ /\ at'.node # "end"))
  <2>1. Goes /\ at.node # "end" /\ t.outcome # "none"
    BY <1>3, <1>6, <1>7 DEF Goes
  <2> QED
    BY <1>1, <1>7, <2>1, OverNow
<1>9. /\ loop' \in [at : {"idle", "running", "ran", "seen"}, passed : BOOLEAN, output : Nat]
      /\ loop'.at = IF at'.node = "end" THEN "seen" ELSE "idle"
  BY <1>1, NoRunIs DEF NoRun
<1>10. \A r \in Reports : ~InHandNow(r) /\ ~InHandNow(r)'
  BY <1>1, <1>3, NoneInHand DEF InHandNow
<1>11. \A r \in Reports : report[r].at # "idle" => report[r].occ \in Occs /\ report[r].occ <= at.occ /\ report[r].occ # at.occ
  BY <1>3 DEF TasksInv, PlaceInv
<1>12. TasksTypes'
  <2>1. really' \subseteq [key : Int, what : STRING] /\ committed' = {d.key : d \in really'}
    <3>1. really \subseteq [key : Int, what : STRING] /\ committed = {d.key : d \in really}
      BY DEF TasksInv, TasksTypes
    <3>2. CASE loop.passed
      <4> DEFINE new == [key |-> item.key, what |-> given]
      <4>1. new \in [key : Int, what : STRING] /\ new.key = item.key
        BY <1>5 DEF Items
      <4>2. committed' = committed \cup {item.key} /\ really' = really \cup {new}
        BY <1>2, <3>2
      <4> HIDE DEF new, item
      <4> QED
        BY <3>1, <4>1, <4>2
    <3>3. CASE ~loop.passed
      BY <1>2, <3>1, <3>3
    <3> QED
      BY <3>2, <3>3
  <2> QED
    BY <1>1, <1>6, <1>8, <1>9, <2>1 DEF TasksInv, TasksTypes
<1>13. PlaceInv'
  <2>1. vm.has <= at'.occ
    BY <1>4, <1>8, TasksAssumption DEF TasksInv, TasksTypes, PlaceInv
  <2>2. write.at = "checked" => write.occ \in Occs /\ write.occ <= at'.occ
    BY <1>4, <1>8 DEF TasksInv, PlaceInv, Occs
  <2>3. ASSUME NEW r \in Reports
        PROVE  /\ report[r].gen <= gen
               /\ report[r].at # "idle" => report[r].occ \in Occs /\ report[r].occ <= at'.occ
                                           /\ (report[r].occ = at'.occ => at'.node # "check")
               /\ report[r].at = "accepted" => taken'[report[r].occ] # NotTaken
    <3>1. report[r].at # "idle" => report[r].occ \in Occs /\ report[r].occ <= at'.occ
      BY <1>4, <1>8, <1>11 DEF Occs
    <3>2. report[r].at = "accepted" => taken'[report[r].occ] # NotTaken
      BY <1>8, <1>11 DEF TasksInv, PlaceInv
    <3> QED
      BY <1>6, <3>1, <3>2 DEF TasksInv, PlaceInv
  <2> QED
    BY <1>1, <1>8, <1>9, <1>10, <2>1, <2>2, <2>3 DEF PlaceInv
<1>14. OutputInv'
  <2> SUFFICES ASSUME lapse \cap {"direct", "late"} = {} PROVE OutputInv'
    BY <1>1 DEF OutputInv
  <2>1. ASSUME NEW o \in Occs
        PROVE  /\ taken'[o].outcome # "again"
               /\ taken'[o].value # NoValue => taken'[o].value = accepted[o]
               /\ vm.out[o] \in Plans \cup {NoValue}
               /\ taken'[o] = NotTaken => vm.out[o] = accepted[o]
               /\ o > at'.occ => accepted[o] = NoValue
    <3>1. o > at'.occ => o > at.occ
      BY <1>4, <1>8 DEF Occs
    <3> QED
      BY <1>7, <1>8, <3>1 DEF TasksInv, OutputInv
  <2> QED
    BY <1>1, <1>10, <2>1 DEF TasksInv, OutputInv
<1>15. KeptInv'
  <2> SUFFICES ASSUME lapse \cap {"twice", "cut"} = {} PROVE KeptInv'
    BY <1>1 DEF KeptInv
  <2>1. kept[at.occ] = [feedback |-> t.feedback, output |-> t.output]
    <3>1. \A r \in Reports : report[r].at \in {"fed", "refused"} => report[r].occ # at.occ
      BY <1>11
    <3>2. kept[at.occ].feedback = 0 /\ kept[at.occ].output = loop.output
      BY <1>1, <1>4, <1>8, <3>1 DEF TasksInv, KeptInv
    <3>3. kept[at.occ] \in [feedback : Nat, output : Nat]
      BY <1>4 DEF TasksInv, TasksTypes
    <3> QED
      BY <1>7, <3>2, <3>3
  <2>2. loop'.at # "ran"
    BY <1>9
  <2>3. ASSUME NEW o \in Occs
        PROVE  /\ taken'[o] # NotTaken => kept[o] = [feedback |-> taken'[o].feedback, output |-> taken'[o].output]
               /\ taken'[o] = NotTaken => kept[o].output = 0
               /\ taken'[o] = NotTaken /\ (\A q \in Reports : report[q].at \in {"fed", "refused"} => report[q].occ # o)
                    => kept[o].feedback = 0
    <3>1. CASE o = at.occ
      BY <1>8, <2>1, <3>1
    <3>2. CASE o # at.occ
      BY <1>8, <3>2 DEF TasksInv, KeptInv
    <3> QED
      BY <3>1, <3>2
  <2>4. \A r \in Reports : report[r].at \in {"checked", "fed", "refused"} => taken'[report[r].occ] = NotTaken
    BY <1>8, <1>11 DEF TasksInv, KeptInv
  <2> QED
    BY <1>1, <2>2, <2>3, <2>4 DEF TasksInv, KeptInv
<1>16. EndInv'
  <2>1. ~shown.done /\ shown.reason = 0
    BY <1>3 DEF TasksInv, EndInv
  <2>2. at'.node = "end" => EndOutcome' = "done"
    BY <1>6, <1>7, <1>8 DEF EndOutcome
  <2> QED
    BY <1>1, <2>1, <2>2 DEF EndInv
<1>17. ItemsInv'
  <2>1. \/ "renumbered" \in lapse
        \/ /\ \A i \in 1..Len(at.items) :
                at.items[i].done => [key |-> at.items[i].key, what |-> at.items[i].what] \in really
           /\ \A i \in at.item..Len(at.items) :
                ~at.items[i].done => \A d \in really : d.what = at.items[i].what => AnotherAlike(at.items, i, d)
    BY <1>3 DEF TasksInv, ItemsInv
  <2>2. at'.node # "check" /\ (at'.node = "implement" => vm'.has # at'.occ)
    <3>1. vm.has <= at.occ /\ vm.has \in Nat
      BY TasksAssumption DEF TasksInv, TasksTypes, PlaceInv
    <3> QED
      BY <1>1, <1>4, <1>6, <3>1
  <2>3. /\ really \subseteq really'
        /\ \A d \in really' : d \in really \/ (loop.passed /\ d = [key |-> item.key, what |-> item.what])
    BY <1>2, <1>5
  <2>4. ASSUME at'.node = "implement", NEW i \in at'.item..Len(at.items)
        PROVE  i \in 1..Len(at.items) /\ i \in at.item..Len(at.items) /\ (loop.passed => i # at.item)
    BY <1>4, <1>5, <1>6, <2>4
  <2>5. ASSUME at'.node = "implement", "renumbered" \notin lapse,
               NEW i \in at'.item..Len(at.items), ~at.items[i].done, NEW d \in really', d.what = at.items[i].what
        PROVE  AnotherAlike(at.items, i, d)
    <3>1. i \in at.item..Len(at.items) /\ (loop.passed => i # at.item)
      BY <2>4, <2>5
    <3>2. CASE d \in really
      BY <2>1, <2>5, <3>1, <3>2
    <3>3. CASE loop.passed /\ d = [key |-> item.key, what |-> item.what]
      BY <1>5, <3>1, <3>3 DEF AnotherAlike
    <3> QED
      BY <2>3, <2>5, <3>2, <3>3
  <2>6. at'.node = "implement" => at'.item \in 1..Len(at.items) /\ ~at.items[at'.item].done
    BY <1>4, <1>5, <1>6
  <2>7. at'.items = at.items /\ lapse' = lapse
    BY <1>1, <1>6
  <2> QED
    BY <2>1, <2>2, <2>3, <2>5, <2>6, <2>7 DEF ItemsInv
<1> QED
  BY <1>12, <1>13, <1>14, <1>15, <1>16, <1>17 DEF TasksInv

LEMMA SeeEndStep == ASSUME TasksInv, SeeEnd PROVE TasksInv'
<1>1. /\ loop.at = "idle" /\ mu = "nobody" /\ at.node = "end" /\ loop' = [loop EXCEPT !.at = "seen"] /\ kicked' = FALSE
      /\ UNCHANGED <<at, taken, committed, really, mu, write, report, endFeedback, shown, kept, vm, gen, given,
                     accepted, lapse>>
  BY DEF SeeEnd, workflowVars, callVars
<1>2. loop' \in [at : {"idle", "running", "ran", "seen"}, passed : BOOLEAN, output : Nat] /\ loop'.at = "seen"
  BY <1>1 DEF TasksInv, TasksTypes
<1>3. TasksTypes'
  BY <1>1, <1>2 DEF TasksInv, TasksTypes
<1>4. \A r \in Reports : ~InHandNow(r)'
  BY <1>1, NoneInHand DEF InHandNow
<1>5. PlaceInv'
  BY <1>1, <1>2, <1>4 DEF TasksInv, PlaceInv
<1>6. EndOutcome' = EndOutcome
  BY <1>1 DEF EndOutcome
<1>7. KeptInv' /\ EndInv'
  BY <1>1, <1>2, <1>6 DEF TasksInv, KeptInv, EndInv
<1> QED
  BY <1>1, <1>3, <1>5, <1>7, EngineIsLeft DEF TasksInv

LEMMA ReflectStep == ASSUME TasksInv, Reflect PROVE TasksInv'
<1>1. /\ loop.at = "seen" /\ shown' = [done |-> TRUE, outcome |-> EndOutcome, reason |-> Reason] /\ loop' = NoRun
      /\ lapse' = (IF EndOutcome # "done" /\ endFeedback # 0
                   /\ \E r \in Reports : report[r].at = "accepted" /\ report[r].gen = gen /\ report[r].text = 0
                THEN lapse \cup {"early"} ELSE lapse)
      /\ UNCHANGED <<at, taken, committed, really, mu, write, report, kicked, endFeedback, kept, vm, gen, given, accepted>>
  BY DEF Reflect, workflowVars, callVars
<1>2. /\ at.node = "end" /\ lapse \subseteq lapse' /\ EndOutcome' = EndOutcome /\ EndOutcome \in {"done", "needs_human"}
  BY <1>1 DEF TasksInv, PlaceInv, EndOutcome
<1>3. /\ EndOutcome = "done" => Reason = 0
      /\ EndOutcome # "done" => Reason = IF endFeedback # 0 THEN endFeedback ELSE shown.reason
      /\ Reason \in Nat
  <2>1. endFeedback \in Nat /\ shown.reason \in Nat
    BY DEF TasksInv, TasksTypes
  <2> QED
    BY <2>1 DEF Reason
<1>4. /\ shown'.done = TRUE /\ shown'.outcome = EndOutcome /\ shown'.reason = Reason
      /\ shown' \in [done : BOOLEAN, outcome : {"none", "done", "needs_human"}, reason : Nat]
  BY <1>1, <1>2, <1>3
<1>5. TasksTypes'
  BY <1>1, <1>4, NoRunIs DEF TasksInv, TasksTypes
<1>6. PlaceInv'
  <2>1. \A r \in Reports : InHandNow(r)' <=> InHandNow(r)
    BY <1>1 DEF InHandNow
  <2> QED
    BY <1>1, <2>1, NoRunIs DEF TasksInv, PlaceInv, WaitingAgent
<1>7. KeptInv'
  BY <1>1, <1>2, NoRunIs DEF TasksInv, KeptInv
<1>8. OutputInv'
  BY <1>1, <1>2, EngineIsLeft
<1>9. EndInv'
  <2>1. ASSUME lapse' \cap {"early", "crossed", "cut"} = {}, EndOutcome # "done"
        PROVE  /\ taken[at.occ].feedback = 0 => Reason = 0
               /\ \A r \in Reports : report[r].at = "accepted" /\ report[r].occ = at.occ
                    => report[r].gen = gen /\ report[r].text = taken[at.occ].feedback
               /\ (\A r \in Reports : report[r].at = "accepted" => report[r].occ # at.occ)
                    => endFeedback = taken[at.occ].feedback /\ Reason = taken[at.occ].feedback
    <3>1. /\ taken[at.occ].feedback = 0 => shown.reason = 0
          /\ \A r \in Reports : report[r].at = "accepted" /\ report[r].occ = at.occ
               => report[r].gen = gen /\ report[r].text = taken[at.occ].feedback
          /\ (\A r \in Reports : report[r].at = "accepted" => report[r].occ # at.occ)
               => endFeedback = taken[at.occ].feedback
      BY <1>2, <2>1 DEF TasksInv, EndInv
    <3>2. ~(endFeedback # 0 /\ \E r \in Reports : report[r].at = "accepted" /\ report[r].gen = gen /\ report[r].text = 0)
      BY <1>1, <2>1
    <3>3. taken[at.occ].feedback = 0 => endFeedback = 0
      BY <3>1, <3>2
    <3> QED
      BY <1>3, <2>1, <3>1, <3>3
  <2> QED
    BY <1>1, <1>2, <1>3, <1>4, <2>1 DEF EndInv
<1> QED
  BY <1>1, <1>2, <1>5, <1>6, <1>7, <1>8, <1>9, EngineIsLeft DEF TasksInv

\* A run that ends, and the next: what the VM had is gone.
LEMMA RestartStep == ASSUME TasksInv, NEW crash \in BOOLEAN, Restart(crash) PROVE TasksInv'
<1>1. /\ ~shown.done /\ gen' = gen + 1 /\ vm' = NewVM
      /\ accepted' = [accepted EXCEPT ![at.occ] = IF taken[at.occ] = NotTaken THEN NoValue ELSE @]
      /\ mu' = "nobody" /\ loop' = NoRun /\ kicked' = FALSE /\ endFeedback' = 0
      /\ IF crash THEN write' = NoWrite /\ report' = [r \in Reports |-> NoReport]
         ELSE UNCHANGED <<write, report>>
      /\ lapse' = (IF \/ loop.at = "ran" \/ at.node = "end"
                      \/ crash /\ \E r \in Reports : report[r].at \in {"fed", "refused"}
                   THEN lapse \cup {"cut"} ELSE lapse)
      /\ UNCHANGED <<at, taken, committed, really, shown, kept, given>>
  BY DEF Restart, workflowVars
<1>2. /\ at \in Places /\ at.occ \in Occs /\ at.occ \in Nat /\ at.occ >= 1 /\ gen \in Nat /\ lapse \subseteq lapse'
  <2>1. at \in Places /\ gen \in Nat
    BY DEF TasksInv, TasksTypes
  <2> QED
    BY <1>1, <2>1 DEF Places, Occs
<1>3. /\ NoWrite.at = "idle" /\ NoWrite \in [at : {"idle", "checked"}, occ : 0..MaxOcc, value : Seq(PlanSteps)]
      /\ NoReport \in ReportStates /\ NoReport.at = "idle" /\ NoReport.gen = 0
  BY TasksAssumption, EmptySeq DEF NoWrite, NoValue, NoReport, ReportStates
<1>4. /\ vm' \in [out : [Occs -> Seq(PlanSteps)], has : 0..MaxOcc] /\ vm'.has = 0
      /\ \A o \in Occs : vm'.out[o] = NoValue
  <2>1. NoValue \in Seq(PlanSteps) /\ 0 \in 0..MaxOcc
    BY TasksAssumption, EmptySeq DEF NoValue
  <2> QED
    BY <1>1, <2>1 DEF NewVM
<1>5. /\ accepted' \in [Occs -> Seq(PlanSteps)]
      /\ \A o \in Occs : accepted'[o] = IF o = at.occ /\ taken[o] = NotTaken THEN NoValue ELSE accepted[o]
  <2>1. accepted \in [Occs -> Seq(PlanSteps)] /\ NoValue \in Seq(PlanSteps)
    BY EmptySeq DEF TasksInv, TasksTypes, NoValue
  <2> QED
    BY <1>1, <1>2, <2>1
<1>6. \A r \in Reports : report'[r].at = "idle" \/ (~crash /\ report'[r] = report[r])
  BY <1>1, <1>3
<1>7. \A r \in Reports : report'[r].gen <= gen /\ report'[r].gen <= gen' /\ report'[r].gen # gen'
  <2> SUFFICES ASSUME NEW r \in Reports PROVE report'[r].gen <= gen /\ report'[r].gen <= gen' /\ report'[r].gen # gen'
    OBVIOUS
  <2>1. report[r].gen \in Nat /\ report[r].gen <= gen
    BY DEF TasksInv, TasksTypes, PlaceInv, ReportStates
  <2>2. report'[r].gen \in Nat /\ report'[r].gen <= gen
    BY <1>1, <1>2, <1>3, <2>1
  <2> QED
    BY <1>1, <1>2, <2>2
<1>8. \A r \in Reports : ~InHandNow(r)'
  BY <1>7 DEF InHandNow
<1>9. TasksTypes'
  <2>1. report' \in [Reports -> ReportStates] /\ write' \in [at : {"idle", "checked"}, occ : 0..MaxOcc, value : Seq(PlanSteps)]
    BY <1>1, <1>3 DEF TasksInv, TasksTypes
  <2>2. gen' \in Nat /\ endFeedback' \in Nat /\ kicked' \in BOOLEAN
    <3>1. gen' = gen + 1 /\ endFeedback' = 0 /\ gen \in Nat
      BY <1>1, <1>2
    <3>2. gen' \in Nat /\ endFeedback' \in Nat
      BY <3>1
    <3>3. kicked' \in BOOLEAN
      <4>1. kicked' = FALSE
        BY <1>1
      <4> QED
        BY <4>1, Zenon
    <3> QED
      BY <3>2, <3>3
  <2>3. loop' \in [at : {"idle", "running", "ran", "seen"}, passed : BOOLEAN, output : Nat]
    BY <1>1, NoRunIs
  <2>4. UNCHANGED <<at, taken, committed, really, shown, kept, given>>
    BY <1>1
  <2> QED
    BY <1>4, <1>5, <2>1, <2>2, <2>3, <2>4 DEF TasksInv, TasksTypes
<1>10. PlaceInv'
  <2>1. \A r \in Reports :
          /\ report'[r].at # "idle" => report'[r].occ \in Occs /\ report'[r].occ <= at.occ
                                       /\ (report'[r].occ = at.occ => at.node # "check")
          /\ report'[r].at = "accepted" => taken[report'[r].occ] # NotTaken
    BY <1>6 DEF TasksInv, PlaceInv
  <2>2. write'.at = "checked" => write'.occ \in Occs /\ write'.occ <= at.occ
    BY <1>1, <1>3 DEF TasksInv, PlaceInv
  <2>3. \A o \in Occs : taken[o] = NotTaken <=> (o > at.occ \/ (o = at.occ /\ at.node # "end"))
    BY DEF TasksInv, PlaceInv
  <2> QED
    BY <1>1, <1>2, <1>4, <1>7, <1>8, <2>1, <2>2, <2>3, NoRunIs DEF PlaceInv
<1>11. OutputInv'
  <2> SUFFICES ASSUME lapse' \cap {"direct", "late"} = {} PROVE OutputInv'
    BY DEF OutputInv
  <2>1. lapse \cap {"direct", "late"} = {} /\ NotTaken.value = NoValue
    BY <1>2 DEF NotTaken
  <2>2. ASSUME NEW o \in Occs
        PROVE  /\ taken[o].outcome # "again"
               /\ taken[o].value # NoValue => taken[o].value = accepted'[o]
               /\ taken[o] = NotTaken => accepted'[o] = NoValue
               /\ o > at.occ => accepted'[o] = NoValue
    <3>1. taken[o] = NotTaken => o > at.occ \/ o = at.occ
      BY DEF TasksInv, PlaceInv
    <3> QED
      BY <1>5, <2>1, <3>1 DEF TasksInv, OutputInv
  <2>3. write'.at = "checked" => write'.value \in Plans
    BY <1>1, <1>3, <2>1 DEF TasksInv, OutputInv
  <2> QED
    BY <1>1, <1>4, <1>8, <2>2, <2>3 DEF OutputInv
<1>12. KeptInv'
  <2> SUFFICES ASSUME lapse' \cap {"twice", "cut"} = {} PROVE KeptInv'
    BY DEF KeptInv
  <2>1. /\ lapse \cap {"twice", "cut"} = {} /\ loop.at # "ran"
        /\ crash => \A r \in Reports : report[r].at \notin {"fed", "refused"}
    BY <1>1
  <2>2. ASSUME NEW o \in Occs
        PROVE  /\ taken[o] # NotTaken => kept[o] = [feedback |-> taken[o].feedback, output |-> taken[o].output]
               /\ taken[o] = NotTaken => kept[o].output = 0
               /\ taken[o] = NotTaken /\ (\A q \in Reports : report'[q].at \in {"fed", "refused"} => report'[q].occ # o)
                    => kept[o].feedback = 0
    <3>1. (\A q \in Reports : report'[q].at \in {"fed", "refused"} => report'[q].occ # o)
          => \A q \in Reports : report[q].at \in {"fed", "refused"} => report[q].occ # o
      BY <1>1, <2>1
    <3> QED
      BY <2>1, <3>1 DEF TasksInv, KeptInv
  <2>3. \A r \in Reports :
            /\ report'[r].at \in {"checked", "fed", "refused"} => taken[report'[r].occ] = NotTaken
            /\ report'[r].at \in {"fed", "refused"} => kept[report'[r].occ].feedback = report'[r].text
            /\ \A q \in Reports : report'[r].at # "idle" /\ report'[q].at # "idle" /\ report'[r].occ = report'[q].occ
                 => r = q
    BY <1>6, <2>1 DEF TasksInv, KeptInv
  <2> QED
    BY <1>1, <2>2, <2>3, NoRunIs DEF KeptInv
<1>13. EndInv'
  BY <1>1 DEF TasksInv, EndInv
<1>14. ItemsInv'
  BY <1>1, <1>2, <1>4 DEF TasksInv, ItemsInv
<1> QED
  BY <1>9, <1>10, <1>11, <1>12, <1>13, <1>14 DEF TasksInv

LEMMA TasksStep == TasksInv /\ [TasksNext]_tasksVars => TasksInv'
<1> SUFFICES ASSUME TasksInv, [TasksNext]_tasksVars PROVE TasksInv'
  OBVIOUS
<1>1. CASE NextTask \/ WriteDirectly(Bad) \/ WriteOutput \/ WriteFails
  BY <1>1, NextTaskStep, WriteDirectlyStep, WriteOutputStep, WriteFailsStep
<1>2. CASE \E value \in Plans : WriteCheck(value)
  BY <1>2, WriteCheckStep
<1>3. ASSUME NEW r \in Reports, NEW outcome \in Outcomes \cup {"odd"}, NEW text \in Texts(outcome),
             ReportCheck(r, outcome, text)
      PROVE  TasksInv'
  <2>1. text \in Nat
    BY DEF Texts, TasksInv, TasksTypes, Places, Occs
  <2> QED
    BY <1>3, <2>1, ReportCheckStep
<1>4. CASE \E r \in Reports : WriteFeedback(r) \/ ReportEngine(r) \/ ReportReturns(r)
  BY <1>4, WriteFeedbackStep, ReportEngineStep, ReportReturnsStep
<1>5. CASE RunCommand \/ CommandLost \/ CommandRecorded
  BY <1>5, RunCommandStep, CommandLostStep, CommandRecordedStep
<1>6. ASSUME NEW passed \in BOOLEAN, CommandEnds(passed, Output(passed)) PROVE TasksInv'
  <2>1. Output(passed) \in Nat
    BY DEF Output, TasksInv, TasksTypes
  <2> QED
    BY <1>6, <2>1, CommandEndsStep
<1>7. CASE SeeEnd \/ Reflect
  BY <1>7, SeeEndStep, ReflectStep
<1>8. CASE \E crash \in BOOLEAN : Restart(crash)
  BY <1>8, RestartStep
<1>9. CASE UNCHANGED tasksVars
  <2>1. /\ UNCHANGED <<at, taken, committed, really, mu, write, report, loop, kicked, endFeedback, shown>>
        /\ UNCHANGED <<kept, vm, gen, given, accepted, lapse>>
    BY <1>9 DEF tasksVars, workflowVars, callVars, loopVars
  <2>2. TasksTypes'
    BY <2>1 DEF TasksInv, TasksTypes
  <2> QED
    BY <2>1, <2>2, EngineIsLeft DEF TasksInv
<1> QED
  BY <1>1, <1>2, <1>3, <1>4, <1>5, <1>6, <1>7, <1>8, <1>9 DEF TasksNext

\* For any plans, reports, occurrences and runs: what the engine has of a task, what is in the VM and on
\* the host for it, and what the end shows go together as TasksInv says.
THEOREM TasksHold == TasksSpec => []TasksInv
<1>1. TasksInit => TasksInv
  BY TasksInitHolds
<1>2. TasksInv /\ [TasksNext]_tasksVars => TasksInv'
  BY TasksStep
<1> QED
  BY <1>1, <1>2, PTL DEF TasksSpec

\* What the engine has of a task is what write_output accepted last for it, and records/results has all of
\* it and nothing of a report that was refused: runner.go's Report and WriteOutput.
THEOREM RecordsAreOfTheReport == TasksSpec => []RecordsAreOfTheReportUnlessSlip
<1>1. TasksInv => RecordsAreOfTheReportUnlessSlip
  BY DEF TasksInv, OutputInv, KeptInv, RecordsAreOfTheReportUnlessSlip, RecordIsAcceptedUnlessSlip,
         ResultsAreKeptUnlessSlip
<1> QED
  BY <1>1, TasksHold, PTL

\* A run that has ended otherwise than done shows the feedback of the report that ended it: reflect and
\* what Report notes for it.
THEOREM EndShowsItsReason == TasksSpec => []EndShowsItsReasonUnlessSlip
<1>1. TasksInv => EndShowsItsReasonUnlessSlip
  <2> SUFFICES ASSUME TasksInv, lapse \cap {"early", "crossed", "cut"} = {}, Quiet
               PROVE  /\ shown.outcome = EndOutcome
                      /\ shown.reason = IF EndOutcome = "done" THEN 0 ELSE taken[at.occ].feedback
    BY DEF EndShowsItsReasonUnlessSlip
  <2>1. shown.done /\ ~kicked /\ loop.at # "seen" /\ \A r \in Reports : report[r].at # "accepted"
    BY NoRunIs DEF Quiet
  <2>2. at.node = "end" /\ shown.outcome = EndOutcome /\ (EndOutcome = "done" => shown.reason = 0)
    BY <2>1 DEF TasksInv, EndInv
  <2>3. EndOutcome # "done" => shown.reason = taken[at.occ].feedback
    BY <2>1, <2>2 DEF TasksInv, EndInv
  <2> QED
    BY <2>2, <2>3
<1> QED
  BY <1>1, TasksHold, PTL

\* A step of a plan that is passed over has been committed as it is written, and one that was committed is
\* not implemented again, unless as another step that the plan writes alike, as long as plans keep the
\* numbers of their steps: Items and committed-steps.json.
THEOREM StepsAreDoneOnce == TasksSpec => []StepsAreDoneOnceUnlessRenumbered
<1>1. TasksInv => StepsAreDoneOnceUnlessRenumbered
  <2> SUFFICES ASSUME TasksInv, "renumbered" \notin lapse, NEW i \in 1..Len(at.items)
               PROVE  /\ at.items[i].done => [key |-> at.items[i].key, what |-> at.items[i].what] \in really
                      /\ at.node = "implement" /\ i = at.item =>
                           \A d \in really : d.what = at.items[i].what => AnotherAlike(at.items, i, d)
    BY DEF StepsAreDoneOnceUnlessRenumbered
  <2>1. at.items[i].done => [key |-> at.items[i].key, what |-> at.items[i].what] \in really
    BY DEF TasksInv, ItemsInv
  <2>2. ASSUME at.node = "implement", i = at.item
        PROVE  \A d \in really : d.what = at.items[i].what => AnotherAlike(at.items, i, d)
    <3>1. Len(at.items) \in Nat
      BY Lengths DEF TasksInv, TasksTypes, Places
    <3>2. i \in at.item..Len(at.items)
      BY <2>2, <3>1
    <3>3. ~at.items[i].done
      BY <2>2 DEF TasksInv, ItemsInv
    <3> QED
      BY <2>2, <3>2, <3>3 DEF TasksInv, ItemsInv
  <2> QED
    BY <2>1, <2>2
<1> QED
  BY <1>1, TasksHold, PTL
=============================================================================
