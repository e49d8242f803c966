----------------------------- MODULE BootProofs -----------------------------
(***************************************************************************)
(* What a guest holds and a failure leaves, for any definitions, edits,    *)
(* upgrades, restarts, VMs and faults.                                     *)
(*                                                                         *)
(* And below: what people said of their repository, what is on file, and   *)
(* what a run opens, for any number of hosts, secrets, callers, imports,   *)
(* Stops and edits of the declarations.                                    *)
(***************************************************************************)
EXTENDS Boot, Approvals, SequenceTheorems, TLAPS

(***************************************************************************)
(* The inductive invariant                                                 *)
(***************************************************************************)

\* Run has the directory in hand.
Within == {"made", "staged", "moved", "ready"}

\* Where Run stands: nothing of the workspace is there before it makes the directory, nor
\* after it has failed, and only a Run that has returned is booted.
CallInv ==
    /\ call.at \notin Within \cup {"returned"} => ~disk.made
    /\ call.at \in Within => disk.made /\ disk.state = "STARTING"
    /\ call.at \in {"staged", "moved", "ready"} => disk.staged
    /\ call.at \in {"moved", "ready"} => disk.defs # NoVersions
    /\ call.at = "ready" => ctl.here
    /\ call.at \notin {"ready", "returned"} => ~ctl.here
    /\ call.at # "returned" => boot.at = "none" /\ ~vm.launched
    /\ boot.at # "none" => disk.state = "STARTING"
    /\ call.at \in {"files", "copied"} => call.copy \in Versions
    /\ call.at \in {"planned"} \cup Within =>
           call.copy = checked.defs /\ checked.defs # NoVersions /\ checked.bundled = binary
    /\ ~disk.made => disk = NoDisk

\* What is on disk, and what the control of the run has, is what Run has checked.
DefsInv ==
    /\ checked.defs # NoVersions => checked.defs \in Versions /\ Resumable(checked.defs)
           /\ checked.bundled \in Binaries
    /\ disk.defs \in {NoVersions, checked.defs}
    /\ ctl.here => /\ disk.made /\ disk.defs # NoVersions /\ ctl.defs = disk.defs
                   /\ ctl.bundled = binary /\ (binary = checked.bundled \/ "upgraded" \in slip)
                   /\ ctl.reviews = disk.reviews /\ disk.reviews # <<0, 0>>

\* The perspectives are kept as they were first merged, which is after an upgrade only if Run had
\* not come to it.
ReviewsInv ==
    /\ disk.reviews # <<0, 0>> =>
         \E p \in Binaries : /\ p = checked.bundled \/ {"interrupted", "upgraded"} \subseteq slip
                             /\ disk.reviews = Merged(checked.defs, p)
    /\ disk.made /\ call.at = "returned" /\ disk.reviews = <<0, 0>> => "interrupted" \in slip

\* Run returns with a workspace that is whole.
WholeInv ==
    disk.made /\ call.at \notin Within =>
        (disk.staged /\ disk.engine /\ disk.defs # NoVersions) \/ "interrupted" \in slip

\* A lock is in the directory of a VM that was, and a fault is on record while it shows.
LockInv ==
    /\ \A d \in locks : d <= vm.no
    /\ boot.at = "bundle" => vm.no \notin locks
    /\ BootFailsOnlyByFault

\* The guest that the present run has prepared so far.
GuestSoFar(n) ==
    /\ vm.image = checked.defs["images"] /\ ~vm.launched
    /\ Len(vm.placed) = n
    /\ \A i \in 1..n : vm.placed[i] = Promised(ctl.bundled, ctl.reviews[2])[i]

BootInv ==
    /\ boot.at # "none" => ctl.here
    /\ boot.at \in {"record", "create"} => boot.image = checked.defs["images"]
    /\ boot.at = "bundle" => GuestSoFar(0)
    /\ boot.at = "prepare" => \E n \in 0..(Len(Layout) - 1) : GuestSoFar(n)
    /\ boot.at = "launch" => GuestSoFar(Len(Layout))

\* Who has built has given the name, unless two builds have crossed.
ImageInv ==
    slip \cap {"crossed", "unrecorded"} = {} =>
        /\ boot.at = "record" => boot.image = images.name
        /\ images.client # 0 => images.client = images.name
        /\ boot.at = "record" \/ images.client # 0 \/ images.record = images.name

BootingInv ==
    /\ TypeOK /\ CallInv /\ DefsInv /\ ReviewsInv /\ WholeInv
    /\ LockInv /\ BootInv /\ GuestIsOfTheRun /\ ImageInv

(***************************************************************************)
(* The records                                                             *)
(***************************************************************************)

LEMMA VersionNumbers ==
    /\ 0 \in Version /\ Version \subseteq Nat /\ 1..(MaxEdits + 1) \subseteq Version
    /\ Binaries \subseteq Nat \ {0} /\ 1 \in Binaries /\ <<0, 0>> \in Reviewed
    /\ \A b \in Binaries : b \in 0..(MaxUpgrades + 1)
  BY BoundsAssumption DEF Version, Binaries, Reviewed

LEMMA VersionOf == ASSUME NEW d \in Copies, NEW p \in Parts PROVE d[p] \in Version
  BY VersionNumbers DEF Copies, Versions, NoVersions

LEMMA CheckedVersions ==
    ASSUME NEW d \in Versions
    PROVE  d \in Copies /\ d # NoVersions /\ \A p \in Parts : d[p] \in Nat \ {0}
<1>1. \A p \in Parts : d[p] \in Nat \ {0}
  BY BoundsAssumption DEF Versions
<1>2. "reviews" \in Parts /\ NoVersions["reviews"] = 0
  BY DEF Parts, NoVersions
<1> QED
  BY <1>1, <1>2 DEF Copies

LEMMA NoRecords ==
    /\ NoDisk \in Disks /\ ~NoDisk.made /\ NoDisk.state = "none" /\ NoDisk.defs = NoVersions
    /\ NoDisk.reviews = <<0, 0>> /\ NoCtl \in Controls /\ NoCtl.here = FALSE
    /\ NoBoot \in Boots /\ NoBoot.at = "none"
<1>1. NoVersions \in Copies /\ <<0, 0>> \in Reviewed
  BY VersionNumbers DEF Copies
<1> QED
  BY <1>1, VersionNumbers DEF NoDisk, Disks, NoCtl, Controls, NoBoot, Boots, BootSteps

LEMMA NoVMRecord ==
    ASSUME NEW no \in 0..MaxVMs
    PROVE  /\ NoVM(no) \in VMs /\ NoVM(no).no = no /\ ~NoVM(no).on /\ ~NoVM(no).launched
           /\ NoVM(no).placed = <<>>
<1>1. <<>> \in Seq(Version \X Nat)
  BY EmptySeq
<1> QED
  BY <1>1, VersionNumbers DEF NoVM, VMs

LEMMA DestroyedRecord ==
    ASSUME TypeOK
    PROVE  Destroyed \in VMs /\ Destroyed.no = vm.no /\ ~Destroyed.on /\ ~Destroyed.launched
<1>1. vm.no \in 0..MaxVMs
  BY DEF TypeOK, VMs
<1> QED
  BY <1>1, NoVMRecord DEF Destroyed

\* A change of the state of the workspace, and of nothing else of it.
LEMMA StateChanges ==
    ASSUME TypeOK, NEW s \in {"none", "STARTING", "RUNNING", "STOPPED", "SUSPENDED"},
           disk' = [disk EXCEPT !.state = s]
    PROVE  /\ disk' \in Disks /\ disk'.state = s /\ disk'.made = disk.made /\ disk'.staged = disk.staged
           /\ disk'.defs = disk.defs /\ disk'.reviews = disk.reviews /\ disk'.engine = disk.engine
  BY DEF TypeOK, Disks

LEMMA CallGoes ==
    ASSUME TypeOK, NEW at \in {"idle", "files", "copied", "planned", "made", "staged", "moved", "ready",
                               "returned", "failed"},
           call' = [call EXCEPT !.at = at]
    PROVE  call' \in Calls /\ call'.at = at /\ call'.copy = call.copy
  BY DEF TypeOK, Calls

LEMMA BootGoes ==
    ASSUME TypeOK, NEW at \in BootSteps, boot' = [boot EXCEPT !.at = at]
    PROVE  boot' \in Boots /\ boot'.at = at /\ boot'.image = boot.image /\ boot'.resume = boot.resume
  BY DEF TypeOK, Boots

LEMMA SlipTypes == ASSUME TypeOK, slip' \subseteq slip \cup Slips PROVE slip' \subseteq Slips
  BY DEF TypeOK

LEMMA FaultTypes ==
    ASSUME TypeOK, Faults
    PROVE  faults' \in [count : 0..MaxFaults, here : BOOLEAN] /\ faults'.here
  BY BoundsAssumption DEF TypeOK, Faults

(***************************************************************************)
(* What a step may leave alone                                             *)
(***************************************************************************)

LEMMA DefsStay ==
    ASSUME DefsInv, UNCHANGED <<binary, disk, ctl, checked>>, slip \subseteq slip'
    PROVE  DefsInv'
  BY DEF DefsInv, Resumable, LoadsDefinitions, Plans, LoadsReviews, LoadsPitfalls, LoadsSettings, HasDockerfile,
         MissingChecks, Loads

\* The control is gone, or was not there; the definitions on disk are as they were.
LEMMA DefsWithout ==
    ASSUME DefsInv, ~ctl'.here, disk'.defs = disk.defs, UNCHANGED checked
    PROVE  DefsInv'
  BY DEF DefsInv, Resumable, LoadsDefinitions, Plans, LoadsReviews, LoadsPitfalls, LoadsSettings, HasDockerfile,
         MissingChecks, Loads

LEMMA ReviewsStay ==
    ASSUME ReviewsInv, disk'.reviews = disk.reviews, UNCHANGED checked, slip \subseteq slip',
           disk'.made /\ call'.at = "returned" =>
             (disk.made /\ call.at = "returned") \/ disk.reviews # <<0, 0>> \/ "interrupted" \in slip'
    PROVE  ReviewsInv'
  BY DEF ReviewsInv, Merged

LEMMA WholeStays ==
    ASSUME WholeInv, UNCHANGED <<disk, call>>, slip \subseteq slip'
    PROVE  WholeInv'
  BY DEF WholeInv

LEMMA GuestStays ==
    ASSUME GuestIsOfTheRun, UNCHANGED <<vm, checked>>, slip \subseteq slip'
    PROVE  GuestIsOfTheRun'
  BY DEF GuestIsOfTheRun, Promised

LEMMA GuestGone == ASSUME ~vm'.launched PROVE GuestIsOfTheRun'
  BY DEF GuestIsOfTheRun

LEMMA ImagesStay ==
    ASSUME ImageInv, UNCHANGED images, slip \subseteq slip', boot.at = "record" <=> boot'.at = "record",
           boot.at = "record" => boot'.image = boot.image
    PROVE  ImageInv'
  BY DEF ImageInv

LEMMA LocksStay ==
    ASSUME LockInv, UNCHANGED <<locks, faults>>, vm'.no = vm.no,
           disk'.state = "SUSPENDED" => disk.state = "SUSPENDED",
           slip \subseteq slip', boot'.at = "bundle" => boot.at = "bundle"
    PROVE  LockInv'
  BY DEF LockInv, BootFailsOnlyByFault

LEMMA SoFarStays ==
    ASSUME NEW n, GuestSoFar(n), vm'.image = vm.image, vm'.placed = vm.placed, vm'.no = vm.no,
           vm'.launched = vm.launched, UNCHANGED <<ctl, checked>>
    PROVE  GuestSoFar(n)'
  BY DEF GuestSoFar, Promised

\* A step of the image, or of a person.
LEMMA RunStays ==
    ASSUME BootingInv, UNCHANGED <<binary, restarts, call, disk, ctl, boot, vm, locks, checked, faults>>,
           tree' \in Versions, images' \in ImageNames, slip \subseteq slip', slip' \subseteq slip \cup Slips,
           ImageInv'
    PROVE  BootingInv'
<1>1. TypeOK'
  BY SlipTypes DEF BootingInv, TypeOK
<1>2. CallInv'
  BY DEF BootingInv, CallInv
<1>3. DefsInv'
  BY DefsStay DEF BootingInv
<1>4. ReviewsInv' /\ WholeInv'
  BY ReviewsStay, WholeStays DEF BootingInv
<1>5. LockInv'
  BY LocksStay DEF BootingInv
<1>6. BootInv'
  <2>1. \A n \in 0..Len(Layout) : GuestSoFar(n) => GuestSoFar(n)'
    BY SoFarStays
  <2>2. Len(Layout) = 9
    BY DEF Layout
  <2> QED
    BY <2>1, <2>2 DEF BootingInv, BootInv
<1>7. GuestIsOfTheRun'
  BY GuestStays DEF BootingInv
<1> QED
  BY <1>1, <1>2, <1>3, <1>4, <1>5, <1>6, <1>7 DEF BootingInv

(***************************************************************************)
(* The beginning, and what people do                                       *)
(***************************************************************************)

LEMMA BootingInit == Init => BootingInv
<1> SUFFICES ASSUME Init PROVE BootingInv
  OBVIOUS
<1>1. TypeOK
  <2>1. tree \in Versions /\ call \in Calls
    BY BoundsAssumption DEF Init, Versions, Calls, Copies
  <2>2. boot \in Boots /\ images \in ImageNames
    BY VersionNumbers DEF Init, Boots, BootSteps, ImageNames
  <2>3. 0 \in 0..MaxVMs /\ 0 \in 0..MaxFaults /\ 0 \in 0..MaxRestarts
    BY BoundsAssumption
  <2>4. vm \in VMs
    BY <2>3, NoVMRecord DEF Init
  <2> QED
    BY <2>1, <2>2, <2>3, <2>4, NoRecords, VersionNumbers DEF Init, TypeOK, Copies
<1>2. vm.no = 0 /\ ~vm.launched /\ boot.at = "none" /\ disk = NoDisk /\ ctl = NoCtl /\ call.at = "idle"
  <2>1. 0 \in 0..MaxVMs
    BY BoundsAssumption
  <2> QED
    BY <2>1, NoVMRecord DEF Init
<1>3. CallInv
  BY <1>2, NoRecords DEF CallInv, Within
<1>4. DefsInv /\ ReviewsInv /\ WholeInv
  BY <1>2, NoRecords DEF Init, DefsInv, ReviewsInv, WholeInv
<1>5. LockInv
  BY <1>2, NoRecords DEF Init, LockInv, BootFailsOnlyByFault
<1>6. BootInv /\ GuestIsOfTheRun /\ ImageInv
  BY <1>2 DEF Init, BootInv, GuestIsOfTheRun, ImageInv
<1> QED
  BY <1>1, <1>3, <1>4, <1>5, <1>6 DEF BootingInv

LEMMA EditStep == ASSUME BootingInv, NEW p \in Edited, Edit(p) PROVE BootingInv'
<1>1. UNCHANGED <<binary, restarts, call, disk, ctl, boot, vm, images, locks, checked, faults, slip>>
  BY DEF Edit
<1>2. tree' \in Versions
  <2>1. tree[p] + 1 \in 1..(MaxEdits + 1)
    BY EditedAssumption, BoundsAssumption DEF Edit, BootingInv, TypeOK, Versions
  <2> QED
    BY <2>1 DEF Edit, BootingInv, TypeOK, Versions
<1>3. ImageInv'
  BY <1>1, ImagesStay DEF BootingInv
<1> QED
  BY <1>1, <1>2, <1>3, RunStays DEF BootingInv, TypeOK

LEMMA ClientBuildsStep == ASSUME BootingInv, ClientBuilds PROVE BootingInv'
<1>1. /\ UNCHANGED <<outside, call, disk, ctl, boot, vm, locks, checked, faults>>
      /\ images.client = 0 /\ slip \subseteq slip' /\ slip' \subseteq slip \cup Slips
  BY DEF ClientBuilds, Crossed, Slips
<1>2. tree["images"] \in Version
  BY VersionOf DEF BootingInv, TypeOK, Copies, Parts
<1>3. /\ images' \in ImageNames /\ images'.name = tree["images"] /\ images'.client = tree["images"]
      /\ images'.record = images.record
  BY <1>2 DEF ClientBuilds, Built, BootingInv, TypeOK, ImageNames
<1>4. tree["images"] # 0
  <2>1. tree \in Versions /\ "images" \in Parts
    BY DEF BootingInv, TypeOK, Parts
  <2> QED
    BY <2>1, CheckedVersions
<1>5. "crossed" \notin slip' => boot.at # "record"
  BY DEF ClientBuilds, Crossed, Crossing
<1>6. ImageInv'
  BY <1>1, <1>3, <1>4, <1>5 DEF ImageInv
<1> QED
  BY <1>1, <1>3, <1>6, RunStays DEF BootingInv, TypeOK, outside

LEMMA ClientRecordsStep == ASSUME BootingInv, ClientRecords PROVE BootingInv'
<1>1. UNCHANGED <<outside, call, disk, ctl, boot, vm, locks, checked, faults, slip>> /\ images.client # 0
  BY DEF ClientRecords
<1>2. images' \in ImageNames /\ images'.name = images.name /\ images'.client = 0 /\ images'.record = images.client
  BY VersionNumbers DEF ClientRecords, Recorded, BootingInv, TypeOK, ImageNames
<1>3. ImageInv'
  BY <1>1, <1>2 DEF BootingInv, ImageInv
<1> QED
  BY <1>1, <1>2, <1>3, RunStays DEF BootingInv, TypeOK, outside

LEMMA ClientLeavesStep == ASSUME BootingInv, ClientLeaves PROVE BootingInv'
<1>1. /\ UNCHANGED <<outside, call, disk, ctl, boot, vm, locks, checked, faults>>
      /\ slip' = slip \cup {"unrecorded"}
  BY DEF ClientLeaves
<1>2. images' \in ImageNames
  BY VersionNumbers DEF ClientLeaves, BootingInv, TypeOK, ImageNames
<1>3. ImageInv'
  BY <1>1 DEF ImageInv
<1> QED
  BY <1>1, <1>2, <1>3, RunStays DEF BootingInv, TypeOK, outside, Slips

(***************************************************************************)
(* Run                                                                     *)
(***************************************************************************)

\* A step of Run: nothing is booted yet.
LEMMA RunGoes ==
    ASSUME BootingInv, UNCHANGED <<outside, boot, vm, images, locks, slip>>, call.at # "returned",
           call'.at # "returned",
           call' \in Calls, disk' \in Disks, ctl' \in Controls,
           checked' \in [defs : Copies, bundled : {0} \cup Binaries],
           faults' \in [count : 0..MaxFaults, here : BOOLEAN],
           CallInv', DefsInv', disk'.state # "SUSPENDED",
           call'.at \notin Within => ~disk'.made,
           \/ disk'.reviews = <<0, 0>>
           \/ disk'.reviews = disk.reviews /\ UNCHANGED checked
           \/ disk'.reviews = Merged(checked'.defs, binary) /\ checked'.bundled = binary
    PROVE  BootingInv'
<1>1. TypeOK'
  BY DEF BootingInv, TypeOK, outside
<1>2. ReviewsInv'
  BY DEF ReviewsInv, Merged, BootingInv, TypeOK, outside
<1>3. WholeInv'
  BY DEF WholeInv
<1>4. boot.at = "none" /\ ~vm.launched
  BY DEF BootingInv, CallInv
<1>5. LockInv'
  BY <1>4 DEF BootingInv, LockInv, BootFailsOnlyByFault
<1>6. BootInv' /\ GuestIsOfTheRun'
  BY <1>4 DEF BootInv, GuestIsOfTheRun
<1>7. ImageInv'
  BY ImagesStay DEF BootingInv
<1> QED
  BY <1>1, <1>2, <1>3, <1>5, <1>6, <1>7 DEF BootingInv

\* Before it makes the directory.
LEMMA RunPrepares ==
    ASSUME BootingInv, UNCHANGED <<outside, disk, ctl, boot, vm, images, locks, faults, slip>>,
           call.at \in {"idle", "files", "copied"}, call' \in Calls,
           call'.at \in {"files", "copied", "planned", "failed"},
           call'.at \in {"files", "copied"} => call'.copy \in Versions,
           call'.at = "planned" => call'.copy = checked'.defs /\ checked'.defs # NoVersions
                  /\ checked'.bundled = binary,
           checked' \in [defs : Copies, bundled : {0} \cup Binaries], DefsInv'
    PROVE  BootingInv'
<1>1. ~disk.made /\ disk = NoDisk /\ ~ctl.here /\ boot.at = "none" /\ ~vm.launched
  BY DEF BootingInv, CallInv, Within
<1>2. CallInv'
  BY <1>1 DEF CallInv, Within, outside
<1>3. call'.at \notin Within /\ call.at # "returned" /\ call'.at # "returned"
  BY DEF Within
<1>4. disk'.reviews = <<0, 0>> /\ disk'.state # "SUSPENDED" /\ ~disk'.made
  BY <1>1, NoRecords
<1> QED
  BY <1>2, <1>3, <1>4, RunGoes DEF BootingInv, TypeOK

LEMMA RunCopiesStep == ASSUME BootingInv, RunCopies PROVE BootingInv'
<1>1. call.at = "idle" /\ UNCHANGED <<outside, disk, ctl, boot, vm, images, locks, checked, faults, slip>>
  BY DEF RunCopies
<1>2. call' \in Calls /\ call'.at = "files" /\ call'.copy \in Versions
  BY DEF RunCopies, BootingInv, TypeOK, Calls, Copies
<1>3. DefsInv'
  BY <1>1, DefsStay DEF BootingInv, outside
<1> QED
  BY <1>1, <1>2, <1>3, RunPrepares DEF BootingInv, TypeOK

LEMMA RunCopiesClaudeStep == ASSUME BootingInv, RunCopiesClaude PROVE BootingInv'
<1>1. call.at = "files" /\ UNCHANGED <<outside, disk, ctl, boot, vm, images, locks, checked, faults, slip>>
  BY DEF RunCopiesClaude
<1>2. call.copy \in Versions /\ tree \in Versions
  BY <1>1 DEF BootingInv, CallInv, TypeOK
<1>3. [call.copy EXCEPT !["claude"] = tree["claude"]] \in Versions
  BY <1>2 DEF Versions, Parts
<1>4. call' = [call EXCEPT !.at = "copied", !.copy = [call.copy EXCEPT !["claude"] = tree["claude"]]]
  BY DEF RunCopiesClaude
<1>5. call' \in Calls /\ call'.at = "copied" /\ call'.copy \in Versions
  BY <1>3, <1>4 DEF BootingInv, TypeOK, Calls, Copies
<1>6. DefsInv'
  BY <1>1, DefsStay DEF BootingInv, outside
<1> QED
  BY <1>1, <1>5, <1>6, RunPrepares DEF BootingInv, TypeOK

LEMMA RunChecksStep == ASSUME BootingInv, RunChecks PROVE BootingInv'
<1>1. call.at = "copied" /\ UNCHANGED <<outside, disk, ctl, boot, vm, images, locks, faults, slip>>
  BY DEF RunChecks
<1>2. ~ctl.here /\ disk.defs = NoVersions /\ call.copy \in Versions
  BY <1>1, NoRecords DEF BootingInv, CallInv, Within
<1>3. CASE Checked(call.copy) /\ Plans(call.copy)
  <2>1. call' = [call EXCEPT !.at = "planned"] /\ checked' = [defs |-> call.copy, bundled |-> binary]
    BY <1>3 DEF RunChecks
  <2>2. call' \in Calls /\ call'.at = "planned" /\ call'.copy = call.copy
    BY <2>1, CallGoes DEF BootingInv
  <2>3. checked' \in [defs : Copies, bundled : {0} \cup Binaries] /\ checked'.defs # NoVersions
    BY <1>2, <2>1, CheckedVersions DEF BootingInv, TypeOK
  <2>4. Resumable(call.copy) /\ binary \in Binaries
    BY <1>3 DEF Checked, Resumable, BootingInv, TypeOK
  <2>5. DefsInv'
    <3>1. /\ checked'.defs = call.copy /\ checked'.bundled = binary /\ UNCHANGED <<binary, disk, ctl>>
          /\ call.copy \in Versions
      BY <1>1, <1>2, <2>1 DEF outside
    <3> QED
      BY <1>2, <2>4, <3>1 DEF DefsInv, Resumable, LoadsDefinitions, Plans, LoadsReviews, LoadsPitfalls,
        LoadsSettings,
         HasDockerfile, MissingChecks, Loads
  <2> QED
    BY <1>1, <2>1, <2>2, <2>3, <2>5, RunPrepares
<1>4. CASE ~(Checked(call.copy) /\ Plans(call.copy))
  <2>1. call' = [call EXCEPT !.at = "failed"] /\ UNCHANGED checked
    BY <1>4 DEF RunChecks
  <2>2. call' \in Calls /\ call'.at = "failed"
    BY <2>1, CallGoes DEF BootingInv
  <2>3. DefsInv'
    BY <1>1, <2>1, DefsStay DEF BootingInv, outside
  <2> QED
    BY <1>1, <2>1, <2>2, <2>3, RunPrepares DEF BootingInv, TypeOK
<1> QED
  BY <1>3, <1>4

LEMMA RunMakesStep == ASSUME BootingInv, RunMakes PROVE BootingInv'
<1>1. /\ call.at = "planned" /\ call' = [call EXCEPT !.at = "made"]
      /\ UNCHANGED <<outside, ctl, boot, vm, images, locks, checked, faults, slip>>
  BY DEF RunMakes
<1>2. call' \in Calls /\ call'.at = "made" /\ call'.copy = call.copy
  BY <1>1, CallGoes DEF BootingInv
<1>3. ~ctl.here /\ disk = NoDisk /\ boot.at = "none" /\ ~vm.launched
  BY <1>1 DEF BootingInv, CallInv, Within
<1>4. /\ disk' \in Disks /\ disk'.made /\ disk'.state = "STARTING" /\ disk'.defs = disk.defs
      /\ disk'.reviews = disk.reviews
  BY <1>3, NoRecords DEF RunMakes, Disks, NoDisk
<1>5. call.copy = checked.defs /\ checked.defs # NoVersions /\ checked.bundled = binary
  BY <1>1 DEF BootingInv, CallInv
<1>6. CallInv'
  BY <1>1, <1>2, <1>3, <1>4, <1>5 DEF CallInv, Within, outside
<1>7. DefsInv'
  BY <1>1, <1>3, <1>4, DefsWithout DEF BootingInv
<1> QED
  BY <1>1, <1>2, <1>4, <1>6, <1>7, RunGoes DEF BootingInv, TypeOK, Within

LEMMA RunStagesStep == ASSUME BootingInv, RunStages PROVE BootingInv'
<1>1. /\ call.at = "made" /\ call' = [call EXCEPT !.at = "staged"] /\ disk' = [disk EXCEPT !.staged = TRUE]
      /\ UNCHANGED <<outside, ctl, boot, vm, images, locks, checked, faults, slip>>
  BY DEF RunStages
<1>2. call' \in Calls /\ call'.at = "staged" /\ call'.copy = call.copy
  BY <1>1, CallGoes DEF BootingInv
<1>3. ~ctl.here /\ disk.made /\ disk.state = "STARTING" /\ boot.at = "none" /\ ~vm.launched
  BY <1>1 DEF BootingInv, CallInv, Within
<1>4. /\ disk' \in Disks /\ disk'.made /\ disk'.state = "STARTING" /\ disk'.defs = disk.defs
      /\ disk'.reviews = disk.reviews /\ disk'.staged
  BY <1>1, <1>3 DEF BootingInv, TypeOK, Disks
<1>5. call.copy = checked.defs /\ checked.defs # NoVersions /\ checked.bundled = binary
  BY <1>1 DEF BootingInv, CallInv, Within
<1>6. CallInv'
  BY <1>1, <1>2, <1>3, <1>4, <1>5 DEF CallInv, Within, outside
<1>7. DefsInv'
  BY <1>1, <1>3, <1>4, DefsWithout DEF BootingInv
<1> QED
  BY <1>1, <1>2, <1>4, <1>6, <1>7, RunGoes DEF BootingInv, TypeOK, Within

LEMMA RunMovesStep == ASSUME BootingInv, RunMoves PROVE BootingInv'
<1>1. /\ call.at = "staged" /\ call' = [call EXCEPT !.at = "moved"] /\ disk' = [disk EXCEPT !.defs = call.copy]
      /\ UNCHANGED <<outside, ctl, boot, vm, images, locks, checked, faults, slip>>
  BY DEF RunMoves
<1>2. call' \in Calls /\ call'.at = "moved" /\ call'.copy = call.copy
  BY <1>1, CallGoes DEF BootingInv
<1>3. ~ctl.here /\ disk.made /\ disk.state = "STARTING" /\ disk.staged /\ boot.at = "none" /\ ~vm.launched
  BY <1>1 DEF BootingInv, CallInv, Within
<1>4. call.copy = checked.defs /\ checked.defs # NoVersions /\ checked.bundled = binary
  BY <1>1 DEF BootingInv, CallInv, Within
<1>5. /\ disk' \in Disks /\ disk'.made /\ disk'.state = "STARTING" /\ disk'.defs = checked.defs
      /\ disk'.reviews = disk.reviews /\ disk'.staged
  BY <1>1, <1>3, <1>4 DEF BootingInv, TypeOK, Disks, Calls
<1>6. CallInv'
  BY <1>1, <1>2, <1>3, <1>4, <1>5 DEF CallInv, Within, outside
<1>7. DefsInv'
  BY <1>1, <1>3, <1>5 DEF BootingInv, DefsInv, Resumable, LoadsDefinitions, Plans, LoadsReviews, LoadsPitfalls,
     LoadsSettings, HasDockerfile, MissingChecks, Loads
<1> QED
  BY <1>1, <1>2, <1>5, <1>6, <1>7, RunGoes DEF BootingInv, TypeOK, Within

\* The perspectives of a control, and what it leaves on disk.
LEMMA NewRunCtlStep ==
    ASSUME TypeOK, NEW d \in Disks, d.defs # NoVersions, NewRunCtl(d)
    PROVE  /\ ctl' \in Controls /\ ctl'.here /\ ctl'.defs = d.defs /\ ctl'.bundled = binary
           /\ ctl'.reviews = disk'.reviews /\ disk'.reviews # <<0, 0>>
           /\ IF d.reviews = <<0, 0>> THEN disk'.reviews = Merged(d.defs, binary) ELSE disk'.reviews = d.reviews
           /\ disk' \in Disks /\ disk'.made = d.made /\ disk'.state = d.state /\ disk'.staged = d.staged
           /\ disk'.defs = d.defs /\ disk'.engine = d.engine
<1> DEFINE reviews == SnapshotReviews(d)
<1>1. /\ ctl' = [here |-> TRUE, defs |-> d.defs, bundled |-> binary, reviews |-> reviews]
      /\ disk' = [d EXCEPT !.reviews = reviews]
  BY DEF NewRunCtl
<1>2. d.defs \in Copies /\ d.reviews \in Reviewed /\ binary \in Binaries
  BY DEF Disks, TypeOK
<1>3. Merged(d.defs, binary) \in Reviewed /\ Merged(d.defs, binary) # <<0, 0>>
  <2>1. d.defs["reviews"] \in Version
    BY <1>2, VersionOf DEF Parts
  <2> QED
    BY <1>2, <2>1, VersionNumbers DEF Merged, Reviewed
<1>4. reviews \in Reviewed /\ reviews # <<0, 0>>
  BY <1>2, <1>3 DEF SnapshotReviews, Snapshot
<1>5. IF d.reviews = <<0, 0>> THEN reviews = Merged(d.defs, binary) ELSE reviews = d.reviews
  BY DEF SnapshotReviews, Snapshot
<1> HIDE DEF reviews
<1>6. /\ disk' \in Disks /\ disk'.reviews = reviews /\ disk'.made = d.made /\ disk'.state = d.state
      /\ disk'.staged = d.staged /\ disk'.defs = d.defs /\ disk'.engine = d.engine
  BY <1>1, <1>4 DEF Disks
<1>7. ctl' \in Controls /\ ctl'.here /\ ctl'.defs = d.defs /\ ctl'.bundled = binary /\ ctl'.reviews = reviews
  BY <1>1, <1>2, <1>4 DEF Controls
<1> QED
  BY <1>4, <1>5, <1>6, <1>7

LEMMA DefsWith ==
    ASSUME DefsInv, UNCHANGED <<binary, checked>>, ctl'.here, disk'.made, disk'.defs = checked.defs,
           checked.defs # NoVersions, ctl'.defs = disk'.defs, ctl'.bundled = binary,
           binary = checked.bundled \/ "upgraded" \in slip', ctl'.reviews = disk'.reviews, disk'.reviews # <<0, 0>>
    PROVE  DefsInv'
  BY DEF DefsInv, Resumable, LoadsDefinitions, Plans, LoadsReviews, LoadsPitfalls, LoadsSettings, HasDockerfile,
         MissingChecks, Loads

LEMMA RunControlsStep == ASSUME BootingInv, RunControls PROVE BootingInv'
<1>1. call.at = "moved" /\ UNCHANGED <<outside, boot, vm, images, locks, checked, faults, slip>>
  BY DEF RunControls
<1>2. /\ ~ctl.here /\ disk.made /\ disk.state = "STARTING" /\ disk.staged /\ disk.defs # NoVersions
      /\ boot.at = "none" /\ ~vm.launched
  BY <1>1 DEF BootingInv, CallInv, Within
<1>3. call.copy = checked.defs /\ checked.defs # NoVersions /\ checked.bundled = binary
  BY <1>1 DEF BootingInv, CallInv, Within
<1>4. disk.defs = checked.defs /\ Resumable(disk.defs)
  BY <1>2, <1>3 DEF BootingInv, DefsInv
<1>5. Readable(disk.defs)
  BY <1>4 DEF Resumable, Plans, Readable
<1>6. NewRunCtl(disk) /\ call' = [call EXCEPT !.at = "ready"]
  BY <1>5 DEF RunControls
<1>7. /\ ctl' \in Controls /\ ctl'.here /\ ctl'.defs = disk.defs /\ ctl'.bundled = binary
      /\ ctl'.reviews = disk'.reviews /\ disk'.reviews # <<0, 0>>
      /\ IF disk.reviews = <<0, 0>> THEN disk'.reviews = Merged(disk.defs, binary) ELSE disk'.reviews = disk.reviews
      /\ disk' \in Disks /\ disk'.made = disk.made /\ disk'.state = disk.state /\ disk'.staged = disk.staged
      /\ disk'.defs = disk.defs /\ disk'.engine = disk.engine
  BY <1>2, <1>6, NewRunCtlStep DEF BootingInv, TypeOK
<1>8. call' \in Calls /\ call'.at = "ready" /\ call'.copy = call.copy
  BY <1>6, CallGoes DEF BootingInv
<1>9. CallInv'
  BY <1>1, <1>2, <1>3, <1>7, <1>8 DEF CallInv, Within, outside
<1>10. DefsInv'
  BY <1>1, <1>2, <1>3, <1>4, <1>7, DefsWith DEF BootingInv, outside
<1>11. \/ disk'.reviews = disk.reviews /\ UNCHANGED checked
       \/ disk'.reviews = Merged(checked'.defs, binary) /\ checked'.bundled = binary
  BY <1>1, <1>3, <1>4, <1>7
<1> QED
  BY <1>1, <1>2, <1>7, <1>8, <1>9, <1>10, <1>11, RunGoes DEF BootingInv, TypeOK, Within

LEMMA RunFailsStep == ASSUME BootingInv, RunFails PROVE BootingInv'
<1>1. /\ call.at \in Within /\ Faults /\ call' = [call EXCEPT !.at = "failed"]
      /\ disk' = NoDisk /\ ctl' = NoCtl
      /\ UNCHANGED <<outside, boot, vm, images, locks, checked, slip>>
  BY DEF RunFails, Within
<1>2. call' \in Calls /\ call'.at = "failed"
  BY <1>1, CallGoes DEF BootingInv
<1>3. boot.at = "none" /\ ~vm.launched
  BY <1>1 DEF BootingInv, CallInv, Within
<1>4. CallInv'
  BY <1>1, <1>2, <1>3, NoRecords DEF CallInv, Within
<1>5. DefsInv'
  BY <1>1, NoRecords DEF BootingInv, DefsInv, Resumable, LoadsDefinitions, Plans, LoadsReviews, LoadsPitfalls,
     LoadsSettings, HasDockerfile, MissingChecks, Loads
<1>6. faults' \in [count : 0..MaxFaults, here : BOOLEAN]
  BY <1>1, FaultTypes DEF BootingInv
<1>7. checked' \in [defs : Copies, bundled : {0} \cup Binaries]
  BY <1>1 DEF BootingInv, TypeOK
<1>8. call.at # "returned"
  BY <1>1 DEF Within
<1> QED
  BY <1>1, <1>2, <1>4, <1>5, <1>6, <1>7, <1>8, NoRecords, RunGoes

LEMMA RunStartsStep == ASSUME BootingInv, RunStarts PROVE BootingInv'
<1>1. /\ call.at = "ready" /\ call' = [call EXCEPT !.at = "returned"] /\ disk' = [disk EXCEPT !.engine = TRUE]
      /\ boot' = [at |-> "begin", resume |-> FALSE, image |-> 0]
      /\ UNCHANGED <<outside, ctl, vm, images, locks, checked, faults, slip>>
  BY DEF RunStarts, Begin
<1>2. call' \in Calls /\ call'.at = "returned" /\ call'.copy = call.copy
  BY <1>1, CallGoes DEF BootingInv
<1>3. /\ ctl.here /\ disk.made /\ disk.state = "STARTING" /\ disk.staged /\ disk.defs # NoVersions
      /\ boot.at = "none" /\ ~vm.launched
  BY <1>1 DEF BootingInv, CallInv, Within
<1>4. /\ disk' \in Disks /\ disk'.made = disk.made /\ disk'.state = disk.state /\ disk'.staged = disk.staged
      /\ disk'.defs = disk.defs /\ disk'.reviews = disk.reviews /\ disk'.engine
  BY <1>1 DEF BootingInv, TypeOK, Disks
<1>5. boot' \in Boots /\ boot'.at = "begin"
  BY <1>1, VersionNumbers DEF Boots, BootSteps
<1>6. TypeOK'
  BY <1>1, <1>2, <1>4, <1>5 DEF BootingInv, TypeOK, outside
<1>7. CallInv'
  BY <1>1, <1>2, <1>3, <1>4, <1>5 DEF CallInv, Within
<1>8. DefsInv'
  BY <1>1, <1>3, <1>4 DEF BootingInv, DefsInv, Resumable, LoadsDefinitions, Plans, LoadsReviews, LoadsPitfalls,
     LoadsSettings, HasDockerfile, MissingChecks, Loads, outside
<1>9. ReviewsInv'
  <2>1. disk.reviews # <<0, 0>>
    BY <1>3 DEF BootingInv, DefsInv
  <2> QED
    BY <1>1, <1>4, <2>1, ReviewsStay DEF BootingInv
<1>10. WholeInv'
  BY <1>3, <1>4 DEF WholeInv
<1>11. LockInv'
  BY <1>1, <1>3, <1>4, <1>5, LocksStay DEF BootingInv
<1>12. BootInv'
  BY <1>1, <1>3, <1>5 DEF BootInv
<1>13. GuestIsOfTheRun'
  BY <1>1, <1>3, GuestGone
<1>14. ImageInv'
  BY <1>1, <1>3, <1>5, ImagesStay DEF BootingInv
<1> QED
  BY <1>6, <1>7, <1>8, <1>9, <1>10, <1>11, <1>12, <1>13, <1>14 DEF BootingInv

(***************************************************************************)
(* The boot                                                                *)
(***************************************************************************)

\* Who is booted: a workspace whose Run has returned, and that has a control.
LEMMA Booted ==
    ASSUME BootingInv, boot.at # "none"
    PROVE  /\ call.at = "returned" /\ ctl.here /\ disk.made /\ disk.defs = checked.defs /\ checked.defs # NoVersions
           /\ checked.defs \in Versions /\ ctl.defs = checked.defs /\ Resumable(checked.defs)
           /\ ctl.bundled \in Binaries /\ (ctl.bundled = checked.bundled \/ "upgraded" \in slip)
           /\ \E p \in Binaries : /\ p = checked.bundled \/ {"interrupted", "upgraded"} \subseteq slip
                                  /\ ctl.reviews = Merged(checked.defs, p)
<1>1. call.at = "returned" /\ ctl.here
  BY DEF BootingInv, CallInv, BootInv
<1>2. /\ disk.made /\ disk.defs = checked.defs /\ checked.defs # NoVersions /\ ctl.defs = checked.defs
      /\ checked.defs \in Versions /\ Resumable(checked.defs)
      /\ ctl.bundled = binary /\ (binary = checked.bundled \/ "upgraded" \in slip)
      /\ ctl.reviews = disk.reviews /\ disk.reviews # <<0, 0>>
  BY <1>1 DEF BootingInv, DefsInv
<1> QED
  BY <1>1, <1>2 DEF BootingInv, ReviewsInv, TypeOK

\* A step of the boot, after which it goes on.
LEMMA BootGoesOn ==
    ASSUME BootingInv, UNCHANGED <<outside, call, disk, ctl, locks, checked, faults>>, boot.at # "none",
           boot' \in Boots, boot'.at # "none", vm' \in VMs, vm'.launched => vm' = vm, images' \in ImageNames,
           slip \subseteq slip', slip' \subseteq slip \cup Slips, LockInv', BootInv', ImageInv'
    PROVE  BootingInv'
<1>1. TypeOK'
  BY SlipTypes DEF BootingInv, TypeOK, outside
<1>2. call.at = "returned"
  BY Booted
<1>3. CallInv'
  BY <1>2 DEF BootingInv, CallInv, Within
<1>4. DefsInv'
  BY DefsStay DEF BootingInv, outside
<1>5. ReviewsInv' /\ WholeInv'
  BY ReviewsStay, WholeStays DEF BootingInv
<1>6. GuestIsOfTheRun'
  <2>1. CASE vm'.launched
    BY <2>1, GuestStays DEF BootingInv
  <2>2. CASE ~vm'.launched
    BY <2>2, GuestGone
  <2> QED
    BY <2>1, <2>2
<1> QED
  BY <1>1, <1>3, <1>4, <1>5, <1>6 DEF BootingInv

LEMMA BootBeginsStep == ASSUME BootingInv, BootBegins PROVE BootingInv'
<1>1. /\ Booting /\ boot.at = "begin" /\ boot' = [boot EXCEPT !.at = "image"]
      /\ vm' = IF boot.resume THEN Destroyed ELSE vm
      /\ UNCHANGED <<outside, call, disk, ctl, images, locks, checked, faults, slip>>
  BY DEF BootBegins
<1>2. boot' \in Boots /\ boot'.at = "image"
  BY <1>1, BootGoes DEF BootingInv, BootSteps
<1>3. vm' \in VMs /\ vm'.no = vm.no /\ (vm'.launched => vm' = vm)
  BY <1>1, DestroyedRecord DEF BootingInv, TypeOK
<1>4. LockInv'
  BY <1>1, <1>2, <1>3, LocksStay DEF BootingInv
<1>5. BootInv'
  BY <1>1, <1>2 DEF BootInv, Booting
<1>6. ImageInv'
  BY <1>1, <1>2, ImagesStay DEF BootingInv
<1> QED
  BY <1>1, <1>2, <1>3, <1>4, <1>5, <1>6, BootGoesOn DEF BootingInv, TypeOK

\* The image of the copy, whose Dockerfile is there.
LEMMA BootImageStep == ASSUME BootingInv, BootImage PROVE BootingInv'
<1>1. Booting /\ boot.at = "image" /\ UNCHANGED <<outside, call, locks, checked, faults>>
  BY DEF BootImage
<1>2. disk.defs = checked.defs /\ checked.defs \in Versions /\ Resumable(checked.defs) /\ ctl.here
  BY <1>1, Booted
<1>3. HasDockerfile(disk.defs)
  BY <1>2 DEF Resumable, Plans
<1>4. /\ boot' = [boot EXCEPT !.at = "record", !.image = disk.defs["images"]]
      /\ images' = [images EXCEPT !.name = disk.defs["images"]]
      /\ slip' = Crossed /\ UNCHANGED <<disk, ctl, vm>>
  BY <1>3 DEF BootImage, Built
<1>5. disk.defs["images"] \in Version
  BY <1>2, VersionOf DEF Copies, Parts
<1>6. boot' \in Boots /\ boot'.at = "record" /\ boot'.image = disk.defs["images"]
  BY <1>4, <1>5 DEF BootingInv, TypeOK, Boots, BootSteps
<1>7. images' \in ImageNames /\ images'.name = disk.defs["images"] /\ images'.client = images.client
  BY <1>4, <1>5 DEF BootingInv, TypeOK, ImageNames
<1>8. slip \subseteq slip' /\ slip' \subseteq slip \cup Slips /\ (images.client # 0 => "crossed" \in slip')
  BY <1>4 DEF Crossed, Crossing, Slips
<1>9. LockInv'
  BY <1>1, <1>4, <1>6, <1>8, LocksStay DEF BootingInv
<1>10. BootInv'
  BY <1>1, <1>2, <1>4, <1>6 DEF BootInv
<1>11. ImageInv'
  BY <1>6, <1>7, <1>8 DEF ImageInv
<1> QED
  BY <1>1, <1>4, <1>6, <1>7, <1>8, <1>9, <1>10, <1>11, BootGoesOn DEF BootingInv, TypeOK

LEMMA BootRecordsStep == ASSUME BootingInv, BootRecords PROVE BootingInv'
<1>1. /\ Booting /\ boot.at = "record" /\ boot' = [boot EXCEPT !.at = "create"]
      /\ images' = [images EXCEPT !.record = boot.image]
      /\ UNCHANGED <<outside, call, disk, ctl, vm, locks, checked, faults, slip>>
  BY DEF BootRecords, Recorded
<1>2. boot' \in Boots /\ boot'.at = "create" /\ boot'.image = boot.image
  BY <1>1, BootGoes DEF BootingInv, BootSteps
<1>3. /\ images' \in ImageNames /\ images'.name = images.name /\ images'.client = images.client
      /\ images'.record = boot.image
  BY <1>1 DEF BootingInv, TypeOK, ImageNames, Boots
<1>4. LockInv'
  BY <1>1, <1>2, LocksStay DEF BootingInv
<1>5. BootInv'
  BY <1>1, <1>2 DEF BootingInv, BootInv, Booting
<1>6. ImageInv'
  BY <1>1, <1>2, <1>3 DEF BootingInv, ImageInv
<1> QED
  BY <1>1, <1>2, <1>3, <1>4, <1>5, <1>6, BootGoesOn DEF BootingInv, TypeOK

LEMMA BootCreatesStep == ASSUME BootingInv, BootCreates PROVE BootingInv'
<1>1. /\ Booting /\ boot.at = "create" /\ vm.no < MaxVMs /\ boot' = [boot EXCEPT !.at = "bundle"]
      /\ vm' = [NoVM(vm.no + 1) EXCEPT !.on = TRUE, !.image = boot.image]
      /\ UNCHANGED <<outside, call, disk, ctl, images, locks, checked, faults, slip>>
  BY DEF BootCreates
<1>2. boot' \in Boots /\ boot'.at = "bundle"
  BY <1>1, BootGoes DEF BootingInv, BootSteps
<1>3. vm.no \in 0..MaxVMs /\ vm.no + 1 \in 0..MaxVMs /\ boot.image \in Version
  BY <1>1, BoundsAssumption DEF BootingInv, TypeOK, VMs, Boots
<1>4. vm' \in VMs /\ vm'.no = vm.no + 1 /\ vm'.image = boot.image /\ ~vm'.launched /\ vm'.placed = <<>>
  <2> DEFINE made == NoVM(vm.no + 1)
  <2>1. made \in VMs /\ made.no = vm.no + 1 /\ ~made.launched /\ made.placed = <<>>
    BY <1>3, NoVMRecord
  <2>2. vm' = [made EXCEPT !.on = TRUE, !.image = boot.image]
    BY <1>1
  <2> HIDE DEF made
  <2> QED
    BY <1>3, <2>1, <2>2 DEF VMs
<1>5. LockInv'
  <2>1. \A d \in locks : d <= vm.no /\ d \in Int
    BY <1>3 DEF BootingInv, LockInv, TypeOK
  <2> QED
    BY <1>1, <1>2, <1>3, <1>4, <2>1 DEF BootingInv, LockInv, BootFailsOnlyByFault
<1>6. BootInv'
  <2>1. vm'.image = checked'.defs["images"] /\ ctl'.here
    BY <1>1, <1>4 DEF BootingInv, BootInv, Booting
  <2>2. GuestSoFar(0)'
    BY <1>4, <2>1 DEF GuestSoFar
  <2> QED
    BY <1>2, <2>1, <2>2 DEF BootInv
<1>7. ImageInv'
  BY <1>1, <1>2, ImagesStay DEF BootingInv
<1> QED
  BY <1>1, <1>2, <1>4, <1>5, <1>6, <1>7, BootGoesOn DEF BootingInv, TypeOK

\* No lock is in the directory of a VM that has just been made.
LEMMA BootBundlesStep == ASSUME BootingInv, BootBundles PROVE BootingInv'
<1>1. Booting /\ boot.at = "bundle" /\ UNCHANGED <<outside, call, images, locks, checked, faults, slip>>
  BY DEF BootBundles
<1>2. vm.no \notin locks
  BY <1>1 DEF BootingInv, LockInv
<1>3. boot' = [boot EXCEPT !.at = "prepare"] /\ UNCHANGED <<disk, ctl, vm>>
  BY <1>2 DEF BootBundles, BundleDirectory
<1>4. boot' \in Boots /\ boot'.at = "prepare"
  BY <1>3, BootGoes DEF BootingInv, BootSteps
<1>5. LockInv'
  BY <1>1, <1>3, <1>4, LocksStay DEF BootingInv
<1>6. BootInv'
  <2>1. GuestSoFar(0)'
    BY <1>1, <1>3, SoFarStays DEF BootingInv, BootInv
  <2>2. 0 \in 0..(Len(Layout) - 1)
    BY DEF Layout
  <2> QED
    BY <1>1, <1>3, <1>4, <2>1, <2>2 DEF BootInv, Booting
<1>7. ImageInv'
  BY <1>1, <1>4, ImagesStay DEF BootingInv
<1> QED
  BY <1>1, <1>3, <1>4, <1>5, <1>6, <1>7, BootGoesOn DEF BootingInv, TypeOK

\* Each file is the one of the copy.
LEMMA ContentIsPromised ==
    ASSUME BootingInv, boot.at = "prepare", NEW i \in 1..Len(Layout)
    PROVE  /\ Content(Layout[i]) = Promised(ctl.bundled, ctl.reviews[2])[i]
           /\ Content(Layout[i]) \in Version \X Nat
<1>1. ctl.defs = checked.defs /\ checked.defs \in Versions
  BY Booted
<1>2. PICK p \in Binaries : ctl.reviews = Merged(checked.defs, p)
  BY Booted
<1>3. ctl.reviews[2] = p /\ ctl.reviews = <<checked.defs["reviews"], p>>
  BY <1>2 DEF Merged
<1>4. \A part \in Parts : checked.defs[part] \in Version
  BY <1>1, VersionOf DEF Copies
<1>5. ctl.bundled \in Nat /\ p \in Nat /\ vm.no \in Nat /\ 0 \in Nat /\ 1 \in Version
  <2>1. vm.no \in 0..MaxVMs
    BY DEF BootingInv, TypeOK, VMs
  <2>2. ctl.bundled \in Nat /\ p \in Nat
    BY Booted, VersionNumbers
  <2>3. 1 \in Version
    BY BoundsAssumption DEF Version
  <2> QED
    BY <2>1, <2>2, <2>3
<1>6. Len(Layout) = 9
  BY DEF Layout
<1>7. i \in 1..9
  BY <1>6
<1>8. /\ Layout[1] = "clone" /\ Layout[2] = "claude" /\ Layout[3] = "agents" /\ Layout[4] = "settings"
      /\ Layout[5] = "envFiles" /\ Layout[6] = "checks" /\ Layout[7] = "reviews" /\ Layout[8] = "pitfalls"
      /\ Layout[9] = "commands"
  BY DEF Layout
<1>9. /\ Content("clone") = <<1, 0>> /\ Content("claude") = <<checked.defs["claude"], ctl.bundled>>
      /\ Content("agents") = <<checked.defs["workflows"], ctl.bundled>>
      /\ Content("settings") = <<checked.defs["settings"], ctl.bundled>>
      /\ Content("checks") = <<checked.defs["settings"], 0>>
      /\ Content("commands") = <<checked.defs["settings"], 0>>
      /\ Content("envFiles") = <<checked.defs["settings"], vm.no>>
      /\ Content("reviews") = <<checked.defs["reviews"], p>> /\ Content("pitfalls") = <<checked.defs["pitfalls"], 0>>
  BY <1>1, <1>3 DEF Content, Claude, Agents, ClaudeSettings, EnvFiles, Checks, Reviews, Pitfalls, Commands, Plain, WithBundled
<1> DEFINE all == Promised(ctl.bundled, ctl.reviews[2])
<1>10. /\ all[1] = <<1, 0>> /\ all[2] = <<checked.defs["claude"], ctl.bundled>>
       /\ all[3] = <<checked.defs["workflows"], ctl.bundled>>
       /\ all[4] = <<checked.defs["settings"], ctl.bundled>> /\ all[5] = <<checked.defs["settings"], vm.no>>
       /\ all[6] = <<checked.defs["settings"], 0>> /\ all[7] = <<checked.defs["reviews"], p>>
       /\ all[8] = <<checked.defs["pitfalls"], 0>> /\ all[9] = <<checked.defs["settings"], 0>>
  BY <1>3 DEF Promised
<1>11. /\ "claude" \in Parts /\ "workflows" \in Parts /\ "settings" \in Parts /\ "reviews" \in Parts
       /\ "pitfalls" \in Parts
  BY DEF Parts
<1> HIDE DEF all
<1>12. i = 1 \/ i = 2 \/ i = 3 \/ i = 4 \/ i = 5 \/ i = 6 \/ i = 7 \/ i = 8 \/ i = 9
  BY <1>7
<1>13. Content(Layout[i]) = all[i]
  BY <1>8, <1>9, <1>10, <1>12
<1>14. all[i] \in Version \X Nat
  <2>1. \A part \in Parts, k \in Nat : <<checked.defs[part], k>> \in Version \X Nat
    BY <1>4
  <2>2. <<1, 0>> \in Version \X Nat
    BY <1>5
  <2>3. all[1] \in Version \X Nat /\ all[2] \in Version \X Nat /\ all[3] \in Version \X Nat
    BY <1>5, <1>10, <1>11, <2>1, <2>2
  <2>4. all[4] \in Version \X Nat /\ all[5] \in Version \X Nat /\ all[6] \in Version \X Nat
    BY <1>5, <1>10, <1>11, <2>1
  <2>5. all[7] \in Version \X Nat /\ all[8] \in Version \X Nat /\ all[9] \in Version \X Nat
    BY <1>5, <1>10, <1>11, <2>1
  <2> QED
    BY <1>12, <2>3, <2>4, <2>5
<1> QED
  BY <1>13, <1>14 DEF all

LEMMA BootPreparesStep == ASSUME BootingInv, BootPrepares PROVE BootingInv'
<1> DEFINE next == Content(Layout[Len(vm.placed) + 1])
           all == Promised(ctl.bundled, ctl.reviews[2])
<1>1. /\ Booting /\ boot.at = "prepare"
      /\ vm' = [vm EXCEPT !.placed = Append(vm.placed, next)]
      /\ boot' = [boot EXCEPT !.at = IF Len(vm'.placed) = Len(Layout) THEN "launch" ELSE boot.at]
      /\ UNCHANGED <<outside, call, disk, ctl, images, locks, checked, faults, slip>>
  BY DEF BootPrepares
<1>2. PICK n \in 0..(Len(Layout) - 1) : GuestSoFar(n)
  BY <1>1 DEF BootingInv, BootInv
<1>3. Len(Layout) = 9
  BY DEF Layout
<1>4. /\ Len(vm.placed) = n /\ vm.image = checked.defs["images"] /\ ~vm.launched
      /\ \A i \in 1..n : vm.placed[i] = all[i]
  BY <1>2 DEF GuestSoFar
<1>5. n + 1 \in 1..Len(Layout) /\ n \in Nat
  BY <1>3
<1>6. next = all[n + 1] /\ next \in Version \X Nat
  BY <1>1, <1>4, <1>5, ContentIsPromised
<1>7. vm.placed \in Seq(Version \X Nat)
  BY DEF BootingInv, TypeOK, VMs
<1> HIDE DEF next
<1>8. /\ Append(vm.placed, next) \in Seq(Version \X Nat) /\ Len(Append(vm.placed, next)) = n + 1
      /\ Append(vm.placed, next)[n + 1] = next
      /\ \A i \in 1..n : Append(vm.placed, next)[i] = vm.placed[i]
  BY <1>4, <1>6, <1>7, AppendProperties
<1>9. vm' \in VMs /\ vm'.placed = Append(vm.placed, next) /\ vm'.no = vm.no /\ vm'.image = vm.image /\ ~vm'.launched
  BY <1>1, <1>4, <1>8 DEF BootingInv, TypeOK, VMs
<1>10. boot' \in Boots /\ boot'.at = IF n + 1 = 9 THEN "launch" ELSE "prepare"
  <2>1. Len(vm'.placed) = n + 1
    BY <1>8, <1>9
  <2> QED
    BY <1>1, <1>3, <2>1, BootGoes DEF BootingInv, BootSteps
<1> HIDE DEF all
<1>11. GuestSoFar(n + 1)'
  <2>1. Promised(ctl.bundled, ctl.reviews[2])' = all
    BY <1>1, <1>9 DEF Promised, all
  <2>2. \A i \in 1..(n + 1) : vm'.placed[i] = all[i]
    BY <1>4, <1>5, <1>6, <1>8, <1>9
  <2> QED
    BY <1>1, <1>4, <1>8, <1>9, <2>1, <2>2 DEF GuestSoFar
<1>12. LockInv'
  BY <1>1, <1>9, <1>10, LocksStay DEF BootingInv
<1>13. BootInv'
  <2>1. CASE n + 1 = 9
    BY <1>1, <1>3, <1>10, <1>11, <2>1 DEF BootInv, Booting
  <2>2. CASE n + 1 # 9
    <3>1. n + 1 \in 0..(Len(Layout) - 1)
      BY <1>3, <2>2
    <3> QED
      BY <1>1, <1>10, <1>11, <2>2, <3>1 DEF BootInv, Booting
  <2> QED
    BY <2>1, <2>2
<1>14. ImageInv'
  BY <1>1, <1>10, ImagesStay DEF BootingInv
<1> QED
  BY <1>1, <1>9, <1>10, <1>12, <1>13, <1>14, BootGoesOn DEF BootingInv, TypeOK

\* A guest that has all of its files has those that were promised.
LEMMA GuestIsPrepared ==
    ASSUME BootingInv, GuestSoFar(Len(Layout)), ctl.here
    PROVE  vm.placed = Promised(ctl.bundled, ctl.reviews[2])
<1> DEFINE all == Promised(ctl.bundled, ctl.reviews[2])
<1>1. Len(Layout) = 9
  BY DEF Layout
<1>2. Len(vm.placed) = 9 /\ \A i \in 1..9 : vm.placed[i] = all[i]
  BY <1>1 DEF GuestSoFar
<1>3. all = [i \in 1..9 |-> all[i]]
  BY DEF Promised
<1>4. vm.placed \in Seq(Version \X Nat)
  BY DEF BootingInv, TypeOK, VMs
<1>5. vm.placed = [i \in 1..9 |-> vm.placed[i]]
  <2>1. vm.placed \in [1..Len(vm.placed) -> Version \X Nat]
    BY <1>4, LenProperties
  <2> QED
    BY <1>2, <2>1
<1> HIDE DEF all
<1>6. vm.placed = all
  BY <1>2, <1>3, <1>5
<1> QED
  BY <1>6 DEF all

LEMMA BootLaunchesStep == ASSUME BootingInv, BootLaunches PROVE BootingInv'
<1> DEFINE state == IF boot.resume /\ ~disk.engine THEN "SUSPENDED" ELSE "RUNNING"
<1>1. /\ Booting /\ boot.at = "launch" /\ vm' = [vm EXCEPT !.launched = TRUE]
      /\ boot' = NoBoot /\ disk' = [disk EXCEPT !.state = state]
      /\ UNCHANGED <<outside, call, ctl, images, locks, checked, faults, slip>>
  BY DEF BootLaunches
<1>2. /\ disk' \in Disks /\ disk'.state = state /\ disk'.made = disk.made /\ disk'.staged = disk.staged
      /\ disk'.defs = disk.defs /\ disk'.reviews = disk.reviews /\ disk'.engine = disk.engine
  BY <1>1, StateChanges DEF BootingInv
<1>3. vm' \in VMs /\ vm'.no = vm.no /\ vm'.image = vm.image /\ vm'.placed = vm.placed
  BY <1>1 DEF BootingInv, TypeOK, VMs
<1>4. boot' \in Boots /\ boot'.at = "none"
  BY <1>1, NoRecords
<1>5. TypeOK'
  BY <1>1, <1>2, <1>3, <1>4 DEF BootingInv, TypeOK, outside
<1>6. call.at = "returned" /\ ctl.here /\ disk.made /\ checked.defs \in Versions
  BY <1>1, Booted
<1>7. CallInv'
  BY <1>1, <1>2, <1>4, <1>6 DEF CallInv, Within
<1>8. DefsInv'
  BY <1>1, <1>2, <1>6 DEF BootingInv, DefsInv, Resumable, LoadsDefinitions, Plans, LoadsReviews, LoadsPitfalls,
     LoadsSettings, HasDockerfile, MissingChecks, Loads, outside
<1>9. ReviewsInv'
  BY <1>1, <1>2, ReviewsStay DEF BootingInv
<1>10. WholeInv'
  BY <1>1, <1>2 DEF BootingInv, WholeInv
<1>11. LockInv'
  <2>1. state = "SUSPENDED" => "interrupted" \in slip
    BY <1>6 DEF BootingInv, WholeInv, Within
  <2> QED
    BY <1>1, <1>2, <1>3, <1>4, <2>1 DEF BootingInv, LockInv, BootFailsOnlyByFault
<1>12. BootInv'
  BY <1>4 DEF BootInv
<1>13. GuestIsOfTheRun'
  <2>1. GuestSoFar(Len(Layout))
    BY <1>1 DEF BootingInv, BootInv
  <2>2. vm.image = checked.defs["images"]
    BY <2>1 DEF GuestSoFar
  <2>3. PICK p \in Binaries : /\ p = checked.bundled \/ {"interrupted", "upgraded"} \subseteq slip
                              /\ ctl.reviews = Merged(checked.defs, p)
    BY <1>1, Booted
  <2>4. ctl.bundled \in Binaries /\ (ctl.bundled = checked.bundled \/ "upgraded" \in slip)
    BY <1>1, Booted
  <2>5. vm.placed = Promised(ctl.bundled, p)
    BY <1>6, <2>1, <2>3, GuestIsPrepared DEF Merged
  <2>6. Promised(ctl.bundled, p) = Promised(ctl.bundled, p)'
    BY <1>1, <1>3 DEF Promised
  <2> QED
    BY <1>1, <1>3, <2>2, <2>3, <2>4, <2>5, <2>6 DEF GuestIsOfTheRun
<1>14. ImageInv'
  BY <1>1, <1>4, ImagesStay DEF BootingInv
<1> QED
  BY <1>5, <1>7, <1>8, <1>9, <1>10, <1>11, <1>12, <1>13, <1>14 DEF BootingInv

\* A step fails, and it is on record.
LEMMA BootFailsStep == ASSUME BootingInv, BootFails PROVE BootingInv'
<1>1. /\ Booting /\ Faults /\ boot' = NoBoot /\ ctl' = NoCtl /\ vm' = Destroyed
      /\ disk' = [disk EXCEPT !.state = "SUSPENDED"]
      /\ slip' = Unrecorded
      /\ UNCHANGED <<outside, call, images, locks, checked>>
  BY DEF BootFails, Suspend
<1>2. /\ disk' \in Disks /\ disk'.state = "SUSPENDED" /\ disk'.made = disk.made /\ disk'.staged = disk.staged
      /\ disk'.defs = disk.defs /\ disk'.reviews = disk.reviews /\ disk'.engine = disk.engine
  BY <1>1, StateChanges DEF BootingInv
<1>3. vm' \in VMs /\ vm'.no = vm.no /\ ~vm'.launched
  BY <1>1, DestroyedRecord DEF BootingInv
<1>4. boot' \in Boots /\ boot'.at = "none" /\ ctl' \in Controls /\ ~ctl'.here
  BY <1>1, NoRecords
<1>5. faults' \in [count : 0..MaxFaults, here : BOOLEAN] /\ faults'.here
  BY <1>1, FaultTypes DEF BootingInv
<1>6. /\ slip \subseteq slip' /\ slip' \subseteq slip \cup Slips
      /\ (boot.at = "record" => "unrecorded" \in slip')
  BY <1>1 DEF Unrecorded, Slips
<1>7. TypeOK'
  BY <1>1, <1>2, <1>3, <1>4, <1>5, <1>6, SlipTypes DEF BootingInv, TypeOK, outside
<1>8. call.at = "returned" /\ disk.made
  BY <1>1, Booted DEF Booting
<1>9. CallInv'
  BY <1>1, <1>2, <1>4, <1>8 DEF CallInv, Within
<1>10. DefsInv'
  BY <1>1, <1>2, <1>4, DefsWithout DEF BootingInv
<1>11. ReviewsInv'
  BY <1>1, <1>2, <1>6, ReviewsStay DEF BootingInv
<1>12. WholeInv'
  BY <1>1, <1>2, <1>6 DEF BootingInv, WholeInv
<1>13. LockInv'
  BY <1>1, <1>3, <1>4, <1>5 DEF BootingInv, LockInv, BootFailsOnlyByFault
<1>14. BootInv' /\ GuestIsOfTheRun'
  BY <1>3, <1>4, GuestGone DEF BootInv
<1>15. ImageInv'
  <2>1. CASE boot.at = "record"
    BY <1>6, <2>1 DEF ImageInv
  <2>2. CASE boot.at # "record"
    BY <1>1, <1>4, <1>6, <2>2, ImagesStay DEF BootingInv
  <2> QED
    BY <2>1, <2>2
<1> QED
  BY <1>7, <1>9, <1>10, <1>11, <1>12, <1>13, <1>14, <1>15 DEF BootingInv

(***************************************************************************)
(* Stop, Resume, and the end of serve                                      *)
(***************************************************************************)

LEMMA CancelledLocks ==
    ASSUME BootingInv
    PROVE  Cancelled \subseteq 0..MaxVMs /\ \A d \in Cancelled : d <= vm.no
<1>1. vm.no \in 0..MaxVMs /\ vm.no <= vm.no
  BY BoundsAssumption DEF BootingInv, TypeOK, VMs
<1> QED
  BY <1>1 DEF Cancelled, BundleDirectory, BootingInv, TypeOK, LockInv

LEMMA StopStep == ASSUME BootingInv, Stop PROVE BootingInv'
<1>1. /\ Unlocked /\ disk.made /\ disk' = [disk EXCEPT !.state = "STOPPED"]
      /\ ctl' = NoCtl /\ boot' = NoBoot /\ vm' = Destroyed
      /\ locks' = Cancelled /\ faults' = [faults EXCEPT !.here = FALSE] /\ slip' = Unrecorded
      /\ UNCHANGED <<outside, call, images, checked>>
  BY DEF Stop
<1>2. /\ disk' \in Disks /\ disk'.state = "STOPPED" /\ disk'.made = disk.made /\ disk'.staged = disk.staged
      /\ disk'.defs = disk.defs /\ disk'.reviews = disk.reviews /\ disk'.engine = disk.engine
  BY <1>1, StateChanges DEF BootingInv
<1>3. vm' \in VMs /\ vm'.no = vm.no /\ ~vm'.launched
  BY <1>1, DestroyedRecord DEF BootingInv
<1>4. boot' \in Boots /\ boot'.at = "none" /\ ctl' \in Controls /\ ~ctl'.here
  BY <1>1, NoRecords
<1>5. faults' \in [count : 0..MaxFaults, here : BOOLEAN]
  BY <1>1 DEF BootingInv, TypeOK
<1>6. /\ slip \subseteq slip' /\ slip' \subseteq slip \cup Slips
      /\ (boot.at = "record" => "unrecorded" \in slip')
  BY <1>1 DEF Unrecorded, Slips
<1>7. TypeOK'
  BY <1>1, <1>2, <1>3, <1>4, <1>5, <1>6, SlipTypes, CancelledLocks DEF BootingInv, TypeOK, outside
<1>8. call.at = "returned"
  BY <1>1 DEF Unlocked, BootingInv, CallInv, Within
<1>9. CallInv'
  BY <1>1, <1>2, <1>4, <1>8 DEF CallInv, Within
<1>10. DefsInv'
  BY <1>1, <1>2, <1>4, DefsWithout DEF BootingInv
<1>11. ReviewsInv'
  BY <1>1, <1>2, <1>6, ReviewsStay DEF BootingInv
<1>12. WholeInv'
  BY <1>1, <1>2, <1>6 DEF BootingInv, WholeInv
<1>13. LockInv'
  BY <1>1, <1>2, <1>3, <1>4, CancelledLocks DEF LockInv, BootFailsOnlyByFault
<1>14. BootInv' /\ GuestIsOfTheRun'
  BY <1>3, <1>4, GuestGone DEF BootInv
<1>15. ImageInv'
  <2>1. CASE boot.at = "record"
    BY <1>6, <2>1 DEF ImageInv
  <2>2. CASE boot.at # "record"
    BY <1>1, <1>4, <1>6, <2>2, ImagesStay DEF BootingInv
  <2> QED
    BY <2>1, <2>2
<1> QED
  BY <1>7, <1>9, <1>10, <1>11, <1>12, <1>13, <1>14, <1>15 DEF BootingInv

\* The run is built again, from the definitions on disk.
LEMMA ResumeStep == ASSUME BootingInv, Resume PROVE BootingInv'
<1> DEFINE starting == [disk EXCEPT !.state = "STARTING"]
<1>1. /\ Unlocked /\ disk.made /\ disk.state \in {"STOPPED", "SUSPENDED"}
      /\ disk.defs # NoVersions /\ NewRunCtl(starting)
      /\ vm' = IF disk.state = "SUSPENDED" THEN Destroyed ELSE vm
      /\ boot' = [at |-> "begin", resume |-> TRUE, image |-> 0]
      /\ faults' = [faults EXCEPT !.here = FALSE]
      /\ slip' = IF binary = checked.bundled THEN slip ELSE slip \cup {"upgraded"}
      /\ UNCHANGED <<outside, call, images, locks, checked>>
  BY DEF Resume, Resumes, Begin
<1>2. /\ starting \in Disks /\ starting.state = "STARTING" /\ starting.made = disk.made
      /\ starting.staged = disk.staged /\ starting.defs = disk.defs /\ starting.reviews = disk.reviews
      /\ starting.engine = disk.engine
  BY DEF BootingInv, TypeOK, Disks
<1> HIDE DEF starting
<1>3. /\ ctl' \in Controls /\ ctl'.here /\ ctl'.defs = disk.defs /\ ctl'.bundled = binary
      /\ ctl'.reviews = disk'.reviews /\ disk'.reviews # <<0, 0>>
      /\ IF disk.reviews = <<0, 0>> THEN disk'.reviews = Merged(disk.defs, binary) ELSE disk'.reviews = disk.reviews
      /\ disk' \in Disks /\ disk'.made /\ disk'.state = "STARTING" /\ disk'.staged = disk.staged
      /\ disk'.defs = disk.defs /\ disk'.engine = disk.engine
  <2>1. TypeOK /\ starting.defs # NoVersions
    BY <1>1, <1>2 DEF BootingInv
  <2> QED
    BY <1>1, <1>2, <2>1, NewRunCtlStep
<1>4. vm' \in VMs /\ vm'.no = vm.no /\ (vm'.launched => vm' = vm)
  BY <1>1, DestroyedRecord DEF BootingInv, TypeOK
<1>5. boot' \in Boots /\ boot'.at = "begin"
  BY <1>1, VersionNumbers DEF Boots, BootSteps
<1>6. faults' \in [count : 0..MaxFaults, here : BOOLEAN]
  BY <1>1 DEF BootingInv, TypeOK
<1>7. /\ slip \subseteq slip' /\ slip' \subseteq slip \cup Slips
      /\ (binary = checked.bundled \/ "upgraded" \in slip')
  BY <1>1 DEF Slips
<1>8. TypeOK'
  BY <1>1, <1>3, <1>4, <1>5, <1>6, <1>7, SlipTypes DEF BootingInv, TypeOK, outside
<1>9. call.at = "returned"
  BY <1>1 DEF Unlocked, BootingInv, CallInv, Within
<1>10. CallInv'
  BY <1>1, <1>3, <1>9 DEF CallInv, Within
<1>11. disk.defs = checked.defs
  BY <1>1 DEF BootingInv, DefsInv
<1>12. DefsInv'
  BY <1>1, <1>3, <1>7, <1>11, DefsWith DEF BootingInv, outside
<1>13. ReviewsInv'
  <2>1. CASE disk.reviews = <<0, 0>>
    <3>1. "interrupted" \in slip'
      BY <1>1, <1>7, <1>9, <2>1 DEF BootingInv, ReviewsInv
    <3>2. disk'.reviews = Merged(checked.defs, binary) /\ binary \in Binaries
      BY <1>3, <1>11, <2>1 DEF BootingInv, TypeOK
    <3> QED
      BY <1>1, <1>3, <1>7, <3>1, <3>2 DEF ReviewsInv, Merged
  <2>2. CASE disk.reviews # <<0, 0>>
    BY <1>1, <1>3, <1>7, <2>2, ReviewsStay DEF BootingInv
  <2> QED
    BY <2>1, <2>2
<1>14. WholeInv'
  BY <1>1, <1>3, <1>7 DEF BootingInv, WholeInv
<1>15. LockInv'
  BY <1>1, <1>3, <1>4, <1>5 DEF BootingInv, LockInv, BootFailsOnlyByFault
<1>16. BootInv'
  BY <1>3, <1>5 DEF BootInv
<1>17. GuestIsOfTheRun'
  <2>1. CASE vm'.launched
    BY <1>1, <1>4, <1>7, <2>1, GuestStays DEF BootingInv
  <2>2. CASE ~vm'.launched
    BY <2>2, GuestGone
  <2> QED
    BY <2>1, <2>2
<1>18. ImageInv'
  <2>1. boot.at = "none"
    BY <1>1 DEF BootingInv, CallInv
  <2> QED
    BY <1>1, <1>5, <1>7, <2>1, ImagesStay DEF BootingInv
<1> QED
  BY <1>8, <1>10, <1>12, <1>13, <1>14, <1>15, <1>16, <1>17, <1>18 DEF BootingInv

\* What a Resume that fails leaves: the old state, and perhaps the perspectives.
LEMMA ResumeFailsStep == ASSUME BootingInv, ResumeFails PROVE BootingInv'
<1>1. PICK reviews \in {disk.reviews, SnapshotReviews(disk)} :
        /\ disk' = [disk EXCEPT !.reviews = reviews]
        /\ slip' = IF reviews = disk.reviews \/ binary = checked.bundled THEN slip ELSE slip \cup {"upgraded"}
  BY DEF ResumeFails
<1>2. /\ Unlocked /\ disk.made /\ disk.state \in {"STOPPED", "SUSPENDED"} /\ disk.defs # NoVersions
      /\ vm' = IF disk.state = "SUSPENDED" THEN Destroyed ELSE vm
      /\ faults.count < MaxFaults /\ faults' = [faults EXCEPT !.count = faults.count + 1]
      /\ ctl' = NoCtl /\ boot' = boot
      /\ UNCHANGED <<outside, call, images, locks, checked>>
  BY DEF ResumeFails, Resumes
<1>3. TypeOK /\ disk.defs = checked.defs /\ call.at = "returned" /\ boot.at = "none"
  BY <1>2 DEF BootingInv, DefsInv, CallInv, Unlocked, Within
<1>4. /\ reviews \in Reviewed
      /\ \/ reviews = disk.reviews
         \/ disk.reviews = <<0, 0>> /\ reviews = Merged(checked.defs, binary)
  <2>1. SnapshotReviews(disk) = IF disk.reviews = <<0, 0>> THEN Merged(disk.defs, binary) ELSE disk.reviews
    BY DEF SnapshotReviews, Snapshot
  <2>2. disk.reviews \in Reviewed /\ disk.defs \in Copies /\ binary \in Binaries
    BY <1>3 DEF TypeOK, Disks
  <2>3. Merged(disk.defs, binary) \in Reviewed
    <3>1. disk.defs["reviews"] \in Version
      BY <2>2, VersionOf DEF Parts
    <3> QED
      BY <2>2, <3>1, VersionNumbers DEF Merged, Reviewed
  <2> QED
    BY <1>3, <2>1, <2>2, <2>3
<1>5. /\ disk' \in Disks /\ disk'.reviews = reviews /\ disk'.made = disk.made /\ disk'.state = disk.state
      /\ disk'.staged = disk.staged /\ disk'.defs = disk.defs /\ disk'.engine = disk.engine
  BY <1>1, <1>3, <1>4 DEF TypeOK, Disks
<1>6. vm' \in VMs /\ vm'.no = vm.no /\ (vm'.launched => vm' = vm)
  BY <1>2, DestroyedRecord DEF BootingInv, TypeOK
<1>7. ctl' \in Controls /\ ~ctl'.here
  BY <1>2, NoRecords
<1>8. faults' \in [count : 0..MaxFaults, here : BOOLEAN] /\ faults'.here = faults.here
  BY <1>2, <1>3, BoundsAssumption DEF TypeOK
<1>9. /\ slip \subseteq slip' /\ slip' \subseteq slip \cup Slips
      /\ slip' \subseteq slip \cup {"upgraded"}
      /\ reviews = disk.reviews \/ binary = checked.bundled \/ "upgraded" \in slip'
  BY <1>1 DEF Slips
<1>10. TypeOK'
  BY <1>2, <1>3, <1>5, <1>6, <1>7, <1>8, <1>9, SlipTypes DEF TypeOK, outside
<1>11. CallInv'
  BY <1>2, <1>3, <1>5, <1>7 DEF CallInv, Within
<1>12. DefsInv'
  BY <1>2, <1>5, <1>7, DefsWithout DEF BootingInv
<1>13. ReviewsInv'
  <2>1. CASE reviews = disk.reviews
    BY <1>2, <1>3, <1>5, <1>9, <2>1, ReviewsStay DEF BootingInv
  <2>2. CASE disk.reviews = <<0, 0>> /\ reviews = Merged(checked.defs, binary)
    <3>1. "interrupted" \in slip'
      BY <1>2, <1>3, <1>9, <2>2 DEF BootingInv, ReviewsInv
    <3>2. binary \in Binaries /\ (binary = checked.bundled \/ "upgraded" \in slip' \/ reviews = disk.reviews)
      BY <1>3, <1>9 DEF TypeOK
    <3> QED
      BY <1>2, <1>3, <1>5, <1>9, <2>2, <3>1, <3>2 DEF ReviewsInv, Merged
  <2> QED
    BY <1>4, <2>1, <2>2
<1>14. WholeInv'
  BY <1>2, <1>5, <1>9 DEF BootingInv, WholeInv
<1>15. LockInv'
  BY <1>2, <1>3, <1>5, <1>6, <1>8, <1>9 DEF BootingInv, LockInv, BootFailsOnlyByFault
<1>16. BootInv'
  BY <1>2, <1>3 DEF BootInv
<1>17. GuestIsOfTheRun'
  <2>1. CASE vm'.launched
    BY <1>2, <1>6, <1>9, <2>1, GuestStays DEF BootingInv
  <2>2. CASE ~vm'.launched
    BY <2>2, GuestGone
  <2> QED
    BY <2>1, <2>2
<1>18. ImageInv'
  BY <1>2, <1>3, <1>9, ImagesStay DEF BootingInv
<1> QED
  BY <1>10, <1>11, <1>12, <1>13, <1>14, <1>15, <1>16, <1>17, <1>18 DEF BootingInv

\* What is on disk stays.
LEMMA RestartStep == ASSUME BootingInv, NEW b \in Binaries, Restart(b) PROVE BootingInv'
<1> DEFINE state == IF disk.state \in {"STARTING", "RUNNING"} THEN "STOPPED" ELSE disk.state
<1>1. /\ restarts < MaxRestarts /\ restarts' = restarts + 1 /\ binary' = b
      /\ ctl' = NoCtl /\ boot' = NoBoot /\ locks' = Cancelled
      /\ disk' = [disk EXCEPT !.state = state]
      /\ call' = IF call.at = "idle" THEN call ELSE [call EXCEPT !.at = "returned"]
      /\ images' = [images EXCEPT !.client = 0]
      /\ slip' = (IF call.at \in Within THEN slip \cup {"interrupted"} ELSE slip)
                   \cup (IF Crossing THEN {"unrecorded"} ELSE {})
      /\ faults' = [faults EXCEPT !.here = faults.here /\ disk.state = "SUSPENDED"]
      /\ UNCHANGED <<tree, vm, checked>>
  BY DEF Restart, Within
<1>2. /\ disk' \in Disks /\ disk'.state = state /\ disk'.made = disk.made /\ disk'.staged = disk.staged
      /\ disk'.defs = disk.defs /\ disk'.reviews = disk.reviews /\ disk'.engine = disk.engine
  <2>1. state \in {"none", "STARTING", "RUNNING", "STOPPED", "SUSPENDED"}
    BY DEF BootingInv, TypeOK, Disks
  <2> HIDE DEF state
  <2> QED
    BY <1>1, <2>1, StateChanges DEF BootingInv
<1>3. call' \in Calls /\ call'.at = IF call.at = "idle" THEN "idle" ELSE "returned"
  BY <1>1, CallGoes DEF BootingInv, TypeOK
<1>4. boot' \in Boots /\ boot'.at = "none" /\ ctl' \in Controls /\ ~ctl'.here
  BY <1>1, NoRecords
<1>5. /\ images' \in ImageNames /\ images'.name = images.name /\ images'.record = images.record
      /\ images'.client = 0
  BY <1>1, VersionNumbers DEF BootingInv, TypeOK, ImageNames
<1>6. /\ slip \subseteq slip' /\ slip' \subseteq slip \cup Slips
      /\ (call.at \in Within => "interrupted" \in slip') /\ (Crossing => "unrecorded" \in slip')
  BY <1>1 DEF Slips
<1>7. faults' \in [count : 0..MaxFaults, here : BOOLEAN] /\ (disk.state = "SUSPENDED" => faults'.here = faults.here)
  BY <1>1 DEF BootingInv, TypeOK
<1>8. restarts' \in 0..MaxRestarts
  BY <1>1, BoundsAssumption DEF BootingInv, TypeOK
<1>9. TypeOK'
  BY <1>1, <1>2, <1>3, <1>4, <1>5, <1>6, <1>7, <1>8, SlipTypes, CancelledLocks DEF BootingInv, TypeOK
<1>10. ~disk.made => disk' = disk /\ disk = NoDisk
  <2>1. ASSUME ~disk.made PROVE disk' = disk /\ disk = NoDisk
    <3>1. disk = NoDisk /\ state = "none"
      BY <2>1, NoRecords DEF BootingInv, CallInv
    <3> QED
      BY <1>1, <3>1 DEF NoDisk
  <2> QED
    BY <2>1
<1>11. CallInv'
  BY <1>1, <1>2, <1>3, <1>4, <1>10 DEF BootingInv, CallInv, Within
<1>12. DefsInv'
  BY <1>1, <1>2, <1>4, DefsWithout DEF BootingInv
<1>13. disk.made => call.at = "returned" \/ "interrupted" \in slip'
  BY <1>6 DEF BootingInv, CallInv
<1>14. ReviewsInv'
  BY <1>1, <1>2, <1>6, <1>13, ReviewsStay DEF BootingInv
<1>15. WholeInv'
  BY <1>1, <1>2, <1>6, <1>13 DEF BootingInv, WholeInv, Within
<1>16. LockInv'
  BY <1>1, <1>2, <1>4, <1>6, <1>7, CancelledLocks DEF BootingInv, LockInv, BootFailsOnlyByFault
<1>17. BootInv'
  BY <1>4 DEF BootInv
<1>18. GuestIsOfTheRun'
  BY <1>1, <1>6, GuestStays DEF BootingInv
<1>19. ImageInv'
  BY <1>4, <1>5, <1>6 DEF BootingInv, ImageInv, Crossing
<1> QED
  BY <1>9, <1>11, <1>12, <1>14, <1>15, <1>16, <1>17, <1>18, <1>19 DEF BootingInv

LEMMA RecoverStep == ASSUME BootingInv, Recover PROVE BootingInv'
<1>1. /\ ~ctl.here /\ vm' = Destroyed
      /\ UNCHANGED <<outside, call, disk, ctl, boot, images, locks, checked, faults, slip>>
  BY DEF Recover
<1>2. vm' \in VMs /\ vm'.no = vm.no /\ ~vm'.launched
  BY <1>1, DestroyedRecord DEF BootingInv
<1>3. boot.at = "none"
  BY <1>1 DEF BootingInv, BootInv
<1>4. TypeOK'
  BY <1>1, <1>2 DEF BootingInv, TypeOK, outside
<1>5. CallInv'
  BY <1>1, <1>2 DEF BootingInv, CallInv, outside
<1>6. DefsInv' /\ ReviewsInv' /\ WholeInv'
  BY <1>1, DefsStay, ReviewsStay, WholeStays DEF BootingInv, outside
<1>7. LockInv'
  BY <1>1, <1>2, LocksStay DEF BootingInv
<1>8. BootInv' /\ GuestIsOfTheRun'
  BY <1>1, <1>2, <1>3, GuestGone DEF BootInv
<1>9. ImageInv'
  BY <1>1, ImagesStay DEF BootingInv
<1> QED
  BY <1>4, <1>5, <1>6, <1>7, <1>8, <1>9 DEF BootingInv

(***************************************************************************)
(* The theorems                                                            *)
(***************************************************************************)

LEMMA BootingStutters == ASSUME BootingInv, UNCHANGED vars PROVE BootingInv'
<1>1. /\ UNCHANGED <<tree, binary, restarts, call, disk, ctl, boot, vm, locks, checked, faults>>
      /\ UNCHANGED <<images, slip>>
  BY DEF vars, outside
<1>2. ImageInv'
  BY <1>1, ImagesStay DEF BootingInv
<1> QED
  BY <1>1, <1>2, RunStays DEF BootingInv, TypeOK

LEMMA BootingNext == BootingInv /\ [Next]_vars => BootingInv'
<1> SUFFICES ASSUME BootingInv, [Next]_vars PROVE BootingInv'
  OBVIOUS
<1>1. CASE \E p \in Edited : Edit(p)
  BY <1>1, EditStep
<1>2. CASE Run
  BY <1>2, RunCopiesStep, RunCopiesClaudeStep, RunChecksStep, RunMakesStep, RunStagesStep, RunMovesStep,
     RunControlsStep, RunStartsStep, RunFailsStep DEF Run
<1>3. CASE BootNext
  BY <1>3, BootBeginsStep, BootImageStep, BootRecordsStep, BootCreatesStep, BootBundlesStep, BootPreparesStep,
     BootLaunchesStep, BootFailsStep DEF BootNext
<1>4. CASE ImageNext
  BY <1>4, ClientBuildsStep, ClientRecordsStep, ClientLeavesStep DEF ImageNext
<1>5. CASE Stop \/ Resume \/ ResumeFails \/ Recover
  BY <1>5, StopStep, ResumeStep, ResumeFailsStep, RecoverStep
<1>6. CASE \E b \in Binaries : b \in {binary, binary + 1} /\ Restart(b)
  BY <1>6, RestartStep
<1>7. CASE UNCHANGED vars
  BY <1>7, BootingStutters
<1> QED
  BY <1>1, <1>2, <1>3, <1>4, <1>5, <1>6, <1>7 DEF Next

\* The invariant of Run, of the boot and of the images, the types included.
THEOREM BootingHolds == Spec => []BootingInv
<1>1. Init => BootingInv
  BY BootingInit
<1>2. BootingInv /\ [Next]_vars => BootingInv'
  BY BootingNext
<1> QED
  BY <1>1, <1>2, PTL DEF Spec

\* Claude Code is launched only in a guest that holds what Run has checked, each file of it, and the
\* engine finds the checks that its workflows call: however often .masuda is edited, the run
\* stopped and resumed, a boot failed, and serve restarted, with this binary or another.
THEOREM RunsWhatWasChecked == Spec => []RunsWhatWasCheckedUnlessUpgraded
<1>1. BootingInv => RunsWhatWasCheckedUnlessUpgraded
  <2> SUFFICES ASSUME BootingInv PROVE GuestIsOfTheRun /\ EngineFindsItsChecks
    BY DEF RunsWhatWasCheckedUnlessUpgraded
  <2>1. ctl.here => ctl.defs = checked.defs /\ Resumable(checked.defs)
    BY DEF BootingInv, DefsInv
  <2> QED
    BY <2>1 DEF BootingInv, EngineFindsItsChecks, Resumable, Plans
<1> QED
  BY <1>1, BootingHolds, PTL

\* A boot is suspended only by a fault of its own, not by the lock that a cancelled one has left, and
\* a workspace that a call sees outside Run has its clone, its engine and definitions that can be
\* resumed, unless serve ended in the middle of Run.
THEOREM FailuresLeaveNothing == Spec => []FailuresLeaveNothingUnlessInterrupted
<1>1. BootingInv => FailuresLeaveNothingUnlessInterrupted
  <2> SUFFICES ASSUME BootingInv PROVE BootFailsOnlyByFault /\ WorkspaceIsWholeUnlessInterrupted
    BY DEF FailuresLeaveNothingUnlessInterrupted
  <2>1. BootFailsOnlyByFault
    BY DEF BootingInv, LockInv
  <2>2. disk.defs # NoVersions => Resumable(disk.defs)
    BY DEF BootingInv, DefsInv
  <2>3. disk.made /\ (Unlocked \/ disk.state = "STOPPED") => call.at \notin Within
    BY DEF BootingInv, CallInv, Unlocked, Within
  <2> QED
    BY <2>1, <2>2, <2>3 DEF BootingInv, WholeInv, WorkspaceIsWholeUnlessInterrupted
<1> QED
  BY <1>1, BootingHolds, PTL

\* The record of serve tells the build that the name of the image stands for, unless two builds have
\* crossed or one was cut off before its record.
THEOREM RecordIsOfTheName == Spec => []RecordIsOfTheNameUnlessSlip
<1>1. BootingInv => RecordIsOfTheNameUnlessSlip
  BY DEF BootingInv, ImageInv, RecordIsOfTheNameUnlessSlip, ListImages, LoadImageRecord
<1> QED
  BY <1>1, BootingHolds, PTL

(***************************************************************************)
(* The approvals: the inductive invariant                                  *)
(***************************************************************************)

\* A call that has read the files holds configService.mu, and knows what it is to write.
MutexInv == \A c \in Clients :
    /\ client[c].at = "loaded" <=> mu = c
    /\ client[c].at = "loaded" => client[c].op # "none" /\ (client[c].op # "pin" => client[c].item \in Items)

\* No import has saved its vars since a call read the file, or the vars that the call has
\* read are older than those on file.
CopyInv == "import" \notin mishap => \A c \in Clients : client[c].at = "loaded" =>
    /\ client[c].copy.vars <= local.vars
    /\ client[c].copy.vars = local.vars =>
         client[c].copy.approved = local.approved /\ client[c].copy.pin = local.pin

\* What an import has read is still on file, and its vars are newer; it has set
\* the secrets that it has not still to set.
ImportInv ==
    /\ "import" \notin mishap =>
         /\ importer.at = "loaded" => importer.copy = local
         /\ IF importer.at = "idle" THEN local.vars <= importer.file ELSE local.vars < importer.file
    /\ "skipped" \notin mishap /\ importer.at \in {"sets", "loaded"} =>
         \A s \in Secrets \ importer.todo : store[s] > importer.file
    /\ importer.at = "loaded" => importer.todo = {}
    /\ \A s \in Secrets : store[s] <= 1 + importer.file

\* What people said is on file.
FileInv ==
    /\ "import" \notin mishap => local.approved = said.approved
    /\ mishap \cap {"import", "unseen"} = {} => local.pin = said.pin

\* No value is older than the vars.
StoreInv == mishap \cap {"import", "skipped"} = {} => \A s \in Secrets : store[s] # 0 => store[s] > local.vars

Planned == {"planned", "up"}
Started == {"planning", "replanning"} \cup Planned

\* A plan has what is declared and was approved, and what needs no approval.
PlanInv ==
    /\ "import" \notin mishap /\ run.at \in Started => run.plan \subseteq run.items \cap (run.said \cup Placeholders)
    /\ run.at \in Planned => run.items \cap Secrets \subseteq run.plan

\* The vars of a run are not newer than the file, nor than the secrets of the run.
ValuesInv ==
    /\ "import" \notin mishap /\ run.at \in Started => run.vars <= local.vars
    /\ mishap \cap {"import", "skipped"} = {} /\ run.at \in Planned =>
         \A s \in run.items \cap Secrets : run.values[s] > run.vars

\* Only a run that is up has a VM and policies of its own, within its plan.
VMInv ==
    /\ sandbox.on => run.at = "up"
    /\ \A p \in policies : ~p.old => run.at = "up" /\ p.hosts \subseteq run.plan
    /\ mishap \cap {"import", "late"} = {} /\ sandbox.on =>
         sandbox.hosts \cup sandbox.plain \subseteq run.items \cap run.said

FilesInv == MutexInv /\ CopyInv /\ ImportInv /\ FileInv /\ StoreInv
RunInv == PlanInv /\ ValuesInv /\ VMInv
ApprovalsInv == ApprovalsTypeOK /\ FilesInv /\ RunInv

(***************************************************************************)
(* The records                                                             *)
(***************************************************************************)

LEMMA NoFileRecord == NoFile \in Files
  BY ApprovalsBounds DEF NoFile, Files, Pins

LEMMA IdleRecord == Idle \in ConfigCalls /\ Idle.at = "idle"
  BY NoFileRecord, ApprovalsBounds DEF Idle, ConfigCalls, Pins

LEMMA NoImportRecord == NoImport \in Imports /\ NoImport.at = "idle" /\ NoImport.file = 0 /\ NoImport.todo = {}
  BY NoFileRecord, ApprovalsBounds DEF NoImport, Imports

LEMMA NoValuesRecord == NoValues \in Stores /\ \A s \in Secrets : NoValues[s] = 0
  BY ApprovalsBounds DEF NoValues, Stores, Ages

LEMMA NoRunRecord == NoRun \in Runs /\ NoRun.at = "none"
  BY NoValuesRecord, ApprovalsBounds DEF NoRun, Runs, Pins

\* The numbers of the state.
LEMMA Numbers ==
    ASSUME ApprovalsTypeOK
    PROVE  /\ local.vars \in Nat /\ importer.file \in Nat /\ run.vars \in Nat
           /\ \A s \in Secrets : store[s] \in Nat /\ run.values[s] \in Nat
           /\ \A c \in Clients : client[c].copy.vars \in Nat
<1>1. local.vars \in Nat /\ importer.file \in Nat /\ run.vars \in Nat
  BY ApprovalsBounds DEF ApprovalsTypeOK, Files, Imports, Runs
<1>2. store \in Stores /\ run.values \in Stores
  BY DEF ApprovalsTypeOK, Runs
<1>3. \A s \in Secrets : store[s] \in Nat /\ run.values[s] \in Nat
  BY <1>2, ApprovalsBounds DEF Stores, Ages
<1>4. \A c \in Clients : client[c].copy \in Files
  BY DEF ApprovalsTypeOK, ConfigCalls
<1> QED
  BY <1>1, <1>3, <1>4, ApprovalsBounds DEF Files

LEMMA MishapTypes == ASSUME ApprovalsTypeOK, mishap' \subseteq mishap \cup Mishaps PROVE mishap' \subseteq Mishaps
  BY DEF ApprovalsTypeOK

\* What a step may leave alone.
LEMMA FilesStay ==
    ASSUME FilesInv, UNCHANGED <<fileVars, said>>, mishap \subseteq mishap'
    PROVE  FilesInv'
<1>1. MutexInv'
  BY DEF FilesInv, MutexInv, fileVars
<1>2. CopyInv'
  BY DEF FilesInv, CopyInv, fileVars
<1>3. ImportInv'
  BY DEF FilesInv, ImportInv, fileVars
<1>4. FileInv'
  BY DEF FilesInv, FileInv, fileVars
<1>5. StoreInv'
  BY DEF FilesInv, StoreInv, fileVars
<1> QED
  BY <1>1, <1>2, <1>3, <1>4, <1>5 DEF FilesInv

LEMMA RunIsLeft ==
    ASSUME ApprovalsTypeOK, RunInv, UNCHANGED <<run, sandbox, policies>>, mishap \subseteq mishap',
           local'.vars \in Nat, "import" \notin mishap' => local.vars <= local'.vars
    PROVE  RunInv'
<1>1. PlanInv'
  BY DEF RunInv, PlanInv
<1>2. ValuesInv'
  BY Numbers DEF RunInv, ValuesInv
<1>3. VMInv'
  BY DEF RunInv, VMInv
<1> QED
  BY <1>1, <1>2, <1>3 DEF RunInv

(***************************************************************************)
(* The beginning, and the declarations                                     *)
(***************************************************************************)

LEMMA ApprovalsBegin == ApprovalsInit => ApprovalsInv
<1> SUFFICES ASSUME ApprovalsInit PROVE ApprovalsInv
  OBVIOUS
<1>1. ApprovalsTypeOK
  BY NoFileRecord, IdleRecord, NoImportRecord, NoValuesRecord, NoRunRecord, ApprovalsBounds
     DEF ApprovalsInit, ApprovalsTypeOK, Decls, Sayings, Sandboxes, Pins, Mishaps
<1>2. FilesInv
  <2>1. MutexInv /\ CopyInv
    BY IdleRecord, NamesAssumption DEF ApprovalsInit, MutexInv, CopyInv
  <2>2. ImportInv /\ StoreInv
    BY NoImportRecord, NoValuesRecord DEF ApprovalsInit, ImportInv, StoreInv, NoFile
  <2>3. FileInv
    BY DEF ApprovalsInit, FileInv, NoFile
  <2> QED
    BY <2>1, <2>2, <2>3 DEF FilesInv
<1>3. RunInv
  BY NoRunRecord DEF ApprovalsInit, RunInv, PlanInv, ValuesInv, VMInv, Started, Planned
<1> QED
  BY <1>1, <1>2, <1>3 DEF ApprovalsInv

LEMMA DeclareStep == ASSUME ApprovalsInv, Declare PROVE ApprovalsInv'
<1>1. UNCHANGED <<fileVars, said, run, sandbox, policies, ran, stops, mishap>>
  BY DEF Declare, runVars
<1>2. ApprovalsTypeOK'
  <2>1. decl' \in Decls
    BY ApprovalsBounds DEF ApprovalsInv, ApprovalsTypeOK, Declare, Decls
  <2> QED
    BY <2>1, <1>1 DEF ApprovalsInv, ApprovalsTypeOK, fileVars
<1>3. FilesInv'
  BY <1>1, FilesStay DEF ApprovalsInv
<1>4. local'.vars \in Nat /\ local.vars <= local'.vars
  BY <1>1, Numbers DEF ApprovalsInv, fileVars
<1> QED
  BY <1>1, <1>2, <1>3, <1>4, RunIsLeft DEF ApprovalsInv

(***************************************************************************)
(* ConfigService                                                           *)
(***************************************************************************)

\* A call that goes on without a change of the files.
LEMMA OthersStay ==
    ASSUME ApprovalsInv, UNCHANGED <<decl, local, store, importer, runVars, said, stops, mishap>>,
           mu' \in Clients \cup {"free"}, client' \in [Clients -> ConfigCalls], MutexInv', CopyInv'
    PROVE  ApprovalsInv'
<1>1. ApprovalsTypeOK'
  BY DEF ApprovalsInv, ApprovalsTypeOK, runVars
<1>2. FilesInv'
  <2>1. ImportInv'
    BY DEF ApprovalsInv, FilesInv, ImportInv
  <2>2. FileInv' /\ StoreInv'
    BY DEF ApprovalsInv, FilesInv, FileInv, StoreInv
  <2> QED
    BY <2>1, <2>2 DEF FilesInv
<1>3. RunInv'
  <2>1. local'.vars \in Nat /\ local.vars <= local'.vars
    BY Numbers DEF ApprovalsInv
  <2> QED
    BY <2>1, RunIsLeft DEF ApprovalsInv, runVars
<1> QED
  BY <1>1, <1>2, <1>3 DEF ApprovalsInv

LEMMA ListStep == ASSUME ApprovalsInv, NEW c \in Clients, List(c) PROVE ApprovalsInv'
<1>1. [Idle EXCEPT !.at = "listed", !.seen = decl.cmd] \in ConfigCalls
  <2>1. decl.cmd \in Pins
    BY ApprovalsBounds DEF ApprovalsInv, ApprovalsTypeOK, Decls, Pins
  <2> QED
    BY <2>1, IdleRecord DEF ConfigCalls
<1>2. client' \in [Clients -> ConfigCalls] /\ client'[c].at = "listed"
  BY <1>1, IdleRecord DEF ApprovalsInv, ApprovalsTypeOK, List, Idle
<1>3. \A d \in Clients \ {c} : client'[d] = client[d]
  BY DEF ApprovalsInv, ApprovalsTypeOK, List
<1>4. mu # c
  BY IdleRecord DEF ApprovalsInv, FilesInv, MutexInv, List
<1>5. MutexInv' /\ CopyInv'
  BY <1>2, <1>3, <1>4 DEF ApprovalsInv, FilesInv, MutexInv, CopyInv, List
<1> QED
  BY <1>2, <1>5, OthersStay DEF List, ApprovalsInv, ApprovalsTypeOK

LEMMA LoadStep ==
    ASSUME ApprovalsInv, NEW c \in Clients, NEW asked \in EgressCalls \cup SecretCalls \cup PinCalls,
           Load(c, asked[1], asked[2])
    PROVE  ApprovalsInv'
<1>1. /\ asked[1] \in {"approve", "reject", "pin"} /\ asked[2] \in Items \cup {"none"}
      /\ asked[1] # "pin" => asked[2] \in Items
  BY DEF EgressCalls, SecretCalls, PinCalls, Items, Secrets
<1>2. client[c] \in ConfigCalls /\ local \in Files /\ decl.cmd \in Pins
  BY ApprovalsBounds DEF ApprovalsInv, ApprovalsTypeOK, Decls, Pins
<1>3. client' = [client EXCEPT ![c] = [client[c] EXCEPT !.at = "loaded", !.op = asked[1], !.item = asked[2],
                                                     !.copy = local, !.hash = decl.cmd]]
  BY DEF Load, Reads, ApprovalsInv, ApprovalsTypeOK
<1>4. /\ client' \in [Clients -> ConfigCalls] /\ client'[c].at = "loaded" /\ client'[c].op = asked[1]
      /\ client'[c].item = asked[2] /\ client'[c].copy = local
  BY <1>1, <1>2, <1>3 DEF ApprovalsInv, ApprovalsTypeOK, ConfigCalls
<1>5. \A d \in Clients \ {c} : client'[d] = client[d]
  BY <1>3 DEF ApprovalsInv, ApprovalsTypeOK
<1>6. \A d \in Clients : client[d].at # "loaded"
  BY NamesAssumption DEF ApprovalsInv, FilesInv, MutexInv, Load
<1>7. MutexInv'
  BY <1>1, <1>4, <1>5, <1>6 DEF MutexInv, Load
<1>8. CopyInv'
  BY <1>4, <1>5, <1>6, Numbers DEF CopyInv, Load, ApprovalsInv
<1> QED
  BY <1>4, <1>7, <1>8, OthersStay DEF Load

LEMMA CallEnds ==
    ASSUME ApprovalsInv, NEW c \in Clients, client[c].at = "loaded",
           mu' = "free", client' = [client EXCEPT ![c] = Idle]
    PROVE  /\ client' \in [Clients -> ConfigCalls] /\ MutexInv'
           /\ \A d \in Clients : client'[d].at # "loaded"
<1>1. client' \in [Clients -> ConfigCalls] /\ client'[c].at = "idle"
  BY IdleRecord DEF ApprovalsInv, ApprovalsTypeOK
<1>2. \A d \in Clients \ {c} : client'[d] = client[d] /\ client[d].at # "loaded"
  BY DEF ApprovalsInv, ApprovalsTypeOK, FilesInv, MutexInv
<1>3. \A d \in Clients : client'[d].at # "loaded"
  BY <1>1, <1>2
<1> QED
  BY <1>1, <1>3, NamesAssumption DEF MutexInv

LEMMA SaveFailsStep == ASSUME ApprovalsInv, NEW c \in Clients, SaveFails(c) PROVE ApprovalsInv'
<1>1. client' \in [Clients -> ConfigCalls] /\ MutexInv' /\ \A d \in Clients : client'[d].at # "loaded"
  BY CallEnds DEF SaveFails
<1>2. CopyInv'
  BY <1>1 DEF CopyInv
<1> QED
  BY <1>1, <1>2, OthersStay DEF SaveFails

\* What is written is the file that was read, with what the person meant.
LEMMA WithRecord ==
    ASSUME ApprovalsInv, NEW c \in Clients, client[c].at = "loaded"
    PROVE  LET file == With(c, client[c].copy) IN
           /\ file \in Files /\ file.vars = client[c].copy.vars
           /\ Meant(c) \in Sayings
           /\ client[c].copy.approved = said.approved => file.approved = Meant(c).approved
           /\ client[c].copy.pin = said.pin /\ (client[c].op = "pin" => client[c].seen = client[c].hash) =>
                file.pin = Meant(c).pin
<1>1. client[c] \in ConfigCalls /\ client[c].copy \in Files /\ said \in Sayings
  BY DEF ApprovalsInv, ApprovalsTypeOK, ConfigCalls
<1>2. client[c].op \in {"approve", "reject", "pin"}
  BY <1>1 DEF ApprovalsInv, FilesInv, MutexInv, ConfigCalls
<1>3. client[c].op # "pin" => client[c].item \in Items
  BY DEF ApprovalsInv, FilesInv, MutexInv
<1>4. CASE client[c].op = "approve"
  BY <1>1, <1>3, <1>4 DEF With, Meant, Files, Sayings
<1>5. CASE client[c].op = "reject"
  BY <1>1, <1>3, <1>5 DEF With, Meant, Files, Sayings
<1>6. CASE client[c].op = "pin"
  <2>1. client[c].seen \in Pins /\ client[c].hash \in Pins
    BY <1>1 DEF ConfigCalls
  <2> QED
    BY <1>1, <1>6, <2>1 DEF With, Meant, Files, Sayings
<1> QED
  BY <1>2, <1>4, <1>5, <1>6

LEMMA SaveStep == ASSUME ApprovalsInv, NEW c \in Clients, Save(c) PROVE ApprovalsInv'
<1> DEFINE copy == client[c].copy
<1>1. client[c].at = "loaded" /\ mishap \subseteq mishap' /\ UNCHANGED <<decl, store, importer, runVars, stops>>
  BY DEF Save
<1>2. /\ local' \in Files /\ local'.vars = copy.vars /\ said' \in Sayings
      /\ copy.approved = said.approved => local'.approved = said'.approved
      /\ copy.pin = said.pin /\ (client[c].op = "pin" => client[c].seen = client[c].hash) => local'.pin = said'.pin
  BY <1>1, WithRecord DEF Save
<1>3. /\ client' \in [Clients -> ConfigCalls] /\ MutexInv'
      /\ \A d \in Clients : client'[d].at # "loaded"
  BY <1>1, CallEnds DEF Save
\* What was read is what is on file, unless an import was at work.
<1>4. "import" \notin mishap' => /\ copy.vars = local.vars /\ importer.at # "loaded"
                              /\ copy.approved = local.approved /\ copy.pin = local.pin
  <2>1. "import" \notin mishap' => "import" \notin mishap /\ copy.vars = local.vars /\ importer.at # "loaded"
    BY DEF Save
  <2> QED
    BY <1>1, <2>1 DEF ApprovalsInv, FilesInv, CopyInv
<1>5. ApprovalsTypeOK'
  <2>1. mishap' \subseteq Mishaps
    <3>1. mishap' \subseteq mishap \cup Mishaps
      BY DEF Save, Mishaps
    <3> QED
      BY <3>1, MishapTypes DEF ApprovalsInv
  <2>2. mu' = "free"
    BY DEF Save
  <2> QED
    BY <1>1, <1>2, <1>3, <2>1, <2>2 DEF ApprovalsInv, ApprovalsTypeOK, runVars
<1>6. FilesInv'
  <2>1. CopyInv'
    BY <1>3 DEF CopyInv
  <2>2. ImportInv'
    BY <1>1, <1>2, <1>4 DEF ApprovalsInv, FilesInv, ImportInv
  <2>3. FileInv'
    <3>1. "import" \notin mishap' => local'.approved = said'.approved
      BY <1>1, <1>2, <1>4 DEF ApprovalsInv, FilesInv, FileInv
    <3>2. mishap' \cap {"import", "unseen"} = {} /\ client[c].op = "pin" => client[c].seen = client[c].hash
      BY DEF Save
    <3>3. mishap' \cap {"import", "unseen"} = {} => local'.pin = said'.pin
      BY <1>1, <1>2, <1>4, <3>2 DEF ApprovalsInv, FilesInv, FileInv
    <3> QED
      BY <3>1, <3>3 DEF FileInv
  <2>4. StoreInv'
    BY <1>1, <1>2, <1>4 DEF ApprovalsInv, FilesInv, StoreInv
  <2> QED
    BY <1>3, <2>1, <2>2, <2>3, <2>4 DEF FilesInv
<1>7. RunInv'
  <2>1. "import" \notin mishap' => local.vars <= local'.vars
    BY <1>2, <1>4, Numbers DEF ApprovalsInv
  <2>2. local'.vars \in Nat
    BY <1>1, <1>2, Numbers DEF ApprovalsInv
  <2> QED
    BY <1>1, <2>1, <2>2, RunIsLeft DEF ApprovalsInv, runVars
<1> QED
  BY <1>5, <1>6, <1>7 DEF ApprovalsInv

(***************************************************************************)
(* Secrets and env import                                                  *)
(***************************************************************************)

\* A write of the store: no value gets older.
LEMMA PutStep ==
    ASSUME ApprovalsTypeOK, NEW s \in Secrets, Put(s)
    PROVE  /\ store' \in Stores /\ store'[s] = 1 + importer.file
           /\ \A t \in Secrets \ {s} : store'[t] = store[t]
<1>1. 1 + importer.file \in Ages
  BY ApprovalsBounds DEF ApprovalsTypeOK, Imports, Ages
<1> QED
  BY <1>1 DEF Put, ApprovalsTypeOK, Stores

\* A step of the store or of env import that leaves the file alone.
LEMMA ImportGoes ==
    ASSUME ApprovalsInv, UNCHANGED <<decl, local, mu, client, runVars, said, stops>>, mishap \subseteq mishap',
           mishap' \subseteq mishap \cup Mishaps, store' \in Stores, importer' \in Imports, ImportInv', StoreInv'
    PROVE  ApprovalsInv'
<1>1. ApprovalsTypeOK'
  BY MishapTypes DEF ApprovalsInv, ApprovalsTypeOK, runVars
<1>2. MutexInv' /\ CopyInv' /\ FileInv'
  BY DEF ApprovalsInv, FilesInv, MutexInv, CopyInv, FileInv
<1>3. RunInv'
  <2>1. local'.vars \in Nat /\ local.vars <= local'.vars
    BY Numbers DEF ApprovalsInv
  <2> QED
    BY <2>1, RunIsLeft DEF ApprovalsInv, runVars
<1> QED
  BY <1>1, <1>2, <1>3 DEF ApprovalsInv, FilesInv

\* A value that is put is as new as the import, and newer than the vars on file.
LEMMA StoreKept ==
    ASSUME ApprovalsInv, UNCHANGED <<local, mishap>>, importer'.file = importer.file,
           UNCHANGED store \/ \E s \in Secrets : Put(s)
    PROVE  /\ StoreInv' /\ store' \in Stores
           /\ \A t \in Secrets : store'[t] <= 1 + importer.file /\ store'[t] >= store[t]
<1>1. CASE UNCHANGED store
  <2>1. StoreInv' /\ store' \in Stores
    BY <1>1 DEF ApprovalsInv, ApprovalsTypeOK, FilesInv, StoreInv
  <2>2. \A t \in Secrets : store'[t] <= 1 + importer.file /\ store'[t] >= store[t]
    BY <1>1, Numbers DEF ApprovalsInv, FilesInv, ImportInv
  <2> QED
    BY <2>1, <2>2
<1>2. ASSUME NEW s \in Secrets, Put(s)
      PROVE  /\ StoreInv' /\ store' \in Stores
             /\ \A t \in Secrets : store'[t] <= 1 + importer.file /\ store'[t] >= store[t]
  <2>1. /\ store' \in Stores /\ store'[s] = 1 + importer.file
        /\ \A t \in Secrets \ {s} : store'[t] = store[t]
    BY <1>2, PutStep DEF ApprovalsInv
  <2>2. \A t \in Secrets : store[t] <= 1 + importer.file /\ store[t] \in Nat
    BY Numbers DEF ApprovalsInv, FilesInv, ImportInv
  <2>3. "import" \notin mishap => local.vars <= importer.file
    BY Numbers DEF ApprovalsInv, FilesInv, ImportInv
  <2>4. local.vars \in Nat /\ importer.file \in Nat
    BY Numbers DEF ApprovalsInv
  <2>5. \A t \in Secrets : store'[t] <= 1 + importer.file /\ store'[t] >= store[t]
    BY <2>1, <2>2, <2>4
  <2>6. StoreInv'
    BY <2>1, <2>3, <2>4 DEF ApprovalsInv, FilesInv, StoreInv
  <2> QED
    BY <2>1, <2>5, <2>6
<1> QED
  BY <1>1, <1>2

LEMMA SetValueStep == ASSUME ApprovalsInv, NEW s \in Secrets, SetValue(s) PROVE ApprovalsInv'
<1>1. UNCHANGED <<decl, local, mu, client, importer, runVars, said, stops, mishap>> /\ Put(s)
  BY DEF SetValue
<1>2. StoreInv' /\ store' \in Stores /\ \A t \in Secrets : store'[t] <= 1 + importer.file /\ store'[t] >= store[t]
  BY <1>1, StoreKept
<1>3. \A t \in Secrets : store[t] \in Nat /\ store'[t] \in Nat
  BY <1>2, ApprovalsBounds, Numbers DEF Stores, Ages, ApprovalsInv
<1>4. importer.file \in Nat
  BY Numbers DEF ApprovalsInv
<1>5. ImportInv'
  BY <1>1, <1>2, <1>3, <1>4 DEF ApprovalsInv, FilesInv, ImportInv
<1> QED
  BY <1>1, <1>2, <1>5, ImportGoes DEF ApprovalsInv, ApprovalsTypeOK

LEMMA ImportBeginsStep == ASSUME ApprovalsInv, ImportBegins PROVE ApprovalsInv'
<1>1. /\ UNCHANGED <<decl, local, mu, client, store, runVars, said, stops>>
      /\ mishap \subseteq mishap' /\ mishap' \subseteq mishap \cup Mishaps
  BY DEF ImportBegins, Mishaps
<1>2. PICK file \in {importer.file, importer.file + 1} :
         /\ file = importer.file => importer.at = "failed"
         /\ file <= MaxImports /\ importer' = Classified(file) /\ importer.at \in {"idle", "failed"}
  BY DEF ImportBegins
<1>3. importer.file \in Nat /\ local.vars \in Nat /\ \A s \in Secrets : store[s] \in Nat
  BY Numbers DEF ApprovalsInv
<1>4. /\ importer' \in Imports /\ importer'.at = "sets" /\ importer'.file = file
      /\ importer'.todo = Secrets \cap decl.items
  <2>1. importer' = [NoImport EXCEPT !.at = "sets", !.file = file, !.todo = Secrets \cap decl.items]
    BY <1>2 DEF Classified
  <2>2. file \in 0..MaxImports /\ Secrets \cap decl.items \in SUBSET Secrets
    BY <1>2, <1>3, ApprovalsBounds
  <2> QED
    BY <2>1, <2>2, NoImportRecord DEF Imports
<1>5. "import" \notin mishap' => local.vars < file
  BY <1>1, <1>2, <1>3 DEF ApprovalsInv, FilesInv, ImportInv
<1>6. "skipped" \notin mishap' => Secrets \subseteq decl.items
  BY DEF ImportBegins
<1>7. ImportInv'
  <2>1. \A s \in Secrets : store'[s] <= 1 + importer'.file
    BY <1>1, <1>2, <1>3, <1>4 DEF ApprovalsInv, FilesInv, ImportInv
  <2> QED
    BY <1>1, <1>4, <1>5, <1>6, <2>1 DEF ImportInv
<1>8. StoreInv' /\ store' \in Stores
  BY <1>1 DEF ApprovalsInv, ApprovalsTypeOK, FilesInv, StoreInv
<1> QED
  BY <1>1, <1>4, <1>7, <1>8, ImportGoes

LEMMA ImportSetsStep == ASSUME ApprovalsInv, NEW s \in Secrets, ImportSets(s) PROVE ApprovalsInv'
<1>1. UNCHANGED <<decl, local, mu, client, runVars, said, stops, mishap>> /\ Put(s) /\ importer.at = "sets"
  BY DEF ImportSets
<1>2. /\ importer' \in Imports /\ importer'.at = "sets" /\ importer'.file = importer.file
      /\ importer'.todo = importer.todo \ {s}
  BY DEF ImportSets, ApprovalsInv, ApprovalsTypeOK, Imports
<1>3. StoreInv' /\ store' \in Stores /\ \A t \in Secrets : store'[t] <= 1 + importer.file /\ store'[t] >= store[t]
  BY <1>1, <1>2, StoreKept
<1>4. importer.file \in Nat /\ \A t \in Secrets : store[t] \in Nat /\ store'[t] \in Nat
  BY <1>3, ApprovalsBounds, Numbers DEF Stores, Ages, ApprovalsInv
<1>5. store'[s] = 1 + importer.file
  BY <1>1, PutStep DEF ApprovalsInv
<1>6. "skipped" \notin mishap => \A t \in Secrets \ importer'.todo : store'[t] > importer.file
  BY <1>1, <1>2, <1>3, <1>4, <1>5 DEF ApprovalsInv, FilesInv, ImportInv
<1>7. ImportInv'
  BY <1>1, <1>2, <1>3, <1>4, <1>6 DEF ApprovalsInv, FilesInv, ImportInv
<1> QED
  BY <1>1, <1>2, <1>3, <1>7, ImportGoes

LEMMA ImportFailsStep == ASSUME ApprovalsInv, NEW s \in Secrets, ImportFails(s) PROVE ApprovalsInv'
<1>1. UNCHANGED <<decl, local, mu, client, runVars, said, stops, mishap>> /\ importer.at = "sets"
  BY DEF ImportFails
<1>2. importer' \in Imports /\ importer'.at = "failed" /\ importer'.file = importer.file
  BY NoImportRecord DEF ImportFails, ApprovalsInv, ApprovalsTypeOK, Imports
<1>3. StoreInv' /\ store' \in Stores /\ \A t \in Secrets : store'[t] <= 1 + importer.file
  BY <1>1, <1>2, StoreKept DEF ImportFails
<1>4. ImportInv'
  BY <1>1, <1>2, <1>3 DEF ApprovalsInv, FilesInv, ImportInv
<1> QED
  BY <1>1, <1>2, <1>3, <1>4, ImportGoes

LEMMA ImportLoadStep == ASSUME ApprovalsInv, ImportLoad PROVE ApprovalsInv'
<1>1. UNCHANGED <<decl, local, mu, client, store, runVars, said, stops, mishap>> /\ importer.at = "sets"
         /\ importer.todo = {}
  BY DEF ImportLoad
<1>2. /\ importer' \in Imports /\ importer'.at = "loaded" /\ importer'.file = importer.file
      /\ importer'.todo = {} /\ importer'.copy = local
  BY DEF ImportLoad, ApprovalsInv, ApprovalsTypeOK, Imports
<1>3. StoreInv' /\ store' \in Stores
  BY <1>1 DEF ApprovalsInv, ApprovalsTypeOK, FilesInv, StoreInv
<1>4. ImportInv'
  BY <1>1, <1>2 DEF ApprovalsInv, FilesInv, ImportInv
<1> QED
  BY <1>1, <1>2, <1>3, <1>4, ImportGoes

\* The vars are written last: every value is as new by then.
LEMMA ImportSaveStep == ASSUME ApprovalsInv, ImportSave PROVE ApprovalsInv'
<1>1. UNCHANGED <<decl, mu, client, store, runVars, said, stops, mishap>> /\ importer.at = "loaded"
  BY DEF ImportSave
<1>2. importer' \in Imports /\ importer'.at = "idle" /\ importer'.file = importer.file /\ importer'.todo = {}
  BY NoImportRecord DEF ImportSave, ApprovalsInv, ApprovalsTypeOK, Imports
<1>3. /\ local' \in Files /\ local'.vars = importer.file
      /\ local'.approved = importer.copy.approved /\ local'.pin = importer.copy.pin
  BY DEF ImportSave, ApprovalsInv, ApprovalsTypeOK, Imports, Files
<1>4. "import" \notin mishap => importer.copy = local /\ local.vars < importer.file
  BY <1>1 DEF ApprovalsInv, FilesInv, ImportInv
<1>5. /\ local.vars \in Nat /\ importer.file \in Nat /\ \A s \in Secrets : store[s] \in Nat
      /\ \A c \in Clients : client[c].copy.vars \in Nat
  BY Numbers DEF ApprovalsInv
<1>6. ApprovalsTypeOK'
  BY <1>1, <1>2, <1>3 DEF ApprovalsInv, ApprovalsTypeOK, runVars
<1>7. FilesInv'
  <2>1. MutexInv'
    BY <1>1 DEF ApprovalsInv, FilesInv, MutexInv
  <2>2. CopyInv'
    BY <1>1, <1>3, <1>4, <1>5 DEF ApprovalsInv, FilesInv, CopyInv
  <2>3. ImportInv'
    BY <1>1, <1>2, <1>3, <1>5 DEF ApprovalsInv, FilesInv, ImportInv
  <2>4. FileInv'
    BY <1>1, <1>3, <1>4 DEF ApprovalsInv, FilesInv, FileInv
  <2>5. StoreInv'
    BY <1>1, <1>3 DEF ApprovalsInv, FilesInv, ImportInv, StoreInv
  <2> QED
    BY <2>1, <2>2, <2>3, <2>4, <2>5 DEF FilesInv
<1>8. RunInv'
  BY <1>1, <1>3, <1>4, <1>5, RunIsLeft DEF ApprovalsInv, runVars
<1> QED
  BY <1>6, <1>7, <1>8 DEF ApprovalsInv

(***************************************************************************)
(* A run                                                                   *)
(***************************************************************************)

\* A step of a run that leaves the files alone.
LEMMA RunAdvances ==
    ASSUME ApprovalsInv, UNCHANGED <<decl, fileVars, said>>, mishap \subseteq mishap',
           mishap' \subseteq mishap \cup Mishaps,
           run' \in Runs, sandbox' \in Sandboxes, policies' \subseteq Policies, ran' \in Pins,
           stops' \in 0..MaxStops,
           PlanInv', ValuesInv', VMInv'
    PROVE  ApprovalsInv'
<1>1. ApprovalsTypeOK'
  BY MishapTypes DEF ApprovalsInv, ApprovalsTypeOK, fileVars
<1>2. FilesInv'
  BY FilesStay DEF ApprovalsInv
<1> QED
  BY <1>1, <1>2 DEF ApprovalsInv, RunInv

\* A step that leaves the VM alone while there is none.
LEMMA WithoutVM ==
    ASSUME ApprovalsInv, UNCHANGED <<decl, fileVars, sandbox, policies, ran, said, stops, mishap>>,
           run.at # "up", run' \in Runs, PlanInv', ValuesInv'
    PROVE  ApprovalsInv'
<1>1. VMInv'
  BY DEF ApprovalsInv, RunInv, VMInv
<1> QED
  BY <1>1, RunAdvances DEF ApprovalsInv, ApprovalsTypeOK

LEMMA CopyStep == ASSUME ApprovalsInv, Copy PROVE ApprovalsInv'
<1>1. run.at = "none" /\ UNCHANGED <<decl, fileVars, sandbox, policies, ran, said, stops, mishap>>
  BY DEF Copy
<1>2. decl.items \in SUBSET Items /\ decl.cmd \in Pins
  BY ApprovalsBounds DEF ApprovalsInv, ApprovalsTypeOK, Decls, Pins
<1>3. run' \in Runs /\ run'.at = "copied"
  BY <1>2 DEF Copy, ApprovalsInv, ApprovalsTypeOK, Runs
<1>4. PlanInv' /\ ValuesInv'
  BY <1>3 DEF PlanInv, ValuesInv, Started, Planned
<1> QED
  BY <1>1, <1>3, <1>4, WithoutVM

\* planBoot reads what is on file, which is what people have said.
LEMMA PlanReadsStep == ASSUME ApprovalsInv, PlanReads PROVE ApprovalsInv'
<1>1. run.at \in {"copied", "stopped"} /\ UNCHANGED <<decl, fileVars, sandbox, policies, ran, said, stops, mishap>>
  BY DEF PlanReads
<1>2. /\ run' \in Runs /\ run'.at \in {"planning", "replanning"} /\ run'.items = run.items
      /\ run'.plan = Allowed /\ run'.vars = local.vars /\ run'.said = said.approved
  <2>1. /\ Allowed \in SUBSET Items /\ local.vars \in 0..MaxImports /\ said.approved \in SUBSET Items
    BY DEF Allowed, ApprovalsInv, ApprovalsTypeOK, Runs, Files, Sayings
  <2> QED
    BY <2>1 DEF PlanReads, ReadFiles, ApprovalsInv, ApprovalsTypeOK, Runs
<1>3. "import" \notin mishap => local.approved = said.approved
  BY DEF ApprovalsInv, FilesInv, FileInv
<1>4. PlanInv'
  BY <1>1, <1>2, <1>3 DEF PlanInv, Allowed, Planned
<1>5. ValuesInv'
  BY <1>1, <1>2, Numbers DEF ValuesInv, Planned, ApprovalsInv, fileVars
<1> QED
  BY <1>1, <1>2, <1>4, <1>5, WithoutVM

LEMMA PlanStep == ASSUME ApprovalsInv, Plan PROVE ApprovalsInv'
<1>1. run.at \in {"planning", "replanning"} /\ UNCHANGED <<decl, fileVars, sandbox, policies, ran, said, stops, mishap>>
  BY DEF Plan
<1>2. CASE NothingMissing
  <2>1. Values \in Stores /\ \A s \in run.items \cap Secrets : Values[s] = store[s]
    BY ApprovalsBounds DEF Values, ApprovalsInv, ApprovalsTypeOK, Stores, Ages
  <2>2. run' = [run EXCEPT !.at = "planned", !.values = Values]
    BY <1>2 DEF Plan
  <2>3. /\ run' \in Runs /\ run'.at = "planned" /\ run'.values = Values /\ run'.plan = run.plan
        /\ run'.items = run.items /\ run'.said = run.said /\ run'.vars = run.vars
    BY <2>1, <2>2 DEF ApprovalsInv, ApprovalsTypeOK, Runs
  <2>4. PlanInv'
    BY <1>1, <1>2, <2>3 DEF ApprovalsInv, RunInv, PlanInv, Started, NothingMissing
  <2>5. ValuesInv'
    <3>1. "import" \notin mishap => run.vars <= local.vars
      BY <1>1 DEF ApprovalsInv, RunInv, ValuesInv, Started
    <3>2. mishap \cap {"import", "skipped"} = {} => \A s \in run.items \cap Secrets : store[s] > local.vars
      BY <1>2 DEF ApprovalsInv, FilesInv, StoreInv, NothingMissing
    <3>3. run.vars \in Nat /\ local.vars \in Nat /\ \A s \in Secrets : store[s] \in Nat
      BY Numbers DEF ApprovalsInv
    <3>4. mishap \cap {"import", "skipped"} = {} => \A s \in run.items \cap Secrets : store[s] > run.vars
      BY <3>1, <3>2, <3>3
    <3>5. UNCHANGED <<local, mishap>>
      BY <1>1 DEF fileVars
    <3> QED
      BY <2>1, <2>3, <3>1, <3>4, <3>5 DEF ValuesInv
  <2> QED
    BY <1>1, <2>3, <2>4, <2>5, WithoutVM
<1>3. CASE ~NothingMissing
  <2>1. run' \in Runs /\ run'.at \in {"none", "stopped"}
    <3>1. 0 \in 0..MaxImports
      BY ApprovalsBounds
    <3> QED
      BY <1>1, <1>3, <3>1, NoRunRecord DEF Plan, ApprovalsInv, ApprovalsTypeOK, Runs
  <2>2. PlanInv' /\ ValuesInv'
    BY <2>1 DEF PlanInv, ValuesInv, Started, Planned
  <2> QED
    BY <1>1, <2>1, <2>2, WithoutVM
<1> QED
  BY <1>2, <1>3

\* The plaintext secrets of the VM are in the plan, and need an approval.
LEMMA CreateSandboxStep == ASSUME ApprovalsInv, CreateSandbox PROVE ApprovalsInv'
<1>1. run.at = "planned" /\ UNCHANGED <<decl, fileVars, policies, ran, said, stops, mishap>>
  BY DEF CreateSandbox
<1>2. run' = [run EXCEPT !.at = "up"] /\ sandbox' = [on |-> TRUE, hosts |-> {}, plain |-> run.items \cap Plaintexts]
  BY DEF CreateSandbox
<1>3. /\ run' \in Runs /\ run'.at = "up" /\ run'.items = run.items /\ run'.plan = run.plan /\ run'.said = run.said
      /\ run'.vars = run.vars /\ run'.values = run.values
  BY <1>2 DEF ApprovalsInv, ApprovalsTypeOK, Runs
<1>4. sandbox' \in Sandboxes /\ sandbox'.hosts \cup sandbox'.plain = run.items \cap Plaintexts
  BY <1>2 DEF Sandboxes
<1>5. PlanInv' /\ ValuesInv'
  <2>1. UNCHANGED <<local, mishap>>
    BY <1>1 DEF fileVars
  <2>2. PlanInv'
    BY <1>1, <1>3, <2>1 DEF ApprovalsInv, RunInv, PlanInv, Started, Planned
  <2>3. ValuesInv'
    BY <1>1, <1>3, <2>1 DEF ApprovalsInv, RunInv, ValuesInv, Started, Planned
  <2> QED
    BY <2>2, <2>3
<1>6. VMInv'
  <2>1. "import" \notin mishap => run.plan \subseteq run.items \cap (run.said \cup Placeholders)
    BY <1>1 DEF ApprovalsInv, RunInv, PlanInv, Started, Planned
  <2>2. run.items \cap Secrets \subseteq run.plan
    BY <1>1 DEF ApprovalsInv, RunInv, PlanInv, Planned
  <2>3. "import" \notin mishap => run.items \cap Plaintexts \subseteq run.items \cap run.said
    BY <2>1, <2>2, ItemsAssumption DEF Secrets
  <2>4. \A p \in policies : p.old
    BY <1>1 DEF ApprovalsInv, RunInv, VMInv
  <2> QED
    BY <1>1, <1>3, <1>4, <2>3, <2>4 DEF VMInv
<1> QED
  BY <1>1, <1>3, <1>4, <1>5, <1>6, RunAdvances DEF ApprovalsInv, ApprovalsTypeOK

\* A step of the VM of a run that is up.
LEMMA VMGoes ==
    ASSUME ApprovalsInv, UNCHANGED <<decl, fileVars, run, ran, said, stops>>, mishap \subseteq mishap',
           mishap' \subseteq mishap \cup Mishaps, sandbox' \in Sandboxes, policies' \subseteq Policies, VMInv'
    PROVE  ApprovalsInv'
<1>1. PlanInv' /\ ValuesInv'
  BY DEF ApprovalsInv, RunInv, PlanInv, ValuesInv, fileVars
<1> QED
  BY <1>1, RunAdvances DEF ApprovalsInv, ApprovalsTypeOK

LEMMA SetPolicyStep == ASSUME ApprovalsInv, NEW hosts \in SUBSET Hosts, SetPolicy(hosts) PROVE ApprovalsInv'
<1>1. /\ run.at = "up" /\ hosts \subseteq run.plan /\ UNCHANGED <<decl, fileVars, run, sandbox, ran, said, stops, mishap>>
      /\ policies' = policies \cup {[hosts |-> hosts, old |-> FALSE]}
  BY DEF SetPolicy
<1>2. policies' \subseteq Policies
  <2>1. [hosts |-> hosts, old |-> FALSE] \in Policies
    BY DEF Policies
  <2> QED
    BY <1>1, <2>1 DEF ApprovalsInv, ApprovalsTypeOK
<1>3. VMInv'
  BY <1>1 DEF ApprovalsInv, RunInv, VMInv
<1> QED
  BY <1>1, <1>2, <1>3, VMGoes DEF ApprovalsInv, ApprovalsTypeOK

\* A policy of this run opens hosts of its plan, which need an approval.
LEMMA PolicyHandledStep == ASSUME ApprovalsInv, NEW p \in policies, PolicyHandled(p) PROVE ApprovalsInv'
<1>1. UNCHANGED <<decl, fileVars, run, ran, said, stops>> /\ policies' = policies \ {p}
  BY DEF PolicyHandled
<1>2. policies' \subseteq Policies /\ p.hosts \in SUBSET Hosts /\ p.old \in BOOLEAN
  BY <1>1 DEF ApprovalsInv, ApprovalsTypeOK, Policies
<1>3. CASE sandbox.on
  <2>1. sandbox' = [sandbox EXCEPT !.hosts = p.hosts] /\ mishap' = IF p.old THEN mishap \cup {"late"} ELSE mishap
    BY <1>3 DEF PolicyHandled
  <2>2. sandbox' \in Sandboxes /\ sandbox'.hosts = p.hosts /\ sandbox'.plain = sandbox.plain
           /\ sandbox'.on = sandbox.on
    BY <1>2, <2>1 DEF ApprovalsInv, ApprovalsTypeOK, Sandboxes
  <2>3. run.at = "up"
    BY <1>3 DEF ApprovalsInv, RunInv, VMInv
  <2>4. ~p.old /\ "import" \notin mishap => p.hosts \subseteq run.items \cap run.said
    <3>1. ~p.old => p.hosts \subseteq run.plan
      BY DEF ApprovalsInv, RunInv, VMInv
    <3>2. "import" \notin mishap => run.plan \subseteq run.items \cap (run.said \cup Placeholders)
      BY <2>3 DEF ApprovalsInv, RunInv, PlanInv, Started, Planned
    <3> QED
      BY <1>2, <3>1, <3>2, ItemsAssumption DEF Secrets
  <2>5. VMInv'
    BY <1>1, <1>2, <1>3, <2>1, <2>2, <2>4 DEF ApprovalsInv, RunInv, VMInv
  <2> QED
    BY <1>1, <1>2, <2>1, <2>2, <2>5, VMGoes DEF Mishaps
<1>4. CASE ~sandbox.on
  <2>1. UNCHANGED <<sandbox, mishap>>
    BY <1>4 DEF PolicyHandled
  <2>2. VMInv'
    BY <1>1, <2>1 DEF ApprovalsInv, RunInv, VMInv
  <2> QED
    BY <1>1, <1>2, <2>1, <2>2, VMGoes DEF ApprovalsInv, ApprovalsTypeOK
<1> QED
  BY <1>3, <1>4

LEMMA StopRunStep == ASSUME ApprovalsInv, StopRun PROVE ApprovalsInv'
<1>1. UNCHANGED <<decl, fileVars, ran, said, mishap>> /\ stops' = stops + 1 /\ stops < MaxStops
  BY DEF StopRun
<1>2. run' \in Runs /\ run'.at = "stopped"
  <2>1. 0 \in 0..MaxImports
    BY ApprovalsBounds
  <2> QED
    BY <2>1, NoValuesRecord DEF StopRun, ApprovalsInv, ApprovalsTypeOK, Runs
<1>3. sandbox' \in Sandboxes /\ sandbox'.on = FALSE
  BY DEF StopRun, Sandboxes
<1>4. policies' \subseteq Policies /\ \A p \in policies' : p.old
  <2>1. \A p \in policies : [p EXCEPT !.old = TRUE] \in Policies /\ [p EXCEPT !.old = TRUE].old
    BY DEF ApprovalsInv, ApprovalsTypeOK, Policies
  <2> QED
    BY <2>1 DEF StopRun
<1>5. stops' \in 0..MaxStops
  BY <1>1, ApprovalsBounds DEF ApprovalsInv, ApprovalsTypeOK
<1>6. PlanInv' /\ ValuesInv' /\ VMInv'
  BY <1>2, <1>3, <1>4 DEF PlanInv, ValuesInv, VMInv, Started, Planned
<1>7. ran' \in Pins /\ mishap \subseteq mishap' /\ mishap' \subseteq mishap \cup Mishaps
  BY <1>1 DEF ApprovalsInv, ApprovalsTypeOK
<1> QED
  BY <1>1, <1>2, <1>3, <1>4, <1>5, <1>6, <1>7, RunAdvances

LEMMA ResolveStep == ASSUME ApprovalsInv, Resolve PROVE ApprovalsInv'
<1>1. UNCHANGED <<decl, fileVars, run, sandbox, policies, said, stops, mishap>> /\ ran' = run.cmd
  BY DEF Resolve
<1>2. ran' \in Pins
  BY <1>1 DEF ApprovalsInv, ApprovalsTypeOK, Runs
<1>3. PlanInv' /\ ValuesInv' /\ VMInv'
  BY <1>1 DEF ApprovalsInv, RunInv, PlanInv, ValuesInv, VMInv, fileVars
<1> QED
  BY <1>1, <1>2, <1>3, RunAdvances DEF ApprovalsInv, ApprovalsTypeOK

(***************************************************************************)
(* The theorems                                                            *)
(***************************************************************************)

LEMMA ApprovalsStep == ApprovalsInv /\ [ApprovalsNext]_approvalsVars => ApprovalsInv'
<1> SUFFICES ASSUME ApprovalsInv, [ApprovalsNext]_approvalsVars PROVE ApprovalsInv'
  OBVIOUS
<1>1. CASE UNCHANGED approvalsVars
  <2>1. UNCHANGED <<decl, fileVars, said, stops, mishap, run, sandbox, policies, ran>>
    BY <1>1 DEF approvalsVars, runVars
  <2>2. PlanInv' /\ ValuesInv' /\ VMInv'
    BY <2>1 DEF ApprovalsInv, RunInv, PlanInv, ValuesInv, VMInv, fileVars
  <2> QED
    BY <2>1, <2>2, RunAdvances DEF ApprovalsInv, ApprovalsTypeOK
<1>2. CASE \E c \in Clients :
             \/ List(c) \/ Save(c) \/ SaveFails(c)
             \/ \E asked \in EgressCalls \cup SecretCalls \cup PinCalls : Load(c, asked[1], asked[2])
  BY <1>2, ListStep, SaveStep, SaveFailsStep, LoadStep
<1>3. CASE \/ \E s \in SetCalls : SetValue(s)
           \/ \E s \in Secrets : ImportSets(s) \/ ImportFails(s)
           \/ ImportBegins \/ ImportLoad \/ ImportSave
  BY <1>3, SetValueStep, ImportSetsStep, ImportFailsStep, ImportBeginsStep, ImportLoadStep, ImportSaveStep
     DEF SetCalls
<1>4. CASE Declare \/ Copy \/ PlanReads \/ Plan \/ CreateSandbox \/ StopRun \/ Resolve
  BY <1>4, DeclareStep, CopyStep, PlanReadsStep, PlanStep, CreateSandboxStep, StopRunStep, ResolveStep
<1>5. CASE \/ \E hosts \in SUBSET Hosts : SetPolicy(hosts)
           \/ \E p \in policies : PolicyHandled(p)
  BY <1>5, SetPolicyStep, PolicyHandledStep
<1> QED
  BY <1>1, <1>2, <1>3, <1>4, <1>5 DEF ApprovalsNext

\* The inductive invariant holds: whoever is at work on settings.local.json, the store or
\* the VM of the run relies on what it says (serve/config.go, cmd/masuda/env.go, serve/settings.go).
THEOREM ApprovalsHold == ApprovalsSpec => []ApprovalsInv
<1> QED
  BY ApprovalsBegin, ApprovalsStep, PTL DEF ApprovalsSpec

\* What people said is on file, and a VM opens and holds only what was approved when the
\* run was last started (internal/config/local.go; serve/settings.go, planBoot).
THEOREM ApprovalsBind == ApprovalsSpec => []ApprovalsBindUnlessSlip
<1>1. ApprovalsInv => ApprovalsBindUnlessSlip
  BY DEF ApprovalsInv, FilesInv, FileInv, RunInv, VMInv, ApprovalsBindUnlessSlip, FileIsWhatWasSaidUnlessSlip,
         FileIsWhatWasSaid, VMWithinApprovalsUnlessSlip
<1> QED
  BY <1>1, ApprovalsHold, PTL

\* A run has no secret that is older than its vars (cmd/masuda/env.go; serve/settings.go, planBoot).
THEOREM VarsHaveTheirSecrets == ApprovalsSpec => []VarsWithTheirSecretsUnlessSlip
<1>1. ApprovalsInv => VarsWithTheirSecretsUnlessSlip
  BY DEF ApprovalsInv, RunInv, ValuesInv, VarsWithTheirSecretsUnlessSlip, Planned
<1> QED
  BY <1>1, ApprovalsHold, PTL

\* A privileged command runs only as a person has read and approved it (serve/privileged.go).
THEOREM RunsAsRead == ApprovalsSpec => RunsAsReadUnlessSlip
<1>1. ApprovalsInv /\ [ApprovalsNext]_approvalsVars =>
        [mishap' \cap {"import", "unseen"} # {} \/ ran' = ran \/ ran' = said.pin]_approvalsVars
  <2> SUFFICES ASSUME ApprovalsInv, ApprovalsNext
               PROVE  mishap' \cap {"import", "unseen"} # {} \/ ran' = ran \/ ran' = said.pin
    OBVIOUS
  <2>1. CASE Resolve
    BY <2>1 DEF Resolve, ApprovalsInv, FilesInv, FileInv
  <2>2. CASE UNCHANGED ran
    BY <2>2
  <2>3. Resolve \/ UNCHANGED ran
    BY DEF ApprovalsNext, Declare, List, Load, Save, SaveFails, SetValue, ImportBegins, ImportSets,
      ImportFails, ImportLoad,
           ImportSave, Copy, PlanReads, Plan, CreateSandbox, SetPolicy, PolicyHandled, StopRun, runVars
  <2> QED
    BY <2>1, <2>2, <2>3
<1> QED
  BY <1>1, ApprovalsHold, PTL DEF ApprovalsSpec, RunsAsReadUnlessSlip
=============================================================================
