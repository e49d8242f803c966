-------------------------------- MODULE Boot --------------------------------
(***************************************************************************)
(* From a Run to a session that works: the copy of the definitions, the     *)
(* workspace on disk, the control of the run, and the boot of its VM        *)
(* (serve/workspace.go, serve/boot.go, serve/settings.go, guest/guest.go),  *)
(* with Resume, Stop and a restart of serve in between.  An image is built  *)
(* by the boot and by masuda image build, under one name in the sandbox    *)
(* service and one record of serve (serve/images.go).                      *)
(*                                                                         *)
(* A part of the definitions is its version: people edit .masuda of the     *)
(* working tree at any time, and a restart may bring another binary, with   *)
(* other bundled definitions.  Run copies .masuda first, and checks and     *)
(* runs the copy; Resume builds the run again from what is on disk.        *)
(***************************************************************************)
EXTENDS Integers, Sequences

CONSTANTS Edited,     \* the parts of .masuda that people edit
          Broken,     \* <<part, version>> that does not load or is refused by its checks
          MaxEdits,   \* bound: edits of a part
          MaxUpgrades,\* bound: restarts with another binary
          MaxRestarts,\* bound: restarts of serve
          MaxVMs,     \* bound: VMs
          MaxFaults   \* bound: steps of Run and of a boot that fail

Parts == {"settings", "workflows", "reviews", "pitfalls", "images", "claude"}

ASSUME EditedAssumption == Edited \subseteq Parts /\ Broken \subseteq Parts \X Nat
ASSUME BoundsAssumption ==
    /\ MaxEdits \in Nat /\ MaxUpgrades \in Nat /\ MaxRestarts \in Nat
    /\ MaxVMs \in Nat \ {0} /\ MaxFaults \in Nat

VARIABLES
    tree,    \* .masuda of the working tree: the version of each part
    binary,  \* the version of the bundled definitions
    call,    \* the call of Run: where it is, and the copy in its temporary directory
    disk,    \* the directory of the workspace
    ctl,     \* the control of the run in serve, or NoCtl
    boot,    \* the boot of the run
    vm,      \* its VM and what has been put into it
    images,  \* the image: what its name and its record say, and the build of a client
    locks,   \* directories in which a cancelled git has left a lock
    checked, \* history: what Run has checked
    faults,  \* steps that have failed, and whether one has in this boot
    restarts,
    slip     \* history: see Slips

outside == <<tree, binary, restarts>>
vars == <<outside, call, disk, ctl, boot, vm, images, locks, checked, faults, slip>>

(* interrupted: serve ended within a Run, after the directory was made;
   upgraded: the run was built again by another binary;
   crossed: an image was built while the record of another was still to be written;
   unrecorded: a build was cut off before its record, or the record failed. *)
Slips == {"interrupted", "upgraded", "crossed", "unrecorded"}

Versions == [Parts -> 1..(MaxEdits + 1)]
Binaries == 1..(MaxUpgrades + 1)
NoVersions == [p \in Parts |-> 0]
Copies == Versions \cup {NoVersions}
NoCtl == [here |-> FALSE, defs |-> NoVersions, bundled |-> 0, reviews |-> <<0, 0>>]
NoDisk == [made |-> FALSE, state |-> "none", staged |-> FALSE, defs |-> NoVersions,
           reviews |-> <<0, 0>>, engine |-> FALSE]

Version == 0..(MaxEdits + 1)
Reviewed == Version \X (0..(MaxUpgrades + 1))

\* What Prepare puts into the guest, in its order.
Layout == <<"clone", "claude", "agents", "settings", "envFiles", "checks", "reviews", "pitfalls", "commands">>
NoVM(no) == [no |-> no, on |-> FALSE, image |-> 0, placed |-> <<>>, launched |-> FALSE]
BootSteps == {"none", "begin", "image", "record", "create", "bundle", "prepare", "launch"}

Calls == [at : {"idle", "files", "copied", "planned", "made", "staged", "moved", "ready", "returned", "failed"},
          copy : Copies]
Disks == [made : BOOLEAN, state : {"none", "STARTING", "RUNNING", "STOPPED", "SUSPENDED"},
          staged : BOOLEAN, defs : Copies, reviews : Reviewed, engine : BOOLEAN]
Controls == [here : BOOLEAN, defs : Copies, bundled : {0} \cup Binaries, reviews : Reviewed]
Boots == [at : BootSteps, resume : BOOLEAN, image : Version]
VMs == [no : 0..MaxVMs, on : BOOLEAN, image : Version, placed : Seq(Version \X Nat), launched : BOOLEAN]
ImageNames == [name : Version, record : Version, client : Version]

TypeOK ==
    /\ tree \in Versions /\ binary \in Binaries
    /\ call \in Calls /\ disk \in Disks /\ ctl \in Controls
    /\ boot \in Boots /\ vm \in VMs /\ images \in ImageNames
    /\ locks \subseteq 0..MaxVMs
    /\ checked \in [defs : Copies, bundled : {0} \cup Binaries]
    /\ faults \in [count : 0..MaxFaults, here : BOOLEAN]
    /\ restarts \in 0..MaxRestarts
    /\ slip \subseteq Slips

Init ==
    /\ tree = [p \in Parts |-> 1] /\ binary = 1
    /\ call = [at |-> "idle", copy |-> NoVersions]
    /\ disk = NoDisk /\ ctl = NoCtl
    /\ boot = [at |-> "none", resume |-> FALSE, image |-> 0]
    /\ vm = NoVM(0) /\ images = [name |-> 0, record |-> 0, client |-> 0]
    /\ locks = {} /\ checked = [defs |-> NoVersions, bundled |-> 0]
    /\ faults = [count |-> 0, here |-> FALSE] /\ restarts = 0 /\ slip = {}

\* A person edits a part of .masuda.
Edit(p) ==
    /\ tree[p] <= MaxEdits
    /\ tree' = [tree EXCEPT ![p] = @ + 1]
    /\ UNCHANGED <<binary, restarts, call, disk, ctl, boot, vm, images, locks, checked, faults, slip>>

(***************************************************************************)
(* What the definitions say                                                *)
(***************************************************************************)

\* A workflow calls the checks, and runs the privileged commands, that the settings of its version
\* declare: older settings lack one.
MissingChecks(defs) == defs["workflows"] > defs["settings"]

Loads(part, defs) == <<part, defs[part]>> \notin Broken

\* The workflows and agents, with the bundled ones, and the check of the workflow that is run.
LoadsDefinitions(defs) == Loads("workflows", defs)

\* The frontmatter of the perspectives can be read.
LoadsReviews(defs) == Loads("reviews", defs)

LoadsPitfalls(defs) == Loads("pitfalls", defs)

\* settings.json has no unknown field and passes Validate.
LoadsSettings(defs) == Loads("settings", defs)

\* The entry has its Dockerfile.
HasDockerfile(defs) == Loads("images", defs)

\* What Run finds before it plans.
Checked(defs) == LoadsDefinitions(defs) /\ LoadsReviews(defs) /\ LoadsPitfalls(defs)

\* planBoot finds no problem.
Plans(defs) == LoadsSettings(defs) /\ HasDockerfile(defs) /\ ~MissingChecks(defs)

\* Resume loads the copy again and plans from it.
Resumable(defs) == LoadsDefinitions(defs) /\ Plans(defs) /\ LoadsReviews(defs) /\ LoadsPitfalls(defs)

\* The perspectives of a run: those of the repository over the bundled ones.
Merged(defs, bundled) == <<defs["reviews"], bundled>>

\* Mutant: the perspectives are read from the working tree at each start.
SnapshotOfTree(old, defs) == Merged(tree, binary)

\* The copy in records: made once, and kept.
Snapshot(old, defs) == IF old = <<0, 0>> THEN Merged(defs, binary) ELSE old

(***************************************************************************)
(* Run                                                                     *)
(***************************************************************************)

\* A step of Run, or of a boot, fails.
Faults == faults.count < MaxFaults /\ faults' = [count |-> faults.count + 1, here |-> TRUE]

\* The files of .masuda are copied, but for claude and claude.local.
RunCopies ==
    /\ call.at = "idle"
    /\ call' = [at |-> "files", copy |-> tree]
    /\ UNCHANGED <<outside, disk, ctl, boot, vm, images, locks, checked, faults, slip>>

\* Then claude.local is laid over claude.
RunCopiesClaude ==
    /\ call.at = "files"
    /\ call' = [call EXCEPT !.at = "copied", !.copy["claude"] = tree["claude"]]
    /\ UNCHANGED <<outside, disk, ctl, boot, vm, images, locks, checked, faults, slip>>

\* The copy is loaded and checked, and the boot planned from it.
RunChecks ==
    /\ call.at = "copied"
    /\ IF Checked(call.copy) /\ Plans(call.copy)
       THEN /\ call' = [call EXCEPT !.at = "planned"]
            /\ checked' = [defs |-> call.copy, bundled |-> binary]
       ELSE call' = [call EXCEPT !.at = "failed"] /\ UNCHANGED checked
    /\ UNCHANGED <<outside, disk, ctl, boot, vm, images, locks, faults, slip>>

\* Under lifeMu: the directory of the workspace, with its state.
RunMakes ==
    /\ call.at = "planned"
    /\ call' = [call EXCEPT !.at = "made"]
    /\ disk' = [NoDisk EXCEPT !.made = TRUE, !.state = "STARTING"]
    /\ UNCHANGED <<outside, ctl, boot, vm, images, locks, checked, faults, slip>>

\* The clone.
RunStages ==
    /\ call.at = "made"
    /\ call' = [call EXCEPT !.at = "staged"]
    /\ disk' = [disk EXCEPT !.staged = TRUE]
    /\ UNCHANGED <<outside, ctl, boot, vm, images, locks, checked, faults, slip>>

\* The base is saved, and the copy becomes the definitions of the workspace.
RunMoves ==
    /\ call.at = "staged"
    /\ call' = [call EXCEPT !.at = "moved"]
    /\ disk' = [disk EXCEPT !.defs = call.copy]
    /\ UNCHANGED <<outside, ctl, boot, vm, images, locks, checked, faults, slip>>

\* The snapshot of the perspectives in the records of the workspace.
SnapshotReviews(d) == Snapshot(d.reviews, d.defs)

\* The perspectives, the pitfalls and the privileged commands, as newRunCtl reads them once more.
Readable(defs) == LoadsReviews(defs) /\ LoadsPitfalls(defs) /\ LoadsSettings(defs)

\* The control of a run, from the definitions on disk and those in the binary.
NewRunCtl(d) ==
    LET reviews == SnapshotReviews(d) IN
    /\ Readable(d.defs)
    /\ ctl' = [here |-> TRUE, defs |-> d.defs, bundled |-> binary, reviews |-> reviews]
    /\ disk' = [d EXCEPT !.reviews = reviews]

RunControls ==
    /\ call.at = "moved"
    /\ IF Readable(disk.defs)
       THEN NewRunCtl(disk) /\ call' = [call EXCEPT !.at = "ready"]
       ELSE disk' = NoDisk /\ call' = [call EXCEPT !.at = "failed"] /\ UNCHANGED ctl
    /\ UNCHANGED <<outside, boot, vm, images, locks, checked, faults, slip>>

Begin(resume) == boot' = [at |-> "begin", resume |-> resume, image |-> 0]

\* The inputs are saved and the engine starts; the boot goes on without the caller.
RunStarts ==
    /\ call.at = "ready"
    /\ call' = [call EXCEPT !.at = "returned"]
    /\ disk' = [disk EXCEPT !.engine = TRUE]
    /\ Begin(FALSE)
    /\ UNCHANGED <<outside, ctl, vm, images, locks, checked, faults, slip>>

\* Mutant: the control goes, the directory stays.
RunFailsLeaving ==
    /\ call.at \in {"made", "staged", "moved", "ready"}
    /\ Faults
    /\ call' = [call EXCEPT !.at = "failed"]
    /\ disk' = IF call.at = "ready" THEN disk ELSE NoDisk
    /\ ctl' = NoCtl
    /\ UNCHANGED <<outside, boot, vm, images, locks, checked, slip>>

\* A step fails: the directory is removed, and with it the control.
RunFails ==
    /\ call.at \in {"made", "staged", "moved", "ready"}
    /\ Faults
    /\ call' = [call EXCEPT !.at = "failed"]
    /\ disk' = NoDisk /\ ctl' = NoCtl
    /\ UNCHANGED <<outside, boot, vm, images, locks, checked, slip>>

(***************************************************************************)
(* The boot                                                                *)
(***************************************************************************)

Booting == boot.at # "none" /\ ctl.here
NoBoot == [at |-> "none", resume |-> FALSE, image |-> 0]
Destroyed == NoVM(vm.no)

\* A boot that resumes begins by destroying what an earlier serve may have left.
BootBegins ==
    /\ Booting /\ boot.at = "begin"
    /\ vm' = IF boot.resume THEN Destroyed ELSE vm
    /\ boot' = [boot EXCEPT !.at = "image"]
    /\ UNCHANGED <<outside, call, disk, ctl, images, locks, checked, faults, slip>>

\* The boot has failed: the run leaves serve, the VM is destroyed, the workspace is SUSPENDED.
Suspend ==
    /\ boot' = NoBoot /\ ctl' = NoCtl
    /\ vm' = Destroyed
    /\ disk' = [disk EXCEPT !.state = "SUSPENDED"]

\* The sandbox service has built this version, and gives it the name of the entry.
Built(v) == [images EXCEPT !.name = v]

\* The caller writes its record.
Recorded(v) == [images EXCEPT !.record = v]

\* Another build has still to be recorded.
Crossing == images.client # 0 \/ boot.at = "record"
Crossed == IF Crossing THEN slip \cup {"crossed"} ELSE slip

\* The image is built from the copy of its directory.
BootImage ==
    /\ Booting /\ boot.at = "image"
    /\ IF HasDockerfile(disk.defs)
       THEN /\ boot' = [boot EXCEPT !.at = "record", !.image = disk.defs["images"]]
            /\ images' = Built(disk.defs["images"])
            /\ slip' = Crossed
            /\ UNCHANGED <<disk, ctl, vm>>
       ELSE Suspend /\ UNCHANGED <<images, slip>>
    /\ UNCHANGED <<outside, call, locks, checked, faults>>

BootRecords ==
    /\ Booting /\ boot.at = "record"
    /\ boot' = [boot EXCEPT !.at = "create"]
    /\ images' = Recorded(boot.image)
    /\ UNCHANGED <<outside, call, disk, ctl, vm, locks, checked, faults, slip>>

BootCreates ==
    /\ Booting /\ boot.at = "create"
    /\ ~vm.on /\ vm.no < MaxVMs
    /\ vm' = [NoVM(vm.no + 1) EXCEPT !.on = TRUE, !.image = boot.image]
    /\ boot' = [boot EXCEPT !.at = "bundle"]
    /\ UNCHANGED <<outside, call, disk, ctl, images, locks, checked, faults, slip>>

\* Mutant: one directory for the bundles of all boots.
OneDirectory == 0

\* A fresh directory for each boot.
BundleDirectory == vm.no

\* The staged branch is bundled for the guest; git fails if its lock is there.
BootBundles ==
    /\ Booting /\ boot.at = "bundle"
    /\ IF BundleDirectory \in locks
       THEN Suspend
       ELSE /\ boot' = [boot EXCEPT !.at = "prepare"]
            /\ UNCHANGED <<disk, ctl, vm>>
    /\ UNCHANGED <<outside, call, images, locks, checked, faults, slip>>

Plain(part) == <<ctl.defs[part], 0>>

WithBundled(part) == <<ctl.defs[part], ctl.bundled>>

\* CLAUDE.md, with the rules of the loop, rules and skills.
Claude == WithBundled("claude")

\* The agents that the workflows reach, the bundled ones among them.
Agents == WithBundled("workflows")

\* The settings of Claude Code, with the hooks of the binary.
ClaudeSettings == WithBundled("settings")

\* The scripts of the checks, and prepare.
Checks == Plain("settings")

\* The commands that agents may run.
Commands == Plain("settings")

\* The files that settings.json describes, with the placeholders of this VM.
EnvFiles == <<ctl.defs["settings"], vm.no>>

Reviews == ctl.reviews

Pitfalls == Plain("pitfalls")

Content(what) ==
    CASE what = "clone" -> <<1, 0>>
      [] what = "claude" -> Claude
      [] what = "agents" -> Agents
      [] what = "settings" -> ClaudeSettings
      [] what = "envFiles" -> EnvFiles
      [] what = "checks" -> Checks
      [] what = "reviews" -> Reviews
      [] what = "pitfalls" -> Pitfalls
      [] what = "commands" -> Commands

\* The next of the files is put into the guest.
BootPrepares ==
    /\ Booting /\ boot.at = "prepare" /\ vm.on
    /\ vm' = [vm EXCEPT !.placed = Append(@, Content(Layout[Len(@) + 1]))]
    /\ boot' = [boot EXCEPT !.at = IF Len(vm'.placed) = Len(Layout) THEN "launch" ELSE @]
    /\ UNCHANGED <<outside, call, disk, ctl, images, locks, checked, faults, slip>>

\* A boot that resumes restores the last snapshot, prepare runs, and Claude Code is launched.  A run
\* that is resumed advances its engine, which fails if it was never started.
BootLaunches ==
    /\ Booting /\ boot.at = "launch"
    /\ vm' = [vm EXCEPT !.launched = TRUE]
    /\ boot' = NoBoot
    /\ disk' = [disk EXCEPT !.state = IF boot.resume /\ ~disk.engine THEN "SUSPENDED" ELSE "RUNNING"]
    /\ UNCHANGED <<outside, call, ctl, images, locks, checked, faults, slip>>

\* What ends a boot between the build and its record.
Unrecorded == IF boot.at = "record" THEN slip \cup {"unrecorded"} ELSE slip

\* Any step of it fails.
BootFails ==
    /\ Booting /\ boot.at # "begin"
    /\ Faults
    /\ Suspend
    /\ slip' = Unrecorded
    /\ UNCHANGED <<outside, call, images, locks, checked>>

(***************************************************************************)
(* Stop, Resume, and the end of serve                                      *)
(***************************************************************************)

\* A git that is cancelled leaves its lock.
Cancelled == IF boot.at = "bundle" THEN locks \cup {BundleDirectory} ELSE locks

\* lifeMu keeps Stop out of a Run that has not returned.
Unlocked == call.at \in {"returned", "failed"}

\* Stop cancels the boot, if there is one, and destroys the VM.
Stop ==
    /\ Unlocked /\ disk.made /\ disk.state \in {"STARTING", "RUNNING", "SUSPENDED"}
    /\ disk' = [disk EXCEPT !.state = "STOPPED"]
    /\ ctl' = NoCtl /\ boot' = NoBoot /\ vm' = Destroyed
    /\ locks' = Cancelled
    /\ faults' = [faults EXCEPT !.here = FALSE]
    /\ slip' = Unrecorded
    /\ UNCHANGED <<outside, call, images, checked>>

\* A workspace whose definitions are there and can be planned is taken up again; what is left
\* of a suspended run goes first.
Resumes ==
    /\ Unlocked /\ disk.made /\ disk.state \in {"STOPPED", "SUSPENDED"}
    /\ disk.defs # NoVersions /\ Resumable(disk.defs)
    /\ vm.no < MaxVMs
    /\ vm' = IF disk.state = "SUSPENDED" THEN Destroyed ELSE vm
    /\ UNCHANGED <<outside, call, images, locks, checked>>

Resume ==
    /\ Resumes
    /\ NewRunCtl([disk EXCEPT !.state = "STARTING"])
    /\ Begin(TRUE)
    /\ faults' = [faults EXCEPT !.here = FALSE]
    /\ slip' = IF binary = checked.bundled THEN slip ELSE slip \cup {"upgraded"}

\* A step after the state was saved as STARTING fails, in newRunCtl or once it is registered:
\* the control goes, the old state is saved again, and the perspectives may have been copied.
ResumeFails ==
    /\ Resumes /\ faults.count < MaxFaults
    /\ faults' = [faults EXCEPT !.count = @ + 1]
    /\ ctl' = NoCtl /\ UNCHANGED boot
    /\ \E reviews \in {disk.reviews, SnapshotReviews(disk)} :
         /\ disk' = [disk EXCEPT !.reviews = reviews]
         /\ slip' = IF reviews = disk.reviews \/ binary = checked.bundled THEN slip
                    ELSE slip \cup {"upgraded"}

\* serve ends, and begins again with this binary or another.  What is on disk stays, and the
\* VM until it is cleaned up; what was active is STOPPED.
Restart(b) ==
    /\ restarts < MaxRestarts /\ restarts' = restarts + 1
    /\ binary' = b
    /\ ctl' = NoCtl /\ boot' = NoBoot
    /\ locks' = Cancelled
    /\ disk' = [disk EXCEPT !.state = IF @ \in {"STARTING", "RUNNING"} THEN "STOPPED" ELSE @]
    /\ call' = IF call.at = "idle" THEN call ELSE [call EXCEPT !.at = "returned"]
    /\ images' = [images EXCEPT !.client = 0]
    /\ slip' = (IF call.at \in {"made", "staged", "moved", "ready"} THEN slip \cup {"interrupted"} ELSE slip)
         \cup (IF Crossing THEN {"unrecorded"} ELSE {})
    /\ faults' = [faults EXCEPT !.here = @ /\ disk.state = "SUSPENDED"]
    /\ UNCHANGED <<tree, vm, checked>>

\* The new serve destroys, in the background, the VM that the old one left.
Recover ==
    /\ ~ctl.here /\ vm.on /\ disk.state = "STOPPED"
    /\ vm' = Destroyed
    /\ UNCHANGED <<outside, call, disk, ctl, boot, images, locks, checked, faults, slip>>

(***************************************************************************)
(* masuda image build                                                      *)
(***************************************************************************)

\* Of the working tree, through serve.
ClientBuilds ==
    /\ images.client = 0 /\ HasDockerfile(tree)
    /\ images' = [Built(tree["images"]) EXCEPT !.client = tree["images"]]
    /\ slip' = Crossed
    /\ UNCHANGED <<outside, call, disk, ctl, boot, vm, locks, checked, faults>>

\* Mutant: only a boot writes the record.
ClientForgets ==
    /\ images.client # 0
    /\ images' = [images EXCEPT !.client = 0]
    /\ UNCHANGED <<outside, call, disk, ctl, boot, vm, locks, checked, faults, slip>>

ClientRecords ==
    /\ images.client # 0
    /\ images' = [Recorded(images.client) EXCEPT !.client = 0]
    /\ UNCHANGED <<outside, call, disk, ctl, boot, vm, locks, checked, faults, slip>>

\* The client goes away before the build is recorded: its stream is cut.
ClientLeaves ==
    /\ images.client # 0
    /\ images' = [images EXCEPT !.client = 0]
    /\ slip' = slip \cup {"unrecorded"}
    /\ UNCHANGED <<outside, call, disk, ctl, boot, vm, locks, checked, faults>>

\* The record that serve reads, and what masuda image list shows of it.
LoadImageRecord == images.record
ListImages == LoadImageRecord

ImageNext == ClientBuilds \/ ClientRecords \/ ClientLeaves

Run ==
    \/ RunCopies \/ RunCopiesClaude \/ RunChecks \/ RunMakes \/ RunStages \/ RunMoves
    \/ RunControls \/ RunStarts \/ RunFails

BootNext ==
    \/ BootBegins \/ BootImage \/ BootRecords \/ BootCreates \/ BootBundles
    \/ BootPrepares \/ BootLaunches \/ BootFails

Next ==
    \/ \E p \in Edited : Edit(p)
    \/ Run \/ BootNext \/ ImageNext \/ Stop \/ Resume \/ ResumeFails \/ Recover
    \/ \E b \in Binaries : b \in {binary, binary + 1} /\ Restart(b)

Spec == Init /\ [][Next]_vars

(***************************************************************************)
(* Properties                                                              *)
(***************************************************************************)

\* The guest of the definitions that Run has checked, with what the binary adds to it.
Promised(bundled, perspectives) ==
    LET d == checked.defs IN
    << <<1, 0>>, <<d["claude"], bundled>>, <<d["workflows"], bundled>>, <<d["settings"], bundled>>,
       <<d["settings"], vm.no>>, <<d["settings"], 0>>, <<d["reviews"], perspectives>>,
       <<d["pitfalls"], 0>>, <<d["settings"], 0>> >>

\* Claude Code is launched only in a guest that holds what Run has checked, each file of it,
\* in the image of its copy and with the placeholders of its own VM: after an edit of .masuda, a
\* Stop and a Resume, and a restart of serve too (copyDefinitions: a run is never built again
\* from other definitions).  The slip: what is bundled is that of the binary that
\* resumes, so an upgrade in between changes workflows, agents, the rules of the loop and the
\* hooks under the run (and the perspectives only if serve ended before Run had copied them).
GuestIsOfTheRun ==
    vm.launched =>
        /\ vm.image = checked.defs["images"]
        /\ \E b, p \in Binaries :
             /\ b = checked.bundled \/ "upgraded" \in slip
             /\ p = checked.bundled \/ {"interrupted", "upgraded"} \subseteq slip
             /\ vm.placed = Promised(b, p)

\* The engine runs no workflow whose checks and privileged commands its settings lack: it is the copy
\* that is checked, so no edit between the check and the start can separate them.
EngineFindsItsChecks ==
    ctl.here => ~MissingChecks(ctl.defs)

\* What runs is what was checked, in the guest and in the engine: the two above.
RunsWhatWasCheckedUnlessUpgraded == GuestIsOfTheRun /\ EngineFindsItsChecks

\* A boot ends SUSPENDED only by a fault of its own: what a cancelled boot left behind does
\* not stop the next (prepareGuest: a fresh directory, for the lock of a cancelled git).
BootFailsOnlyByFault ==
    disk.state = "SUSPENDED" => faults.here \/ "interrupted" \in slip

\* A workspace that a call can see outside Run is whole: it has its clone, an engine that was
\* started, and definitions that load and can be planned, so Resume can go on with it whatever has been
\* edited since; a Run that failed, or refused its copy, leaves none.  The slip: serve ends in the
\* middle of Run, and the workspace can be listed, and stopped, but never runs.
WorkspaceIsWholeUnlessInterrupted ==
    disk.made /\ (Unlocked \/ disk.state = "STOPPED")
        => (disk.staged /\ disk.engine /\ disk.defs # NoVersions /\ Resumable(disk.defs))
           \/ "interrupted" \in slip

\* masuda image list tells the build that the name of the image stands for, whoever has built
\* it, the boot of a run or a client (images.go:52-54: they must not disagree).  The slips: two
\* builds at a time are recorded in another order than they are named, and a build that is cut
\* off, or whose record cannot be written, has its name and no record.
RecordIsOfTheNameUnlessSlip ==
    \/ slip \cap {"crossed", "unrecorded"} # {}
    \/ boot.at = "record" \/ images.client # 0
    \/ ListImages = images.name

\* What failed or was cut off is not in the way of what comes next: the two above
\* (serve/workspace.go, Run; serve/boot.go, prepareGuest).
FailuresLeaveNothingUnlessInterrupted == BootFailsOnlyByFault /\ WorkspaceIsWholeUnlessInterrupted
=============================================================================
