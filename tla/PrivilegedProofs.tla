--------------------------- MODULE PrivilegedProofs ---------------------------
(***************************************************************************)
(* The secrets of privileged commands stay inside, and their records are   *)
(* true: for any number of calls, commands, records, commits and faults.   *)
(* What settings.json may declare of them is consistent, and its patterns  *)
(* select what they say, for settings, patterns and paths of any size.     *)
(***************************************************************************)
EXTENDS Privileged, Declared, SequenceTheorems, FiniteSetTheorems, WellFoundedInduction, TLAPS

(***************************************************************************)
(* The inductive invariant                                                 *)
(***************************************************************************)

\* A call has its command, and belongs to a run that has begun; the faults count the Resumes.
GenInv ==
    /\ gen <= faults + 1
    /\ \A c \in Callers : call[c].gen <= gen /\ (call[c].at # "idle" => call[c].cmd \in Commands)

\* A call with secrets is that of a node, and what a publish would land stays what it was
\* when the node began, as long as the run does: the node holds runCtl.mu.
NodeInv ==
    \A c \in Callers : call[c].cmd \in Secret =>
        /\ call[c].node
        /\ call[c].gen = gen => call[c].commit = reviewed

\* The same of the head, once Pin has compared them.
PinInv ==
    \A c \in Callers :
        call[c].cmd \in Secret /\ call[c].gen = gen /\ call[c].at \in {"build", "bundle", "stream"}
            => call[c].commit = head

\* The job of a call is asked for with what the call has pinned, and it is the job of this
\* call as long as the call waits for it.
JobInv ==
    \A c \in Callers :
        /\ call[c].at \in {"wait", "mkdir", "pin", "build", "bundle"} => job[c].at = "none"
        /\ call[c].at \in {"build", "bundle"} /\ call[c].cmd \in Secret => job[c].ref = call[c].commit
        /\ call[c].at = "stream" /\ job[c].at # "none" =>
            /\ job[c].cmd = call[c].cmd
            /\ call[c].cmd \in Secret => job[c].ref = call[c].commit

\* The main guest has results of commands without secrets only.
GuestInv == \A p \in inGuest : p[2] \in Plain

\* A call that has made its directory is the only one with its number.
NumberInv ==
    /\ \A c \in Callers : call[c].at \in {"idle", "wait"} => call[c].n = 0
    /\ \A c \in Callers : call[c].at \notin {"idle", "wait", "mkdir"} =>
           call[c].n \in Numbers /\ records[call[c].n] # "none"
    /\ RecordsAreOwn

\* A command that ended has its outputs collected, or the deadline passed in between.
OutputsInv ==
    \A c \in Callers :
        \/ "late" \in slip
        \/ /\ job[c].at = "outputs" /\ job[c].exited # "none" => ~job[c].late
           /\ job[c].at \in {"none", "inputs", "setup"} => job[c].exited = "none"
           /\ job[c].at = "running" => job[c].exited = "setup"
           /\ job[c].at \in {"destroying", "finished"} /\ job[c].exited \in {"yes", "timeout"}
                => job[c].outputs # "none"
           /\ call[c].at \in {"place", "save"} => job[c].at = "finished" /\ job[c].exited # "none"

PrivilegedInv ==
    /\ TypeOK /\ GenInv /\ NodeInv /\ PinInv /\ JobInv /\ GuestInv /\ NumberInv
    /\ OutputsInv /\ OutputsAccounted

\* A call and a job that are not there.
LEMMA NothingTypes == Idle \in CallRecords /\ NoJob \in JobRecords
<1>1. Idle \in CallRecords
  BY BoundsAssumption DEF Idle, CallRecords
<1>2. NoJob \in JobRecords
  BY BoundsAssumption DEF NoJob, JobRecords
<1> QED
  BY <1>1, <1>2

LEMMA PrivilegedInit == Init => PrivilegedInv
<1> SUFFICES ASSUME Init PROVE PrivilegedInv
  OBVIOUS
<1>1. TypeOK
  <2>1. head \in 1..MaxCommits /\ reviewed \in 0..MaxCommits /\ gen \in Gens
    BY BoundsAssumption DEF Init, Gens
  <2>2. /\ lock \in [Gens -> Callers \cup {"free"}]
        /\ call \in [Callers -> CallRecords] /\ job \in [Callers -> JobRecords]
    BY NothingTypes DEF Init
  <2>3. /\ records \in [Numbers -> {"none", "dir", "host", "error", "complete", "partial", "missing", "timeout"}]
        /\ inGuest \subseteq (Numbers \X Commands) /\ faults \in 0..MaxFaults /\ slip \in SUBSET {"late"}
    BY BoundsAssumption DEF Init
  <2> QED
    BY <2>1, <2>2, <2>3 DEF TypeOK
<1> USE BoundsAssumption DEF Init, Idle, NoJob, Gens, Numbers, Commands
<1>2. GenInv /\ NodeInv /\ PinInv /\ JobInv /\ GuestInv
  BY CommandsAssumption, <1>1 DEF GenInv, NodeInv, PinInv, JobInv, GuestInv
<1>3. NumberInv /\ OutputsInv /\ OutputsAccounted
  BY DEF NumberInv, RecordsAreOwn, OutputsInv, OutputsAccounted
<1> QED
  BY <1>1, <1>2, <1>3 DEF PrivilegedInv

\* The next number is within one of the last.
LEMMA NextNumber ==
    ASSUME TypeOK
    PROVE  Cardinality({n \in Numbers : records[n] # "none"}) + 1 \in 0..(MaxRuns + 1)
<1> DEFINE used == {n \in Numbers : records[n] # "none"}
<1>1. IsFiniteSet(1..MaxRuns) /\ Cardinality(1..MaxRuns) = MaxRuns
  BY BoundsAssumption, FS_Interval
<1>2. IsFiniteSet(used) /\ Cardinality(used) <= MaxRuns
  BY <1>1, FS_Subset DEF Numbers
<1>3. Cardinality(used) \in Nat
  BY <1>2, FS_CardinalityType
<1> QED
  BY <1>2, <1>3, BoundsAssumption

\* What a step of a call or a job leaves alone.
LEMMA CallGoes ==
    ASSUME TypeOK, NEW c \in Callers, NEW at, Goes(c, at)
    PROVE  /\ call'[c].at = at
           /\ \A d \in Callers :
                /\ d # c => call'[d].at = call[d].at
                /\ call'[d].cmd = call[d].cmd /\ call'[d].node = call[d].node
                /\ call'[d].commit = call[d].commit /\ call'[d].gen = call[d].gen
                /\ call'[d].n = call[d].n /\ call'[d].cut = call[d].cut
  BY DEF TypeOK, CallRecords, Goes

LEMMA CallEnds ==
    ASSUME TypeOK, NEW c \in Callers, Ended(c)
    PROVE  /\ \A d \in Callers : d # c => call'[d] = call[d] /\ job'[d] = job[d]
           /\ call'[c] = Idle /\ job'[c] \in {job[c], NoJob}
           /\ job[c].at \in {"none", "finished", "failed"} => job'[c] = NoJob
           /\ job[c].at \notin {"none", "finished", "failed"} => job'[c] = job[c]
  BY DEF TypeOK, Ended, Active

LEMMA JobMoves ==
    ASSUME TypeOK, NEW c \in Callers, NEW at, JobGoes(c, at)
    PROVE  /\ job'[c].at = at
           /\ \A d \in Callers :
                /\ d # c => job'[d].at = job[d].at
                /\ job'[d].cmd = job[d].cmd /\ job'[d].ref = job[d].ref /\ job'[d].late = job[d].late
                /\ job'[d].exited = job[d].exited /\ job'[d].outputs = job[d].outputs
  BY DEF TypeOK, JobRecords, JobGoes

LEMMA JobEnds ==
    ASSUME TypeOK, NEW c \in Callers, JobFails(c)
    PROVE  /\ \A d \in Callers : d # c => job'[d] = job[d]
           /\ \/ Gone(c) /\ job'[c] = NoJob
              \/ /\ ~Gone(c) /\ job'[c].at = "failed"
                 /\ job'[c].cmd = job[c].cmd /\ job'[c].ref = job[c].ref /\ job'[c].late = job[c].late
                 /\ job'[c].exited = job[c].exited /\ job'[c].outputs = job[c].outputs
  BY DEF TypeOK, JobRecords, JobFails

\* ... and their types.
LEMMA MoveTypes ==
    ASSUME TypeOK, NEW c \in Callers
    PROVE  /\ \A at \in {"pin", "build", "bundle", "stream", "place", "save", "fail"} :
                Goes(c, at) => call' \in [Callers -> CallRecords]
           /\ \A at \in {"setup", "outputs", "destroying", "finished"} :
                JobGoes(c, at) => job' \in [Callers -> JobRecords]
<1>1. ASSUME NEW at \in {"pin", "build", "bundle", "stream", "place", "save", "fail"}, Goes(c, at)
      PROVE  call' \in [Callers -> CallRecords]
  BY <1>1 DEF TypeOK, CallRecords, Goes
<1>2. ASSUME NEW at \in {"setup", "outputs", "destroying", "finished"}, JobGoes(c, at)
      PROVE  job' \in [Callers -> JobRecords]
  BY <1>2 DEF TypeOK, JobRecords, JobGoes
<1> QED
  BY <1>1, <1>2

LEMMA EndTypes ==
    ASSUME TypeOK, NEW c \in Callers
    PROVE  /\ Ended(c) => /\ call' \in [Callers -> CallRecords] /\ job' \in [Callers -> JobRecords]
                          /\ lock' \in [Gens -> Callers \cup {"free"}]
           /\ JobFails(c) => job' \in [Callers -> JobRecords]
<1>1. ASSUME Ended(c)
      PROVE  /\ call' \in [Callers -> CallRecords] /\ job' \in [Callers -> JobRecords]
             /\ lock' \in [Gens -> Callers \cup {"free"}]
  BY <1>1, NothingTypes DEF TypeOK, Ended
<1>2. ASSUME JobFails(c) PROVE job' \in [Callers -> JobRecords]
  <2>1. CASE Gone(c)
    BY <1>2, <2>1, NothingTypes DEF TypeOK, JobFails
  <2>2. CASE ~Gone(c)
    BY <1>2, <2>2 DEF TypeOK, JobFails, JobRecords
  <2> QED
    BY <2>1, <2>2
<1> QED
  BY <1>1, <1>2

\* The fields of a call and a job.
LEMMA Fields ==
    ASSUME TypeOK, NEW c \in Callers
    PROVE  /\ call[c].cmd \in Commands \cup {"none"} /\ call[c].node \in BOOLEAN
           /\ call[c].commit \in 0..MaxCommits /\ call[c].gen \in Gens \cup {0}
           /\ call[c].n \in 0..(MaxRuns + 1) /\ call[c].cut \in BOOLEAN
           /\ call[c] \in CallRecords /\ job[c] \in JobRecords
  BY DEF TypeOK, CallRecords

LEMMA JobPins ==
    ASSUME TypeOK, NEW c \in Callers, NEW x \in {WIP} \cup (0..MaxCommits), job' = [job EXCEPT ![c].ref = x]
    PROVE  /\ job' \in [Callers -> JobRecords]
           /\ job'[c].ref = x /\ job'[c].at = job[c].at /\ job'[c].cmd = job[c].cmd
           /\ job'[c].late = job[c].late /\ job'[c].exited = job[c].exited /\ job'[c].outputs = job[c].outputs
           /\ \A d \in Callers \ {c} : job'[d] = job[d]
<1> HIDE DEF WIP
<1> QED
  BY DEF TypeOK, JobRecords

LEMMA JobAsked ==
    ASSUME TypeOK, NEW c \in Callers, NEW x \in Commands, job' = [job EXCEPT ![c].at = "inputs", ![c].cmd = x]
    PROVE  /\ job' \in [Callers -> JobRecords]
           /\ job'[c].ref = job[c].ref /\ job'[c].at = "inputs" /\ job'[c].cmd = x
           /\ job'[c].late = job[c].late /\ job'[c].exited = job[c].exited /\ job'[c].outputs = job[c].outputs
           /\ \A d \in Callers \ {c} : job'[d] = job[d]
<1>1. PICK s : s = [job[c] EXCEPT !.at = "inputs", !.cmd = x]
  OBVIOUS
<1>2. job' = [job EXCEPT ![c] = s]
  BY <1>1
<1>3. /\ s \in JobRecords
      /\ s.ref = job[c].ref /\ s.at = "inputs" /\ s.cmd = x
      /\ s.late = job[c].late /\ s.exited = job[c].exited /\ s.outputs = job[c].outputs
  BY <1>1, Fields DEF JobRecords
<1>4. job \in [Callers -> JobRecords]
  BY DEF TypeOK
<1>5. job'[c] = s /\ \A d \in Callers \ {c} : job'[d] = job[d]
  BY <1>2, <1>4
<1>6. job' \in [Callers -> JobRecords]
  BY <1>2, <1>3, <1>4
<1> QED
  BY <1>3, <1>5, <1>6

LEMMA JobExits ==
    ASSUME TypeOK, NEW c \in Callers, NEW at \in {"running", "outputs"}, NEW how \in {"setup", "yes", "timeout"},
           job' = [job EXCEPT ![c].at = at, ![c].exited = how]
    PROVE  /\ job' \in [Callers -> JobRecords]
           /\ job'[c].ref = job[c].ref /\ job'[c].at = at /\ job'[c].cmd = job[c].cmd
           /\ job'[c].late = job[c].late /\ job'[c].exited = how /\ job'[c].outputs = job[c].outputs
           /\ \A d \in Callers \ {c} : job'[d] = job[d]
<1>1. PICK s : s = [job[c] EXCEPT !.at = at, !.exited = how]
  OBVIOUS
<1>2. job' = [job EXCEPT ![c] = s]
  BY <1>1
<1>3. /\ s \in JobRecords
      /\ s.ref = job[c].ref /\ s.at = at /\ s.cmd = job[c].cmd
      /\ s.late = job[c].late /\ s.exited = how /\ s.outputs = job[c].outputs
  BY <1>1, Fields DEF JobRecords
<1>4. job \in [Callers -> JobRecords]
  BY DEF TypeOK
<1>5. job'[c] = s /\ \A d \in Callers \ {c} : job'[d] = job[d]
  BY <1>2, <1>4
<1>6. job' \in [Callers -> JobRecords]
  BY <1>2, <1>3, <1>4
<1> QED
  BY <1>3, <1>5, <1>6

LEMMA JobCollects ==
    ASSUME TypeOK, NEW c \in Callers, NEW got \in {"all", "some"},
           job' = [job EXCEPT ![c].at = "destroying", ![c].outputs = got]
    PROVE  /\ job' \in [Callers -> JobRecords]
           /\ job'[c].ref = job[c].ref /\ job'[c].at = "destroying" /\ job'[c].cmd = job[c].cmd
           /\ job'[c].late = job[c].late /\ job'[c].exited = job[c].exited /\ job'[c].outputs = got
           /\ \A d \in Callers \ {c} : job'[d] = job[d]
<1>1. PICK s : s = [job[c] EXCEPT !.at = "destroying", !.outputs = got]
  OBVIOUS
<1>2. job' = [job EXCEPT ![c] = s]
  BY <1>1
<1>3. /\ s \in JobRecords
      /\ s.ref = job[c].ref /\ s.at = "destroying" /\ s.cmd = job[c].cmd
      /\ s.late = job[c].late /\ s.exited = job[c].exited /\ s.outputs = got
  BY <1>1, Fields DEF JobRecords
<1>4. job \in [Callers -> JobRecords]
  BY DEF TypeOK
<1>5. job'[c] = s /\ \A d \in Callers \ {c} : job'[d] = job[d]
  BY <1>2, <1>4
<1>6. job' \in [Callers -> JobRecords]
  BY <1>2, <1>3, <1>4
<1> QED
  BY <1>3, <1>5, <1>6

LEMMA JobLate ==
    ASSUME TypeOK, NEW c \in Callers, job' = [job EXCEPT ![c].late = TRUE]
    PROVE  /\ job' \in [Callers -> JobRecords]
           /\ job'[c].ref = job[c].ref /\ job'[c].at = job[c].at /\ job'[c].cmd = job[c].cmd
           /\ job'[c].late = TRUE /\ job'[c].exited = job[c].exited /\ job'[c].outputs = job[c].outputs
           /\ \A d \in Callers \ {c} : job'[d] = job[d]
<1>0. PICK x \in BOOLEAN : x
  OBVIOUS
<1>1. PICK s : s = [job[c] EXCEPT !.late = x]
  OBVIOUS
<1>2. job' = [job EXCEPT ![c] = s]
  BY <1>0, <1>1
<1>3. /\ s \in JobRecords
      /\ s.ref = job[c].ref /\ s.at = job[c].at /\ s.cmd = job[c].cmd
      /\ s.late = TRUE /\ s.exited = job[c].exited /\ s.outputs = job[c].outputs
  BY <1>0, <1>1, Fields DEF JobRecords
<1>4. job \in [Callers -> JobRecords]
  BY DEF TypeOK
<1>5. job'[c] = s /\ \A d \in Callers \ {c} : job'[d] = job[d]
  BY <1>2, <1>4
<1>6. job' \in [Callers -> JobRecords]
  BY <1>2, <1>3, <1>4
<1> QED
  BY <1>3, <1>5, <1>6

LEMMA CallCut ==
    ASSUME TypeOK, NEW c \in Callers, Cut(c)
    PROVE  /\ call' \in [Callers -> CallRecords]
           /\ \A d \in Callers :
                /\ d # c => call'[d].cut = call[d].cut
                /\ call'[d].cmd = call[d].cmd /\ call'[d].node = call[d].node
                /\ call'[d].commit = call[d].commit /\ call'[d].gen = call[d].gen
                /\ call'[d].n = call[d].n /\ call'[d].at = call[d].at
           /\ faults < MaxFaults /\ faults' = faults + 1
           /\ UNCHANGED <<head, reviewed, gen, lock, records, inGuest, job, slip>>
<1>0. PICK x \in BOOLEAN : x
  OBVIOUS
<1>3. PICK s : s = [call[c] EXCEPT !.cut = x]
  OBVIOUS
<1>1. call' = [call EXCEPT ![c] = s]
  BY <1>0, <1>3 DEF Cut
<1>2. /\ s \in CallRecords
      /\ s.at = call[c].at /\ s.cmd = call[c].cmd /\ s.node = call[c].node
      /\ s.commit = call[c].commit /\ s.gen = call[c].gen /\ s.n = call[c].n
  BY <1>3, Fields DEF CallRecords
<1> QED
  <2>1. /\ faults < MaxFaults /\ faults' = faults + 1
        /\ UNCHANGED <<head, reviewed, gen, lock, records, inGuest, job, slip>>
    BY DEF Cut, envVars
  <2> QED
    BY <1>1, <1>2, <2>1 DEF TypeOK

LEMMA CallNumbered ==
    ASSUME TypeOK, NEW c \in Callers, Lock(c)
    PROVE  /\ call' \in [Callers -> CallRecords]
           /\ call'[c].at = "mkdir"
           /\ \A d \in Callers :
                /\ d # c => call'[d].at = call[d].at /\ call'[d].n = call[d].n
                /\ call'[d].cmd = call[d].cmd /\ call'[d].node = call[d].node
                /\ call'[d].commit = call[d].commit /\ call'[d].gen = call[d].gen
                /\ call'[d].cut = call[d].cut
           /\ call[c].at = "wait" /\ lock' \in [Gens -> Callers \cup {"free"}]
           /\ UNCHANGED <<head, reviewed, gen, records, inGuest, job, faults, slip>>
<1> DEFINE n == Cardinality({m \in Numbers : records[m] # "none"}) + 1
<1>4. PICK s : s = [call[c] EXCEPT !.at = "mkdir", !.n = n]
  OBVIOUS
<1>1. call' = [call EXCEPT ![c] = s]
  BY <1>4 DEF Lock
<1>2. n \in 0..(MaxRuns + 1)
  BY NextNumber
<1> HIDE DEF n
<1>3. /\ s \in CallRecords
      /\ s.at = "mkdir" /\ s.cmd = call[c].cmd /\ s.node = call[c].node
      /\ s.commit = call[c].commit /\ s.gen = call[c].gen /\ s.cut = call[c].cut
  BY <1>2, <1>4, Fields DEF CallRecords
<1> QED
  <2>1. /\ call[c].at = "wait" /\ lock' \in [Gens -> Callers \cup {"free"}]
        /\ UNCHANGED <<head, reviewed, gen, records, inGuest, job, faults, slip>>
    BY DEF Lock, envVars, TypeOK
  <2> QED
    BY <1>1, <1>3, <2>1 DEF TypeOK

LEMMA CallBegins ==
    ASSUME TypeOK, NEW c \in Callers, NEW cmd \in Commands, NEW node \in BOOLEAN, Begin(c, cmd, node)
    PROVE  /\ call' \in [Callers -> CallRecords]
           /\ call'[c].at = "wait" /\ call'[c].cmd = cmd /\ call'[c].node = node /\ call'[c].gen = gen
           /\ call'[c].n = 0 /\ (node => call'[c].commit = reviewed)
           /\ \A d \in Callers \ {c} : call'[d] = call[d]
           /\ call[c] = Idle /\ job[c] = NoJob /\ (node => EngineFree) /\ (cmd \in Secret => node)
           /\ UNCHANGED <<head, reviewed, gen, lock, records, inGuest, job, faults, slip>>
<1> DEFINE commit == IF node THEN reviewed ELSE 0
<1>5. PICK s : s = [Idle EXCEPT !.at = "wait", !.cmd = cmd, !.node = node, !.commit = commit, !.gen = gen]
  OBVIOUS
<1>1. call' = [call EXCEPT ![c] = s]
  BY <1>5 DEF Begin
<1>2. commit \in 0..MaxCommits /\ (node => commit = reviewed) /\ gen \in Gens
  BY BoundsAssumption DEF TypeOK
<1>3. Idle \in CallRecords /\ Idle.n = 0
  BY NothingTypes DEF Idle
<1> HIDE DEF commit
<1>4. /\ s \in CallRecords /\ s.at = "wait" /\ s.cmd = cmd /\ s.node = node /\ s.commit = commit
      /\ s.gen = gen /\ s.n = 0
  BY <1>2, <1>3, <1>5 DEF CallRecords
<1> QED
  <2>1. /\ call[c] = Idle /\ job[c] = NoJob /\ (node => EngineFree) /\ (cmd \in Secret => node)
        /\ UNCHANGED <<head, reviewed, gen, lock, records, inGuest, job, faults, slip>>
    BY DEF Begin, envVars
  <2> QED
    BY <1>1, <1>2, <1>4, <2>1 DEF TypeOK

\* The steps that write a job of their own.
LEMMA PinDoes ==
    ASSUME TypeOK, NEW c \in Callers, Pin(c)
    PROVE  call[c].at = "pin" /\ UNCHANGED <<head, reviewed, gen, records, inGuest, faults, slip>> /\
           \/ Ended(c)
           \/ /\ Goes(c, "build") /\ UNCHANGED lock /\ ~Cancelled(c)
              /\ call[c].cmd \in Secret => head = call[c].commit /\ job'[c].ref = call[c].commit
              /\ job' \in [Callers -> JobRecords]
              /\ job'[c].at = job[c].at /\ job'[c].cmd = job[c].cmd
              /\ job'[c].late = job[c].late /\ job'[c].exited = job[c].exited /\ job'[c].outputs = job[c].outputs
              /\ \A d \in Callers \ {c} : job'[d] = job[d]
<1> DEFINE ref == IF call[c].cmd \in Secret THEN call[c].commit ELSE WIP
<1>2. ASSUME ~Ended(c)
      PROVE  /\ Goes(c, "build") /\ UNCHANGED lock /\ ~Cancelled(c)
             /\ call[c].cmd \in Secret => head = call[c].commit /\ job'[c].ref = call[c].commit
             /\ job' \in [Callers -> JobRecords]
             /\ job'[c].at = job[c].at /\ job'[c].cmd = job[c].cmd
             /\ job'[c].late = job[c].late /\ job'[c].exited = job[c].exited /\ job'[c].outputs = job[c].outputs
             /\ \A d \in Callers \ {c} : job'[d] = job[d]
  <2>1. /\ Goes(c, "build") /\ UNCHANGED lock /\ ~Cancelled(c)
        /\ call[c].cmd \in Secret => head = call[c].commit
        /\ job' = [job EXCEPT ![c].ref = ref]
    BY <1>2 DEF Pin
  <2>2. ref \in {WIP} \cup (0..MaxCommits)
    BY Fields
  <2>3. call[c].cmd \in Secret => ref = call[c].commit
    OBVIOUS
  <2> HIDE DEF ref
  <2> QED
    BY <2>1, <2>2, <2>3, JobPins
<1>3. call[c].at = "pin" /\ UNCHANGED <<head, reviewed, gen, records, inGuest, faults, slip>>
  BY DEF Pin, envVars
<1> QED
  BY <1>2, <1>3

LEMMA BuildDoes ==
    ASSUME TypeOK, NEW c \in Callers, Build(c)
    PROVE  /\ call[c].at = "build"
           /\ UNCHANGED <<head, reviewed, gen, records, inGuest, faults, slip>>
           /\ Ended(c) \/ (Goes(c, "bundle") /\ UNCHANGED <<lock, job>>)
<1>1. call[c].at = "build" /\ UNCHANGED <<head, reviewed, gen, records, inGuest, faults, slip>>
  BY DEF Build, envVars
<1>2. Ended(c) \/ (Goes(c, "bundle") /\ UNCHANGED <<lock, job>>)
  BY DEF Build
<1> QED
  BY <1>1, <1>2

LEMMA BundleDoes ==
    ASSUME TypeOK, GenInv, NEW c \in Callers, Bundle(c)
    PROVE  call[c].at = "bundle" /\ UNCHANGED <<head, reviewed, gen, lock, records, inGuest, faults, slip>> /\
           \/ Goes(c, "fail") /\ UNCHANGED job
           \/ /\ Goes(c, "stream") /\ ~Cancelled(c)
              /\ job' \in [Callers -> JobRecords]
              /\ job'[c].ref = job[c].ref /\ job'[c].at = "inputs" /\ job'[c].cmd = call[c].cmd
              /\ job'[c].late = job[c].late /\ job'[c].exited = job[c].exited /\ job'[c].outputs = job[c].outputs
              /\ \A d \in Callers \ {c} : job'[d] = job[d]
<1>1. call[c].at = "bundle" /\ UNCHANGED <<head, reviewed, gen, lock, records, inGuest, faults, slip>>
  BY DEF Bundle, envVars
<1>2. call[c].cmd \in Commands
  BY <1>1 DEF GenInv
<1>3. ASSUME ~(Goes(c, "fail") /\ UNCHANGED job)
      PROVE  /\ Goes(c, "stream") /\ ~Cancelled(c)
             /\ job' = [job EXCEPT ![c].at = "inputs", ![c].cmd = call[c].cmd]
  BY <1>3 DEF Bundle
<1> QED
  BY <1>1, <1>2, <1>3, JobAsked

LEMMA JobSetupDoes ==
    ASSUME TypeOK, NEW c \in Callers, JobSetup(c)
    PROVE  job[c].at = "setup" /\ UNCHANGED <<head, reviewed, gen, lock, call, records, inGuest, faults, slip>> /\
           \/ JobFails(c)
           \/ JobGoes(c, "destroying")
           \/ JobGoes(c, "outputs")
           \/ /\ job' \in [Callers -> JobRecords]
              /\ job'[c].ref = job[c].ref /\ job'[c].at = "running" /\ job'[c].cmd = job[c].cmd
              /\ job'[c].late = job[c].late /\ job'[c].exited = "setup" /\ job'[c].outputs = job[c].outputs
              /\ \A d \in Callers \ {c} : job'[d] = job[d]
<1>1. job[c].at = "setup" /\ UNCHANGED <<head, reviewed, gen, lock, call, records, inGuest, faults, slip>>
  BY DEF JobSetup, JobFrame, envVars, callVars
<1> QED
  BY <1>1, JobExits DEF JobSetup

LEMMA JobRunsDoes ==
    ASSUME TypeOK, NEW c \in Callers, JobRuns(c)
    PROVE  job[c].at = "running" /\ UNCHANGED <<head, reviewed, gen, lock, call, records, inGuest, faults, slip>> /\
           \/ JobFails(c)
           \/ JobGoes(c, "destroying")
           \/ /\ ~Gone(c) /\ ~TimedOut(c)
              /\ job' \in [Callers -> JobRecords]
              /\ job'[c].ref = job[c].ref /\ job'[c].at = "outputs" /\ job'[c].cmd = job[c].cmd
              /\ job'[c].late = job[c].late /\ job'[c].exited \in {"yes", "timeout"}
              /\ job'[c].outputs = job[c].outputs
              /\ \A d \in Callers \ {c} : job'[d] = job[d]
<1>1. job[c].at = "running" /\ UNCHANGED <<head, reviewed, gen, lock, call, records, inGuest, faults, slip>>
  BY DEF JobRuns, JobFrame, envVars, callVars
<1> QED
  BY <1>1, JobExits DEF JobRuns

LEMMA JobOutputsDoes ==
    ASSUME TypeOK, NEW c \in Callers, JobOutputs(c)
    PROVE  job[c].at = "outputs" /\ UNCHANGED <<head, reviewed, gen, lock, call, records, inGuest, faults, slip>> /\
           \/ TimedOut(c) /\ JobGoes(c, "destroying")
           \/ /\ job' \in [Callers -> JobRecords]
              /\ job'[c].ref = job[c].ref /\ job'[c].at = "destroying" /\ job'[c].cmd = job[c].cmd
              /\ job'[c].late = job[c].late /\ job'[c].exited = job[c].exited
              /\ job'[c].outputs \in {"all", "some"}
              /\ \A d \in Callers \ {c} : job'[d] = job[d]
<1>1. job[c].at = "outputs" /\ UNCHANGED <<head, reviewed, gen, lock, call, records, inGuest, faults, slip>>
  BY DEF JobOutputs, JobFrame, envVars, callVars
<1> QED
  BY <1>1, JobCollects DEF JobOutputs

\* Every step keeps the types.
LEMMA TypeStep == TypeOK /\ GenInv /\ NumberInv /\ [Next]_vars => TypeOK'
<1> SUFFICES ASSUME TypeOK, GenInv, NumberInv, [Next]_vars PROVE TypeOK'
  OBVIOUS
<1> USE BoundsAssumption, CommandsAssumption DEF TypeOK, callVars, envVars
<1>1. CASE Commit
  BY <1>1 DEF Commit, EngineFree
<1>2. CASE Review
  BY <1>2 DEF Review, EngineFree
<1>3. CASE Resume
  BY <1>3, BoundsAssumption DEF Resume, Gens, GenInv
<1>4. ASSUME NEW c \in Callers, NEW cmd \in Commands, NEW node \in BOOLEAN, Begin(c, cmd, node) PROVE TypeOK'
  <2>1. /\ call' \in [Callers -> CallRecords]
        /\ UNCHANGED <<head, reviewed, gen, lock, records, inGuest, job, faults, slip>>
    BY <1>4, CallBegins
  <2> QED
    BY <2>1
<1>5. ASSUME NEW c \in Callers, Lock(c) PROVE TypeOK'
  <2>1. /\ call' \in [Callers -> CallRecords] /\ lock' \in [Gens -> Callers \cup {"free"}]
        /\ UNCHANGED <<head, reviewed, gen, records, inGuest, job, faults, slip>>
    BY <1>5, CallNumbered
  <2> QED
    BY <2>1
<1>6. ASSUME NEW c \in Callers, NumberMake(c) PROVE TypeOK'
  BY <1>6, MoveTypes, EndTypes DEF NumberMake
<1>7. ASSUME NEW c \in Callers, Pin(c) PROVE TypeOK'
  <2>1. /\ call' \in [Callers -> CallRecords] /\ job' \in [Callers -> JobRecords]
        /\ lock' \in [Gens -> Callers \cup {"free"}]
    BY <1>7, MoveTypes, EndTypes, PinDoes
  <2>2. UNCHANGED <<head, reviewed, gen, records, inGuest, faults, slip>>
    BY <1>7, PinDoes
  <2> QED
    BY <2>1, <2>2
<1>8. ASSUME NEW c \in Callers, Build(c) PROVE TypeOK'
  <2>1. /\ call' \in [Callers -> CallRecords] /\ job' \in [Callers -> JobRecords]
        /\ lock' \in [Gens -> Callers \cup {"free"}]
    BY <1>8, MoveTypes, EndTypes, BuildDoes
  <2>2. UNCHANGED <<head, reviewed, gen, records, inGuest, faults, slip>>
    BY <1>8, BuildDoes
  <2> QED
    BY <2>1, <2>2
<1>9. ASSUME NEW c \in Callers, StreamEnds(c) PROVE TypeOK'
  BY <1>9, MoveTypes, EndTypes DEF StreamEnds, Cancelled
<1>10. ASSUME NEW c \in Callers, Place(c) PROVE TypeOK'
  <2>1. call' \in [Callers -> CallRecords]
    BY <1>10, MoveTypes DEF Place
  <2>2. call[c].at = "place" /\ call[c].n \in Numbers
    BY <1>10 DEF Place, NumberInv
  <2>3. inGuest' \subseteq Numbers \X Commands
    BY <1>10, <2>2 DEF Place, GenInv
  <2> QED
    BY <1>10, <2>1, <2>3 DEF Place
<1>11. ASSUME NEW c \in Callers, Save(c) PROVE TypeOK'
  <2>1. Outcome(job[c]) \in {"timeout", "partial", "complete", "missing"}
    BY DEF Outcome
  <2> QED
    BY <1>11, <2>1, EndTypes DEF Save
<1>12. ASSUME NEW c \in Callers, Fail(c) PROVE TypeOK'
  BY <1>12, MoveTypes, EndTypes DEF Fail
<1>13. ASSUME NEW c \in Callers, BuildFails(c) PROVE TypeOK'
  BY <1>13, MoveTypes, EndTypes DEF BuildFails
<1>14. ASSUME NEW c \in Callers, Cut(c) PROVE TypeOK'
  <2>1. /\ call' \in [Callers -> CallRecords] /\ faults < MaxFaults /\ faults' = faults + 1
        /\ UNCHANGED <<head, reviewed, gen, lock, records, inGuest, job, slip>>
    BY <1>14, CallCut
  <2> QED
    BY <2>1, BoundsAssumption
<1>15. ASSUME NEW c \in Callers, JobPrepares(c) PROVE TypeOK'
  BY <1>15, MoveTypes, EndTypes DEF JobPrepares, JobFrame
<1>16. ASSUME NEW c \in Callers, JobSetup(c) PROVE TypeOK'
  <2>1. job' \in [Callers -> JobRecords]
    BY <1>16, MoveTypes, EndTypes, JobSetupDoes
  <2>2. UNCHANGED <<head, reviewed, gen, lock, call, records, inGuest, faults, slip>>
    BY <1>16, JobSetupDoes
  <2> QED
    BY <2>1, <2>2
<1>17. ASSUME NEW c \in Callers, JobOutputs(c) PROVE TypeOK'
  <2>1. job' \in [Callers -> JobRecords]
    BY <1>17, MoveTypes, JobOutputsDoes
  <2>2. UNCHANGED <<head, reviewed, gen, lock, call, records, inGuest, faults, slip>>
    BY <1>17, JobOutputsDoes
  <2> QED
    BY <2>1, <2>2
<1>18. ASSUME NEW c \in Callers, JobDestroy(c) PROVE TypeOK'
  BY <1>18, MoveTypes, EndTypes DEF JobDestroy, JobFrame, Gone, Cancelled
<1>19. ASSUME NEW c \in Callers, JobRuns(c) PROVE TypeOK'
  <2>1. job' \in [Callers -> JobRecords]
    BY <1>19, MoveTypes, EndTypes, JobRunsDoes
  <2>2. UNCHANGED <<head, reviewed, gen, lock, call, records, inGuest, faults, slip>>
    BY <1>19, JobRunsDoes
  <2> QED
    BY <2>1, <2>2
<1>20. ASSUME NEW c \in Callers, JobBreaks(c) PROVE TypeOK'
  BY <1>20, MoveTypes, EndTypes DEF JobBreaks, Gone, Cancelled
<1>21. ASSUME NEW c \in Callers, Deadline(c) PROVE TypeOK'
  BY <1>21, JobLate DEF Deadline, Active, JobFrame
<1>22. ASSUME NEW c \in Callers, Bundle(c) PROVE TypeOK'
  <2>1. /\ call' \in [Callers -> CallRecords] /\ job' \in [Callers -> JobRecords]
    BY <1>22, MoveTypes, BundleDoes
  <2>2. UNCHANGED <<head, reviewed, gen, lock, records, inGuest, faults, slip>>
    BY <1>22, BundleDoes
  <2> QED
    BY <2>1, <2>2
<1>23. ASSUME NEW c \in Callers, RunFails(c) PROVE TypeOK'
  BY <1>23, MoveTypes DEF RunFails
<1>24. ASSUME NEW c \in Callers, SaveFails(c) PROVE TypeOK'
  BY <1>24, EndTypes DEF SaveFails
<1>25. CASE UNCHANGED vars
  BY <1>25 DEF vars, envVars, callVars
<1> QED
  BY <1>1, <1>2, <1>3, <1>4, <1>5, <1>6, <1>7, <1>8, <1>9, <1>10,
     <1>11, <1>12, <1>13, <1>14, <1>15, <1>16, <1>17, <1>18, <1>19, <1>20,
     <1>21, <1>22, <1>23, <1>24, <1>25 DEF Next, CallStep, JobStep

\* Runs count up.
LEMMA GenStep == TypeOK /\ GenInv /\ [Next]_vars => GenInv'
<1> SUFFICES ASSUME TypeOK, GenInv, [Next]_vars PROVE GenInv'
  OBVIOUS
<1> USE BoundsAssumption, CommandsAssumption DEF Idle, GenInv, callVars, envVars
<1>1. CASE Commit
  BY <1>1 DEF Commit, EngineFree
<1>2. CASE Review
  BY <1>2 DEF Review, EngineFree
<1>3. CASE Resume
  <2>1. faults \in Nat /\ gen \in Nat /\ \A c \in Callers : call[c].gen \in Nat
    BY BoundsAssumption, Fields DEF TypeOK, Gens
  <2> QED
    BY <1>3, <2>1 DEF Resume
<1>4. ASSUME NEW c \in Callers, NEW cmd \in Commands, NEW node \in BOOLEAN, Begin(c, cmd, node) PROVE GenInv'
  BY <1>4, CallBegins DEF EngineFree, TypeOK, Gens
<1>5. ASSUME NEW c \in Callers, Lock(c) PROVE GenInv'
  BY <1>5, CallNumbered
<1>6. ASSUME NEW c \in Callers, NumberMake(c) PROVE GenInv'
  BY <1>6, CallGoes, CallEnds DEF NumberMake, TypeOK, Gens
<1>7. ASSUME NEW c \in Callers, Pin(c) PROVE GenInv'
  <2>1. gen \in Nat
    BY DEF TypeOK, Gens
  <2> QED
    BY <1>7, <2>1, CallGoes, CallEnds, PinDoes
<1>8. ASSUME NEW c \in Callers, Build(c) PROVE GenInv'
  <2>1. gen \in Nat
    BY DEF TypeOK, Gens
  <2> QED
    BY <1>8, <2>1, CallGoes, CallEnds, BuildDoes
<1>9. ASSUME NEW c \in Callers, StreamEnds(c) PROVE GenInv'
  BY <1>9, CallGoes DEF StreamEnds, Cancelled
<1>10. ASSUME NEW c \in Callers, Place(c) PROVE GenInv'
  BY <1>10, CallGoes DEF Place, Cancelled
<1>11. ASSUME NEW c \in Callers, Save(c) PROVE GenInv'
  BY <1>11, CallEnds DEF Save, Outcome, TypeOK, Gens
<1>12. ASSUME NEW c \in Callers, Fail(c) PROVE GenInv'
  BY <1>12, CallEnds DEF Fail, TypeOK, Gens
<1>13. ASSUME NEW c \in Callers, BuildFails(c) PROVE GenInv'
  BY <1>13, CallEnds DEF BuildFails, TypeOK, Gens
<1>14. ASSUME NEW c \in Callers, Cut(c) PROVE GenInv'
  BY <1>14, CallCut DEF TypeOK, Gens
<1>15. ASSUME NEW c \in Callers, JobPrepares(c) PROVE GenInv'
  BY <1>15, JobMoves DEF JobPrepares, JobFrame
<1>16. ASSUME NEW c \in Callers, JobSetup(c) PROVE GenInv'
  BY <1>16, JobMoves, JobEnds, JobSetupDoes DEF Gone, Cancelled
<1>17. ASSUME NEW c \in Callers, JobOutputs(c) PROVE GenInv'
  BY <1>17, JobMoves, JobOutputsDoes DEF TimedOut, Gone, Cancelled
<1>18. ASSUME NEW c \in Callers, JobDestroy(c) PROVE GenInv'
  BY <1>18, JobMoves, JobEnds DEF JobDestroy, JobFrame, Gone, Cancelled
<1>19. ASSUME NEW c \in Callers, JobRuns(c) PROVE GenInv'
  BY <1>19, JobMoves, JobEnds, JobRunsDoes DEF TimedOut, Gone, Cancelled
<1>20. ASSUME NEW c \in Callers, JobBreaks(c) PROVE GenInv'
  BY <1>20, JobEnds DEF JobBreaks, Gone, Cancelled, TypeOK, Gens
<1>21. ASSUME NEW c \in Callers, Deadline(c) PROVE GenInv'
  BY <1>21, JobLate DEF Deadline, Active, JobFrame
<1>22. ASSUME NEW c \in Callers, Bundle(c) PROVE GenInv'
  BY <1>22, CallGoes, BundleDoes DEF TypeOK, Gens
<1>23. ASSUME NEW c \in Callers, RunFails(c) PROVE GenInv'
  BY <1>23, CallGoes DEF RunFails, TypeOK, Gens
<1>24. ASSUME NEW c \in Callers, SaveFails(c) PROVE GenInv'
  BY <1>24, CallEnds DEF SaveFails, TypeOK, Gens
<1>25. CASE UNCHANGED vars
  BY <1>25 DEF vars, envVars, callVars
<1> QED
  BY <1>1, <1>2, <1>3, <1>4, <1>5, <1>6, <1>7, <1>8, <1>9, <1>10,
     <1>11, <1>12, <1>13, <1>14, <1>15, <1>16, <1>17, <1>18, <1>19, <1>20,
     <1>21, <1>22, <1>23, <1>24, <1>25 DEF Next, CallStep, JobStep

\* What was reviewed stays while a node runs.
LEMMA NodeStep == TypeOK /\ GenInv /\ NodeInv /\ [Next]_vars => NodeInv'
<1> SUFFICES ASSUME TypeOK, GenInv, NodeInv, [Next]_vars PROVE NodeInv'
  OBVIOUS
<1> USE BoundsAssumption, CommandsAssumption DEF Idle, Commands, NodeInv, callVars, envVars
<1>1. CASE Commit
  BY <1>1 DEF Commit, EngineFree
<1>2. CASE Review
  BY <1>2 DEF Review, EngineFree
<1>3. CASE Resume
  <2>1. \A c \in Callers : call[c].gen # gen'
    <3>1. gen \in Nat /\ \A c \in Callers : call[c].gen \in Nat
      BY BoundsAssumption, Fields DEF TypeOK, Gens
    <3> QED
      BY <1>3, <3>1 DEF Resume, GenInv
  <2> QED
    BY <1>3, <2>1 DEF Resume
<1>4. ASSUME NEW c \in Callers, NEW cmd \in Commands, NEW node \in BOOLEAN, Begin(c, cmd, node) PROVE NodeInv'
  BY <1>4, CallBegins DEF EngineFree
<1>5. ASSUME NEW c \in Callers, Lock(c) PROVE NodeInv'
  BY <1>5, CallNumbered
<1>6. ASSUME NEW c \in Callers, NumberMake(c) PROVE NodeInv'
  BY <1>6, CallGoes, CallEnds DEF NumberMake
<1>7. ASSUME NEW c \in Callers, Pin(c) PROVE NodeInv'
  BY <1>7, CallGoes, CallEnds, PinDoes
<1>8. ASSUME NEW c \in Callers, Build(c) PROVE NodeInv'
  BY <1>8, CallGoes, CallEnds, BuildDoes
<1>9. ASSUME NEW c \in Callers, StreamEnds(c) PROVE NodeInv'
  BY <1>9, CallGoes DEF StreamEnds, Cancelled
<1>10. ASSUME NEW c \in Callers, Place(c) PROVE NodeInv'
  BY <1>10, CallGoes DEF Place, Cancelled
<1>11. ASSUME NEW c \in Callers, Save(c) PROVE NodeInv'
  BY <1>11, CallEnds DEF Save, Outcome
<1>12. ASSUME NEW c \in Callers, Fail(c) PROVE NodeInv'
  BY <1>12, CallEnds DEF Fail
<1>13. ASSUME NEW c \in Callers, BuildFails(c) PROVE NodeInv'
  BY <1>13, CallEnds DEF BuildFails
<1>14. ASSUME NEW c \in Callers, Cut(c) PROVE NodeInv'
  BY <1>14, CallCut
<1>15. ASSUME NEW c \in Callers, JobPrepares(c) PROVE NodeInv'
  BY <1>15, JobMoves DEF JobPrepares, JobFrame
<1>16. ASSUME NEW c \in Callers, JobSetup(c) PROVE NodeInv'
  BY <1>16, JobMoves, JobEnds, JobSetupDoes DEF Gone, Cancelled
<1>17. ASSUME NEW c \in Callers, JobOutputs(c) PROVE NodeInv'
  BY <1>17, JobMoves, JobOutputsDoes DEF TimedOut, Gone, Cancelled
<1>18. ASSUME NEW c \in Callers, JobDestroy(c) PROVE NodeInv'
  BY <1>18, JobMoves, JobEnds DEF JobDestroy, JobFrame, Gone, Cancelled
<1>19. ASSUME NEW c \in Callers, JobRuns(c) PROVE NodeInv'
  BY <1>19, JobMoves, JobEnds, JobRunsDoes DEF TimedOut, Gone, Cancelled
<1>20. ASSUME NEW c \in Callers, JobBreaks(c) PROVE NodeInv'
  BY <1>20, JobEnds DEF JobBreaks, Gone, Cancelled
<1>21. ASSUME NEW c \in Callers, Deadline(c) PROVE NodeInv'
  BY <1>21, JobLate DEF Deadline, Active, JobFrame
<1>22. ASSUME NEW c \in Callers, Bundle(c) PROVE NodeInv'
  BY <1>22, CallGoes, BundleDoes
<1>23. ASSUME NEW c \in Callers, RunFails(c) PROVE NodeInv'
  BY <1>23, CallGoes DEF RunFails
<1>24. ASSUME NEW c \in Callers, SaveFails(c) PROVE NodeInv'
  BY <1>24, CallEnds DEF SaveFails
<1>25. CASE UNCHANGED vars
  BY <1>25 DEF vars, envVars, callVars
<1> QED
  BY <1>1, <1>2, <1>3, <1>4, <1>5, <1>6, <1>7, <1>8, <1>9, <1>10,
     <1>11, <1>12, <1>13, <1>14, <1>15, <1>16, <1>17, <1>18, <1>19, <1>20,
     <1>21, <1>22, <1>23, <1>24, <1>25 DEF Next, CallStep, JobStep

\* So does the head, once they were compared.
LEMMA PinStep == TypeOK /\ GenInv /\ NodeInv /\ PinInv /\ [Next]_vars => PinInv'
<1> SUFFICES ASSUME TypeOK, GenInv, NodeInv, PinInv, [Next]_vars PROVE PinInv'
  OBVIOUS
<1> USE BoundsAssumption, CommandsAssumption DEF Idle, Commands, NodeInv, PinInv, callVars, envVars
<1>1. CASE Commit
  BY <1>1 DEF Commit, EngineFree
<1>2. CASE Review
  BY <1>2 DEF Review, EngineFree
<1>3. CASE Resume
  <2>1. \A c \in Callers : call[c].gen # gen'
    <3>1. gen \in Nat /\ \A c \in Callers : call[c].gen \in Nat
      BY BoundsAssumption, Fields DEF TypeOK, Gens
    <3> QED
      BY <1>3, <3>1 DEF Resume, GenInv
  <2> QED
    BY <1>3, <2>1 DEF Resume
<1>4. ASSUME NEW c \in Callers, NEW cmd \in Commands, NEW node \in BOOLEAN, Begin(c, cmd, node) PROVE PinInv'
  BY <1>4, CallBegins DEF EngineFree
<1>5. ASSUME NEW c \in Callers, Lock(c) PROVE PinInv'
  BY <1>5, CallNumbered
<1>6. ASSUME NEW c \in Callers, NumberMake(c) PROVE PinInv'
  BY <1>6, CallGoes, CallEnds DEF NumberMake
<1>7. ASSUME NEW c \in Callers, Pin(c) PROVE PinInv'
  BY <1>7, CallGoes, CallEnds, PinDoes
<1>8. ASSUME NEW c \in Callers, Build(c) PROVE PinInv'
  BY <1>8, CallGoes, CallEnds, BuildDoes
<1>9. ASSUME NEW c \in Callers, StreamEnds(c) PROVE PinInv'
  <2>1. /\ Goes(c, "fail") \/ Goes(c, "place")
        /\ UNCHANGED <<head, gen>>
    BY <1>9 DEF StreamEnds
  <2> QED
    BY <2>1, CallGoes
<1>10. ASSUME NEW c \in Callers, Place(c) PROVE PinInv'
  BY <1>10, CallGoes DEF Place, Cancelled
<1>11. ASSUME NEW c \in Callers, Save(c) PROVE PinInv'
  BY <1>11, CallEnds DEF Save, Outcome
<1>12. ASSUME NEW c \in Callers, Fail(c) PROVE PinInv'
  BY <1>12, CallEnds DEF Fail
<1>13. ASSUME NEW c \in Callers, BuildFails(c) PROVE PinInv'
  BY <1>13, CallEnds DEF BuildFails
<1>14. ASSUME NEW c \in Callers, Cut(c) PROVE PinInv'
  BY <1>14, CallCut
<1>15. ASSUME NEW c \in Callers, JobPrepares(c) PROVE PinInv'
  BY <1>15, JobMoves DEF JobPrepares, JobFrame
<1>16. ASSUME NEW c \in Callers, JobSetup(c) PROVE PinInv'
  BY <1>16, JobMoves, JobEnds, JobSetupDoes DEF Gone, Cancelled
<1>17. ASSUME NEW c \in Callers, JobOutputs(c) PROVE PinInv'
  BY <1>17, JobMoves, JobOutputsDoes DEF TimedOut, Gone, Cancelled
<1>18. ASSUME NEW c \in Callers, JobDestroy(c) PROVE PinInv'
  BY <1>18, JobMoves, JobEnds DEF JobDestroy, JobFrame, Gone, Cancelled
<1>19. ASSUME NEW c \in Callers, JobRuns(c) PROVE PinInv'
  BY <1>19, JobMoves, JobEnds, JobRunsDoes DEF TimedOut, Gone, Cancelled
<1>20. ASSUME NEW c \in Callers, JobBreaks(c) PROVE PinInv'
  BY <1>20, JobEnds DEF JobBreaks, Gone, Cancelled
<1>21. ASSUME NEW c \in Callers, Deadline(c) PROVE PinInv'
  BY <1>21, JobLate DEF Deadline, Active, JobFrame
<1>22. ASSUME NEW c \in Callers, Bundle(c) PROVE PinInv'
  BY <1>22, CallGoes, BundleDoes
<1>23. ASSUME NEW c \in Callers, RunFails(c) PROVE PinInv'
  BY <1>23, CallGoes DEF RunFails
<1>24. ASSUME NEW c \in Callers, SaveFails(c) PROVE PinInv'
  BY <1>24, CallEnds DEF SaveFails
<1>25. CASE UNCHANGED vars
  BY <1>25 DEF vars, envVars, callVars
<1> QED
  BY <1>1, <1>2, <1>3, <1>4, <1>5, <1>6, <1>7, <1>8, <1>9, <1>10,
     <1>11, <1>12, <1>13, <1>14, <1>15, <1>16, <1>17, <1>18, <1>19, <1>20,
     <1>21, <1>22, <1>23, <1>24, <1>25 DEF Next, CallStep, JobStep

\* A job is asked for with what was pinned.
LEMMA JobStepKeeps == TypeOK /\ GenInv /\ JobInv /\ [Next]_vars => JobInv'
<1> SUFFICES ASSUME TypeOK, GenInv, JobInv, [Next]_vars PROVE JobInv'
  OBVIOUS
<1> USE BoundsAssumption, CommandsAssumption DEF TypeOK, Idle, NoJob, Commands, JobInv, callVars, envVars
<1>1. CASE Commit
  BY <1>1 DEF Commit, EngineFree
<1>2. CASE Review
  BY <1>2 DEF Review, EngineFree
<1>3. CASE Resume
  BY <1>3 DEF Resume, Gens
<1>4. ASSUME NEW c \in Callers, NEW cmd \in Commands, NEW node \in BOOLEAN, Begin(c, cmd, node) PROVE JobInv'
  BY <1>4, CallBegins DEF EngineFree
<1>5. ASSUME NEW c \in Callers, Lock(c) PROVE JobInv'
  <2>1. /\ call[c].at = "wait" /\ call'[c].at = "mkdir" /\ UNCHANGED job
        /\ \A d \in Callers : /\ d # c => call'[d].at = call[d].at
                              /\ call'[d].cmd = call[d].cmd /\ call'[d].commit = call[d].commit
    BY <1>5, CallNumbered
  <2> QED
    BY <2>1
<1>6. ASSUME NEW c \in Callers, NumberMake(c) PROVE JobInv'
  BY <1>6, CallGoes, CallEnds DEF NumberMake
<1>7. ASSUME NEW c \in Callers, Pin(c) PROVE JobInv'
  BY <1>7, CallGoes, CallEnds, PinDoes
<1>8. ASSUME NEW c \in Callers, Build(c) PROVE JobInv'
  BY <1>8, CallGoes, CallEnds, BuildDoes
<1>9. ASSUME NEW c \in Callers, StreamEnds(c) PROVE JobInv'
  BY <1>9, CallGoes DEF StreamEnds, Cancelled
<1>10. ASSUME NEW c \in Callers, Place(c) PROVE JobInv'
  BY <1>10, CallGoes DEF Place, Cancelled
<1>11. ASSUME NEW c \in Callers, Save(c) PROVE JobInv'
  BY <1>11, CallEnds DEF Save, Outcome
<1>12. ASSUME NEW c \in Callers, Fail(c) PROVE JobInv'
  BY <1>12, CallEnds DEF Fail
<1>13. ASSUME NEW c \in Callers, BuildFails(c) PROVE JobInv'
  BY <1>13, CallEnds DEF BuildFails
<1>14. ASSUME NEW c \in Callers, Cut(c) PROVE JobInv'
  BY <1>14, CallCut
<1>15. ASSUME NEW c \in Callers, JobPrepares(c) PROVE JobInv'
  BY <1>15, JobMoves DEF JobPrepares, JobFrame
<1>16. ASSUME NEW c \in Callers, JobSetup(c) PROVE JobInv'
  BY <1>16, JobMoves, JobEnds, JobSetupDoes DEF Gone, Cancelled
<1>17. ASSUME NEW c \in Callers, JobOutputs(c) PROVE JobInv'
  BY <1>17, JobMoves, JobOutputsDoes DEF TimedOut, Gone, Cancelled
<1>18. ASSUME NEW c \in Callers, JobDestroy(c) PROVE JobInv'
  BY <1>18, JobMoves, JobEnds DEF JobDestroy, JobFrame, Gone, Cancelled
<1>19. ASSUME NEW c \in Callers, JobRuns(c) PROVE JobInv'
  BY <1>19, JobMoves, JobEnds, JobRunsDoes DEF TimedOut, Gone, Cancelled
<1>20. ASSUME NEW c \in Callers, JobBreaks(c) PROVE JobInv'
  BY <1>20, JobEnds DEF JobBreaks, Gone, Cancelled
<1>21. ASSUME NEW c \in Callers, Deadline(c) PROVE JobInv'
  BY <1>21, JobLate DEF Deadline, Active, JobFrame
<1>22. ASSUME NEW c \in Callers, Bundle(c) PROVE JobInv'
  BY <1>22, CallGoes, BundleDoes
<1>23. ASSUME NEW c \in Callers, RunFails(c) PROVE JobInv'
  BY <1>23, CallGoes DEF RunFails
<1>24. ASSUME NEW c \in Callers, SaveFails(c) PROVE JobInv'
  BY <1>24, CallEnds DEF SaveFails
<1>25. CASE UNCHANGED vars
  BY <1>25 DEF vars, envVars, callVars
<1> QED
  BY <1>1, <1>2, <1>3, <1>4, <1>5, <1>6, <1>7, <1>8, <1>9, <1>10,
     <1>11, <1>12, <1>13, <1>14, <1>15, <1>16, <1>17, <1>18, <1>19, <1>20,
     <1>21, <1>22, <1>23, <1>24, <1>25 DEF Next, CallStep, JobStep

\* The main guest gets no result of a command with secrets.
LEMMA GuestStep == TypeOK /\ GenInv /\ GuestInv /\ [Next]_vars => GuestInv'
<1> SUFFICES ASSUME TypeOK, GenInv, GuestInv, [Next]_vars PROVE GuestInv'
  OBVIOUS
<1> USE BoundsAssumption, CommandsAssumption DEF GuestInv, callVars, envVars
<1>1. CASE Commit
  BY <1>1 DEF Commit, EngineFree
<1>2. CASE Review
  BY <1>2 DEF Review, EngineFree
<1>3. CASE Resume
  BY <1>3 DEF Resume, Gens
<1>4. ASSUME NEW c \in Callers, NEW cmd \in Commands, NEW node \in BOOLEAN, Begin(c, cmd, node) PROVE GuestInv'
  BY <1>4, CallBegins DEF EngineFree
<1>5. ASSUME NEW c \in Callers, Lock(c) PROVE GuestInv'
  BY <1>5, CallNumbered
<1>6. ASSUME NEW c \in Callers, NumberMake(c) PROVE GuestInv'
  BY <1>6, CallGoes, CallEnds DEF NumberMake
<1>7. ASSUME NEW c \in Callers, Pin(c) PROVE GuestInv'
  BY <1>7, CallGoes, CallEnds, PinDoes
<1>8. ASSUME NEW c \in Callers, Build(c) PROVE GuestInv'
  BY <1>8, CallGoes, CallEnds, BuildDoes
<1>9. ASSUME NEW c \in Callers, StreamEnds(c) PROVE GuestInv'
  BY <1>9, CallGoes DEF StreamEnds, Cancelled
<1>10. ASSUME NEW c \in Callers, Place(c) PROVE GuestInv'
  <2>1. call[c].cmd \in Commands
    BY <1>10 DEF Place, GenInv
  <2> QED
    BY <1>10, <2>1 DEF Place, Commands
<1>11. ASSUME NEW c \in Callers, Save(c) PROVE GuestInv'
  BY <1>11, CallEnds DEF Save, Outcome
<1>12. ASSUME NEW c \in Callers, Fail(c) PROVE GuestInv'
  BY <1>12, CallEnds DEF Fail
<1>13. ASSUME NEW c \in Callers, BuildFails(c) PROVE GuestInv'
  BY <1>13, CallEnds DEF BuildFails
<1>14. ASSUME NEW c \in Callers, Cut(c) PROVE GuestInv'
  BY <1>14, CallCut
<1>15. ASSUME NEW c \in Callers, JobPrepares(c) PROVE GuestInv'
  BY <1>15, JobMoves DEF JobPrepares, JobFrame
<1>16. ASSUME NEW c \in Callers, JobSetup(c) PROVE GuestInv'
  BY <1>16, JobMoves, JobEnds, JobSetupDoes DEF Gone, Cancelled
<1>17. ASSUME NEW c \in Callers, JobOutputs(c) PROVE GuestInv'
  BY <1>17, JobMoves, JobOutputsDoes DEF TimedOut, Gone, Cancelled
<1>18. ASSUME NEW c \in Callers, JobDestroy(c) PROVE GuestInv'
  BY <1>18, JobMoves, JobEnds DEF JobDestroy, JobFrame, Gone, Cancelled
<1>19. ASSUME NEW c \in Callers, JobRuns(c) PROVE GuestInv'
  BY <1>19, JobMoves, JobEnds, JobRunsDoes DEF TimedOut, Gone, Cancelled
<1>20. ASSUME NEW c \in Callers, JobBreaks(c) PROVE GuestInv'
  BY <1>20, JobEnds DEF JobBreaks, Gone, Cancelled
<1>21. ASSUME NEW c \in Callers, Deadline(c) PROVE GuestInv'
  BY <1>21, JobLate DEF Deadline, Active, JobFrame
<1>22. ASSUME NEW c \in Callers, Bundle(c) PROVE GuestInv'
  BY <1>22, CallGoes, BundleDoes
<1>23. ASSUME NEW c \in Callers, RunFails(c) PROVE GuestInv'
  BY <1>23, CallGoes DEF RunFails
<1>24. ASSUME NEW c \in Callers, SaveFails(c) PROVE GuestInv'
  BY <1>24, CallEnds DEF SaveFails
<1>25. CASE UNCHANGED vars
  BY <1>25 DEF vars, envVars, callVars
<1> QED
  BY <1>1, <1>2, <1>3, <1>4, <1>5, <1>6, <1>7, <1>8, <1>9, <1>10,
     <1>11, <1>12, <1>13, <1>14, <1>15, <1>16, <1>17, <1>18, <1>19, <1>20,
     <1>21, <1>22, <1>23, <1>24, <1>25 DEF Next, CallStep, JobStep

\* A number is given once: os.Mkdir fails for the second.
LEMMA NumberStep == TypeOK /\ GenInv /\ NumberInv /\ [Next]_vars => NumberInv'
<1> SUFFICES ASSUME TypeOK, GenInv, NumberInv, [Next]_vars PROVE NumberInv'
  OBVIOUS
<1> USE BoundsAssumption, CommandsAssumption DEF Idle, RecordsAreOwn, NumberInv, callVars, envVars
<1>1. CASE Commit
  BY <1>1 DEF Commit, EngineFree
<1>2. CASE Review
  BY <1>2 DEF Review, EngineFree
<1>3. CASE Resume
  BY <1>3 DEF Resume, Gens
<1>4. ASSUME NEW c \in Callers, NEW cmd \in Commands, NEW node \in BOOLEAN, Begin(c, cmd, node) PROVE NumberInv'
  BY <1>4, CallBegins DEF EngineFree
<1>5. ASSUME NEW c \in Callers, Lock(c) PROVE NumberInv'
  BY <1>5, CallNumbered
<1>6. ASSUME NEW c \in Callers, NumberMake(c) PROVE NumberInv'
  <2>1. CASE Goes(c, "pin")
    <3>1. /\ call[c].n \in Numbers /\ records[call[c].n] = "none" /\ records' = [records EXCEPT ![call[c].n] = "dir"]
      BY <1>6, <2>1, CallGoes, CallEnds DEF NumberMake
    <3>2. DOMAIN records = Numbers
      BY DEF TypeOK
    <3> QED
      BY <1>6, <2>1, <3>1, <3>2, CallGoes DEF NumberMake
  <2>2. CASE ~Goes(c, "pin")
    BY <1>6, <2>2, CallEnds DEF NumberMake
  <2> QED
    BY <2>1, <2>2
<1>7. ASSUME NEW c \in Callers, Pin(c) PROVE NumberInv'
  BY <1>7, CallGoes, CallEnds, PinDoes
<1>8. ASSUME NEW c \in Callers, Build(c) PROVE NumberInv'
  BY <1>8, CallGoes, CallEnds, BuildDoes
<1>9. ASSUME NEW c \in Callers, StreamEnds(c) PROVE NumberInv'
  <2>1. CASE UNCHANGED records
    BY <1>9, <2>1, CallGoes DEF StreamEnds
  <2>2. CASE Goes(c, "place") /\ records' = [records EXCEPT ![call[c].n] = "host"]
    <3>1. DOMAIN records = Numbers
      BY DEF TypeOK
    <3> QED
      BY <1>9, <2>2, <3>1, CallGoes DEF StreamEnds
  <2> QED
    BY <1>9, <2>1, <2>2 DEF StreamEnds
<1>10. ASSUME NEW c \in Callers, Place(c) PROVE NumberInv'
  BY <1>10, CallGoes DEF Place, Cancelled
<1>11. ASSUME NEW c \in Callers, Save(c) PROVE NumberInv'
  BY <1>11, CallEnds DEF Save, Outcome
<1>12. ASSUME NEW c \in Callers, Fail(c) PROVE NumberInv'
  BY <1>12, CallEnds DEF Fail
<1>13. ASSUME NEW c \in Callers, BuildFails(c) PROVE NumberInv'
  BY <1>13, CallEnds DEF BuildFails
<1>14. ASSUME NEW c \in Callers, Cut(c) PROVE NumberInv'
  BY <1>14, CallCut
<1>15. ASSUME NEW c \in Callers, JobPrepares(c) PROVE NumberInv'
  BY <1>15, JobMoves DEF JobPrepares, JobFrame
<1>16. ASSUME NEW c \in Callers, JobSetup(c) PROVE NumberInv'
  BY <1>16, JobMoves, JobEnds, JobSetupDoes DEF Gone, Cancelled
<1>17. ASSUME NEW c \in Callers, JobOutputs(c) PROVE NumberInv'
  BY <1>17, JobMoves, JobOutputsDoes DEF TimedOut, Gone, Cancelled
<1>18. ASSUME NEW c \in Callers, JobDestroy(c) PROVE NumberInv'
  BY <1>18, JobMoves, JobEnds DEF JobDestroy, JobFrame, Gone, Cancelled
<1>19. ASSUME NEW c \in Callers, JobRuns(c) PROVE NumberInv'
  BY <1>19, JobMoves, JobEnds, JobRunsDoes DEF TimedOut, Gone, Cancelled
<1>20. ASSUME NEW c \in Callers, JobBreaks(c) PROVE NumberInv'
  BY <1>20, JobEnds DEF JobBreaks, Gone, Cancelled
<1>21. ASSUME NEW c \in Callers, Deadline(c) PROVE NumberInv'
  BY <1>21, JobLate DEF Deadline, Active, JobFrame
<1>22. ASSUME NEW c \in Callers, Bundle(c) PROVE NumberInv'
  BY <1>22, CallGoes, BundleDoes
<1>23. ASSUME NEW c \in Callers, RunFails(c) PROVE NumberInv'
  BY <1>23, CallGoes DEF RunFails
<1>24. ASSUME NEW c \in Callers, SaveFails(c) PROVE NumberInv'
  BY <1>24, CallEnds DEF SaveFails
<1>25. CASE UNCHANGED vars
  BY <1>25 DEF vars, envVars, callVars
<1> QED
  BY <1>1, <1>2, <1>3, <1>4, <1>5, <1>6, <1>7, <1>8, <1>9, <1>10,
     <1>11, <1>12, <1>13, <1>14, <1>15, <1>16, <1>17, <1>18, <1>19, <1>20,
     <1>21, <1>22, <1>23, <1>24, <1>25 DEF Next, CallStep, JobStep

\* Outputs are collected before the deadline, or it was late.
LEMMA OutputsStep == TypeOK /\ GenInv /\ JobInv /\ OutputsInv /\ [Next]_vars => OutputsInv'
<1> SUFFICES ASSUME TypeOK, GenInv, JobInv, OutputsInv, [Next]_vars PROVE OutputsInv'
  OBVIOUS
<1> USE BoundsAssumption, CommandsAssumption DEF TypeOK, Idle, NoJob, JobInv, OutputsInv, callVars, envVars
<1>1. CASE Commit
  BY <1>1 DEF Commit, EngineFree
<1>2. CASE Review
  BY <1>2 DEF Review, EngineFree
<1>3. CASE Resume
  BY <1>3 DEF Resume, Gens
<1>4. ASSUME NEW c \in Callers, NEW cmd \in Commands, NEW node \in BOOLEAN, Begin(c, cmd, node) PROVE OutputsInv'
  BY <1>4, CallBegins DEF EngineFree
<1>5. ASSUME NEW c \in Callers, Lock(c) PROVE OutputsInv'
  BY <1>5, CallNumbered
<1>6. ASSUME NEW c \in Callers, NumberMake(c) PROVE OutputsInv'
  <2>1. CASE Goes(c, "pin") /\ UNCHANGED <<job, slip>>
    BY <1>6, <2>1, CallGoes
  <2>2. CASE Ended(c) /\ UNCHANGED slip
    BY <1>6, <2>2, CallEnds
  <2> QED
    BY <1>6, <2>1, <2>2 DEF NumberMake
<1>7. ASSUME NEW c \in Callers, Pin(c) PROVE OutputsInv'
  BY <1>7, CallGoes, CallEnds, PinDoes
<1>8. ASSUME NEW c \in Callers, Build(c) PROVE OutputsInv'
  BY <1>8, CallGoes, CallEnds, BuildDoes
<1>9. ASSUME NEW c \in Callers, StreamEnds(c) PROVE OutputsInv'
  BY <1>9, CallGoes DEF StreamEnds, Cancelled
<1>10. ASSUME NEW c \in Callers, Place(c) PROVE OutputsInv'
  BY <1>10, CallGoes DEF Place, Cancelled
<1>11. ASSUME NEW c \in Callers, Save(c) PROVE OutputsInv'
  BY <1>11, CallEnds DEF Save, Outcome
<1>12. ASSUME NEW c \in Callers, Fail(c) PROVE OutputsInv'
  BY <1>12, CallEnds DEF Fail
<1>13. ASSUME NEW c \in Callers, BuildFails(c) PROVE OutputsInv'
  BY <1>13, CallEnds DEF BuildFails
<1>14. ASSUME NEW c \in Callers, Cut(c) PROVE OutputsInv'
  BY <1>14, CallCut
<1>15. ASSUME NEW c \in Callers, JobPrepares(c) PROVE OutputsInv'
  BY <1>15, JobMoves DEF JobPrepares, JobFrame
<1>16. ASSUME NEW c \in Callers, JobSetup(c) PROVE OutputsInv'
  BY <1>16, JobMoves, JobEnds, JobSetupDoes DEF Gone, Cancelled
<1>17. ASSUME NEW c \in Callers, JobOutputs(c) PROVE OutputsInv'
  BY <1>17, JobMoves, JobOutputsDoes DEF TimedOut, Gone, Cancelled
<1>18. ASSUME NEW c \in Callers, JobDestroy(c) PROVE OutputsInv'
  BY <1>18, JobMoves, JobEnds DEF JobDestroy, JobFrame, Gone, Cancelled
<1>19. ASSUME NEW c \in Callers, JobRuns(c) PROVE OutputsInv'
  BY <1>19, JobMoves, JobEnds, JobRunsDoes DEF TimedOut, Gone, Cancelled
<1>20. ASSUME NEW c \in Callers, JobBreaks(c) PROVE OutputsInv'
  BY <1>20, JobEnds DEF JobBreaks, Gone, Cancelled
<1>21. ASSUME NEW c \in Callers, Deadline(c) PROVE OutputsInv'
  BY <1>21, JobLate DEF Deadline, Active, JobFrame
<1>22. ASSUME NEW c \in Callers, Bundle(c) PROVE OutputsInv'
  BY <1>22, CallGoes, BundleDoes
<1>23. ASSUME NEW c \in Callers, RunFails(c) PROVE OutputsInv'
  BY <1>23, CallGoes DEF RunFails
<1>24. ASSUME NEW c \in Callers, SaveFails(c) PROVE OutputsInv'
  BY <1>24, CallEnds DEF SaveFails
<1>25. CASE UNCHANGED vars
  BY <1>25 DEF vars, envVars, callVars
<1> QED
  BY <1>1, <1>2, <1>3, <1>4, <1>5, <1>6, <1>7, <1>8, <1>9, <1>10,
     <1>11, <1>12, <1>13, <1>14, <1>15, <1>16, <1>17, <1>18, <1>19, <1>20,
     <1>21, <1>22, <1>23, <1>24, <1>25 DEF Next, CallStep, JobStep

\* A record says complete or partial of a command that ended.
LEMMA AccountedStep == TypeOK /\ GenInv /\ NumberInv /\ OutputsInv /\ OutputsAccounted /\ [Next]_vars => OutputsAccounted'
<1> SUFFICES ASSUME TypeOK, GenInv, NumberInv, OutputsInv, OutputsAccounted, [Next]_vars PROVE OutputsAccounted'
  OBVIOUS
<1> USE BoundsAssumption, CommandsAssumption DEF TypeOK, OutputsInv, OutputsAccounted, callVars, envVars
<1>1. CASE Commit
  BY <1>1 DEF Commit, EngineFree
<1>2. CASE Review
  BY <1>2 DEF Review, EngineFree
<1>3. CASE Resume
  BY <1>3 DEF Resume, Gens
<1>4. ASSUME NEW c \in Callers, NEW cmd \in Commands, NEW node \in BOOLEAN, Begin(c, cmd, node) PROVE OutputsAccounted'
  BY <1>4, CallBegins DEF EngineFree
<1>5. ASSUME NEW c \in Callers, Lock(c) PROVE OutputsAccounted'
  BY <1>5, CallNumbered
<1>6. ASSUME NEW c \in Callers, NumberMake(c) PROVE OutputsAccounted'
  BY <1>6, CallGoes, CallEnds DEF NumberMake
<1>7. ASSUME NEW c \in Callers, Pin(c) PROVE OutputsAccounted'
  BY <1>7, CallGoes, CallEnds, PinDoes
<1>8. ASSUME NEW c \in Callers, Build(c) PROVE OutputsAccounted'
  BY <1>8, CallGoes, CallEnds, BuildDoes
<1>9. ASSUME NEW c \in Callers, StreamEnds(c) PROVE OutputsAccounted'
  BY <1>9, CallGoes DEF StreamEnds, Cancelled
<1>10. ASSUME NEW c \in Callers, Place(c) PROVE OutputsAccounted'
  BY <1>10, CallGoes DEF Place, Cancelled
<1>11. ASSUME NEW c \in Callers, Save(c) PROVE OutputsAccounted'
  <2>1. CASE "late" \in slip
    BY <1>11, <2>1 DEF Save
  <2>2. CASE "late" \notin slip
    <3>1. job[c].at = "finished" /\ job[c].exited # "none"
      BY <1>11, <2>2 DEF Save
    <3>2. job[c].exited \in {"setup", "yes", "timeout"} /\ job[c].outputs \in {"none", "all", "some"}
      BY <3>1, Fields DEF JobRecords
    <3>3. Outcome(job[c]) # "missing"
      BY <2>2, <3>1, <3>2 DEF Outcome
    <3>4. records' = [records EXCEPT ![call[c].n] = Outcome(job[c])]
      BY <1>11 DEF Save
    <3> QED
      BY <2>2, <3>3, <3>4
  <2> QED
    BY <2>1, <2>2
<1>12. ASSUME NEW c \in Callers, Fail(c) PROVE OutputsAccounted'
  BY <1>12, CallEnds DEF Fail
<1>13. ASSUME NEW c \in Callers, BuildFails(c) PROVE OutputsAccounted'
  BY <1>13, CallEnds DEF BuildFails
<1>14. ASSUME NEW c \in Callers, Cut(c) PROVE OutputsAccounted'
  BY <1>14, CallCut
<1>15. ASSUME NEW c \in Callers, JobPrepares(c) PROVE OutputsAccounted'
  BY <1>15, JobMoves DEF JobPrepares, JobFrame
<1>16. ASSUME NEW c \in Callers, JobSetup(c) PROVE OutputsAccounted'
  BY <1>16, JobMoves, JobEnds, JobSetupDoes DEF Gone, Cancelled
<1>17. ASSUME NEW c \in Callers, JobOutputs(c) PROVE OutputsAccounted'
  BY <1>17, JobMoves, JobOutputsDoes DEF TimedOut, Gone, Cancelled
<1>18. ASSUME NEW c \in Callers, JobDestroy(c) PROVE OutputsAccounted'
  BY <1>18, JobMoves, JobEnds DEF JobDestroy, JobFrame, Gone, Cancelled
<1>19. ASSUME NEW c \in Callers, JobRuns(c) PROVE OutputsAccounted'
  BY <1>19, JobMoves, JobEnds, JobRunsDoes DEF TimedOut, Gone, Cancelled
<1>20. ASSUME NEW c \in Callers, JobBreaks(c) PROVE OutputsAccounted'
  BY <1>20, JobEnds DEF JobBreaks, Gone, Cancelled
<1>21. ASSUME NEW c \in Callers, Deadline(c) PROVE OutputsAccounted'
  BY <1>21, JobLate DEF Deadline, Active, JobFrame
<1>22. ASSUME NEW c \in Callers, Bundle(c) PROVE OutputsAccounted'
  BY <1>22, CallGoes, BundleDoes
<1>23. ASSUME NEW c \in Callers, RunFails(c) PROVE OutputsAccounted'
  BY <1>23, CallGoes DEF RunFails
<1>24. ASSUME NEW c \in Callers, SaveFails(c) PROVE OutputsAccounted'
  BY <1>24, CallEnds DEF SaveFails
<1>25. CASE UNCHANGED vars
  BY <1>25 DEF vars, envVars, callVars
<1> QED
  BY <1>1, <1>2, <1>3, <1>4, <1>5, <1>6, <1>7, <1>8, <1>9, <1>10,
     <1>11, <1>12, <1>13, <1>14, <1>15, <1>16, <1>17, <1>18, <1>19, <1>20,
     <1>21, <1>22, <1>23, <1>24, <1>25 DEF Next, CallStep, JobStep

(***************************************************************************)
(* The theorems                                                            *)
(***************************************************************************)

THEOREM PrivilegedHolds == Spec => []PrivilegedInv
<1>1. Init => PrivilegedInv
  BY PrivilegedInit
<1>2. PrivilegedInv /\ [Next]_vars => PrivilegedInv'
  BY TypeStep, GenStep, NodeStep, PinStep, JobStepKeeps, GuestStep, NumberStep, OutputsStep, AccountedStep
     DEF PrivilegedInv
<1> QED
  BY <1>1, <1>2, PTL DEF Spec

\* A command with secrets that runs for its caller runs on the commit that a publish would
\* land, and what it leaves is not put where the agents read
\* (serve/privileged.go, RunPrivileged; internal/privileged/privileged.go, Run).
THEOREM SecretsHold == Spec => []SecretsStayInside
<1>1. PrivilegedInv => SecretsStayInside
  <2> SUFFICES ASSUME PrivilegedInv PROVE SecretsStayInside
    OBVIOUS
  <2>1. ASSUME NEW c \in Callers, job[c].at = "running", job[c].cmd \in Secret, ~Gone(c)
        PROVE  job[c].ref = reviewed /\ job[c].ref = head
    BY <2>1 DEF PrivilegedInv, TypeOK, NodeInv, PinInv, JobInv, Gone, Cancelled
  <2> QED
    BY <2>1 DEF PrivilegedInv, GuestInv, SecretsStayInside
<1> QED
  BY <1>1, PrivilegedHolds, PTL

\* No two calls write the record of one run-id, and a command that ended has its outputs on
\* record or the record says that some are missing (serve/privileged.go; privileged.go).
THEOREM RecordsHold == Spec => []RecordsAreTrueUnlessLate
<1>1. PrivilegedInv => RecordsAreTrueUnlessLate
  BY DEF PrivilegedInv, NumberInv, RecordsAreTrueUnlessLate
<1> QED
  BY <1>1, PrivilegedHolds, PTL

(***************************************************************************)
(* Settings                                                                *)
(***************************************************************************)

\* A value that Validate has let pass comes from one of its three sources.
LEMMA SourcesDiffer ==
    ASSUME NEW s, Validate(s)
    PROVE  /\ Placeholders(s) \cap Plaintext(s) = {}
           /\ NamesOf(s.secrets) = Placeholders(s) \cup Plaintext(s)
<1>1. Once(s.secrets) /\ \A d \in ToSet(s.secrets) : d.mode \in {"placeholder", "plaintext"}
  BY DEF Validate, ValidateSecret
<1>2. \A d, e \in ToSet(s.secrets) : d.name = e.name => d = e
  BY <1>1 DEF Once, ToSet
<1> QED
  BY <1>1, <1>2 DEF Placeholders, Plaintext, NamesOf

\* A host that a secret may be sent to is one of those that the VM of its command reaches.
LEMMA AllowedIsCovered ==
    ASSUME NEW allowed, NEW h, HostAllowed(allowed, h), NEW host, Covers(h, host)
    PROVE  \E a \in allowed : Covers(a, host)
<1>1. PICK a \in allowed : a = h \/ (a[1] = "*" /\ h[1] # "*" /\ IsStrictSuffix(Tail(a), h))
  BY DEF HostAllowed
<1>2. CASE a = h
  BY <1>2
<1>3. CASE a # h
  <2>1. h = host
    BY <1>1, <1>3 DEF Covers
  <2> QED
    BY <1>1, <1>3, <2>1 DEF Covers
<1> QED
  BY <1>2, <1>3

\* Settings that boot are consistent: what goes to the guest, what goes to the commands and
\* what a person was shown of both agree, whatever settings.json says (Validate, planBoot).
THEOREM SettingsAreConsistent == DeclaredIsConsistent
<1> DEFINE f == input.file
           s == f.settings
           listed == PrivilegedSecrets(s)
<1> SUFFICES ASSUME PlanBoot(f)
             PROVE  /\ {d.name : d \in listed} \cap (Placeholders(s) \cup Plaintext(s)) = {}
                    /\ \A v \in s.envVars \cap NamesOf(s.secrets) :
                           GuestEnvFile(f)[v] = "placeholder" <=> v \in DOMAIN GuestEnv(f) \ Plaintext(s)
                    /\ \A v \in s.envVars :
                           /\ GuestEnvFile(f)[v] = "public" => v \in f.vars
                           /\ GuestEnvFile(f)[v] = "plaintext" => v \in f.secretsApproved
                    /\ \A c \in DOMAIN s.commands : \A d \in ToSet(s.commands[c].secrets) :
                           /\ \E l \in listed : l.name = d.name /\ d.hosts \subseteq l.hosts
                           /\ \A host \in Hosts :
                                  (\E h \in d.hosts : Covers(h, host)) =>
                                      \E a \in CommandEgress(f, c) : Covers(a, host)
  BY DEF DeclaredIsConsistent
<1>1. /\ Validate(s) /\ s.envVars \subseteq NamesOf(s.secrets) \cup f.vars
      /\ Plaintext(s) \subseteq f.secretsApproved
  BY DEF PlanBoot
<1>2. /\ Placeholders(s) \cap Plaintext(s) = {} /\ NamesOf(s.secrets) = Placeholders(s) \cup Plaintext(s)
  BY <1>1, SourcesDiffer
<1>3. \A c \in DOMAIN s.commands : \A d \in ToSet(s.commands[c].secrets) :
        d.name \notin NamesOf(s.secrets) /\ \A h \in d.hosts : HostAllowed(s.commands[c].egress, h)
  BY <1>1 DEF Validate, ValidateCommand
<1> DEFINE decls == UNION {ToSet(s.commands[c].secrets) : c \in DOMAIN s.commands}
<1>4. listed = {[name |-> n, hosts |-> UNION {d.hosts : d \in {d \in decls : d.name = n}}] : n \in {d.name : d \in decls}}
  BY DEF PrivilegedSecrets
<1>5. \A v \in s.envVars :
        GuestEnvFile(f)[v] = IF v \in Placeholders(s) THEN "placeholder" ELSE IF v \in Plaintext(s) THEN "plaintext" ELSE "public"
  BY DEF GuestEnvFile
<1>6. DOMAIN GuestEnv(f) = Placeholders(s)
  BY DEF GuestEnv
<1>7. \A c \in DOMAIN s.commands : s.commands[c].egress \subseteq CommandEgress(f, c)
  BY DEF CommandEgress
<1> HIDE DEF f, s, listed
<1>8. {d.name : d \in listed} \cap (Placeholders(s) \cup Plaintext(s)) = {}
  <2>1. ASSUME NEW l \in listed PROVE l.name \notin NamesOf(s.secrets)
    <3>1. PICK d \in decls : l.name = d.name
      BY <1>4, <2>1
    <3>2. PICK c \in DOMAIN s.commands : d \in ToSet(s.commands[c].secrets)
      BY <3>1
    <3> QED
      BY <1>3, <3>1, <3>2
  <2> QED
    BY <1>2, <2>1
<1>9. \A v \in s.envVars \cap NamesOf(s.secrets) :
        GuestEnvFile(f)[v] = "placeholder" <=> v \in DOMAIN GuestEnv(f) \ Plaintext(s)
  BY <1>2, <1>5, <1>6
<1>10. \A v \in s.envVars :
         /\ GuestEnvFile(f)[v] = "public" => v \in f.vars
         /\ GuestEnvFile(f)[v] = "plaintext" => v \in f.secretsApproved
  BY <1>1, <1>2, <1>5
<1>11. ASSUME NEW c \in DOMAIN s.commands, NEW d \in ToSet(s.commands[c].secrets)
       PROVE  \E l \in listed : l.name = d.name /\ d.hosts \subseteq l.hosts
  <2>1. d \in decls
    BY <1>11
  <2>2. PICK l : l = [name |-> d.name, hosts |-> UNION {e.hosts : e \in {e \in decls : e.name = d.name}}]
    OBVIOUS
  <2>3. l \in listed /\ l.name = d.name /\ d.hosts \subseteq l.hosts
    BY <1>4, <2>1, <2>2
  <2> QED
    BY <2>3
<1>12. ASSUME NEW c \in DOMAIN s.commands, NEW d \in ToSet(s.commands[c].secrets), NEW host \in Hosts,
              NEW h \in d.hosts, Covers(h, host)
       PROVE  \E a \in CommandEgress(f, c) : Covers(a, host)
  <2>1. \E a \in s.commands[c].egress : Covers(a, host)
    BY <1>3, <1>12, AllowedIsCovered
  <2> QED
    BY <1>7, <2>1
<1> QED
  BY <1>8, <1>9, <1>10, <1>11, <1>12

(***************************************************************************)
(* Patterns                                                                *)
(***************************************************************************)

\* The first segment from p on that is no "**", or 0 (matchSegs).
Rest(pattern, p) == SelectInSubSeq(pattern, p, Len(pattern), LAMBDA s : s # "**")

\* What matchSegs computes of the segments from p on.
Computed(pattern, name, from, p) ==
    IF p > Len(pattern) THEN {Len(name) + 1}
    ELSE IF pattern[p] = "**"
    THEN IF Rest(pattern, p) = 0 THEN 1..Len(name)
         ELSE {n \in 1..Len(name) : \E i \in n..Len(name) : i \in from[Rest(pattern, p)]}
    ELSE {n \in 1..Len(name) : SegmentMatches(pattern[p], name[n]) /\ n + 1 \in from[p + 1]}

Computes(pattern, name, from) == from = [p \in 1..(Len(pattern) + 1) |-> Computed(pattern, name, from, p)]

LEMMA MatchIs ==
    ASSUME NEW pattern, NEW name
    PROVE  Match(pattern, name) <=> 1 \in (CHOOSE from : Computes(pattern, name, from))[1]
  BY DEF Match, Computes, Computed, Rest

LEMMA LeastOf == ASSUME NEW S \in SUBSET Nat, S # {} PROVE \E i \in S : \A j \in S : i <= j
<1>1. PICK R : R = OpToRel(<, Nat)
  OBVIOUS
<1>2. IsWellFoundedOn(R, Nat)
  BY <1>1, NatLessThanWellFounded
<1>3. \A x, y \in Nat : <<x, y>> \in R <=> x < y
  BY <1>1 DEF OpToRel
<1>4. PICK i \in S : \A j \in S : ~(<<j, i>> \in R)
  BY <1>2, WFMin
<1>5. \A j \in S : ~(j < i)
  BY <1>3, <1>4
<1> QED
  BY <1>5

LEMMA RestIs ==
    ASSUME NEW S, NEW pattern \in Seq(S), NEW p \in 1..Len(pattern)
    PROVE  \/ /\ Rest(pattern, p) = 0
              /\ \A k \in p..Len(pattern) : pattern[k] = "**"
           \/ /\ Rest(pattern, p) \in p..Len(pattern)
              /\ pattern[Rest(pattern, p)] # "**"
              /\ \A k \in p..(Rest(pattern, p) - 1) : pattern[k] = "**"
<1> DEFINE I == {i \in p..Len(pattern) : pattern[i] # "**"}
<1>1. Rest(pattern, p) = IF I # {} THEN Min(I) ELSE 0
  BY DEF Rest, SelectInSubSeq
<1>2. I \in SUBSET Nat
  BY LenProperties
<1>3. CASE I = {}
  BY <1>1, <1>3
<1>4. CASE I # {}
  <2>1. \E i \in I : \A j \in I : i <= j
    BY <1>2, <1>4, LeastOf
  <2>2. Rest(pattern, p) = CHOOSE i \in I : \A j \in I : i <= j
    BY <1>1, <1>4 DEF Min
  <2>3. Rest(pattern, p) \in I /\ \A j \in I : Rest(pattern, p) <= j
    BY <2>1, <2>2
  <2>4. \A k \in p..(Rest(pattern, p) - 1) : k \in p..Len(pattern) /\ ~(Rest(pattern, p) <= k)
    BY <1>2, <2>3, LenProperties
  <2> QED
    BY <2>3, <2>4
<1> QED
  BY <1>3, <1>4

\* Places that follow each other never go back.
LEMMA NeverBack ==
    ASSUME NEW a \in Nat, NEW b \in Nat, NEW g, \A k \in a..b : g[k] \in Nat,
           \A k \in a..b : k < b => g[k] <= g[k + 1]
    PROVE  \A k \in a..b : g[a] <= g[k]
<1> DEFINE S == {k \in a..b : ~(g[a] <= g[k])}
<1> SUFFICES ASSUME S # {} PROVE FALSE
  OBVIOUS
<1>1. S \in SUBSET Nat
  OBVIOUS
<1>2. PICK k \in S : \A j \in S : k <= j
  BY <1>1, LeastOf
<1>3. k \in a..b /\ ~(g[a] <= g[k]) /\ a \in a..b
  OBVIOUS
<1>4. k # a
  BY <1>3
<1>5. k - 1 \in a..b /\ k - 1 < b /\ k - 1 \notin S /\ (k - 1) + 1 = k
  BY <1>2, <1>3, <1>4
<1>6. g[a] <= g[k - 1] /\ g[k - 1] <= g[k]
  BY <1>5
<1> QED
  BY <1>3, <1>5, <1>6

(***************************************************************************)
(* What the segments from p on stand for, in the names from n on           *)
(***************************************************************************)

\* Segment k begins where begins says, and the next one where k ends.
Follows(pattern, name, begins, k) ==
    IF pattern[k] = "**" THEN begins[k] <= begins[k + 1]
    ELSE begins[k + 1] = begins[k] + 1 /\ SegmentMatches(pattern[k], name[begins[k]])

\* The segments "**" at the end stand for a name at least.
EndStands(pattern, begins, p) ==
    \E k \in p..Len(pattern) : begins[k] < begins[k + 1] /\ \A l \in k..Len(pattern) : pattern[l] = "**"

Places(pattern, name, p) == [p..(Len(pattern) + 1) -> 1..(Len(name) + 1)]

StandsFor(pattern, name, begins, p, n) ==
    /\ begins[p] = n /\ begins[Len(pattern) + 1] = Len(name) + 1
    /\ \A k \in p..Len(pattern) : Follows(pattern, name, begins, k)
    /\ p <= Len(pattern) /\ pattern[Len(pattern)] = "**" => EndStands(pattern, begins, p)

ExpandsFrom(pattern, name, p, n) ==
    \E begins \in Places(pattern, name, p) : StandsFor(pattern, name, begins, p, n)

LEMMA ExpandsIsFromTheFirst ==
    ASSUME NEW pattern \in Seq(STRING), NEW name \in Seq(STRING), pattern # <<>>
    PROVE  Expands(pattern, name) <=> ExpandsFrom(pattern, name, 1, 1)
<1>1. Len(pattern) \in Nat /\ 1 <= Len(pattern)
  BY EmptySeq, LenProperties
<1> QED
  BY <1>1 DEF Expands, ExpandsFrom, Places, StandsFor, Follows, EndStands

LEMMA FromTheEnd ==
    ASSUME NEW pattern \in Seq(STRING), NEW name \in Seq(STRING), NEW n \in 1..(Len(name) + 1)
    PROVE  ExpandsFrom(pattern, name, Len(pattern) + 1, n) <=> n > Len(name)
<1>1. Len(pattern) \in Nat /\ Len(name) \in Nat
  BY LenProperties
<1>2. ASSUME n = Len(name) + 1 PROVE ExpandsFrom(pattern, name, Len(pattern) + 1, n)
  <2> DEFINE begins == [k \in (Len(pattern) + 1)..(Len(pattern) + 1) |-> Len(name) + 1]
  <2>1. begins \in Places(pattern, name, Len(pattern) + 1) /\ begins[Len(pattern) + 1] = Len(name) + 1
    BY <1>1 DEF Places
  <2>2. StandsFor(pattern, name, begins, Len(pattern) + 1, n)
    BY <1>1, <1>2, <2>1 DEF StandsFor
  <2> QED
    BY <2>1, <2>2 DEF ExpandsFrom
<1>3. ASSUME ExpandsFrom(pattern, name, Len(pattern) + 1, n) PROVE n = Len(name) + 1
  BY <1>3 DEF ExpandsFrom, StandsFor
<1> QED
  BY <1>1, <1>2, <1>3

LEMMA FromAName ==
    ASSUME NEW pattern \in Seq(STRING), NEW name \in Seq(STRING), NEW n \in 1..(Len(name) + 1),
           NEW p \in 1..Len(pattern), pattern[p] # "**"
    PROVE  ExpandsFrom(pattern, name, p, n) <=>
               n <= Len(name) /\ SegmentMatches(pattern[p], name[n]) /\ ExpandsFrom(pattern, name, p + 1, n + 1)
<1>1. Len(pattern) \in Nat /\ Len(name) \in Nat
  BY LenProperties
<1>2. ASSUME ExpandsFrom(pattern, name, p, n)
      PROVE  n <= Len(name) /\ SegmentMatches(pattern[p], name[n]) /\ ExpandsFrom(pattern, name, p + 1, n + 1)
  <2>1. PICK begins \in Places(pattern, name, p) : StandsFor(pattern, name, begins, p, n)
    BY <1>2 DEF ExpandsFrom
  <2>2. begins[p] = n /\ begins[p + 1] = n + 1 /\ SegmentMatches(pattern[p], name[n]) /\ begins[p + 1] <= Len(name) + 1
    <3>1. p \in p..Len(pattern) /\ p + 1 \in p..(Len(pattern) + 1)
      BY <1>1
    <3>2. begins[p] = n /\ Follows(pattern, name, begins, p)
      BY <2>1, <3>1 DEF StandsFor
    <3>3. begins[p + 1] \in 1..(Len(name) + 1)
      BY <2>1, <3>1 DEF Places
    <3> QED
      BY <1>1, <3>2, <3>3 DEF Follows
  <2> DEFINE others == [k \in (p + 1)..(Len(pattern) + 1) |-> begins[k]]
  <2>3. others \in Places(pattern, name, p + 1)
    BY <1>1 DEF Places
  <2>4. \A k \in (p + 1)..(Len(pattern) + 1) : others[k] = begins[k]
    OBVIOUS
  <2> HIDE DEF others
  <2>5. ASSUME NEW k \in (p + 1)..Len(pattern) PROVE Follows(pattern, name, others, k)
    <3>1. k \in p..Len(pattern) /\ others[k] = begins[k] /\ others[k + 1] = begins[k + 1]
      BY <1>1, <2>4
    <3>2. Follows(pattern, name, begins, k)
      BY <2>1, <3>1 DEF StandsFor
    <3> QED
      BY <3>1, <3>2 DEF Follows
  <2>6. pattern[Len(pattern)] = "**" => EndStands(pattern, others, p + 1)
    <3> SUFFICES ASSUME pattern[Len(pattern)] = "**" PROVE EndStands(pattern, others, p + 1)
      OBVIOUS
    <3>1. PICK k \in p..Len(pattern) : begins[k] < begins[k + 1] /\ \A l \in k..Len(pattern) : pattern[l] = "**"
      BY <1>1, <2>1 DEF StandsFor, EndStands
    <3>2. k # p /\ k \in (p + 1)..Len(pattern) /\ k + 1 \in (p + 1)..(Len(pattern) + 1)
      BY <1>1, <3>1
    <3> QED
      BY <1>1, <2>4, <3>1, <3>2 DEF EndStands
  <2>7. others[p + 1] = n + 1 /\ others[Len(pattern) + 1] = Len(name) + 1
    BY <1>1, <2>1, <2>2, <2>4 DEF StandsFor
  <2>8. StandsFor(pattern, name, others, p + 1, n + 1)
    BY <2>5, <2>6, <2>7 DEF StandsFor
  <2> QED
    BY <1>1, <2>2, <2>3, <2>8 DEF ExpandsFrom
<1>3. ASSUME n <= Len(name), SegmentMatches(pattern[p], name[n]), ExpandsFrom(pattern, name, p + 1, n + 1)
      PROVE  ExpandsFrom(pattern, name, p, n)
  <2>1. PICK others \in Places(pattern, name, p + 1) : StandsFor(pattern, name, others, p + 1, n + 1)
    BY <1>3 DEF ExpandsFrom
  <2> DEFINE begins == [k \in p..(Len(pattern) + 1) |-> IF k = p THEN n ELSE others[k]]
  <2>2. begins \in Places(pattern, name, p)
    BY <1>1, <2>1 DEF Places
  <2>3. begins[p] = n /\ \A k \in (p + 1)..(Len(pattern) + 1) : begins[k] = others[k]
    BY <1>1
  <2> HIDE DEF begins
  <2>4. begins[p + 1] = n + 1 /\ begins[Len(pattern) + 1] = Len(name) + 1
    BY <1>1, <2>1, <2>3 DEF StandsFor
  <2>5. ASSUME NEW k \in p..Len(pattern) PROVE Follows(pattern, name, begins, k)
    <3>1. CASE k = p
      BY <1>3, <2>3, <2>4, <3>1 DEF Follows
    <3>2. CASE k # p
      <4>1. k \in (p + 1)..Len(pattern) /\ k \in (p + 1)..(Len(pattern) + 1) /\ k + 1 \in (p + 1)..(Len(pattern) + 1)
        BY <1>1, <3>2
      <4> QED
        BY <2>1, <2>3, <4>1 DEF StandsFor, Follows
    <3> QED
      BY <3>1, <3>2
  <2>6. pattern[Len(pattern)] = "**" => EndStands(pattern, begins, p)
    <3> SUFFICES ASSUME pattern[Len(pattern)] = "**" PROVE EndStands(pattern, begins, p)
      OBVIOUS
    <3>1. p + 1 <= Len(pattern)
      BY <1>1
    <3>2. PICK k \in (p + 1)..Len(pattern) : others[k] < others[k + 1] /\ \A l \in k..Len(pattern) : pattern[l] = "**"
      BY <1>1, <2>1, <3>1 DEF StandsFor, EndStands
    <3>3. k \in (p + 1)..(Len(pattern) + 1) /\ k + 1 \in (p + 1)..(Len(pattern) + 1) /\ k \in p..Len(pattern)
      BY <1>1
    <3> QED
      BY <2>3, <3>2, <3>3 DEF EndStands
  <2>7. StandsFor(pattern, name, begins, p, n)
    BY <2>3, <2>4, <2>5, <2>6 DEF StandsFor
  <2> QED
    BY <2>2, <2>7 DEF ExpandsFrom
<1> QED
  BY <1>2, <1>3

LEMMA FromTheLast ==
    ASSUME NEW pattern \in Seq(STRING), NEW name \in Seq(STRING), NEW n \in 1..(Len(name) + 1),
           NEW p \in 1..Len(pattern), \A k \in p..Len(pattern) : pattern[k] = "**"
    PROVE  ExpandsFrom(pattern, name, p, n) <=> n <= Len(name)
<1>1. Len(pattern) \in Nat /\ Len(name) \in Nat /\ Len(pattern) \in p..Len(pattern)
  BY LenProperties
<1>2. ASSUME ExpandsFrom(pattern, name, p, n) PROVE n <= Len(name)
  <2>1. PICK begins \in Places(pattern, name, p) : StandsFor(pattern, name, begins, p, n)
    BY <1>2 DEF ExpandsFrom
  <2>2. \A k \in p..(Len(pattern) + 1) : begins[k] \in 1..(Len(name) + 1)
    BY <2>1 DEF Places
  <2>3. \A k \in p..Len(pattern) : begins[k] <= begins[k + 1]
    BY <2>1 DEF StandsFor, Follows
  <2>4. PICK k \in p..Len(pattern) : begins[k] < begins[k + 1]
    BY <1>1, <2>1 DEF StandsFor, EndStands
  <2>5. \A j \in p..(Len(pattern) + 1) : begins[p] <= begins[j]
    <3>1. Len(pattern) + 1 \in Nat /\ p \in Nat
      BY <1>1
    <3>2. \A j \in p..(Len(pattern) + 1) : begins[j] \in Nat
      BY <1>1, <2>2
    <3>3. \A j \in p..(Len(pattern) + 1) : j < Len(pattern) + 1 => begins[j] <= begins[j + 1]
      BY <1>1, <2>3
    <3> QED
      BY <3>1, <3>2, <3>3, NeverBack
  <2>6. k \in p..(Len(pattern) + 1) /\ k + 1 \in p..(Len(pattern) + 1) /\ begins[p] = n
    BY <1>1, <2>1 DEF StandsFor
  <2> QED
    BY <1>1, <2>2, <2>4, <2>5, <2>6
<1>3. ASSUME n <= Len(name) PROVE ExpandsFrom(pattern, name, p, n)
  <2> DEFINE begins == [k \in p..(Len(pattern) + 1) |-> IF k = p THEN n ELSE Len(name) + 1]
  <2>1. begins \in Places(pattern, name, p)
    BY <1>1 DEF Places
  <2>2. begins[p] = n /\ \A k \in (p + 1)..(Len(pattern) + 1) : begins[k] = Len(name) + 1
    BY <1>1
  <2> HIDE DEF begins
  <2>3. ASSUME NEW k \in p..Len(pattern) PROVE Follows(pattern, name, begins, k)
    <3>1. begins[k + 1] = Len(name) + 1 /\ (k = p \/ begins[k] = Len(name) + 1)
      BY <1>1, <2>2
    <3> QED
      BY <1>1, <2>2, <3>1 DEF Follows
  <2>4. EndStands(pattern, begins, p)
    <3>1. p \in p..Len(pattern) /\ begins[p] < begins[p + 1]
      BY <1>1, <1>3, <2>2
    <3> QED
      BY <3>1 DEF EndStands
  <2>5. StandsFor(pattern, name, begins, p, n)
    BY <1>1, <2>2, <2>3, <2>4 DEF StandsFor
  <2> QED
    BY <2>1, <2>5 DEF ExpandsFrom
<1> QED
  BY <1>2, <1>3

LEMMA FromTheRest ==
    ASSUME NEW pattern \in Seq(STRING), NEW name \in Seq(STRING), NEW n \in 1..(Len(name) + 1),
           NEW p \in 1..Len(pattern), NEW r \in (p + 1)..Len(pattern), pattern[r] # "**",
           \A k \in p..(r - 1) : pattern[k] = "**"
    PROVE  ExpandsFrom(pattern, name, p, n) <=> \E i \in n..Len(name) : ExpandsFrom(pattern, name, r, i)
<1>1. /\ Len(pattern) \in Nat /\ Len(name) \in Nat /\ p \in Nat /\ r \in Nat /\ p < r
      /\ r \in p..Len(pattern) /\ r \in p..(Len(pattern) + 1) /\ r + 1 \in p..(Len(pattern) + 1)
  BY LenProperties
<1>2. ASSUME ExpandsFrom(pattern, name, p, n) PROVE \E i \in n..Len(name) : ExpandsFrom(pattern, name, r, i)
  <2>1. PICK begins \in Places(pattern, name, p) : StandsFor(pattern, name, begins, p, n)
    BY <1>2 DEF ExpandsFrom
  <2>2. \A k \in p..(Len(pattern) + 1) : begins[k] \in 1..(Len(name) + 1)
    BY <2>1 DEF Places
  <2>3. \A k \in p..Len(pattern) : Follows(pattern, name, begins, k)
    BY <2>1 DEF StandsFor
  <2>4. begins[p] <= begins[r]
    <3>1. \A k \in p..r : begins[k] \in Nat
      BY <1>1, <2>2
    <3>2. \A k \in p..r : k < r => begins[k] <= begins[k + 1]
      <4> SUFFICES ASSUME NEW k \in p..r, k < r PROVE begins[k] <= begins[k + 1]
        OBVIOUS
      <4>1. k \in p..(r - 1) /\ k \in p..Len(pattern)
        BY <1>1
      <4> QED
        BY <2>3, <4>1 DEF Follows
    <3>3. \A k \in p..r : begins[p] <= begins[k]
      BY <1>1, <3>1, <3>2, NeverBack
    <3> QED
      BY <1>1, <3>3
  <2>5. begins[r + 1] = begins[r] + 1
    BY <1>1, <2>3 DEF Follows
  <2>6. begins[p] = n /\ begins[r] \in n..Len(name)
    <3>1. begins[r] \in 1..(Len(name) + 1) /\ begins[r + 1] \in 1..(Len(name) + 1) /\ begins[p] = n
      BY <1>1, <2>1, <2>2 DEF StandsFor
    <3> QED
      BY <1>1, <2>4, <2>5, <3>1
  <2> DEFINE others == [k \in r..(Len(pattern) + 1) |-> begins[k]]
  <2>7. others \in Places(pattern, name, r)
    BY <1>1, <2>2 DEF Places
  <2>8. \A k \in r..(Len(pattern) + 1) : others[k] = begins[k]
    OBVIOUS
  <2> HIDE DEF others
  <2>9. ASSUME NEW k \in r..Len(pattern) PROVE Follows(pattern, name, others, k)
    <3>1. k \in p..Len(pattern) /\ others[k] = begins[k] /\ others[k + 1] = begins[k + 1]
      BY <1>1, <2>8
    <3>2. Follows(pattern, name, begins, k)
      BY <2>3, <3>1
    <3> QED
      BY <3>1, <3>2 DEF Follows
  <2>10. pattern[Len(pattern)] = "**" => EndStands(pattern, others, r)
    <3> SUFFICES ASSUME pattern[Len(pattern)] = "**" PROVE EndStands(pattern, others, r)
      OBVIOUS
    <3>1. PICK k \in p..Len(pattern) : begins[k] < begins[k + 1] /\ \A l \in k..Len(pattern) : pattern[l] = "**"
      BY <1>1, <2>1 DEF StandsFor, EndStands
    <3>2. r \notin k..Len(pattern)
      BY <3>1
    <3>3. k \in r..Len(pattern) /\ others[k] = begins[k] /\ others[k + 1] = begins[k + 1]
      BY <1>1, <2>8, <3>2
    <3> QED
      BY <3>1, <3>3 DEF EndStands
  <2>11. others[r] = begins[r] /\ others[Len(pattern) + 1] = Len(name) + 1
    BY <1>1, <2>1, <2>8 DEF StandsFor
  <2>12. StandsFor(pattern, name, others, r, begins[r])
    BY <2>9, <2>10, <2>11 DEF StandsFor
  <2>13. ExpandsFrom(pattern, name, r, begins[r])
    BY <2>7, <2>12 DEF ExpandsFrom
  <2> QED
    BY <2>6, <2>13
<1>3. ASSUME NEW i \in n..Len(name), ExpandsFrom(pattern, name, r, i) PROVE ExpandsFrom(pattern, name, p, n)
  <2>1. PICK others \in Places(pattern, name, r) : StandsFor(pattern, name, others, r, i)
    BY <1>3 DEF ExpandsFrom
  <2> DEFINE begins == [k \in p..(Len(pattern) + 1) |-> IF k < r THEN n ELSE others[k]]
  <2>2. begins \in Places(pattern, name, p)
    <3>1. ASSUME NEW k \in p..(Len(pattern) + 1) PROVE begins[k] \in 1..(Len(name) + 1)
      <4>1. CASE k < r
        BY <4>1
      <4>2. CASE ~(k < r)
        BY <1>1, <2>1, <4>2 DEF Places
      <4> QED
        BY <4>1, <4>2
    <3> QED
      BY <3>1 DEF Places
  <2>3. /\ \A k \in p..(r - 1) : begins[k] = n
        /\ \A k \in r..(Len(pattern) + 1) : begins[k] = others[k]
    BY <1>1
  <2> HIDE DEF begins
  <2>4. begins[p] = n /\ begins[r] = i /\ begins[Len(pattern) + 1] = Len(name) + 1
    BY <1>1, <2>1, <2>3 DEF StandsFor
  <2>5. ASSUME NEW k \in p..Len(pattern) PROVE Follows(pattern, name, begins, k)
    <3>1. CASE k < r
      <4>1. k \in p..(r - 1) /\ (k + 1 \in p..(r - 1) \/ k + 1 = r)
        BY <1>1, <3>1
      <4>2. begins[k] = n /\ begins[k + 1] \in {n, i} /\ pattern[k] = "**"
        BY <2>3, <2>4, <4>1
      <4> QED
        BY <1>1, <4>2 DEF Follows
    <3>2. CASE ~(k < r)
      <4>1. k \in r..Len(pattern) /\ k \in r..(Len(pattern) + 1) /\ k + 1 \in r..(Len(pattern) + 1)
        BY <1>1, <3>2
      <4>2. Follows(pattern, name, others, k) /\ begins[k] = others[k] /\ begins[k + 1] = others[k + 1]
        BY <2>1, <2>3, <4>1 DEF StandsFor
      <4> QED
        BY <4>2 DEF Follows
    <3> QED
      BY <3>1, <3>2
  <2>6. pattern[Len(pattern)] = "**" => EndStands(pattern, begins, p)
    <3> SUFFICES ASSUME pattern[Len(pattern)] = "**" PROVE EndStands(pattern, begins, p)
      OBVIOUS
    <3>1. PICK k \in r..Len(pattern) : others[k] < others[k + 1] /\ \A l \in k..Len(pattern) : pattern[l] = "**"
      BY <1>1, <2>1 DEF StandsFor, EndStands
    <3>2. k \in p..Len(pattern) /\ begins[k] = others[k] /\ begins[k + 1] = others[k + 1]
      BY <1>1, <2>3
    <3> QED
      BY <3>1, <3>2 DEF EndStands
  <2>7. StandsFor(pattern, name, begins, p, n)
    BY <2>4, <2>5, <2>6 DEF StandsFor
  <2> QED
    BY <2>2, <2>7 DEF ExpandsFrom
<1> QED
  BY <1>2, <1>3

\* The places of the name that are left to the segments that are left.
LEMMA ExpandsStep ==
    ASSUME NEW pattern \in Seq(STRING), NEW name \in Seq(STRING),
           NEW p \in 1..(Len(pattern) + 1), NEW n \in 1..(Len(name) + 1)
    PROVE  ExpandsFrom(pattern, name, p, n) <=>
               IF p > Len(pattern) THEN n > Len(name)
               ELSE IF pattern[p] = "**"
               THEN IF Rest(pattern, p) = 0 THEN n <= Len(name)
                    ELSE \E i \in n..Len(name) : ExpandsFrom(pattern, name, Rest(pattern, p), i)
               ELSE n <= Len(name) /\ SegmentMatches(pattern[p], name[n]) /\ ExpandsFrom(pattern, name, p + 1, n + 1)
<1>1. Len(pattern) \in Nat /\ Len(name) \in Nat
  BY LenProperties
<1>2. CASE p > Len(pattern)
  <2>1. p = Len(pattern) + 1
    BY <1>1, <1>2
  <2> QED
    BY <1>2, <2>1, FromTheEnd
<1>3. CASE ~(p > Len(pattern)) /\ pattern[p] # "**"
  <2>1. p \in 1..Len(pattern)
    BY <1>1, <1>3
  <2> QED
    BY <1>3, <2>1, FromAName
<1>4. CASE ~(p > Len(pattern)) /\ pattern[p] = "**"
  <2>1. p \in 1..Len(pattern)
    BY <1>1, <1>4
  <2>2. CASE Rest(pattern, p) = 0
    <3>1. \A k \in p..Len(pattern) : pattern[k] = "**"
      BY <1>1, <2>1, <2>2, RestIs
    <3>2. ExpandsFrom(pattern, name, p, n) <=> n <= Len(name)
      BY <2>1, <3>1, FromTheLast
    <3> QED
      BY <1>4, <2>2, <3>2
  <2>3. CASE Rest(pattern, p) # 0
    <3>1. /\ Rest(pattern, p) \in p..Len(pattern) /\ pattern[Rest(pattern, p)] # "**"
          /\ \A k \in p..(Rest(pattern, p) - 1) : pattern[k] = "**"
      BY <2>1, <2>3, RestIs
    <3>2. Rest(pattern, p) \in (p + 1)..Len(pattern)
      BY <1>1, <1>4, <3>1
    <3>3. PICK r \in (p + 1)..Len(pattern) : r = Rest(pattern, p)
      BY <3>2
    <3>4. pattern[r] # "**" /\ \A k \in p..(r - 1) : pattern[k] = "**"
      BY <3>1, <3>3
    <3>5. ExpandsFrom(pattern, name, p, n) <=> \E i \in n..Len(name) : ExpandsFrom(pattern, name, r, i)
      BY <2>1, <3>4, FromTheRest
    <3> QED
      BY <1>4, <2>3, <3>3, <3>5
  <2> QED
    BY <2>2, <2>3
<1> QED
  BY <1>2, <1>3, <1>4

\* The names from which on the segments from p on stand for the rest of it.
From(pattern, name) ==
    [p \in 1..(Len(pattern) + 1) |-> {n \in 1..(Len(name) + 1) : ExpandsFrom(pattern, name, p, n)}]

LEMMA RestIsLater ==
    ASSUME NEW pattern \in Seq(STRING), NEW p \in 1..Len(pattern), pattern[p] = "**", Rest(pattern, p) # 0
    PROVE  Rest(pattern, p) \in (p + 1)..Len(pattern)
<1>1. Rest(pattern, p) \in p..Len(pattern) /\ pattern[Rest(pattern, p)] # "**"
  BY RestIs
<1>2. Rest(pattern, p) # p /\ Len(pattern) \in Nat
  BY <1>1, LenProperties
<1> QED
  BY <1>1, <1>2

\* What is computed of the segments from p on, if what it is computed of is right.
LEMMA ComputedIs ==
    ASSUME NEW pattern \in Seq(STRING), NEW name \in Seq(STRING), NEW from, NEW p \in 1..(Len(pattern) + 1),
           \A q \in (p + 1)..(Len(pattern) + 1) : from[q] = From(pattern, name)[q]
    PROVE  Computed(pattern, name, from, p) = From(pattern, name)[p]
<1>1. Len(pattern) \in Nat /\ Len(name) \in Nat
  BY LenProperties
<1>2. \A q \in 1..(Len(pattern) + 1) : From(pattern, name)[q] = {n \in 1..(Len(name) + 1) : ExpandsFrom(pattern, name, q, n)}
  BY DEF From
<1>3. CASE p > Len(pattern)
  <2>1. Computed(pattern, name, from, p) = {Len(name) + 1}
    BY <1>3 DEF Computed
  <2>2. \A n \in 1..(Len(name) + 1) : ExpandsFrom(pattern, name, p, n) <=> n > Len(name)
    BY <1>3, ExpandsStep
  <2>3. {n \in 1..(Len(name) + 1) : ExpandsFrom(pattern, name, p, n)} = {Len(name) + 1}
    BY <1>1, <2>2
  <2> QED
    BY <1>2, <2>1, <2>3
<1>4. CASE ~(p > Len(pattern)) /\ pattern[p] # "**"
  <2>1. Computed(pattern, name, from, p) =
          {n \in 1..Len(name) : SegmentMatches(pattern[p], name[n]) /\ n + 1 \in from[p + 1]}
    BY <1>4 DEF Computed
  <2>2. \A n \in 1..(Len(name) + 1) : ExpandsFrom(pattern, name, p, n) <=>
          n <= Len(name) /\ SegmentMatches(pattern[p], name[n]) /\ ExpandsFrom(pattern, name, p + 1, n + 1)
    BY <1>4, ExpandsStep
  <2>3. p + 1 \in (p + 1)..(Len(pattern) + 1) /\ p + 1 \in 1..(Len(pattern) + 1)
    BY <1>1, <1>4
  <2>4. from[p + 1] = {n \in 1..(Len(name) + 1) : ExpandsFrom(pattern, name, p + 1, n)}
    BY <1>2, <2>3
  <2>5. \A n \in 1..Len(name) : n + 1 \in from[p + 1] <=> ExpandsFrom(pattern, name, p + 1, n + 1)
    BY <1>1, <2>4
  <2>6. {n \in 1..Len(name) : SegmentMatches(pattern[p], name[n]) /\ n + 1 \in from[p + 1]} =
          {n \in 1..(Len(name) + 1) : ExpandsFrom(pattern, name, p, n)}
    BY <1>1, <2>2, <2>5
  <2> QED
    BY <1>2, <2>1, <2>6
<1>5. CASE ~(p > Len(pattern)) /\ pattern[p] = "**" /\ Rest(pattern, p) = 0
  <2>1. Computed(pattern, name, from, p) = 1..Len(name)
    BY <1>5 DEF Computed
  <2>2. \A n \in 1..(Len(name) + 1) : ExpandsFrom(pattern, name, p, n) <=> n <= Len(name)
    BY <1>5, ExpandsStep
  <2>3. {n \in 1..(Len(name) + 1) : ExpandsFrom(pattern, name, p, n)} = 1..Len(name)
    BY <1>1, <2>2
  <2> QED
    BY <1>2, <2>1, <2>3
<1>6. CASE ~(p > Len(pattern)) /\ pattern[p] = "**" /\ Rest(pattern, p) # 0
  <2> DEFINE r == Rest(pattern, p)
  <2>1. Computed(pattern, name, from, p) = {n \in 1..Len(name) : \E i \in n..Len(name) : i \in from[r]}
    BY <1>6 DEF Computed
  <2>2. \A n \in 1..(Len(name) + 1) : ExpandsFrom(pattern, name, p, n) <=>
          \E i \in n..Len(name) : ExpandsFrom(pattern, name, r, i)
    BY <1>6, ExpandsStep
  <2>3. p \in 1..Len(pattern)
    BY <1>1, <1>6
  <2>4. r \in (p + 1)..Len(pattern)
    BY <1>6, <2>3, RestIsLater
  <2> HIDE DEF r
  <2>5. r \in (p + 1)..(Len(pattern) + 1) /\ r \in 1..(Len(pattern) + 1)
    BY <1>1, <2>4
  <2>6. from[r] = {n \in 1..(Len(name) + 1) : ExpandsFrom(pattern, name, r, n)}
    BY <1>2, <2>5
  <2>7. \A i \in 1..Len(name) : i \in from[r] <=> ExpandsFrom(pattern, name, r, i)
    BY <1>1, <2>6
  <2>8. {n \in 1..Len(name) : \E i \in n..Len(name) : i \in from[r]} =
          {n \in 1..(Len(name) + 1) : ExpandsFrom(pattern, name, p, n)}
    BY <1>1, <2>2, <2>7
  <2> QED
    BY <1>2, <2>1, <2>8
<1> QED
  BY <1>3, <1>4, <1>5, <1>6

\* matchSegs computes what stands for what, and nothing else.
LEMMA MatchComputes ==
    ASSUME NEW pattern \in Seq(STRING), NEW name \in Seq(STRING), NEW from
    PROVE  Computes(pattern, name, from) <=> from = From(pattern, name)
<1>1. Len(pattern) \in Nat
  BY LenProperties
<1>2. ASSUME from = From(pattern, name) PROVE Computes(pattern, name, from)
  <2>1. \A p \in 1..(Len(pattern) + 1) : Computed(pattern, name, from, p) = from[p]
    BY <1>2, ComputedIs
  <2>2. from = [p \in 1..(Len(pattern) + 1) |-> from[p]]
    BY <1>2 DEF From
  <2> QED
    BY <2>1, <2>2 DEF Computes
<1>3. ASSUME Computes(pattern, name, from) PROVE from = From(pattern, name)
  <2> DEFINE wrong == {d \in 0..Len(pattern) : from[Len(pattern) + 1 - d] # From(pattern, name)[Len(pattern) + 1 - d]}
  <2>1. wrong = {}
    <3> SUFFICES ASSUME wrong # {} PROVE FALSE
      OBVIOUS
    <3>1. wrong \in SUBSET Nat
      BY <1>1
    <3>2. PICK d \in wrong : \A e \in wrong : d <= e
      BY <3>1, LeastOf
    <3> DEFINE p == Len(pattern) + 1 - d
    <3>3. p \in 1..(Len(pattern) + 1) /\ d \in 0..Len(pattern) /\ from[p] # From(pattern, name)[p]
      BY <1>1, <3>2
    <3>4. ASSUME NEW q \in (p + 1)..(Len(pattern) + 1) PROVE from[q] = From(pattern, name)[q]
      <4>1. Len(pattern) + 1 - q \in 0..Len(pattern) /\ ~(d <= Len(pattern) + 1 - q)
        BY <1>1, <3>3
      <4>2. PICK x \in 0..Len(pattern) : x = Len(pattern) + 1 - q /\ ~(d <= x)
        BY <4>1
      <4>3. x \notin wrong
        BY <3>2, <4>2
      <4>4. Len(pattern) + 1 - x = q
        BY <1>1, <3>3, <4>2
      <4> QED
        BY <4>3, <4>4
    <3> HIDE DEF p
    <3>5. Computed(pattern, name, from, p) = From(pattern, name)[p]
      BY <3>3, <3>4, ComputedIs
    <3>6. from[p] = Computed(pattern, name, from, p)
      <4>1. from = [q \in 1..(Len(pattern) + 1) |-> Computed(pattern, name, from, q)]
        BY <1>3 DEF Computes
      <4> QED
        BY <3>3, <4>1
    <3> QED
      BY <3>3, <3>5, <3>6
  <2>2. ASSUME NEW p \in 1..(Len(pattern) + 1) PROVE from[p] = From(pattern, name)[p]
    <3>1. Len(pattern) + 1 - p \in 0..Len(pattern) /\ Len(pattern) + 1 - (Len(pattern) + 1 - p) = p
      BY <1>1
    <3> QED
      BY <2>1, <3>1
  <2>3. from = [p \in 1..(Len(pattern) + 1) |-> from[p]]
    BY <1>3 DEF Computes
  <2>4. From(pattern, name) = [p \in 1..(Len(pattern) + 1) |-> From(pattern, name)[p]]
    BY DEF From
  <2> QED
    BY <2>2, <2>3, <2>4
<1> QED
  BY <1>2, <1>3

\* A pattern selects a path just if its segments stand for the names of it.
LEMMA MatchExpands ==
    ASSUME NEW pattern \in Seq(STRING), NEW name \in Seq(STRING), pattern # <<>>
    PROVE  Match(pattern, name) <=> Expands(pattern, name)
<1>1. Computes(pattern, name, From(pattern, name))
  BY MatchComputes
<1>2. Computes(pattern, name, CHOOSE from : Computes(pattern, name, from))
  BY <1>1
<1>3. PICK chosen : chosen = CHOOSE from : Computes(pattern, name, from)
  OBVIOUS
<1>4. chosen = From(pattern, name)
  BY <1>2, <1>3, MatchComputes
<1>5. Match(pattern, name) <=> 1 \in From(pattern, name)[1]
  BY <1>3, <1>4, MatchIs
<1>6. 1 \in 1..(Len(pattern) + 1) /\ 1 \in 1..(Len(name) + 1)
  BY LenProperties
<1>7. From(pattern, name)[1] = {n \in 1..(Len(name) + 1) : ExpandsFrom(pattern, name, 1, n)}
  BY <1>6 DEF From
<1> QED
  BY <1>5, <1>6, <1>7, ExpandsIsFromTheFirst

(***************************************************************************)
(* Files                                                                   *)
(***************************************************************************)

\* A path in .git, and a file that is itself called so.
LEMMA NamedGitIs ==
    ASSUME NEW path \in Seq(STRING) \ {<<>>}
    PROVE  NamedGit(path) <=> InGit(path) \/ path[Len(path)] = ".git"
<1>1. Len(path) \in Nat /\ 1 <= Len(path) /\ DOMAIN path = 1..Len(path)
  BY EmptySeq, LenProperties
<1>2. \A k \in 1..Len(path) : k = Len(path) \/ k \in 1..(Len(path) - 1)
  <2>1. PICK last \in Nat : last = Len(path)
    BY <1>1
  <2>2. \A k \in 1..last : k = last \/ k \in 1..(last - 1)
    BY <2>1
  <2> QED
    BY <2>1, <2>2
<1>3. Len(path) \in 1..Len(path) /\ 1..(Len(path) - 1) \subseteq 1..Len(path)
  BY <1>1
<1> QED
  BY <1>1, <1>2, <1>3 DEF NamedGit, InGit

\* The working tree and the main guest select the same of the ignored files, for any pattern.
LEMMA SameFiles ==
    ASSUME NEW tree \in Trees, NEW pattern
    PROVE  WorktreeInputs(tree, pattern) =
               {p \in GuestInputs(tree, pattern) : p[Len(p)] # ".git" /\ \E f \in IgnoredFiles(tree) : f.path = p}
<1>1. \A f, g \in tree : f.path \in Seq(STRING) \ {<<>>} /\ (f.path = g.path => f = g)
  BY DeclaredAssumption
<1>2. \A f \in tree : NamedGit(f.path) <=> InGit(f.path) \/ f.path[Len(f.path)] = ".git"
  BY <1>1, NamedGitIs
<1>3. \A f \in IgnoredFiles(tree) : f \in tree
  BY DEF IgnoredFiles
<1>4. ASSUME NEW p \in WorktreeInputs(tree, pattern)
      PROVE  p \in GuestInputs(tree, pattern) /\ p[Len(p)] # ".git" /\ \E f \in IgnoredFiles(tree) : f.path = p
  <2>1. PICK f \in IgnoredFiles(tree) : f.regular /\ ~NamedGit(f.path) /\ Match(pattern, f.path) /\ f.path = p
    BY <1>4 DEF WorktreeInputs
  <2> QED
    BY <1>2, <1>3, <2>1 DEF GuestInputs
<1>5. ASSUME NEW p \in GuestInputs(tree, pattern), p[Len(p)] # ".git", NEW f \in IgnoredFiles(tree), f.path = p
      PROVE  p \in WorktreeInputs(tree, pattern)
  <2>1. PICK g \in tree : g.regular /\ ~InGit(g.path) /\ Match(pattern, g.path) /\ g.path = p
    BY <1>5 DEF GuestInputs
  <2>2. f = g
    BY <1>1, <1>3, <1>5, <2>1
  <2> QED
    BY <1>2, <1>3, <1>5, <2>1, <2>2 DEF WorktreeInputs
<1> QED
  BY <1>4, <1>5

\* A pattern selects what its segments stand for, and the same of the ignored files in the
\* working tree and in the main guest, for patterns, paths and trees of any size
\* (internal/privileged/glob.go; internal/fakesandbox/job.go, matchFiles).
THEOREM SelectsAsPatternsSay == input \in Inputs => SelectsWhatPatternsSay
<1> SUFFICES ASSUME input \in Inputs PROVE SelectsWhatPatternsSay
  OBVIOUS
<1>1. ASSUME input.kind = "match", ValidatePattern(input.pattern)
      PROVE  Match(input.pattern, input.name) <=> Expands(input.pattern, input.name)
  <2>1. input.pattern \in Seq(STRING) /\ input.name \in Seq(STRING)
    BY <1>1, DeclaredAssumption DEF Inputs
  <2> QED
    BY <1>1, <2>1, MatchExpands DEF ValidatePattern
<1>2. ASSUME input.kind = "tree"
      PROVE  WorktreeInputs(input.tree, input.pattern) =
                 {p \in GuestInputs(input.tree, input.pattern) :
                      p[Len(p)] # ".git" /\ \E f \in IgnoredFiles(input.tree) : f.path = p}
  <2>1. input.tree \in Trees
    BY <1>2 DEF Inputs
  <2> QED
    BY <2>1, SameFiles
<1> QED
  BY <1>1, <1>2 DEF SelectsWhatPatternsSay
=============================================================================
