------------------------------- MODULE Notes -------------------------------
(***************************************************************************)
(* Two files that runs and people write beside the engine's: the comments   *)
(* on commits, records/comments.jsonl, to which lines are appended           *)
(* (internal/workspace/comments.go), and the ids of the subagents that did   *)
(* the tasks, records/subagents.json (internal/workspace/records.go).        *)
(*                                                                         *)
(* Opening the diff gate of a commit imports the findings of its review as   *)
(* comments (runner.go), each once.  The main session of the guest reports   *)
(* the subagent of the task it was handed last with its next next_task.     *)
(***************************************************************************)
EXTENDS Naturals, FiniteSets, Sequences

CONSTANTS Findings,   \* the findings on the commit at the gate
          Remarks,    \* what people write on it
          Tasks       \* the agent tasks, 1 to the last

ASSUME NotesAssumption == Findings \cap Remarks = {} /\ Tasks \subseteq Nat \ {0} /\ 1 \in Tasks

VARIABLES
    lines,     \* comments.jsonl: what each line holds, and whether it has its end
    importer,  \* importFindings: what it has still to write
    written,   \* history: the comments whose call succeeded
    torn,      \* history: a line was cut short
    task,      \* the task that the engine is at
    handed,    \* runCtl.lastTask: the task handed out last in this run, or 0
    session,   \* the main session: the task it works on, and whether its subagent is done
    spawned,   \* history: the tasks with a subagent in this VM
    ids,       \* subagents.json: the task whose subagent is on record for each task, or 0
    again      \* history: a next_task that was lost is sent again

commentVars == <<lines, importer, written, torn>>
taskVars == <<task, handed, session, spawned, ids, again>>

Comments == Findings \cup Remarks
Idle == [at |-> "idle", left |-> {}]

Lines == [ids : Seq(Comments), whole : BOOLEAN]
Importers == [at : {"idle", "writing"}, left : SUBSET Findings]
Sessions == [on : Tasks \cup {0}, done : BOOLEAN]

NotesTypeOK ==
    /\ lines \in Seq(Lines)
    /\ importer \in Importers
    /\ written \subseteq Comments
    /\ torn \in BOOLEAN
    /\ task \in Tasks
    /\ handed \in Tasks \cup {0}
    /\ session \in Sessions
    /\ spawned \subseteq Tasks
    /\ ids \in [Tasks -> Tasks \cup {0}]
    /\ again \in BOOLEAN

NotesInit ==
    /\ lines = <<>> /\ importer = Idle /\ written = {} /\ torn = FALSE
    /\ task = 1 /\ handed = 0 /\ session = [on |-> 0, done |-> FALSE]
    /\ spawned = {} /\ ids = [t \in Tasks |-> 0] /\ again = FALSE

(***************************************************************************)
(* Comments                                                                *)
(***************************************************************************)

\* A line that was cut short has no end, so that the next one becomes a part of it; what
\* cannot be parsed is passed over.
Unended == lines # <<>> /\ ~lines[Len(lines)].whole
Line(c, whole) == [ids |-> <<c>>, whole |-> whole]
\* Mutant: the file is opened without O_APPEND.
AppendedOver(c, whole) == <<Line(c, whole)>>

Appended(c, whole) ==
    IF Unended THEN [lines EXCEPT ![Len(lines)] = [ids |-> Append(@.ids, c), whole |-> whole]]
    ELSE Append(lines, Line(c, whole))

Readable == {c \in Comments : \E i \in 1..Len(lines) : lines[i] = Line(c, TRUE)}

\* The disk is full, or serve ends: a part of the line is there.
Tear(c) == lines' = Appended(c, FALSE) /\ torn' = TRUE

AddComment(c) ==
    /\ c \in Remarks \ written
    /\ lines' = Appended(c, TRUE)
    /\ written' = written \cup {c}
    /\ UNCHANGED <<importer, torn, taskVars>>

AddFails(c) ==
    /\ c \in Remarks \ written /\ ~torn
    /\ Tear(c)
    /\ UNCHANGED <<importer, written, taskVars>>

\* The gate of the commit is opened, or opened again: the findings that are not there.
Import ==
    /\ importer.at = "idle"
    /\ importer' = [at |-> "writing", left |-> Findings \ Readable]
    /\ UNCHANGED <<lines, written, torn, taskVars>>

ImportOne ==
    /\ \E c \in importer.left :
         /\ lines' = Appended(c, TRUE)
         /\ written' = written \cup {c}
         /\ importer' = [importer EXCEPT !.left = @ \ {c}]
    /\ UNCHANGED <<torn, taskVars>>

\* The gate is not opened; the engine tries again later.
ImportFails ==
    /\ ~torn
    /\ \E c \in importer.left : Tear(c)
    /\ importer' = Idle
    /\ UNCHANGED <<written, taskVars>>

Imported ==
    /\ importer.at = "writing" /\ importer.left = {}
    /\ importer' = Idle
    /\ UNCHANGED <<lines, written, torn, taskVars>>

(***************************************************************************)
(* Subagents                                                               *)
(***************************************************************************)

\* The report of the task in hand is recorded, and the engine goes on.
Report ==
    /\ session.on = task /\ ~session.done
    /\ task + 1 \in Tasks
    /\ task' = task + 1
    /\ session' = [session EXCEPT !.done = TRUE]
    /\ UNCHANGED <<commentVars, handed, spawned, ids, again>>

\* recordSubagent: the id goes to the task that this run handed out last.
Recorded == IF handed # 0 /\ session.on # 0 THEN [ids EXCEPT ![handed] = session.on] ELSE ids

\* next_task, with the id of the subagent of the task before, hands out the task.
Takes(answered) ==
    /\ session.on = 0 \/ session.done
    /\ ids' = Recorded
    /\ handed' = task
    /\ IF answered
       THEN session' = [on |-> task, done |-> FALSE] /\ spawned' = spawned \cup {task}
       ELSE UNCHANGED <<session, spawned>>
    /\ again' = (again \/ (handed # 0 /\ session.on # 0 /\ handed # session.on))

NextTask ==
    /\ Takes(TRUE)
    /\ UNCHANGED <<commentVars, task>>

\* The response is lost; the session will ask again, with the same id.
NextTaskLost ==
    /\ ~again /\ session.on # 0
    /\ Takes(FALSE)
    /\ UNCHANGED <<commentVars, task>>

(***************************************************************************)
(* The next run                                                            *)
(***************************************************************************)

\* Mutant: the ids of the VM before are kept.
ClearNothing == UNCHANGED ids

\* ClearSubagentIDs.
ClearSubagentIDs == ids' = [t \in Tasks |-> 0]

\* Resume makes the VM anew: nobody there knows a subagent of the VM before.
NotesResume ==
    /\ ClearSubagentIDs
    /\ handed' = 0 /\ session' = [on |-> 0, done |-> FALSE] /\ spawned' = {}
    /\ UNCHANGED <<commentVars, task, again>>

\* serve ends in the middle of an append, or of an import, or at any other time.
NotesCrash ==
    /\ importer' = Idle
    /\ \/ UNCHANGED <<lines, torn>>
       \/ ~torn /\ \E c \in importer.left : Tear(c)
    /\ UNCHANGED <<written, taskVars>>

PeopleStep == \E c \in Remarks : AddComment(c) \/ AddFails(c)
ImportStep == Import \/ ImportOne \/ ImportFails \/ Imported
SessionStep == Report \/ NextTask \/ NextTaskLost
=============================================================================
