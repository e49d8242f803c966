----------------------------- MODULE RunFiles ------------------------------
(***************************************************************************)
(* The files of a workspace that its runs write one after the other: the     *)
(* store of the engine, the comments and the ids of the subagents, through   *)
(* Stop, Resume and the end of serve.                                      *)
(***************************************************************************)
EXTENDS FileStore, Notes

VARIABLES current,  \* the number of the last run
          up        \* it has its runCtl

runVars == <<current, up>>
notesVars == <<commentVars, taskVars>>
filesVars == <<storeVars, notesVars, runVars>>

FilesTypeOK == StoreTypeOK /\ NotesTypeOK /\ current \in Runs /\ up \in BOOLEAN

FilesInit == StoreInit /\ NotesInit /\ current = 1 /\ up = TRUE

\* Stop and Resume, or Resume after a crash.  The engine of the run has returned, or Stop
\* has gone on without it.
Resume(returned) ==
    LET g == current + 1 IN
    /\ g \in Runs
    /\ returned => importer.at = "idle" /\ \A u \in Users : op[u].run # current
    /\ OpenStore(g, IF returned THEN stores \ {current} ELSE stores)
    /\ NotesResume
    /\ current' = g /\ up' = TRUE

\* serve ends.
FilesCrash ==
    /\ up /\ up' = FALSE
    /\ CrashStore /\ NotesCrash
    /\ UNCHANGED current

FilesNext ==
    \/ StoreStep /\ UNCHANGED <<notesVars, runVars>>
    \/ PeopleStep /\ UNCHANGED <<storeVars, runVars>>
    \/ stores # {} /\ ImportStep /\ UNCHANGED <<storeVars, runVars>>
    \/ up /\ SessionStep /\ UNCHANGED <<storeVars, runVars>>
    \/ \E returned \in BOOLEAN : Resume(returned)
    \/ FilesCrash

FilesSpec == FilesInit /\ [][FilesNext]_filesVars

(***************************************************************************)
(* Properties                                                              *)
(***************************************************************************)

\* engine.json is the store the engine is promised, through failed writes, crashes and
\* Resumes, but where a run that Stop did not wait for writes over what the next one wrote.
PromisedUnlessTwo ==
    Promised!Init /\ [][Promised!Next \/ two']_<<file, op>>

\* A comment whose call succeeded is read back.  A line that was cut short takes no more
\* than the one comment with it that was appended next.
NoneMissing == Cardinality(written \ Readable) <= (IF torn THEN 1 ELSE 0)

\* A finding is on record once, however often its gate is opened and serve ends.
NoneTwice ==
    \A c \in Findings : Cardinality({i \in 1..Len(lines) : lines[i] = Line(c, TRUE)}) <= 1

\* comments.jsonl has what was written to it, and once: the two above.
CommentsKept == NoneMissing /\ NoneTwice

\* A task that continues another is sent to a subagent of this VM, and to the one that did
\* that other task, unless a next_task was lost and sent again.
ContinuesToItsSubagent ==
    \A t \in Tasks : ids[t] # 0 => ids[t] \in spawned /\ (again \/ ids[t] = t)
=============================================================================
