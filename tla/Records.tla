------------------------------ MODULE Records ------------------------------
(***************************************************************************)
(* What people are asked and what they say: the records of gates and       *)
(* questions (workspace/records.go) between the engine, which decides what  *)
(* it waits for, and the calls that write them - Decide, Answer, ask_human, *)
(* the end of a gate by triage, and the discarding at Resume.              *)
(*                                                                         *)
(* A step is one critical section of runCtl.mu (a call of the engine) or   *)
(* of recordsMu (one file read or written).  The engine is external: it is *)
(* modelled by what Decide and Answer may expect of it.                    *)
(***************************************************************************)
EXTENDS Integers, Sequences

CONSTANTS GateOccs,   \* occurrences of gates
          FixedOccs,  \* occurrences of question nodes with their questions in the workflow
          RoleOccs,   \* occurrences of question nodes whose agent asks
          Clients,    \* calls of Decide and Answer at a time
          Askers,     \* calls of ask_human at a time
          Hashes,     \* contents a gate may be opened for
          MaxOpen,    \* bound: openings of gates and questions
          MaxFaults   \* bound: cut calls, failed writes, Stops and restarts

AskOccs == FixedOccs \cup RoleOccs

ASSUME OccurrencesAssumption == GateOccs \cap AskOccs = {} /\ FixedOccs \cap RoleOccs = {}
ASSUME BoundsAssumption == MaxOpen \in Nat /\ MaxFaults \in Nat

VARIABLES
    wait,     \* the engine: what it waits for
    gates,    \* records/gates: the openings of each gate
    qs,       \* records/questions: the questions of each node
    client,   \* calls of Decide and Answer: where they stand and the record they read
    asker,    \* calls of ask_human
    ch,       \* ask_human: its wake channel
    running,  \* the run is there, not there, or registered by Resume, which closes questions
    listed,   \* discardAskedQuestions: the open questions it has read and not closed yet
    opened,   \* counts openings
    faults,
    truth,    \* history: what became of each opening, in the engine
    slip      \* history: see Slips

recordVars == <<gates, qs>>
resumeVars == <<running, listed>>
vars == <<wait, recordVars, client, asker, ch, resumeVars, opened, faults, truth, slip>>

Outcomes == {"approved", "rejected"}
Decisions == Outcomes \cup {"superseded", "none"}
Answers == {"yes", "no"}

GateRecord == [hash : Hashes, decision : Decisions]
QuestionRecord == [answer : Answers \cup {"none"}, discarded : BOOLEAN]

\* stale    a rejection read one opening of a gate and met the next in the engine
\* unsaved  the engine had taken a decision or an answer that was not written
\* again    ask_human was called again while its question was open, or given up
\* twice    two answers to one question of an agent
\* late     a call that Stop had cut added its question after Resume had listed them
Slips == {"stale", "unsaved", "again", "twice", "late"}

Work == [kind |-> "work", occ |-> "none", n |-> 0, hash |-> "none"]
Free == [at |-> "idle", occ |-> "none", seq |-> 0, says |-> "none", hash |-> "none"]
NotAsking == [at |-> "idle", occ |-> "none", seq |-> 0, got |-> "none"]

Occs == GateOccs \cup AskOccs \cup {"none"}
WaitRecord == [kind : {"work", "gate", "fixed", "ask"}, occ : Occs, n : Nat, hash : Hashes \cup {"none"}]
ClientRecord ==
    [at : {"idle", "decide", "saveGate", "answer", "saveAnswer", "notify"}, occ : Occs, seq : Nat,
     says : Outcomes \cup Answers \cup {"none"}, hash : Hashes \cup {"none"}]
AskerRecord ==
    [at : {"idle", "add", "late", "channel", "read", "select"}, occ : AskOccs \cup {"none"}, seq : Nat,
     got : Answers \cup {"none"}]

TypeOK ==
    /\ wait \in WaitRecord
    /\ gates \in [GateOccs -> Seq(GateRecord)]
    /\ qs \in [AskOccs -> Seq(QuestionRecord)]
    /\ client \in [Clients -> ClientRecord]
    /\ asker \in [Askers -> AskerRecord]
    /\ ch \in [Askers -> BOOLEAN]
    /\ running \in {"yes", "registered", "closing", "no"}
    /\ listed \subseteq AskOccs \X Nat
    /\ opened \in 0..MaxOpen /\ faults \in 0..MaxFaults
    /\ truth \in [GateOccs -> Seq(Decisions)]
    /\ slip \in SUBSET Slips

Init ==
    /\ wait = Work
    /\ gates = [o \in GateOccs |-> <<>>] /\ qs = [o \in AskOccs |-> <<>>]
    /\ client = [c \in Clients |-> Free]
    /\ asker = [a \in Askers |-> NotAsking] /\ ch = [a \in Askers |-> FALSE]
    /\ running = "yes" /\ listed = {} /\ opened = 0 /\ faults = 0
    /\ truth = [o \in GateOccs |-> <<>>]
    /\ slip = {}

(***************************************************************************)
(* The engine                                                              *)
(***************************************************************************)

Advances == running = "yes" /\ wait = Work /\ opened < MaxOpen /\ opened' = opened + 1

LatestGate(o) == Len(gates[o])

\* The number of an opening is one more than that of the last.
AddGate(o, gate) == gates' = [gates EXCEPT ![o] = Append(@, gate)]

OpenGate(o, h) ==
    /\ Advances
    /\ AddGate(o, [hash |-> h, decision |-> "none"])
    /\ truth' = [truth EXCEPT ![o] = Append(@, "none")]
    /\ wait' = [kind |-> "gate", occ |-> o, n |-> Len(gates[o]) + 1, hash |-> h]
    /\ UNCHANGED <<qs, client, asker, ch, resumeVars, faults, slip>>

Asked == [answer |-> "none", discarded |-> FALSE]

AddQuestion(o) == qs' = [qs EXCEPT ![o] = Append(@, Asked)]

\* A question node with its questions in the workflow opens once.
OpenQuestion(o) ==
    /\ Advances /\ qs[o] = <<>>
    /\ AddQuestion(o)
    /\ wait' = [Work EXCEPT !.kind = "fixed", !.occ = o, !.n = Len(qs[o]) + 1]
    /\ UNCHANGED <<gates, client, asker, ch, resumeVars, faults, truth, slip>>

\* A question node of an agent, which asks when and as often as it likes.
HandQuestion(o) ==
    /\ Advances
    /\ wait' = [Work EXCEPT !.kind = "ask", !.occ = o]
    /\ UNCHANGED <<recordVars, client, asker, ch, resumeVars, faults, truth, slip>>

\* The agent reports its result, whether or not its ask_human has returned.
AgentReports ==
    /\ running = "yes" /\ wait.kind = "ask"
    /\ wait' = Work
    /\ UNCHANGED <<recordVars, client, asker, ch, resumeVars, opened, faults, truth, slip>>

\* Mutant: the log of the triage closes no record.
SupersedeSilently ==
    /\ running = "yes" /\ wait.kind = "gate"
    /\ truth' = [truth EXCEPT ![wait.occ][wait.n] = "superseded"]
    /\ wait' = Work
    /\ UNCHANGED <<recordVars, client, asker, ch, resumeVars, opened, faults, slip>>

\* The record of the last opening is closed, if nobody has decided it.
SupersedeGate(o) ==
    gates' = IF gates[o][LatestGate(o)].decision = "none"
             THEN [gates EXCEPT ![o][LatestGate(o)].decision = "superseded"] ELSE gates

\* A triage ends a gate that nobody has decided.  The engine says so in its log
\* only, and Log closes the record of the last opening.
Supersede ==
    /\ running = "yes" /\ wait.kind = "gate"
    /\ SupersedeGate(wait.occ)
    /\ truth' = [truth EXCEPT ![wait.occ][wait.n] = "superseded"]
    /\ wait' = Work
    /\ UNCHANGED <<qs, client, asker, ch, resumeVars, opened, faults, slip>>

(***************************************************************************)
(* Decide                                                                  *)
(***************************************************************************)

To(c, at) == client' = [client EXCEPT ![c].at = at]
Ends(c) == client' = [client EXCEPT ![c] = Free]

\* The checks: an undecided opening, and for an approval the hash of
\* what was seen.
DecideRead(c, o, outcome, hash) ==
    /\ client[c] = Free /\ running # "no"
    /\ gates[o] # <<>>
    /\ LET g == gates[o][LatestGate(o)] IN
         /\ g.decision = "none"
         /\ hash = IF outcome = "approved" THEN g.hash ELSE "none"
    /\ client' = [client EXCEPT ![c] = [at |-> "decide", occ |-> o, seq |-> LatestGate(o), says |-> outcome, hash |-> hash]]
    /\ UNCHANGED <<wait, recordVars, asker, ch, resumeVars, opened, faults, truth, slip>>

\* Mutant: the engine does not compare the hash of an approval.
DecideEngineBlind(c) ==
    /\ client[c].at = "decide"
    /\ IF running # "no" /\ wait.kind = "gate" /\ wait.occ = client[c].occ
       THEN /\ To(c, "saveGate")
            /\ wait' = Work
            /\ truth' = [truth EXCEPT ![wait.occ][wait.n] = client[c].says]
            /\ slip' = IF wait.n # client[c].seq THEN slip \cup {"stale"} ELSE slip
       ELSE Ends(c) /\ UNCHANGED <<wait, truth, slip>>
    /\ UNCHANGED <<recordVars, asker, ch, resumeVars, opened, faults>>

\* engine.Decide, with the occurrence, the outcome and the hash, but not the opening.
DecideEngine(c) ==
    /\ client[c].at = "decide"
    /\ IF /\ running # "no" /\ wait.kind = "gate" /\ wait.occ = client[c].occ
          /\ client[c].says = "approved" => client[c].hash = wait.hash
       THEN /\ To(c, "saveGate")
            /\ wait' = Work
            /\ truth' = [truth EXCEPT ![wait.occ][wait.n] = client[c].says]
            /\ slip' = IF wait.n # client[c].seq THEN slip \cup {"stale"} ELSE slip
       ELSE Ends(c) /\ UNCHANGED <<wait, truth, slip>>
    /\ UNCHANGED <<recordVars, asker, ch, resumeVars, opened, faults>>

\* SaveGate writes the record that was read, with the decision.
DecideSave(c) ==
    /\ client[c].at = "saveGate"
    /\ gates' = [gates EXCEPT ![client[c].occ][client[c].seq].decision = client[c].says]
    /\ Ends(c)
    /\ UNCHANGED <<wait, qs, asker, ch, resumeVars, opened, faults, truth, slip>>

(***************************************************************************)
(* ask_human and Answer                                                    *)
(***************************************************************************)

Open(q) == q.answer = "none" /\ ~q.discarded
OpenSeqs(o) == {n \in DOMAIN qs[o] : Open(qs[o][n])}

AskTo(a, at) == asker' = [asker EXCEPT ![a].at = at]

\* The engine must wait for this agent, at a question node.
AskBegin(a, o) ==
    /\ asker[a].at = "idle" /\ running = "yes"
    /\ wait.kind = "ask" /\ wait.occ = o
    /\ opened < MaxOpen /\ opened' = opened + 1
    /\ asker' = [asker EXCEPT ![a] = [NotAsking EXCEPT !.at = "add", !.occ = o]]
    /\ UNCHANGED <<wait, recordVars, client, ch, resumeVars, faults, truth, slip>>

AskAdd(a) ==
    /\ asker[a].at = "add"
    /\ LET o == asker[a].occ IN
         /\ AddQuestion(o)
         /\ slip' = IF OpenSeqs(o) # {} THEN slip \cup {"again"} ELSE slip
         /\ asker' = [asker EXCEPT ![a].at = "channel", ![a].seq = Len(qs[o]) + 1]
    /\ UNCHANGED <<wait, gates, client, ch, resumeVars, opened, faults, truth>>

\* So does a call that Stop has cut meanwhile; it then finds that the workspace stops.
AskLate(a) ==
    /\ asker[a].at = "late"
    /\ AddQuestion(asker[a].occ)
    /\ slip' = IF running \in {"yes", "closing"} THEN slip \cup {"late"} ELSE slip
    /\ asker' = [asker EXCEPT ![a] = NotAsking]
    /\ UNCHANGED <<wait, gates, client, ch, resumeVars, opened, faults, truth>>

\* waitCh, and only then the records.
AskChannel(a) ==
    /\ asker[a].at = "channel"
    /\ ch' = [ch EXCEPT ![a] = FALSE]
    /\ AskTo(a, "read")
    /\ UNCHANGED <<wait, recordVars, client, resumeVars, opened, faults, truth, slip>>

\* Mutant: any answered question of the occurrence is taken for one's own.
AskReadOccurrence(a) ==
    /\ asker[a].at = "read"
    /\ LET answered == {q \in {qs[asker[a].occ][n] : n \in DOMAIN qs[asker[a].occ]} : q.answer # "none"} IN
         \/ /\ \E q \in answered : asker' = [asker EXCEPT ![a].at = "idle", ![a].got = q.answer]
            /\ ch' = [ch EXCEPT ![a] = FALSE]
         \/ answered = {} /\ AskTo(a, "select") /\ UNCHANGED ch
    /\ UNCHANGED <<wait, recordVars, client, resumeVars, opened, faults, truth, slip>>

AskRead(a) ==
    /\ asker[a].at = "read"
    /\ LET q == qs[asker[a].occ][asker[a].seq] IN
         IF q.answer # "none"
         THEN asker' = [asker EXCEPT ![a].at = "idle", ![a].got = q.answer] /\ ch' = [ch EXCEPT ![a] = FALSE]
         ELSE AskTo(a, "select") /\ UNCHANGED ch
    /\ UNCHANGED <<wait, recordVars, client, resumeVars, opened, faults, truth, slip>>

AskWoken(a) ==
    /\ asker[a].at = "select" /\ ch[a]
    /\ AskTo(a, "channel")
    /\ UNCHANGED <<wait, recordVars, client, ch, resumeVars, opened, faults, truth, slip>>

\* The call is cut, or blocks for longer than it may.  Its question stays.
AskGivesUp(a) ==
    /\ asker[a].at = "select" /\ faults < MaxFaults
    /\ faults' = faults + 1
    /\ slip' = slip \cup {"again"}
    /\ asker' = [asker EXCEPT ![a] = NotAsking] /\ ch' = [ch EXCEPT ![a] = FALSE]
    /\ UNCHANGED <<wait, recordVars, client, resumeVars, opened, truth>>

\* Answer reads the last open question of the node.
AnswerRead(c, o, answer) ==
    /\ client[c] = Free /\ running # "no"
    /\ OpenSeqs(o) # {}
    /\ \E n \in OpenSeqs(o) :
         /\ \A m \in OpenSeqs(o) : m <= n
         /\ client' = [client EXCEPT ![c] = [Free EXCEPT !.at = "answer", !.occ = o, !.seq = n, !.says = answer]]
    /\ UNCHANGED <<wait, recordVars, asker, ch, resumeVars, opened, faults, truth, slip>>

\* engine.Answer: a fixed question takes one answer and goes on; for the question of
\* an agent the engine goes on waiting for the agent.
AnswerEngine(c) ==
    /\ client[c].at = "answer"
    /\ IF running # "no" /\ wait.kind \in {"fixed", "ask"} /\ wait.occ = client[c].occ
       THEN /\ To(c, "saveAnswer")
            /\ wait' = IF wait.kind = "fixed" THEN Work ELSE wait
            /\ slip' = IF \/ \E d \in Clients \ {c} : client[d].at = "saveAnswer" /\ client[d].seq = client[c].seq
                          \/ ~Open(qs[client[c].occ][client[c].seq])
                       THEN slip \cup {"twice"} ELSE slip
       ELSE Ends(c) /\ UNCHANGED <<wait, slip>>
    /\ UNCHANGED <<recordVars, asker, ch, resumeVars, opened, faults, truth>>

\* Mutant: the answer is written and nobody is woken.
AnswerSaveQuiet(c) ==
    /\ client[c].at = "saveAnswer"
    /\ qs' = [qs EXCEPT ![client[c].occ][client[c].seq].answer = client[c].says]
    /\ Ends(c)
    /\ UNCHANGED <<wait, gates, asker, ch, resumeVars, opened, faults, truth, slip>>

\* SaveQuestion writes the record that was read, with the answers.
AnswerSave(c) ==
    /\ client[c].at = "saveAnswer"
    /\ qs' = [qs EXCEPT ![client[c].occ][client[c].seq] = [answer |-> client[c].says, discarded |-> FALSE]]
    /\ client' = [client EXCEPT ![c] = [Free EXCEPT !.at = "notify"]]
    /\ UNCHANGED <<wait, gates, asker, ch, resumeVars, opened, faults, truth, slip>>

AnswerNotify(c) ==
    /\ client[c].at = "notify"
    /\ ch' = [a \in Askers |-> ch[a] \/ asker[a].at \in {"read", "select"}]
    /\ Ends(c)
    /\ UNCHANGED <<wait, recordVars, asker, resumeVars, opened, faults, truth, slip>>

(***************************************************************************)
(* Faults, Stop and Resume                                                 *)
(***************************************************************************)

\* A record cannot be written: the call fails although the engine has gone on.
SaveFails(c) ==
    /\ client[c].at \in {"saveGate", "saveAnswer"} /\ faults < MaxFaults
    /\ faults' = faults + 1
    /\ slip' = slip \cup {"unsaved"}
    /\ Ends(c)
    /\ UNCHANGED <<wait, recordVars, asker, ch, resumeVars, opened, truth>>

\* Stop: the run is not registered any more.  A call that waits returns an error, with
\* nobody there to read it; one that has not added its question yet goes on to do so.
Stop ==
    /\ running = "yes" /\ faults < MaxFaults
    /\ faults' = faults + 1
    /\ running' = "no"
    /\ asker' = [a \in Askers |-> IF asker[a].at \in {"add", "late"} THEN [asker[a] EXCEPT !.at = "late"]
                                  ELSE NotAsking]
    /\ ch' = [a \in Askers |-> FALSE]
    /\ UNCHANGED <<wait, recordVars, client, listed, opened, truth, slip>>

\* serve ends: no call survives it, and the next one finds the workspace without a run.
Crash ==
    /\ faults < MaxFaults
    /\ faults' = faults + 1
    /\ running' = "no" /\ listed' = {}
    /\ asker' = [a \in Askers |-> NotAsking] /\ ch' = [a \in Askers |-> FALSE]
    /\ client' = [c \in Clients |-> Free]
    /\ slip' = IF \E c \in Clients : client[c].at \in {"saveGate", "saveAnswer"}
               THEN slip \cup {"unsaved"} ELSE slip
    /\ UNCHANGED <<wait, recordVars, opened, truth>>

\* Resume registers the run, lists the open questions of agents and closes them, one by
\* one; a fixed question the engine waits for stays.
ResumeRegister ==
    /\ running = "no"
    /\ running' = "registered"
    /\ UNCHANGED <<wait, recordVars, client, asker, ch, listed, opened, faults, truth, slip>>

Discardable(o) == IF wait.kind = "fixed" /\ wait.occ = o THEN {} ELSE OpenSeqs(o)

ResumeLists ==
    /\ running = "registered"
    /\ running' = "closing"
    /\ listed' = UNION {{o} \X Discardable(o) : o \in AskOccs}
    /\ slip' = slip \ {"again", "late"}
    /\ UNCHANGED <<wait, recordVars, client, asker, ch, opened, faults, truth>>

\* SaveQuestion writes the record that was listed: an answer that came since is gone.
ResumeDiscard(o, n) ==
    /\ <<o, n>> \in listed
    /\ listed' = listed \ {<<o, n>>}
    /\ qs' = [qs EXCEPT ![o][n] = [answer |-> "none", discarded |-> TRUE]]
    /\ UNCHANGED <<wait, gates, client, asker, ch, running, opened, faults, truth, slip>>

\* Mutant: the run goes on before the questions of its former agents are closed.
ResumeRunsAtOnce ==
    /\ running = "closing"
    /\ running' = "yes" /\ listed' = {}
    /\ UNCHANGED <<wait, recordVars, client, asker, ch, opened, faults, truth, slip>>

ResumeRuns ==
    /\ running = "closing" /\ listed = {}
    /\ running' = "yes" /\ listed' = listed
    /\ UNCHANGED <<wait, recordVars, client, asker, ch, opened, faults, truth, slip>>

\* A step of Resume fails: the run is taken back.
ResumeFails ==
    /\ running \in {"registered", "closing"}
    /\ running' = "no" /\ listed' = {}
    /\ UNCHANGED <<wait, recordVars, client, asker, ch, opened, faults, truth, slip>>

(***************************************************************************)
(* Specification                                                           *)
(***************************************************************************)

AskStep(a) == AskAdd(a) \/ AskLate(a) \/ AskChannel(a) \/ AskRead(a) \/ AskWoken(a)
ClientStep(c) == DecideEngine(c) \/ DecideSave(c) \/ AnswerEngine(c) \/ AnswerSave(c) \/ AnswerNotify(c)

Next ==
    \/ \E o \in GateOccs, h \in Hashes : OpenGate(o, h)
    \/ \E o \in FixedOccs : OpenQuestion(o)
    \/ \E o \in RoleOccs : HandQuestion(o)
    \/ AgentReports \/ Supersede
    \/ \E c \in Clients :
         \/ \E o \in GateOccs, d \in Outcomes, h \in Hashes \cup {"none"} : DecideRead(c, o, d, h)
         \/ \E o \in AskOccs, s \in Answers : AnswerRead(c, o, s)
         \/ ClientStep(c) \/ SaveFails(c)
    \/ \E a \in Askers :
         \/ \E o \in RoleOccs : AskBegin(a, o)
         \/ AskStep(a) \/ AskGivesUp(a)
    \/ Stop \/ Crash \/ ResumeRegister \/ ResumeLists \/ ResumeRuns \/ ResumeFails
    \/ \E q \in listed : ResumeDiscard(q[1], q[2])

\* A call that runs goes on; nobody has to decide, to answer or to resume.
Fairness ==
    /\ \A a \in Askers : WF_vars(AskStep(a))
    /\ \A c \in Clients : WF_vars(ClientStep(c))

Spec == Init /\ [][Next]_vars /\ Fairness

(***************************************************************************)
(* Properties                                                              *)
(***************************************************************************)

Saving(at, o, n) == \E c \in Clients : client[c].at = at /\ client[c].occ = o /\ client[c].seq = n

\* The record of every opening of a gate says what became of it in the engine, once no
\* call of Decide is between the two - unless a rejection was stale or a write failed.
GateRecordsTrue ==
    slip \cap {"stale", "unsaved"} = {} =>
        \A o \in GateOccs : \A n \in DOMAIN gates[o] :
            Saving("saveGate", o, n) \/ gates[o][n].decision = truth[o][n]

\* The engine takes an approval only of the contents that the approver was shown, even
\* when the gate was opened again, for other contents, in the middle of Decide.
ApprovalIsOfWhatWasSeen ==
    [][\A o \in GateOccs : \A n \in DOMAIN gates[o] :
         truth[o][n] = "none" /\ truth'[o][n] = "approved" =>
             \E c \in Clients : /\ client[c].at = "decide" /\ client[c].occ = o
                                /\ client[c].hash = gates[o][n].hash]_vars

\* Every question that is listed as open while the run runs has somebody waiting for
\* its answer: the engine or a call of ask_human - unless a slip left it behind.
ListedQuestionIsAwaited ==
    running = "yes" /\ slip \cap {"again", "unsaved", "late"} = {} =>
        \A o \in AskOccs : \A n \in OpenSeqs(o) :
            \/ wait.kind = "fixed" /\ wait.occ = o /\ wait.n = n
            \/ \E a \in Askers : asker[a].at # "idle" /\ asker[a].occ = o /\ asker[a].seq = n
            \/ Saving("saveAnswer", o, n)

\* What ask_human returned to the agent is what the record says the answer was.
AgentGotTheAnswer ==
    "twice" \in slip
    \/ \A a \in Askers : asker[a].at = "idle" /\ asker[a].got # "none" =>
           qs[asker[a].occ][asker[a].seq].answer = asker[a].got

\* A call of ask_human whose question is answered returns: the wake is not lost between
\* the reading of the records and the waiting.
AnsweredReturns ==
    \A a \in Askers :
        (asker[a].at = "select" /\ qs[asker[a].occ][asker[a].seq].answer # "none")
            ~> asker[a].at = "idle"

\* The questions: one that is listed is waited for, and its record is what the agent was
\* told (serve/questions.go, internal/workspace/records.go): the two above.
QuestionsAreTrue == ListedQuestionIsAwaited /\ AgentGotTheAnswer
=============================================================================
