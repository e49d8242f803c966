---------------------------- MODULE RecordsProofs ----------------------------
(***************************************************************************)
(* What the files of a workspace hold: the records of gates and questions  *)
(* are true, for any number of gates, questions, openings, calls and        *)
(* faults (Records); engine.json implements the store that the engine is    *)
(* promised, comments are kept, and a task continues to its own subagent,   *)
(* for any number of keys, users, comments, tasks and runs (RunFiles).      *)
(***************************************************************************)
EXTENDS Records, RunFiles, SequenceTheorems, FiniteSetTheorems, TLAPS

(***************************************************************************)
(* The inductive invariant                                                 *)
(***************************************************************************)

\* The engine waits at the last opening of a gate, which has no outcome yet, or for the
\* only question of a node that has its questions in the workflow.
WaitInv ==
    /\ wait.kind = "gate" =>
         /\ wait.occ \in GateOccs /\ wait.n \in 1..Len(gates[wait.occ]) /\ wait.n = Len(gates[wait.occ])
         /\ wait.hash = gates[wait.occ][wait.n].hash
         /\ truth[wait.occ][wait.n] = "none"
    /\ wait.kind = "fixed" => wait.occ \in FixedOccs /\ wait.n = 1
    /\ wait.kind = "ask" => wait.occ \in RoleOccs
    /\ \A o \in FixedOccs : Len(qs[o]) <= 1

TruthInv == \A o \in GateOccs : Len(truth[o]) = Len(gates[o])

\* A call of Decide or Answer has read a record that is there, and is about to write what
\* the engine took.
ClientOf(c) ==
    /\ client[c].at \in {"decide", "saveGate"} =>
         /\ client[c].occ \in GateOccs /\ client[c].seq \in 1..Len(gates[client[c].occ])
         /\ client[c].says \in Outcomes
    /\ client[c].at \in {"answer", "saveAnswer"} =>
         /\ client[c].occ \in AskOccs /\ client[c].seq \in 1..Len(qs[client[c].occ])
         /\ client[c].says \in Answers
    /\ client[c].at = "saveGate" /\ "stale" \notin slip =>
         truth[client[c].occ][client[c].seq] = client[c].says
ClientInv == \A c \in Clients : ClientOf(c)

\* A call of ask_human has its question from AskAdd on, and after it has returned.
Has(a) == asker[a].at \in {"channel", "read", "select"} \/ (asker[a].at = "idle" /\ asker[a].got # "none")
AskerOf(a) ==
    /\ asker[a].at # "idle" => asker[a].occ \in RoleOccs
    /\ asker[a].at \in {"add", "late"} => asker[a].seq = 0 /\ asker[a].got = "none"
    /\ Has(a) => asker[a].occ \in AskOccs /\ asker[a].seq \in 1..Len(qs[asker[a].occ])
AskerInv == \A a \in Askers : AskerOf(a)

\* One call at a time is about to write the answer to a question, which has none yet.
SaveOf(c) ==
    client[c].at = "saveAnswer" =>
        /\ qs[client[c].occ][client[c].seq].answer = "none"
        /\ \A d \in Clients \ {c} : 
             ~(client[d].at = "saveAnswer" /\ client[d].occ = client[c].occ /\ client[d].seq = client[c].seq)
SaveInv == "twice" \in slip \/ \A c \in Clients : SaveOf(c)

\* Without a run that goes on nobody asks, but for calls that Stop has cut; Resume has listed
\* questions that are there.
ResumeInv ==
    /\ running # "yes" => \A a \in Askers : asker[a].at \in {"idle", "late"} /\ asker[a].got = "none"
    /\ running # "closing" => listed = {}
    /\ \A o \in AskOccs, n \in Nat : <<o, n>> \in listed => n \in 1..Len(qs[o])

\* While Resume closes questions, one that is open is also on its list.
Awaited(o, n) ==
    \/ wait.kind = "fixed" /\ wait.occ = o /\ wait.n = n
    \/ \E a \in Askers : asker[a].at # "idle" /\ asker[a].occ = o /\ asker[a].seq = n
    \/ Saving("saveAnswer", o, n)
    \/ <<o, n>> \in listed
AwaitedInv ==
    running \in {"yes", "closing"} /\ slip \cap {"again", "unsaved", "late"} = {} =>
        \A o \in AskOccs : \A n \in OpenSeqs(o) : Awaited(o, n)

RecordsInv ==
    /\ TypeOK /\ WaitInv /\ TruthInv /\ ClientInv /\ AskerInv /\ SaveInv /\ ResumeInv
    /\ GateRecordsTrue /\ AwaitedInv /\ AgentGotTheAnswer

(***************************************************************************)
(* What a step does to a record                                            *)
(***************************************************************************)

Others(c) == \A d \in Clients \ {c} : client'[d] = client[d]
OtherAskers(a) == \A b \in Askers \ {a} : asker'[b] = asker[b]

LEMMA ClientGoes ==
    ASSUME TypeOK, NEW c \in Clients,
           NEW at \in {"idle", "decide", "saveGate", "answer", "saveAnswer", "notify"}, To(c, at)
    PROVE  /\ client' \in [Clients -> ClientRecord] /\ Others(c)
           /\ client'[c].at = at /\ client'[c].occ = client[c].occ /\ client'[c].seq = client[c].seq
           /\ client'[c].says = client[c].says /\ client'[c].hash = client[c].hash
<1>1. client \in [Clients -> ClientRecord]
  BY DEF TypeOK
<1>2. PICK r : r = [client[c] EXCEPT !.at = at]
  OBVIOUS
<1>3. /\ r \in ClientRecord /\ r.at = at /\ r.occ = client[c].occ /\ r.seq = client[c].seq
      /\ r.says = client[c].says /\ r.hash = client[c].hash
  BY <1>1, <1>2 DEF ClientRecord
<1>4. client' = [client EXCEPT ![c] = r]
  BY <1>2 DEF To
<1> QED
  BY <1>1, <1>3, <1>4 DEF Others

LEMMA FreeRecord == Free \in ClientRecord /\ Free.at = "idle"
  BY DEF Free, ClientRecord, Occs

LEMMA ClientEnds ==
    ASSUME TypeOK, NEW c \in Clients, Ends(c)
    PROVE  client' \in [Clients -> ClientRecord] /\ Others(c) /\ client'[c].at = "idle"
<1>1. client \in [Clients -> ClientRecord]
  BY DEF TypeOK
<1> QED
  BY <1>1, FreeRecord DEF Ends, Others

\* Decide and Answer begin with the record that they have read.
LEMMA DecideReads ==
    ASSUME TypeOK, NEW c \in Clients, NEW o \in GateOccs, NEW d \in Outcomes,
           NEW h \in Hashes \cup {"none"}, DecideRead(c, o, d, h)
    PROVE  /\ client' \in [Clients -> ClientRecord] /\ Others(c) /\ client[c].at = "idle"
           /\ client'[c].at = "decide" /\ client'[c].occ = o /\ client'[c].seq = Len(gates[o])
           /\ client'[c].says = d /\ Len(gates[o]) \in 1..Len(gates[o])
<1>1. client \in [Clients -> ClientRecord] /\ gates[o] \in Seq(GateRecord) /\ Len(gates[o]) \in Nat
  BY DEF TypeOK
<1>2. PICK r : r = [at |-> "decide", occ |-> o, seq |-> Len(gates[o]), says |-> d, hash |-> h]
  OBVIOUS
<1>3. r \in ClientRecord /\ r.at = "decide" /\ r.occ = o /\ r.seq = Len(gates[o]) /\ r.says = d
  BY <1>1, <1>2 DEF ClientRecord, Occs
<1>4. client' = [client EXCEPT ![c] = r] /\ client[c].at = "idle"
  BY <1>2, FreeRecord DEF DecideRead, LatestGate
<1>5. Len(gates[o]) \in 1..Len(gates[o])
  BY <1>1 DEF DecideRead, LatestGate
<1> QED
  BY <1>1, <1>3, <1>4, <1>5 DEF Others

LEMMA AnswerReads ==
    ASSUME TypeOK, NEW c \in Clients, NEW o \in AskOccs, NEW s \in Answers, AnswerRead(c, o, s)
    PROVE  /\ client' \in [Clients -> ClientRecord] /\ Others(c) /\ client[c].at = "idle"
           /\ client'[c].at = "answer" /\ client'[c].occ = o /\ client'[c].seq \in 1..Len(qs[o])
           /\ client'[c].says = s
<1>1. client \in [Clients -> ClientRecord] /\ qs[o] \in Seq(QuestionRecord) /\ Len(qs[o]) \in Nat
  BY DEF TypeOK
<1>2. PICK n \in 1..Len(qs[o]) :
        client' = [client EXCEPT ![c] = [Free EXCEPT !.at = "answer", !.occ = o, !.seq = n, !.says = s]]
  <2>1. DOMAIN qs[o] = 1..Len(qs[o])
    BY <1>1
  <2>2. \E n \in OpenSeqs(o) :
          client' = [client EXCEPT ![c] = [Free EXCEPT !.at = "answer", !.occ = o, !.seq = n, !.says = s]]
    BY Zenon DEF AnswerRead
  <2>3. OpenSeqs(o) \subseteq 1..Len(qs[o])
    BY <2>1 DEF OpenSeqs
  <2> QED
    BY <2>2, <2>3, Zenon
<1>3. PICK r : r = [Free EXCEPT !.at = "answer", !.occ = o, !.seq = n, !.says = s]
  OBVIOUS
<1>4. r \in ClientRecord /\ r.at = "answer" /\ r.occ = o /\ r.seq = n /\ r.says = s
  <2>1. r = [at |-> "answer", occ |-> o, seq |-> n, says |-> s, hash |-> "none"]
    BY <1>3 DEF Free
  <2>2. n \in Nat
    BY <1>1
  <2> QED
    BY <2>1, <2>2 DEF ClientRecord, Occs
<1>5. client' = [client EXCEPT ![c] = r] /\ client[c].at = "idle"
  BY <1>2, <1>3, FreeRecord DEF AnswerRead
<1> QED
  BY <1>1, <1>4, <1>5 DEF Others

LEMMA AskerGoes ==
    ASSUME TypeOK, NEW a \in Askers, NEW at \in {"idle", "add", "late", "channel", "read", "select"}, AskTo(a, at)
    PROVE  /\ asker' \in [Askers -> AskerRecord] /\ OtherAskers(a)
           /\ asker'[a].at = at /\ asker'[a].occ = asker[a].occ /\ asker'[a].seq = asker[a].seq
           /\ asker'[a].got = asker[a].got
<1>1. asker \in [Askers -> AskerRecord]
  BY DEF TypeOK
<1>2. PICK r : r = [asker[a] EXCEPT !.at = at]
  OBVIOUS
<1>3. /\ r \in AskerRecord /\ r.at = at /\ r.occ = asker[a].occ /\ r.seq = asker[a].seq
      /\ r.got = asker[a].got
  BY <1>1, <1>2 DEF AskerRecord
<1>4. asker' = [asker EXCEPT ![a] = r]
  BY <1>2 DEF AskTo
<1> QED
  BY <1>1, <1>3, <1>4 DEF OtherAskers

LEMMA NotAskingRecord ==
    NotAsking \in AskerRecord /\ NotAsking.at = "idle" /\ NotAsking.got = "none" /\ NotAsking.seq = 0
  BY DEF NotAsking, AskerRecord

LEMMA AskBegins ==
    ASSUME TypeOK, NEW a \in Askers, NEW o \in RoleOccs, AskBegin(a, o)
    PROVE  /\ asker' \in [Askers -> AskerRecord] /\ OtherAskers(a) /\ asker[a].at = "idle"
           /\ asker'[a].at = "add" /\ asker'[a].occ = o /\ asker'[a].seq = 0 /\ asker'[a].got = "none"
<1>1. asker \in [Askers -> AskerRecord] /\ o \in AskOccs
  BY DEF TypeOK, AskOccs
<1>2. PICK r : r = [NotAsking EXCEPT !.at = "add", !.occ = o]
  OBVIOUS
<1>3. r \in AskerRecord /\ r.at = "add" /\ r.occ = o /\ r.seq = 0 /\ r.got = "none"
  BY <1>1, <1>2 DEF AskerRecord, NotAsking
<1>4. asker' = [asker EXCEPT ![a] = r] /\ asker[a].at = "idle"
  BY <1>2 DEF AskBegin
<1> QED
  BY <1>1, <1>3, <1>4 DEF OtherAskers

LEMMA AskGivesUpDoes ==
    ASSUME TypeOK, NEW a \in Askers, asker' = [asker EXCEPT ![a] = NotAsking]
    PROVE  /\ asker' \in [Askers -> AskerRecord] /\ OtherAskers(a)
           /\ asker'[a].at = "idle" /\ asker'[a].got = "none"
<1>1. asker \in [Askers -> AskerRecord]
  BY DEF TypeOK
<1> QED
  BY <1>1, NotAskingRecord DEF OtherAskers

\* An opening is added to a gate.
LEMMA GateOpens ==
    ASSUME TypeOK, TruthInv, NEW o \in GateOccs, NEW h \in Hashes, OpenGate(o, h)
    PROVE  /\ gates' \in [GateOccs -> Seq(GateRecord)] /\ truth' \in [GateOccs -> Seq(Decisions)]
           /\ \A p \in GateOccs \ {o} : gates'[p] = gates[p] /\ truth'[p] = truth[p]
           /\ Len(gates'[o]) = Len(gates[o]) + 1 /\ Len(truth'[o]) = Len(gates[o]) + 1
           /\ \A n \in 1..Len(gates[o]) : gates'[o][n] = gates[o][n] /\ truth'[o][n] = truth[o][n]
           /\ gates'[o][Len(gates[o]) + 1].hash = h
           /\ gates'[o][Len(gates[o]) + 1].decision = "none"
           /\ truth'[o][Len(gates[o]) + 1] = "none"
<1>1. /\ gates \in [GateOccs -> Seq(GateRecord)] /\ truth \in [GateOccs -> Seq(Decisions)]
      /\ gates[o] \in Seq(GateRecord) /\ truth[o] \in Seq(Decisions) /\ Len(truth[o]) = Len(gates[o])
  BY DEF TypeOK, TruthInv
<1>2. PICK r : r = [hash |-> h, decision |-> "none"]
  OBVIOUS
<1>3. r \in GateRecord /\ r.hash = h /\ r.decision = "none" /\ "none" \in Decisions
  BY <1>2 DEF GateRecord, Decisions
<1>4. PICK g, t : g = Append(gates[o], r) /\ t = Append(truth[o], "none")
  OBVIOUS
<1>5. /\ g \in Seq(GateRecord) /\ Len(g) = Len(gates[o]) + 1 /\ g[Len(gates[o]) + 1] = r
      /\ \A n \in 1..Len(gates[o]) : g[n] = gates[o][n]
  BY <1>1, <1>3, <1>4
<1>6. /\ t \in Seq(Decisions) /\ Len(t) = Len(gates[o]) + 1 /\ t[Len(gates[o]) + 1] = "none"
      /\ \A n \in 1..Len(gates[o]) : t[n] = truth[o][n]
  BY <1>1, <1>3, <1>4
<1>7. gates' = [gates EXCEPT ![o] = g] /\ truth' = [truth EXCEPT ![o] = t]
  BY <1>2, <1>4 DEF OpenGate, AddGate
<1>8. gates' \in [GateOccs -> Seq(GateRecord)] /\ gates'[o] = g /\ \A p \in GateOccs \ {o} : gates'[p] = gates[p]
  BY <1>1, <1>5, <1>7
<1>9. truth' \in [GateOccs -> Seq(Decisions)] /\ truth'[o] = t /\ \A p \in GateOccs \ {o} : truth'[p] = truth[p]
  BY <1>1, <1>6, <1>7
<1> QED
  BY <1>3, <1>5, <1>6, <1>8, <1>9

Settles(o, n, d) == truth' = [truth EXCEPT ![o][n] = d]
Writes(o, n, d) == gates' = [gates EXCEPT ![o][n].decision = d]
WritesQuestion(o, n, r) == qs' = [qs EXCEPT ![o][n] = r]

\* The decision of an opening is written.
LEMMA GateIsSaved ==
    ASSUME TypeOK, NEW o \in GateOccs, NEW n \in 1..Len(gates[o]), NEW d \in Decisions,
           Writes(o, n, d)
    PROVE  /\ gates' \in [GateOccs -> Seq(GateRecord)]
           /\ \A p \in GateOccs \ {o} : gates'[p] = gates[p]
           /\ Len(gates'[o]) = Len(gates[o])
           /\ \A x \in 1..Len(gates[o]) :
                /\ gates'[o][x].hash = gates[o][x].hash
                /\ gates'[o][x].decision = IF x = n THEN d ELSE gates[o][x].decision
<1>1. gates \in [GateOccs -> Seq(GateRecord)] /\ gates[o] \in Seq(GateRecord)
  BY DEF TypeOK
<1>2. gates[o][n] \in GateRecord
  BY <1>1
<1>3. PICK r : r = [gates[o][n] EXCEPT !.decision = d]
  OBVIOUS
<1>4. r \in GateRecord /\ r.hash = gates[o][n].hash /\ r.decision = d
  BY <1>2, <1>3 DEF GateRecord
<1>5. PICK g : g = [gates[o] EXCEPT ![n] = r]
  OBVIOUS
<1>6. /\ g \in Seq(GateRecord) /\ Len(g) = Len(gates[o])
      /\ \A x \in 1..Len(gates[o]) : g[x] = IF x = n THEN r ELSE gates[o][x]
  BY <1>1, <1>4, <1>5, ExceptSeq
<1>7. gates' = [gates EXCEPT ![o] = g]
  BY <1>3, <1>5 DEF Writes
<1>8. gates' \in [GateOccs -> Seq(GateRecord)] /\ gates'[o] = g /\ \A p \in GateOccs \ {o} : gates'[p] = gates[p]
  BY <1>1, <1>6, <1>7
<1> QED
  BY <1>4, <1>6, <1>8

\* The engine takes an outcome.
LEMMA TruthIsSet ==
    ASSUME TypeOK, TruthInv, NEW o \in GateOccs, NEW n \in 1..Len(gates[o]), NEW d \in Decisions,
           Settles(o, n, d)
    PROVE  /\ truth' \in [GateOccs -> Seq(Decisions)]
           /\ \A p \in GateOccs \ {o} : truth'[p] = truth[p]
           /\ Len(truth'[o]) = Len(truth[o])
           /\ \A x \in 1..Len(gates[o]) : truth'[o][x] = IF x = n THEN d ELSE truth[o][x]
<1>1. /\ truth \in [GateOccs -> Seq(Decisions)] /\ truth[o] \in Seq(Decisions)
      /\ Len(truth[o]) = Len(gates[o])
  BY DEF TypeOK, TruthInv
<1>2. PICK t : t = [truth[o] EXCEPT ![n] = d]
  OBVIOUS
<1>3. /\ t \in Seq(Decisions) /\ Len(t) = Len(truth[o])
      /\ \A x \in 1..Len(gates[o]) : t[x] = IF x = n THEN d ELSE truth[o][x]
  BY <1>1, <1>2, ExceptSeq
<1>4. truth' = [truth EXCEPT ![o] = t]
  BY <1>2 DEF Settles
<1> QED
  BY <1>1, <1>3, <1>4

\* A question is added.
LEMMA QuestionIsAdded ==
    ASSUME TypeOK, NEW o \in AskOccs, qs' = [qs EXCEPT ![o] = Append(qs[o], Asked)]
    PROVE  /\ qs' \in [AskOccs -> Seq(QuestionRecord)]
           /\ \A p \in AskOccs \ {o} : qs'[p] = qs[p]
           /\ Len(qs'[o]) = Len(qs[o]) + 1 /\ Len(qs[o]) \in Nat
           /\ \A n \in 1..Len(qs[o]) : qs'[o][n] = qs[o][n]
           /\ qs'[o][Len(qs[o]) + 1].answer = "none"
<1>1. qs \in [AskOccs -> Seq(QuestionRecord)] /\ qs[o] \in Seq(QuestionRecord)
  BY DEF TypeOK
<1>2. Asked \in QuestionRecord /\ Asked.answer = "none"
  BY DEF Asked, QuestionRecord
<1>3. PICK q : q = Append(qs[o], Asked)
  OBVIOUS
<1>4. /\ q \in Seq(QuestionRecord) /\ Len(q) = Len(qs[o]) + 1 /\ q[Len(qs[o]) + 1] = Asked
      /\ \A n \in 1..Len(qs[o]) : q[n] = qs[o][n]
  BY <1>1, <1>2, <1>3
<1>5. qs' \in [AskOccs -> Seq(QuestionRecord)] /\ qs'[o] = q /\ \A p \in AskOccs \ {o} : qs'[p] = qs[p]
  BY <1>1, <1>3, <1>4
<1> QED
  BY <1>1, <1>2, <1>4, <1>5

\* The record of a question is written.
LEMMA QuestionIsSaved ==
    ASSUME TypeOK, NEW o \in AskOccs, NEW n \in 1..Len(qs[o]), NEW r \in QuestionRecord,
           WritesQuestion(o, n, r)
    PROVE  /\ qs' \in [AskOccs -> Seq(QuestionRecord)]
           /\ \A p \in AskOccs \ {o} : qs'[p] = qs[p]
           /\ Len(qs'[o]) = Len(qs[o]) /\ qs'[o][n] = r
           /\ \A x \in 1..Len(qs[o]) : x # n => qs'[o][x] = qs[o][x]
<1>1. qs \in [AskOccs -> Seq(QuestionRecord)] /\ qs[o] \in Seq(QuestionRecord)
  BY DEF TypeOK
<1>2. PICK q : q = [qs[o] EXCEPT ![n] = r]
  OBVIOUS
<1>3. /\ q \in Seq(QuestionRecord) /\ Len(q) = Len(qs[o])
      /\ \A x \in 1..Len(qs[o]) : q[x] = IF x = n THEN r ELSE qs[o][x]
  BY <1>1, <1>2, ExceptSeq
<1>4. qs' = [qs EXCEPT ![o] = q]
  BY <1>2 DEF WritesQuestion
<1>5. qs' \in [AskOccs -> Seq(QuestionRecord)] /\ qs'[o] = q /\ \A p \in AskOccs \ {o} : qs'[p] = qs[p]
  BY <1>1, <1>3, <1>4
<1> QED
  BY <1>3, <1>5

(***************************************************************************)
(* What a part of the invariant needs of a step that leaves it alone       *)
(***************************************************************************)

GatesGrow == \A o \in GateOccs : Len(gates[o]) \in Nat /\ Len(gates'[o]) \in Nat /\ Len(gates[o]) <= Len(gates'[o])
QuestionsGrow == \A o \in AskOccs : Len(qs[o]) \in Nat /\ Len(qs'[o]) \in Nat /\ Len(qs[o]) <= Len(qs'[o])
NoNewAnswers ==
    \A o \in AskOccs : \A n \in 1..Len(qs[o]) : qs'[o][n].answer \in {qs[o][n].answer, "none"}
AnswersStay == \A o \in AskOccs : \A n \in 1..Len(qs[o]) : qs'[o][n].answer = qs[o][n].answer
SlipsStay == slip \ {"again", "late"} \subseteq slip'
SavesStay(at) == \A o \in GateOccs \cup AskOccs : \A n \in Nat : Saving(at, o, n) => Saving(at, o, n)'

LEMMA Lengths == ASSUME TypeOK PROVE /\ \A o \in GateOccs : Len(gates[o]) \in Nat /\ DOMAIN gates[o] = 1..Len(gates[o])
                                     /\ \A o \in AskOccs : Len(qs[o]) \in Nat /\ DOMAIN qs[o] = 1..Len(qs[o])
<1>1. \A o \in GateOccs : gates[o] \in Seq(GateRecord)
  BY DEF TypeOK
<1>2. \A o \in AskOccs : qs[o] \in Seq(QuestionRecord)
  BY DEF TypeOK
<1> QED
  BY <1>1, <1>2

LEMMA GateLength ==
    ASSUME NEW g \in [GateOccs -> Seq(GateRecord)], NEW o \in GateOccs
    PROVE  Len(g[o]) \in Nat /\ DOMAIN g[o] = 1..Len(g[o])
OBVIOUS

LEMMA WaitStays ==
    ASSUME WaitInv, UNCHANGED <<wait, gates, truth>>, \A o \in FixedOccs : Len(qs'[o]) <= 1
    PROVE  WaitInv'
BY DEF WaitInv

LEMMA WaitEnds ==
    ASSUME WaitInv, wait' = Work, \A o \in FixedOccs : Len(qs'[o]) <= 1
    PROVE  WaitInv'
BY DEF WaitInv, Work

LEMMA WorkRecord == Work \in WaitRecord /\ Work.kind = "work"
  BY DEF Work, WaitRecord, Occs

\* Neither the gates nor the questions change.
LEMMA RecordsStay ==
    ASSUME RecordsInv, UNCHANGED <<gates, qs, truth>>
    PROVE  /\ GatesGrow /\ QuestionsGrow /\ AnswersStay /\ TruthInv'
           /\ \A o \in AskOccs : OpenSeqs(o)' = OpenSeqs(o)
           /\ gates' \in [GateOccs -> Seq(GateRecord)] /\ qs' \in [AskOccs -> Seq(QuestionRecord)]
           /\ truth' \in [GateOccs -> Seq(Decisions)]
           /\ wait' \in {wait, Work} => WaitInv' /\ wait' \in WaitRecord
<1>1. TypeOK /\ WaitInv /\ TruthInv
  BY DEF RecordsInv
<1>2. GatesGrow /\ QuestionsGrow /\ AnswersStay /\ TruthInv'
  BY <1>1, Lengths DEF GatesGrow, QuestionsGrow, AnswersStay, TruthInv
<1>3. \A o \in AskOccs : OpenSeqs(o)' = OpenSeqs(o)
  BY DEF OpenSeqs
<1>4. ASSUME wait' \in {wait, Work} PROVE WaitInv' /\ wait' \in WaitRecord
  <2>1. \A o \in FixedOccs : Len(qs'[o]) <= 1
    BY <1>1 DEF WaitInv
  <2> QED
    BY <1>1, <1>4, <2>1, WaitStays, WaitEnds, WorkRecord DEF TypeOK
<1> QED
  BY <1>1, <1>2, <1>3, <1>4 DEF TypeOK

LEMMA ClientStays ==
    ASSUME ClientInv, NEW c \in Clients, client'[c] = client[c], GatesGrow, QuestionsGrow, SlipsStay,
           client[c].at = "saveGate" /\ "stale" \notin slip =>
               truth'[client[c].occ][client[c].seq] = truth[client[c].occ][client[c].seq]
    PROVE  ClientOf(c)'
<1>1. ClientOf(c)
  BY DEF ClientInv
<1>2. \A o \in GateOccs : 1..Len(gates[o]) \subseteq 1..Len(gates'[o])
  BY DEF GatesGrow
<1>3. \A o \in AskOccs : 1..Len(qs[o]) \subseteq 1..Len(qs'[o])
  BY DEF QuestionsGrow
<1> QED
  BY <1>1, <1>2, <1>3 DEF ClientOf, SlipsStay

LEMMA ClientsStay ==
    ASSUME ClientInv, \A c \in Clients : client'[c] = client[c] \/ client'[c].at = "idle",
           GatesGrow, QuestionsGrow, UNCHANGED truth, SlipsStay
    PROVE  ClientInv'
<1> SUFFICES ASSUME NEW c \in Clients PROVE ClientOf(c)'
  BY DEF ClientInv
<1>1. CASE client'[c] = client[c]
  BY <1>1, ClientStays
<1>2. CASE client'[c].at = "idle"
  BY <1>2 DEF ClientOf
<1> QED
  BY <1>1, <1>2

LEMMA AskersStay ==
    ASSUME AskerInv, QuestionsGrow,
           \A a \in Askers : asker'[a] = asker[a] \/ (asker'[a].at = "idle" /\ asker'[a].got = "none")
    PROVE  AskerInv'
<1> SUFFICES ASSUME NEW a \in Askers PROVE AskerOf(a)'
  BY DEF AskerInv
<1>1. AskerOf(a)
  BY DEF AskerInv
<1>2. \A o \in AskOccs : 1..Len(qs[o]) \subseteq 1..Len(qs'[o])
  BY DEF QuestionsGrow
<1>3. CASE asker'[a] = asker[a]
  BY <1>1, <1>2, <1>3 DEF AskerOf, Has
<1>4. CASE asker'[a].at = "idle" /\ asker'[a].got = "none"
  BY <1>4 DEF AskerOf, Has
<1> QED
  BY <1>3, <1>4

LEMMA SavesOneAtATime ==
    ASSUME SaveInv, ClientInv, SlipsStay, AnswersStay \/ NoNewAnswers,
           \A c \in Clients : client'[c].at = "saveAnswer" => client'[c] = client[c]
    PROVE  SaveInv'
<1> SUFFICES ASSUME "twice" \notin slip', NEW c \in Clients PROVE SaveOf(c)'
  BY DEF SaveInv
<1> SUFFICES ASSUME client'[c].at = "saveAnswer" PROVE SaveOf(c)'
  BY DEF SaveOf
<1>1. client'[c] = client[c] /\ SaveOf(c) /\ ClientOf(c)
  BY DEF SaveInv, SlipsStay, ClientInv
<1>2. qs'[client[c].occ][client[c].seq].answer = "none"
  BY <1>1 DEF SaveOf, ClientOf, AnswersStay, NoNewAnswers
<1>3. ASSUME NEW d \in Clients \ {c}, client'[d].at = "saveAnswer"
      PROVE  ~(client'[d].occ = client'[c].occ /\ client'[d].seq = client'[c].seq)
  <2>1. client'[d] = client[d]
    BY <1>3
  <2> QED
    BY <1>1, <1>3, <2>1 DEF SaveOf
<1> QED
  BY <1>1, <1>2, <1>3 DEF SaveOf

LEMMA GatesStayTrue ==
    ASSUME GateRecordsTrue, TypeOK, UNCHANGED <<gates, truth>>, slip \cap {"stale", "unsaved"} \subseteq slip',
           SavesStay("saveGate")
    PROVE  GateRecordsTrue'
<1> SUFFICES ASSUME slip' \cap {"stale", "unsaved"} = {}, NEW o \in GateOccs, NEW n \in DOMAIN gates[o]
             PROVE  Saving("saveGate", o, n)' \/ gates[o][n].decision = truth[o][n]
  BY DEF GateRecordsTrue
<1>1. n \in Nat /\ slip \cap {"stale", "unsaved"} = {}
  BY Lengths
<1> QED
  BY <1>1 DEF GateRecordsTrue, SavesStay

LEMMA QuestionsStayAwaited ==
    ASSUME AwaitedInv, TypeOK, UNCHANGED <<running, listed>>,
           slip \cap {"again", "unsaved", "late"} \subseteq slip',
           \A o \in AskOccs : OpenSeqs(o)' \subseteq OpenSeqs(o),
           wait.kind = "fixed" => wait' = wait, SavesStay("saveAnswer"),
           \A a \in Askers : asker[a].at # "idle" =>
               asker'[a].at # "idle" /\ asker'[a].occ = asker[a].occ /\ asker'[a].seq = asker[a].seq
    PROVE  AwaitedInv'
<1> SUFFICES ASSUME running' \in {"yes", "closing"}, slip' \cap {"again", "unsaved", "late"} = {},
                    NEW o \in AskOccs, NEW n \in OpenSeqs(o)'
             PROVE  Awaited(o, n)'
  BY DEF AwaitedInv
<1>1. n \in OpenSeqs(o) /\ n \in Nat /\ running \in {"yes", "closing"} /\ slip \cap {"again", "unsaved", "late"} = {}
  BY Lengths DEF OpenSeqs
<1>2. Awaited(o, n)
  BY <1>1 DEF AwaitedInv
<1> QED
  BY <1>1, <1>2 DEF SavesStay, Awaited

\* Neither Stop nor Resume.
LEMMA ResumeStays ==
    ASSUME ResumeInv, UNCHANGED <<running, listed>>, QuestionsGrow,
           \A a \in Askers : \/ asker'[a] = asker[a] \/ running = "yes"
                             \/ asker'[a].at = "idle" /\ asker'[a].got = "none"
    PROVE  ResumeInv'
<1>1. running' # "yes" => \A a \in Askers : asker'[a].at \in {"idle", "late"} /\ asker'[a].got = "none"
  BY DEF ResumeInv
<1>2. \A o \in AskOccs, n \in Nat : <<o, n>> \in listed' => n \in 1..Len(qs'[o])
  <2>1. \A o \in AskOccs : 1..Len(qs[o]) \subseteq 1..Len(qs'[o])
    BY DEF QuestionsGrow
  <2> QED
    BY <2>1 DEF ResumeInv
<1> QED
  BY <1>1, <1>2 DEF ResumeInv

LEMMA AgentsKeepTheirAnswer ==
    ASSUME AgentGotTheAnswer, AskerInv, SlipsStay, AnswersStay,
           \A a \in Askers : asker'[a].at = "idle" /\ asker'[a].got # "none" => asker'[a] = asker[a]
    PROVE  AgentGotTheAnswer'
<1> SUFFICES ASSUME "twice" \notin slip', NEW a \in Askers, asker'[a].at = "idle", asker'[a].got # "none"
             PROVE  qs'[asker'[a].occ][asker'[a].seq].answer = asker'[a].got
  BY DEF AgentGotTheAnswer
<1>1. asker'[a] = asker[a] /\ AskerOf(a) /\ "twice" \notin slip
  BY DEF AskerInv, SlipsStay
<1> QED
  BY <1>1 DEF AgentGotTheAnswer, AskerOf, Has, AnswersStay

\* A call of Decide or Answer that is not about to write stays out of the way.
LEMMA SavesStayBut ==
    ASSUME NEW c \in Clients, Others(c), NEW at, client[c].at # at \/ client'[c] = client[c]
    PROVE  SavesStay(at)
BY DEF SavesStay, Saving, Others

(***************************************************************************)
(* The engine and Decide                                                   *)
(***************************************************************************)

LEMMA OpenGateStep ==
    ASSUME RecordsInv, NEW o \in GateOccs, NEW h \in Hashes, OpenGate(o, h)
    PROVE  RecordsInv'
<1>1. /\ TypeOK /\ WaitInv /\ TruthInv /\ ClientInv /\ AskerInv /\ SaveInv /\ ResumeInv
      /\ GateRecordsTrue /\ AwaitedInv /\ AgentGotTheAnswer
  BY DEF RecordsInv
<1>2. /\ UNCHANGED <<qs, client, asker, ch, running, listed, faults, slip>>
      /\ wait.kind = "work" /\ running = "yes" /\ opened < MaxOpen /\ opened' = opened + 1
      /\ wait' = [kind |-> "gate", occ |-> o, n |-> Len(gates[o]) + 1, hash |-> h]
  BY WorkRecord DEF OpenGate, Advances, resumeVars
<1>3. /\ gates' \in [GateOccs -> Seq(GateRecord)] /\ truth' \in [GateOccs -> Seq(Decisions)]
      /\ \A p \in GateOccs \ {o} : gates'[p] = gates[p] /\ truth'[p] = truth[p]
      /\ Len(gates'[o]) = Len(gates[o]) + 1 /\ Len(truth'[o]) = Len(gates[o]) + 1
      /\ \A n \in 1..Len(gates[o]) : gates'[o][n] = gates[o][n] /\ truth'[o][n] = truth[o][n]
      /\ gates'[o][Len(gates[o]) + 1].hash = h
      /\ gates'[o][Len(gates[o]) + 1].decision = "none"
      /\ truth'[o][Len(gates[o]) + 1] = "none"
  BY <1>1, GateOpens
<1>4. GatesGrow /\ QuestionsGrow /\ AnswersStay /\ SlipsStay /\ Len(gates[o]) \in Nat
  <2>1. \A p \in GateOccs : Len(gates[p]) \in Nat /\ Len(gates'[p]) \in {Len(gates[p]), Len(gates[p]) + 1}
    BY <1>1, <1>3, Lengths
  <2>2. GatesGrow /\ Len(gates[o]) \in Nat
    BY <2>1 DEF GatesGrow
  <2>3. \A p \in AskOccs : Len(qs[p]) \in Nat /\ qs'[p] = qs[p]
    BY <1>1, <1>2, Lengths
  <2> QED
    BY <1>2, <2>2, <2>3 DEF QuestionsGrow, AnswersStay, SlipsStay
<1>5. TypeOK'
  <2>1. wait' \in WaitRecord
    BY <1>2, <1>4 DEF WaitRecord, Occs
  <2>2. opened' \in 0..MaxOpen
    BY <1>1, <1>2, BoundsAssumption DEF TypeOK
  <2> QED
    BY <1>1, <1>2, <1>3, <2>1, <2>2 DEF TypeOK
<1>6. WaitInv'
  BY <1>1, <1>2, <1>3, <1>4 DEF WaitInv
<1>7. TruthInv'
  BY <1>1, <1>3 DEF TruthInv
<1>8. ClientInv'
  <2> SUFFICES ASSUME NEW c \in Clients PROVE ClientOf(c)'
    BY DEF ClientInv
  <2>1. client[c].at = "saveGate" => truth'[client[c].occ][client[c].seq] = truth[client[c].occ][client[c].seq]
    BY <1>1, <1>3 DEF ClientInv, ClientOf
  <2> QED
    BY <1>1, <1>2, <1>4, <2>1, ClientStays
<1>9. AskerInv' /\ AgentGotTheAnswer'
  BY <1>1, <1>2, <1>4, AskersStay, AgentsKeepTheirAnswer
<1>10. SaveInv'
  BY <1>1, <1>2, <1>4, SavesOneAtATime
<1>11. GateRecordsTrue'
  <2> SUFFICES ASSUME slip \cap {"stale", "unsaved"} = {}, NEW p \in GateOccs, NEW n \in 1..Len(gates'[p])
               PROVE  Saving("saveGate", p, n)' \/ gates'[p][n].decision = truth'[p][n]
    BY <1>2, <1>3, GateLength DEF GateRecordsTrue
  <2>1. CASE p = o /\ n = Len(gates[o]) + 1
    BY <1>3, <2>1
  <2>2. CASE ~(p = o /\ n = Len(gates[o]) + 1)
    <3>1. n \in 1..Len(gates[p]) /\ gates'[p][n] = gates[p][n] /\ truth'[p][n] = truth[p][n]
      <4>1. CASE p = o
        <5>1. n \in 1..Len(gates'[o]) /\ n # Len(gates[o]) + 1
          BY <2>2, <4>1
        <5>2. n \in 1..Len(gates[o])
          BY <1>3, <1>4, <5>1
        <5> QED
          BY <1>3, <4>1, <5>2
      <4>2. CASE p # o
        BY <1>3, <4>2
      <4> QED
        BY <4>1, <4>2
    <3>2. Saving("saveGate", p, n) \/ gates[p][n].decision = truth[p][n]
      BY <1>1, <3>1, Lengths DEF GateRecordsTrue
    <3> QED
      BY <1>2, <3>1, <3>2 DEF Saving
  <2> QED
    BY <2>1, <2>2
<1>12. AwaitedInv'
  BY <1>1, <1>2, QuestionsStayAwaited DEF SavesStay, Saving, OpenSeqs
<1>13. ResumeInv'
  BY <1>1, <1>2, <1>4, ResumeStays
<1> QED
  BY <1>5, <1>6, <1>7, <1>8, <1>9, <1>10, <1>11, <1>12, <1>13 DEF RecordsInv

LEMMA HandQuestionStep ==
    ASSUME RecordsInv, NEW o \in RoleOccs, HandQuestion(o)
    PROVE  RecordsInv'
<1>1. /\ TypeOK /\ WaitInv /\ TruthInv /\ ClientInv /\ AskerInv /\ SaveInv /\ ResumeInv
      /\ GateRecordsTrue /\ AwaitedInv /\ AgentGotTheAnswer
  BY DEF RecordsInv
<1>2. /\ UNCHANGED <<gates, qs, client, asker, ch, running, listed, faults, truth, slip>>
      /\ wait.kind = "work" /\ opened < MaxOpen /\ opened' = opened + 1
      /\ wait' = [Work EXCEPT !.kind = "ask", !.occ = o]
  BY WorkRecord DEF HandQuestion, Advances, recordVars, resumeVars
<1>3. wait' = [kind |-> "ask", occ |-> o, n |-> 0, hash |-> "none"]
  BY <1>2 DEF Work
<1>4. /\ GatesGrow /\ QuestionsGrow /\ AnswersStay /\ TruthInv' /\ SlipsStay
      /\ \A p \in AskOccs : OpenSeqs(p)' = OpenSeqs(p)
      /\ SavesStay("saveGate") /\ SavesStay("saveAnswer")
  BY <1>2, RecordsStay DEF SlipsStay, SavesStay, Saving
<1>5. TypeOK'
  <2>1. wait' \in WaitRecord
    BY <1>3 DEF WaitRecord, Occs, AskOccs
  <2>2. opened' \in 0..MaxOpen
    BY <1>1, <1>2, BoundsAssumption DEF TypeOK
  <2> QED
    BY <1>1, <1>2, <2>1, <2>2 DEF TypeOK
<1>6. WaitInv'
  BY <1>1, <1>2, <1>3 DEF WaitInv
<1>7. AwaitedInv'
  BY <1>1, <1>2, <1>4, QuestionsStayAwaited
<1> QED
  BY <1>1, <1>2, <1>4, <1>5, <1>6, <1>7, ClientsStay, AskersStay, ResumeStays, SavesOneAtATime, GatesStayTrue,
     AgentsKeepTheirAnswer DEF RecordsInv

LEMMA AgentReportsStep ==
    ASSUME RecordsInv, AgentReports
    PROVE  RecordsInv'
<1>1. /\ TypeOK /\ WaitInv /\ TruthInv /\ ClientInv /\ AskerInv /\ SaveInv /\ ResumeInv
      /\ GateRecordsTrue /\ AwaitedInv /\ AgentGotTheAnswer
  BY DEF RecordsInv
<1>2. /\ UNCHANGED <<gates, qs, client, asker, ch, running, listed, opened, faults, truth, slip>>
      /\ wait.kind = "ask" /\ wait' = Work
  BY DEF AgentReports, recordVars, resumeVars
<1>3. /\ GatesGrow /\ QuestionsGrow /\ AnswersStay /\ TruthInv' /\ SlipsStay
      /\ \A p \in AskOccs : OpenSeqs(p)' = OpenSeqs(p)
      /\ SavesStay("saveGate") /\ SavesStay("saveAnswer")
      /\ WaitInv' /\ wait' \in WaitRecord
  BY <1>2, RecordsStay DEF SlipsStay, SavesStay, Saving
<1>4. TypeOK'
  BY <1>1, <1>2, <1>3 DEF TypeOK
<1>5. AwaitedInv'
  BY <1>1, <1>2, <1>3, QuestionsStayAwaited
<1> QED
  BY <1>1, <1>2, <1>3, <1>4, <1>5, ClientsStay, AskersStay, ResumeStays, SavesOneAtATime, GatesStayTrue,
     AgentsKeepTheirAnswer DEF RecordsInv

LEMMA OpenQuestionStep ==
    ASSUME RecordsInv, NEW o \in FixedOccs, OpenQuestion(o)
    PROVE  RecordsInv'
<1>1. /\ TypeOK /\ WaitInv /\ TruthInv /\ ClientInv /\ AskerInv /\ SaveInv /\ ResumeInv
      /\ GateRecordsTrue /\ AwaitedInv /\ AgentGotTheAnswer
      /\ o \in AskOccs
  BY DEF RecordsInv, AskOccs
<1>2. /\ UNCHANGED <<gates, client, asker, ch, running, listed, faults, truth, slip>>
      /\ wait.kind = "work" /\ opened < MaxOpen /\ opened' = opened + 1
      /\ qs[o] = <<>> /\ qs' = [qs EXCEPT ![o] = Append(qs[o], Asked)]
  BY WorkRecord DEF OpenQuestion, AddQuestion, Advances, resumeVars
<1>3. Len(qs[o]) = 0
  BY <1>2
<1>4. /\ qs' \in [AskOccs -> Seq(QuestionRecord)]
      /\ \A p \in AskOccs \ {o} : qs'[p] = qs[p]
      /\ Len(qs'[o]) = 1 /\ \A n \in 1..Len(qs[o]) : qs'[o][n] = qs[o][n]
  <2>1. /\ qs' \in [AskOccs -> Seq(QuestionRecord)]
        /\ \A p \in AskOccs \ {o} : qs'[p] = qs[p]
        /\ Len(qs'[o]) = Len(qs[o]) + 1 /\ \A n \in 1..Len(qs[o]) : qs'[o][n] = qs[o][n]
    BY <1>1, <1>2, QuestionIsAdded, Zenon
  <2> QED
    BY <1>3, <2>1
<1>5. wait' = [kind |-> "fixed", occ |-> o, n |-> 1, hash |-> "none"]
  <2>1. wait' = [Work EXCEPT !.kind = "fixed", !.occ = o, !.n = 1]
    BY <1>3 DEF OpenQuestion
  <2> QED
    BY <2>1 DEF Work
<1>6. /\ GatesGrow /\ QuestionsGrow /\ AnswersStay /\ SlipsStay
      /\ SavesStay("saveGate") /\ SavesStay("saveAnswer")
  <2>1. GatesGrow
    BY <1>1, <1>2, Lengths DEF GatesGrow
  <2>2. QuestionsGrow
    <3> SUFFICES ASSUME NEW p \in AskOccs
                 PROVE  Len(qs[p]) \in Nat /\ Len(qs'[p]) \in Nat /\ Len(qs[p]) <= Len(qs'[p])
      BY DEF QuestionsGrow
    <3>1. Len(qs[p]) \in Nat
      BY <1>1, Lengths
    <3>2. CASE p = o
      BY <1>3, <1>4, <3>2
    <3>3. CASE p # o
      BY <1>4, <3>1, <3>3
    <3> QED
      BY <3>2, <3>3
  <2>3. AnswersStay
    BY <1>4 DEF AnswersStay
  <2> QED
    BY <1>2, <2>1, <2>2, <2>3 DEF SlipsStay, SavesStay, Saving
<1>7. TypeOK'
  <2>1. wait' \in WaitRecord
    BY <1>1, <1>5 DEF WaitRecord, Occs
  <2>2. opened' \in 0..MaxOpen
    BY <1>1, <1>2, BoundsAssumption DEF TypeOK
  <2> QED
    BY <1>1, <1>2, <1>4, <2>1, <2>2 DEF TypeOK
<1>8. WaitInv'
  <2>1. ASSUME NEW p \in FixedOccs PROVE Len(qs'[p]) <= 1
    <3>1. p \in AskOccs /\ Len(qs[p]) <= 1
      BY <1>1 DEF WaitInv, AskOccs
    <3>2. CASE p = o
      <4>1. Len(qs'[p]) = 1
        BY <1>4, <3>2, Zenon
      <4> QED
        BY <4>1
    <3>3. CASE p # o
      BY <1>4, <3>1, <3>3
    <3> QED
      BY <3>2, <3>3
  <2> QED
    BY <1>5, <2>1 DEF WaitInv
<1>9. TruthInv'
  BY <1>1, <1>2 DEF TruthInv
<1>10. AwaitedInv'
  <2> SUFFICES ASSUME running' \in {"yes", "closing"}, slip' \cap {"again", "unsaved", "late"} = {},
                      NEW p \in AskOccs, NEW n \in OpenSeqs(p)'
               PROVE  Awaited(p, n)'
    BY DEF AwaitedInv
  <2>1. CASE p = o
    <3>1. qs'[o] \in Seq(QuestionRecord)
      BY <1>1, <1>4
    <3>2. n \in 1..Len(qs'[o])
      BY <2>1, <3>1 DEF OpenSeqs
    <3> QED
      BY <1>4, <1>5, <2>1, <3>2 DEF Awaited
  <2>2. CASE p # o
    <3>1. n \in OpenSeqs(p)
      BY <1>4, <2>2 DEF OpenSeqs
    <3> QED
      BY <1>1, <1>2, <3>1 DEF AwaitedInv, Awaited, Saving
  <2> QED
    BY <2>1, <2>2
<1> QED
  BY <1>1, <1>2, <1>6, <1>7, <1>8, <1>9, <1>10, ClientsStay, AskersStay, ResumeStays, SavesOneAtATime, GatesStayTrue,
     AgentsKeepTheirAnswer DEF RecordsInv

\* The record of the gate that triage ends is closed: nobody is about to write to it.
LEMMA SupersedeStep ==
    ASSUME RecordsInv, Supersede
    PROVE  RecordsInv'
<1>1. /\ TypeOK /\ WaitInv /\ TruthInv /\ ClientInv /\ AskerInv /\ SaveInv /\ ResumeInv
      /\ GateRecordsTrue /\ AwaitedInv /\ AgentGotTheAnswer
  BY DEF RecordsInv
<1>2. PICK o, n : o = wait.occ /\ n = wait.n
  OBVIOUS
<1>3. /\ o \in GateOccs /\ n \in 1..Len(gates[o]) /\ n = Len(gates[o]) /\ truth[o][n] = "none"
      /\ wait.kind = "gate" /\ "superseded" \in Decisions
  BY <1>1, <1>2 DEF Supersede, WaitInv, Decisions
<1>4. /\ UNCHANGED <<qs, client, asker, ch, running, listed, opened, faults, slip>>
      /\ wait' = Work
      /\ Settles(o, n, "superseded")
      /\ gates[o][n].decision = "none" => Writes(o, n, "superseded")
      /\ gates[o][n].decision # "none" => gates' = gates
  BY <1>2, <1>3 DEF resumeVars, Supersede, SupersedeGate, LatestGate, Settles, Writes
<1>5. /\ truth' \in [GateOccs -> Seq(Decisions)]
      /\ \A p \in GateOccs \ {o} : truth'[p] = truth[p]
      /\ Len(truth'[o]) = Len(truth[o])
      /\ \A x \in 1..Len(gates[o]) : truth'[o][x] = IF x = n THEN "superseded" ELSE truth[o][x]
  BY <1>1, <1>3, <1>4, TruthIsSet
<1>6. /\ gates' \in [GateOccs -> Seq(GateRecord)]
      /\ \A p \in GateOccs \ {o} : gates'[p] = gates[p]
      /\ Len(gates'[o]) = Len(gates[o])
      /\ \A x \in 1..Len(gates[o]) : x # n => gates'[o][x].decision = gates[o][x].decision
      /\ gates[o][n].decision = "none" => gates'[o][n].decision = "superseded"
      /\ gates[o][n].decision # "none" => gates'[o][n].decision = gates[o][n].decision
  <2>1. CASE gates[o][n].decision = "none"
    <3>1. Writes(o, n, "superseded")
      BY <1>4, <2>1
    <3>2. /\ gates' \in [GateOccs -> Seq(GateRecord)]
          /\ \A p \in GateOccs \ {o} : gates'[p] = gates[p]
          /\ Len(gates'[o]) = Len(gates[o])
          /\ \A x \in 1..Len(gates[o]) :
               gates'[o][x].decision = IF x = n THEN "superseded" ELSE gates[o][x].decision
      BY <1>1, <1>3, <3>1, GateIsSaved
    <3> QED
      BY <1>3, <2>1, <3>2
  <2>2. CASE gates[o][n].decision # "none"
    BY <1>1, <1>4, <2>2 DEF TypeOK
  <2> QED
    BY <2>1, <2>2
<1>7. GatesGrow /\ QuestionsGrow /\ AnswersStay /\ SlipsStay /\ SavesStay("saveAnswer")
  BY <1>1, <1>4, <1>6, Lengths DEF GatesGrow, QuestionsGrow, AnswersStay, SlipsStay, SavesStay, Saving
<1>8. TypeOK'
  BY <1>1, <1>4, <1>5, <1>6, WorkRecord DEF TypeOK
<1>9. WaitInv'
  BY <1>1, <1>4, WaitEnds DEF WaitInv
<1>10. TruthInv'
  BY <1>1, <1>5, <1>6 DEF TruthInv
<1>11. \A c \in Clients : client[c].at = "saveGate" /\ "stale" \notin slip =>
           ~(client[c].occ = o /\ client[c].seq = n)
  BY <1>1, <1>3 DEF ClientInv, ClientOf, Outcomes
<1>12. ClientInv'
  <2> SUFFICES ASSUME NEW c \in Clients PROVE ClientOf(c)'
    BY DEF ClientInv
  <2>1. client[c].at = "saveGate" /\ "stale" \notin slip =>
            truth'[client[c].occ][client[c].seq] = truth[client[c].occ][client[c].seq]
    BY <1>1, <1>5, <1>11 DEF ClientInv, ClientOf
  <2> QED
    BY <1>1, <1>4, <1>7, <2>1, ClientStays
<1>13. GateRecordsTrue'
  <2> SUFFICES ASSUME slip \cap {"stale", "unsaved"} = {}, NEW p \in GateOccs, NEW x \in 1..Len(gates'[p])
               PROVE  Saving("saveGate", p, x)' \/ gates'[p][x].decision = truth'[p][x]
    BY <1>4, <1>6, GateLength DEF GateRecordsTrue
  <2>1. x \in 1..Len(gates[p]) /\ (Saving("saveGate", p, x) \/ gates[p][x].decision = truth[p][x])
    BY <1>1, <1>6, Lengths DEF GateRecordsTrue
  <2>2. CASE p = o /\ x = n
    <3>1. ~Saving("saveGate", o, n)
      BY <1>11 DEF Saving
    <3> QED
      BY <1>3, <1>5, <1>6, <2>1, <2>2, <3>1
  <2>3. CASE ~(p = o /\ x = n)
    <3>1. gates'[p][x].decision = gates[p][x].decision /\ truth'[p][x] = truth[p][x]
      BY <1>5, <1>6, <2>1, <2>3
    <3> QED
      BY <1>4, <2>1, <3>1 DEF Saving
  <2> QED
    BY <2>2, <2>3
<1>14. AwaitedInv'
  BY <1>1, <1>3, <1>4, <1>7, QuestionsStayAwaited DEF OpenSeqs
<1> QED
  BY <1>1, <1>4, <1>7, <1>8, <1>9, <1>10, <1>12, <1>13, <1>14, AskersStay, ResumeStays, SavesOneAtATime,
     AgentsKeepTheirAnswer DEF RecordsInv

\* A call of Decide or Answer begins, or ends with nothing written.
LEMMA CallStep ==
    ASSUME RecordsInv, NEW c \in Clients, UNCHANGED <<wait, gates, qs, asker, running, listed, opened, truth>>,
           ch' \in [Askers -> BOOLEAN], faults' \in 0..MaxFaults, slip' \in {slip, slip \cup {"unsaved"}},
           client' \in [Clients -> ClientRecord], Others(c), ClientOf(c)',
           client'[c].at \notin {"saveGate", "saveAnswer"},
           client[c].at \in {"saveGate", "saveAnswer"} => "unsaved" \in slip'
    PROVE  RecordsInv'
<1>1. /\ TypeOK /\ WaitInv /\ TruthInv /\ ClientInv /\ AskerInv /\ SaveInv /\ ResumeInv
      /\ GateRecordsTrue /\ AwaitedInv /\ AgentGotTheAnswer
  BY DEF RecordsInv
<1>2. /\ GatesGrow /\ QuestionsGrow /\ AnswersStay /\ TruthInv' /\ WaitInv' /\ SlipsStay
      /\ \A o \in AskOccs : OpenSeqs(o)' = OpenSeqs(o)
  BY RecordsStay DEF SlipsStay
<1>3. TypeOK'
  <2>1. slip' \in SUBSET Slips
    BY <1>1 DEF TypeOK, Slips
  <2> QED
    BY <1>1, <2>1 DEF TypeOK
<1>4. ClientInv'
  <2> SUFFICES ASSUME NEW d \in Clients PROVE ClientOf(d)'
    BY DEF ClientInv
  <2>1. CASE d = c
    BY <2>1
  <2>2. CASE d # c
    <3>1. client'[d] = client[d]
      BY <2>2 DEF Others
    <3> QED
      BY <1>1, <1>2, <3>1, ClientStays
  <2> QED
    BY <2>1, <2>2
<1>5. SaveInv'
  <2>1. \A d \in Clients : client'[d].at = "saveAnswer" => client'[d] = client[d]
    BY DEF Others
  <2> QED
    BY <1>1, <1>2, <2>1, SavesOneAtATime
<1>6. GateRecordsTrue'
  <2>1. CASE "unsaved" \in slip'
    BY <2>1 DEF GateRecordsTrue
  <2>2. CASE "unsaved" \notin slip'
    <3>1. SavesStay("saveGate")
      BY <2>2, SavesStayBut
    <3> QED
      BY <1>1, <3>1, GatesStayTrue
  <2> QED
    BY <2>1, <2>2
<1>7. AwaitedInv'
  <2>1. CASE "unsaved" \in slip'
    BY <2>1 DEF AwaitedInv
  <2>2. CASE "unsaved" \notin slip'
    <3>1. SavesStay("saveAnswer")
      BY <2>2, SavesStayBut
    <3> QED
      BY <1>1, <1>2, <3>1, QuestionsStayAwaited
  <2> QED
    BY <2>1, <2>2
<1> QED
  BY <1>1, <1>2, <1>3, <1>4, <1>5, <1>6, <1>7, AskersStay, ResumeStays, AgentsKeepTheirAnswer DEF RecordsInv

LEMMA DecideReadStep ==
    ASSUME RecordsInv, NEW c \in Clients, NEW o \in GateOccs, NEW d \in Outcomes,
           NEW h \in Hashes \cup {"none"}, DecideRead(c, o, d, h)
    PROVE  RecordsInv'
<1>1. TypeOK /\ UNCHANGED <<wait, gates, qs, asker, ch, running, listed, opened, faults, truth, slip>>
  BY DEF RecordsInv, DecideRead, recordVars, resumeVars
<1>2. /\ client' \in [Clients -> ClientRecord] /\ Others(c) /\ client[c].at = "idle"
      /\ client'[c].at = "decide" /\ client'[c].occ = o /\ client'[c].seq = Len(gates[o])
      /\ client'[c].says = d /\ Len(gates[o]) \in 1..Len(gates[o])
  BY <1>1, DecideReads
<1>3. ClientOf(c)'
  BY <1>1, <1>2 DEF ClientOf
<1> QED
  BY <1>1, <1>2, <1>3, CallStep DEF TypeOK

LEMMA AnswerReadStep ==
    ASSUME RecordsInv, NEW c \in Clients, NEW o \in AskOccs, NEW s \in Answers, AnswerRead(c, o, s)
    PROVE  RecordsInv'
<1>1. TypeOK /\ UNCHANGED <<wait, gates, qs, asker, ch, running, listed, opened, faults, truth, slip>>
  BY DEF RecordsInv, AnswerRead, recordVars, resumeVars
<1>2. /\ client' \in [Clients -> ClientRecord] /\ Others(c) /\ client[c].at = "idle"
      /\ client'[c].at = "answer" /\ client'[c].occ = o /\ client'[c].seq \in 1..Len(qs[o])
      /\ client'[c].says = s
  BY <1>1, AnswerReads
<1>3. ClientOf(c)'
  BY <1>1, <1>2 DEF ClientOf
<1> QED
  BY <1>1, <1>2, <1>3, CallStep DEF TypeOK

LEMMA CallEnds ==
    ASSUME RecordsInv, NEW c \in Clients, Ends(c), UNCHANGED <<wait, gates, qs, asker, running, listed, opened, truth>>,
           ch' \in [Askers -> BOOLEAN], faults' \in 0..MaxFaults, slip' \in {slip, slip \cup {"unsaved"}},
           client[c].at \in {"saveGate", "saveAnswer"} => "unsaved" \in slip'
    PROVE  RecordsInv'
<1>1. client' \in [Clients -> ClientRecord] /\ Others(c) /\ client'[c].at = "idle"
  BY ClientEnds DEF RecordsInv
<1>2. ClientOf(c)'
  BY <1>1 DEF ClientOf
<1> QED
  BY <1>1, <1>2, CallStep

LEMMA AnswerNotifyStep ==
    ASSUME RecordsInv, NEW c \in Clients, AnswerNotify(c)
    PROVE  RecordsInv'
<1>1. TypeOK
  BY DEF RecordsInv
<1>2. ch' \in [Askers -> BOOLEAN]
  BY <1>1 DEF AnswerNotify, TypeOK
<1> QED
  BY <1>1, <1>2, CallEnds DEF AnswerNotify, recordVars, resumeVars, TypeOK

LEMMA SaveFailsStep ==
    ASSUME RecordsInv, NEW c \in Clients, SaveFails(c)
    PROVE  RecordsInv'
<1>1. TypeOK /\ faults \in 0..MaxFaults /\ faults < MaxFaults /\ faults' = faults + 1
  BY DEF RecordsInv, SaveFails, TypeOK
<1>2. faults' \in 0..MaxFaults
  BY <1>1, BoundsAssumption
<1> QED
  BY <1>1, <1>2, CallEnds DEF SaveFails, recordVars, resumeVars, TypeOK

\* The engine takes the decision of a gate that has none; another call whose decision it
\* took wrote of another opening.
LEMMA DecideEngineStep ==
    ASSUME RecordsInv, NEW c \in Clients, DecideEngine(c)
    PROVE  RecordsInv'
<1>1. /\ TypeOK /\ WaitInv /\ TruthInv /\ ClientInv /\ AskerInv /\ SaveInv /\ ResumeInv
      /\ GateRecordsTrue /\ AwaitedInv /\ AgentGotTheAnswer
  BY DEF RecordsInv
<1>2. client[c].at = "decide" /\ UNCHANGED <<gates, qs, asker, ch, running, listed, opened, faults>>
  BY DEF DecideEngine, recordVars, resumeVars
<1>3. CASE ~(/\ running # "no" /\ wait.kind = "gate" /\ wait.occ = client[c].occ
             /\ client[c].says = "approved" => client[c].hash = wait.hash)
  BY <1>1, <1>2, <1>3, CallEnds DEF DecideEngine, TypeOK
<1>4. CASE /\ running # "no" /\ wait.kind = "gate" /\ wait.occ = client[c].occ
           /\ client[c].says = "approved" => client[c].hash = wait.hash
  <2>1. PICK o, n, s : o = wait.occ /\ n = wait.n /\ s = client[c].says
    OBVIOUS
  <2>2. /\ To(c, "saveGate") /\ wait' = Work /\ Settles(o, n, s)
        /\ slip' = IF n # client[c].seq THEN slip \cup {"stale"} ELSE slip
    BY <1>4, <2>1 DEF DecideEngine, Settles
  <2>3. /\ o \in GateOccs /\ n \in 1..Len(gates[o]) /\ truth[o][n] = "none"
        /\ s \in Outcomes /\ s \in Decisions /\ client[c].occ = o
    BY <1>1, <1>2, <1>4, <2>1 DEF WaitInv, ClientInv, ClientOf, Decisions
  <2>4. /\ truth' \in [GateOccs -> Seq(Decisions)]
        /\ \A p \in GateOccs \ {o} : truth'[p] = truth[p]
        /\ Len(truth'[o]) = Len(truth[o])
        /\ \A x \in 1..Len(gates[o]) : truth'[o][x] = IF x = n THEN s ELSE truth[o][x]
    BY <1>1, <2>2, <2>3, TruthIsSet
  <2>5. /\ client' \in [Clients -> ClientRecord] /\ Others(c)
        /\ client'[c].at = "saveGate" /\ client'[c].occ = o /\ client'[c].seq = client[c].seq
        /\ client'[c].says = s
    BY <1>1, <2>1, <2>2, <2>3, ClientGoes
  <2>6. /\ GatesGrow /\ QuestionsGrow /\ AnswersStay /\ SlipsStay
        /\ \A p \in AskOccs : OpenSeqs(p)' = OpenSeqs(p)
    BY <1>1, <1>2, <2>2, Lengths DEF GatesGrow, QuestionsGrow, AnswersStay, SlipsStay, OpenSeqs
  <2>7. TypeOK'
    <3>1. slip' \in SUBSET Slips
      BY <1>1, <2>2 DEF TypeOK, Slips
    <3> QED
      BY <1>1, <1>2, <2>2, <2>4, <2>5, <3>1, WorkRecord DEF TypeOK
  <2>8. WaitInv'
    BY <1>1, <1>2, <2>2, WaitEnds DEF WaitInv
  <2>9. TruthInv'
    BY <1>1, <1>2, <2>4 DEF TruthInv
  <2>10. \A d \in Clients : client[d].at = "saveGate" /\ "stale" \notin slip =>
             ~(client[d].occ = o /\ client[d].seq = n)
    BY <1>1, <2>3 DEF ClientInv, ClientOf, Outcomes
  <2>11. ClientInv'
    <3> SUFFICES ASSUME NEW d \in Clients PROVE ClientOf(d)'
      BY DEF ClientInv
    <3>1. CASE d = c
      <4>1. client[c].seq \in 1..Len(gates[o])
        BY <1>1, <1>2, <2>3 DEF ClientInv, ClientOf
      <4>2. "stale" \notin slip' => client[c].seq = n
        BY <2>2
      <4>3. "stale" \notin slip' => truth'[o][client[c].seq] = s
        BY <2>3, <2>4, <4>2
      <4> QED
        BY <1>2, <2>3, <2>5, <3>1, <4>1, <4>3 DEF ClientOf
    <3>2. CASE d # c
      <4>1. client'[d] = client[d]
        BY <2>5, <3>2 DEF Others
      <4>2. client[d].at = "saveGate" /\ "stale" \notin slip =>
                truth'[client[d].occ][client[d].seq] = truth[client[d].occ][client[d].seq]
        BY <1>1, <2>4, <2>10 DEF ClientInv, ClientOf
      <4> QED
        BY <1>1, <2>6, <4>1, <4>2, ClientStays
    <3> QED
      BY <3>1, <3>2
  <2>12. SavesStay("saveGate") /\ SavesStay("saveAnswer")
    BY <1>2, <2>5, SavesStayBut
  <2>13. GateRecordsTrue'
    <3> SUFFICES ASSUME slip' \cap {"stale", "unsaved"} = {}, NEW p \in GateOccs, NEW x \in 1..Len(gates[p])
                 PROVE  Saving("saveGate", p, x)' \/ gates[p][x].decision = truth'[p][x]
      BY <1>1, <1>2, Lengths DEF GateRecordsTrue
    <3>1. slip \cap {"stale", "unsaved"} = {} /\ client[c].seq = n
      BY <2>2
    <3>2. CASE p = o /\ x = n
      BY <2>5, <3>1, <3>2 DEF Saving
    <3>3. CASE ~(p = o /\ x = n)
      <4>1. truth'[p][x] = truth[p][x]
        BY <2>4, <3>3
      <4>2. Saving("saveGate", p, x) \/ gates[p][x].decision = truth[p][x]
        BY <1>1, <3>1, Lengths DEF GateRecordsTrue
      <4>3. Saving("saveGate", p, x) => Saving("saveGate", p, x)'
        BY <2>12 DEF SavesStay
      <4> QED
        BY <4>1, <4>2, <4>3
    <3> QED
      BY <3>2, <3>3
  <2>14. SaveInv'
    <3>1. \A d \in Clients : client'[d].at = "saveAnswer" => client'[d] = client[d]
      BY <2>5 DEF Others
    <3> QED
      BY <1>1, <2>6, <3>1, SavesOneAtATime
  <2>15. AwaitedInv'
    <3>1. slip \cap {"again", "unsaved", "late"} \subseteq slip'
      BY <2>2
    <3> QED
      BY <1>1, <1>2, <1>4, <2>6, <2>12, <3>1, QuestionsStayAwaited
  <2> QED
    BY <1>1, <1>2, <2>6, <2>7, <2>8, <2>9, <2>11, <2>13, <2>14, <2>15, AskersStay, ResumeStays, AgentsKeepTheirAnswer
       DEF RecordsInv
<1> QED
  BY <1>3, <1>4

\* What is written is what the engine took.
LEMMA DecideSaveStep ==
    ASSUME RecordsInv, NEW c \in Clients, DecideSave(c)
    PROVE  RecordsInv'
<1>1. /\ TypeOK /\ WaitInv /\ TruthInv /\ ClientInv /\ AskerInv /\ SaveInv /\ ResumeInv
      /\ GateRecordsTrue /\ AwaitedInv /\ AgentGotTheAnswer
  BY DEF RecordsInv
<1>2. PICK o, n, s : o = client[c].occ /\ n = client[c].seq /\ s = client[c].says
  OBVIOUS
<1>3. /\ client[c].at = "saveGate" /\ Ends(c) /\ Writes(o, n, s)
      /\ UNCHANGED <<wait, qs, asker, ch, running, listed, opened, faults, truth, slip>>
  BY <1>2 DEF resumeVars, DecideSave, Writes
<1>4. /\ o \in GateOccs /\ n \in 1..Len(gates[o]) /\ s \in Decisions
      /\ "stale" \notin slip => truth[o][n] = s
  BY <1>1, <1>2, <1>3 DEF ClientInv, ClientOf, Decisions
<1>5. /\ gates' \in [GateOccs -> Seq(GateRecord)]
      /\ \A p \in GateOccs \ {o} : gates'[p] = gates[p]
      /\ Len(gates'[o]) = Len(gates[o])
      /\ \A x \in 1..Len(gates[o]) :
           /\ gates'[o][x].hash = gates[o][x].hash
           /\ gates'[o][x].decision = IF x = n THEN s ELSE gates[o][x].decision
  BY <1>1, <1>3, <1>4, GateIsSaved
<1>6. client' \in [Clients -> ClientRecord] /\ Others(c) /\ client'[c].at = "idle"
  BY <1>1, <1>3, ClientEnds
<1>7. /\ GatesGrow /\ QuestionsGrow /\ AnswersStay /\ SlipsStay
      /\ \A p \in AskOccs : OpenSeqs(p)' = OpenSeqs(p)
  BY <1>1, <1>3, <1>5, Lengths DEF GatesGrow, QuestionsGrow, AnswersStay, SlipsStay, OpenSeqs
<1>8. TypeOK'
  BY <1>1, <1>3, <1>5, <1>6 DEF TypeOK
<1>9. WaitInv' /\ TruthInv'
  <2>1. \A p \in GateOccs : Len(gates'[p]) = Len(gates[p])
    BY <1>5
  <2>2. \A p \in GateOccs : \A x \in 1..Len(gates[p]) : gates'[p][x].hash = gates[p][x].hash
    BY <1>5
  <2>3. TruthInv'
    BY <1>1, <1>3, <2>1 DEF TruthInv
  <2> QED
    BY <1>1, <1>3, <2>1, <2>2, <2>3 DEF WaitInv
<1>10. ClientInv' /\ SaveInv'
  <2>1. \A d \in Clients : client'[d] = client[d] \/ client'[d].at = "idle"
    BY <1>6 DEF Others
  <2> QED
    BY <1>1, <1>3, <1>7, <2>1, ClientsStay, SavesOneAtATime
<1>11. GateRecordsTrue'
  <2> SUFFICES ASSUME slip \cap {"stale", "unsaved"} = {}, NEW p \in GateOccs, NEW x \in 1..Len(gates'[p])
               PROVE  Saving("saveGate", p, x)' \/ gates'[p][x].decision = truth[p][x]
    BY <1>3, <1>5, GateLength DEF GateRecordsTrue
  <2>1. x \in 1..Len(gates[p]) /\ (Saving("saveGate", p, x) \/ gates[p][x].decision = truth[p][x])
    BY <1>1, <1>5, Lengths DEF GateRecordsTrue
  <2>2. CASE p = o /\ x = n
    BY <1>4, <1>5, <2>2
  <2>3. CASE ~(p = o /\ x = n)
    <3>1. gates'[p][x].decision = gates[p][x].decision
      BY <1>5, <2>1, <2>3
    <3>2. Saving("saveGate", p, x) => Saving("saveGate", p, x)'
      BY <1>2, <1>6, <2>3 DEF Saving, Others
    <3> QED
      BY <2>1, <3>1, <3>2
  <2> QED
    BY <2>2, <2>3
<1>12. AwaitedInv'
  <2>1. SavesStay("saveAnswer")
    BY <1>3, <1>6, SavesStayBut
  <2> QED
    BY <1>1, <1>3, <1>7, <2>1, QuestionsStayAwaited
<1> QED
  BY <1>1, <1>3, <1>7, <1>8, <1>9, <1>10, <1>11, <1>12, AskersStay, ResumeStays, AgentsKeepTheirAnswer
     DEF RecordsInv

(***************************************************************************)
(* ask_human and Answer                                                    *)
(***************************************************************************)

\* A call of ask_human moves; its question stays its own while it goes on.
LEMMA AskerStep ==
    ASSUME RecordsInv, NEW a \in Askers, running = "yes", UNCHANGED <<wait, gates, qs, client, running, listed, truth>>,
           ch' \in [Askers -> BOOLEAN], faults' \in 0..MaxFaults, opened' \in 0..MaxOpen,
           slip' \in {slip, slip \cup {"again"}},
           asker' \in [Askers -> AskerRecord], OtherAskers(a), AskerOf(a)',
           \/ asker[a].at = "idle"
           \/ "again" \in slip'
           \/ asker'[a].at # "idle" /\ asker'[a].occ = asker[a].occ /\ asker'[a].seq = asker[a].seq
           \/ ~Open(qs[asker[a].occ][asker[a].seq]),
           asker'[a].at = "idle" /\ asker'[a].got # "none" =>
               qs[asker'[a].occ][asker'[a].seq].answer = asker'[a].got
    PROVE  RecordsInv'
<1>1. /\ TypeOK /\ WaitInv /\ TruthInv /\ ClientInv /\ AskerInv /\ SaveInv /\ ResumeInv
      /\ GateRecordsTrue /\ AwaitedInv /\ AgentGotTheAnswer
  BY DEF RecordsInv
<1>2. /\ GatesGrow /\ QuestionsGrow /\ AnswersStay /\ TruthInv' /\ WaitInv' /\ SlipsStay
      /\ \A o \in AskOccs : OpenSeqs(o)' = OpenSeqs(o)
      /\ SavesStay("saveGate") /\ SavesStay("saveAnswer")
  BY RecordsStay DEF SlipsStay, SavesStay, Saving
<1>3. TypeOK'
  <2>1. slip' \in SUBSET Slips
    BY <1>1 DEF TypeOK, Slips
  <2> QED
    BY <1>1, <2>1 DEF TypeOK
<1>4. ClientInv' /\ SaveInv'
  BY <1>1, <1>2, ClientsStay, SavesOneAtATime
<1>5. AskerInv'
  <2> SUFFICES ASSUME NEW b \in Askers PROVE AskerOf(b)'
    BY DEF AskerInv
  <2>1. CASE b = a
    BY <2>1
  <2>2. CASE b # a
    <3>1. asker'[b] = asker[b] /\ AskerOf(b)
      BY <1>1, <2>2 DEF OtherAskers, AskerInv
    <3> QED
      BY <3>1 DEF AskerOf, Has
  <2> QED
    BY <2>1, <2>2
<1>6. GateRecordsTrue'
  BY <1>1, <1>2, GatesStayTrue
<1>7. AwaitedInv'
  <2> SUFFICES ASSUME slip' \cap {"again", "unsaved", "late"} = {},
                      NEW o \in AskOccs, NEW n \in OpenSeqs(o)
               PROVE  Awaited(o, n)'
    BY <1>2 DEF AwaitedInv
  <2>1. Awaited(o, n)
    BY <1>1 DEF AwaitedInv
  <2>2. ASSUME NEW b \in Askers, asker[b].at # "idle", asker[b].occ = o, asker[b].seq = n
        PROVE  asker'[b].at # "idle" /\ asker'[b].occ = o /\ asker'[b].seq = n
    <3>1. CASE b = a
      <4>1. Open(qs[asker[a].occ][asker[a].seq])
        BY <2>2, <3>1 DEF OpenSeqs
      <4> QED
        BY <2>2, <3>1, <4>1
    <3>2. CASE b # a
      BY <2>2, <3>2 DEF OtherAskers
    <3> QED
      BY <3>1, <3>2
  <2>3. Saving("saveAnswer", o, n) => Saving("saveAnswer", o, n)'
    BY DEF Saving
  <2> QED
    BY <2>1, <2>2, <2>3 DEF Awaited
<1>8. AgentGotTheAnswer'
  <2> SUFFICES ASSUME "twice" \notin slip', NEW b \in Askers, asker'[b].at = "idle", asker'[b].got # "none"
               PROVE  qs[asker'[b].occ][asker'[b].seq].answer = asker'[b].got
    BY DEF AgentGotTheAnswer
  <2>1. CASE b = a
    BY <2>1
  <2>2. CASE b # a
    <3>1. asker'[b] = asker[b] /\ "twice" \notin slip
      BY <2>2 DEF OtherAskers
    <3> QED
      BY <1>1, <3>1 DEF AgentGotTheAnswer
  <2> QED
    BY <2>1, <2>2
<1>9. ResumeInv'
  BY <1>1, <1>2, ResumeStays
<1> QED
  BY <1>1, <1>2, <1>3, <1>4, <1>5, <1>6, <1>7, <1>8, <1>9 DEF RecordsInv

LEMMA AskBeginStep ==
    ASSUME RecordsInv, NEW a \in Askers, NEW o \in RoleOccs, AskBegin(a, o)
    PROVE  RecordsInv'
<1>1. TypeOK /\ AskerInv
  BY DEF RecordsInv
<1>2. /\ UNCHANGED <<wait, gates, qs, client, ch, running, listed, faults, truth, slip>>
      /\ opened < MaxOpen /\ opened' = opened + 1 /\ running = "yes"
  BY DEF AskBegin, recordVars, resumeVars
<1>3. opened' \in 0..MaxOpen
  BY <1>1, <1>2, BoundsAssumption DEF TypeOK
<1>4. /\ asker' \in [Askers -> AskerRecord] /\ OtherAskers(a) /\ asker[a].at = "idle"
      /\ asker'[a].at = "add" /\ asker'[a].occ = o /\ asker'[a].seq = 0 /\ asker'[a].got = "none"
  BY <1>1, AskBegins
<1>5. AskerOf(a)'
  BY <1>4 DEF AskerOf, Has
<1> QED
  BY <1>1, <1>2, <1>3, <1>4, <1>5, AskerStep DEF TypeOK

LEMMA AskMoves ==
    ASSUME RecordsInv, NEW a \in Askers, UNCHANGED <<wait, gates, qs, client, running, listed, opened, faults, truth, slip>>,
           ch' \in [Askers -> BOOLEAN], NEW at \in {"channel", "read", "select"}, AskTo(a, at),
           asker[a].at \in {"channel", "read", "select"}
    PROVE  RecordsInv'
<1>1. TypeOK /\ AskerInv /\ running = "yes"
  BY DEF RecordsInv, ResumeInv
<1>2. /\ asker' \in [Askers -> AskerRecord] /\ OtherAskers(a)
      /\ asker'[a].at = at /\ asker'[a].occ = asker[a].occ /\ asker'[a].seq = asker[a].seq
  BY <1>1, AskerGoes
<1>3. AskerOf(a)'
  BY <1>1, <1>2 DEF AskerInv, AskerOf, Has
<1> QED
  BY <1>1, <1>2, <1>3, AskerStep DEF TypeOK

LEMMA AskChannelStep ==
    ASSUME RecordsInv, NEW a \in Askers, AskChannel(a)
    PROVE  RecordsInv'
<1>1. ch' \in [Askers -> BOOLEAN]
  BY DEF AskChannel, RecordsInv, TypeOK
<1> QED
  BY <1>1, AskMoves DEF AskChannel, recordVars, resumeVars

LEMMA AskWokenStep ==
    ASSUME RecordsInv, NEW a \in Askers, AskWoken(a)
    PROVE  RecordsInv'
BY AskMoves DEF AskWoken, RecordsInv, TypeOK, recordVars, resumeVars

\* ask_human returns the answer that the record of its own question holds.
LEMMA AskReadStep ==
    ASSUME RecordsInv, NEW a \in Askers, AskRead(a)
    PROVE  RecordsInv'
<1>1. TypeOK /\ AskerInv /\ running = "yes"
  BY DEF RecordsInv, ResumeInv, AskRead
<1>2. asker[a].at = "read" /\ UNCHANGED <<wait, gates, qs, client, running, listed, opened, faults, truth, slip>>
  BY DEF AskRead, recordVars, resumeVars
<1>3. PICK o, n, s : o = asker[a].occ /\ n = asker[a].seq /\ s = qs[o][n].answer
  OBVIOUS
<1>4. o \in AskOccs /\ o \in RoleOccs /\ n \in 1..Len(qs[o])
  BY <1>1, <1>2, <1>3 DEF AskerInv, AskerOf, Has
<1>5. CASE s = "none"
  BY <1>1, <1>2, <1>3, <1>5, AskMoves DEF AskRead, TypeOK
<1>6. CASE s # "none"
  <2>1. /\ asker' = [asker EXCEPT ![a].at = "idle", ![a].got = s]
        /\ ch' = [ch EXCEPT ![a] = FALSE]
    BY <1>3, <1>6 DEF AskRead
  <2>2. qs[o] \in Seq(QuestionRecord) /\ asker \in [Askers -> AskerRecord]
    BY <1>1, <1>4 DEF TypeOK
  <2>3. qs[o][n] \in QuestionRecord
    BY <1>4, <2>2
  <2>4. s \in Answers \cup {"none"}
    BY <1>3, <2>3 DEF QuestionRecord
  <2>5. PICK r : r = [asker[a] EXCEPT !.at = "idle", !.got = s]
    OBVIOUS
  <2>6. r \in AskerRecord /\ r.at = "idle" /\ r.occ = o /\ r.seq = n /\ r.got = s
    BY <1>3, <2>2, <2>4, <2>5 DEF AskerRecord
  <2>7. asker' = [asker EXCEPT ![a] = r]
    BY <2>1, <2>2, <2>5 DEF AskerRecord
  <2>8. asker' \in [Askers -> AskerRecord] /\ OtherAskers(a) /\ asker'[a] = r
    BY <2>2, <2>6, <2>7 DEF OtherAskers
  <2>9. AskerOf(a)'
    BY <1>2, <1>4, <2>6, <2>8 DEF AskerOf, Has
  <2>10. ch' \in [Askers -> BOOLEAN]
    BY <1>1, <2>1 DEF TypeOK
  <2>11. ~Open(qs[asker[a].occ][asker[a].seq])
    BY <1>3, <1>6 DEF Open
  <2>12. qs[asker'[a].occ][asker'[a].seq].answer = asker'[a].got
    BY <1>3, <2>6, <2>8
  <2> QED
    BY <1>1, <1>2, <2>8, <2>9, <2>10, <2>11, <2>12, AskerStep DEF TypeOK
<1> QED
  BY <1>5, <1>6

LEMMA AskGivesUpStep ==
    ASSUME RecordsInv, NEW a \in Askers, AskGivesUp(a)
    PROVE  RecordsInv'
<1>1. TypeOK /\ running = "yes"
  BY DEF RecordsInv, ResumeInv, AskGivesUp
<1>2. /\ UNCHANGED <<wait, gates, qs, client, running, listed, opened, truth>> /\ slip' = slip \cup {"again"}
      /\ faults < MaxFaults /\ faults' = faults + 1
      /\ asker' = [asker EXCEPT ![a] = NotAsking] /\ ch' = [ch EXCEPT ![a] = FALSE]
  BY DEF AskGivesUp, recordVars, resumeVars
<1>3. ch' \in [Askers -> BOOLEAN] /\ faults' \in 0..MaxFaults
  BY <1>1, <1>2, BoundsAssumption DEF TypeOK
<1>4. /\ asker' \in [Askers -> AskerRecord] /\ OtherAskers(a)
      /\ asker'[a].at = "idle" /\ asker'[a].got = "none"
  BY <1>1, <1>2, AskGivesUpDoes
<1>5. AskerOf(a)'
  BY <1>4 DEF AskerOf, Has
<1> QED
  BY <1>1, <1>2, <1>3, <1>4, <1>5, AskerStep DEF TypeOK

\* The question that a call of ask_human adds is its own; without a slip it is the only
\* one of its node that is open.
LEMMA AskAddStep ==
    ASSUME RecordsInv, NEW a \in Askers, AskAdd(a)
    PROVE  RecordsInv'
<1>1. /\ TypeOK /\ WaitInv /\ TruthInv /\ ClientInv /\ AskerInv /\ SaveInv /\ ResumeInv
      /\ GateRecordsTrue /\ AwaitedInv /\ AgentGotTheAnswer
  BY DEF RecordsInv
<1>2. PICK o, k : o = asker[a].occ /\ k = Len(qs[o]) + 1
  OBVIOUS
<1>3. /\ asker[a].at = "add" /\ UNCHANGED <<wait, gates, client, ch, running, listed, opened, faults, truth>>
      /\ qs' = [qs EXCEPT ![o] = Append(qs[o], Asked)]
      /\ slip' = IF OpenSeqs(o) # {} THEN slip \cup {"again"} ELSE slip
      /\ asker' = [asker EXCEPT ![a].at = "channel", ![a].seq = k]
  BY <1>2 DEF AskAdd, AddQuestion, resumeVars
<1>4. o \in RoleOccs /\ o \in AskOccs /\ o \notin FixedOccs /\ asker[a].seq = 0 /\ running = "yes"
  BY <1>1, <1>2, <1>3, OccurrencesAssumption DEF AskerInv, AskerOf, AskOccs, ResumeInv
<1>5. /\ qs' \in [AskOccs -> Seq(QuestionRecord)]
      /\ \A p \in AskOccs \ {o} : qs'[p] = qs[p]
      /\ Len(qs'[o]) = k /\ k \in Nat /\ Len(qs[o]) \in Nat /\ k = Len(qs[o]) + 1
      /\ \A n \in 1..Len(qs[o]) : qs'[o][n] = qs[o][n]
  <2>1. /\ qs' \in [AskOccs -> Seq(QuestionRecord)]
        /\ \A p \in AskOccs \ {o} : qs'[p] = qs[p]
        /\ Len(qs'[o]) = Len(qs[o]) + 1 /\ Len(qs[o]) \in Nat
        /\ \A n \in 1..Len(qs[o]) : qs'[o][n] = qs[o][n]
    BY <1>1, <1>3, <1>4, QuestionIsAdded, Zenon
  <2> QED
    BY <1>2, <2>1
<1>6. /\ asker' \in [Askers -> AskerRecord] /\ OtherAskers(a)
      /\ asker'[a].at = "channel" /\ asker'[a].occ = o /\ asker'[a].seq = k
  <2>1. asker \in [Askers -> AskerRecord]
    BY <1>1 DEF TypeOK
  <2>2. PICK r : r = [asker[a] EXCEPT !.at = "channel", !.seq = k]
    OBVIOUS
  <2>3. r \in AskerRecord /\ r.at = "channel" /\ r.occ = o /\ r.seq = k
    BY <1>2, <1>5, <2>1, <2>2 DEF AskerRecord
  <2>4. asker' = [asker EXCEPT ![a] = r]
    BY <1>3, <2>1, <2>2 DEF AskerRecord
  <2> QED
    BY <2>1, <2>3, <2>4 DEF OtherAskers
<1>7. /\ GatesGrow /\ QuestionsGrow /\ AnswersStay /\ SlipsStay
      /\ SavesStay("saveGate") /\ SavesStay("saveAnswer")
  <2>1. GatesGrow
    BY <1>1, <1>3, Lengths DEF GatesGrow
  <2>2. QuestionsGrow
    <3> SUFFICES ASSUME NEW p \in AskOccs
                 PROVE  Len(qs[p]) \in Nat /\ Len(qs'[p]) \in Nat /\ Len(qs[p]) <= Len(qs'[p])
      BY DEF QuestionsGrow
    <3>1. Len(qs[p]) \in Nat
      BY <1>1, Lengths
    <3>2. Len(qs'[p]) \in {Len(qs[p]), Len(qs[p]) + 1}
      BY <1>5
    <3> QED
      BY <3>1, <3>2
  <2>3. AnswersStay
    BY <1>5 DEF AnswersStay
  <2> QED
    BY <1>3, <2>1, <2>2, <2>3 DEF SlipsStay, SavesStay, Saving
<1>8. TypeOK'
  <2>1. slip' \in SUBSET Slips
    BY <1>1, <1>3 DEF TypeOK, Slips
  <2> QED
    BY <1>1, <1>3, <1>5, <1>6, <2>1 DEF TypeOK
<1>9. WaitInv' /\ TruthInv'
  <2>1. \A p \in FixedOccs : qs'[p] = qs[p]
    BY <1>4, <1>5 DEF AskOccs
  <2>2. \A p \in FixedOccs : Len(qs'[p]) <= 1
    BY <1>1, <2>1 DEF WaitInv
  <2> QED
    BY <1>1, <1>3, <2>2, WaitStays DEF TruthInv
<1>10. AskerInv'
  <2> SUFFICES ASSUME NEW b \in Askers PROVE AskerOf(b)'
    BY DEF AskerInv
  <2>1. CASE b = a
    BY <1>4, <1>5, <1>6, <2>1 DEF AskerOf, Has
  <2>2. CASE b # a
    <3>1. asker'[b] = asker[b] /\ AskerOf(b)
      BY <1>1, <1>6, <2>2 DEF OtherAskers, AskerInv
    <3>2. \A p \in AskOccs : 1..Len(qs[p]) \subseteq 1..Len(qs'[p])
      BY <1>7 DEF QuestionsGrow
    <3> QED
      BY <3>1, <3>2 DEF AskerOf, Has
  <2> QED
    BY <2>1, <2>2
<1>11. GateRecordsTrue'
  <2>1. slip \cap {"stale", "unsaved"} \subseteq slip'
    BY <1>3
  <2> QED
    BY <1>1, <1>3, <1>7, <2>1, GatesStayTrue
<1>12. AwaitedInv'
  <2> SUFFICES ASSUME running' \in {"yes", "closing"}, slip' \cap {"again", "unsaved", "late"} = {},
                      NEW p \in AskOccs, NEW n \in OpenSeqs(p)'
               PROVE  Awaited(p, n)'
    BY <1>3 DEF AwaitedInv
  <2>1. OpenSeqs(o) = {} /\ slip' = slip
    BY <1>3
  <2>2. CASE p = o
    <3>1. qs'[o] \in Seq(QuestionRecord)
      BY <1>4, <1>5
    <3>2. n \in 1..Len(qs'[o]) /\ Open(qs'[o][n])
      BY <2>2, <3>1 DEF OpenSeqs
    <3>3. ASSUME n \in 1..Len(qs[o]) PROVE FALSE
      <4>1. Open(qs[o][n]) /\ n \in DOMAIN qs[o]
        BY <1>1, <1>4, <1>5, <3>2, <3>3, Lengths DEF TypeOK
      <4> QED
        BY <2>1, <4>1 DEF OpenSeqs
    <3>4. n = k
      BY <1>5, <3>2, <3>3
    <3> QED
      BY <1>6, <2>2, <3>4 DEF Awaited
  <2>3. CASE p # o
    <3>1. n \in OpenSeqs(p)
      BY <1>5, <2>3 DEF OpenSeqs
    <3>2. Awaited(p, n)
      BY <1>1, <1>3, <2>1, <3>1 DEF AwaitedInv
    <3>3. \A b \in Askers : asker[b].occ = p => asker'[b] = asker[b]
      BY <1>2, <1>6, <2>3 DEF OtherAskers
    <3>4. Saving("saveAnswer", p, n) => Saving("saveAnswer", p, n)'
      BY <1>3 DEF Saving
    <3> QED
      BY <1>3, <3>2, <3>3, <3>4 DEF Awaited
  <2> QED
    BY <2>2, <2>3
<1>13. AgentGotTheAnswer'
  <2>1. \A b \in Askers : asker'[b].at = "idle" /\ asker'[b].got # "none" => asker'[b] = asker[b]
    BY <1>6 DEF OtherAskers
  <2> QED
    BY <1>1, <1>7, <2>1, AgentsKeepTheirAnswer
<1>14. ResumeInv'
  BY <1>1, <1>3, <1>4, <1>7, ResumeStays
<1> QED
  BY <1>1, <1>3, <1>7, <1>8, <1>9, <1>10, <1>11, <1>12, <1>13, <1>14, ClientsStay, SavesOneAtATime
     DEF RecordsInv

\* A call that Stop has cut adds its question for nobody: a slip, if the questions have been
\* listed already.
LEMMA AskLateStep ==
    ASSUME RecordsInv, NEW a \in Askers, AskLate(a)
    PROVE  RecordsInv'
<1>1. /\ TypeOK /\ WaitInv /\ TruthInv /\ ClientInv /\ AskerInv /\ SaveInv /\ ResumeInv
      /\ GateRecordsTrue /\ AgentGotTheAnswer
  BY DEF RecordsInv
<1>2. PICK o : o = asker[a].occ
  OBVIOUS
<1>3. /\ asker[a].at = "late" /\ UNCHANGED <<wait, gates, client, ch, running, listed, opened, faults, truth>>
      /\ qs' = [qs EXCEPT ![o] = Append(qs[o], Asked)]
      /\ slip' = IF running \in {"yes", "closing"} THEN slip \cup {"late"} ELSE slip
      /\ asker' = [asker EXCEPT ![a] = NotAsking]
  BY <1>2 DEF AskLate, AddQuestion, resumeVars
<1>4. o \in RoleOccs /\ o \in AskOccs /\ o \notin FixedOccs
  BY <1>1, <1>2, <1>3, OccurrencesAssumption DEF AskerInv, AskerOf, AskOccs
<1>5. /\ qs' \in [AskOccs -> Seq(QuestionRecord)]
      /\ \A p \in AskOccs \ {o} : qs'[p] = qs[p]
      /\ Len(qs'[o]) = Len(qs[o]) + 1 /\ Len(qs[o]) \in Nat
      /\ \A n \in 1..Len(qs[o]) : qs'[o][n] = qs[o][n]
  BY <1>1, <1>3, <1>4, QuestionIsAdded, Zenon
<1>6. /\ asker' \in [Askers -> AskerRecord] /\ OtherAskers(a)
      /\ asker'[a].at = "idle" /\ asker'[a].got = "none"
  BY <1>1, <1>3, AskGivesUpDoes
<1>7. /\ GatesGrow /\ QuestionsGrow /\ AnswersStay /\ SlipsStay /\ SavesStay("saveGate")
  <2>1. GatesGrow
    BY <1>1, <1>3, Lengths DEF GatesGrow
  <2>2. QuestionsGrow
    <3> SUFFICES ASSUME NEW p \in AskOccs
                 PROVE  Len(qs[p]) \in Nat /\ Len(qs'[p]) \in Nat /\ Len(qs[p]) <= Len(qs'[p])
      BY DEF QuestionsGrow
    <3>1. Len(qs[p]) \in Nat
      BY <1>1, Lengths
    <3>2. Len(qs'[p]) \in {Len(qs[p]), Len(qs[p]) + 1}
      BY <1>5
    <3> QED
      BY <3>1, <3>2
  <2>3. AnswersStay
    BY <1>5 DEF AnswersStay
  <2> QED
    BY <1>3, <2>1, <2>2, <2>3 DEF SlipsStay, SavesStay, Saving
<1>8. TypeOK'
  <2>1. slip' \in SUBSET Slips
    BY <1>1, <1>3 DEF TypeOK, Slips
  <2> QED
    BY <1>1, <1>3, <1>5, <1>6, <2>1 DEF TypeOK
<1>9. WaitInv' /\ TruthInv'
  <2>1. \A p \in FixedOccs : qs'[p] = qs[p]
    BY <1>4, <1>5 DEF AskOccs
  <2>2. \A p \in FixedOccs : Len(qs'[p]) <= 1
    BY <1>1, <2>1 DEF WaitInv
  <2> QED
    BY <1>1, <1>3, <2>2, WaitStays DEF TruthInv
<1>10. \A b \in Askers : asker'[b] = asker[b] \/ (asker'[b].at = "idle" /\ asker'[b].got = "none")
  BY <1>6 DEF OtherAskers
<1>11. AskerInv' /\ ResumeInv'
  BY <1>1, <1>3, <1>7, <1>10, AskersStay, ResumeStays
<1>12. GateRecordsTrue'
  <2>1. slip \cap {"stale", "unsaved"} \subseteq slip'
    BY <1>3
  <2> QED
    BY <1>1, <1>3, <1>7, <2>1, GatesStayTrue
<1>13. AwaitedInv'
  BY <1>3 DEF AwaitedInv
<1>14. AgentGotTheAnswer'
  BY <1>1, <1>7, <1>10, AgentsKeepTheirAnswer
<1> QED
  BY <1>1, <1>3, <1>7, <1>8, <1>9, <1>11, <1>12, <1>13, <1>14, ClientsStay, SavesOneAtATime
     DEF RecordsInv

\* The engine takes an answer; the call that it took it from is to write it.
LEMMA AnswerEngineStep ==
    ASSUME RecordsInv, NEW c \in Clients, AnswerEngine(c)
    PROVE  RecordsInv'
<1>1. /\ TypeOK /\ WaitInv /\ TruthInv /\ ClientInv /\ AskerInv /\ SaveInv /\ ResumeInv
      /\ GateRecordsTrue /\ AwaitedInv /\ AgentGotTheAnswer
  BY DEF RecordsInv
<1>2. client[c].at = "answer" /\ UNCHANGED <<gates, qs, asker, ch, running, listed, opened, faults, truth>>
  BY DEF AnswerEngine, recordVars, resumeVars
<1>3. CASE ~(running # "no" /\ wait.kind \in {"fixed", "ask"} /\ wait.occ = client[c].occ)
  BY <1>1, <1>2, <1>3, CallEnds DEF AnswerEngine, TypeOK
<1>4. CASE running # "no" /\ wait.kind \in {"fixed", "ask"} /\ wait.occ = client[c].occ
  <2>1. PICK o, n : o = client[c].occ /\ n = client[c].seq
    OBVIOUS
  <2>2. /\ To(c, "saveAnswer")
        /\ wait' = IF wait.kind = "fixed" THEN Work ELSE wait
        /\ slip' = IF \/ \E d \in Clients \ {c} : client[d].at = "saveAnswer" /\ client[d].seq = n
                      \/ ~Open(qs[o][n])
                   THEN slip \cup {"twice"} ELSE slip
    BY <1>4, <2>1 DEF AnswerEngine
  <2>3. o \in AskOccs /\ n \in 1..Len(qs[o]) /\ client[c].says \in Answers /\ Len(qs[o]) \in Nat
    BY <1>1, <1>2, <2>1, Lengths DEF ClientInv, ClientOf
  <2>4. /\ client' \in [Clients -> ClientRecord] /\ Others(c)
        /\ client'[c].at = "saveAnswer" /\ client'[c].occ = o /\ client'[c].seq = n
        /\ client'[c].says = client[c].says
    BY <1>1, <2>1, <2>2, ClientGoes
  <2>5. /\ GatesGrow /\ QuestionsGrow /\ AnswersStay /\ TruthInv' /\ SlipsStay
        /\ \A p \in AskOccs : OpenSeqs(p)' = OpenSeqs(p)
        /\ SavesStay("saveGate") /\ SavesStay("saveAnswer")
        /\ WaitInv' /\ wait' \in WaitRecord
    <3>1. wait' \in {wait, Work} /\ SlipsStay
      BY <2>2 DEF SlipsStay
    <3>2. SavesStay("saveGate") /\ SavesStay("saveAnswer")
      BY <1>2, <2>4, SavesStayBut
    <3> QED
      BY <1>2, <3>1, <3>2, RecordsStay
  <2>6. TypeOK'
    <3>1. slip' \in SUBSET Slips
      BY <1>1, <2>2 DEF TypeOK, Slips
    <3> QED
      BY <1>1, <1>2, <2>4, <2>5, <3>1 DEF TypeOK
  <2>7. ClientInv'
    <3> SUFFICES ASSUME NEW d \in Clients PROVE ClientOf(d)'
      BY DEF ClientInv
    <3>1. CASE d = c
      BY <1>2, <2>3, <2>4, <3>1 DEF ClientOf
    <3>2. CASE d # c
      <4>1. client'[d] = client[d]
        BY <2>4, <3>2 DEF Others
      <4> QED
        BY <1>1, <1>2, <2>5, <4>1, ClientStays
    <3> QED
      BY <3>1, <3>2
  <2>8. SaveInv'
    <3> SUFFICES ASSUME "twice" \notin slip', NEW d \in Clients PROVE SaveOf(d)'
      BY DEF SaveInv
    <3>1. /\ "twice" \notin slip /\ Open(qs[o][n])
          /\ \A e \in Clients \ {c} : ~(client[e].at = "saveAnswer" /\ client[e].seq = n)
      BY <2>2
    <3>2. CASE d = c
      <4>1. qs'[client'[c].occ][client'[c].seq].answer = "none"
        BY <1>2, <2>4, <3>1 DEF Open
      <4>2. \A e \in Clients \ {c} : ~(client'[e].at = "saveAnswer" /\ client'[e].seq = client'[c].seq)
        BY <2>4, <3>1 DEF Others
      <4> QED
        BY <3>2, <4>1, <4>2 DEF SaveOf
    <3>3. CASE d # c
      <4>1. client'[d] = client[d] /\ SaveOf(d)
        BY <1>1, <2>4, <3>1, <3>3 DEF Others, SaveInv
      <4>2. ASSUME client[d].at = "saveAnswer", NEW e \in Clients \ {d}, client'[e].at = "saveAnswer",
                   client'[e].occ = client[d].occ, client'[e].seq = client[d].seq
            PROVE  FALSE
        <5>1. CASE e = c
          BY <2>4, <3>1, <3>3, <4>2, <5>1
        <5>2. CASE e # c
          <6>1. client'[e] = client[e]
            BY <2>4, <5>2 DEF Others
          <6> QED
            BY <4>1, <4>2, <6>1 DEF SaveOf
        <5> QED
          BY <5>1, <5>2
      <4> QED
        BY <1>2, <4>1, <4>2 DEF SaveOf
    <3> QED
      BY <3>2, <3>3
  <2>9. GateRecordsTrue'
    <3>1. slip \cap {"stale", "unsaved"} \subseteq slip'
      BY <2>2
    <3> QED
      BY <1>1, <1>2, <2>5, <3>1, GatesStayTrue
  <2>10. AwaitedInv'
    <3>1. CASE wait.kind # "fixed"
      <4>1. slip \cap {"again", "unsaved", "late"} \subseteq slip'
        BY <2>2
      <4> QED
        BY <1>1, <1>2, <2>5, <3>1, <4>1, QuestionsStayAwaited
    <3>2. CASE wait.kind = "fixed"
      <4>1. wait.n = n /\ wait.occ = o
        <5>1. o \in FixedOccs /\ wait.n = 1 /\ Len(qs[o]) <= 1
          BY <1>1, <1>4, <2>1, <3>2 DEF WaitInv
        <5> QED
          BY <1>4, <2>1, <2>3, <5>1
      <4> SUFFICES ASSUME running' \in {"yes", "closing"}, slip' \cap {"again", "unsaved", "late"} = {},
                          NEW p \in AskOccs, NEW x \in OpenSeqs(p)
                   PROVE  \/ \E b \in Askers : asker[b].at # "idle" /\ asker[b].occ = p /\ asker[b].seq = x
                          \/ Saving("saveAnswer", p, x)'
                          \/ <<p, x>> \in listed
        BY <1>2, <2>5 DEF AwaitedInv, Awaited
      <4>2. /\ slip \cap {"again", "unsaved", "late"} = {} /\ x \in Nat
        BY <1>1, <2>2, Lengths DEF OpenSeqs
      <4>3. \/ wait.occ = p /\ wait.n = x
            \/ \E b \in Askers : asker[b].at # "idle" /\ asker[b].occ = p /\ asker[b].seq = x
            \/ Saving("saveAnswer", p, x)
            \/ <<p, x>> \in listed
        BY <1>1, <1>2, <4>2 DEF AwaitedInv, Awaited
      <4>4. Saving("saveAnswer", p, x) => Saving("saveAnswer", p, x)'
        BY <2>5, <4>2 DEF SavesStay
      <4>5. Saving("saveAnswer", o, n)'
        BY <2>4 DEF Saving
      <4> QED
        BY <4>1, <4>3, <4>4, <4>5
    <3> QED
      BY <3>1, <3>2
  <2> QED
    BY <1>1, <1>2, <2>5, <2>6, <2>7, <2>8, <2>9, <2>10, AskersStay, ResumeStays, AgentsKeepTheirAnswer DEF RecordsInv
<1> QED
  BY <1>3, <1>4

\* An answer is written once, and nobody has read it before.
LEMMA AnswerSaveStep ==
    ASSUME RecordsInv, NEW c \in Clients, AnswerSave(c)
    PROVE  RecordsInv'
<1>1. /\ TypeOK /\ WaitInv /\ TruthInv /\ ClientInv /\ AskerInv /\ SaveInv /\ ResumeInv
      /\ GateRecordsTrue /\ AwaitedInv /\ AgentGotTheAnswer
  BY DEF RecordsInv
<1>2. PICK o, n, s : o = client[c].occ /\ n = client[c].seq /\ s = client[c].says
  OBVIOUS
<1>3. /\ client[c].at = "saveAnswer" /\ WritesQuestion(o, n, [answer |-> s, discarded |-> FALSE])
      /\ client' = [client EXCEPT ![c] = [Free EXCEPT !.at = "notify"]]
      /\ UNCHANGED <<wait, gates, asker, ch, running, listed, opened, faults, truth, slip>>
  BY <1>2 DEF AnswerSave, WritesQuestion, resumeVars
<1>4. o \in AskOccs /\ n \in 1..Len(qs[o]) /\ s \in Answers /\ s # "none"
  BY <1>1, <1>2, <1>3 DEF ClientInv, ClientOf, Answers
<1>5. /\ qs' \in [AskOccs -> Seq(QuestionRecord)]
      /\ \A p \in AskOccs \ {o} : qs'[p] = qs[p]
      /\ Len(qs'[o]) = Len(qs[o]) /\ qs'[o][n].answer = s
      /\ \A x \in 1..Len(qs[o]) : x # n => qs'[o][x] = qs[o][x]
  <2>1. PICK r : r = [answer |-> s, discarded |-> FALSE]
    OBVIOUS
  <2>2. r \in QuestionRecord /\ r.answer = s
    BY <1>4, <2>1 DEF QuestionRecord
  <2> QED
    BY <1>1, <1>3, <1>4, <2>1, <2>2, QuestionIsSaved
<1>6. client' \in [Clients -> ClientRecord] /\ Others(c) /\ client'[c].at = "notify"
  <2>1. PICK r : r = [Free EXCEPT !.at = "notify"]
    OBVIOUS
  <2>2. r \in ClientRecord /\ r.at = "notify"
    BY <2>1 DEF Free, ClientRecord, Occs
  <2>3. client \in [Clients -> ClientRecord]
    BY <1>1 DEF TypeOK
  <2> QED
    BY <1>3, <2>1, <2>2, <2>3 DEF Others
<1>7. /\ GatesGrow /\ QuestionsGrow /\ SlipsStay /\ SavesStay("saveGate")
  <2>1. \A p \in AskOccs : Len(qs'[p]) = Len(qs[p]) /\ Len(qs[p]) \in Nat
    BY <1>1, <1>5, Lengths
  <2>2. GatesGrow
    BY <1>1, <1>3, Lengths DEF GatesGrow
  <2>3. SavesStay("saveGate")
    BY <1>3, <1>6, SavesStayBut
  <2> QED
    BY <1>3, <2>1, <2>2, <2>3 DEF QuestionsGrow, SlipsStay
<1>8. \A p \in AskOccs : \A x \in 1..Len(qs[p]) : (p = o /\ x = n) \/ qs'[p][x] = qs[p][x]
  BY <1>5
<1>9. TypeOK'
  <2>1. slip' \in SUBSET Slips
    BY <1>1, <1>3 DEF TypeOK, Slips
  <2> QED
    BY <1>1, <1>3, <1>5, <1>6, <2>1 DEF TypeOK
<1>10. WaitInv' /\ TruthInv'
  <2>1. \A p \in FixedOccs : Len(qs'[p]) = Len(qs[p])
    BY <1>5 DEF AskOccs
  <2>2. \A p \in FixedOccs : Len(qs'[p]) <= 1
    BY <1>1, <2>1 DEF WaitInv
  <2> QED
    BY <1>1, <1>3, <2>2, WaitStays DEF TruthInv
<1>11. ClientInv'
  <2> SUFFICES ASSUME NEW d \in Clients PROVE ClientOf(d)'
    BY DEF ClientInv
  <2>1. CASE d = c
    BY <1>6, <2>1 DEF ClientOf
  <2>2. CASE d # c
    <3>1. client'[d] = client[d]
      BY <1>6, <2>2 DEF Others
    <3> QED
      BY <1>1, <1>3, <1>7, <3>1, ClientStays
  <2> QED
    BY <2>1, <2>2
<1>12. "twice" \in slip \/ (SaveOf(c) /\ qs[o][n].answer = "none")
  BY <1>1, <1>2, <1>3 DEF SaveInv, SaveOf
<1>13. SaveInv'
  <2> SUFFICES ASSUME "twice" \notin slip', NEW d \in Clients, client'[d].at = "saveAnswer" PROVE SaveOf(d)'
    BY DEF SaveInv, SaveOf
  <2>1. /\ "twice" \notin slip /\ d # c /\ client'[d] = client[d] /\ SaveOf(d) /\ ClientOf(d)
    BY <1>1, <1>3, <1>6 DEF Others, SaveInv, ClientInv
  <2>2. ~(client[d].occ = o /\ client[d].seq = n)
    BY <1>2, <1>3, <1>12, <2>1 DEF SaveOf
  <2>3. qs'[client[d].occ][client[d].seq].answer = "none"
    BY <1>8, <2>1, <2>2 DEF SaveOf, ClientOf
  <2>4. \A e \in Clients \ {d} : client'[e].at = "saveAnswer" => client'[e] = client[e]
    BY <1>6 DEF Others
  <2> QED
    BY <2>1, <2>3, <2>4 DEF SaveOf
<1>14. GateRecordsTrue'
  <2>1. slip \cap {"stale", "unsaved"} \subseteq slip'
    BY <1>3
  <2> QED
    BY <1>1, <1>3, <1>7, <2>1, GatesStayTrue
<1>15. AwaitedInv'
  <2> SUFFICES ASSUME running' \in {"yes", "closing"}, slip' \cap {"again", "unsaved", "late"} = {},
                      NEW p \in AskOccs, NEW x \in OpenSeqs(p)'
               PROVE  Awaited(p, x)'
    BY <1>3 DEF AwaitedInv
  <2>1. slip \cap {"again", "unsaved", "late"} = {}
    BY <1>3
  <2>2. qs'[p] \in Seq(QuestionRecord) /\ Len(qs'[p]) = Len(qs[p]) /\ DOMAIN qs[p] = 1..Len(qs[p])
    BY <1>1, <1>5, Lengths
  <2>3. x \in 1..Len(qs[p]) /\ Open(qs'[p][x])
    BY <2>2 DEF OpenSeqs
  <2>4. ~(p = o /\ x = n)
    BY <1>4, <1>5, <2>3 DEF Open
  <2>5. x \in OpenSeqs(p)
    <3>1. qs'[p][x] = qs[p][x]
      BY <1>8, <2>3, <2>4
    <3> QED
      BY <2>2, <2>3, <3>1 DEF OpenSeqs
  <2>6. Saving("saveAnswer", p, x) => Saving("saveAnswer", p, x)'
    BY <1>2, <1>6, <2>4 DEF Saving, Others
  <2> QED
    BY <1>1, <1>3, <2>1, <2>5, <2>6 DEF AwaitedInv, Awaited
<1>16. AgentGotTheAnswer'
  <2> SUFFICES ASSUME "twice" \notin slip', NEW a \in Askers, asker[a].at = "idle", asker[a].got # "none"
               PROVE  qs'[asker[a].occ][asker[a].seq].answer = asker[a].got
    BY <1>3 DEF AgentGotTheAnswer
  <2>1. /\ "twice" \notin slip /\ asker[a].occ \in AskOccs /\ asker[a].seq \in 1..Len(qs[asker[a].occ])
        /\ qs[asker[a].occ][asker[a].seq].answer = asker[a].got
    BY <1>1, <1>3 DEF AskerInv, AskerOf, Has, AgentGotTheAnswer
  <2> QED
    BY <1>8, <1>12, <2>1
<1>17. ResumeInv'
  BY <1>1, <1>3, <1>7, ResumeStays
<1> QED
  BY <1>1, <1>3, <1>7, <1>9, <1>10, <1>11, <1>13, <1>14, <1>15, <1>16, <1>17, AskersStay
     DEF RecordsInv

(***************************************************************************)
(* Stop, crash and Resume                                                  *)
(***************************************************************************)

NobodyAsks == \A a \in Askers : asker'[a].at = "idle" /\ asker'[a].got = "none"

LEMMA AllGiveUp ==
    ASSUME asker' = [a \in Askers |-> NotAsking], ch' = [a \in Askers |-> FALSE]
    PROVE  asker' \in [Askers -> AskerRecord] /\ ch' \in [Askers -> BOOLEAN] /\ NobodyAsks
BY NotAskingRecord DEF NobodyAsks

LEMMA StopStep ==
    ASSUME RecordsInv, Stop
    PROVE  RecordsInv'
<1>1. /\ TypeOK /\ WaitInv /\ TruthInv /\ ClientInv /\ AskerInv /\ SaveInv /\ ResumeInv
      /\ GateRecordsTrue /\ AgentGotTheAnswer
  BY DEF RecordsInv
<1>2. /\ UNCHANGED <<wait, gates, qs, client, listed, opened, truth, slip>>
      /\ faults < MaxFaults /\ faults' = faults + 1 /\ running = "yes" /\ running' = "no"
      /\ ch' \in [Askers -> BOOLEAN]
  BY DEF Stop, recordVars
<1>3. /\ GatesGrow /\ QuestionsGrow /\ AnswersStay /\ TruthInv' /\ WaitInv' /\ SlipsStay
      /\ SavesStay("saveGate")
  BY <1>2, RecordsStay DEF SlipsStay, SavesStay, Saving
<1>4. ASSUME NEW a \in Askers
      PROVE  /\ asker'[a] \in AskerRecord /\ asker'[a].got = "none"
             /\ \/ asker'[a].at = "idle"
                \/ asker'[a].at = "late" /\ asker'[a].occ \in RoleOccs /\ asker'[a].seq = 0
  <2>1. asker'[a] = IF asker[a].at \in {"add", "late"} THEN [asker[a] EXCEPT !.at = "late"] ELSE NotAsking
    BY DEF Stop
  <2>2. asker[a] \in AskerRecord /\ AskerOf(a)
    BY <1>1 DEF TypeOK, AskerInv
  <2>3. CASE asker[a].at \in {"add", "late"}
    <3>1. asker[a].occ \in RoleOccs /\ asker[a].seq = 0 /\ asker[a].got = "none"
      BY <2>2, <2>3 DEF AskerOf
    <3>2. PICK r : r = [asker[a] EXCEPT !.at = "late"]
      OBVIOUS
    <3>3. /\ r \in AskerRecord /\ r.at = "late" /\ r.occ = asker[a].occ /\ r.seq = asker[a].seq
          /\ r.got = asker[a].got
      BY <2>2, <3>2 DEF AskerRecord
    <3> QED
      BY <2>1, <2>3, <3>1, <3>2, <3>3
  <2>4. CASE asker[a].at \notin {"add", "late"}
    BY <2>1, <2>4, NotAskingRecord
  <2> QED
    BY <2>3, <2>4
<1>5. asker' \in [Askers -> AskerRecord]
  <2>1. asker' = [a \in Askers |-> asker'[a]]
    BY DEF Stop
  <2> QED
    BY <1>4, <2>1
<1>6. TypeOK'
  <2>1. faults' \in 0..MaxFaults
    BY <1>1, <1>2, BoundsAssumption DEF TypeOK
  <2> QED
    BY <1>1, <1>2, <1>5, <2>1 DEF TypeOK
<1>7. AskerInv' /\ AgentGotTheAnswer'
  <2>1. \A a \in Askers : AskerOf(a)'
    BY <1>4 DEF AskerOf, Has
  <2>2. AskerInv'
    BY <2>1 DEF AskerInv
  <2> QED
    BY <1>4, <2>2 DEF AgentGotTheAnswer
<1>8. AwaitedInv' /\ ResumeInv'
  BY <1>1, <1>2, <1>4 DEF AwaitedInv, ResumeInv
<1> QED
  BY <1>1, <1>2, <1>3, <1>6, <1>7, <1>8, ClientsStay, SavesOneAtATime, GatesStayTrue DEF RecordsInv

LEMMA CrashStep ==
    ASSUME RecordsInv, Crash
    PROVE  RecordsInv'
<1>1. /\ TypeOK /\ WaitInv /\ TruthInv /\ ClientInv /\ AskerInv /\ SaveInv /\ ResumeInv
      /\ GateRecordsTrue /\ AgentGotTheAnswer
  BY DEF RecordsInv
<1>2. /\ UNCHANGED <<wait, gates, qs, opened, truth>>
      /\ faults < MaxFaults /\ faults' = faults + 1 /\ running' = "no" /\ listed' = {}
      /\ asker' \in [Askers -> AskerRecord] /\ ch' \in [Askers -> BOOLEAN] /\ NobodyAsks
      /\ slip' = IF \E c \in Clients : client[c].at \in {"saveGate", "saveAnswer"}
                 THEN slip \cup {"unsaved"} ELSE slip
  BY AllGiveUp DEF Crash, recordVars, resumeVars
<1>3. client' \in [Clients -> ClientRecord] /\ \A c \in Clients : client'[c].at = "idle"
  BY FreeRecord DEF Crash
<1>4. /\ GatesGrow /\ QuestionsGrow /\ AnswersStay /\ TruthInv' /\ WaitInv' /\ SlipsStay
  BY <1>2, RecordsStay DEF SlipsStay
<1>5. TypeOK'
  <2>1. faults' \in 0..MaxFaults
    BY <1>1, <1>2, BoundsAssumption DEF TypeOK
  <2>2. slip' \in SUBSET Slips
    BY <1>1, <1>2 DEF TypeOK, Slips
  <2> QED
    BY <1>1, <1>2, <1>3, <2>1, <2>2 DEF TypeOK
<1>6. AskerInv' /\ AgentGotTheAnswer'
  BY <1>1, <1>2, <1>4, AskersStay DEF NobodyAsks, AgentGotTheAnswer
<1>7. ClientInv' /\ SaveInv'
  BY <1>3 DEF ClientInv, ClientOf, SaveInv, SaveOf
<1>8. GateRecordsTrue'
  <2>1. CASE \E c \in Clients : client[c].at \in {"saveGate", "saveAnswer"}
    BY <1>2, <2>1 DEF GateRecordsTrue
  <2>2. CASE ~\E c \in Clients : client[c].at \in {"saveGate", "saveAnswer"}
    <3>1. SavesStay("saveGate") /\ slip' = slip
      BY <1>2, <2>2 DEF SavesStay, Saving
    <3> QED
      BY <1>1, <1>2, <3>1, GatesStayTrue
  <2> QED
    BY <2>1, <2>2
<1>9. AwaitedInv' /\ ResumeInv'
  BY <1>2 DEF AwaitedInv, ResumeInv, NobodyAsks
<1> QED
  BY <1>4, <1>5, <1>6, <1>7, <1>8, <1>9 DEF RecordsInv

LEMMA ResumeRegisterStep ==
    ASSUME RecordsInv, ResumeRegister
    PROVE  RecordsInv'
<1>1. /\ TypeOK /\ WaitInv /\ TruthInv /\ ClientInv /\ AskerInv /\ SaveInv /\ ResumeInv
      /\ GateRecordsTrue /\ AgentGotTheAnswer
  BY DEF RecordsInv
<1>2. /\ UNCHANGED <<wait, gates, qs, client, asker, ch, listed, opened, faults, truth, slip>>
      /\ running = "no" /\ running' = "registered"
  BY DEF ResumeRegister, recordVars
<1>3. /\ GatesGrow /\ QuestionsGrow /\ AnswersStay /\ TruthInv' /\ WaitInv' /\ SlipsStay
      /\ SavesStay("saveGate")
  BY <1>2, RecordsStay DEF SlipsStay, SavesStay, Saving
<1>4. TypeOK' /\ AwaitedInv' /\ ResumeInv'
  BY <1>1, <1>2 DEF TypeOK, AwaitedInv, ResumeInv
<1> QED
  BY <1>1, <1>2, <1>3, <1>4, ClientsStay, AskersStay, SavesOneAtATime, GatesStayTrue, AgentsKeepTheirAnswer
     DEF RecordsInv

\* Resume lists the questions that are open, but for the one that the engine waits for.
LEMMA ResumeListsStep ==
    ASSUME RecordsInv, ResumeLists
    PROVE  RecordsInv'
<1>1. /\ TypeOK /\ WaitInv /\ TruthInv /\ ClientInv /\ AskerInv /\ SaveInv /\ ResumeInv
      /\ GateRecordsTrue /\ AgentGotTheAnswer
  BY DEF RecordsInv
<1>2. /\ UNCHANGED <<wait, gates, qs, client, asker, ch, opened, faults, truth>>
      /\ running = "registered" /\ running' = "closing" /\ slip' = slip \ {"again", "late"}
      /\ listed' = UNION {{o} \X Discardable(o) : o \in AskOccs}
  BY DEF ResumeLists, recordVars
<1>3. /\ GatesGrow /\ QuestionsGrow /\ AnswersStay /\ TruthInv' /\ WaitInv' /\ SlipsStay
      /\ \A o \in AskOccs : OpenSeqs(o)' = OpenSeqs(o)
      /\ SavesStay("saveGate")
  BY <1>2, RecordsStay DEF SlipsStay, SavesStay, Saving
<1>4. \A o \in AskOccs : \A n \in Discardable(o) : n \in 1..Len(qs[o]) /\ n \in Nat
  BY <1>1, Lengths DEF Discardable, OpenSeqs
<1>5. TypeOK'
  BY <1>1, <1>2, <1>4 DEF TypeOK
<1>6. ResumeInv'
  <2>1. \A o \in AskOccs, n \in Nat : <<o, n>> \in listed' => n \in Discardable(o)
    BY <1>2
  <2> QED
    BY <1>1, <1>2, <1>4, <2>1 DEF ResumeInv
<1>7. AwaitedInv'
  <2> SUFFICES ASSUME NEW o \in AskOccs, NEW n \in OpenSeqs(o)
               PROVE  \/ wait.kind = "fixed" /\ wait.occ = o /\ wait.n = n
                      \/ <<o, n>> \in listed'
    BY <1>2, <1>3 DEF AwaitedInv, Awaited
  <2>1. CASE wait.kind = "fixed" /\ wait.occ = o
    <3>1. n \in 1..Len(qs[o]) /\ Len(qs[o]) \in Nat
      BY <1>1, Lengths DEF OpenSeqs
    <3>2. wait.n = 1 /\ Len(qs[o]) <= 1
      BY <1>1, <2>1 DEF WaitInv
    <3> QED
      BY <2>1, <3>1, <3>2
  <2>2. CASE ~(wait.kind = "fixed" /\ wait.occ = o)
    <3>1. <<o, n>> \in {o} \X Discardable(o)
      BY <2>2 DEF Discardable
    <3> QED
      BY <1>2, <3>1
  <2> QED
    BY <2>1, <2>2
<1>8. GateRecordsTrue'
  <2>1. slip \cap {"stale", "unsaved"} \subseteq slip'
    BY <1>2
  <2> QED
    BY <1>1, <1>2, <1>3, <2>1, GatesStayTrue
<1> QED
  BY <1>1, <1>2, <1>3, <1>5, <1>6, <1>7, <1>8, ClientsStay, AskersStay, SavesOneAtATime, AgentsKeepTheirAnswer
     DEF RecordsInv

\* A question that is closed is open no more, and no agent has got its answer.
LEMMA ResumeDiscardStep ==
    ASSUME RecordsInv, NEW q \in listed, ResumeDiscard(q[1], q[2])
    PROVE  RecordsInv'
<1>1. /\ TypeOK /\ WaitInv /\ TruthInv /\ ClientInv /\ AskerInv /\ SaveInv /\ ResumeInv
      /\ GateRecordsTrue /\ AwaitedInv
  BY DEF RecordsInv
<1>2. PICK o, n, r : o = q[1] /\ n = q[2] /\ r = [answer |-> "none", discarded |-> TRUE]
  OBVIOUS
<1>3. /\ UNCHANGED <<wait, gates, client, asker, ch, running, opened, faults, truth, slip>>
      /\ <<o, n>> \in listed /\ listed' = listed \ {<<o, n>>} /\ WritesQuestion(o, n, r)
  BY <1>2 DEF ResumeDiscard, WritesQuestion
<1>4. o \in AskOccs /\ n \in 1..Len(qs[o]) /\ running = "closing"
  <2>1. o \in AskOccs /\ n \in Nat
    BY <1>1, <1>3 DEF TypeOK
  <2> QED
    BY <1>1, <1>3, <2>1 DEF ResumeInv
<1>5. r \in QuestionRecord /\ r.answer = "none" /\ ~Open(r)
  BY <1>2 DEF QuestionRecord, Open
<1>6. /\ qs' \in [AskOccs -> Seq(QuestionRecord)]
      /\ \A p \in AskOccs \ {o} : qs'[p] = qs[p]
      /\ Len(qs'[o]) = Len(qs[o]) /\ qs'[o][n] = r
      /\ \A x \in 1..Len(qs[o]) : x # n => qs'[o][x] = qs[o][x]
  BY <1>1, <1>3, <1>4, <1>5, QuestionIsSaved
<1>7. \A p \in AskOccs : \A x \in 1..Len(qs[p]) : (p = o /\ x = n) \/ qs'[p][x] = qs[p][x]
  BY <1>6
<1>8. /\ GatesGrow /\ QuestionsGrow /\ NoNewAnswers /\ SlipsStay /\ SavesStay("saveGate")
  <2>1. \A p \in AskOccs : Len(qs'[p]) = Len(qs[p]) /\ Len(qs[p]) \in Nat
    BY <1>1, <1>6, Lengths
  <2>2. GatesGrow
    BY <1>1, <1>3, Lengths DEF GatesGrow
  <2>3. NoNewAnswers
    BY <1>5, <1>6, <1>7 DEF NoNewAnswers
  <2> QED
    BY <1>3, <2>1, <2>2, <2>3 DEF QuestionsGrow, SlipsStay, SavesStay, Saving
<1>9. TypeOK'
  BY <1>1, <1>3, <1>6 DEF TypeOK
<1>10. WaitInv' /\ TruthInv'
  <2>1. \A p \in FixedOccs : Len(qs'[p]) = Len(qs[p])
    BY <1>6 DEF AskOccs
  <2>2. \A p \in FixedOccs : Len(qs'[p]) <= 1
    BY <1>1, <2>1 DEF WaitInv
  <2> QED
    BY <1>1, <1>3, <2>2, WaitStays DEF TruthInv
<1>11. AwaitedInv'
  <2> SUFFICES ASSUME slip \cap {"again", "unsaved", "late"} = {}, NEW p \in AskOccs, NEW x \in OpenSeqs(p)'
               PROVE  Awaited(p, x)'
    BY <1>3 DEF AwaitedInv
  <2>1. qs'[p] \in Seq(QuestionRecord) /\ Len(qs'[p]) = Len(qs[p]) /\ DOMAIN qs[p] = 1..Len(qs[p])
    BY <1>1, <1>6, Lengths
  <2>2. x \in 1..Len(qs[p]) /\ Open(qs'[p][x])
    BY <2>1 DEF OpenSeqs
  <2>3. ~(p = o /\ x = n)
    BY <1>5, <1>6, <2>2
  <2>4. x \in OpenSeqs(p)
    <3>1. qs'[p][x] = qs[p][x]
      BY <1>7, <2>2, <2>3
    <3> QED
      BY <2>1, <2>2, <3>1 DEF OpenSeqs
  <2>5. Awaited(p, x)
    BY <1>1, <1>4, <2>4 DEF AwaitedInv
  <2>6. <<p, x>> # <<o, n>>
    BY <2>3
  <2> QED
    BY <1>3, <2>5, <2>6 DEF Awaited, Saving
<1>12. AgentGotTheAnswer' /\ ResumeInv'
  <2>1. \A a \in Askers : asker'[a].got = "none"
    BY <1>1, <1>3, <1>4 DEF ResumeInv
  <2>2. \A p \in AskOccs : Len(qs'[p]) = Len(qs[p])
    BY <1>6
  <2> QED
    BY <1>1, <1>3, <1>4, <2>1, <2>2 DEF ResumeInv, AgentGotTheAnswer
<1>13. GateRecordsTrue'
  BY <1>1, <1>3, <1>8, GatesStayTrue
<1> QED
  BY <1>1, <1>3, <1>8, <1>9, <1>10, <1>11, <1>12, <1>13, ClientsStay, AskersStay, SavesOneAtATime
     DEF RecordsInv

\* When the run goes on, all that Resume has listed is closed.
LEMMA ResumeRunsStep ==
    ASSUME RecordsInv, ResumeRuns
    PROVE  RecordsInv'
<1>1. /\ TypeOK /\ WaitInv /\ TruthInv /\ ClientInv /\ AskerInv /\ SaveInv /\ ResumeInv
      /\ GateRecordsTrue /\ AwaitedInv /\ AgentGotTheAnswer
  BY DEF RecordsInv
<1>2. /\ UNCHANGED <<wait, gates, qs, client, asker, ch, listed, opened, faults, truth, slip>>
      /\ running = "closing" /\ running' = "yes" /\ listed = {}
  BY DEF ResumeRuns, recordVars
<1>3. /\ GatesGrow /\ QuestionsGrow /\ AnswersStay /\ TruthInv' /\ WaitInv' /\ SlipsStay
      /\ \A o \in AskOccs : OpenSeqs(o)' = OpenSeqs(o)
      /\ SavesStay("saveGate")
  BY <1>2, RecordsStay DEF SlipsStay, SavesStay, Saving
<1>4. TypeOK' /\ ResumeInv'
  BY <1>1, <1>2 DEF TypeOK, ResumeInv
<1>5. AwaitedInv'
  BY <1>1, <1>2, <1>3 DEF AwaitedInv, Awaited, Saving
<1> QED
  BY <1>1, <1>2, <1>3, <1>4, <1>5, ClientsStay, AskersStay, SavesOneAtATime, GatesStayTrue, AgentsKeepTheirAnswer
     DEF RecordsInv

LEMMA ResumeFailsStep ==
    ASSUME RecordsInv, ResumeFails
    PROVE  RecordsInv'
<1>1. /\ TypeOK /\ WaitInv /\ TruthInv /\ ClientInv /\ AskerInv /\ SaveInv /\ ResumeInv
      /\ GateRecordsTrue /\ AgentGotTheAnswer
  BY DEF RecordsInv
<1>2. /\ UNCHANGED <<wait, gates, qs, client, asker, ch, opened, faults, truth, slip>>
      /\ running # "yes" /\ running' = "no" /\ listed' = {}
  BY DEF ResumeFails, recordVars
<1>3. /\ GatesGrow /\ QuestionsGrow /\ AnswersStay /\ TruthInv' /\ WaitInv' /\ SlipsStay
      /\ SavesStay("saveGate")
  BY <1>2, RecordsStay DEF SlipsStay, SavesStay, Saving
<1>4. TypeOK' /\ AwaitedInv' /\ ResumeInv'
  BY <1>1, <1>2 DEF TypeOK, AwaitedInv, ResumeInv
<1> QED
  BY <1>1, <1>2, <1>3, <1>4, ClientsStay, AskersStay, SavesOneAtATime, GatesStayTrue, AgentsKeepTheirAnswer
     DEF RecordsInv

(***************************************************************************)
(* The theorems                                                            *)
(***************************************************************************)

LEMMA RecordsInit == Init => RecordsInv
<1> SUFFICES ASSUME Init PROVE RecordsInv
  OBVIOUS
<1>1. /\ wait = Work /\ gates = [o \in GateOccs |-> <<>>] /\ qs = [o \in AskOccs |-> <<>>]
      /\ client = [c \in Clients |-> Free] /\ asker = [a \in Askers |-> NotAsking]
      /\ truth = [o \in GateOccs |-> <<>>] /\ slip = {} /\ listed = {}
  BY DEF Init
<1>2. TypeOK
  <2>1. opened \in 0..MaxOpen /\ faults \in 0..MaxFaults
    BY BoundsAssumption DEF Init
  <2> QED
    BY <1>1, <2>1, WorkRecord, FreeRecord, NotAskingRecord DEF Init, TypeOK
<1>3. /\ \A o \in GateOccs : Len(gates[o]) = 0 /\ Len(truth[o]) = 0
      /\ \A o \in AskOccs : Len(qs[o]) = 0
  BY <1>1
<1>4. \A c \in Clients : client[c].at = "idle"
  BY <1>1, FreeRecord
<1>5. \A a \in Askers : asker[a].at = "idle" /\ asker[a].got = "none"
  BY <1>1, NotAskingRecord
<1>6. WaitInv /\ TruthInv
  BY <1>1, <1>3, WorkRecord DEF WaitInv, TruthInv, AskOccs
<1>7. ClientInv /\ AskerInv /\ SaveInv /\ ResumeInv /\ AgentGotTheAnswer
  BY <1>1, <1>4, <1>5 DEF ClientInv, ClientOf, AskerInv, AskerOf, Has, SaveInv, SaveOf, ResumeInv, AgentGotTheAnswer
<1>8. GateRecordsTrue /\ AwaitedInv
  BY <1>2, <1>3, Lengths DEF GateRecordsTrue, AwaitedInv, OpenSeqs
<1> QED
  BY <1>2, <1>6, <1>7, <1>8 DEF RecordsInv

LEMMA RecordsStep == RecordsInv /\ [Next]_vars => RecordsInv'
<1> SUFFICES ASSUME RecordsInv, [Next]_vars PROVE RecordsInv'
  OBVIOUS
<1>1. CASE UNCHANGED vars
  <2>0. UNCHANGED <<wait, gates, qs, client, asker, ch, running, listed, opened, faults, truth, slip>>
    BY <1>1 DEF vars, recordVars, resumeVars
  <2>1. TypeOK'
    BY <2>0 DEF RecordsInv, TypeOK
  <2>2. GatesGrow /\ QuestionsGrow /\ AnswersStay /\ TruthInv' /\ WaitInv' /\ SlipsStay
        /\ SavesStay("saveGate") /\ SavesStay("saveAnswer")
        /\ \A o \in AskOccs : OpenSeqs(o)' = OpenSeqs(o)
    BY <2>0, RecordsStay DEF SlipsStay, SavesStay, Saving
  <2> QED
    BY <2>0, <2>1, <2>2, ClientsStay, AskersStay, SavesOneAtATime, GatesStayTrue, QuestionsStayAwaited,
       ResumeStays, AgentsKeepTheirAnswer DEF RecordsInv
<1>2. ASSUME NEW c \in Clients, ClientStep(c) PROVE RecordsInv'
  BY <1>2, DecideEngineStep, DecideSaveStep, AnswerEngineStep, AnswerSaveStep, AnswerNotifyStep DEF ClientStep
<1>3. ASSUME NEW a \in Askers, AskStep(a) PROVE RecordsInv'
  BY <1>3, AskAddStep, AskLateStep, AskChannelStep, AskReadStep, AskWokenStep DEF AskStep
<1> QED
  BY <1>1, <1>2, <1>3, OpenGateStep, OpenQuestionStep, HandQuestionStep, ResumeDiscardStep, AgentReportsStep,
     SupersedeStep, DecideReadStep, AnswerReadStep, SaveFailsStep, AskBeginStep, AskGivesUpStep, StopStep,
     CrashStep, ResumeRegisterStep, ResumeListsStep, ResumeRunsStep,
     ResumeFailsStep DEF Next

\* The inductive invariant holds, and with it what the engine waits for, the calls that
\* write and the records belong together (records.go, serve/questions.go).
THEOREM RecordsInvariant == Spec => []RecordsInv
<1> QED
  BY RecordsInit, RecordsStep, PTL DEF Spec

\* The record of a gate says what became of it in the engine (Decide, SaveGate, Log).
THEOREM GateRecordsAreTrue == Spec => []GateRecordsTrue
<1>1. RecordsInv => GateRecordsTrue
  BY DEF RecordsInv
<1> QED
  BY <1>1, RecordsInvariant, PTL

\* A question that is listed is waited for, and ask_human returns what its record says
\* (ask_human, Answer, Resume).
THEOREM QuestionsHold == Spec => []QuestionsAreTrue
<1>1. ASSUME RecordsInv PROVE ListedQuestionIsAwaited
  <2> SUFFICES ASSUME running = "yes", slip \cap {"again", "unsaved", "late"} = {},
                      NEW o \in AskOccs, NEW n \in OpenSeqs(o)
               PROVE  \/ wait.kind = "fixed" /\ wait.occ = o /\ wait.n = n
                      \/ \E a \in Askers : asker[a].at # "idle" /\ asker[a].occ = o /\ asker[a].seq = n
                      \/ Saving("saveAnswer", o, n)
    BY Zenon DEF ListedQuestionIsAwaited
  <2>1. listed = {} /\ AwaitedInv
    BY <1>1 DEF RecordsInv, ResumeInv
  <2>2. Awaited(o, n)
    BY <2>1 DEF AwaitedInv
  <2> QED
    BY <2>1, <2>2 DEF Awaited
<1>2. RecordsInv => QuestionsAreTrue
  BY <1>1 DEF RecordsInv, QuestionsAreTrue
<1> QED
  BY <1>2, RecordsInvariant, PTL

\* Only the engine's taking of a decision approves an opening, and it compares the hash.
LEMMA ApprovalIsSeen ==
    ASSUME RecordsInv, [Next]_vars, NEW o \in GateOccs, NEW n \in DOMAIN gates[o],
           truth[o][n] = "none", truth'[o][n] = "approved"
    PROVE  \E c \in Clients : /\ client[c].at = "decide" /\ client[c].occ = o
                              /\ client[c].hash = gates[o][n].hash
<1>1. TypeOK /\ WaitInv /\ TruthInv /\ ClientInv
  BY DEF RecordsInv
<1>2. n \in 1..Len(gates[o])
  BY <1>1, Lengths
<1>3. CASE UNCHANGED truth
  BY <1>3
<1>4. ASSUME NEW p \in GateOccs, NEW h \in Hashes, OpenGate(p, h) PROVE FALSE
  <2>1. truth'[o][n] = truth[o][n]
    BY <1>1, <1>2, <1>4, GateOpens
  <2> QED
    BY <2>1
<1>5. CASE Supersede
  <2>1. PICK p, x : p = wait.occ /\ x = wait.n
    OBVIOUS
  <2>2. p \in GateOccs /\ x \in 1..Len(gates[p]) /\ Settles(p, x, "superseded") /\ "superseded" \in Decisions
    BY <1>1, <1>5, <2>1 DEF Supersede, WaitInv, Settles, Decisions
  <2>3. /\ \A q \in GateOccs \ {p} : truth'[q] = truth[q]
        /\ \A k \in 1..Len(gates[p]) : truth'[p][k] = IF k = x THEN "superseded" ELSE truth[p][k]
    BY <1>1, <2>2, TruthIsSet
  <2> QED
    BY <1>2, <2>3
<1>6. ASSUME NEW c \in Clients, DecideEngine(c), truth' # truth
      PROVE  client[c].at = "decide" /\ client[c].occ = o /\ client[c].hash = gates[o][n].hash
  <2>1. PICK p, x, s : p = wait.occ /\ x = wait.n /\ s = client[c].says
    OBVIOUS
  <2>2. /\ client[c].at = "decide" /\ wait.kind = "gate" /\ p = client[c].occ
        /\ s = "approved" => client[c].hash = wait.hash
        /\ Settles(p, x, s)
    BY <1>6, <2>1 DEF DecideEngine, Settles
  <2>3. /\ p \in GateOccs /\ x \in 1..Len(gates[p]) /\ wait.hash = gates[p][x].hash
        /\ s \in Decisions
    BY <1>1, <2>1, <2>2 DEF WaitInv, ClientInv, ClientOf, Decisions
  <2>4. /\ \A q \in GateOccs \ {p} : truth'[q] = truth[q]
        /\ \A k \in 1..Len(gates[p]) : truth'[p][k] = IF k = x THEN s ELSE truth[p][k]
    BY <1>1, <2>2, <2>3, TruthIsSet
  <2>5. p = o /\ x = n /\ s = "approved"
    BY <1>2, <2>4
  <2> QED
    BY <2>2, <2>3, <2>5
<1>7. \/ \E p \in GateOccs, h \in Hashes : OpenGate(p, h)
      \/ Supersede \/ \E c \in Clients : DecideEngine(c)
      \/ UNCHANGED truth
  <2>1. CASE UNCHANGED vars
    BY <2>1 DEF vars
  <2>2. ASSUME NEW c \in Clients, ClientStep(c) \/ SaveFails(c) PROVE DecideEngine(c) \/ UNCHANGED truth
    BY <2>2 DEF ClientStep, DecideSave, AnswerEngine, AnswerSave, AnswerNotify, SaveFails
  <2>3. ASSUME NEW a \in Askers, AskStep(a) \/ AskGivesUp(a) PROVE UNCHANGED truth
    BY <2>3 DEF AskStep, AskAdd, AskLate, AskChannel, AskRead, AskWoken, AskGivesUp
  <2> QED
    BY <2>1, <2>2, <2>3 DEF Next, OpenQuestion, HandQuestion, ResumeDiscard, AgentReports, DecideRead,
       AnswerRead, AskBegin, Stop, Crash, ResumeRegister, ResumeLists, ResumeRuns, ResumeFails
<1> QED
  BY <1>3, <1>4, <1>5, <1>6, <1>7

\* The engine takes an approval only of the contents that the approver was shown, however
\* often the gate is opened in the middle of Decide (serve/decide, engine.Decide).
THEOREM ApprovalHolds == Spec => ApprovalIsOfWhatWasSeen
<1>1. RecordsInv /\ [Next]_vars =>
        [\A o \in GateOccs : \A n \in DOMAIN gates[o] :
           truth[o][n] = "none" /\ truth'[o][n] = "approved" =>
               \E c \in Clients : /\ client[c].at = "decide" /\ client[c].occ = o
                                  /\ client[c].hash = gates[o][n].hash]_vars
  BY ApprovalIsSeen
<1> QED
  BY <1>1, RecordsInvariant, PTL DEF Spec, ApprovalIsOfWhatWasSeen


(***************************************************************************)
(* The store of the engine                                                 *)
(***************************************************************************)

\* An Apply that has passed its checks and has not yet returned holds the mutex of its store.
InHand == {"writing", "renamed"}

\* What is written was checked on the memory of the same store, and that memory has not changed since.
OpInv ==
    \A u \in Users :
        /\ op[u].at = "none" <=> op[u] = NoOp
        /\ op[u].at # "none" =>
             /\ op[u].run \in stores /\ op[u].r.keys # {}
             /\ \A k \in op[u].r.keys : op[u].r.seen[k] < MaxValue
        /\ op[u].at \in InHand => Checks(u) /\ op[u].next = Written(op[u].r, m[op[u].run])
        /\ \A v \in Users : op[u].at \in InHand /\ op[v].at \in InHand /\ op[u].run = op[v].run => u = v

\* The stores of the runs so far.
StoreInv ==
    /\ StoreTypeOK /\ OpInv
    /\ current \in Runs /\ \A g \in stores : g <= current

LEMMA NoOpRecord ==
    /\ Nothing \in Promised!Requests /\ NoOp \in Ops /\ NoOp.at = "none" /\ NoOp.run = 0 /\ NoOp.r = Nothing
    /\ [k \in Keys |-> 0] \in Maps
<1>1. 0 \in 0..MaxValue
  BY StoreAssumption
<1>2. Nothing = [keys |-> {}, seen |-> [k \in Keys |-> 0]]
  BY DEF Nothing, Promised!Nothing
<1>3. Nothing \in Promised!Requests
  BY <1>1, <1>2 DEF Promised!Requests, Promised!Values
<1> QED
  BY <1>1, <1>3 DEF NoOp, Ops, Maps

\* What an Apply writes is a map.
LEMMA WrittenIsMap ==
    ASSUME NEW r \in Promised!Requests, NEW map \in Maps, \A k \in r.keys : r.seen[k] < MaxValue
    PROVE  Written(r, map) \in Maps
<1>1. \A k \in r.keys : k \in Keys => r.seen[k] + 1 \in 0..MaxValue
  BY StoreAssumption DEF Promised!Requests, Promised!Values
<1> QED
  BY <1>1 DEF Written, Promised!Written, Maps

LEMMA StoreInitHolds == FilesInit => StoreInv
<1> SUFFICES ASSUME FilesInit PROVE StoreInv
  OBVIOUS
<1>1. StoreTypeOK
  BY NoOpRecord, StoreAssumption DEF FilesInit, StoreInit, StoreTypeOK
<1>2. OpInv
  BY NoOpRecord DEF FilesInit, StoreInit, OpInv, InHand
<1> QED
  BY <1>1, <1>2, StoreAssumption DEF FilesInit, StoreInit, StoreInv

LEMMA StoreStays == ASSUME StoreInv, UNCHANGED <<storeVars, current>> PROVE StoreInv'
  BY DEF StoreInv, storeVars, StoreTypeOK, OpInv, Checks

LEMMA RequestStep ==
    ASSUME StoreInv, UNCHANGED current, NEW u \in Users, NEW g \in Runs, NEW keys \in SUBSET Keys, Request(u, g, keys)
    PROVE  StoreInv'
<1> DEFINE r == [keys |-> keys, seen |-> m[g]]
           new == [NoOp EXCEPT !.at = "asked", !.run = g, !.r = r]
<1>1. /\ g \in stores /\ op[u] = NoOp /\ keys # {} /\ op' = [op EXCEPT ![u] = new]
      /\ \A k \in keys : m[g][k] < MaxValue
      /\ UNCHANGED <<file, m, stores, two>>
  BY DEF Request
<1>2. r \in Promised!Requests /\ r.keys = keys /\ r.seen = m[g]
  BY DEF StoreInv, StoreTypeOK, Maps, Promised!Requests, Promised!Values
<1> HIDE DEF r
<1>3. new \in Ops /\ new.at = "asked" /\ new.run = g /\ new.r = r
  BY <1>2, NoOpRecord DEF Ops
<1> HIDE DEF new
<1>4. StoreTypeOK'
  BY <1>1, <1>3 DEF StoreInv, StoreTypeOK
<1>5. OpInv'
  <2> SUFFICES ASSUME NEW v \in Users
               PROVE  /\ op'[v].at = "none" <=> op'[v] = NoOp
                      /\ op'[v].at # "none" =>
                           /\ op'[v].run \in stores /\ op'[v].r.keys # {}
                           /\ \A k \in op'[v].r.keys : op'[v].r.seen[k] < MaxValue
                      /\ op'[v].at \in InHand => Checks(v)' /\ op'[v].next = Written(op'[v].r, m[op'[v].run])
                      /\ \A w \in Users : op'[v].at \in InHand /\ op'[w].at \in InHand
                                          /\ op'[v].run = op'[w].run => v = w
    BY <1>1 DEF OpInv
  <2>1. op'[u] = new /\ \A w \in Users : w # u => op'[w] = op[w]
    BY <1>1 DEF StoreInv, StoreTypeOK
  <2>2. CASE v = u
    BY <1>1, <1>2, <1>3, <2>1, <2>2, NoOpRecord DEF InHand
  <2>3. CASE v # u
    BY <1>1, <1>3, <2>1, <2>3 DEF StoreInv, OpInv, InHand, Checks
  <2> QED
    BY <2>2, <2>3
<1> QED
  BY <1>1, <1>4, <1>5 DEF StoreInv

\* An Apply that ends, in one way or another: its user has none.
LEMMA OpEnds ==
    ASSUME StoreInv, NEW u \in Users, op' = [op EXCEPT ![u] = NoOp], UNCHANGED <<file, stores, two, current>>,
           m' \in [Runs -> Maps],
           \A v \in Users : op[v].at \in InHand /\ v # u => m'[op[v].run] = m[op[v].run]
    PROVE  StoreInv'
<1>1. op'[u] = NoOp /\ \A w \in Users : w # u => op'[w] = op[w]
  BY DEF StoreInv, StoreTypeOK
<1>2. StoreTypeOK'
  BY NoOpRecord DEF StoreInv, StoreTypeOK
<1>3. OpInv'
  BY <1>1, NoOpRecord DEF StoreInv, OpInv, InHand, Checks
<1> QED
  BY <1>2, <1>3 DEF StoreInv

LEMMA ApplyStep == ASSUME StoreInv, UNCHANGED current, NEW u \in Users, Apply(u) PROVE StoreInv'
<1>1. op[u].at = "asked" /\ Unlocked(op[u].run) /\ UNCHANGED <<file, m, stores, two>>
  BY DEF Apply
<1>2. CASE Checks(u)
  <2> DEFINE next == Written(op[u].r, m[op[u].run])
  <2>1. op' = [op EXCEPT ![u] = [op[u] EXCEPT !.at = "writing", !.next = next]]
    BY <1>2 DEF Apply
  <2>2. op[u] \in Ops /\ op[u].run \in Runs /\ m \in [Runs -> Maps]
    BY <1>1 DEF StoreInv, StoreTypeOK, OpInv
  <2>3. next \in Maps
    <3>1. op[u].r \in Promised!Requests /\ m[op[u].run] \in Maps
      BY <2>2 DEF Ops
    <3>2. \A k \in op[u].r.keys : op[u].r.seen[k] < MaxValue
      BY <1>1 DEF StoreInv, OpInv
    <3> QED
      BY <3>1, <3>2, WrittenIsMap
  <2> HIDE DEF next
  <2>4. /\ op'[u] \in Ops /\ op'[u].at = "writing" /\ op'[u].run = op[u].run /\ op'[u].r = op[u].r
        /\ op'[u].next = next /\ \A w \in Users : w # u => op'[w] = op[w]
    BY <2>1, <2>2, <2>3 DEF Ops, StoreInv, StoreTypeOK
  <2>5. StoreTypeOK'
    BY <1>1, <2>1, <2>4 DEF StoreInv, StoreTypeOK
  <2>6. Checks(u)' /\ next = Written(op[u].r, m[op[u].run])
    BY <1>1, <1>2, <2>4 DEF Checks, next
  <2>7. \A v \in Users : op[v].run = op[u].run => op[v].at \notin InHand
    BY <1>1 DEF Unlocked, InHand
  <2>8. OpInv'
    <3> SUFFICES ASSUME NEW v \in Users
                 PROVE  /\ op'[v].at = "none" <=> op'[v] = NoOp
                        /\ op'[v].at # "none" =>
                             /\ op'[v].run \in stores /\ op'[v].r.keys # {}
                             /\ \A k \in op'[v].r.keys : op'[v].r.seen[k] < MaxValue
                        /\ op'[v].at \in InHand => Checks(v)' /\ op'[v].next = Written(op'[v].r, m[op'[v].run])
                        /\ \A w \in Users : op'[v].at \in InHand /\ op'[w].at \in InHand
                                            /\ op'[v].run = op'[w].run => v = w
      BY <1>1 DEF OpInv
    <3>1. CASE v = u
      BY <1>1, <2>4, <2>6, <2>7, <3>1, NoOpRecord DEF StoreInv, OpInv, InHand
    <3>2. CASE v # u
      BY <1>1, <2>4, <2>7, <3>2 DEF StoreInv, OpInv, InHand, Checks
    <3> QED
      BY <3>1, <3>2
  <2> QED
    BY <1>1, <2>5, <2>8 DEF StoreInv
<1>3. CASE ~Checks(u)
  <2>1. op' = [op EXCEPT ![u] = NoOp]
    BY <1>3 DEF Apply
  <2> QED
    BY <1>1, <2>1, OpEnds DEF StoreInv, StoreTypeOK
<1> QED
  BY <1>2, <1>3

LEMMA RenameStep == ASSUME StoreInv, UNCHANGED current, NEW u \in Users, Rename(u) PROVE StoreInv'
<1>1. /\ op[u].at = "writing" /\ file' = op[u].next /\ op' = [op EXCEPT ![u] = [op[u] EXCEPT !.at = "renamed"]]
      /\ two' = (two \/ file # m[op[u].run]) /\ UNCHANGED <<m, stores>>
  BY DEF Rename
<1>2. op[u] \in Ops
  BY DEF StoreInv, StoreTypeOK
<1>3. /\ op'[u] \in Ops /\ op'[u].at = "renamed" /\ op'[u].run = op[u].run /\ op'[u].r = op[u].r
      /\ op'[u].next = op[u].next /\ \A w \in Users : w # u => op'[w] = op[w]
  BY <1>1, <1>2 DEF Ops, StoreInv, StoreTypeOK
<1>4. StoreTypeOK'
  BY <1>1, <1>2, <1>3 DEF StoreInv, StoreTypeOK, Ops
<1>5. OpInv'
  <2>1. \A v \in Users : op'[v].run = op[v].run /\ op'[v].r = op[v].r /\ op'[v].next = op[v].next
                         /\ (op'[v].at \in InHand <=> op[v].at \in InHand)
                         /\ (op'[v].at = "none" <=> op[v].at = "none") /\ (v # u => op'[v] = op[v])
    BY <1>1, <1>3 DEF InHand
  <2>2. op'[u] # NoOp /\ op'[u].at # "none"
    BY <1>3, NoOpRecord
  <2> QED
    BY <1>1, <2>1, <2>2 DEF StoreInv, OpInv, Checks
<1> QED
  BY <1>1, <1>4, <1>5 DEF StoreInv

LEMMA WriteFailsStep == ASSUME StoreInv, UNCHANGED current, NEW u \in Users, WriteFails(u) PROVE StoreInv'
<1>1. op' = [op EXCEPT ![u] = NoOp] /\ UNCHANGED <<file, m, stores, two>>
  BY DEF WriteFails
<1> QED
  BY <1>1, OpEnds DEF StoreInv, StoreTypeOK

LEMMA SwapStep == ASSUME StoreInv, UNCHANGED current, NEW u \in Users, Swap(u) PROVE StoreInv'
<1>1. /\ op[u].at = "renamed" /\ m' = [m EXCEPT ![op[u].run] = op[u].next]
      /\ op' = [op EXCEPT ![u] = NoOp] /\ UNCHANGED <<file, stores, two>>
  BY DEF Swap
<1>2. m' \in [Runs -> Maps]
  BY <1>1 DEF StoreInv, StoreTypeOK, Ops
<1>3. \A v \in Users : op[v].at \in InHand /\ v # u => m'[op[v].run] = m[op[v].run]
  <2>1. \A v \in Users : op[v].at \in InHand /\ v # u => op[v].run # op[u].run
    BY <1>1 DEF StoreInv, OpInv, InHand
  <2> QED
    BY <1>1, <2>1 DEF StoreInv, StoreTypeOK
<1> QED
  BY <1>1, <1>2, <1>3, OpEnds

LEMMA StoreStepHolds == ASSUME StoreInv, UNCHANGED current, StoreStep PROVE StoreInv'
  BY RequestStep, ApplyStep, RenameStep, WriteFailsStep, SwapStep DEF StoreStep

\* The next run opens a store of its own, on what is in the file.
LEMMA OpenStep == ASSUME StoreInv, NEW returned \in BOOLEAN, Resume(returned) PROVE StoreInv'
<1> DEFINE g == current + 1
           left == IF returned THEN stores \ {current} ELSE stores
<1>1. /\ g \in Runs /\ (returned => \A u \in Users : op[u].run # current)
      /\ m' = [m EXCEPT ![g] = file] /\ stores' = left \cup {g} /\ current' = g
      /\ UNCHANGED <<file, op, two>>
  BY DEF Resume, OpenStore
<1>2. current \in Nat /\ g \notin stores /\ \A h \in left : h \in stores
  BY StoreAssumption DEF StoreInv
<1>3. \A h \in stores' : h <= g
  BY <1>1, <1>2, StoreAssumption DEF StoreInv, StoreTypeOK
<1>4. StoreTypeOK'
  BY <1>1 DEF StoreInv, StoreTypeOK
<1>5. \A u \in Users : op[u].at # "none" => op[u].run \in left /\ op[u].run # g
  BY <1>1, <1>2 DEF StoreInv, OpInv
<1> HIDE DEF left, g
<1>6. \A u \in Users : op[u].at # "none" => op[u].run \in stores' /\ m'[op[u].run] = m[op[u].run]
  BY <1>1, <1>5 DEF StoreInv, StoreTypeOK
<1>7. OpInv'
  BY <1>1, <1>6 DEF StoreInv, OpInv, Checks, InHand
<1> QED
  BY <1>1, <1>3, <1>4, <1>7 DEF StoreInv

LEMMA CrashStoreStep == ASSUME StoreInv, UNCHANGED current, CrashStore PROVE StoreInv'
<1>1. /\ stores' = {} /\ m' = [g \in Runs |-> [k \in Keys |-> 0]] /\ op' = [u \in Users |-> NoOp]
      /\ UNCHANGED <<file, two>>
  BY DEF CrashStore
<1>2. StoreTypeOK'
  BY <1>1, NoOpRecord DEF StoreInv, StoreTypeOK
<1>3. OpInv'
  BY <1>1, NoOpRecord DEF OpInv, InHand
<1> QED
  BY <1>1, <1>2, <1>3 DEF StoreInv

(***************************************************************************)
(* It is the store that the engine is promised                             *)
(***************************************************************************)

\* What of a user's Apply has had no effect so far.
Pending == [u \in Users |-> IF op[u].at \in {"asked", "writing"} THEN op[u].r ELSE Nothing]

\* A step that takes nothing: what is pending stays or is given up.
LEMMA DropsWhatIsGone ==
    ASSUME UNCHANGED file, NEW gone \in SUBSET Users,
           \A u \in Users : Pending'[u] = IF u \in gone THEN Nothing ELSE Pending[u]
    PROVE  Promised!Next
<1>1. Pending' = [u \in Users |-> IF u \in gone THEN Nothing ELSE Pending[u]]
  BY DEF Pending
<1>2. Promised!Drop(gone)
  BY <1>1 DEF Promised!Drop, Pending, Nothing, Promised!Nothing
<1> QED
  BY <1>2 DEF Promised!Next

LEMMA PendingOf ==
    ASSUME NEW u \in Users
    PROVE  /\ Pending[u] = IF op[u].at \in {"asked", "writing"} THEN op[u].r ELSE Nothing
           /\ Pending'[u] = IF op'[u].at \in {"asked", "writing"} THEN op'[u].r ELSE Nothing
  BY DEF Pending, Nothing, Promised!Nothing

LEMMA StoreIsPromised ==
    ASSUME StoreInv, StoreStep
    PROVE  Promised!Next \/ two'
<1> USE DEF Nothing, Promised!Nothing
<1>1. ASSUME NEW u \in Users, NEW g \in Runs, NEW keys \in SUBSET Keys, Request(u, g, keys) PROVE Promised!Next
  <2>1. PICK r \in Promised!Requests : r = [keys |-> keys, seen |-> m[g]] /\ r.keys # {}
    <3>1. keys # {} /\ [keys |-> keys, seen |-> m[g]] \in Promised!Requests
      BY <1>1 DEF Request, StoreInv, StoreTypeOK, Maps, Promised!Requests, Promised!Values
    <3> QED
      BY <3>1
  <2>2. op[u] = NoOp /\ op' = [op EXCEPT ![u] = [NoOp EXCEPT !.at = "asked", !.run = g, !.r = r]] /\ UNCHANGED file
    BY <1>1, <2>1 DEF Request
  <2>3. op'[u].at = "asked" /\ op'[u].r = r /\ \A w \in Users : w # u => op'[w] = op[w]
    BY <2>2, NoOpRecord DEF StoreInv, StoreTypeOK, Ops
  <2>4. Pending[u] = Nothing
    BY <2>2, PendingOf, NoOpRecord
  <2>5. Pending' = [Pending EXCEPT ![u] = r]
    BY <2>3 DEF Pending
  <2>6. Promised!Ask(u, r)
    BY <2>1, <2>2, <2>4, <2>5 DEF Promised!Ask, Pending
  <2> QED
    BY <2>6 DEF Promised!Next
<1>2. ASSUME NEW u \in Users, Apply(u) PROVE Promised!Next
  <2>1. op[u].at = "asked" /\ UNCHANGED file
    BY <1>2 DEF Apply
  <2>2. CASE Checks(u)
    <3>1. op' = [op EXCEPT ![u] = [op[u] EXCEPT !.at = "writing", !.next = Written(op[u].r, m[op[u].run])]]
      BY <1>2, <2>2 DEF Apply
    <3>2. op'[u].at = "writing" /\ op'[u].r = op[u].r /\ \A w \in Users : w # u => op'[w] = op[w]
      BY <3>1 DEF StoreInv, StoreTypeOK, Ops
    <3>3. \A w \in Users : Pending'[w] = Pending[w]
      BY <2>1, <3>2, PendingOf
    <3> QED
      BY <2>1, <3>3, DropsWhatIsGone
  <2>3. CASE ~Checks(u)
    <3>1. op' = [op EXCEPT ![u] = NoOp]
      BY <1>2, <2>3 DEF Apply
    <3>2. op'[u] = NoOp /\ \A w \in Users : w # u => op'[w] = op[w]
      BY <3>1 DEF StoreInv, StoreTypeOK
    <3>3. \A w \in Users : Pending'[w] = IF w \in {u} THEN Nothing ELSE Pending[w]
      BY <3>2, PendingOf, NoOpRecord
    <3> QED
      BY <2>1, <3>3, DropsWhatIsGone
  <2> QED
    BY <2>2, <2>3
<1>3. ASSUME NEW u \in Users, Rename(u), ~two' PROVE Promised!Next
  <2>1. /\ op[u].at = "writing" /\ file' = op[u].next /\ file = m[op[u].run]
        /\ op' = [op EXCEPT ![u] = [op[u] EXCEPT !.at = "renamed"]]
    BY <1>3 DEF Rename
  <2>2. op'[u].at = "renamed" /\ \A w \in Users : w # u => op'[w] = op[w]
    BY <2>1 DEF StoreInv, StoreTypeOK, Ops
  <2>3. Pending[u] = op[u].r /\ op[u].r # Nothing /\ Promised!Holds(op[u].r)
    BY <2>1, PendingOf DEF StoreInv, OpInv, InHand, Checks, Promised!Holds
  <2>4. file' = Promised!Written(op[u].r, file)
    BY <2>1 DEF StoreInv, OpInv, InHand, Written
  <2>5. Pending' = [Pending EXCEPT ![u] = Nothing]
    BY <2>2 DEF Pending
  <2>6. Promised!Take(u)
    BY <2>3, <2>4, <2>5 DEF Promised!Take, Pending
  <2> QED
    BY <2>6 DEF Promised!Next
<1>4. ASSUME NEW u \in Users, WriteFails(u) \/ Swap(u) PROVE Promised!Next
  <2>1. op' = [op EXCEPT ![u] = NoOp] /\ UNCHANGED file
    BY <1>4 DEF WriteFails, Swap
  <2>2. op'[u] = NoOp /\ \A w \in Users : w # u => op'[w] = op[w]
    BY <2>1 DEF StoreInv, StoreTypeOK
  <2>3. \A w \in Users : Pending'[w] = IF w \in {u} THEN Nothing ELSE Pending[w]
    BY <2>2, PendingOf, NoOpRecord
  <2> QED
    BY <2>1, <2>3, DropsWhatIsGone
<1> QED
  BY <1>1, <1>2, <1>3, <1>4 DEF StoreStep

(***************************************************************************)
(* The comments                                                            *)
(***************************************************************************)

NotesTypes == lines \in Seq(Lines) /\ importer \in Importers /\ written \subseteq Comments /\ torn \in BOOLEAN

\* Each line that can be read is of one comment, and each finding has one such line; what an import
\* has still to write is not there; and one comment at most is lost, to a line that was torn and has been
\* ended since.
LinesInv ==
    /\ NotesTypes
    /\ ~torn => \A i \in 1..Len(lines) : lines[i].whole
    /\ ~torn \/ Unended => written \subseteq Readable
    /\ \E c : written \ Readable \subseteq {c}
    /\ importer.at = "idle" => importer.left = {}
    /\ importer.left \cap Readable = {}
    /\ \A c \in Findings : \A i, j \in 1..Len(lines) : lines[i] = Line(c, TRUE) /\ lines[j] = Line(c, TRUE) => i = j

\* What one more comment does to the lines: the last one is the one it went into, and the others
\* are as they were.
LEMMA AppendedLines ==
    ASSUME lines \in Seq(Lines), NEW c \in Comments, NEW whole \in BOOLEAN, lines' = Appended(c, whole)
    PROVE  /\ lines' \in Seq(Lines) /\ Len(lines') \in Nat \ {0}
           /\ Len(lines') = IF Unended THEN Len(lines) ELSE Len(lines) + 1
           /\ \A i \in 1..Len(lines') : i # Len(lines') => i \in 1..Len(lines) /\ lines'[i] = lines[i]
           /\ lines'[Len(lines')].whole = whole
           /\ \A d : lines'[Len(lines')] = Line(d, TRUE) => d = c
           /\ ~Unended => lines'[Len(lines')] = Line(c, whole)
<1>1. Len(lines) \in Nat
  BY LenProperties
<1>2. CASE Unended
  <2> DEFINE n == Len(lines)
             last == [ids |-> Append(lines[n].ids, c), whole |-> whole]
             new == [lines EXCEPT ![n] = last]
  <2>1. lines' = new
    BY <1>2 DEF Appended
  <2>2. n \in Nat \ {0} /\ n \in 1..n
    BY <1>1, <1>2, EmptySeq DEF Unended
  <2>3. lines \in [1..n -> Lines] /\ lines[n] \in Lines
    BY <2>2, LenProperties
  <2>4. Append(lines[n].ids, c) \in Seq(Comments) /\ \A d : Append(lines[n].ids, c) = <<d>> => d = c
    <3>1. lines[n].ids \in Seq(Comments)
      BY <2>3 DEF Lines
    <3>2. /\ Append(lines[n].ids, c) \in Seq(Comments)
          /\ Append(lines[n].ids, c)[Len(lines[n].ids) + 1] = c
          /\ Len(Append(lines[n].ids, c)) = Len(lines[n].ids) + 1
      BY <3>1, AppendProperties
    <3>3. ASSUME NEW d, Append(lines[n].ids, c) = <<d>> PROVE d = c
      <4>1. Len(lines[n].ids) + 1 = 1
        BY <3>2, <3>3
      <4> QED
        BY <3>2, <3>3, <4>1
    <3> QED
      BY <3>2, <3>3
  <2>5. last \in Lines /\ last.whole = whole /\ \A d : last = Line(d, TRUE) => d = c
    BY <2>4 DEF Lines, Line
  <2> HIDE DEF last
  <2>6. new \in Seq(Lines) /\ Len(new) = n /\ new[n] = last /\ \A i \in 1..n : i # n => new[i] = lines[i]
    <3>1. /\ new \in Seq(Lines) /\ Len(new) = n
          /\ \A i \in 1..n : new[i] = IF i = n THEN last ELSE lines[i]
      BY <2>2, <2>5, ExceptSeq
    <3> QED
      BY <2>2, <3>1
  <2> HIDE DEF new, n
  <2> QED
    BY <1>2, <2>1, <2>2, <2>5, <2>6 DEF n
<1>3. CASE ~Unended
  <2> DEFINE n == Len(lines)
             last == Line(c, whole)
             new == Append(lines, last)
  <2>1. lines' = new
    BY <1>3 DEF Appended
  <2>2. last \in Lines /\ last.whole = whole /\ \A d : last = Line(d, TRUE) => d = c
    <3>1. <<c>> \in Seq(Comments)
      OBVIOUS
    <3> QED
      BY <3>1 DEF Lines, Line
  <2> HIDE DEF last
  <2>3. /\ new \in Seq(Lines) /\ Len(new) = n + 1 /\ new[n + 1] = last
        /\ \A i \in 1..n : new[i] = lines[i]
    BY <2>2, AppendProperties
  <2>4. \A i \in 1..(n + 1) : i # n + 1 => i \in 1..n
    BY <1>1
  <2>5. n + 1 \in Nat \ {0}
    BY <1>1
  <2> HIDE DEF new, n
  <2> QED
    BY <1>3, <2>1, <2>2, <2>3, <2>4, <2>5 DEF n, last
<1> QED
  BY <1>2, <1>3

\* What can be read afterwards.
LEMMA ReadableAfter ==
    ASSUME LinesInv, NEW c \in Comments, NEW whole \in BOOLEAN, lines' = Appended(c, whole)
    PROVE  /\ lines' \in Seq(Lines)
           /\ Readable \subseteq Readable' /\ Readable' \subseteq Readable \cup {c}
           /\ ~whole => Readable' = Readable
           /\ whole /\ ~Unended => c \in Readable'
           /\ Unended' <=> ~whole
           /\ (\A i \in 1..Len(lines) : lines[i].whole) /\ whole => \A i \in 1..Len(lines') : lines'[i].whole
           /\ \A d \in Findings : \A i, j \in 1..Len(lines') :
                lines'[i] = Line(d, TRUE) /\ lines'[j] = Line(d, TRUE) => i = j \/ (whole /\ d = c /\ c \in Readable)
<1> DEFINE n == Len(lines')
<1>1. lines \in Seq(Lines) /\ Len(lines) \in Nat
  BY LenProperties DEF LinesInv, NotesTypes
<1>2. /\ lines' \in Seq(Lines) /\ n \in Nat \ {0}
      /\ n = IF Unended THEN Len(lines) ELSE Len(lines) + 1
      /\ \A i \in 1..n : i # n => i \in 1..Len(lines) /\ lines'[i] = lines[i]
      /\ lines'[n].whole = whole
      /\ \A d : lines'[n] = Line(d, TRUE) => d = c
      /\ ~Unended => lines'[n] = Line(c, whole)
  BY <1>1, AppendedLines
<1>3. Unended => ~lines[Len(lines)].whole
  BY DEF Unended
<1>4. \A d : Line(d, TRUE).whole = TRUE
  BY DEF Line
<1>5. lines' # <<>>
  BY <1>2, EmptySeq
<1>6. Unended' <=> ~whole
  BY <1>2, <1>5 DEF Unended
<1> HIDE DEF n
<1>7. n \in 1..n /\ \A i \in 1..Len(lines) : i # n => i \in 1..n
  BY <1>1, <1>2
<1>8. \A i \in 1..Len(lines) : lines[i].whole => i # n /\ lines'[i] = lines[i]
  <2> SUFFICES ASSUME NEW i \in 1..Len(lines), lines[i].whole PROVE i # n /\ lines'[i] = lines[i]
    OBVIOUS
  <2>1. i # n
    BY <1>1, <1>2, <1>3
  <2> QED
    BY <1>2, <1>7, <2>1
<1>9. Readable \subseteq Readable'
  <2> SUFFICES ASSUME NEW d \in Readable PROVE d \in Readable'
    OBVIOUS
  <2>1. PICK i \in 1..Len(lines) : lines[i] = Line(d, TRUE)
    BY DEF Readable
  <2>2. i \in 1..n /\ lines'[i] = Line(d, TRUE)
    BY <1>4, <1>7, <1>8, <2>1
  <2> QED
    BY <2>2 DEF Readable, n
<1>10. \A d \in Readable' : d \in Readable \/ (d = c /\ whole)
  <2> SUFFICES ASSUME NEW d \in Readable' PROVE d \in Readable \/ (d = c /\ whole)
    OBVIOUS
  <2>1. PICK i \in 1..n : lines'[i] = Line(d, TRUE)
    BY DEF Readable, n
  <2>2. CASE i = n
    BY <1>2, <1>4, <2>1, <2>2
  <2>3. CASE i # n
    BY <1>2, <2>1, <2>3 DEF Readable
  <2> QED
    BY <2>2, <2>3
<1>11. whole /\ ~Unended => c \in Readable'
  BY <1>2, <1>7 DEF Readable, n
<1>12. (\A i \in 1..Len(lines) : lines[i].whole) /\ whole => \A i \in 1..n : lines'[i].whole
  BY <1>2
<1>13. \A d \in Findings : \A i, j \in 1..n :
         lines'[i] = Line(d, TRUE) /\ lines'[j] = Line(d, TRUE) => i = j \/ (whole /\ d = c /\ c \in Readable)
  <2> SUFFICES ASSUME NEW d \in Findings, NEW i \in 1..n, NEW j \in 1..n,
                      lines'[i] = Line(d, TRUE), lines'[j] = Line(d, TRUE), i # j
               PROVE  whole /\ d = c /\ c \in Readable
    OBVIOUS
  <2>1. d \in Comments
    BY DEF Comments
  <2>2. CASE i = n
    BY <1>2, <1>4, <2>1, <2>2 DEF Readable
  <2>3. CASE j = n
    BY <1>2, <1>4, <2>1, <2>3 DEF Readable
  <2>4. CASE i # n /\ j # n
    BY <1>2, <2>4 DEF LinesInv
  <2> QED
    BY <2>2, <2>3, <2>4
<1> QED
  BY <1>2, <1>6, <1>9, <1>10, <1>11, <1>12, <1>13 DEF n

LEMMA LinesInitHolds == FilesInit => LinesInv
<1> SUFFICES ASSUME FilesInit PROVE LinesInv
  OBVIOUS
<1>1. lines = <<>> /\ importer = Idle /\ written = {} /\ torn = FALSE
  BY DEF FilesInit, NotesInit
<1>2. lines \in Seq(Lines) /\ Len(lines) = 0
  BY <1>1, EmptySeq
<1>3. Idle \in Importers /\ Idle.left = {}
  BY DEF Idle, Importers
<1>4. \A i \in 1..Len(lines) : FALSE
  BY <1>2
<1>5. ~Unended
  BY <1>1 DEF Unended
<1>6. NotesTypes
  BY <1>1, <1>2, <1>3 DEF NotesTypes
<1>7. written \subseteq Readable /\ \E c : written \ Readable \subseteq {c}
  BY <1>1
<1>8. importer.left \cap Readable = {}
  BY <1>1, <1>3
<1> QED
  BY <1>1, <1>3, <1>4, <1>5, <1>6, <1>7, <1>8 DEF LinesInv

LEMMA LinesStay == ASSUME LinesInv, UNCHANGED commentVars PROVE LinesInv'
  BY DEF LinesInv, NotesTypes, commentVars, Unended, Readable

\* A comment whose call has succeeded.
LEMMA LineIsAdded ==
    ASSUME LinesInv, NEW c \in Comments, lines' = Appended(c, TRUE), written' = written \cup {c},
           importer' \in Importers, importer'.at = "idle" => importer'.left = {},
           importer'.left \subseteq importer.left \ {c}, c \in Findings => c \notin Readable, UNCHANGED torn
    PROVE  LinesInv'
<1>1. /\ lines' \in Seq(Lines)
      /\ Readable \subseteq Readable' /\ Readable' \subseteq Readable \cup {c}
      /\ ~Unended => c \in Readable'
      /\ ~Unended'
      /\ (\A i \in 1..Len(lines) : lines[i].whole) => \A i \in 1..Len(lines') : lines'[i].whole
      /\ \A d \in Findings : \A i, j \in 1..Len(lines') :
           lines'[i] = Line(d, TRUE) /\ lines'[j] = Line(d, TRUE) => i = j \/ (d = c /\ c \in Readable)
  BY ReadableAfter
<1>2. NotesTypes'
  BY <1>1 DEF LinesInv, NotesTypes
<1>3. ~torn => ~Unended
  BY LenProperties DEF LinesInv, NotesTypes, Unended
<1>4. ~torn => written' \subseteq Readable'
  BY <1>1, <1>3 DEF LinesInv
<1>5. \E d : written' \ Readable' \subseteq {d}
  <2>1. CASE Unended
    BY <1>1, <2>1 DEF LinesInv
  <2>2. CASE ~Unended
    <3>1. PICK d : written \ Readable \subseteq {d}
      BY DEF LinesInv
    <3> QED
      BY <1>1, <2>2, <3>1
  <2> QED
    BY <2>1, <2>2
<1>6. importer'.left \cap Readable' = {}
  BY <1>1 DEF LinesInv
<1>7. \A d \in Findings : \A i, j \in 1..Len(lines') :
        lines'[i] = Line(d, TRUE) /\ lines'[j] = Line(d, TRUE) => i = j
  BY <1>1
<1> QED
  BY <1>1, <1>2, <1>4, <1>5, <1>6, <1>7 DEF LinesInv, Line

\* A line is cut short.
LEMMA LineIsTorn ==
    ASSUME LinesInv, ~torn, NEW c \in Comments, Tear(c), UNCHANGED written,
           importer' \in {importer, Idle}
    PROVE  LinesInv'
<1>1. lines' = Appended(c, FALSE) /\ torn' = TRUE
  BY DEF Tear
<1>2. /\ lines' \in Seq(Lines) /\ Readable' = Readable
      /\ \A d \in Findings : \A i, j \in 1..Len(lines') :
           lines'[i] = Line(d, TRUE) /\ lines'[j] = Line(d, TRUE) => i = j
  <2> DEFINE whole == FALSE
  <2>1. whole \in BOOLEAN /\ lines' = Appended(c, whole) /\ ~whole
    BY <1>1
  <2> HIDE DEF whole
  <2>2. /\ lines' \in Seq(Lines) /\ (~whole => Readable' = Readable)
        /\ \A d \in Findings : \A i, j \in 1..Len(lines') :
             lines'[i] = Line(d, TRUE) /\ lines'[j] = Line(d, TRUE) => i = j \/ (whole /\ d = c /\ c \in Readable)
    BY <2>1, ReadableAfter
  <2> QED
    BY <2>1, <2>2
<1>3. Idle \in Importers /\ Idle.left = {}
  BY DEF Idle, Importers
<1>4. NotesTypes'
  BY <1>1, <1>2, <1>3 DEF LinesInv, NotesTypes
<1>5. written' \subseteq Readable'
  BY <1>2 DEF LinesInv
<1>6. \E d : written' \ Readable' \subseteq {d}
  BY <1>5
<1>7. (importer'.at = "idle" => importer'.left = {}) /\ importer'.left \cap Readable' = {}
  BY <1>2, <1>3 DEF LinesInv
<1> QED
  BY <1>1, <1>2, <1>4, <1>5, <1>6, <1>7 DEF LinesInv, Line

LEMMA PeopleStepHolds == ASSUME LinesInv, PeopleStep PROVE LinesInv'
<1>1. ASSUME NEW c \in Remarks, AddComment(c) PROVE LinesInv'
  <2>1. c \in Comments /\ c \notin Findings
    BY NotesAssumption DEF Comments
  <2>2. lines' = Appended(c, TRUE) /\ written' = written \cup {c} /\ UNCHANGED <<importer, torn>>
    BY <1>1 DEF AddComment
  <2>3. importer.left \subseteq Findings
    BY DEF LinesInv, NotesTypes, Importers
  <2> QED
    BY <2>1, <2>2, <2>3, LineIsAdded DEF LinesInv, NotesTypes
<1>2. ASSUME NEW c \in Remarks, AddFails(c) PROVE LinesInv'
  BY <1>2, LineIsTorn DEF AddFails, Comments
<1> QED
  BY <1>1, <1>2 DEF PeopleStep

LEMMA ImportStepHolds == ASSUME LinesInv, ImportStep PROVE LinesInv'
<1>1. importer \in Importers /\ importer.left \subseteq Findings /\ Findings \subseteq Comments
  BY DEF LinesInv, NotesTypes, Importers, Comments
<1>2. CASE Import
  <2>1. /\ importer' = [at |-> "writing", left |-> Findings \ Readable]
        /\ UNCHANGED <<lines, written, torn>>
    BY <1>2 DEF Import
  <2>2. importer' \in Importers
    BY <2>1 DEF Importers
  <2>3. Readable' = Readable /\ (Unended' <=> Unended)
    BY <2>1 DEF Readable, Unended
  <2> QED
    BY <2>1, <2>2, <2>3 DEF LinesInv, NotesTypes
<1>3. CASE ImportOne
  <2>1. PICK c \in importer.left : /\ lines' = Appended(c, TRUE) /\ written' = written \cup {c}
                                   /\ importer' = [importer EXCEPT !.left = importer.left \ {c}]
    BY <1>3 DEF ImportOne
  <2>2. UNCHANGED torn
    BY <1>3 DEF ImportOne
  <2>3. importer' \in Importers /\ importer'.left = importer.left \ {c} /\ importer'.at = importer.at
    BY <1>1, <2>1 DEF Importers
  <2>4. c \notin Readable /\ importer.at # "idle"
    BY <2>1 DEF LinesInv
  <2> QED
    BY <1>1, <2>1, <2>2, <2>3, <2>4, LineIsAdded
<1>4. CASE ImportFails
  BY <1>1, <1>4, LineIsTorn DEF ImportFails
<1>5. CASE Imported
  <2>1. importer' = Idle /\ UNCHANGED <<lines, written, torn>>
    BY <1>5 DEF Imported
  <2>2. Idle \in Importers /\ Idle.left = {}
    BY DEF Idle, Importers
  <2>3. Readable' = Readable /\ (Unended' <=> Unended)
    BY <2>1 DEF Readable, Unended
  <2> QED
    BY <2>1, <2>2, <2>3 DEF LinesInv, NotesTypes
<1> QED
  BY <1>2, <1>3, <1>4, <1>5 DEF ImportStep

LEMMA NotesCrashStep == ASSUME LinesInv, NotesCrash PROVE LinesInv'
<1>1. importer' = Idle /\ UNCHANGED written
  BY DEF NotesCrash
<1>2. CASE UNCHANGED <<lines, torn>>
  <2>1. Idle \in Importers /\ Idle.left = {}
    BY DEF Idle, Importers
  <2>2. Readable' = Readable /\ (Unended' <=> Unended)
    BY <1>2 DEF Readable, Unended
  <2> QED
    BY <1>1, <1>2, <2>1, <2>2 DEF LinesInv, NotesTypes
<1>3. CASE ~torn /\ \E c \in importer.left : Tear(c)
  <2>1. importer.left \subseteq Comments
    BY DEF LinesInv, NotesTypes, Importers, Comments
  <2> QED
    BY <1>1, <1>3, <2>1, LineIsTorn
<1> QED
  BY <1>2, <1>3 DEF NotesCrash

(***************************************************************************)
(* The subagents                                                           *)
(***************************************************************************)

TaskTypes ==
    /\ task \in Tasks /\ handed \in Tasks \cup {0} /\ session \in Sessions
    /\ spawned \subseteq Tasks /\ ids \in [Tasks -> Tasks \cup {0}] /\ again \in BOOLEAN

\* The session works with a subagent of this VM.
TasksInv == TaskTypes /\ (session.on # 0 => session.on \in spawned) /\ ContinuesToItsSubagent

LEMMA TasksInitHolds == FilesInit => TasksInv
<1> SUFFICES ASSUME FilesInit PROVE TasksInv
  OBVIOUS
<1>1. /\ task = 1 /\ handed = 0 /\ session = [on |-> 0, done |-> FALSE]
      /\ spawned = {} /\ ids = [t \in Tasks |-> 0] /\ again = FALSE
  BY DEF FilesInit, NotesInit
<1>2. session \in Sessions /\ session.on = 0
  BY <1>1 DEF Sessions
<1>3. ids \in [Tasks -> Tasks \cup {0}] /\ \A t \in Tasks : ids[t] = 0
  BY <1>1
<1> QED
  BY <1>1, <1>2, <1>3, NotesAssumption DEF TasksInv, TaskTypes, ContinuesToItsSubagent

LEMMA TasksStay == ASSUME TasksInv, UNCHANGED taskVars PROVE TasksInv'
  BY DEF TasksInv, TaskTypes, ContinuesToItsSubagent, taskVars

\* The id goes to the task that was handed out last, which is another one only if a next_task was lost.
LEMMA TakesStep == ASSUME TasksInv, NEW answered \in BOOLEAN, Takes(answered), UNCHANGED task PROVE TasksInv'
<1>1. /\ ids' = Recorded /\ handed' = task
      /\ again' = (again \/ (handed # 0 /\ session.on # 0 /\ handed # session.on))
      /\ IF answered THEN session' = [on |-> task, done |-> FALSE] /\ spawned' = spawned \cup {task}
                     ELSE UNCHANGED <<session, spawned>>
  BY DEF Takes
<1>2. session.on \in Tasks \cup {0} /\ spawned \subseteq spawned'
  BY <1>1 DEF TasksInv, TaskTypes, Sessions
<1>3. session' \in Sessions /\ (session'.on # 0 => session'.on \in spawned') /\ spawned' \subseteq Tasks
  <2>1. task \in Tasks /\ session \in Sessions /\ spawned \subseteq Tasks
        /\ (session.on # 0 => session.on \in spawned)
    BY DEF TasksInv, TaskTypes
  <2>2. CASE answered
    <3>1. session' = [on |-> task, done |-> FALSE] /\ spawned' = spawned \cup {task}
      BY <1>1, <2>2
    <3>2. session' \in Sessions /\ session'.on = task
      BY <2>1, <3>1 DEF Sessions
    <3> QED
      BY <2>1, <3>1, <3>2
  <2>3. CASE ~answered
    <3>1. UNCHANGED <<session, spawned>>
      BY <1>1, <2>3
    <3> QED
      BY <2>1, <3>1
  <2> QED
    BY <2>2, <2>3
<1>4. ids' \in [Tasks -> Tasks \cup {0}] /\ \A t \in Tasks :
        ids'[t] = ids[t] \/ (t = handed /\ session.on # 0 /\ ids'[t] = session.on)
  BY <1>1, <1>2 DEF TasksInv, TaskTypes, Recorded
<1>5. ContinuesToItsSubagent'
  <2> SUFFICES ASSUME NEW t \in Tasks, ids'[t] # 0
               PROVE  ids'[t] \in spawned' /\ (again' \/ ids'[t] = t)
    BY DEF ContinuesToItsSubagent
  <2>1. CASE ids'[t] = ids[t]
    BY <1>1, <1>2, <2>1 DEF TasksInv, ContinuesToItsSubagent
  <2>2. CASE t = handed /\ session.on # 0 /\ ids'[t] = session.on
    <3>1. handed # 0
      BY <2>2, NotesAssumption
    <3> QED
      BY <1>1, <1>2, <2>2, <3>1 DEF TasksInv
  <2> QED
    BY <1>4, <2>1, <2>2
<1> QED
  BY <1>1, <1>3, <1>4, <1>5 DEF TasksInv, TaskTypes

LEMMA SessionStepHolds == ASSUME TasksInv, SessionStep PROVE TasksInv'
<1>1. CASE Report
  <2>1. /\ task' = task + 1 /\ task + 1 \in Tasks /\ session' = [session EXCEPT !.done = TRUE]
        /\ UNCHANGED <<handed, spawned, ids, again>>
    BY <1>1 DEF Report
  <2>2. session' \in Sessions /\ session'.on = session.on
    BY <2>1 DEF TasksInv, TaskTypes, Sessions
  <2> QED
    BY <2>1, <2>2 DEF TasksInv, TaskTypes, ContinuesToItsSubagent
<1>2. CASE NextTask
  BY <1>2, TakesStep DEF NextTask
<1>3. CASE NextTaskLost
  BY <1>3, TakesStep DEF NextTaskLost
<1> QED
  BY <1>1, <1>2, <1>3 DEF SessionStep

LEMMA NotesResumeStep == ASSUME TasksInv, NotesResume PROVE TasksInv'
<1>1. /\ ids' = [t \in Tasks |-> 0] /\ handed' = 0 /\ session' = [on |-> 0, done |-> FALSE] /\ spawned' = {}
      /\ UNCHANGED <<task, again>>
  BY DEF NotesResume, ClearSubagentIDs
<1> QED
  BY <1>1 DEF TasksInv, TaskTypes, Sessions, ContinuesToItsSubagent

(***************************************************************************)
(* The theorems                                                            *)
(***************************************************************************)

RunFilesInv == StoreInv /\ LinesInv /\ TasksInv /\ up \in BOOLEAN

LEMMA RunFilesInit == FilesInit => RunFilesInv
  BY StoreInitHolds, LinesInitHolds, TasksInitHolds DEF RunFilesInv, FilesInit

LEMMA RunFilesStep == RunFilesInv /\ [FilesNext]_filesVars => RunFilesInv'
<1> SUFFICES ASSUME RunFilesInv, [FilesNext]_filesVars PROVE RunFilesInv'
  OBVIOUS
<1> USE DEF RunFilesInv, notesVars, runVars
<1>1. CASE StoreStep /\ UNCHANGED <<notesVars, runVars>>
  BY <1>1, StoreStepHolds, LinesStay, TasksStay
<1>2. CASE PeopleStep /\ UNCHANGED <<storeVars, runVars>>
  <2>1. UNCHANGED taskVars
    BY <1>2 DEF PeopleStep, AddComment, AddFails
  <2> QED
    BY <1>2, <2>1, StoreStays, PeopleStepHolds, TasksStay
<1>3. CASE ImportStep /\ UNCHANGED <<storeVars, runVars>>
  <2>1. UNCHANGED taskVars
    BY <1>3 DEF ImportStep, Import, ImportOne, ImportFails, Imported
  <2> QED
    BY <1>3, <2>1, StoreStays, ImportStepHolds, TasksStay
<1>4. CASE SessionStep /\ UNCHANGED <<storeVars, runVars>>
  <2>1. UNCHANGED commentVars
    BY <1>4 DEF SessionStep, Report, NextTask, NextTaskLost
  <2> QED
    BY <1>4, <2>1, StoreStays, SessionStepHolds, LinesStay
<1>5. ASSUME NEW returned \in BOOLEAN, Resume(returned) PROVE RunFilesInv'
  <2>1. NotesResume /\ up' = TRUE
    BY <1>5 DEF Resume
  <2>2. UNCHANGED commentVars
    BY <2>1 DEF NotesResume
  <2> QED
    BY <1>5, <2>1, <2>2, OpenStep, LinesStay, NotesResumeStep
<1>6. CASE FilesCrash
  <2>1. CrashStore /\ NotesCrash /\ up' = FALSE /\ UNCHANGED current
    BY <1>6 DEF FilesCrash
  <2>2. UNCHANGED taskVars
    BY <2>1 DEF NotesCrash
  <2> QED
    BY <2>1, <2>2, CrashStoreStep, NotesCrashStep, TasksStay
<1>7. CASE UNCHANGED filesVars
  BY <1>7, StoreStays, LinesStay, TasksStay DEF filesVars
<1> QED
  BY <1>1, <1>2, <1>3, <1>4, <1>5, <1>6, <1>7 DEF FilesNext

\* The invariant of the three files.
THEOREM RunFilesHold == FilesSpec => []RunFilesInv
  BY RunFilesInit, RunFilesStep, PTL DEF FilesSpec

\* engine.json implements the store that the engine is promised (EngineStore): the steps between the
\* checks, the temporary file, its rename and the memory are one step or none of it, for any number of
\* keys, users, failed writes, crashes and runs, until a run that Stop did not wait for writes over
\* what the next has written.
THEOREM StoreRefines == FilesSpec => PromisedUnlessTwo
<1>1. FilesInit => Promised!Init
  BY NoOpRecord DEF FilesInit, StoreInit, Promised!Init, Promised!Nothing
<1>2. RunFilesInv /\ [FilesNext]_filesVars => [Promised!Next \/ two']_<<file, op>>
  <2> SUFFICES ASSUME RunFilesInv, [FilesNext]_filesVars, ~UNCHANGED <<file, op>>
               PROVE  Promised!Next \/ two'
    OBVIOUS
  <2>1. CASE StoreStep
    BY <2>1, StoreIsPromised DEF RunFilesInv
  <2>2. CASE FilesCrash
    <3>1. op' = [u \in Users |-> NoOp] /\ UNCHANGED file
      BY <2>2 DEF FilesCrash, CrashStore
    <3>2. \A u \in Users : Pending'[u] = IF u \in Users THEN Nothing ELSE Pending[u]
      BY <3>1, PendingOf, NoOpRecord
    <3> QED
      BY <3>1, <3>2, DropsWhatIsGone
  <2>3. FilesNext => StoreStep \/ FilesCrash
    BY DEF FilesNext, storeVars, Resume, OpenStore
  <2> QED
    BY <2>1, <2>2, <2>3 DEF filesVars, storeVars
<1> QED
  BY <1>1, <1>2, RunFilesHold, PTL DEF FilesSpec, PromisedUnlessTwo

\* A comment whose call succeeded is read back, but for one that a torn line may take, and a finding is
\* there once, however often its gate is opened and serve ends in the middle of a line.
THEOREM CommentsAreKept == FilesSpec => []CommentsKept
<1>1. RunFilesInv => CommentsKept
  <2> SUFFICES ASSUME LinesInv PROVE NoneMissing /\ NoneTwice
    BY DEF RunFilesInv, CommentsKept
  <2>1. NoneMissing
    <3>1. CASE torn
      <4>1. PICK c : written \ Readable \subseteq {c}
        BY DEF LinesInv
      <4>2. IsFiniteSet({c}) /\ Cardinality({c}) = 1
        BY FS_Singleton
      <4>3. Cardinality(written \ Readable) <= Cardinality({c})
        BY <4>1, <4>2, FS_Subset
      <4> QED
        BY <3>1, <4>2, <4>3 DEF NoneMissing
    <3>2. CASE ~torn
      <4>1. written \ Readable = {}
        BY <3>2 DEF LinesInv
      <4> QED
        BY <3>2, <4>1, FS_EmptySet DEF NoneMissing
    <3> QED
      BY <3>1, <3>2
  <2>2. NoneTwice
    <3> SUFFICES ASSUME NEW c \in Findings
                 PROVE  Cardinality({i \in 1..Len(lines) : lines[i] = Line(c, TRUE)}) <= 1
      BY DEF NoneTwice
    <3> DEFINE here == {i \in 1..Len(lines) : lines[i] = Line(c, TRUE)}
    <3>1. \A i, j \in here : i = j
      BY DEF LinesInv
    <3>2. Cardinality(here) <= 1
      <4> HIDE DEF here
      <4>1. CASE here = {}
        BY <4>1, FS_EmptySet
      <4>2. CASE here # {}
        <5>1. PICK i : here = {i}
          BY <3>1, <4>2
        <5>2. Cardinality({i}) = 1
          BY FS_Singleton
        <5> QED
          BY <5>1, <5>2
      <4> QED
        BY <4>1, <4>2
    <3> QED
      BY <3>2
  <2> QED
    BY <2>1, <2>2
<1> QED
  BY <1>1, RunFilesHold, PTL

\* A task that continues another is sent to the subagent that did it, in this VM, unless a next_task
\* was lost.
THEOREM Continues == FilesSpec => []ContinuesToItsSubagent
<1>1. RunFilesInv => ContinuesToItsSubagent
  BY DEF RunFilesInv, TasksInv
<1> QED
  BY <1>1, RunFilesHold, PTL
=============================================================================
