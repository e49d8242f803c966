-------------------------------- MODULE Wake --------------------------------
(***************************************************************************)
(* How serve hands the next task to the main session of one run, and wakes *)
(* the session up again after it was told to wait: serve/run.go (NextTask, *)
(* advanceLoop, kick, notify, bump, decide, answer, ReportResult) and      *)
(* serve/wake.go.                                                          *)
(*                                                                         *)
(* One run (runCtl) has these concurrent actors:                           *)
(*   - a handler per next_task call (Calls); the guest has at most one     *)
(*     call open, but a call whose connection was cut keeps running here;  *)
(*   - the advance loop, which runs eng.Advance outside of every call;     *)
(*   - the two reporters: "api" (Decide and Answer of the public API) and  *)
(*     "tool" (report_result and report_concern of the guest);             *)
(*   - goroutines running tryWake (Wakers): one per requestWake, and the   *)
(*     patrol's;                                                           *)
(*   - the guest's main session and the human who may attach to it.        *)
(*                                                                         *)
(* A step is one critical section of the code (mu, advMu, chMu, seqMu) or  *)
(* a select; eng.Advance is one step because every caller of the engine    *)
(* holds c.mu, and before that step the advance counts as not finished.    *)
(*                                                                         *)
(* The numbers of the code that are only compared for equality are kept as *)
(* the outcome of the comparison: moved[h] is c.seq # seen in the handler  *)
(* h, chClosed[h] says whether the channel h took from waitCh was closed   *)
(* (both TRUE while h has not taken one).  The ninety seconds of next_task *)
(* and the sixty seconds between two sends are timers that may fire at any *)
(* moment.                                                                 *)
(***************************************************************************)
EXTENDS Naturals, FiniteSets

CONSTANTS
    Calls,          \* slots for handlers of next_task
    Wakers,         \* goroutines that run tryWake
    WakeMaxSends    \* wakeMaxSends

NoCall == "no call"

ASSUME CallsAssumption == NoCall \notin Calls
ASSUME SendsAssumption == WakeMaxSends \in Nat /\ 0 < WakeMaxSends

\* engine.Status: a task for an agent, a wait for a human (gate, question) or
\* an end (done, blocked).  An advance also ends in an error.
Status == {"task", "human", "end"}
Result == Status \cup {"error"}

\* wakesMainSession: the positions with something for the main session to do.
WakesMainSession(st) == st \in {"task", "end"}

Reporters == {"api", "tool"}

VARIABLES
    pos,        \* where the engine's records stand; "host": host nodes to run
    queued,     \* advNext # nil
    loop,       \* the advance loop's program counter ("off": not running)
    loopSt,     \* the status of the advance the loop is finishing
    call,       \* the handlers' program counters
    ticket,     \* what became of the advance the handler asked for
    moved,      \* c.seq # seen
    chClosed,   \* the handler's ch is closed
    gone,       \* the handler's connection was cut (ctx.Err() # nil)
    answer,     \* what the handler is about to return
    reporter,   \* the reporters' program counters
    waiting, wantWake, waking, wakeSends,
    waker,      \* the tryWake goroutines' program counters
    guest,      \* what the main session does
    live,       \* the call the main session is waiting on
    typed,      \* the wake text is in the session's input
    stopping,   \* c.ctx is cancelled (Stop, Remove, serve's shutdown)
    slip        \* history: the first slip since the last next_task, see Slip

loopVars  == <<queued, loop, loopSt>>
callVars  == <<call, ticket, moved, chClosed, gone, answer>>
wakeVars  == <<waiting, wantWake, wakeSends>>
wakerVars == <<waking, waker>>
guestVars == <<guest, live, typed>>
runVars   == <<stopping, slip>>

vars == <<pos, loopVars, callVars, reporter, wakeVars, wakerVars, guestVars,
          runVars>>

-----------------------------------------------------------------------------
SendsOK == wakeSends \in Nat /\ wakeSends <= WakeMaxSends

TypeOK ==
    /\ pos \in Status \cup {"host"}
    /\ queued \in BOOLEAN
    /\ loop \in {"off", "take", "advance", "bump", "wake", "close"}
    /\ loopSt \in Result
    /\ call \in [Calls -> {"idle", "clear", "watch", "kick", "run", "select",
                           "mark", "askwake", "return", "undelivered",
                           "deliver"}]
    /\ ticket \in [Calls -> Result \cup {"none", "next", "running"}]
    /\ moved \in [Calls -> BOOLEAN]
    /\ chClosed \in [Calls -> BOOLEAN]
    /\ gone \in [Calls -> BOOLEAN]
    /\ answer \in [Calls -> {"none", "task", "waiting", "end", "error"}]
    /\ reporter \in [Reporters -> {"idle", "save", "close", "bump", "wake",
                                   "advance", "kick"}]
    /\ waiting \in BOOLEAN /\ wantWake \in BOOLEAN /\ waking \in BOOLEAN
    /\ SendsOK
    /\ waker \in [Wakers -> {"idle", "sending", "sent", "failed"}]
    /\ guest \in {"turn", "calling", "working", "parked", "lost", "ended"}
    /\ live \in Calls \cup {NoCall}
    /\ typed \in BOOLEAN
    /\ stopping \in BOOLEAN
    /\ slip \in {"none", "raced", "failed"}

\* newRunCtl, and the main session starting its first turn (guest.Launch).
Init ==
    /\ pos = "host"
    /\ queued = FALSE /\ loop = "off" /\ loopSt = "error"
    /\ call = [h \in Calls |-> "idle"]
    /\ ticket = [h \in Calls |-> "none"]
    /\ moved = [h \in Calls |-> TRUE]
    /\ chClosed = [h \in Calls |-> TRUE]
    /\ gone = [h \in Calls |-> FALSE]
    /\ answer = [h \in Calls |-> "none"]
    /\ reporter = [r \in Reporters |-> "idle"]
    /\ waiting = FALSE /\ wantWake = FALSE /\ wakeSends = 0
    /\ waking = FALSE /\ waker = [w \in Wakers |-> "idle"]
    /\ guest = "turn" /\ live = NoCall /\ typed = FALSE
    /\ stopping = FALSE /\ slip = "none"

-----------------------------------------------------------------------------
(* Operations shared by the actors.                                        *)

\* bump: the number every handler compares its own with moves on.
Bump == moved' = [h \in Calls |-> TRUE]

\* requestWake
RequestWake == wantWake' = (wantWake \/ waiting)

\* kick: ask for an advance that starts after this point.
Kick ==
    /\ queued' = TRUE
    /\ loop' = IF loop = "off" THEN "take" ELSE loop

\* History: a next_task took the timer's branch of its select although its
\* `changed` channel was already closed ("raced"), or a host node failed
\* ("failed").  Only the properties read it.
Slip(s) == slip' = IF slip = "none" THEN s ELSE slip

\* eng.Advance: runs the host nodes up to the next wait; at a wait it returns
\* that wait again.  A host node may fail, which leaves the records alone.
Advance(st) ==
    /\ st \in IF pos = "host" THEN Result ELSE {pos}
    /\ pos' = IF st = "error" THEN pos ELSE st
    /\ IF st = "error" THEN Slip("failed") ELSE UNCHANGED slip

-----------------------------------------------------------------------------
(* The advance loop (advanceLoop).                                         *)

LoopStep(from, to) == loop = from /\ loop' = to

LoopTake ==
    /\ LoopStep("take", IF queued /\ ~stopping THEN "advance" ELSE "off")
    /\ queued' = FALSE
    /\ ticket' = [h \in Calls |->
                    IF ticket[h] # "next" THEN ticket[h]
                    ELSE IF stopping THEN "error" ELSE "running"]
    /\ UNCHANGED <<pos, loopSt, moved, wakeVars, slip>>

LoopAdvance ==
    /\ LoopStep("advance", "bump")
    /\ \E st \in Result : Advance(st) /\ loopSt' = st
    /\ UNCHANGED <<queued, ticket, moved, wakeVars>>

LoopBump ==
    /\ LoopStep("bump", IF WakesMainSession(loopSt) THEN "wake" ELSE "close")
    /\ Bump
    /\ UNCHANGED <<pos, queued, loopSt, ticket, wakeVars, slip>>

LoopWake ==
    /\ LoopStep("wake", "close")
    /\ RequestWake
    /\ UNCHANGED <<pos, queued, loopSt, ticket, moved, waiting, wakeSends, slip>>

\* close(r.done): every handler that holds this advance can read its status.
LoopClose ==
    /\ LoopStep("close", "take")
    /\ ticket' = [h \in Calls |->
                    IF ticket[h] = "running" THEN loopSt ELSE ticket[h]]
    /\ loopSt' = "error"
    /\ UNCHANGED <<pos, queued, moved, wakeVars, slip>>

Loop ==
    /\ LoopTake \/ LoopAdvance \/ LoopBump \/ LoopWake \/ LoopClose
    /\ UNCHANGED <<call, chClosed, gone, answer, reporter, wakerVars, guestVars,
                   stopping>>

-----------------------------------------------------------------------------
(* The handlers of next_task (NextTask).                                   *)

Goto(h, from, to) == call[h] = from /\ call' = [call EXCEPT ![h] = to]
Answer(h, a)      == answer' = [answer EXCEPT ![h] = a]
DropTicket(h)     == ticket' = [ticket EXCEPT ![h] = "none"]

\* clearWaiting, when the call comes in; recordSubagent may then fail.
ClearWaiting(h) ==
    /\ \/ Goto(h, "clear", "watch") /\ UNCHANGED answer
       \/ Goto(h, "clear", "return") /\ Answer(h, "error")
    /\ waiting' = FALSE /\ wantWake' = FALSE /\ wakeSends' = 0
    /\ slip' = "none"
    /\ UNCHANGED <<loopVars, ticket, moved, chClosed, gone, guestVars>>

\* ch := c.waitCh()
WaitCh(h) ==
    /\ Goto(h, "watch", "kick")
    /\ chClosed' = [chClosed EXCEPT ![h] = FALSE]
    /\ UNCHANGED <<loopVars, ticket, moved, gone, answer, wakeVars, guestVars,
                   slip>>

\* Mutant: joins the advance that is running.
KickJoins(h) ==
    /\ Goto(h, "kick", "run")
    /\ moved' = [moved EXCEPT ![h] = FALSE]
    /\ IF loop \in {"advance", "bump", "wake", "close"}
          THEN UNCHANGED <<queued, loop>> /\ ticket' = [ticket EXCEPT ![h] = "running"]
          ELSE Kick /\ ticket' = [ticket EXCEPT ![h] = "next"]
    /\ UNCHANGED <<loopSt, chClosed, gone, answer, wakeVars, guestVars, slip>>

\* seen := c.currentSeq(); r := c.kick().  No step of another actor between the
\* two would make a difference.
KickAdvance(h) ==
    /\ Goto(h, "kick", "run")
    /\ moved' = [moved EXCEPT ![h] = FALSE]
    /\ Kick
    /\ ticket' = [ticket EXCEPT ![h] = "next"]
    /\ UNCHANGED <<loopSt, chClosed, gone, answer, wakeVars, guestVars, slip>>

\* The first select ends with r.done.  An error is returned; otherwise seen is
\* read again, and a task (once its files are in the guest, which may fail) or
\* an end is returned, a wait for a human leads on to the second select.
RunDone(h) ==
    /\ call[h] = "run" /\ ticket[h] \in Result
    /\ \/ /\ ticket[h] = "human"
          /\ Goto(h, "run", "select")
          /\ UNCHANGED answer
       \/ /\ ticket[h] # "human"
          /\ Goto(h, "run", "return")
          /\ \E a \in {ticket[h]} \cup (IF ticket[h] = "task" THEN {"error"} ELSE {}) :
                Answer(h, a)
    /\ moved' = [moved EXCEPT ![h] = (ticket[h] = "error") /\ moved[h]]
    /\ DropTicket(h)
    /\ UNCHANGED <<loopVars, chClosed, gone, wakeVars, guestVars, slip>>

\* The first select ends with the wait: the timer, or the guest disconnected.
RunTimeout(h) ==
    /\ Goto(h, "run", "mark")
    /\ Answer(h, "waiting")
    /\ DropTicket(h)
    /\ UNCHANGED <<loopVars, moved, chClosed, gone, wakeVars, guestVars, slip>>

\* Either select ends because the run is being stopped.
Stopped(h) ==
    /\ stopping
    /\ Goto(h, "run", "return") \/ Goto(h, "select", "return")
    /\ Answer(h, "error")
    /\ DropTicket(h)
    /\ UNCHANGED <<loopVars, moved, chClosed, gone, wakeVars, guestVars, slip>>

\* The second select ends with `changed` closed: compute the position again.
ChangedClosed(h) ==
    /\ chClosed[h]
    /\ Goto(h, "select", "watch")
    /\ UNCHANGED <<loopVars, ticket, moved, chClosed, gone, answer, wakeVars,
                   guestVars, slip>>

\* Mutant: the second select has no timer, only the connection's end.
SelectUntilGone(h) ==
    /\ gone[h]
    /\ Goto(h, "select", "mark")
    /\ Answer(h, "waiting")
    /\ UNCHANGED <<loopVars, ticket, moved, chClosed, gone, wakeVars, guestVars,
                   slip>>

\* The second select ends with the wait, also when `changed` is closed as well:
\* Go picks either of the branches that are ready.
SelectTimeout(h) ==
    /\ Goto(h, "select", "mark")
    /\ Answer(h, "waiting")
    /\ IF chClosed[h] THEN Slip("raced") ELSE UNCHANGED slip
    /\ UNCHANGED <<loopVars, ticket, moved, chClosed, gone, wakeVars, guestVars>>

\* Mutant: does not compare seq.
MarkWaitingBlind(h) ==
    /\ Goto(h, "mark", "return")
    /\ waiting' = TRUE
    /\ UNCHANGED <<loopVars, ticket, moved, chClosed, gone, answer, wantWake,
                   wakeSends, guestVars, slip>>

\* markWaiting up to the end of its critical section ...
MarkWaiting(h) ==
    /\ Goto(h, "mark", IF moved[h] THEN "askwake" ELSE "return")
    /\ waiting' = TRUE
    /\ UNCHANGED <<loopVars, ticket, moved, chClosed, gone, answer, wantWake,
                   wakeSends, guestVars, slip>>

\* ... and its requestWake, if an event was missed.
MissedWake(h) ==
    /\ Goto(h, "askwake", "return")
    /\ RequestWake
    /\ UNCHANGED <<loopVars, ticket, moved, chClosed, gone, answer, waiting,
                   wakeSends, guestVars, slip>>

\* The deferred check: the result of a call that was cut does not arrive, which
\* undelivered treats like `waiting`.
Return(h) ==
    /\ LET cut == gone[h] /\ ~stopping
       IN  /\ Goto(h, "return", IF cut THEN "undelivered" ELSE "deliver")
           /\ waiting' = (waiting \/ cut)
    /\ UNCHANGED <<loopVars, ticket, moved, chClosed, gone, answer, wantWake,
                   wakeSends, guestVars, slip>>

\* The handler is over.
Over(h) ==
    /\ gone' = [gone EXCEPT ![h] = FALSE]
    /\ Answer(h, "none")
    /\ moved' = [moved EXCEPT ![h] = TRUE]
    /\ chClosed' = [chClosed EXCEPT ![h] = TRUE]
    /\ UNCHANGED <<loopVars, ticket, slip>>

\* undelivered's requestWake
UndeliveredWake(h) ==
    /\ Goto(h, "undelivered", "idle")
    /\ RequestWake
    /\ Over(h)
    /\ UNCHANGED <<waiting, wakeSends, guestVars>>

\* What the main session does with an answer (the loop rules of the guest's
\* CLAUDE.md): it works on a task, ends its turn when told to wait, is over at
\* an end, and after an error calls again or, having tried enough, gives up.
Receive(a) ==
    \/ a = "task" /\ guest' = "working"
    \/ a = "waiting" /\ guest' = "parked"
    \/ a = "end" /\ guest' = "ended"
    \/ a = "error" /\ guest' \in {"turn", "lost"}

\* The response is written; it arrives unless the connection was cut meanwhile.
Deliver(h) ==
    /\ Goto(h, "deliver", "idle")
    /\ IF live = h THEN live' = NoCall /\ Receive(answer[h])
                   ELSE UNCHANGED <<live, guest>>
    /\ Over(h)
    /\ UNCHANGED <<wakeVars, typed>>

Handler(h) ==
    /\ \/ ClearWaiting(h) \/ WaitCh(h) \/ KickAdvance(h)
       \/ RunDone(h) \/ RunTimeout(h) \/ Stopped(h)
       \/ ChangedClosed(h) \/ SelectTimeout(h)
       \/ MarkWaiting(h) \/ MissedWake(h)
       \/ Return(h) \/ UndeliveredWake(h) \/ Deliver(h)
    /\ UNCHANGED <<pos, reporter, wakerVars, stopping>>

-----------------------------------------------------------------------------
(* The reporters: decide and answer ("api"), ReportResult and              *)
(* ReportConcern ("tool").  The engine takes the report under c.mu, and    *)
(* from then on the host nodes behind the old position are to be run.      *)

Step(r, from, to) ==
    reporter[r] = from /\ reporter' = [reporter EXCEPT ![r] = to]

\* eng.Decide, eng.Answer
AcceptDecision ==
    /\ pos = "human" /\ ~stopping
    /\ Step("api", "idle", "save")
    /\ pos' = "host"
    /\ UNCHANGED <<queued, loop, moved, chClosed, wantWake, slip>>

\* SaveGate, SaveQuestion: when the write fails decide and answer return the
\* error, without notify and without an advance.
SaveDecision ==
    /\ Step("api", "save", "close") \/ Step("api", "save", "idle")
    /\ UNCHANGED <<pos, queued, loop, moved, chClosed, wantWake, slip>>

\* eng.ReportResult, eng.ReportConcern of a sub-agent of the main session
AcceptReport ==
    /\ pos = "task" /\ guest = "working" /\ ~stopping
    /\ Step("tool", "idle", "close")
    /\ pos' = "host"
    /\ UNCHANGED <<queued, loop, moved, chClosed, wantWake, slip>>

\* notify closes c.changed, ...
CloseChanged(r) ==
    /\ Step(r, "close", "bump")
    /\ chClosed' = [h \in Calls |-> TRUE]
    /\ UNCHANGED <<pos, queued, loop, moved, wantWake, slip>>

\* ... numbers the event, ...
NotifyBump(r) ==
    /\ Step(r, "bump", "wake")
    /\ Bump
    /\ UNCHANGED <<pos, queued, loop, chClosed, wantWake, slip>>

\* ... and asks for a wake.
NotifyWake(r) ==
    /\ Step(r, "wake", IF r = "api" THEN "advance" ELSE "kick")
    /\ RequestWake
    /\ UNCHANGED <<pos, queued, loop, moved, chClosed, slip>>

\* decide and answer then advance themselves, outside of the loop, ...
DirectAdvance ==
    /\ Step("api", "advance", "idle")
    /\ \E st \in Result : Advance(st)
    /\ UNCHANGED <<queued, loop, moved, chClosed, wantWake>>

\* ... the guest's reports kick the loop and return.
ReportKick ==
    /\ Step("tool", "kick", "idle")
    /\ Kick
    /\ UNCHANGED <<pos, moved, chClosed, wantWake, slip>>

\* What no reporter changes.
ReporterFrame == UNCHANGED <<loopSt, call, ticket, gone, answer, waiting,
                             wakeSends, wakerVars, guestVars, stopping>>

Accept == (AcceptDecision \/ AcceptReport) /\ ReporterFrame

Reporter(r) ==
    /\ \/ CloseChanged(r) \/ NotifyBump(r) \/ NotifyWake(r)
       \/ r = "api" /\ (SaveDecision \/ DirectAdvance)
       \/ r = "tool" /\ ReportKick
    /\ ReporterFrame

-----------------------------------------------------------------------------
(* tryWake, in the goroutines of requestWake and of the patrol.            *)

WakerStep(w, from, to) ==
    waker[w] = from /\ waker' = [waker EXCEPT ![w] = to]

WakeTry(w) ==
    /\ waiting /\ wantWake /\ ~waking /\ wakeSends < WakeMaxSends
    /\ WakerStep(w, "idle", "sending")
    /\ waking' = TRUE
    /\ UNCHANGED <<wakeSends, typed>>

\* sendWake: the text is typed into the session's tmux, ...
WakeType(w) ==
    /\ ~stopping
    /\ WakerStep(w, "sending", "sent")
    /\ typed' = TRUE
    /\ UNCHANGED <<waking, wakeSends>>

\* ... unless a human is attached, an Exec fails or the sandbox is gone.
WakeFail(w) ==
    /\ WakerStep(w, "sending", "failed")
    /\ UNCHANGED <<waking, wakeSends, typed>>

\* Mutant: returns on an error without giving up `waking`.
WakeDoneStuck(w) ==
    /\ \/ /\ WakerStep(w, "sent", "idle")
          /\ wakeSends' = wakeSends + 1 /\ waking' = FALSE
       \/ WakerStep(w, "failed", "idle") /\ UNCHANGED <<wakeSends, waking>>
    /\ UNCHANGED typed

\* The second critical section of tryWake counts what was sent.
WakeDone(w) ==
    /\ \/ WakerStep(w, "sent", "idle") /\ wakeSends' = wakeSends + 1
       \/ WakerStep(w, "failed", "idle") /\ UNCHANGED wakeSends
    /\ waking' = FALSE
    /\ UNCHANGED typed

WakerFrame == UNCHANGED <<pos, loopVars, callVars, reporter, waiting, wantWake,
                          guest, live, runVars>>

Waker(w) ==
    /\ WakeTry(w) \/ WakeType(w) \/ WakeFail(w) \/ WakeDone(w)
    /\ WakerFrame

-----------------------------------------------------------------------------
(* The environment: the guest's main session, the network, the human.      *)

\* The main session calls next_task.
Arrive(h) ==
    /\ guest = "turn"
    /\ Goto(h, "idle", "clear")
    /\ live' = h /\ guest' = "calling"
    /\ UNCHANGED <<gone, typed>>

\* The connection of the open call is cut.  The session calls again, or gives
\* up and ends its turn: "parked" if serve can still see that the result did
\* not arrive, "lost" if the handler is past its check.
Disconnect ==
    /\ guest = "calling"
    /\ gone' = [gone EXCEPT ![live] = TRUE]
    /\ live' = NoCall
    /\ guest' \in {"turn", IF call[live] = "deliver" THEN "lost" ELSE "parked"}
    /\ UNCHANGED <<call, typed>>

\* The sub-agent is done (or was never able to report) and the main session
\* asks for the next task.
FinishTask ==
    /\ guest = "working" /\ reporter["tool"] = "idle"
    /\ guest' = "turn"
    /\ UNCHANGED <<call, gone, live, typed>>

\* The session whose turn has ended reads the wake text, ...
TakeWake ==
    /\ typed /\ guest \in {"parked", "lost"}
    /\ typed' = FALSE
    /\ guest' = "turn"
    /\ UNCHANGED <<call, gone, live>>

\* ... or the text is lost in the input line, ...
LoseText ==
    /\ typed
    /\ typed' = FALSE
    /\ UNCHANGED <<call, gone, guest, live>>

\* ... or a human attaches (masuda chat) and tells the session to go on.
HumanPrompts ==
    /\ guest \in {"parked", "lost"}
    /\ guest' = "turn"
    /\ UNCHANGED <<call, gone, live, typed>>

GuestFrame == UNCHANGED <<pos, loopVars, ticket, moved, chClosed, answer,
                          reporter, wakeVars, wakerVars, runVars>>

Guest ==
    /\ ~stopping
    /\ \/ \E h \in Calls : Arrive(h)
       \/ Disconnect \/ FinishTask \/ TakeWake \/ LoseText \/ HumanPrompts
    /\ GuestFrame

\* Stop, Remove and the end of serve cancel c.ctx (close).
Stop ==
    /\ ~stopping
    /\ stopping' = TRUE
    /\ UNCHANGED <<pos, loopVars, callVars, reporter, wakeVars, wakerVars,
                   guestVars, slip>>

\* Nothing of the run is left running: the only state in which it may stay.
Drained ==
    /\ loop = "off"
    /\ \A h \in Calls : call[h] = "idle"
    /\ \A r \in Reporters : reporter[r] = "idle"
    /\ \A w \in Wakers : waker[w] = "idle"

Terminated == stopping /\ Drained /\ UNCHANGED vars

-----------------------------------------------------------------------------
Next ==
    \/ Loop
    \/ \E h \in Calls : Handler(h)
    \/ Accept
    \/ \E r \in Reporters : Reporter(r)
    \/ \E w \in Wakers : Waker(w)
    \/ Guest
    \/ Stop
    \/ Terminated

Spec == Init /\ [][Next]_vars

(***************************************************************************)
(* Goroutines keep running, and the patrol runs tryWake every thirty       *)
(* seconds at the latest.  The timer of next_task runs over all of its     *)
(* loop, so a call does not go round for ever.  An Exec in the sandbox     *)
(* does not fail for ever and no human stays attached for ever.  The main  *)
(* session goes on with a turn it has begun and reads what is typed into   *)
(* its input.  Humans and the network owe nothing.                         *)
(***************************************************************************)
Timeout(h) == (RunTimeout(h) \/ SelectTimeout(h))
                 /\ UNCHANGED <<pos, reporter, wakerVars, stopping>>

Fairness ==
    /\ WF_vars(Loop)
    /\ \A h \in Calls : WF_vars(Handler(h)) /\ SF_vars(Timeout(h))
    /\ \A r \in Reporters : WF_vars(Reporter(r))
    /\ \A w \in Wakers : WF_vars(Waker(w)) /\ SF_vars(WakeType(w) /\ WakerFrame)
    /\ WF_vars(~stopping /\ TakeWake /\ GuestFrame)

FairSpec == Spec /\ Fairness

-----------------------------------------------------------------------------
(* Properties.                                                             *)

\* The main session ended its turn waiting for serve although there is
\* something for it to do.
Forgotten == guest = "parked" /\ WakesMainSession(pos)

\* Somebody is still going to ask for a wake: a handler that will see that its
\* result did not arrive, the loop with an advance to run or before its
\* requestWake, or a reporter before its requestWake.
WakeComing ==
    \/ \E h \in Calls : gone[h] /\ call[h] # "deliver"
    \/ queued \/ loop = "advance"
    \/ loop = "bump" /\ WakesMainSession(loopSt)
    \/ loop = "wake"
    \/ \E r \in Reporters : reporter[r] \in {"save", "close", "bump", "wake"}

\* No wake-up is lost: a main session that waits although there is something to
\* do is going to be woken.  docs/guest-protocol.md promises this also for the
\* call that returned `waiting` at the moment of the change.
NoLostWake ==
    Forgotten /\ ~stopping => (waiting /\ wantWake) \/ WakeComing

\* The same, as long as no call took the timer's branch of the select with its
\* `changed` channel closed, and no host node failed, since the last next_task.
NoLostWakeUnlessSlip == slip = "none" => NoLostWake

\* The status a live call is about to hand to the main session is the engine's
\* current one: kick never joins an advance that began before the call, whose
\* status could be a task that was already reported.
HandsOutCurrentTask ==
    guest = "calling" =>
        /\ answer[live] = "task" => pos = "task"
        /\ answer[live] = "end" => pos = "end"

\* At most one goroutine is between the two critical sections of tryWake, so
\* that the texts of two wakes are not mixed in the session's input and the
\* count of sends is kept.
OneWakeAtATime ==
    \A v, w \in Wakers : waker[v] # "idle" /\ waker[w] # "idle" => v = w

\* A main session that was told to wait is woken once there is something to do,
\* unless the sends are used up, the run is stopped, or one of the two slips
\* happened (docs/guest-protocol.md, "masudaがメインセッションを起こす").
ForgottenIsWoken ==
    (Forgotten /\ slip = "none") ~>
        (~Forgotten \/ slip # "none" \/ wakeSends = WakeMaxSends \/ stopping)

\* next_task always returns: with a result, with `waiting`, or with an error.
EveryCallReturns == \A h \in Calls : (call[h] # "idle") ~> (call[h] = "idle")

\* Nobody waits for ever for what is there: neither the main session that was told to wait
\* nor a call (serve/run.go, NextTask and requestWake): the two above.
NobodyWaitsForEver == ForgottenIsWoken /\ EveryCallReturns

=============================================================================
