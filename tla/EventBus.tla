------------------------------ MODULE EventBus ------------------------------
(***************************************************************************)
(* The event stream: eventBus, statusChanged and Watch of serve/events.go, *)
(* and the clients that follow it, `masuda wait` (cmd/masuda/wait.go) among *)
(* them.                                                                   *)
(*                                                                         *)
(* A step is one critical section of eventBus.mu, one read of a workspace  *)
(* (store.Get with toProto), or one event sent.  What is sent arrives,     *)
(* until the connection is cut.  Of a status the model has the part that   *)
(* publishStatus compares (Contents); http, hook and engine events and the *)
(* notices of serve have none.                                             *)
(***************************************************************************)
EXTENDS Integers, Sequences

CONSTANTS Workspaces,
          Publishers,   \* goroutines that change a workspace or look after it
          Watchers,     \* clients with a Watch
          Waits,        \* what clients may wait for (waitEvent, --ignore); {}: another client
          All, Nobody,  \* no workspace given; an event of no workspace
          BufferSize,   \* eventBufferSize
          MaxWork       \* bound: how often anything from outside happens

ASSUME WaitsAssumption == Waits \subseteq SUBSET {"running", "gate", "stopped"}
ASSUME NamesAssumption == {All, Nobody} \cap Workspaces = {} /\ All # Nobody
ASSUME BufferAssumption == BufferSize \in Nat \ {0} /\ MaxWork \in Nat

\* What toProto shows, as far as it matters here: an active workspace, one that
\* waits at a gate, and one that is stopped.
Contents == {"running", "gate", "stopped"}
Active(c) == c \in {"running", "gate"}
NoContent == "none"

VARIABLES
    state,    \* what toProto shows of a workspace; "absent": removed
    version,  \* how often it changed (history)
    seq, events, last,    \* eventBus: seq, the kept events, lastStatus
    closed,   \* a watcher holds no wake channel, or one that is closed
    pub,      \* the publishers, each in a statusChanged or a Remove
    at,       \* where the Watch of a client stands
    id,       \* the workspace it asks for
    awaits,   \* what `masuda wait` waits for; {}: another client
    next,     \* next
    out,      \* the events since returned, still to be sent in their order
    todo,     \* the workspaces whose first status is still to be sent
    seen,     \* client: the last seq received
    view,     \* client: the last status received of each workspace
    log,      \* history: all events since serve started
    heard,    \* history: the last event sent on the present stream
    landed,   \* history: the newest version that publishStatus has had
    raced,    \* history: a status went into the stream after a newer one
    slip,     \* history: see Slips
    work      \* counts up to MaxWork

busVars == <<seq, events, last, closed, log>>
streamVars == <<at, id, awaits, next, out, todo, seen, view, heard>>
sourceVars == <<state, version, pub, landed, raced>>
vars == <<sourceVars, busVars, streamVars, slip, work>>

Idle == [at |-> "idle", ws |-> Nobody, status |-> NoContent, version |-> 0]
Status == Contents \cup {NoContent}
Event == [seq : Nat \ {0}, ws : Workspaces \cup {Nobody}, status : Status]

\* Why what a client knows of a workspace may be out of date although the stream
\* is not, until the next status event.
\*   ahead    the first status shows a state that the status events are not at
\*   cut      the stream was cut between the first statuses and went on after
\*            their number
\*   jumped   the stream went on behind events that were no longer kept
\*   renumbered   serve started again
Slips == {"ahead", "cut", "jumped", "renumbered"}

PubRecords ==
    [at : {"idle", "changed", "read", "forget"}, ws : Workspaces \cup {Nobody},
     status : Status, version : Nat]

SourceTypes ==
    /\ state \in [Workspaces -> Contents \cup {"absent"}]
    /\ version \in [Workspaces -> Nat]
    /\ pub \in [Publishers -> PubRecords]
    /\ landed \in [Workspaces -> Nat]
    /\ raced \in [Workspaces -> BOOLEAN]
BusTypes ==
    /\ seq \in Nat
    /\ events \in Seq(Event) /\ log \in Seq(Event)
    /\ last \in [Workspaces -> Status]
    /\ closed \in [Watchers -> BOOLEAN]
StreamTypes ==
    /\ at \in [Watchers -> {"off", "window", "head", "status", "stream",
                            "returned", "failed"}]
    /\ id \in [Watchers -> Workspaces \cup {All}]
    /\ awaits \in [Watchers -> Waits]
    /\ next \in [Watchers -> Nat]
    /\ out \in [Watchers -> SUBSET Event]
    /\ todo \in [Watchers -> SUBSET Workspaces]
    /\ seen \in [Watchers -> Nat]
    /\ view \in [Watchers -> [Workspaces -> Status]]
    /\ heard \in [Watchers -> Nat]
    /\ slip \in [Watchers -> [Workspaces -> SUBSET Slips]]
TypeOK == SourceTypes /\ BusTypes /\ StreamTypes /\ work \in 0..MaxWork

Init ==
    /\ state = [w \in Workspaces |-> "running"]
    /\ version = [w \in Workspaces |-> 0]
    /\ seq = 0 /\ events = <<>> /\ log = <<>>
    /\ last = [w \in Workspaces |-> NoContent]
    /\ closed = [k \in Watchers |-> TRUE]
    /\ pub = [p \in Publishers |-> Idle]
    /\ at = [k \in Watchers |-> "off"]
    /\ id \in [Watchers -> Workspaces \cup {All}]
    /\ awaits \in [Watchers -> Waits]
    /\ \A k \in Watchers : awaits[k] # {} => id[k] # All
    /\ next = [k \in Watchers |-> 0]
    /\ out = [k \in Watchers |-> {}]
    /\ todo = [k \in Watchers |-> {}]
    /\ seen = [k \in Watchers |-> 0]
    /\ view = [k \in Watchers |-> [w \in Workspaces |-> NoContent]]
    /\ heard = [k \in Watchers |-> 0]
    /\ landed = [w \in Workspaces |-> 0]
    /\ raced = [w \in Workspaces |-> FALSE]
    /\ slip = [k \in Watchers |-> [w \in Workspaces |-> {}]]
    /\ work = 0

\* Something from outside: bounded.
Work == work < MaxWork /\ work' = work + 1

-----------------------------------------------------------------------------
(* Publishing.                                                             *)

\* Mutant: it keeps the oldest events instead of the newest.
PublishKeepsOldest(w, s) ==
    LET e == [seq |-> seq + 1, ws |-> w, status |-> s]
        es == Append(events, e)
    IN /\ seq' = seq + 1
       /\ events' = IF Len(es) > BufferSize THEN SubSeq(es, 1, BufferSize) ELSE es
       /\ closed' = [k \in Watchers |-> TRUE]
       /\ log' = Append(log, e)

\* publishLocked: number the event, keep the last BufferSize, wake everybody.
Publish(w, s) ==
    LET e == [seq |-> seq + 1, ws |-> w, status |-> s]
        es == Append(events, e)
    IN /\ seq' = seq + 1
       /\ events' = IF Len(es) > BufferSize THEN Tail(es) ELSE es
       /\ closed' = [k \in Watchers |-> TRUE]
       /\ log' = Append(log, e)

\* Somebody writes workspace.json, a gate, a question or the activity, and is
\* going to call statusChanged; ...
Change(p, w) ==
    /\ Work /\ pub[p].at = "idle" /\ state[w] # "absent"
    /\ \E c \in Contents \ {state[w]} : state' = [state EXCEPT ![w] = c]
    /\ version' = [version EXCEPT ![w] = @ + 1]
    /\ pub' = [pub EXCEPT ![p] = [Idle EXCEPT !.at = "changed", !.ws = w]]
    /\ UNCHANGED <<busVars, landed, raced>>

\* ... patrol, touch and the observers call it although it looks the same.
Observe(p, w) ==
    /\ Work /\ pub[p].at = "idle" /\ state[w] # "absent"
    /\ pub' = [pub EXCEPT ![p] = [Idle EXCEPT !.at = "changed", !.ws = w]]
    /\ UNCHANGED <<state, version, busVars, landed, raced>>

\* statusChanged: read the workspace, ...
Read(p) ==
    LET w == pub[p].ws IN
    /\ pub[p].at = "changed"
    /\ pub' = [pub EXCEPT ![p] =
                 IF state[w] = "absent" THEN Idle
                 ELSE [at |-> "read", ws |-> w, status |-> state[w],
                       version |-> version[w]]]
    /\ UNCHANGED <<state, version, busVars, landed, raced, work>>

\* ... and publishStatus what was read, unless it is what was published last.
PublishStatus(p) ==
    LET w == pub[p].ws  s == pub[p].status  v == pub[p].version IN
    /\ pub[p].at = "read"
    /\ \/ s = last[w] /\ UNCHANGED busVars
       \/ s # last[w] /\ Publish(w, s) /\ last' = [last EXCEPT ![w] = s]
    /\ pub' = [pub EXCEPT ![p] = Idle]
    /\ landed' = [landed EXCEPT ![w] = IF v > @ THEN v ELSE @]
    /\ raced' = [raced EXCEPT ![w] = v < landed[w] /\ (@ \/ s # last[w])]
    /\ UNCHANGED <<state, version, work>>

\* publish: an event that is no status.
PublishOther ==
    /\ Work
    /\ \E w \in Workspaces \cup {Nobody} : Publish(w, NoContent)
    /\ UNCHANGED <<sourceVars, last>>

\* Remove deletes the workspace and then its last status.
Remove(p, w) ==
    /\ Work /\ pub[p].at = "idle" /\ state[w] # "absent"
    /\ state' = [state EXCEPT ![w] = "absent"]
    /\ pub' = [pub EXCEPT ![p] = [Idle EXCEPT !.at = "forget", !.ws = w]]
    /\ UNCHANGED <<version, busVars, landed, raced>>

Forget(p) ==
    /\ pub[p].at = "forget"
    /\ last' = [last EXCEPT ![pub[p].ws] = NoContent]
    /\ pub' = [pub EXCEPT ![p] = Idle]
    /\ UNCHANGED <<state, version, seq, events, closed, log, landed, raced, work>>

Source ==
    /\ \/ \E p \in Publishers :
             \/ Read(p) \/ PublishStatus(p) \/ Forget(p)
             \/ \E w \in Workspaces : Change(p, w) \/ Observe(p, w) \/ Remove(p, w)
       \/ PublishOther
    /\ UNCHANGED <<streamVars, slip>>

-----------------------------------------------------------------------------
(* Watch and its client.                                                   *)

Goto(k, from, to) == at[k] = from /\ at' = [at EXCEPT ![k] = to]

\* The client takes note of a status, and `masuda wait` has what it waits for.
Receive(k, w, n, s) ==
    /\ seen' = [seen EXCEPT ![k] = n]
    /\ view' = IF s = NoContent THEN view ELSE [view EXCEPT ![k][w] = s]

\* waitEvent finds a reason to return (DoneWhenStopped: it has forgotten gates).
DoneWhenStopped(k, s) == s \in awaits[k] /\ ~Active(s)
Done(k, s) == s \in awaits[k]

Targets(k) == IF id[k] = All THEN Workspaces ELSE {id[k]}
NotFound(k) == \A w \in Targets(k) : id[k] = w /\ state[w] = "absent"
IsWait(k) == awaits[k] # {}

\* A client opens its stream for news (0) or behind the last number it has; wait
\* always for news.  A workspace that is not there is refused.
Open(k) ==
    /\ \/ /\ ~NotFound(k)
          /\ Goto(k, "off", "window")
          /\ \E n \in {0} \cup (IF IsWait(k) THEN {} ELSE {seen[k]}) :
                next' = [next EXCEPT ![k] = n]
       \/ /\ IsWait(k) /\ NotFound(k)
          /\ Goto(k, "off", "failed")
          /\ UNCHANGED next
    /\ UNCHANGED <<seq, events, closed, out, todo, seen, view, heard, slip>>

\* The checks of after_seq.
Oldest == IF events = <<>> THEN seq + 1 ELSE events[1].seq
Refused(n) == n > seq \/ (n # 0 /\ n + 1 < Oldest)

\* A client that is refused starts with 0.
Window(k) ==
    /\ \/ /\ Refused(next[k])
          /\ Goto(k, "window", "off")
          /\ seen' = [seen EXCEPT ![k] = 0]
          /\ UNCHANGED heard
       \/ /\ ~Refused(next[k])
          /\ Goto(k, "window", IF next[k] = 0 THEN "head" ELSE "stream")
          /\ heard' = IF next[k] = 0 THEN heard ELSE [heard EXCEPT ![k] = 0]
          /\ UNCHANGED seen
    /\ UNCHANGED <<seq, events, closed, next, out, todo, view, slip>>

\* For news: the number to go on from, and then ...
Newest(k) ==
    /\ Goto(k, "head", "status")
    /\ next' = [next EXCEPT ![k] = seq]
    /\ todo' = [todo EXCEPT ![k] = Targets(k)]
    /\ heard' = [heard EXCEPT ![k] = 0]
    /\ UNCHANGED <<seq, events, closed, out, seen, view, slip>>

\* ... the present status of each workspace, under that number.
FirstStatus(k, w) ==
    /\ at[k] = "status" /\ w \in todo[k]
    /\ \/ /\ state[w] # "absent"
          /\ Receive(k, w, next[k], state[w])
          /\ slip' = [slip EXCEPT ![k][w] =
                       IF last[w] \in {NoContent, state[w]} THEN {} ELSE {"ahead"}]
          /\ at' = [at EXCEPT ![k] = IF Done(k, state[w]) THEN "returned"
                                     ELSE IF todo[k] = {w} THEN "stream" ELSE @]
       \/ /\ state[w] = "absent"
          /\ at' = [at EXCEPT ![k] = IF IsWait(k) THEN "failed"
                                     ELSE IF id[k] # All THEN "off"
                                     ELSE IF todo[k] = {w} THEN "stream" ELSE @]
          /\ UNCHANGED <<seen, view, slip>>
    /\ todo' = [todo EXCEPT ![k] = @ \ {w}]
    /\ UNCHANGED <<seq, events, closed, next, out, heard>>

\* since: the kept events behind next, the newest number and the channel that
\* the next event closes.
Wants(k, e) == id[k] = All \/ e.ws \in {id[k], Nobody}
SentTooLate(k, e) == Wants(k, e) /\ e.seq > next[k] + 1
Sent(k, e) == Wants(k, e) /\ e.seq > next[k]

Since(k) ==
    LET jumped == events # <<>> /\ events[1].seq > next[k] + 1
    IN /\ at[k] = "stream" /\ out[k] = {} /\ closed[k]
       /\ out' = [out EXCEPT ![k] = {events[i] : i \in {j \in DOMAIN events : Sent(k, events[j])}}]
       /\ next' = [next EXCEPT ![k] = seq]
       /\ closed' = [closed EXCEPT ![k] = FALSE]
       /\ slip' = [slip EXCEPT ![k] = [w \in Workspaces |->
                    IF jumped THEN @[w] \cup {"jumped"} ELSE @[w]]]
       /\ UNCHANGED <<seq, events, at, todo, seen, view, heard>>

\* The slice that since returns is in the order of the ring, and that is the order of
\* the numbers: its head is the event with the least.
First(es) == CHOOSE e \in es : \A f \in es : e.seq <= f.seq

Send(k) ==
    LET e == First(out[k]) IN
    /\ at[k] = "stream" /\ out[k] # {}
    /\ out' = [out EXCEPT ![k] = IF Done(k, e.status) THEN {} ELSE @ \ {e}]
    /\ Receive(k, e.ws, e.seq, e.status)
    /\ heard' = [heard EXCEPT ![k] = e.seq]
    /\ slip' = IF e.status = NoContent THEN slip ELSE [slip EXCEPT ![k][e.ws] = {}]
    /\ at' = [at EXCEPT ![k] = IF Done(k, e.status) THEN "returned" ELSE @]
    /\ UNCHANGED <<seq, events, closed, next, todo>>

Stream(k) ==
    /\ \/ Open(k) \/ Window(k) \/ Newest(k) \/ Since(k) \/ Send(k)
       \/ \E w \in Workspaces : FirstStatus(k, w)
    /\ UNCHANGED <<sourceVars, last, log, id, awaits, work>>

\* The connection is cut: what was not yet sent is not received.
Cut(k) ==
    /\ Work
    /\ at[k] \in {"window", "head", "status", "stream"}
    /\ at' = [at EXCEPT ![k] = "off"]
    /\ out' = [out EXCEPT ![k] = {}]
    /\ todo' = [todo EXCEPT ![k] = {}]
    /\ slip' = [slip EXCEPT ![k] = [w \in Workspaces |->
                 IF w \in todo[k] THEN @[w] \cup {"cut"} ELSE @[w]]]
    /\ next' = [next EXCEPT ![k] = 0]
    /\ closed' = [closed EXCEPT ![k] = TRUE]
    /\ UNCHANGED <<sourceVars, seq, events, last, log, id, awaits, seen, view, heard>>

-----------------------------------------------------------------------------

\* serve ends and starts again: numbers and events begin anew, the streams are
\* over, and recoverInterrupted has stopped what was active.
Restart ==
    /\ Work
    /\ state' = [w \in Workspaces |-> IF Active(state[w]) THEN "stopped" ELSE state[w]]
    /\ seq' = 0 /\ events' = <<>> /\ log' = <<>>
    /\ last' = [w \in Workspaces |-> NoContent]
    /\ closed' = [k \in Watchers |-> TRUE]
    /\ next' = [k \in Watchers |-> 0]
    /\ pub' = [p \in Publishers |-> Idle]
    /\ landed' = version /\ raced' = [w \in Workspaces |-> FALSE]
    /\ at' = [k \in Watchers |-> IF at[k] \in {"returned", "failed"} THEN at[k] ELSE "off"]
    /\ out' = [k \in Watchers |-> {}]
    /\ slip' = [k \in Watchers |-> [w \in Workspaces |-> {"renumbered"}]]
    /\ todo' = [k \in Watchers |-> {}]
    /\ UNCHANGED <<version, id, awaits, seen, view, heard>>

\* Nothing more happens.
Quiet == /\ work = MaxWork
         /\ \A p \in Publishers : pub[p].at = "idle"
         /\ \A k \in Watchers : \/ at[k] \in {"returned", "failed"}
                                \/ at[k] = "off" /\ NotFound(k)
                                \/ at[k] = "stream" /\ out[k] = {} /\ ~closed[k]
         /\ UNCHANGED vars

Next == \/ Source \/ Restart \/ Quiet
        \/ \E k \in Watchers : Stream(k) \/ Cut(k)

Spec == Init /\ [][Next]_vars

\* A statusChanged that has begun goes on, and so do the handlers of Watch;
\* `masuda wait` tries again.
FairSpec ==
    /\ Spec
    /\ \A p \in Publishers :
          WF_vars((Read(p) \/ PublishStatus(p) \/ Forget(p)) /\ UNCHANGED <<streamVars, slip>>)
    /\ \A k \in Watchers : WF_vars(Stream(k))

-----------------------------------------------------------------------------
(* What is promised.                                                       *)

\* Streams go through the log without leaving out what they want, in order and
\* once, as long as what they have not had is kept.
Place(k) ==
    IF at[k] \notin {"status", "stream"} THEN -1
    ELSE IF out[k] = {} THEN next[k] ELSE First(out[k]).seq - 1
Feed == INSTANCE EventFeed WITH pos <- [k \in Watchers |-> Place(k)]
FeedSpec == Feed!Spec

\* Nobody is about to publish the status of w.
Settled(w) == \A p \in Publishers : pub[p].ws # w

\* A stream has sent everything.
Drained(k) == at[k] = "stream" /\ out[k] = {} /\ next[k] = seq

\* Once everything about a workspace is published and sent, a client has its
\* present status.
Current(k, w) ==
    state[w] # "absent" /\ id[k] \in {All, w} /\ Settled(w) /\ Drained(k)
        => view[k][w] = state[w]
\* The same, unless a status was overtaken by an older one (statusChanged reads and
\* publishes apart) or the stream has slipped.
ViewIsCurrentUnlessSlip ==
    \A k \in Watchers, w \in Workspaces :
        ~raced[w] /\ slip[k][w] = {} => Current(k, w)

\* `masuda wait` returns once its workspace waits or rests for good: what it waits
\* for is published at some time, or is the first status (waitFor, cmd/masuda).
\* Not so if the first status was newer than the events, or an older status came
\* last and the newer one was jumped over.
WaitReturns ==
    \A k \in Watchers :
        <>[](\E w \in Workspaces : /\ id[k] = w /\ state[w] \in awaits[k] /\ ~raced[w]
                                   /\ slip[k][w] \cap {"ahead", "jumped"} = {})
            => <>(at[k] \in {"returned", "failed"})
=============================================================================
