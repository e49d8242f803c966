--------------------------- MODULE EventBusProofs ---------------------------
(***************************************************************************)
(* The event stream for any number of workspaces, publishers and watchers  *)
(* and a ring of any size: it implements EventFeed, and a client that has   *)
(* everything shows what there is.                                         *)
(*                                                                         *)
(* And below: what is shown of a session is so, and its end and its waits  *)
(* are shown, for any number of requests, runs, messages and breaks.       *)
(***************************************************************************)
EXTENDS EventBus, Activity, SequenceTheorems, WellFoundedInduction, TLAPS

(***************************************************************************)
(* The inductive invariant                                                 *)
(***************************************************************************)

\* e is a status event of w.
Shown(w, e) == e.ws = w /\ e.status # NoContent

\* The kept events are the last of the log, which is numbered without a gap.
RingInv ==
    /\ Len(log) = seq
    /\ \A n \in 1..seq : log[n].seq = n
    /\ Len(events) = IF seq < BufferSize THEN seq ELSE BufferSize
    /\ \A i \in 1..Len(events) : events[i] = log[seq - Len(events) + i]

\* lastStatus is what the last status event of a workspace said.
LastOf(w) ==
    \/ /\ last[w] = NoContent
       /\ \A n \in 1..seq : ~Shown(w, log[n])
    \/ \E n \in 1..seq : /\ Shown(w, log[n]) /\ log[n].status = last[w]
                         /\ \A m \in (n + 1)..seq : ~Shown(w, log[m])
LastInv == \A w \in Workspaces : state[w] # "absent" => LastOf(w)

\* What a publisher has read was so once, and is so unless there is a newer version.
Doing(p) ==
    /\ pub[p].at # "idle" => pub[p].ws \in Workspaces
    /\ pub[p].at = "forget" => state[pub[p].ws] = "absent"
    /\ pub[p].at = "read" =>
         /\ pub[p].status \in Contents /\ pub[p].version <= version[pub[p].ws]
         /\ pub[p].version = version[pub[p].ws] => state[pub[p].ws] \in {pub[p].status, "absent"}

\* p will publish what w is now.
Brings(p, w) ==
    /\ pub[p].ws = w
    /\ pub[p].at = "changed" \/ (pub[p].at = "read" /\ pub[p].version = version[w])

\* A version has landed or is on its way, and one that has landed is the last
\* status unless it was overtaken.
OnItsWay(w) ==
    /\ landed[w] = version[w] \/ \E p \in Publishers : Brings(p, w)
    /\ ~raced[w] /\ landed[w] = version[w] => last[w] \in {NoContent, state[w]}
PubInv ==
    /\ \A w \in Workspaces : landed[w] <= version[w]
    /\ \A p \in Publishers : Doing(p)
    /\ \A w \in Workspaces : state[w] # "absent" => OnItsWay(w)

\* What is still to be sent is all that the stream wants from there up to next.
StreamOf(k) ==
    /\ at[k] \in {"status", "stream"} => next[k] <= seq
    /\ at[k] # "stream" => out[k] = {}
    /\ at[k] = "window" /\ next[k] # 0 => next[k] = seen[k]
    /\ todo[k] \subseteq Targets(k)
    /\ \A e \in out[k] :
          /\ e.seq \in 1..next[k] /\ e = log[e.seq] /\ Wants(k, e)
          /\ \A n \in e.seq..next[k] : Wants(k, log[n]) => log[n] \in out[k]
StreamInv == \A k \in Watchers : StreamOf(k)

\* The stream of k is past the first status of w; k has had it at some time.
Streams(k, w) == at[k] \in {"status", "stream"} /\ ~(at[k] = "status" /\ w \in todo[k])
Informed(k, w) == Streams(k, w) \/ (seen[k] # 0 /\ at[k] \in {"off", "window", "head"})

\* Who is informed has the last status, or there is a newer one behind what it has seen;
\* the stream has what is behind that up to next still to be sent.
Knows(k, w) ==
    /\ Informed(k, w) =>
         /\ last[w] # NoContent => \/ view[k][w] = last[w]
                                   \/ \E n \in (seen[k] + 1)..seq : Shown(w, log[n])
         /\ last[w] = NoContent /\ landed[w] = version[w] => view[k][w] = state[w]
    /\ Streams(k, w) => \A n \in (seen[k] + 1)..next[k] : Shown(w, log[n]) => log[n] \in out[k]
ViewOf(k, w) ==
    slip[k][w] = {} =>
        /\ seen[k] <= seq
        /\ state[w] # "absent" /\ id[k] \in {All, w} => Knows(k, w)
ViewInv == \A k \in Watchers, w \in Workspaces : ViewOf(k, w)

EventInv == TypeOK /\ RingInv /\ LastInv /\ PubInv /\ StreamInv /\ ViewInv

\* What the actions of Source and of Stream leave alone.
SourceKeeps == UNCHANGED <<streamVars, slip>>
StreamKeeps == UNCHANGED <<sourceVars, last, log, id, awaits, work>>

\* A step of a publisher.
Works(p, w) ==
    \/ Change(p, w) \/ Observe(p, w) \/ Read(p) \/ PublishStatus(p) \/ Remove(p, w) \/ Forget(p)

\* The log stays or becomes longer.
LogGrows == seq' \in Nat /\ seq <= seq' /\ \A n \in 1..seq : log'[n] = log[n]

\* What a step of Source can mean for a workspace that is there afterwards.
Passes(w) ==
    /\ state[w] # "absent"
    /\ \/ /\ last'[w] = last[w]
          /\ \A n \in (seq + 1)..seq' : ~Shown(w, log'[n])
          /\ \/ last[w] # NoContent
             \/ landed'[w] = version'[w] => landed[w] = version[w] /\ state'[w] = state[w]
       \/ /\ last'[w] # NoContent /\ seq' = seq + 1
          /\ Shown(w, log'[seq']) /\ log'[seq'].status = last'[w]

\* The other streams stay where they are.
OthersStay(k) == \A j \in Watchers \ {k} :
    /\ at'[j] = at[j] /\ next'[j] = next[j] /\ out'[j] = out[j] /\ todo'[j] = todo[j]
    /\ seen'[j] = seen[j] /\ view'[j] = view[j] /\ heard'[j] = heard[j] /\ slip'[j] = slip[j]

(***************************************************************************)
(* Types                                                                   *)
(***************************************************************************)

\* The first of some events.
LEMMA FirstOf ==
    ASSUME NEW es \in SUBSET Event, es # {}
    PROVE  First(es) \in es /\ \A f \in es : First(es).seq <= f.seq
<1> DEFINE T == {e.seq : e \in es}
<1>1. T \subseteq Nat /\ T # {}
  BY DEF Event
<1>2. PICK x \in T : \A y \in T : ~(<<y, x>> \in OpToRel(<, Nat))
  BY <1>1, NatLessThanWellFounded, WFMin
<1>3. \A y \in T : x <= y
  <2> SUFFICES ASSUME NEW y \in T, ~(x <= y) PROVE FALSE
    OBVIOUS
  <2>1. x \in Nat /\ y \in Nat
    BY <1>1
  <2>2. y < x
    BY <2>1
  <2>3. <<y, x>> \in OpToRel(<, Nat)
    BY <2>1, <2>2 DEF OpToRel
  <2> QED
    BY <1>2, <2>3
<1>4. PICK e \in es : e.seq = x
  OBVIOUS
<1>5. \A f \in es : e.seq <= f.seq
  BY <1>3, <1>4
<1> QED
  BY <1>5 DEF First

\* Publishing appends to the log.
LEMMA PublishDoes ==
    ASSUME BusTypes, NEW w \in Workspaces \cup {Nobody}, NEW s \in Status, Publish(w, s)
    PROVE  /\ seq' = seq + 1 /\ seq' \in Nat
           /\ events' \in Seq(Event) /\ log' \in Seq(Event)
           /\ Len(log') = Len(log) + 1
           /\ \A n \in 1..Len(log) : log'[n] = log[n]
           /\ log'[Len(log) + 1] = [seq |-> seq + 1, ws |-> w, status |-> s]
           /\ closed' \in [Watchers -> BOOLEAN]
<1> DEFINE e == [seq |-> seq + 1, ws |-> w, status |-> s]
<1>1. e \in Event
  BY DEF BusTypes, Event
<1>2. log \in Seq(Event) /\ events \in Seq(Event)
  BY DEF BusTypes
<1>3. log' = Append(log, e) /\ events' \in {Append(events, e), Tail(Append(events, e))}
  BY DEF Publish
<1>4. seq' = seq + 1 /\ seq' \in Nat /\ closed' \in [Watchers -> BOOLEAN]
  BY DEF Publish, BusTypes
<1> HIDE DEF e
<1>5. /\ log' \in Seq(Event) /\ Len(log') = Len(log) + 1 /\ log'[Len(log) + 1] = e
      /\ \A n \in 1..Len(log) : log'[n] = log[n]
  BY <1>1, <1>2, <1>3
<1>6. events' \in Seq(Event)
  <2>1. Append(events, e) \in Seq(Event) /\ Append(events, e) # <<>>
    BY <1>1, <1>2
  <2> QED
    BY SMTT(30), <1>3, <2>1
<1> QED
  BY <1>4, <1>5, <1>6 DEF e

\* What the steps of a publisher do to it.
LEMMA BeginsToPublish ==
    ASSUME NEW w \in Workspaces, NEW t \in {"changed", "forget"}
    PROVE  LET r == [Idle EXCEPT !.at = t, !.ws = w] IN
             r \in PubRecords /\ r.at = t /\ r.ws = w
  BY DEF Idle, PubRecords, Status, NoContent

LEMMA IdleRecord == Idle \in PubRecords /\ Idle.at = "idle" /\ Idle.ws = Nobody
  BY DEF Idle, PubRecords, Status, NoContent

LEMMA ReadDoes ==
    ASSUME SourceTypes, NEW p \in Publishers, Read(p), pub[p].ws \in Workspaces
    PROVE  /\ pub' \in [Publishers -> PubRecords]
           /\ \A q \in Publishers \ {p} : pub'[q] = pub[q]
           /\ state[pub[p].ws] = "absent" => pub'[p] = Idle
           /\ state[pub[p].ws] # "absent" =>
                /\ pub'[p].at = "read" /\ pub'[p].ws = pub[p].ws /\ pub'[p].status = state[pub[p].ws]
                /\ pub'[p].version = version[pub[p].ws]
<1> DEFINE w == pub[p].ws
           r == IF state[w] = "absent" THEN Idle
                ELSE [at |-> "read", ws |-> w, status |-> state[w], version |-> version[w]]
<1>1. pub' = [pub EXCEPT ![p] = r] /\ pub \in [Publishers -> PubRecords]
  BY DEF Read, SourceTypes
<1>2. state[w] \in Contents \cup {"absent"} /\ version[w] \in Nat
  BY DEF SourceTypes
<1>3. r \in PubRecords
  <2>1. CASE state[w] = "absent"
    BY <2>1, IdleRecord
  <2>2. CASE state[w] # "absent"
    BY <1>2, <2>2 DEF PubRecords, Status
  <2> QED
    BY <2>1, <2>2
<1>4. pub' \in [Publishers -> PubRecords] /\ pub'[p] = r /\ \A q \in Publishers \ {p} : pub'[q] = pub[q]
  <2> HIDE DEF r
  <2> QED
    BY <1>1, <1>3
<1> QED
  BY <1>4

LEMMA BeginDoes ==
    ASSUME SourceTypes, NEW p \in Publishers, NEW w \in Workspaces, NEW t \in {"changed", "forget"},
           pub' = [pub EXCEPT ![p] = [Idle EXCEPT !.at = t, !.ws = w]]
    PROVE  /\ pub' \in [Publishers -> PubRecords]
           /\ \A q \in Publishers \ {p} : pub'[q] = pub[q]
           /\ pub'[p].at = t /\ pub'[p].ws = w
<1> PICK r : r = [Idle EXCEPT !.at = t, !.ws = w]
  OBVIOUS
<1>1. r \in PubRecords /\ r.at = t /\ r.ws = w
  BY BeginsToPublish
<1>2. pub' = [pub EXCEPT ![p] = r] /\ pub \in [Publishers -> PubRecords]
  BY DEF SourceTypes
<1> QED
  BY <1>1, <1>2

LEMMA RestDoes ==
    ASSUME SourceTypes, NEW p \in Publishers, pub' = [pub EXCEPT ![p] = Idle]
    PROVE  /\ pub' \in [Publishers -> PubRecords]
           /\ \A q \in Publishers \ {p} : pub'[q] = pub[q]
           /\ pub'[p].at = "idle" /\ pub'[p].ws = Nobody
<1>1. pub \in [Publishers -> PubRecords]
  BY DEF SourceTypes
<1> QED
  BY <1>1, IdleRecord

LEMMA SourceTypeStep ==
    ASSUME TypeOK, PubInv, NEW p \in Publishers, NEW w \in Workspaces, Works(p, w)
    PROVE  SourceTypes' /\ BusTypes' /\ work' \in 0..MaxWork
<1> USE DEF Work
<1>r. Doing(p)
  BY DEF PubInv
<1>0. SourceTypes /\ BusTypes /\ work \in 0..MaxWork /\ MaxWork \in Nat
  BY BufferAssumption DEF TypeOK
<1>a. work' = work \/ Work => work' \in 0..MaxWork
  BY <1>0
<1>b. UNCHANGED busVars => BusTypes'
  BY <1>0 DEF BusTypes, busVars
<1>1. CASE Change(p, w)
  <2>1. PICK c \in Contents : state' = [state EXCEPT ![w] = c]
    BY <1>1 DEF Change
  <2>2. pub' \in [Publishers -> PubRecords]
    BY <1>0, <1>1, BeginDoes DEF Change
  <2>3. version' = [version EXCEPT ![w] = version[w] + 1] /\ UNCHANGED <<busVars, landed, raced>>
    BY <1>1 DEF Change
  <2>4. SourceTypes'
    BY <1>0, <2>1, <2>2, <2>3 DEF SourceTypes
  <2> QED
    BY <1>1, <1>a, <1>b, <2>3, <2>4 DEF Change
<1>2. CASE Observe(p, w)
  <2>1. pub' \in [Publishers -> PubRecords]
    BY <1>0, <1>2, BeginDoes DEF Observe
  <2> QED
    BY <1>0, <1>2, <1>a, <1>b, <2>1 DEF Observe, SourceTypes
<1>3. CASE Read(p)
  <2>1. pub' \in [Publishers -> PubRecords]
    BY <1>0, <1>r, <1>3, ReadDoes DEF Read, Doing
  <2> QED
    BY <1>0, <1>3, <1>b, <2>1 DEF Read, SourceTypes
<1>4. CASE PublishStatus(p)
  <2> DEFINE v == pub[p].ws  s == pub[p].status  n == pub[p].version
  <2>1. v \in Workspaces /\ s \in Contents /\ s \in Status /\ n \in Nat
    BY <1>0, <1>r, <1>4 DEF PublishStatus, Doing, SourceTypes, PubRecords, Status
  <2>2. pub' \in [Publishers -> PubRecords] /\ UNCHANGED <<state, version, work>>
    BY <1>0, <1>4, RestDoes DEF PublishStatus
  <2>3. /\ landed' = [landed EXCEPT ![v] = IF n > landed[v] THEN n ELSE landed[v]]
        /\ raced' = [raced EXCEPT ![v] = n < landed[v] /\ (raced[v] \/ s # last[v])]
    BY <1>4 DEF PublishStatus
  <2>4. landed' \in [Workspaces -> Nat] /\ raced' \in [Workspaces -> BOOLEAN]
    <3> HIDE DEF v, s, n
    <3> QED
      BY <1>0, <2>1, <2>3 DEF SourceTypes
  <2>5. SourceTypes'
    BY <1>0, <2>2, <2>4 DEF SourceTypes
  <2>6. BusTypes'
    <3>1. CASE UNCHANGED busVars
      BY <1>b, <3>1
    <3>2. CASE Publish(v, s) /\ last' = [last EXCEPT ![v] = s]
      <4>1. last' \in [Workspaces -> Status]
        BY <1>0, <2>1, <3>2 DEF BusTypes
      <4>2. /\ seq' \in Nat /\ events' \in Seq(Event) /\ log' \in Seq(Event)
            /\ closed' \in [Watchers -> BOOLEAN]
        <5> HIDE DEF v, s
        <5> QED
          BY <1>0, <2>1, <3>2, PublishDoes
      <4> QED
        BY <4>1, <4>2 DEF BusTypes
    <3> QED
      BY <1>4, <3>1, <3>2 DEF PublishStatus
  <2> QED
    BY <1>0, <2>2, <2>5, <2>6
<1>5. CASE Remove(p, w)
  <2>1. pub' \in [Publishers -> PubRecords]
    BY <1>0, <1>5, BeginDoes DEF Remove
  <2> QED
    BY <1>0, <1>5, <1>a, <1>b, <2>1 DEF Remove, SourceTypes
<1>6. CASE Forget(p)
  <2>1. pub' \in [Publishers -> PubRecords]
    BY <1>0, <1>6, RestDoes DEF Forget
  <2>2. last' \in [Workspaces -> Status]
    BY <1>0, <1>6 DEF Forget, BusTypes, Status
  <2> QED
    BY <1>0, <1>6, <2>1, <2>2 DEF Forget, SourceTypes, BusTypes
<1> QED
  BY <1>1, <1>2, <1>3, <1>4, <1>5, <1>6 DEF Works

LEMMA OtherTypeStep ==
    ASSUME TypeOK, PublishOther, SourceKeeps
    PROVE  SourceTypes' /\ BusTypes' /\ work' \in 0..MaxWork
<1>1. PICK w \in Workspaces \cup {Nobody} : Publish(w, NoContent)
  BY DEF PublishOther
<1>2. BusTypes /\ SourceTypes /\ work \in 0..MaxWork /\ MaxWork \in Nat
  BY BufferAssumption DEF TypeOK
<1>3. NoContent \in Status
  BY DEF Status
<1>4. /\ seq' \in Nat /\ events' \in Seq(Event) /\ log' \in Seq(Event)
      /\ closed' \in [Watchers -> BOOLEAN]
  BY <1>1, <1>2, <1>3, PublishDoes
<1>5. UNCHANGED <<sourceVars, last>> /\ work' \in 0..MaxWork
  BY <1>2 DEF PublishOther, Work
<1> QED
  BY <1>2, <1>4, <1>5 DEF SourceTypes, BusTypes, sourceVars

LEMMA StreamTypeStep ==
    ASSUME TypeOK, NEW k \in Watchers, (Stream(k) \/ Cut(k))
    PROVE  StreamTypes' /\ closed' \in [Watchers -> BOOLEAN] /\ OthersStay(k)
<1> USE DEF Goto, OthersStay, StreamTypes
<1>0. StreamTypes /\ seq \in Nat /\ events \in Seq(Event) /\ closed \in [Watchers -> BOOLEAN]
      /\ state \in [Workspaces -> Contents \cup {"absent"}]
  BY DEF TypeOK, BusTypes, SourceTypes
<1>1. CASE Open(k) /\ StreamKeeps
  <2>1. /\ UNCHANGED <<closed, id, awaits, out, todo, seen, view, heard, slip>>
        /\ at' = [at EXCEPT ![k] = "window"] \/ at' = [at EXCEPT ![k] = "failed"]
    BY <1>1 DEF Open, StreamKeeps
  <2>2. next' \in [Watchers -> Nat] /\ \A j \in Watchers \ {k} : next'[j] = next[j]
    <3>1. next' = next \/ \E n \in {0, seen[k]} : next' = [next EXCEPT ![k] = n]
      BY <1>1 DEF Open
    <3>2. seen[k] \in Nat /\ next \in [Watchers -> Nat]
      BY <1>0
    <3> QED
      BY <3>1, <3>2
  <2> QED
    BY <1>0, <2>1, <2>2
<1>2. CASE Window(k) /\ StreamKeeps
  <2>1. /\ UNCHANGED <<closed, id, awaits, next, out, todo, view, slip>>
        /\ \E a \in {"off", "head", "stream"} : at' = [at EXCEPT ![k] = a]
    BY <1>2 DEF Window, StreamKeeps
  <2>2. /\ seen' = seen \/ seen' = [seen EXCEPT ![k] = 0]
        /\ heard' = heard \/ heard' = [heard EXCEPT ![k] = 0]
    BY <1>2 DEF Window
  <2>3. /\ at' \in [Watchers -> {"off", "window", "head", "status", "stream", "returned", "failed"}]
        /\ \A j \in Watchers \ {k} : at'[j] = at[j]
    BY <1>0, <2>1
  <2>s. seen \in [Watchers -> Nat] /\ heard \in [Watchers -> Nat] /\ 0 \in Nat
    BY <1>0
  <2>4. seen' \in [Watchers -> Nat] /\ \A j \in Watchers \ {k} : seen'[j] = seen[j]
    BY <2>s, <2>2
  <2>5. heard' \in [Watchers -> Nat] /\ \A j \in Watchers \ {k} : heard'[j] = heard[j]
    BY <2>s, <2>2
  <2> QED
    BY <1>0, <2>1, <2>3, <2>4, <2>5
<1>3. CASE Newest(k) /\ StreamKeeps
  BY <1>0, <1>3 DEF Newest, StreamKeeps, Targets
<1>4. ASSUME NEW w \in Workspaces, FirstStatus(k, w), StreamKeeps
      PROVE  StreamTypes' /\ closed' \in [Watchers -> BOOLEAN] /\ OthersStay(k)
  <2>1. /\ UNCHANGED <<closed, id, awaits, next, out, heard>>
        /\ todo' = [todo EXCEPT ![k] = todo[k] \ {w}]
    BY <1>4 DEF FirstStatus, StreamKeeps
  <2>2. \E a \in {at[k], "returned", "stream", "failed", "off"} : at' = [at EXCEPT ![k] = a]
    BY <1>4 DEF FirstStatus
  <2>3. /\ at' \in [Watchers -> {"off", "window", "head", "status", "stream", "returned", "failed"}]
        /\ \A j \in Watchers \ {k} : at'[j] = at[j]
    BY <1>0, <2>2
  <2>4. \/ UNCHANGED <<seen, view, slip>>
        \/ /\ seen' = [seen EXCEPT ![k] = next[k]]
           /\ view' = view \/ view' = [view EXCEPT ![k] = [view[k] EXCEPT ![w] = state[w]]]
           /\ \E S \in SUBSET Slips : slip' = [slip EXCEPT ![k] = [slip[k] EXCEPT ![w] = S]]
    BY <1>4 DEF FirstStatus, Receive, Slips
  <2>5. /\ seen' \in [Watchers -> Nat] /\ \A j \in Watchers \ {k} : seen'[j] = seen[j]
    BY <1>0, <2>4
  <2>6. /\ slip' \in [Watchers -> [Workspaces -> SUBSET Slips]]
        /\ \A j \in Watchers \ {k} : slip'[j] = slip[j]
    <3>1. CASE slip' = slip
      BY <1>0, <3>1
    <3>2. ASSUME NEW S \in SUBSET Slips, slip' = [slip EXCEPT ![k] = [slip[k] EXCEPT ![w] = S]]
          PROVE  /\ slip' \in [Watchers -> [Workspaces -> SUBSET Slips]]
                 /\ \A j \in Watchers \ {k} : slip'[j] = slip[j]
      <4>1. [slip[k] EXCEPT ![w] = S] \in [Workspaces -> SUBSET Slips]
        BY <1>0
      <4> QED
        BY <1>0, <3>2, <4>1
    <3> QED
      BY <2>4, <3>1, <3>2
  <2>7. /\ view' \in [Watchers -> [Workspaces -> Status]]
        /\ \A j \in Watchers \ {k} : view'[j] = view[j]
    <3>1. view' = view \/ (state[w] \in Status /\ view' = [view EXCEPT ![k] = [view[k] EXCEPT ![w] = state[w]]])
      BY <1>0, <1>4 DEF FirstStatus, Receive, Status
    <3>2. CASE view' = view
      BY <1>0, <3>2
    <3>3. CASE state[w] \in Status /\ view' = [view EXCEPT ![k] = [view[k] EXCEPT ![w] = state[w]]]
      <4>1. [view[k] EXCEPT ![w] = state[w]] \in [Workspaces -> Status]
        BY <1>0, <3>3
      <4> QED
        BY <1>0, <3>3, <4>1
    <3> QED
      BY <3>1, <3>2, <3>3
  <2> QED
    BY <1>0, <2>1, <2>3, <2>5, <2>6, <2>7
<1>5. CASE Since(k) /\ StreamKeeps
  BY <1>0, <1>5 DEF Since, StreamKeeps, Slips
<1>6. CASE Send(k) /\ StreamKeeps
  <2>1. PICK e \in Event : e = First(out[k])
    BY <1>0, <1>6, FirstOf DEF Send
  <2>2. e.seq \in Nat /\ e.status \in Status
    BY DEF Event
  <2>3. StreamTypes'
    BY <1>0, <1>6, <2>1, <2>2 DEF Send, StreamKeeps, Receive
  <2> QED
    BY <1>0, <1>6, <2>3 DEF Send, StreamKeeps, Receive
<1>7. CASE Cut(k)
  BY <1>0, <1>7 DEF Cut, Slips
<1> QED
  BY <1>1, <1>2, <1>3, <1>4, <1>5, <1>6, <1>7 DEF Stream, StreamKeeps



(***************************************************************************)
(* Publishing                                                              *)
(***************************************************************************)

\* The ring stays the end of the log.
LEMMA RingPublish ==
    ASSUME BusTypes, RingInv, NEW w \in Workspaces \cup {Nobody}, NEW s \in Status, Publish(w, s)
    PROVE  RingInv'
<1> DEFINE e == [seq |-> seq + 1, ws |-> w, status |-> s]
           es == Append(events, e)
<1>0. /\ seq \in Nat /\ events \in Seq(Event) /\ BufferSize \in Nat \ {0} /\ Len(log) = seq
      /\ e.seq = seq + 1 /\ e \in Event
  BY BufferAssumption DEF BusTypes, RingInv, Event
<1>1. /\ seq' = seq + 1 /\ Len(log') = seq' /\ log'[seq + 1] = e
      /\ \A n \in 1..seq : log'[n] = log[n]
  BY <1>0, PublishDoes
<1>2. \A n \in 1..seq' : log'[n].seq = n
  BY <1>0, <1>1 DEF RingInv
<1> HIDE DEF e
<1>3. /\ es \in Seq(Event) /\ Len(es) = Len(events) + 1 /\ es[Len(events) + 1] = e
      /\ \A i \in 1..Len(events) : es[i] = events[i]
  BY <1>0
<1>4. \A i \in 1..Len(es) : es[i] = log'[seq - Len(events) + i]
  BY <1>0, <1>1, <1>3 DEF RingInv
<1>5. CASE seq < BufferSize
  <2>1. events' = es
    BY <1>0, <1>3, <1>5 DEF Publish, RingInv, e
  <2> QED
    BY <1>0, <1>1, <1>2, <1>3, <1>4, <1>5, <2>1 DEF RingInv
<1>6. CASE ~(seq < BufferSize)
  <2>1. Len(events) = BufferSize
    BY <1>6 DEF RingInv
  <2>2. events' = Tail(es)
    BY <1>0, <1>3, <2>1 DEF Publish, e
  <2> HIDE DEF es
  <2>3. Len(events') = BufferSize /\ \A i \in 1..BufferSize : events'[i] = es[i + 1]
    BY <1>0, <1>3, <2>1, <2>2
  <2>4. \A i \in 1..BufferSize : events'[i] = log'[seq' - BufferSize + i]
    <3> TAKE i \in 1..BufferSize
    <3>1. i + 1 \in 1..Len(es) /\ seq' - BufferSize + i = seq - Len(events) + (i + 1)
      BY <1>0, <1>1, <1>3, <2>1
    <3>2. es[i + 1] = log'[seq - Len(events) + (i + 1)]
      BY <1>4, <3>1
    <3> QED
      BY <2>3, <3>1, <3>2
  <2> QED
    BY <1>0, <1>1, <1>2, <1>6, <2>3, <2>4 DEF RingInv
<1> QED
  BY <1>5, <1>6

\* A publisher keeps the ring and lets the log grow, ...
LEMMA WorksGrow ==
    ASSUME TypeOK, RingInv, PubInv, NEW p \in Publishers, NEW v \in Workspaces, Works(p, v)
    PROVE  RingInv' /\ LogGrows
<1>0. BusTypes /\ seq \in Nat /\ Doing(p) /\ Len(log) = seq
  BY DEF TypeOK, BusTypes, PubInv, RingInv
<1>1. CASE UNCHANGED <<seq, events, log>>
  <2>1. LogGrows
    BY <1>0, <1>1 DEF LogGrows
  <2>2. RingInv'
    BY <1>1 DEF RingInv
  <2> QED
    BY <2>1, <2>2
<1>2. ASSUME NEW u \in Workspaces, NEW s \in Status, Publish(u, s) PROVE RingInv' /\ LogGrows
  <2>1. /\ seq' = seq + 1 /\ \A m \in 1..Len(log) : log'[m] = log[m]
    BY <1>0, <1>2, PublishDoes
  <2>2. RingInv'
    BY <1>0, <1>2, RingPublish
  <2> QED
    BY <1>0, <2>1, <2>2 DEF LogGrows
<1>3. CASE PublishStatus(p)
  <2>1. pub[p].ws \in Workspaces /\ pub[p].status \in Status
    BY <1>0, <1>3 DEF PublishStatus, Doing, Status
  <2> QED
    BY <1>1, <1>2, <1>3, <2>1 DEF PublishStatus, busVars
<1>4. CASE ~PublishStatus(p)
  BY <1>1, <1>4 DEF Works, Change, Observe, Read, Remove, Forget, busVars
<1> QED
  BY <1>3, <1>4

\* ... and means something for each workspace that is there afterwards.
LEMMA WorksMean ==
    ASSUME TypeOK, RingInv, PubInv, NEW p \in Publishers, NEW v \in Workspaces, Works(p, v),
           NEW w \in Workspaces, state'[w] # "absent"
    PROVE  Passes(w)
<1> USE DEF Work
<1>0. SourceTypes /\ BusTypes /\ seq \in Nat /\ Doing(p) /\ landed[w] <= version[w] /\ Len(log) = seq
  BY DEF TypeOK, BusTypes, PubInv, RingInv
<1>t. /\ state \in [Workspaces -> Contents \cup {"absent"}] /\ version \in [Workspaces -> Nat]
      /\ landed \in [Workspaces -> Nat] /\ last \in [Workspaces -> Status]
      /\ pub \in [Publishers -> PubRecords]
  BY <1>0 DEF SourceTypes, BusTypes
<1>a. UNCHANGED busVars => seq' = seq /\ log' = log /\ last' = last
  BY DEF busVars
<1>b. seq' = seq => \A n \in (seq + 1)..seq' : ~Shown(w, log'[n])
  BY <1>0
<1>1. CASE Change(p, v)
  <2>1. UNCHANGED <<busVars, landed>> /\ version' = [version EXCEPT ![v] = version[v] + 1]
        /\ state[v] # "absent" /\ \E c \in Contents : state' = [state EXCEPT ![v] = c]
    BY <1>1 DEF Change
  <2>2. landed'[w] = version'[w] => w # v
    BY <1>t, <1>0, <2>1
  <2>3. state[w] # "absent" /\ (w # v => state'[w] = state[w] /\ version'[w] = version[w])
    BY <1>t, <2>1
  <2> QED
    BY <1>a, <1>b, <2>1, <2>2, <2>3 DEF Passes
<1>2. CASE Observe(p, v)
  BY <1>2, <1>a, <1>b DEF Observe, Passes
<1>3. CASE Read(p)
  BY <1>3, <1>a, <1>b DEF Read, Passes
<1>4. CASE PublishStatus(p)
  <2> DEFINE u == pub[p].ws  s == pub[p].status  n == pub[p].version
  <2>1. u \in Workspaces /\ s \in Contents /\ s \in Status /\ s # NoContent
    BY <1>0, <1>4 DEF PublishStatus, Doing, Contents, Status, NoContent
  <2>2. UNCHANGED <<state, version>> /\ landed' = [landed EXCEPT ![u] = IF n > landed[u] THEN n ELSE landed[u]]
    BY <1>4 DEF PublishStatus
  <2>3. w # u => state'[w] = state[w] /\ version'[w] = version[w] /\ landed'[w] = landed[w]
    BY <1>t, <2>2
  <2>4. CASE s = last[u] /\ UNCHANGED busVars
    <3> HIDE DEF s, u
    <3> QED
      BY <1>a, <1>b, <2>1, <2>2, <2>3, <2>4 DEF Passes
  <2>5. CASE s # last[u] /\ Publish(u, s) /\ last' = [last EXCEPT ![u] = s]
    <3> HIDE DEF s, u
    <3>1. /\ seq' = seq + 1 /\ Len(log') = Len(log) + 1
          /\ \A m \in 1..Len(log) : log'[m] = log[m]
          /\ log'[Len(log) + 1] = [seq |-> seq + 1, ws |-> u, status |-> s]
      BY <1>0, <2>1, <2>5, PublishDoes
    <3>4. CASE w = u
      BY <1>t, <1>0, <2>1, <2>2, <2>5, <3>1, <3>4 DEF Passes, Shown
    <3>5. CASE w # u
      <4>1. last'[w] = last[w] /\ state[w] # "absent"
        BY <1>t, <2>2, <2>5, <3>5
      <4>2. \A m \in (seq + 1)..seq' : ~Shown(w, log'[m])
        <5>1. ~Shown(w, log'[seq + 1])
          BY <1>0, <3>1, <3>5 DEF Shown
        <5> QED
          BY <1>0, <3>1, <5>1
      <4> QED
        BY <2>3, <3>5, <4>1, <4>2 DEF Passes
    <3> QED
      BY <3>4, <3>5
  <2> QED
    BY <1>4, <2>4, <2>5 DEF PublishStatus
<1>5. CASE Remove(p, v)
  <2>1. UNCHANGED <<version, busVars, landed>> /\ state' = [state EXCEPT ![v] = "absent"]
    BY <1>5 DEF Remove
  <2>2. state'[w] = state[w]
    BY <1>t, <2>1
  <2> QED
    BY <1>a, <1>b, <2>1, <2>2 DEF Passes
<1>6. CASE Forget(p)
  <2>1. /\ last' = [last EXCEPT ![pub[p].ws] = NoContent]
        /\ UNCHANGED <<state, version, seq, events, log, landed>>
    BY <1>6 DEF Forget
  <2>2. w # pub[p].ws
    BY <1>0, <1>6, <2>1 DEF Doing, Forget
  <2>3. last'[w] = last[w]
    BY <1>t, <2>1, <2>2
  <2> QED
    BY <1>b, <2>1, <2>3 DEF Passes
<1> QED
  BY <1>1, <1>2, <1>3, <1>4, <1>5, <1>6 DEF Works

\* So does an event that is no status.
LEMMA OtherMeans ==
    ASSUME TypeOK, RingInv, PublishOther
    PROVE  RingInv' /\ LogGrows /\ \A w \in Workspaces : state'[w] # "absent" => Passes(w)
<1>1. PICK v \in Workspaces \cup {Nobody} : Publish(v, NoContent)
  BY DEF PublishOther
<1>2. BusTypes /\ seq \in Nat /\ Len(log) = seq /\ NoContent \in Status
  BY DEF TypeOK, BusTypes, RingInv, Status
<1>3. /\ seq' = seq + 1 /\ Len(log') = Len(log) + 1
      /\ \A m \in 1..Len(log) : log'[m] = log[m]
      /\ log'[Len(log) + 1] = [seq |-> seq + 1, ws |-> v, status |-> NoContent]
  BY <1>1, <1>2, PublishDoes
<1>4. RingInv'
  BY <1>1, <1>2, RingPublish
<1>5. \A w \in Workspaces, n \in (seq + 1)..seq' : ~Shown(w, log'[n])
  BY <1>2, <1>3 DEF Shown
<1>6. UNCHANGED <<state, version, landed, last>>
  BY DEF PublishOther, sourceVars
<1> QED
  BY <1>2, <1>3, <1>4, <1>5, <1>6 DEF LogGrows, Passes

(***************************************************************************)
(* Steps of Source                                                         *)
(***************************************************************************)

LEMMA LastPasses ==
    ASSUME TypeOK, LastInv, LogGrows, NEW w \in Workspaces, Passes(w)
    PROVE  LastOf(w)'
<1>0. LastOf(w) /\ seq \in Nat /\ seq' \in Nat /\ seq <= seq' /\ \A n \in 1..seq : log'[n] = log[n]
  BY DEF TypeOK, BusTypes, LastInv, LogGrows, Passes
<1>1. CASE last'[w] = last[w] /\ \A n \in (seq + 1)..seq' : ~Shown(w, log'[n])
  <2>1. CASE last[w] = NoContent /\ \A n \in 1..seq : ~Shown(w, log[n])
    <3>1. \A n \in 1..seq' : ~Shown(w, log'[n])
      <4> TAKE n \in 1..seq'
      <4>1. CASE n \in 1..seq
        BY <1>0, <2>1, <4>1
      <4>2. CASE n \in (seq + 1)..seq'
        BY <1>1, <4>2
      <4> QED
        BY <1>0, <4>1, <4>2
    <3> QED
      BY <1>1, <2>1, <3>1 DEF LastOf, Shown
  <2>2. ASSUME NEW n \in 1..seq, Shown(w, log[n]), log[n].status = last[w],
               \A m \in (n + 1)..seq : ~Shown(w, log[m])
        PROVE  LastOf(w)'
    <3>1. \A m \in (n + 1)..seq' : ~Shown(w, log'[m])
      <4> TAKE m \in (n + 1)..seq'
      <4>1. CASE m \in (n + 1)..seq
        BY <1>0, <2>2, <4>1
      <4>2. CASE m \in (seq + 1)..seq'
        BY <1>1, <4>2
      <4> QED
        BY <1>0, <4>1, <4>2
    <3>2. n \in 1..seq' /\ log'[n] = log[n]
      BY <1>0
    <3> QED
      BY <1>1, <2>2, <3>1, <3>2 DEF LastOf, Shown
  <2> QED
    BY <1>0, <2>1, <2>2 DEF LastOf
<1>2. CASE seq' = seq + 1 /\ Shown(w, log'[seq']) /\ log'[seq'].status = last'[w]
  <2>1. seq' \in 1..seq' /\ \A m \in (seq' + 1)..seq' : ~Shown(w, log'[m])
    BY <1>0, <1>2
  <2> QED
    BY <1>2, <2>1 DEF LastOf, Shown
<1> QED
  BY <1>1, <1>2 DEF Passes

\* A stream goes on as before while the log grows.
LEMMA StreamPasses ==
    ASSUME TypeOK, StreamInv, LogGrows, SourceKeeps, NEW k \in Watchers
    PROVE  StreamOf(k)'
<1>0. /\ StreamOf(k) /\ seq \in Nat /\ seq' \in Nat /\ seq <= seq' /\ next[k] \in Nat
      /\ \A n \in 1..seq : log'[n] = log[n]
  BY DEF TypeOK, BusTypes, StreamTypes, StreamInv, LogGrows
<1>1. /\ at' = at /\ id' = id /\ next' = next /\ out' = out /\ todo' = todo /\ seen' = seen
  BY DEF SourceKeeps, streamVars
<1>2. /\ at[k] \in {"status", "stream"} => next[k] <= seq'
      /\ at[k] # "stream" => out[k] = {}
      /\ at[k] = "window" /\ next[k] # 0 => next[k] = seen[k]
      /\ todo[k] \subseteq Targets(k)
  BY <1>0 DEF StreamOf
<1>3. ASSUME NEW e \in out[k]
      PROVE  /\ e.seq \in 1..next[k] /\ e = log'[e.seq] /\ Wants(k, e)
             /\ \A n \in e.seq..next[k] : Wants(k, log'[n]) => log'[n] \in out[k]
  <2>1. /\ e.seq \in 1..next[k] /\ e = log[e.seq] /\ Wants(k, e)
        /\ \A n \in e.seq..next[k] : Wants(k, log[n]) => log[n] \in out[k]
    BY <1>0 DEF StreamOf
  <2>2. next[k] <= seq
    BY <1>0 DEF StreamOf
  <2>3. \A n \in e.seq..next[k] : n \in 1..seq
    BY <1>0, <2>1, <2>2
  <2>4. \A n \in e.seq..next[k] : log'[n] = log[n]
    BY <1>0, <2>3
  <2> QED
    BY <1>0, <2>1, <2>2, <2>4
<1> QED
  BY <1>1, <1>2, <1>3 DEF StreamOf, Wants, Targets

\* What a client knows stays right.
LEMMA ViewPasses ==
    ASSUME TypeOK, StreamInv, ViewInv, LogGrows, SourceKeeps, NEW k \in Watchers, NEW w \in Workspaces,
           state'[w] # "absent" => Passes(w)
    PROVE  ViewOf(k, w)'
<1>0. /\ ViewOf(k, w) /\ StreamOf(k) /\ seq \in Nat /\ seq' \in Nat /\ seq <= seq'
      /\ next[k] \in Nat /\ seen[k] \in Nat
      /\ \A n \in 1..seq : log'[n] = log[n]
  BY DEF TypeOK, BusTypes, StreamTypes, StreamInv, ViewInv, LogGrows
<1>1. /\ at' = at /\ id' = id /\ next' = next /\ out' = out /\ todo' = todo /\ seen' = seen
      /\ view' = view /\ slip' = slip
  BY DEF SourceKeeps, streamVars
<1>2. Informed(k, w)' = Informed(k, w) /\ Streams(k, w)' = Streams(k, w)
  BY <1>1 DEF Informed, Streams
<1> SUFFICES ASSUME slip[k][w] = {}
             PROVE  seen[k] <= seq' /\ (state'[w] # "absent" /\ id[k] \in {All, w} => Knows(k, w)')
  BY <1>1 DEF ViewOf
<1>3. seen[k] <= seq
  BY <1>0 DEF ViewOf
<1> SUFFICES ASSUME state'[w] # "absent", id[k] \in {All, w} PROVE Knows(k, w)'
  BY <1>0, <1>3
<1>4. Passes(w) /\ Knows(k, w)
  BY <1>0 DEF Passes, ViewOf
<1>5. ASSUME Streams(k, w)
      PROVE  \A n \in (seen[k] + 1)..next[k] : Shown(w, log'[n]) => log'[n] \in out[k]
  <2>1. next[k] <= seq
    BY <1>0, <1>5 DEF Streams, StreamOf
  <2>2. \A n \in (seen[k] + 1)..next[k] : log'[n] = log[n]
    BY <1>0, <2>1
  <2> QED
    BY <1>4, <1>5, <2>2 DEF Knows
<1>6. ASSUME Informed(k, w)
      PROVE  /\ last'[w] # NoContent => \/ view[k][w] = last'[w]
                                        \/ \E n \in (seen[k] + 1)..seq' : Shown(w, log'[n])
             /\ last'[w] = NoContent /\ landed'[w] = version'[w] => view[k][w] = state'[w]
  <2>1. \A n \in (seen[k] + 1)..seq : n \in (seen[k] + 1)..seq' /\ log'[n] = log[n]
    BY <1>0
  <2>2. seq' = seq + 1 => seq' \in (seen[k] + 1)..seq'
    BY <1>0, <1>3
  <2> QED
    BY <1>4, <1>6, <2>1, <2>2 DEF Knows, Passes, Shown
<1> QED
  BY <1>1, <1>2, <1>5, <1>6 DEF Knows, Shown

\* What brings a workspace on its way is not the publisher that begins or ends something.
LEMMA OnItsWayStays ==
    ASSUME PubInv, NEW p \in Publishers, NEW w \in Workspaces, state[w] # "absent",
           \A q \in Publishers \ {p} : pub'[q] = pub[q],
           ~Brings(p, w) \/ Brings(p, w)',
           version'[w] = version[w], landed'[w] = landed[w], raced'[w] = raced[w],
           last'[w] = last[w], state'[w] = state[w]
    PROVE  OnItsWay(w)'
<1>1. OnItsWay(w)
  BY DEF PubInv
<1>2. CASE \E q \in Publishers : Brings(q, w)
  <2>1. \E q \in Publishers : Brings(q, w)'
    BY <1>2 DEF Brings
  <2> QED
    BY <1>1, <2>1 DEF OnItsWay
<1>3. CASE landed[w] = version[w]
  BY <1>1, <1>3 DEF OnItsWay
<1> QED
  BY <1>1, <1>2, <1>3 DEF OnItsWay

LEMMA PubStep ==
    ASSUME TypeOK, PubInv, NEW p \in Publishers, NEW v \in Workspaces, Works(p, v)
    PROVE  PubInv'
<1> USE DEF Work
<1>0. SourceTypes /\ Doing(p) /\ Nobody \notin Workspaces
  BY NamesAssumption DEF TypeOK, PubInv
<1>t. /\ state \in [Workspaces -> Contents \cup {"absent"}] /\ version \in [Workspaces -> Nat]
      /\ landed \in [Workspaces -> Nat] /\ last \in [Workspaces -> Status]
      /\ raced \in [Workspaces -> BOOLEAN] /\ pub \in [Publishers -> PubRecords]
  BY DEF TypeOK, SourceTypes, BusTypes
<1>i. /\ \A w \in Workspaces : landed[w] <= version[w]
      /\ \A q \in Publishers : Doing(q)
      /\ \A w \in Workspaces : state[w] # "absent" => OnItsWay(w)
  BY DEF PubInv
<1>n. \A q \in Publishers : pub[q].version \in Nat
  BY <1>t DEF PubRecords
<1>1. CASE Change(p, v)
  <2>1. /\ UNCHANGED <<busVars, landed, raced>> /\ version' = [version EXCEPT ![v] = version[v] + 1]
        /\ pub[p].at = "idle" /\ state[v] # "absent"
        /\ pub' = [pub EXCEPT ![p] = [Idle EXCEPT !.at = "changed", !.ws = v]]
    BY <1>1 DEF Change
  <2>2. PICK c \in Contents : state' = [state EXCEPT ![v] = c]
    BY <1>1 DEF Change
  <2>3. /\ \A q \in Publishers \ {p} : pub'[q] = pub[q]
        /\ pub'[p].at = "changed" /\ pub'[p].ws = v
    BY <1>0, <2>1, BeginDoes
  <2>4. /\ version'[v] = version[v] + 1 /\ version[v] \in Nat /\ landed[v] \in Nat
        /\ \A w \in Workspaces : w # v => version'[w] = version[w] /\ state'[w] = state[w]
    BY <1>t, <2>1, <2>2
  <2>5. \A w \in Workspaces : landed'[w] <= version'[w]
    BY <1>t, <1>i, <2>1, <2>4
  <2>6. ASSUME NEW q \in Publishers PROVE Doing(q)'
    <3>1. CASE q = p
      BY <2>3, <3>1 DEF Doing
    <3>2. CASE q # p
      <4>1. Doing(q) /\ pub'[q] = pub[q] /\ pub[q].version \in Nat
        BY <1>i, <1>n, <2>3, <3>2
      <4>2. CASE pub[q].at = "idle"
        BY <4>1, <4>2 DEF Doing
      <4>3. CASE pub[q].at # "idle" /\ pub[q].ws = v
        <5>1. pub[q].at # "forget"
          BY <2>1, <4>1, <4>3 DEF Doing
        <5>2. pub[q].at = "read" => pub[q].version <= version[v]
          BY <4>1, <4>3 DEF Doing
        <5> QED
          BY <2>4, <4>1, <4>3, <5>1, <5>2 DEF Doing
      <4>4. CASE pub[q].at # "idle" /\ pub[q].ws # v
        BY <2>4, <4>1, <4>4 DEF Doing
      <4> QED
        BY <4>2, <4>3, <4>4
    <3> QED
      BY <3>1, <3>2
  <2>7. ASSUME NEW w \in Workspaces, state'[w] # "absent" PROVE OnItsWay(w)'
    <3>1. CASE w = v
      <4>1. Brings(p, w)'
        BY <2>3, <3>1 DEF Brings
      <4>2. landed'[w] # version'[w]
        BY <1>i, <2>1, <2>4, <3>1
      <4> QED
        BY <4>1, <4>2 DEF OnItsWay
    <3>2. CASE w # v
      <4>1. ~Brings(p, w)
        BY <2>1 DEF Brings
      <4> QED
        BY <2>1, <2>3, <2>4, <2>7, <3>2, <4>1, OnItsWayStays DEF busVars
    <3> QED
      BY <3>1, <3>2
  <2> QED
    BY <2>5, <2>6, <2>7 DEF PubInv
<1>2. CASE Observe(p, v)
  <2>1. /\ UNCHANGED <<state, version, busVars, landed, raced>> /\ pub[p].at = "idle"
        /\ pub' = [pub EXCEPT ![p] = [Idle EXCEPT !.at = "changed", !.ws = v]]
    BY <1>2 DEF Observe
  <2>2. /\ \A q \in Publishers \ {p} : pub'[q] = pub[q]
        /\ pub'[p].at = "changed" /\ pub'[p].ws = v
    BY <1>0, <2>1, BeginDoes
  <2>3. ASSUME NEW q \in Publishers PROVE Doing(q)'
    BY <1>i, <2>1, <2>2 DEF Doing
  <2>4. ASSUME NEW w \in Workspaces, state'[w] # "absent" PROVE OnItsWay(w)'
    <3>1. ~Brings(p, w)
      BY <2>1 DEF Brings
    <3> QED
      BY <2>1, <2>2, <2>4, <3>1, OnItsWayStays DEF busVars
  <2> QED
    BY <1>i, <2>1, <2>3, <2>4 DEF PubInv
<1>3. CASE Read(p)
  <2> DEFINE u == pub[p].ws
  <2>1. UNCHANGED <<state, version, busVars, landed, raced>> /\ pub[p].at = "changed" /\ u \in Workspaces
    BY <1>0, <1>3 DEF Read, Doing
  <2>2. /\ \A q \in Publishers \ {p} : pub'[q] = pub[q]
        /\ state[u] = "absent" => pub'[p] = Idle
        /\ state[u] # "absent" =>
             /\ pub'[p].at = "read" /\ pub'[p].ws = u /\ pub'[p].status = state[u]
             /\ pub'[p].version = version[u]
    BY <1>0, <1>3, <2>1, ReadDoes
  <2>3. ASSUME NEW q \in Publishers PROVE Doing(q)'
    <3>1. CASE q = p
      <4>1. CASE state[u] = "absent"
        BY <2>1, <2>2, <3>1, <4>1, IdleRecord DEF Doing
      <4>2. CASE state[u] # "absent"
        <5>1. state[u] \in Contents /\ version[u] \in Nat
          BY <1>t, <2>1, <4>2
        <5> QED
          BY <2>1, <2>2, <3>1, <4>2, <5>1 DEF Doing
      <4> QED
        BY <4>1, <4>2
    <3>2. CASE q # p
      BY <1>i, <2>1, <2>2, <3>2 DEF Doing
    <3> QED
      BY <3>1, <3>2
  <2>4. ASSUME NEW w \in Workspaces, state'[w] # "absent" PROVE OnItsWay(w)'
    <3>1. Brings(p, w) => Brings(p, w)'
      BY <2>1, <2>2, <2>4 DEF Brings
    <3> QED
      BY <2>1, <2>2, <2>4, <3>1, OnItsWayStays DEF busVars
  <2> QED
    BY <1>i, <2>1, <2>3, <2>4 DEF PubInv
<1>4. CASE PublishStatus(p)
  <2>p. PICK u, s, n : u = pub[p].ws /\ s = pub[p].status /\ n = pub[p].version
    OBVIOUS
  <2>1. /\ pub[p].at = "read" /\ u \in Workspaces /\ s \in Contents /\ n \in Nat /\ n <= version[u]
        /\ n = version[u] => state[u] \in {s, "absent"}
    BY <1>0, <1>n, <1>4, <2>p DEF PublishStatus, Doing
  <2>2. /\ UNCHANGED <<state, version>> /\ pub' = [pub EXCEPT ![p] = Idle]
        /\ landed' = [landed EXCEPT ![u] = IF n > landed[u] THEN n ELSE landed[u]]
        /\ raced' = [raced EXCEPT ![u] = n < landed[u] /\ (raced[u] \/ s # last[u])]
        /\ \/ s = last[u] /\ last' = last
           \/ s # last[u] /\ last' = [last EXCEPT ![u] = s]
    BY <1>4, <2>p DEF PublishStatus, busVars
  <2>3. /\ \A q \in Publishers \ {p} : pub'[q] = pub[q]
        /\ pub'[p].at = "idle"
    BY <1>0, <2>2, RestDoes
  <2>4. /\ landed'[u] = IF n > landed[u] THEN n ELSE landed[u]
        /\ raced'[u] = (n < landed[u] /\ (raced[u] \/ s # last[u]))
        /\ last'[u] = s
    BY <1>t, <2>1, <2>2
  <2>5. \A w \in Workspaces : w # u =>
            landed'[w] = landed[w] /\ raced'[w] = raced[w] /\ last'[w] = last[w]
    BY <1>t, <2>2
  <2>6. \A w \in Workspaces : landed'[w] <= version'[w]
    <3> TAKE w \in Workspaces
    <3> QED
      BY <1>i, <2>1, <2>2, <2>4, <2>5
  <2>7. ASSUME NEW q \in Publishers PROVE Doing(q)'
    BY <1>i, <2>2, <2>3 DEF Doing
  <2>8. ASSUME NEW w \in Workspaces, state'[w] # "absent" PROVE OnItsWay(w)'
    <3>1. CASE w # u
      <4>1. ~Brings(p, w)
        BY <2>p, <3>1 DEF Brings
      <4> QED
        BY <2>2, <2>3, <2>5, <2>8, <3>1, <4>1, OnItsWayStays
    <3>2. CASE w = u
      <4>0. OnItsWay(u) /\ landed[u] \in Nat /\ version[u] \in Nat /\ landed[u] <= version[u]
            /\ raced[u] \in BOOLEAN /\ state[u] # "absent"
        BY <1>t, <1>i, <2>1, <2>2, <2>8, <3>2
      <4>1. landed'[u] = version[u] \/ \E q \in Publishers : Brings(q, u)'
        <5>1. CASE landed[u] = version[u]
          BY <2>1, <2>4, <4>0, <5>1
        <5>2. CASE Brings(p, u)
          <6>1. n = version[u]
            BY <2>1, <2>p, <5>2 DEF Brings
          <6> QED
            BY <2>4, <4>0, <6>1
        <5>3. ASSUME NEW q \in Publishers \ {p}, Brings(q, u) PROVE Brings(q, u)'
          BY <2>2, <2>3, <5>3 DEF Brings
        <5> QED
          BY <4>0, <5>1, <5>2, <5>3 DEF OnItsWay
      <4>2. ASSUME ~raced'[u], landed'[u] = version[u] PROVE last'[u] \in {NoContent, state[u]}
        <5>1. CASE n < landed[u]
          <6>1. ~raced[u] /\ s = last[u] /\ landed[u] = version[u]
            <7>1. ~raced[u] /\ s = last[u]
              BY <2>4, <4>2, <5>1, Zenon
            <7>2. landed[u] = version[u]
              <8>1. landed'[u] = landed[u]
                BY <2>1, <2>4, <4>0, <5>1
              <8> QED
                BY <4>2, <8>1
            <7> QED
              BY <7>1, <7>2
          <6> QED
            BY <2>4, <4>0, <6>1 DEF OnItsWay
        <5>2. CASE ~(n < landed[u])
          <6>1. n = version[u]
            BY <2>1, <2>4, <4>0, <4>2, <5>2
          <6> QED
            BY <2>1, <2>4, <4>0, <6>1
        <5> QED
          BY <5>1, <5>2
      <4> QED
        BY <2>2, <3>2, <4>1, <4>2 DEF OnItsWay
    <3> QED
      BY <3>1, <3>2
  <2> QED
    BY <2>6, <2>7, <2>8 DEF PubInv
<1>5. CASE Remove(p, v)
  <2>1. /\ UNCHANGED <<version, busVars, landed, raced>> /\ pub[p].at = "idle"
        /\ state' = [state EXCEPT ![v] = "absent"]
        /\ pub' = [pub EXCEPT ![p] = [Idle EXCEPT !.at = "forget", !.ws = v]]
    BY <1>5 DEF Remove
  <2>2. /\ \A q \in Publishers \ {p} : pub'[q] = pub[q]
        /\ pub'[p].at = "forget" /\ pub'[p].ws = v
    BY <1>0, <2>1, BeginDoes
  <2>3. state'[v] = "absent" /\ \A w \in Workspaces : w # v => state'[w] = state[w]
    BY <1>t, <2>1
  <2>4. ASSUME NEW q \in Publishers PROVE Doing(q)'
    <3>1. CASE q = p
      BY <2>2, <2>3, <3>1 DEF Doing
    <3>2. CASE q # p
      BY <1>i, <2>1, <2>2, <2>3, <3>2 DEF Doing
    <3> QED
      BY <3>1, <3>2
  <2>5. ASSUME NEW w \in Workspaces, state'[w] # "absent" PROVE OnItsWay(w)'
    <3>1. ~Brings(p, w) /\ state'[w] = state[w]
      BY <2>1, <2>3, <2>5 DEF Brings
    <3> QED
      BY <2>1, <2>2, <2>5, <3>1, OnItsWayStays DEF busVars
  <2> QED
    BY <1>i, <2>1, <2>4, <2>5 DEF PubInv
<1>6. CASE Forget(p)
  <2>1. /\ UNCHANGED <<state, version, landed, raced>> /\ pub[p].at = "forget"
        /\ last' = [last EXCEPT ![pub[p].ws] = NoContent] /\ pub' = [pub EXCEPT ![p] = Idle]
        /\ state[pub[p].ws] = "absent"
    BY <1>0, <1>6 DEF Forget, Doing
  <2>2. /\ \A q \in Publishers \ {p} : pub'[q] = pub[q] /\ pub'[p].at = "idle"
        /\ pub'[p].at = "idle"
    BY <1>0, <2>1, RestDoes
  <2>3. ASSUME NEW q \in Publishers PROVE Doing(q)'
    BY <1>i, <2>1, <2>2 DEF Doing
  <2>4. ASSUME NEW w \in Workspaces, state'[w] # "absent" PROVE OnItsWay(w)'
    <3>1. ~Brings(p, w) /\ last'[w] = last[w]
      BY <1>t, <2>1, <2>4 DEF Brings
    <3> QED
      BY <2>1, <2>2, <2>4, <3>1, OnItsWayStays
  <2> QED
    BY <1>i, <2>1, <2>3, <2>4 DEF PubInv
<1> QED
  BY <1>1, <1>2, <1>3, <1>4, <1>5, <1>6 DEF Works

\* Publishers and streams do not touch what the other keeps.
LEMMA PubStays ==
    ASSUME PubInv, UNCHANGED <<sourceVars, last>>
    PROVE  PubInv'
  BY DEF PubInv, Doing, OnItsWay, Brings, sourceVars

LEMMA SourceStep ==
    ASSUME EventInv, Source
    PROVE  EventInv'
<1> USE DEF EventInv
<1>1. ASSUME NEW p \in Publishers, NEW v \in Workspaces, Works(p, v), SourceKeeps PROVE EventInv'
  <2>1. SourceTypes' /\ BusTypes' /\ work' \in 0..MaxWork
    BY <1>1, SourceTypeStep
  <2>2. StreamTypes'
    BY <1>1 DEF TypeOK, StreamTypes, SourceKeeps, streamVars
  <2>3. RingInv' /\ LogGrows /\ \A w \in Workspaces : state'[w] # "absent" => Passes(w)
    BY <1>1, WorksGrow, WorksMean
  <2>4. PubInv'
    BY <1>1, PubStep
  <2>5. LastInv'
    BY <2>3, LastPasses DEF LastInv
  <2>6. StreamInv'
    BY <1>1, <2>3, StreamPasses DEF StreamInv
  <2>7. ViewInv'
    BY <1>1, <2>3, ViewPasses DEF ViewInv
  <2> QED
    BY <2>1, <2>2, <2>3, <2>4, <2>5, <2>6, <2>7 DEF TypeOK
<1>2. CASE PublishOther /\ SourceKeeps
  <2>1. SourceTypes' /\ BusTypes' /\ work' \in 0..MaxWork
    BY <1>2, OtherTypeStep
  <2>2. StreamTypes'
    BY <1>2 DEF TypeOK, StreamTypes, SourceKeeps, streamVars
  <2>3. RingInv' /\ LogGrows /\ \A w \in Workspaces : state'[w] # "absent" => Passes(w)
    BY <1>2, OtherMeans
  <2>4. PubInv'
    BY <1>2, PubStays DEF PublishOther
  <2>5. LastInv'
    BY <2>3, LastPasses DEF LastInv
  <2>6. StreamInv'
    BY <1>2, <2>3, StreamPasses DEF StreamInv
  <2>7. ViewInv'
    BY <1>2, <2>3, ViewPasses DEF ViewInv
  <2> QED
    BY <2>1, <2>2, <2>3, <2>4, <2>5, <2>6, <2>7 DEF TypeOK
<1>3. ASSUME NEW p \in Publishers, Read(p) \/ PublishStatus(p) \/ Forget(p), SourceKeeps PROVE EventInv'
  <2>1. \E v \in Workspaces : Works(p, v)
    BY <1>3 DEF Works, PubInv, Doing, Read, PublishStatus, Forget
  <2> QED
    BY <1>1, <1>3, <2>1
<1> QED
  BY <1>1, <1>2, <1>3 DEF Source, SourceKeeps, Works

(***************************************************************************)
(* Steps of a stream                                                       *)
(***************************************************************************)

\* What the newest events of the log are is kept.
LEMMA KeptHas ==
    ASSUME BusTypes, RingInv, NEW n \in (seq - Len(events) + 1)..seq
    PROVE  n \in 1..seq /\ log[n].seq = n /\ \E i \in DOMAIN events : events[i] = log[n]
<1>1. seq \in Nat /\ Len(events) \in Nat /\ Len(events) <= seq /\ DOMAIN events = 1..Len(events)
  BY BufferAssumption DEF BusTypes, RingInv
<1>2. n - (seq - Len(events)) \in 1..Len(events)
  BY <1>1
<1>3. events[n - (seq - Len(events))] = log[seq - Len(events) + (n - (seq - Len(events)))]
  BY <1>2 DEF RingInv
<1>4. seq - Len(events) + (n - (seq - Len(events))) = n /\ n \in 1..seq
  BY <1>1
<1> QED
  BY <1>1, <1>2, <1>3, <1>4 DEF RingInv

\* since hands out what is kept behind next.
LEMMA SinceDoes ==
    ASSUME TypeOK, RingInv, StreamInv, NEW k \in Watchers, Since(k)
    PROVE  /\ at[k] = "stream" /\ at' = at /\ out[k] = {} /\ next'[k] = seq /\ next[k] <= seq
           /\ UNCHANGED <<seq, events, todo, seen, view, heard>>
           /\ \A e \in out'[k] :
                /\ e.seq \in 1..seq /\ next[k] < e.seq /\ seq - Len(events) < e.seq
                /\ e = log[e.seq] /\ Wants(k, e)
           /\ \A n \in (next[k] + 1)..seq :
                seq - Len(events) < n /\ Wants(k, log[n]) => log[n] \in out'[k]
<1>0. /\ BusTypes /\ seq \in Nat /\ next[k] \in Nat /\ Len(events) \in Nat /\ Len(events) <= seq
      /\ DOMAIN events = 1..Len(events) /\ next \in [Watchers -> Nat] /\ k \in DOMAIN out
  BY BufferAssumption DEF TypeOK, BusTypes, StreamTypes, RingInv
<1>1. /\ at[k] = "stream" /\ at' = at /\ out[k] = {} /\ next' = [next EXCEPT ![k] = seq]
      /\ UNCHANGED <<seq, events, todo, seen, view, heard>>
      /\ out'[k] = {events[i] : i \in {j \in DOMAIN events : Sent(k, events[j])}}
  BY <1>0 DEF Since
<1>2. next[k] <= seq
  BY <1>1 DEF StreamInv, StreamOf
<1>3. ASSUME NEW e \in out'[k]
      PROVE  /\ e.seq \in 1..seq /\ next[k] < e.seq /\ seq - Len(events) < e.seq
             /\ e = log[e.seq] /\ Wants(k, e)
  <2>1. PICK i \in DOMAIN events : e = events[i] /\ Wants(k, e) /\ e.seq > next[k]
    BY <1>1 DEF Sent
  <2>2. e = log[seq - Len(events) + i]
    BY <1>0, <2>1 DEF RingInv
  <2>3. seq - Len(events) + i \in 1..seq /\ seq - Len(events) < seq - Len(events) + i
    BY <1>0
  <2>4. e.seq = seq - Len(events) + i
    BY <2>2, <2>3 DEF RingInv
  <2> QED
    BY <1>0, <2>1, <2>2, <2>3, <2>4
<1>4. ASSUME NEW n \in (next[k] + 1)..seq, seq - Len(events) < n, Wants(k, log[n])
      PROVE  log[n] \in out'[k]
  <2>1. n \in (seq - Len(events) + 1)..seq
    BY <1>0, <1>4
  <2>2. log[n].seq = n /\ \E i \in DOMAIN events : events[i] = log[n]
    BY <1>0, <2>1, KeptHas
  <2>3. n > next[k]
    BY <1>0
  <2> QED
    BY <1>1, <1>4, <2>2, <2>3 DEF Sent
<1> QED
  BY <1>0, <1>1, <1>2, <1>3, <1>4

\* What Send sends and what is behind it.
LEMMA SendDoes ==
    ASSUME TypeOK, RingInv, StreamInv, NEW k \in Watchers, at[k] = "stream", out[k] # {}
    PROVE  LET e == First(out[k]) IN
           /\ e \in out[k] /\ e \in Event /\ e.seq \in 1..next[k] /\ next[k] <= seq /\ e = log[e.seq]
           /\ Wants(k, e)
           /\ \A f \in out[k] : e.seq <= f.seq /\ f.seq \in 1..next[k] /\ f = log[f.seq]
           /\ \A n \in (e.seq + 1)..next[k] : Wants(k, log[n]) => log[n] \in out[k] \ {e}
<1> DEFINE e == First(out[k])
<1>0. /\ out[k] \in SUBSET Event /\ next[k] \in Nat /\ seq \in Nat /\ StreamOf(k)
  BY DEF TypeOK, StreamTypes, BusTypes, StreamInv
<1>1. e \in out[k] /\ \A f \in out[k] : e.seq <= f.seq
  BY <1>0, FirstOf
<1> HIDE DEF e
<1>2. e \in Event /\ next[k] <= seq
  BY <1>0, <1>1 DEF StreamOf
<1>3. \A f \in out[k] : f.seq \in 1..next[k] /\ f = log[f.seq] /\ Wants(k, f)
  BY <1>0 DEF StreamOf
<1>4. \A n \in e.seq..next[k] : Wants(k, log[n]) => log[n] \in out[k]
  BY <1>0, <1>1 DEF StreamOf
<1>5. ASSUME NEW n \in (e.seq + 1)..next[k], Wants(k, log[n])
      PROVE  log[n] \in out[k] \ {e}
  <2>1. n \in e.seq..next[k] /\ n \in 1..seq /\ n # e.seq
    BY <1>0, <1>1, <1>2, <1>3
  <2>2. log[n].seq = n
    BY <2>1 DEF RingInv
  <2> QED
    BY <1>4, <1>5, <2>1, <2>2
<1> QED
  BY <1>1, <1>2, <1>3, <1>5 DEF e

\* Other streams go on as before.
LEMMA Elsewhere ==
    ASSUME StreamInv, ViewInv, NEW k \in Watchers, OthersStay(k), NEW j \in Watchers \ {k},
           UNCHANGED <<seq, log, id, state, version, landed, last>>
    PROVE  StreamOf(j)' /\ \A w \in Workspaces : ViewOf(j, w)'
<1>1. StreamOf(j) /\ \A w \in Workspaces : ViewOf(j, w)
  BY DEF StreamInv, ViewInv
<1>2. /\ at'[j] = at[j] /\ next'[j] = next[j] /\ out'[j] = out[j] /\ todo'[j] = todo[j]
      /\ seen'[j] = seen[j] /\ view'[j] = view[j] /\ slip'[j] = slip[j]
  BY DEF OthersStay
<1>3. StreamOf(j)'
  BY <1>1, <1>2 DEF StreamOf, Wants, Targets
<1>4. \A w \in Workspaces : ViewOf(j, w)'
  BY <1>1, <1>2 DEF ViewOf, Knows, Informed, Streams, Shown
<1> QED
  BY <1>3, <1>4

LEMMA OpenStep ==
    ASSUME TypeOK, StreamInv, ViewInv, NEW k \in Watchers, Open(k), StreamKeeps
    PROVE  StreamOf(k)' /\ \A w \in Workspaces : ViewOf(k, w)'
<1> USE DEF Goto
<1>0. /\ k \in DOMAIN at /\ next \in [Watchers -> Nat] /\ seen[k] \in Nat
      /\ StreamOf(k) /\ \A w \in Workspaces : ViewOf(k, w)
  BY DEF TypeOK, StreamTypes, StreamInv, ViewInv
<1>1. /\ UNCHANGED <<seq, out, todo, seen, view, slip, log, id, state, version, landed, last>>
      /\ at[k] = "off"
      /\ \/ at'[k] = "window" /\ (next'[k] = 0 \/ next'[k] = seen[k])
         \/ at'[k] = "failed"
  BY <1>0 DEF Open, StreamKeeps, sourceVars
<1>2. StreamOf(k)'
  BY <1>0, <1>1 DEF StreamOf, Targets
<1>3. \A w \in Workspaces : ViewOf(k, w)'
  BY <1>0, <1>1 DEF ViewOf, Knows, Informed, Streams, Shown
<1> QED
  BY <1>2, <1>3

LEMMA WindowStep ==
    ASSUME TypeOK, StreamInv, ViewInv, NEW k \in Watchers, Window(k), StreamKeeps
    PROVE  StreamOf(k)' /\ \A w \in Workspaces : ViewOf(k, w)'
<1> USE DEF Goto
<1>0. /\ k \in DOMAIN at /\ next[k] \in Nat /\ seq \in Nat /\ seen \in [Watchers -> Nat]
      /\ StreamOf(k) /\ \A w \in Workspaces : ViewOf(k, w)
  BY DEF TypeOK, BusTypes, StreamTypes, StreamInv, ViewInv
<1>1. /\ UNCHANGED <<seq, next, out, todo, view, slip, log, id, state, version, landed, last>>
      /\ at[k] = "window" /\ out[k] = {} /\ (next[k] # 0 => next[k] = seen[k])
      /\ todo[k] \subseteq Targets(k)
  BY <1>0 DEF Window, StreamKeeps, sourceVars, StreamOf
<1>2. CASE Refused(next[k])
  <2>1. at'[k] = "off" /\ seen'[k] = 0
    BY <1>0, <1>2 DEF Window
  <2>2. StreamOf(k)'
    BY <1>1, <2>1 DEF StreamOf, Targets
  <2>3. \A w \in Workspaces : ViewOf(k, w)'
    BY <1>0, <1>1, <2>1 DEF ViewOf, Knows, Informed, Streams
  <2> QED
    BY <2>2, <2>3
<1>3. CASE ~Refused(next[k]) /\ next[k] = 0
  <2>1. at'[k] = "head" /\ seen'[k] = seen[k]
    BY <1>0, <1>3 DEF Window
  <2>2. StreamOf(k)'
    BY <1>1, <2>1 DEF StreamOf, Targets
  <2>3. \A w \in Workspaces : ViewOf(k, w)'
    BY <1>0, <1>1, <2>1 DEF ViewOf, Knows, Informed, Streams, Shown
  <2> QED
    BY <2>2, <2>3
<1>4. CASE ~Refused(next[k]) /\ next[k] # 0
  <2>1. at'[k] = "stream" /\ seen'[k] = seen[k] /\ next[k] <= seq /\ next[k] = seen[k]
    BY <1>0, <1>1, <1>4 DEF Window, Refused
  <2>2. StreamOf(k)'
    BY <1>1, <2>1 DEF StreamOf, Targets
  <2>3. \A n \in (seen[k] + 1)..next[k] : FALSE
    BY <1>0, <2>1
  <2>4. \A w \in Workspaces : Informed(k, w)
    BY <1>1, <1>4, <2>1 DEF Informed
  <2>5. \A w \in Workspaces : ViewOf(k, w)'
    BY <1>0, <1>1, <2>1, <2>3, <2>4 DEF ViewOf, Knows, Shown
  <2> QED
    BY <2>2, <2>5
<1> QED
  BY <1>2, <1>3, <1>4

LEMMA NewestStep ==
    ASSUME TypeOK, StreamInv, ViewInv, NEW k \in Watchers, Newest(k), StreamKeeps
    PROVE  StreamOf(k)' /\ \A w \in Workspaces : ViewOf(k, w)'
<1> USE DEF Goto
<1>0. /\ k \in DOMAIN at /\ next \in [Watchers -> Nat] /\ seq \in Nat /\ k \in DOMAIN todo
      /\ StreamOf(k) /\ \A w \in Workspaces : ViewOf(k, w)
  BY DEF TypeOK, BusTypes, StreamTypes, StreamInv, ViewInv
<1>1. /\ UNCHANGED <<seq, out, seen, view, slip, log, id, state, version, landed, last>>
      /\ at'[k] = "status" /\ next'[k] = seq /\ todo'[k] = Targets(k) /\ out[k] = {}
  BY <1>0 DEF Newest, StreamKeeps, sourceVars, StreamOf
<1>2. StreamOf(k)'
  BY <1>0, <1>1 DEF StreamOf, Targets
<1>3. \A w \in Workspaces : id[k] \in {All, w} => ~Streams(k, w)' /\ ~Informed(k, w)'
  BY <1>1 DEF Streams, Informed, Targets
<1>4. \A w \in Workspaces : ViewOf(k, w)'
  BY <1>0, <1>1, <1>3 DEF ViewOf, Knows
<1> QED
  BY <1>2, <1>4

LEMMA FirstStatusStep ==
    ASSUME TypeOK, StreamInv, ViewInv, NEW k \in Watchers, NEW v \in Workspaces,
           FirstStatus(k, v), StreamKeeps
    PROVE  StreamOf(k)' /\ \A w \in Workspaces : ViewOf(k, w)'
<1>0. /\ k \in DOMAIN at /\ next[k] \in Nat /\ seq \in Nat /\ seen \in [Watchers -> Nat]
      /\ todo \in [Watchers -> SUBSET Workspaces]
      /\ slip \in [Watchers -> [Workspaces -> SUBSET Slips]]
      /\ view \in [Watchers -> [Workspaces -> Status]]
      /\ state \in [Workspaces -> Contents \cup {"absent"}]
      /\ StreamOf(k) /\ \A w \in Workspaces : ViewOf(k, w)
  BY DEF TypeOK, SourceTypes, BusTypes, StreamTypes, StreamInv, ViewInv
<1>1. /\ UNCHANGED <<seq, next, out, log, id, awaits, state, version, landed, last>>
      /\ at[k] = "status" /\ v \in todo[k] /\ out[k] = {} /\ next[k] <= seq
      /\ todo[k] \subseteq Targets(k)
  BY <1>0 DEF FirstStatus, StreamKeeps, sourceVars, StreamOf
<1>2. todo'[k] = todo[k] \ {v}
  BY <1>0 DEF FirstStatus
<1>3. at'[k] \in {"status", "returned", "stream", "failed", "off"}
  BY <1>0, <1>1 DEF FirstStatus
<1>4. StreamOf(k)'
  BY <1>1, <1>2, <1>3 DEF StreamOf, Targets
<1>5. ASSUME NEW w \in Workspaces, id[k] \in {All, w}, w # v,
             Streams(k, w)' \/ Informed(k, w)', state[w] # "absent"
      PROVE  Streams(k, w)
  <2>1. at'[k] = "stream" => todo[k] = {v}
    BY <1>0, <1>1, <1>5 DEF FirstStatus
  <2>2. at'[k] = "off" => id[k] # All
    BY <1>0, <1>1, <1>5 DEF FirstStatus
  <2>3. at'[k] # "off"
    BY <1>1, <1>5, <2>2 DEF Targets
  <2> QED
    BY <1>1, <1>2, <1>3, <1>5, <2>1, <2>3 DEF Streams, Informed
<1>6. \A n \in (next[k] + 1)..next[k] : FALSE
  BY <1>0
<1>7. CASE state[v] # "absent"
  <2>1. /\ seen' = [seen EXCEPT ![k] = next[k]]
        /\ view' = [view EXCEPT ![k][v] = state[v]]
        /\ slip' = [slip EXCEPT ![k][v] = IF last[v] \in {NoContent, state[v]} THEN {} ELSE {"ahead"}]
    BY <1>0, <1>7 DEF FirstStatus, Receive, Contents, NoContent
  <2>2. /\ seen'[k] = next[k] /\ view'[k][v] = state[v]
        /\ \A w \in Workspaces : w # v => view'[k][w] = view[k][w] /\ slip'[k][w] = slip[k][w]
    BY <1>0, <2>1
  <2>3. slip'[k][v] = {} => last[v] \in {NoContent, state[v]}
    BY <1>0, <2>1
  <2>4. ViewOf(k, v)'
    BY <1>1, <1>6, <2>2, <2>3 DEF ViewOf, Knows
  <2>5. ASSUME NEW w \in Workspaces, w # v PROVE ViewOf(k, w)'
    <3> SUFFICES ASSUME slip[k][w] = {}, state[w] # "absent", id[k] \in {All, w},
                        Streams(k, w)' \/ Informed(k, w)'
                 PROVE  Knows(k, w)'
      BY <1>1, <2>2, <2>5 DEF ViewOf, Knows
    <3>1. Streams(k, w) /\ Informed(k, w) /\ Knows(k, w)
      BY <1>0, <1>5, <2>5 DEF ViewOf, Informed
    <3>2. \A n \in (seen[k] + 1)..next[k] : ~Shown(w, log[n])
      BY <1>1, <3>1 DEF Knows
    <3>3. \A n \in (seen[k] + 1)..seq : Shown(w, log[n]) => n \in (next[k] + 1)..seq
      BY <1>0, <3>2
    <3> QED
      BY <1>1, <1>6, <2>2, <2>5, <3>1, <3>3 DEF Knows, Shown
  <2> QED
    BY <1>4, <2>4, <2>5
<1>8. CASE state[v] = "absent"
  <2>1. UNCHANGED <<seen, view, slip>>
    BY <1>8 DEF FirstStatus
  <2>2. ASSUME NEW w \in Workspaces PROVE ViewOf(k, w)'
    <3> SUFFICES ASSUME slip[k][w] = {}, state[w] # "absent", id[k] \in {All, w},
                        Streams(k, w)' \/ Informed(k, w)'
                 PROVE  Knows(k, w)'
      BY <1>0, <1>1, <2>1 DEF ViewOf, Knows
    <3>1. Streams(k, w) /\ Informed(k, w) /\ Knows(k, w)
      BY <1>0, <1>5, <1>8 DEF ViewOf, Informed
    <3> QED
      BY <1>1, <2>1, <3>1 DEF Knows, Shown
  <2> QED
    BY <1>4, <2>2
<1> QED
  BY <1>7, <1>8

LEMMA SinceStep ==
    ASSUME TypeOK, RingInv, StreamInv, ViewInv, NEW k \in Watchers, Since(k), StreamKeeps
    PROVE  StreamOf(k)' /\ \A w \in Workspaces : ViewOf(k, w)'
<1>0. /\ BusTypes /\ seq \in Nat /\ next[k] \in Nat /\ seen[k] \in Nat /\ Len(events) \in Nat
      /\ Len(events) <= seq /\ slip \in [Watchers -> [Workspaces -> SUBSET Slips]]
      /\ StreamOf(k) /\ \A w \in Workspaces : ViewOf(k, w)
  BY BufferAssumption DEF TypeOK, BusTypes, StreamTypes, StreamInv, ViewInv, RingInv
<1>1. /\ at[k] = "stream" /\ at' = at /\ out[k] = {} /\ next'[k] = seq /\ next[k] <= seq
      /\ UNCHANGED <<seq, events, todo, seen, view>>
      /\ \A e \in out'[k] :
           e.seq \in 1..seq /\ next[k] < e.seq /\ seq - Len(events) < e.seq /\ e = log[e.seq] /\ Wants(k, e)
      /\ \A n \in (next[k] + 1)..seq :
           seq - Len(events) < n /\ Wants(k, log[n]) => log[n] \in out'[k]
  BY SinceDoes
<1>2. UNCHANGED <<log, id, state, version, landed, last>>
  BY DEF StreamKeeps, sourceVars
<1>3. StreamOf(k)'
  <2>1. ASSUME NEW e \in out'[k], NEW n \in e.seq..seq, Wants(k, log[n]) PROVE log[n] \in out'[k]
    <3>1. e.seq \in 1..seq /\ next[k] < e.seq /\ seq - Len(events) < e.seq
      BY <1>1
    <3>2. n \in (next[k] + 1)..seq /\ seq - Len(events) < n
      BY <1>0, <3>1
    <3> QED
      BY <1>1, <2>1, <3>2
  <2>2. todo[k] \subseteq Targets(k)
    BY <1>0 DEF StreamOf
  <2> QED
    BY <1>0, <1>1, <1>2, <2>1, <2>2 DEF StreamOf, Wants, Targets
<1>4. ASSUME NEW w \in Workspaces, slip'[k][w] = {} PROVE ViewOf(k, w)'
  <2>1. /\ slip'[k][w] = IF events # <<>> /\ events[1].seq > next[k] + 1
                        THEN slip[k][w] \cup {"jumped"} ELSE slip[k][w]
    BY <1>0 DEF Since
  <2>2. slip[k][w] = {} /\ ~(events # <<>> /\ events[1].seq > next[k] + 1)
    BY <1>4, <2>1
  <2>3. seen[k] <= seq
    BY <1>0, <2>2 DEF ViewOf
  <2>4. seq - Len(events) <= next[k]
    <3>1. CASE seq = 0
      BY <1>0, <3>1
    <3>2. CASE seq # 0
      <4>1. Len(events) # 0
        BY <1>0, <3>2, BufferAssumption DEF RingInv
      <4>2. events # <<>> /\ 1 \in 1..Len(events)
        BY <1>0, <4>1
      <4>3. events[1] = log[seq - Len(events) + 1] /\ seq - Len(events) + 1 \in 1..seq
        BY <1>0, <4>1, <4>2 DEF RingInv
      <4>4. events[1].seq = seq - Len(events) + 1
        BY <4>3 DEF RingInv
      <4> QED
        BY <1>0, <2>2, <4>2, <4>4
    <3> QED
      BY <3>1, <3>2
  <2> SUFFICES ASSUME state[w] # "absent", id[k] \in {All, w} PROVE Knows(k, w)'
    BY <1>1, <1>2, <2>3 DEF ViewOf
  <2>5. Streams(k, w) /\ Informed(k, w) /\ Streams(k, w)' /\ Informed(k, w)' /\ Knows(k, w)
    BY <1>0, <1>1, <2>2 DEF ViewOf, Streams, Informed
  <2>6. ASSUME NEW n \in (seen[k] + 1)..seq, Shown(w, log[n]) PROVE log[n] \in out'[k]
    <3>1. n \in (next[k] + 1)..seq
      <4>1. CASE n \in (seen[k] + 1)..next[k]
        BY <1>1, <2>5, <2>6, <4>1 DEF Knows
      <4> QED
        BY <1>0, <1>1, <4>1
    <3>2. Wants(k, log[n])
      BY <2>6 DEF Wants, Shown
    <3>3. seq - Len(events) < n
      BY <1>0, <2>4, <3>1
    <3> QED
      BY <1>1, <3>1, <3>2, <3>3
  <2> QED
    BY <1>1, <1>2, <2>5, <2>6 DEF Knows, Shown
<1> QED
  BY <1>3, <1>4 DEF ViewOf

LEMMA SendStep ==
    ASSUME TypeOK, RingInv, LastInv, StreamInv, ViewInv, NEW k \in Watchers, Send(k), StreamKeeps
    PROVE  StreamOf(k)' /\ \A w \in Workspaces : ViewOf(k, w)'
<1>0. /\ seq \in Nat /\ next[k] \in Nat /\ seen \in [Watchers -> Nat] /\ out \in [Watchers -> SUBSET Event]
      /\ slip \in [Watchers -> [Workspaces -> SUBSET Slips]] /\ k \in DOMAIN at
      /\ view \in [Watchers -> [Workspaces -> Status]]
      /\ StreamOf(k) /\ \A w \in Workspaces : ViewOf(k, w)
  BY DEF TypeOK, BusTypes, StreamTypes, StreamInv, ViewInv
<1>p. PICK e : e = First(out[k])
  OBVIOUS
<1>a. at[k] = "stream" /\ out[k] # {}
  BY DEF Send
<1>1. /\ e \in out[k] /\ e \in Event /\ e.seq \in 1..next[k] /\ next[k] <= seq /\ e = log[e.seq]
      /\ Wants(k, e)
      /\ \A f \in out[k] : e.seq <= f.seq /\ f.seq \in 1..next[k] /\ f = log[f.seq]
      /\ \A n \in (e.seq + 1)..next[k] : Wants(k, log[n]) => log[n] \in out[k] \ {e}
  BY <1>a, <1>p, SendDoes
<1>2. /\ UNCHANGED <<seq, next, todo, log, id, awaits, state, version, landed, last>>
      /\ todo[k] \subseteq Targets(k)
  BY <1>0 DEF Send, StreamKeeps, sourceVars, StreamOf
<1>3. \/ at'[k] = "returned" /\ out'[k] = {}
      \/ at'[k] = "stream" /\ out'[k] = out[k] \ {e}
  BY <1>0, <1>a, <1>p DEF Send
<1>4. seen'[k] = e.seq
  BY <1>0, <1>p DEF Send, Receive
<1>5. StreamOf(k)'
  <2>1. CASE at'[k] = "returned" /\ out'[k] = {}
    BY <1>2, <2>1 DEF StreamOf, Targets
  <2>2. CASE at'[k] = "stream" /\ out'[k] = out[k] \ {e}
    <3>1. ASSUME NEW f \in out[k] \ {e}
          PROVE  /\ f.seq \in 1..next[k] /\ f = log[f.seq] /\ Wants(k, f)
                 /\ \A n \in f.seq..next[k] : Wants(k, log[n]) => log[n] \in out[k] \ {e}
      <4>1. f.seq \in 1..next[k] /\ f = log[f.seq] /\ e.seq <= f.seq /\ f.seq # e.seq
        BY <1>1
      <4>2. Wants(k, f)
        BY <1>0 DEF StreamOf
      <4>3. \A n \in f.seq..next[k] : n \in (e.seq + 1)..next[k]
        <5>1. e.seq \in Nat /\ f.seq \in Nat /\ e.seq < f.seq
          <6>1. PICK a, b : a = e.seq /\ b = f.seq
            OBVIOUS
          <6>2. a \in 1..next[k] /\ b \in 1..next[k] /\ a <= b /\ a # b
            BY <1>1, <4>1, <6>1
          <6>3. a \in Nat /\ b \in Nat /\ a < b
            BY <6>2
          <6> QED
            BY <6>1, <6>3
        <5> QED
          BY <1>0, <5>1
      <4> QED
        BY <1>1, <4>1, <4>2, <4>3
    <3> QED
      BY <1>1, <1>2, <2>2, <3>1 DEF StreamOf, Wants, Targets
  <2> QED
    BY <1>3, <2>1, <2>2
<1>6. ASSUME NEW w \in Workspaces PROVE ViewOf(k, w)'
  <2>1. e.seq <= seq /\ e.seq \in Nat
    BY <1>0, <1>1
  <2> SUFFICES ASSUME slip'[k][w] = {}, state[w] # "absent", id[k] \in {All, w}, at'[k] = "stream"
               PROVE  Knows(k, w)'
    BY <1>2, <1>3, <1>4, <2>1 DEF ViewOf, Knows, Streams, Informed
  <2>2. out'[k] = out[k] \ {e}
    BY <1>3
  <2>3. \A n \in (e.seq + 1)..next[k] : Shown(w, log[n]) => log[n] \in out'[k]
    BY <1>1, <2>2 DEF Shown, Wants
  <2>4. LastOf(w)
    BY DEF LastInv
  <2>5. CASE Shown(w, e)
    <3>1. view'[k][w] = e.status
      BY <1>0, <1>p, <2>5 DEF Send, Receive, Shown
    <3>2. e.seq \in 1..seq /\ Shown(w, log[e.seq])
      BY <1>0, <1>1, <2>5
    <3>3. PICK n \in 1..seq : /\ Shown(w, log[n]) /\ log[n].status = last[w]
                              /\ \A m \in (n + 1)..seq : ~Shown(w, log[m])
      BY <2>4, <3>2 DEF LastOf
    <3>4. last[w] # NoContent
      BY <3>3 DEF Shown
    <3>5. CASE n = e.seq
      BY <1>1, <1>2, <1>4, <2>3, <3>1, <3>3, <3>4, <3>5 DEF Knows, Shown
    <3>6. CASE n # e.seq
      <4>1. n \in (e.seq + 1)..seq
        <5>1. e.seq \notin (n + 1)..seq
          BY <3>2, <3>3
        <5>2. PICK a : a = e.seq
          OBVIOUS
        <5>3. a \in Nat /\ a <= seq /\ a # n /\ a \notin (n + 1)..seq
          BY <2>1, <3>6, <5>1, <5>2
        <5>4. seq \in Nat
          BY <1>0
        <5>5. n \in (a + 1)..seq
          BY <5>3, <5>4
        <5> QED
          BY <5>2, <5>5
      <4> QED
        BY <1>2, <1>4, <2>3, <3>3, <3>4, <4>1 DEF Knows, Shown
    <3> QED
      BY <3>5, <3>6
  <2>6. CASE ~Shown(w, e)
    <3>1. slip'[k][w] = slip[k][w] /\ view'[k][w] = view[k][w]
      <4>1. CASE e.status = NoContent
        BY <1>p, <4>1 DEF Send, Receive
      <4>2. CASE e.status # NoContent /\ e.ws # w
        BY <1>0, <1>p, <4>2 DEF Send, Receive
      <4> QED
        BY <2>6, <4>1, <4>2 DEF Shown
    <3>2. Streams(k, w) /\ Informed(k, w)
      BY <1>a DEF Streams, Informed
    <3>3. Knows(k, w)
      BY <1>0, <3>1 DEF ViewOf
    <3>4. ASSUME NEW n \in (seen[k] + 1)..seq, Shown(w, log[n]) PROVE n \in (e.seq + 1)..seq
      <4>1. CASE n <= e.seq
        <5>1. n \in (seen[k] + 1)..next[k]
          BY <1>0, <1>1, <4>1
        <5>2. log[n] \in out[k]
          BY <3>2, <3>3, <3>4, <5>1 DEF Knows
        <5>3. n \in 1..seq
          BY <1>0
        <5>4. e.seq <= n
          BY <1>1, <5>2, <5>3 DEF RingInv
        <5> QED
          BY <1>1, <2>1, <2>6, <3>4, <4>1, <5>3, <5>4
      <4> QED
        BY <1>0, <2>1, <4>1
    <3> QED
      BY <1>2, <1>4, <2>3, <3>1, <3>2, <3>3, <3>4 DEF Knows, Shown
  <2> QED
    BY <2>5, <2>6
<1> QED
  BY <1>5, <1>6

LEMMA CutStep ==
    ASSUME TypeOK, StreamInv, ViewInv, NEW k \in Watchers, Cut(k)
    PROVE  StreamOf(k)' /\ \A w \in Workspaces : ViewOf(k, w)'
<1>0. /\ k \in DOMAIN at /\ k \in DOMAIN out /\ k \in DOMAIN todo /\ k \in DOMAIN next
      /\ slip \in [Watchers -> [Workspaces -> SUBSET Slips]]
      /\ StreamOf(k) /\ \A w \in Workspaces : ViewOf(k, w)
  BY DEF TypeOK, StreamTypes, StreamInv, ViewInv
<1>1. /\ UNCHANGED <<seq, seen, view, log, id, state, version, landed, last>>
      /\ at[k] \in {"window", "head", "status", "stream"}
      /\ at'[k] = "off" /\ out'[k] = {} /\ todo'[k] = {}
  BY <1>0 DEF Cut, sourceVars
<1>2. StreamOf(k)'
  BY <1>1 DEF StreamOf
<1>3. ASSUME NEW w \in Workspaces PROVE ViewOf(k, w)'
  <2>1. slip'[k][w] = IF w \in todo[k] THEN slip[k][w] \cup {"cut"} ELSE slip[k][w]
    BY <1>0 DEF Cut
  <2>2. slip'[k][w] = {} => slip[k][w] = {} /\ w \notin todo[k]
    BY <2>1
  <2>3. w \notin todo[k] /\ Informed(k, w)' => Informed(k, w)
    BY <1>1 DEF Informed, Streams
  <2>4. ~Streams(k, w)'
    BY <1>1 DEF Streams
  <2> QED
    BY <1>0, <1>1, <2>2, <2>3, <2>4 DEF ViewOf, Knows, Shown
<1> QED
  BY <1>2, <1>3

\* A step of one stream.
LEMMA StreamStep ==
    ASSUME EventInv, NEW k \in Watchers, (Stream(k) \/ Cut(k))
    PROVE  EventInv'
<1> USE DEF EventInv
<1>1. StreamTypes' /\ closed' \in [Watchers -> BOOLEAN] /\ OthersStay(k)
  BY StreamTypeStep
<1>2. UNCHANGED <<sourceVars, seq, events, last, log, id>>
  BY DEF Stream, Open, Window, Newest, Since, Send, FirstStatus, Cut
<1>3. work' \in 0..MaxWork
  BY BufferAssumption DEF Stream, Cut, Work, TypeOK
<1>4. TypeOK'
  BY <1>1, <1>2, <1>3 DEF TypeOK, SourceTypes, BusTypes, sourceVars
<1>5. RingInv' /\ PubInv'
  BY <1>2, PubStays DEF RingInv
<1>6. LastInv'
  BY <1>2 DEF LastInv, LastOf, Shown, sourceVars
<1>7. StreamOf(k)' /\ \A w \in Workspaces : ViewOf(k, w)'
  <2>1. CASE Stream(k)
    BY <2>1, OpenStep, WindowStep, NewestStep, SinceStep, SendStep, FirstStatusStep DEF Stream, StreamKeeps
  <2>2. CASE Cut(k)
    BY <2>2, CutStep
  <2> QED
    BY <2>1, <2>2
<1>8. \A j \in Watchers \ {k} : StreamOf(j)' /\ \A w \in Workspaces : ViewOf(j, w)'
  BY <1>1, <1>2, Elsewhere DEF sourceVars
<1>9. StreamInv' /\ ViewInv'
  BY <1>7, <1>8 DEF StreamInv, ViewInv
<1> QED
  BY <1>4, <1>5, <1>6, <1>9

(***************************************************************************)
(* The invariant                                                           *)
(***************************************************************************)

LEMMA RestartStep ==
    ASSUME EventInv, Restart
    PROVE  EventInv'
<1> USE DEF EventInv
<1>0. SourceTypes /\ BusTypes /\ StreamTypes /\ work \in 0..MaxWork /\ MaxWork \in Nat
  BY BufferAssumption DEF TypeOK
<1>1. /\ seq' = 0 /\ events' = <<>> /\ log' = <<>> /\ last' = [w \in Workspaces |-> NoContent]
      /\ closed' = [k \in Watchers |-> TRUE] /\ next' = [k \in Watchers |-> 0]
      /\ pub' = [p \in Publishers |-> Idle]
      /\ landed' = version /\ raced' = [w \in Workspaces |-> FALSE]
      /\ out' = [k \in Watchers |-> {}] /\ todo' = [k \in Watchers |-> {}]
      /\ slip' = [k \in Watchers |-> [w \in Workspaces |-> {"renumbered"}]]
      /\ UNCHANGED <<version, id, awaits, seen, view, heard>>
  BY DEF Restart
<1>2. state' = [w \in Workspaces |-> IF Active(state[w]) THEN "stopped" ELSE state[w]]
      /\ at' = [k \in Watchers |-> IF at[k] \in {"returned", "failed"} THEN at[k] ELSE "off"]
  BY DEF Restart
<1>3. SourceTypes'
  <2>1. state' \in [Workspaces -> Contents \cup {"absent"}]
    BY <1>0, <1>2 DEF SourceTypes, Contents
  <2>2. pub' \in [Publishers -> PubRecords]
    BY <1>1, IdleRecord
  <2> QED
    BY <1>0, <1>1, <2>1, <2>2 DEF SourceTypes
<1>4. BusTypes'
  BY <1>1 DEF BusTypes, Status
<1>5. StreamTypes'
  BY <1>0, <1>1, <1>2 DEF StreamTypes, Slips
<1>6. work' \in 0..MaxWork
  BY <1>0 DEF Restart, Work
<1>7. RingInv'
  BY <1>1, BufferAssumption DEF RingInv
<1>8. LastInv'
  BY <1>1 DEF LastInv, LastOf
<1>9. PubInv'
  <2>1. \A w \in Workspaces : landed'[w] = version'[w] /\ landed'[w] <= version'[w]
    BY <1>0, <1>1 DEF SourceTypes
  <2>2. \A p \in Publishers : pub'[p].at = "idle"
    BY <1>1, IdleRecord
  <2> QED
    BY <1>1, <2>1, <2>2 DEF PubInv, Doing, OnItsWay
<1>10. StreamInv'
  BY <1>1, <1>2 DEF StreamInv, StreamOf
<1>11. ViewInv'
  BY <1>1 DEF ViewInv, ViewOf
<1> QED
  BY <1>3, <1>4, <1>5, <1>6, <1>7, <1>8, <1>9, <1>10, <1>11 DEF TypeOK

LEMMA EventInit == Init => EventInv
<1> SUFFICES ASSUME Init PROVE EventInv
  OBVIOUS
<1> USE DEF Init
<1>1. SourceTypes
  <2>1. pub \in [Publishers -> PubRecords]
    BY IdleRecord
  <2> QED
    BY <2>1 DEF SourceTypes, Contents
<1>2. BusTypes
  BY DEF BusTypes, Status
<1>3. StreamTypes
  BY DEF StreamTypes, Status
<1>4. RingInv /\ work \in 0..MaxWork
  BY BufferAssumption DEF RingInv
<1>5. LastInv
  BY DEF LastInv, LastOf
<1>6. PubInv
  BY IdleRecord DEF PubInv, Doing, OnItsWay
<1>7. StreamInv
  BY DEF StreamInv, StreamOf
<1>8. ViewInv
  BY DEF ViewInv, ViewOf, Knows, Informed, Streams
<1> QED
  BY <1>1, <1>2, <1>3, <1>4, <1>5, <1>6, <1>7, <1>8 DEF EventInv, TypeOK

LEMMA EventStep == EventInv /\ [Next]_vars => EventInv'
<1> SUFFICES ASSUME EventInv, [Next]_vars PROVE EventInv'
  OBVIOUS
<1>1. CASE UNCHANGED vars
  <2> USE <1>1 DEF vars, sourceVars, busVars, streamVars
  <2>1. TypeOK'
    BY DEF EventInv, TypeOK, SourceTypes, BusTypes, StreamTypes
  <2>2. RingInv' /\ PubInv'
    BY PubStays DEF EventInv, RingInv
  <2>3. LastInv'
    BY DEF EventInv, LastInv, LastOf, Shown
  <2>4. StreamInv'
    BY DEF EventInv, StreamInv, StreamOf, Wants, Targets
  <2>5. ViewInv'
    BY DEF EventInv, ViewInv, ViewOf, Knows, Informed, Streams, Shown
  <2> QED
    BY <2>1, <2>2, <2>3, <2>4, <2>5 DEF EventInv
<1> QED
  BY <1>1, SourceStep, StreamStep, RestartStep DEF Next, Quiet

\* In every state the invariant holds: the ring is the end of the log, a change is on its way
\* until it is published, and a client that has not slipped lacks only what is still to come
\* (eventBus and Watch).
THEOREM EventHolds == Spec => []EventInv
  BY EventInit, EventStep, PTL DEF Spec

\* A client that has had everything shows what there is (publishStatus, Watch).
THEOREM ViewIsCurrent == Spec => []ViewIsCurrentUnlessSlip
<1>1. EventInv => ViewIsCurrentUnlessSlip
  <2> SUFFICES ASSUME EventInv, NEW k \in Watchers, NEW w \in Workspaces, ~raced[w], slip[k][w] = {},
                      state[w] # "absent", id[k] \in {All, w}, Settled(w), Drained(k)
               PROVE  view[k][w] = state[w]
    BY DEF ViewIsCurrentUnlessSlip, Current
  <2>1. landed[w] = version[w] /\ last[w] \in {NoContent, state[w]}
    BY DEF EventInv, PubInv, OnItsWay, Brings, Settled
  <2>2. Streams(k, w) /\ Informed(k, w) /\ next[k] = seq /\ out[k] = {}
    BY DEF Streams, Informed, Drained
  <2>3. Knows(k, w)
    BY DEF EventInv, ViewInv, ViewOf
  <2> QED
    BY <2>1, <2>2, <2>3 DEF Knows
<1> QED
  BY <1>1, EventHolds, PTL

(***************************************************************************)
(* EventBus implements EventFeed                                           *)
(***************************************************************************)

Pos == [k \in Watchers |-> Place(k)]

\* Only the stream of a step changes its place.
LEMMA PlaceMoves ==
    ASSUME NEW k \in Watchers, OthersStay(k)
    PROVE  Pos' = [Pos EXCEPT ![k] = Place(k)'] /\ Pos[k] = Place(k)
  BY DEF Pos, Place, OthersStay

\* How far back the feed goes is as far as the ring does.
LEMMA KeptIs ==
    ASSUME TypeOK, RingInv
    PROVE  /\ Feed!Kept \in 0..Len(log) /\ Len(log) = seq /\ seq \in Nat
           /\ seq - Len(events) = Feed!Kept
  BY BufferAssumption DEF TypeOK, BusTypes, RingInv, Feed!Kept

LEMMA FeedInit == Init => Feed!Init
  BY DEF Init, Feed!Init, Feed!Off, Place

LEMMA FeedPublish ==
    ASSUME TypeOK, RingInv, NEW w \in Workspaces \cup {Nobody}, NEW s \in Status, Publish(w, s), SourceKeeps
    PROVE  Feed!Publish
<1> DEFINE e == [seq |-> seq + 1, ws |-> w, status |-> s]
<1>1. log \in Seq(Event) /\ BusTypes /\ Len(log) = seq /\ seq \in Nat
  BY DEF TypeOK, BusTypes, RingInv
<1>2. log' = Append(log, e) /\ e.seq = seq + 1 /\ e \in Event
  BY <1>1 DEF Publish, Event, BusTypes
<1> HIDE DEF e
<1>3. Len(log') = Len(log) + 1 /\ log'[Len(log')].seq = Len(log')
  <2>1. Len(log') = Len(log) + 1 /\ log'[Len(log) + 1] = e
    BY <1>1, <1>2
  <2> QED
    BY <1>1, <1>2, <2>1
<1>4. log = SubSeq(log', 1, Len(log))
  BY <1>1, <1>2
<1>5. UNCHANGED <<id, heard>> /\ [k \in Watchers |-> Place(k)]' = [k \in Watchers |-> Place(k)]
  BY DEF SourceKeeps, streamVars, Place
<1> QED
  BY <1>3, <1>4, <1>5 DEF Feed!Publish

\* A step of the rest of the system is no step of the feed.
LEMMA FeedSource ==
    ASSUME EventInv, Source
    PROVE  Feed!Publish \/ UNCHANGED Feed!feedVars
<1>0. TypeOK /\ RingInv /\ PubInv /\ SourceKeeps
  BY DEF EventInv, Source, SourceKeeps
<1>1. CASE log' = log
  BY <1>0, <1>1 DEF Feed!feedVars, SourceKeeps, streamVars, Place
<1>2. CASE PublishOther
  BY <1>0, <1>2, FeedPublish DEF PublishOther, Status
<1>3. ASSUME NEW p \in Publishers, PublishStatus(p), log' # log
      PROVE  Feed!Publish
  <2>1. pub[p].ws \in Workspaces /\ pub[p].status \in Status
    BY <1>0, <1>3 DEF PubInv, Doing, PublishStatus, Status
  <2>2. Publish(pub[p].ws, pub[p].status)
    BY <1>3 DEF PublishStatus, busVars
  <2> QED
    BY <1>0, <2>1, <2>2, FeedPublish
<1> QED
  BY <1>1, <1>2, <1>3 DEF Source, Change, Observe, Read, Remove, Forget, busVars

LEMMA FeedClose ==
    ASSUME NEW k \in Watchers, OthersStay(k), UNCHANGED <<log, id, heard>>, Place(k)' = -1
    PROVE  Feed!Close(k) \/ UNCHANGED Feed!feedVars
<1>1. Pos' = [Pos EXCEPT ![k] = -1] /\ Pos[k] = Place(k)
  BY PlaceMoves
<1>2. CASE Place(k) = -1
  <2>1. Pos' = Pos
    BY <1>1, <1>2 DEF Pos
  <2> QED
    BY <2>1 DEF Feed!feedVars, Pos
<1>3. CASE Place(k) # -1
  BY <1>1, <1>3 DEF Feed!Close, Feed!Off, Pos
<1> QED
  BY <1>2, <1>3

LEMMA FeedOpen ==
    ASSUME NEW k \in Watchers, OthersStay(k), UNCHANGED <<log, id>>, heard' = [heard EXCEPT ![k] = 0],
           Place(k) = -1, Place(k)' \in Feed!Kept..Len(log)
    PROVE  Feed!Open(k)
<1>1. Pos' = [Pos EXCEPT ![k] = Place(k)'] /\ Pos[k] = Place(k)
  BY PlaceMoves
<1> QED
  BY <1>1 DEF Feed!Open, Feed!Off, Pos

\* A stream goes on from where it is, or from the oldest that is kept.
LEMMA FeedSince ==
    ASSUME EventInv, NEW k \in Watchers, Since(k), StreamKeeps, OthersStay(k)
    PROVE  Feed!Advance(k)
<1>0. TypeOK /\ RingInv /\ StreamInv /\ next[k] \in Nat
  BY DEF EventInv, TypeOK, StreamTypes
<1>1. /\ at[k] = "stream" /\ at' = at /\ out[k] = {} /\ next'[k] = seq /\ next[k] <= seq
      /\ UNCHANGED heard
      /\ \A e \in out'[k] :
           e.seq \in 1..seq /\ next[k] < e.seq /\ seq - Len(events) < e.seq /\ e = log[e.seq] /\ Wants(k, e)
      /\ \A n \in (next[k] + 1)..seq :
           seq - Len(events) < n /\ Wants(k, log[n]) => log[n] \in out'[k]
  BY <1>0, SinceDoes
<1>2. UNCHANGED <<log, id>>
  BY DEF StreamKeeps
<1>3. Feed!Kept \in 0..seq /\ Len(log) = seq /\ seq \in Nat /\ seq - Len(events) = Feed!Kept
  BY <1>0, KeptIs
<1>4. Pos' = [Pos EXCEPT ![k] = Place(k)'] /\ Pos[k] = Place(k) /\ Place(k) = next[k]
  BY <1>1, PlaceMoves DEF Place
<1>5. PICK a \in {next[k]} \cup (IF next[k] < Feed!Kept THEN {Feed!Kept} ELSE {}) :
        next[k] <= a /\ Feed!Kept <= a /\ a \in Nat /\ a <= seq
  BY <1>0, <1>1, <1>3
<1>6. PICK b : b = Place(k)'
  OBVIOUS
<1>7. b \in a..seq /\ \A n \in (a + 1)..b : ~Wants(k, log[n])
  <2>0. \A n \in (a + 1)..seq : Wants(k, log[n]) => log[n] \in out'[k] /\ log[n].seq = n
    <3> SUFFICES ASSUME NEW n \in (a + 1)..seq, Wants(k, log[n]) PROVE log[n] \in out'[k] /\ log[n].seq = n
      OBVIOUS
    <3>1. n \in (next[k] + 1)..seq /\ Feed!Kept < n /\ n \in 1..seq
      BY <1>0, <1>3, <1>5
    <3> QED
      BY <1>0, <1>1, <1>3, <3>1 DEF RingInv
  <2>1. CASE out'[k] = {}
    <3>1. b = seq
      BY <1>1, <1>6, <2>1 DEF Place
    <3> QED
      <4>1. \A n \in (a + 1)..seq : ~Wants(k, log[n])
        BY <2>0, <2>1
      <4> QED
        BY <1>3, <1>5, <3>1, <4>1
  <2>2. CASE out'[k] # {}
    <3>1. out'[k] \in SUBSET Event
      BY StreamTypeStep DEF Stream, StreamKeeps, EventInv, StreamTypes
    <3>2. PICK e : e = First(out'[k])
      OBVIOUS
    <3>3. e \in out'[k] /\ \A f \in out'[k] : e.seq <= f.seq
      BY <2>2, <3>1, <3>2, FirstOf
    <3>4. PICK x : x = e.seq
      OBVIOUS
    <3>5. x \in 1..seq /\ next[k] < x /\ Feed!Kept < x
      BY <1>1, <1>3, <3>3, <3>4
    <3>6. b = x - 1
      BY <1>1, <1>6, <2>2, <3>2, <3>4 DEF Place
    <3>7. a < x
      BY <1>5, <3>5
    <3>8. b \in a..seq
      BY <1>3, <1>5, <3>5, <3>6, <3>7
    <3>9. ASSUME NEW n \in (a + 1)..b, Wants(k, log[n]) PROVE FALSE
      <4>1. n \in (a + 1)..seq /\ n < x
        BY <1>3, <1>5, <3>5, <3>6
      <4>2. x <= n
        BY <2>0, <3>3, <3>4, <3>9, <4>1
      <4> QED
        BY <3>5, <4>1, <4>2
    <3> QED
      BY <3>8, <3>9
  <2> QED
    BY <2>1, <2>2
<1>8. Feed!PassesOver(k, a, b)
  BY <1>7 DEF Feed!PassesOver, Feed!Wants, Wants
<1>9. /\ Pos[k] # -1 /\ b \in a..Len(log) /\ Pos' = [Pos EXCEPT ![k] = b]
      /\ a \in {Pos[k]} \cup (IF Pos[k] < Feed!Kept THEN {Feed!Kept} ELSE {})
  <2>1. next[k] # -1
    BY <1>0
  <2> QED
    BY <1>3, <1>4, <1>5, <1>6, <1>7, <2>1
<1> QED
  BY <1>1, <1>2, <1>8, <1>9 DEF Feed!Advance, Feed!Off, Pos

\* What is sent is the first event behind the place of the stream.
LEMMA FeedSend ==
    ASSUME EventInv, NEW k \in Watchers, Send(k), StreamKeeps, OthersStay(k)
    PROVE  Feed!Deliver(k) \/ Feed!DeliverLast(k)
<1>0. /\ TypeOK /\ RingInv /\ StreamInv /\ next[k] \in Nat /\ k \in DOMAIN at /\ k \in DOMAIN out
      /\ out[k] \in SUBSET Event
  BY DEF EventInv, TypeOK, StreamTypes
<1>a. at[k] = "stream" /\ out[k] # {}
  BY DEF Send
<1>p. PICK e, x : e = First(out[k]) /\ x = e.seq
  OBVIOUS
<1>1. /\ e \in out[k] /\ e.seq \in 1..next[k] /\ next[k] <= seq /\ e = log[e.seq]
      /\ Wants(k, e)
      /\ \A f \in out[k] : e.seq <= f.seq /\ f.seq \in 1..next[k] /\ f = log[f.seq]
      /\ \A n \in (e.seq + 1)..next[k] : Wants(k, log[n]) => log[n] \in out[k] \ {e}
  BY <1>0, <1>a, <1>p, SendDoes
<1>x. x \in 1..next[k] /\ log[x] = e /\ next[k] <= seq
  BY <1>1, <1>p
<1>2. UNCHANGED <<log, id, next>>
  BY DEF Send, StreamKeeps
<1>3. Len(log) = seq /\ seq \in Nat
  BY <1>0, KeptIs
<1>4. \/ at'[k] = "returned" /\ out'[k] = {}
      \/ at'[k] = "stream" /\ out'[k] = out[k] \ {e}
  BY <1>0, <1>a, <1>p DEF Send
<1>5. heard' = [heard EXCEPT ![k] = x]
  BY <1>p DEF Send
<1>6. Pos' = [Pos EXCEPT ![k] = Place(k)'] /\ Pos[k] = Place(k) /\ Place(k) = x - 1
  BY <1>a, <1>p, PlaceMoves DEF Place
<1>7. /\ Pos[k] # -1 /\ Pos[k] < Len(log) /\ Pos[k] + 1 = x
      /\ Feed!Wants(k, log[Pos[k] + 1]) /\ log[Pos[k] + 1].seq = x
  <2>1. Pos[k] # -1 /\ Pos[k] < Len(log) /\ Pos[k] + 1 = x
    BY <1>0, <1>3, <1>6, <1>x
  <2> QED
    BY <1>1, <1>p, <1>x, <2>1 DEF Feed!Wants, Wants
<1>8. CASE at'[k] = "returned" /\ out'[k] = {}
  <2>1. Place(k)' = -1
    BY <1>8 DEF Place
  <2> QED
    BY <1>2, <1>5, <1>6, <1>7, <2>1 DEF Feed!DeliverLast, Feed!Off, Pos
<1>9. CASE at'[k] = "stream" /\ out'[k] = out[k] \ {e}
  <2>1. PICK b : b = Place(k)'
    OBVIOUS
  <2>0. \A n \in (x + 1)..next[k] : Wants(k, log[n]) => log[n] \in out'[k] /\ log[n].seq = n
    <3> SUFFICES ASSUME NEW n \in (x + 1)..next[k], Wants(k, log[n]) PROVE log[n] \in out'[k] /\ log[n].seq = n
      OBVIOUS
    <3>1. n \in 1..seq
      BY <1>0, <1>3, <1>x
    <3> QED
      BY <1>0, <1>1, <1>p, <1>9, <3>1 DEF RingInv
  <2>2. b \in x..seq /\ \A n \in (x + 1)..b : ~Wants(k, log[n])
    <3>1. CASE out'[k] = {}
      <4>1. b = next[k]
        BY <1>2, <1>9, <2>1, <3>1 DEF Place
      <4> QED
        BY <1>0, <1>3, <1>x, <2>0, <3>1, <4>1
    <3>2. CASE out'[k] # {}
      <4>1. PICK g, y : g = First(out'[k]) /\ y = g.seq
        OBVIOUS
      <4>2. g \in out'[k] /\ \A f \in out'[k] : g.seq <= f.seq
        BY <1>0, <1>9, <3>2, <4>1, FirstOf
      <4>3. y \in 1..next[k] /\ x <= y /\ log[y] = g
        BY <1>1, <1>p, <1>9, <4>1, <4>2
      <4>4. x # y
        BY <1>9, <1>x, <4>2, <4>3
      <4>5. b = y - 1
        BY <1>9, <2>1, <3>2, <4>1 DEF Place
      <4>6. b \in x..seq /\ b < next[k]
        BY <1>0, <1>3, <1>x, <4>3, <4>4, <4>5
      <4>7. ASSUME NEW n \in (x + 1)..b, Wants(k, log[n]) PROVE FALSE
        <5>1. n \in (x + 1)..next[k] /\ n < y /\ y \in Nat
          BY <1>0, <1>x, <4>3, <4>5, <4>6
        <5>2. y <= n
          BY <2>0, <4>1, <4>2, <4>7, <5>1
        <5> QED
          BY <5>1, <5>2
      <4> QED
        BY <4>6, <4>7
    <3> QED
      BY <3>1, <3>2
  <2>3. Feed!PassesOver(k, x, b)
    BY <2>2 DEF Feed!PassesOver, Feed!Wants, Wants
  <2> QED
    BY <1>2, <1>3, <1>5, <1>6, <1>7, <2>1, <2>2, <2>3 DEF Feed!Deliver, Feed!Off, Pos
<1> QED
  BY <1>4, <1>8, <1>9

LEMMA FeedStream ==
    ASSUME EventInv, NEW k \in Watchers, Stream(k) \/ Cut(k)
    PROVE  Feed!Next \/ UNCHANGED Feed!feedVars
<1>0. TypeOK /\ RingInv /\ StreamInv /\ OthersStay(k) /\ UNCHANGED <<log, id>>
  BY StreamTypeStep DEF EventInv, Stream, Cut
<1>1. /\ at \in [Watchers -> {"off", "window", "head", "status", "stream", "returned", "failed"}]
      /\ next \in [Watchers -> Nat] /\ StreamOf(k)
  BY <1>0 DEF TypeOK, StreamTypes, StreamInv
<1>2. Feed!Kept \in 0..Len(log) /\ Len(log) = seq /\ seq \in Nat /\ seq - Len(events) = Feed!Kept
  BY <1>0, KeptIs
<1> USE DEF Goto
<1>3. CASE Open(k) /\ StreamKeeps
  <2>1. Place(k)' = -1 /\ UNCHANGED heard
    BY <1>1, <1>3 DEF Open, Place
  <2> QED
    BY <1>0, <2>1, FeedClose DEF Feed!Next
<1>4. CASE Window(k) /\ StreamKeeps
  <2>0. at[k] = "window" /\ out[k] = {} /\ Place(k) = -1 /\ UNCHANGED <<next, out>>
    BY <1>1, <1>4 DEF Window, StreamOf, Place
  <2>1. CASE Refused(next[k]) \/ next[k] = 0
    <3>1. Place(k)' = -1 /\ UNCHANGED heard
      BY <1>1, <1>4, <2>1 DEF Window, Place
    <3> QED
      BY <1>0, <3>1, FeedClose DEF Feed!Next
  <2>2. CASE ~Refused(next[k]) /\ next[k] # 0
    <3>1. at'[k] = "stream" /\ heard' = [heard EXCEPT ![k] = 0]
      BY <1>1, <1>4, <2>2 DEF Window
    <3>2. Place(k)' = next[k]
      BY <2>0, <3>1 DEF Place
    <3>3. Oldest = Feed!Kept + 1
      <4>1. CASE events = <<>>
        BY <1>2, <4>1 DEF Oldest
      <4>2. CASE events # <<>>
        <5>1. Len(events) \in Nat /\ Len(events) # 0
          BY <1>0, <4>2 DEF TypeOK, BusTypes
        <5>2. 1 \in 1..Len(events) /\ seq - Len(events) + 1 = Feed!Kept + 1 /\ Feed!Kept + 1 \in 1..seq
          BY <1>2, <5>1
        <5>3. events[1] = log[Feed!Kept + 1]
          BY <1>0, <5>2 DEF RingInv
        <5> QED
          BY <1>0, <4>2, <5>2, <5>3 DEF Oldest, RingInv
      <4> QED
        BY <4>1, <4>2
    <3>4. next[k] <= seq /\ Feed!Kept <= next[k] /\ next[k] \in Nat
      BY <1>1, <1>2, <2>2, <3>3 DEF Refused
    <3>5. Place(k)' \in Feed!Kept..Len(log)
      BY <1>2, <3>2, <3>4
    <3>6. Feed!Open(k)
      BY <1>0, <2>0, <3>1, <3>5, FeedOpen
    <3> QED
      BY <3>6 DEF Feed!Next
  <2> QED
    BY <2>1, <2>2
<1>5. CASE Newest(k) /\ StreamKeeps
  <2>1. /\ Place(k) = -1 /\ at'[k] = "status" /\ next'[k] = seq /\ out'[k] = {}
        /\ heard' = [heard EXCEPT ![k] = 0]
    BY <1>1, <1>5 DEF Newest, StreamOf, Place
  <2>2. Place(k)' = seq
    BY <2>1 DEF Place
  <2>3. Place(k)' \in Feed!Kept..Len(log)
    BY <1>2, <2>2
  <2>4. Feed!Open(k)
    BY <1>0, <2>1, <2>3, FeedOpen
  <2> QED
    BY <2>4 DEF Feed!Next
<1>6. ASSUME NEW w \in Workspaces, FirstStatus(k, w), StreamKeeps
      PROVE  Feed!Next \/ UNCHANGED Feed!feedVars
  <2>1. UNCHANGED <<next, out, heard>> /\ at[k] = "status"
    BY <1>6 DEF FirstStatus
  <2>2. CASE at'[k] \in {"status", "stream"}
    <3>1. Place(k)' = Place(k)
      BY <2>1, <2>2 DEF Place
    <3>2. Pos' = Pos
      BY <1>0, <3>1, PlaceMoves DEF Pos
    <3> QED
      BY <1>0, <2>1, <3>2 DEF Feed!feedVars, Pos
  <2>3. CASE at'[k] \notin {"status", "stream"}
    <3>1. Place(k)' = -1
      BY <2>3 DEF Place
    <3> QED
      BY <1>0, <2>1, <3>1, FeedClose DEF Feed!Next
  <2> QED
    BY <2>2, <2>3
<1>7. CASE Since(k) /\ StreamKeeps
  BY <1>0, <1>7, FeedSince DEF Feed!Next
<1>8. CASE Send(k) /\ StreamKeeps
  BY <1>0, <1>8, FeedSend DEF Feed!Next
<1>9. CASE Cut(k)
  <2>1. Place(k)' = -1 /\ UNCHANGED heard
    BY <1>1, <1>9 DEF Cut, Place
  <2> QED
    BY <1>0, <2>1, FeedClose DEF Feed!Next
<1> QED
  BY <1>3, <1>4, <1>5, <1>6, <1>7, <1>8, <1>9 DEF Stream, StreamKeeps

\* The streams go through one log in order and leave out nothing that they want,
\* but what is no longer kept when they come to it (publishLocked, since, Watch).
THEOREM ImplementsFeed == Spec => FeedSpec
<1>1. EventInv /\ [Next]_vars => [Feed!Next]_Feed!feedVars
  <2> SUFFICES ASSUME EventInv, [Next]_vars PROVE Feed!Next \/ UNCHANGED Feed!feedVars
    OBVIOUS
  <2>1. CASE UNCHANGED vars
    BY <2>1 DEF vars, busVars, streamVars, Feed!feedVars, Place
  <2>2. CASE Source
    BY <2>2, FeedSource DEF Feed!Next
  <2>3. CASE Restart
    BY <2>3 DEF Restart, Place, Feed!Next, Feed!Restart, Feed!Off
  <2> QED
    BY <2>1, <2>2, <2>3, FeedStream DEF Next, Quiet
<1> QED
  BY <1>1, FeedInit, EventHolds, PTL DEF Spec, FeedSpec, Feed!Spec

(***************************************************************************)
(* The activity: the inductive invariant                                   *)
(***************************************************************************)

\* What a state of the workspace says of its VM, and what there is to hear of it.
RunInv ==
    /\ run.here <=> st # "stopped"
    /\ act.kept <=> st # "stopped"
    /\ \A n \in booted : n <= run.no
    /\ st = "stopped" => vm.session = "none"
    /\ st = "starting" => run.no \notin booted /\ vm.session \in {"none", "unlaunched"}
    /\ st \in {"running", "gate", "done"} =>
         run.no \in booted /\ vm.session \in {"alive", "ended", "failed", "destroyed"}
    /\ st \in {"starting", "stopped"} => stream = <<>> /\ hooks = <<>> /\ guest = Silent
    /\ ending => st \in {"running", "gate"}
    /\ ending \/ st = "done" => vm.session # "alive"
    /\ vm.session = "destroyed" => ending \/ st = "done"
    /\ vm.session # "none" /\ st # "done" => watch \/ "broken" \in fault
    /\ vm.strained => vm.everStrained
    /\ vm.session = "none" => ~vm.everStrained

\* What is said of a VM in the stream and in the hooks is so.
MessagesInv ==
    /\ \A i \in DOMAIN stream : /\ stream[i].kind = "failed" => vm.session = "failed"
                                /\ stream[i].kind = "stopped" => ending \/ st = "done"
    /\ \A i \in DOMAIN hooks : hooks[i] = "end" => vm.session = "ended"

\* What the patrol found of this run is so, and a minute with an answer of it finds the end of a session.
PatrolInv ==
    /\ patrol.no <= run.no
    /\ patrol.at # "idle" => patrol.no \in booted
    /\ patrol.no = run.no /\ st # "stopped" =>
         /\ patrol.at = "dead" => vm.session = "ended"
         /\ patrol.load => vm.everStrained
    /\ gone >= 1 =>
         /\ vm.session \in {"ended", "failed"}
         /\ patrol.at = "idle" \/ (patrol.no = run.no /\ patrol.at \in {"alive", "dead"})
         /\ patrolled => act.dead
    /\ gone = 2 => act.dead

\* A record is dead, or warns, only of the VM of the run.
DeadInv ==
    /\ act.dead =>
         \/ fault \cap {"old", "finishing"} # {}
         \/ vm.session \in {"ended", "failed"} \/ (st = "gate" /\ ending) \/ st = "done"
    /\ vm.session = "failed" =>
         act.dead \/ "broken" \in fault \/ \E i \in DOMAIN stream : stream[i].kind = "failed"
    /\ act.warn => vm.everStrained \/ "old" \in fault

\* The session has been quiet since the record says so, unless there is something to hear of it.
QuietInv ==
    \/ "broken" \in fault \/ st = "done"
    \/ act.last <= guest.quiet
    \/ \E i \in DOMAIN stream : stream[i].kind \in {"started", "finished"}
    \/ \E i \in DOMAIN hooks : hooks[i] \in {"tool", "turn"}

\* The hook of a wait has been heard or will be, and nothing after it takes it back.
Told(w, h) ==
    \/ w /\ \A i \in DOMAIN h : h[i] # "tool"
    \/ \E i \in DOMAIN h : h[i] \in {"idle", "question"} /\ \A j \in DOMAIN h : j > i => h[j] # "tool"

\* No request is in flight that is younger than the wait, and after two minutes and a patrol none is.
Rests ==
    /\ guest.idleFor >= 1 =>
         /\ \A i \in DOMAIN stream : stream[i].kind # "started"
         /\ \A r \in Reqs : act.inflight[r] = -1 \/ act.inflight[r] >= guest.idleFor
    /\ guest.idleFor >= 3 \/ (guest.idleFor = 2 /\ patrolled) => \A r \in Reqs : act.inflight[r] = -1

WaitInv ==
    /\ guest.idle => guest.open = {}
    /\ ~guest.idle => guest.idleFor = 0
    /\ fault \cap {"crossed", "old"} = {} /\ Up /\ guest.idle => (guest.told => Told(act.wait, hooks)) /\ Rests

\* What is shown is what the record says, but for its age.
ShownInv == shown = Kind(st, act) \/ (shown = "working" /\ Kind(st, act) = "stalled")

ActivityInv ==
    ActivityTypeOK /\ RunInv /\ MessagesInv /\ PatrolInv /\ DeadInv /\ QuietInv /\ WaitInv /\ ShownInv

(***************************************************************************)
(* What is heard, and what is written of it                                *)
(***************************************************************************)

LEMMA EventIs ==
    ASSUME NEW ev \in Events
    PROVE  /\ ev.kind \in {"started", "finished", "stopped", "failed"} /\ "hook" \notin DOMAIN ev
           /\ ev.kind \in {"started", "finished"} => ev.req \in Reqs /\ ev.ok \in BOOLEAN
<1>1. CASE ev \in [kind : {"started", "finished"}, req : Reqs, ok : BOOLEAN]
  BY <1>1
<1>2. CASE ev = [kind |-> "stopped"] \/ ev = [kind |-> "failed"]
  BY <1>2
<1> QED
  BY <1>1, <1>2 DEF Events

LEMMA AppendIs ==
    ASSUME NEW S, NEW s \in Seq(S), NEW e \in S
    PROVE  /\ Append(s, e) \in Seq(S) /\ Len(Append(s, e)) = Len(s) + 1 /\ Len(s) \in Nat
           /\ Append(s, e) # <<>>
           /\ DOMAIN s = 1..Len(s) /\ DOMAIN Append(s, e) = 1..(Len(s) + 1)
           /\ Append(s, e)[Len(s) + 1] = e /\ \A i \in DOMAIN s : Append(s, e)[i] = s[i]
  BY AppendProperties, LenProperties

LEMMA TailIs ==
    ASSUME NEW S, NEW s \in Seq(S), s # <<>>
    PROVE  /\ Head(s) = s[1] /\ s[1] \in S /\ 1 \in DOMAIN s
           /\ Tail(s) \in Seq(S) /\ Len(Tail(s)) = Len(s) - 1 /\ Len(s) \in Nat
           /\ DOMAIN s = 1..Len(s) /\ DOMAIN Tail(s) = 1..(Len(s) - 1)
           /\ \A i \in DOMAIN Tail(s) : i + 1 \in DOMAIN s /\ Tail(s)[i] = s[i + 1]
           /\ \A i \in DOMAIN s : i = 1 \/ (i - 1 \in DOMAIN Tail(s) /\ Tail(s)[i - 1] = s[i])
<1>1. Len(s) \in Nat /\ Len(s) # 0 /\ DOMAIN s = 1..Len(s) /\ Head(s) = s[1] /\ s[1] \in S
  BY EmptySeq, LenProperties, HeadTailProperties
<1>2. Tail(s) \in Seq(S) /\ Len(Tail(s)) = Len(s) - 1 /\ \A i \in 1..Len(Tail(s)) : Tail(s)[i] = s[i + 1]
  BY HeadTailProperties
<1>3. DOMAIN Tail(s) = 1..(Len(s) - 1)
  BY <1>2, LenProperties
<1> QED
  BY <1>1, <1>2, <1>3

LEMMA DropIs ==
    ASSUME NEW a \in Accounts, NEW age \in Nat
    PROVE  /\ Drop(a, age) \in Accounts
           /\ Drop(a, age).last = a.last /\ Drop(a, age).wait = a.wait /\ Drop(a, age).dead = a.dead
           /\ Drop(a, age).auth = a.auth /\ Drop(a, age).warn = a.warn /\ Drop(a, age).kept = a.kept
           /\ \A r \in Reqs : Drop(a, age).inflight[r] = IF a.inflight[r] >= age THEN -1 ELSE a.inflight[r]
  BY DEF Drop, Accounts

\* What Show writes and shows.
LEMMA ShowIs ==
    ASSUME NEW s, NEW b \in Accounts, Show(s, b)
    PROVE  /\ act' \in Accounts /\ shown' = Kind(s, act')
           /\ act'.last = b.last /\ act'.wait = b.wait /\ act'.dead = b.dead
           /\ act'.auth = b.auth /\ act'.warn = b.warn /\ act'.kept = b.kept
           /\ \A r \in Reqs : act'.inflight[r] = IF b.inflight[r] >= 2 THEN -1 ELSE b.inflight[r]
  BY DropIs DEF Show, DropInflightBefore, InflightStale

LEMMA KindIs ==
    ASSUME NEW s \in {"starting", "running", "gate", "stopped", "done"}, NEW a \in Accounts
    PROVE  /\ Kind(s, a) \in Kinds
           /\ s = "gate" => Kind(s, a) = "waiting_gate"
           /\ s \in {"starting", "stopped", "done"} => Kind(s, a) = "idle"
           /\ s = "running" /\ a.kept =>
                Kind(s, a) = IF a.dead THEN "dead"
                             ELSE IF a.auth THEN "auth_rejected"
                             ELSE IF \E r \in Reqs : a.inflight[r] >= 0 THEN "working"
                             ELSE IF a.wait THEN "waiting_input"
                             ELSE IF a.last >= 3 THEN "stalled"
                             ELSE "working"
           /\ Kind(s, a) \in {"dead", "stalled"} => s = "running" /\ a.kept
<1>1. Inflight(a) # {} <=> \E r \in Reqs : a.inflight[r] >= 0
  BY DEF Inflight
<1>2. s = "gate" => Kind(s, a) = "waiting_gate"
  BY DEF Kind
<1>3. s \in {"starting", "stopped", "done"} \/ (s = "running" /\ ~a.kept) => Kind(s, a) = "idle"
  BY DEF Kind
<1>4. s = "running" /\ a.kept =>
        Kind(s, a) = IF a.dead THEN "dead"
                     ELSE IF a.auth THEN "auth_rejected"
                     ELSE IF Inflight(a) # {} THEN "working"
                     ELSE IF a.wait THEN "waiting_input"
                     ELSE IF a.last >= 3 THEN "stalled"
                     ELSE "working"
  BY DEF Kind, StallAfter
<1>5. Kind(s, a) \in Kinds
  BY <1>2, <1>3, <1>4 DEF Kinds
<1> QED
  BY <1>1, <1>2, <1>3, <1>4, <1>5

LEMMA TouchIs ==
    ASSUME NEW a \in Accounts
    PROVE  /\ Touch(a) \in Accounts /\ Touch(a).last = 0 /\ Touch(a).wait = FALSE /\ Touch(a).dead = a.dead
           /\ Touch(a).auth = a.auth /\ Touch(a).warn = a.warn /\ Touch(a).kept = a.kept
           /\ Touch(a).inflight = a.inflight
<1>1. 0 \in Ages
  BY DEF Ages, StallAfter
<1>2. Touch(a) \in Accounts
  BY <1>1 DEF Touch, Accounts
<1> QED
  BY <1>2 DEF Touch, Accounts

LEMMA HeardIs ==
    ASSUME NEW a \in Accounts, NEW ev \in Events, NEW b, b = Heard(a, ev)
    PROVE  /\ b \in Accounts /\ b.kept = a.kept /\ b.warn = a.warn
           /\ ev.kind \in {"started", "finished"} => b.last = 0 /\ b.dead = a.dead
           /\ ev.kind \in {"stopped", "failed"} => b.last = a.last /\ b.dead /\ b.wait = a.wait
           /\ ev.kind # "started" => \A r \in Reqs : b.inflight[r] \in {a.inflight[r], -1}
<1>1. /\ ev.kind \in {"started", "finished", "stopped", "failed"}
      /\ ev.kind \in {"started", "finished"} => ev.req \in Reqs /\ ev.ok \in BOOLEAN
  BY EventIs
<1>2. CASE ev.kind = "started"
  <2>1. b = Touch([a EXCEPT !.inflight[ev.req] = 0])
    BY <1>2 DEF Heard
  <2>2. /\ [a EXCEPT !.inflight[ev.req] = 0] \in Accounts /\ [a EXCEPT !.inflight[ev.req] = 0].kept = a.kept
        /\ [a EXCEPT !.inflight[ev.req] = 0].dead = a.dead /\ [a EXCEPT !.inflight[ev.req] = 0].warn = a.warn
    BY <1>1, <1>2 DEF Accounts, Ages, StallAfter
  <2> QED
    BY <1>2, <2>1, <2>2, TouchIs
<1>3. CASE ev.kind = "finished"
  <2> DEFINE c == [a EXCEPT !.inflight[ev.req] = -1,
                            !.auth = IF a.inflight[ev.req] = -1 THEN @ ELSE ~ev.ok]
  <2>1. b = Touch(c)
    BY <1>3 DEF Heard, Finished
  <2>2. /\ c \in Accounts /\ c.kept = a.kept /\ c.dead = a.dead /\ c.warn = a.warn
        /\ c.inflight = [a.inflight EXCEPT ![ev.req] = -1]
    <3>1. PICK auth : auth = (IF a.inflight[ev.req] = -1 THEN a.auth ELSE ~ev.ok)
      OBVIOUS
    <3>2. auth \in BOOLEAN
      BY <1>1, <1>3, <3>1 DEF Accounts
    <3>3. c = [a EXCEPT !.inflight[ev.req] = -1, !.auth = auth]
      BY <3>1
    <3> HIDE DEF c
    <3> QED
      BY <1>1, <1>3, <3>2, <3>3 DEF Accounts
  <2> HIDE DEF c
  <2>3. \A r \in Reqs : c.inflight[r] \in {a.inflight[r], -1}
    BY <2>2 DEF Accounts
  <2> QED
    BY <1>3, <2>1, <2>2, <2>3, TouchIs
<1>4. CASE ev.kind \in {"stopped", "failed"}
  <2>1. b = [a EXCEPT !.dead = TRUE]
    BY <1>4 DEF Heard
  <2> QED
    BY <1>4, <2>1 DEF Accounts
<1> QED
  BY <1>1, <1>2, <1>3, <1>4

LEMMA HookedIs ==
    ASSUME NEW a \in Accounts, NEW hook \in HookKinds, NEW b, b = Hooked(a, hook)
    PROVE  /\ b \in Accounts /\ b.kept = a.kept /\ b.warn = a.warn
           /\ hook \in {"tool", "turn"} => b.last = 0
           /\ hook \notin {"tool", "turn"} => b.last = a.last
           /\ hook \in {"idle", "question"} => b.wait
           /\ hook \in {"turn", "end"} => b.wait = a.wait
           /\ hook = "end" => b.dead
           /\ hook # "end" => b.dead = a.dead
           /\ \A r \in Reqs : b.inflight[r] \in {a.inflight[r], -1}
<1>1. CASE hook = "tool"
  <2>1. b = Touch(a)
    BY <1>1 DEF Hooked
  <2> QED
    BY <1>1, <2>1, TouchIs
<1>2. CASE hook = "turn"
  <2>1. b = [a EXCEPT !.last = 0]
    BY <1>2 DEF Hooked
  <2> QED
    BY <1>2, <2>1 DEF Accounts, Ages, StallAfter
<1>3. CASE hook = "idle"
  <2> DEFINE c == [a EXCEPT !.wait = TRUE]
  <2>1. b = Drop(c, 1)
    BY <1>3 DEF Hooked, DropInflightBefore, IdlePromptAfter
  <2>2. /\ c \in Accounts /\ c.wait = TRUE /\ c.last = a.last /\ c.dead = a.dead /\ c.warn = a.warn
        /\ c.kept = a.kept /\ c.inflight = a.inflight
    BY DEF Accounts
  <2> HIDE DEF c
  <2> QED
    BY <1>3, <2>1, <2>2, DropIs
<1>4. CASE hook = "question"
  <2>1. b = [a EXCEPT !.wait = TRUE]
    BY <1>4 DEF Hooked
  <2> QED
    BY <1>4, <2>1 DEF Accounts
<1>5. CASE hook = "end"
  <2>1. b = [a EXCEPT !.dead = TRUE]
    BY <1>5 DEF Hooked
  <2> QED
    BY <1>5, <2>1 DEF Accounts
<1> QED
  BY <1>1, <1>2, <1>3, <1>4, <1>5 DEF HookKinds

LEMMA FoundIs ==
    ASSUME NEW a \in Accounts, patrol.load \in BOOLEAN, NEW b, b = Found(a)
    PROVE  /\ b \in Accounts /\ b.kept = a.kept /\ b.last = a.last /\ b.wait = a.wait /\ b.inflight = a.inflight
           /\ patrol.at = "dead" => b.dead /\ b.warn = a.warn
           /\ patrol.at = "load" => b.warn = patrol.load /\ b.dead = a.dead
           /\ patrol.at \notin {"dead", "load"} => b = a
<1>1. CASE patrol.at = "dead"
  <2>1. b = [a EXCEPT !.dead = TRUE]
    BY <1>1 DEF Found
  <2> QED
    BY <1>1, <2>1 DEF Accounts
<1>2. CASE patrol.at = "load"
  <2>1. b = [a EXCEPT !.warn = patrol.load]
    BY <1>2 DEF Found
  <2> QED
    BY <1>2, <2>1 DEF Accounts
<1>3. CASE patrol.at \notin {"dead", "load"}
  <2>1. b = a
    BY <1>3 DEF Found
  <2> QED
    BY <1>3, <2>1
<1> QED
  BY <1>1, <1>2, <1>3

(***************************************************************************)
(* The steps of the session in the VM                                      *)
(***************************************************************************)

\* What a step that leaves alone what a part of the invariant is about leaves alone.
LEMMA RestIsLeft ==
    ASSUME ActivityInv, fault \subseteq fault'
    PROVE  /\ UNCHANGED <<run, st, booted, vm, ending, watch, stream, hooks, guest>> /\ act'.kept = act.kept => RunInv'
           /\ UNCHANGED <<stream, hooks, vm, ending, st>> => MessagesInv'
           /\ UNCHANGED <<patrol, run, booted, st, vm, gone, patrolled>> /\ (act.dead => act'.dead) => PatrolInv'
           /\ UNCHANGED <<vm, st, ending, stream>> /\ act'.dead = act.dead /\ act'.warn = act.warn => DeadInv'
           /\ UNCHANGED <<st, stream, hooks>> /\ act'.last = act.last /\ guest'.quiet = guest.quiet => QuietInv'
           /\ UNCHANGED <<guest, vm, hooks, stream, patrolled>> /\ act'.wait = act.wait
              /\ (\A r \in Reqs : act'.inflight[r] \in {act.inflight[r], -1}) => WaitInv'
           /\ UNCHANGED <<shown, st, act>> => ShownInv'
<1>1. UNCHANGED <<run, st, booted, vm, ending, watch, stream, hooks, guest>> /\ act'.kept = act.kept => RunInv'
  BY DEF ActivityInv, RunInv
<1>2. UNCHANGED <<stream, hooks, vm, ending, st>> => MessagesInv'
  BY DEF ActivityInv, MessagesInv
<1>3. UNCHANGED <<patrol, run, booted, st, vm, gone, patrolled>> /\ (act.dead => act'.dead) => PatrolInv'
  BY DEF ActivityInv, PatrolInv
<1>4. UNCHANGED <<vm, st, ending, stream>> /\ act'.dead = act.dead /\ act'.warn = act.warn => DeadInv'
  BY DEF ActivityInv, DeadInv
<1>5. UNCHANGED <<st, stream, hooks>> /\ act'.last = act.last /\ guest'.quiet = guest.quiet => QuietInv'
  BY DEF ActivityInv, QuietInv
<1>6. UNCHANGED <<guest, vm, hooks, stream, patrolled>> /\ act'.wait = act.wait
        /\ (\A r \in Reqs : act'.inflight[r] \in {act.inflight[r], -1}) => WaitInv'
  <2> SUFFICES ASSUME UNCHANGED <<guest, vm, hooks, stream, patrolled>>, act'.wait = act.wait,
                      \A r \in Reqs : act'.inflight[r] \in {act.inflight[r], -1}
               PROVE  WaitInv'
    OBVIOUS
  <2>1. Rests => Rests'
    BY DEF Rests
  <2> QED
    BY <2>1 DEF ActivityInv, WaitInv, Told, Up
<1>7. UNCHANGED <<shown, st, act>> => ShownInv'
  BY DEF ActivityInv, ShownInv
<1> QED
  BY <1>1, <1>2, <1>3, <1>4, <1>5, <1>6, <1>7

\* A session that runs is that of a run that goes on, and the stream of its events is read.
LEMMA UpIs ==
    ASSUME ActivityInv, Up
    PROVE  /\ st \in {"running", "gate"} /\ vm.session = "alive" /\ ~ending /\ (watch \/ "broken" \in fault)
           /\ gone = 0 /\ (act.dead => fault \cap {"old", "finishing"} # {})
<1>1. /\ st \in {"running", "gate"} /\ vm.session = "alive" /\ ~ending /\ (watch \/ "broken" \in fault)
  BY DEF ActivityInv, ActivityTypeOK, RunInv, Up
<1>2. gone = 0
  BY <1>1 DEF ActivityInv, ActivityTypeOK, PatrolInv
<1>3. act.dead => fault \cap {"old", "finishing"} # {}
  BY <1>1 DEF ActivityInv, DeadInv
<1> QED
  BY <1>1, <1>2, <1>3

\* An event that the sandbox service has seen is in the stream, unless nothing reads it.
LEMMA SeesIs ==
    ASSUME ActivityInv, NEW ev \in Events, Sees(ev)
    PROVE  /\ stream' \in Seq(Events) /\ Len(stream') <= MaxFlight + 1
           /\ \A i \in DOMAIN stream : i \in DOMAIN stream' /\ stream'[i] = stream[i]
           /\ \A i \in DOMAIN stream' : stream'[i] = ev \/ (i \in DOMAIN stream /\ stream'[i] = stream[i])
           /\ watch => stream' # <<>> /\ \E i \in DOMAIN stream' : stream'[i] = ev
<1>1. stream \in Seq(Events) /\ Len(stream) <= MaxFlight + 1 /\ Len(stream) < MaxFlight /\ MaxFlight \in Nat
  BY BoundsAssumption DEF ActivityInv, ActivityTypeOK, Sees
<1>2. CASE watch
  <2>1. stream' = Append(stream, ev)
    BY <1>2 DEF Sees
  <2>2. /\ stream' \in Seq(Events) /\ Len(stream') = Len(stream) + 1 /\ Len(stream) \in Nat /\ stream' # <<>>
        /\ DOMAIN stream = 1..Len(stream) /\ DOMAIN stream' = 1..(Len(stream) + 1)
        /\ stream'[Len(stream) + 1] = ev /\ \A i \in DOMAIN stream : stream'[i] = stream[i]
    BY <1>1, <2>1, AppendIs
  <2>3. Len(stream) + 1 \in DOMAIN stream' /\ \A i \in DOMAIN stream' : i = Len(stream) + 1 \/ i \in DOMAIN stream
    BY <2>2
  <2> QED
    BY <1>1, <2>2, <2>3
<1>3. CASE ~watch
  <2>1. stream' = stream
    BY <1>3 DEF Sees
  <2> QED
    BY <1>1, <1>3, <2>1
<1> QED
  BY <1>2, <1>3

\* A hook waits behind those before it.
LEMMA SaysIs ==
    ASSUME ActivityInv, NEW hook \in HookKinds, Says(hook)
    PROVE  /\ hooks' \in Seq(HookKinds) /\ Len(hooks') <= MaxFlight + 1
           /\ DOMAIN hooks \subseteq DOMAIN hooks' /\ \A i \in DOMAIN hooks : hooks'[i] = hooks[i]
           /\ \E n \in DOMAIN hooks' : /\ hooks'[n] = hook
                                       /\ \A i \in DOMAIN hooks' : i = n \/ (i \in DOMAIN hooks /\ ~(i > n))
<1>1. hooks \in Seq(HookKinds) /\ Len(hooks) < MaxFlight /\ MaxFlight \in Nat /\ hooks' = Append(hooks, hook)
  BY BoundsAssumption DEF ActivityInv, ActivityTypeOK, Says
<1>2. /\ hooks' \in Seq(HookKinds) /\ Len(hooks') = Len(hooks) + 1 /\ Len(hooks) \in Nat
      /\ DOMAIN hooks = 1..Len(hooks) /\ DOMAIN hooks' = 1..(Len(hooks) + 1)
      /\ hooks'[Len(hooks) + 1] = hook /\ \A i \in DOMAIN hooks : hooks'[i] = hooks[i]
  BY <1>1, AppendIs
<1>3. /\ Len(hooks) + 1 \in DOMAIN hooks' /\ DOMAIN hooks \subseteq DOMAIN hooks'
      /\ \A i \in DOMAIN hooks' : i = Len(hooks) + 1 \/ (i \in DOMAIN hooks /\ ~(i > Len(hooks) + 1))
  BY <1>2
<1> QED
  BY <1>1, <1>2, <1>3

\* The parts that are about what there is to hear, when an event of a session that runs is added.
LEMMA SeesMore ==
    ASSUME ActivityInv, Up, NEW ev \in Events, Sees(ev), ev.kind \in {"started", "finished"},
           UNCHANGED <<st, run, booted, watch, ending, act, vm, hooks, patrol, patrolled, gone, shown, fault>>
    PROVE  stream' \in Seq(Events) /\ Len(stream') <= MaxFlight + 1 /\ RunInv' /\ MessagesInv' /\ DeadInv' /\ QuietInv'
<1>1. /\ stream' \in Seq(Events) /\ Len(stream') <= MaxFlight + 1
      /\ \A i \in DOMAIN stream : i \in DOMAIN stream' /\ stream'[i] = stream[i]
      /\ \A i \in DOMAIN stream' : stream'[i] = ev \/ (i \in DOMAIN stream /\ stream'[i] = stream[i])
      /\ watch => \E i \in DOMAIN stream' : stream'[i] = ev
  BY SeesIs
<1>2. st \in {"running", "gate"} /\ vm.session = "alive" /\ (watch \/ "broken" \in fault)
  BY UpIs
<1>3. RunInv'
  BY <1>2 DEF ActivityInv, RunInv
<1>4. MessagesInv'
  BY <1>1 DEF ActivityInv, MessagesInv
<1>5. DeadInv'
  BY <1>2 DEF ActivityInv, DeadInv
<1>6. QuietInv'
  BY <1>1, <1>2 DEF QuietInv
<1> QED
  BY <1>1, <1>3, <1>4, <1>5, <1>6

LEMMA SilentIs == /\ Silent \in Habits /\ Silent.open = {} /\ Silent.quiet = 0 /\ Silent.idle = FALSE
                  /\ Silent.idleFor = 0 /\ Silent.told = FALSE /\ 0 \in Ages
  BY DEF Silent, Habits, Ages, StallAfter

LEMMA RequestStep == ASSUME ActivityInv, NEW r \in Reqs, Request(r) PROVE ActivityInv'
<1> DEFINE ev == [kind |-> "started", req |-> r, ok |-> TRUE]
<1>1. /\ Up /\ Sees(ev) /\ guest' = [Silent EXCEPT !.open = guest.open \cup {r}]
      /\ UNCHANGED <<st, run, booted, watch, held, ending, act, vm, hooks, patrol, patrolled, gone, shown, count, fault>>
  BY DEF Request, runningVars, serveVars, patrolVars
<1>2. ev \in Events /\ ev.kind \in {"started", "finished"}
  BY DEF Events
<1> HIDE DEF ev
<1>3. guest' \in Habits /\ guest'.idle = FALSE /\ guest'.idleFor = 0
  <2>1. guest.open \cup {r} \in SUBSET Reqs
    BY DEF ActivityInv, ActivityTypeOK, Habits
  <2> QED
    BY <1>1, <2>1, SilentIs DEF Habits
<1>4. stream' \in Seq(Events) /\ Len(stream') <= MaxFlight + 1 /\ RunInv' /\ MessagesInv' /\ DeadInv' /\ QuietInv'
  BY <1>1, <1>2, SeesMore
<1>5. ActivityTypeOK'
  BY <1>1, <1>3, <1>4 DEF ActivityInv, ActivityTypeOK
<1>6. WaitInv'
  BY <1>3 DEF WaitInv
<1> QED
  BY <1>1, <1>4, <1>5, <1>6, RestIsLeft DEF ActivityInv

LEMMA RespondStep == ASSUME ActivityInv, NEW r \in Reqs, NEW ok \in BOOLEAN, Respond(r, ok) PROVE ActivityInv'
<1> DEFINE ev == [kind |-> "finished", req |-> r, ok |-> ok]
<1>1. /\ Up /\ r \in guest.open /\ Sees(ev) /\ guest' = [guest EXCEPT !.open = @ \ {r}, !.quiet = 0]
      /\ UNCHANGED <<st, run, booted, watch, held, ending, act, vm, hooks, patrol, patrolled, gone, shown, count, fault>>
  BY DEF Respond, runningVars, serveVars, patrolVars
<1>2. ev \in Events /\ ev.kind \in {"started", "finished"}
  BY DEF Events
<1> HIDE DEF ev
<1>3. guest' \in Habits /\ guest'.idle = guest.idle /\ guest'.idleFor = guest.idleFor
  BY <1>1, SilentIs DEF ActivityInv, ActivityTypeOK, Habits
<1>4. stream' \in Seq(Events) /\ Len(stream') <= MaxFlight + 1 /\ RunInv' /\ MessagesInv' /\ DeadInv' /\ QuietInv'
  BY <1>1, <1>2, SeesMore
<1>5. ActivityTypeOK'
  BY <1>1, <1>3, <1>4 DEF ActivityInv, ActivityTypeOK
<1>6. WaitInv'
  BY <1>1, <1>3 DEF ActivityInv, WaitInv
<1> QED
  BY <1>1, <1>4, <1>5, <1>6, RestIsLeft DEF ActivityInv

LEMMA CutRequestStep == ASSUME ActivityInv, NEW r \in Reqs, CutRequest(r) PROVE ActivityInv'
<1>1. /\ Up /\ r \in guest.open /\ guest' = [guest EXCEPT !.open = @ \ {r}]
      /\ UNCHANGED <<st, run, booted, watch, held, ending, act, vm, stream, hooks, patrol, patrolled, gone, shown, count, fault>>
  BY DEF CutRequest, runningVars, serveVars, patrolVars
<1>2. guest' \in Habits /\ guest'.idle = guest.idle /\ guest'.idleFor = guest.idleFor /\ guest'.quiet = guest.quiet
  BY <1>1 DEF ActivityInv, ActivityTypeOK, Habits
<1>3. ActivityTypeOK'
  BY <1>1, <1>2 DEF ActivityInv, ActivityTypeOK
<1>4. WaitInv'
  BY <1>1, <1>2 DEF ActivityInv, WaitInv
<1>5. RunInv'
  BY <1>1, UpIs DEF ActivityInv, RunInv
<1> QED
  BY <1>1, <1>2, <1>3, <1>4, <1>5, RestIsLeft DEF ActivityInv

\* The parts that are about the hooks, when one of a session that runs is added.
LEMMA SaysMore ==
    ASSUME ActivityInv, Up, NEW hook \in HookKinds \ {"end"}, Says(hook),
           guest'.quiet = guest.quiet \/ hook \in {"tool", "turn"},
           UNCHANGED <<st, run, booted, watch, ending, act, vm, stream, fault>>
    PROVE  hooks' \in Seq(HookKinds) /\ Len(hooks') <= MaxFlight + 1 /\ RunInv' /\ MessagesInv' /\ QuietInv'
<1>1. /\ hooks' \in Seq(HookKinds) /\ Len(hooks') <= MaxFlight + 1
      /\ DOMAIN hooks \subseteq DOMAIN hooks' /\ \A i \in DOMAIN hooks : hooks'[i] = hooks[i]
      /\ \E n \in DOMAIN hooks' : hooks'[n] = hook /\ \A i \in DOMAIN hooks' : i = n \/ i \in DOMAIN hooks
  BY SaysIs
<1>2. RunInv'
  BY UpIs DEF ActivityInv, RunInv
<1>3. MessagesInv'
  BY <1>1 DEF ActivityInv, MessagesInv
<1>4. QuietInv'
  BY <1>1 DEF ActivityInv, QuietInv
<1> QED
  BY <1>1, <1>2, <1>3, <1>4

LEMMA BusyStep ==
    ASSUME ActivityInv, Up, NEW hook \in {"tool", "turn"}, Says(hook), Busy,
           UNCHANGED <<runningVars, act, vm, stream, patrolVars, gone, shown, count, fault>>
    PROVE  ActivityInv'
<1>1. UNCHANGED <<st, run, booted, watch, held, ending, act, vm, stream, patrol, patrolled, gone, shown, count, fault>>
  BY DEF runningVars, serveVars, patrolVars
<1>2. guest' \in Habits /\ guest'.idle = FALSE /\ guest'.idleFor = 0
  BY SilentIs DEF Busy, ActivityInv, ActivityTypeOK, Habits
<1>3. hooks' \in Seq(HookKinds) /\ Len(hooks') <= MaxFlight + 1 /\ RunInv' /\ MessagesInv' /\ QuietInv'
  BY <1>1, SaysMore DEF HookKinds
<1>4. ActivityTypeOK'
  BY <1>1, <1>2, <1>3 DEF ActivityInv, ActivityTypeOK
<1>5. WaitInv'
  BY <1>2 DEF WaitInv
<1> QED
  BY <1>1, <1>3, <1>4, <1>5, RestIsLeft DEF ActivityInv

\* The hook of a wait is the last that there is to hear.
LEMMA ToldNow ==
    ASSUME ActivityInv, NEW hook \in {"idle", "question"}, Says(hook), NEW w PROVE Told(w, hooks')
<1>1. PICK n \in DOMAIN hooks' : /\ hooks'[n] = hook
                                 /\ \A i \in DOMAIN hooks' : i = n \/ (i \in DOMAIN hooks /\ ~(i > n))
  BY SaysIs DEF HookKinds
<1>2. \A j \in DOMAIN hooks' : j > n => hooks'[j] # "tool"
  BY <1>1
<1> QED
  BY <1>1, <1>2 DEF Told

LEMMA WaitStep == ASSUME ActivityInv, NEW asks \in BOOLEAN, Wait(asks) PROVE ActivityInv'
<1>1. /\ Up /\ guest.open = {} /\ ~guest.idle /\ guest' = [guest EXCEPT !.idle = TRUE, !.told = asks]
      /\ IF asks THEN Says("question") ELSE hooks' = hooks
      /\ UNCHANGED <<st, run, booted, watch, held, ending, act, vm, stream, patrol, patrolled, gone, shown, count, fault>>
  BY DEF Wait, runningVars, serveVars, patrolVars
<1>2. /\ guest' \in Habits /\ guest'.idle = TRUE /\ guest'.idleFor = 0 /\ guest'.quiet = guest.quiet
      /\ guest'.told = asks /\ guest'.open = {}
  BY <1>1 DEF ActivityInv, ActivityTypeOK, WaitInv, Habits
<1>3. hooks' \in Seq(HookKinds) /\ Len(hooks') <= MaxFlight + 1 /\ RunInv' /\ MessagesInv' /\ QuietInv'
  <2>1. CASE asks
    BY <1>1, <1>2, <2>1, SaysMore DEF HookKinds
  <2>2. CASE ~asks
    <3>1. hooks' = hooks
      BY <1>1, <2>2
    <3>2. RunInv'
      BY <1>1, <3>1, UpIs DEF ActivityInv, RunInv
    <3>3. hooks' \in Seq(HookKinds) /\ Len(hooks') <= MaxFlight + 1
      BY <3>1 DEF ActivityInv, ActivityTypeOK
    <3> QED
      BY <1>1, <1>2, <3>1, <3>2, <3>3, RestIsLeft
  <2> QED
    BY <2>1, <2>2
<1>4. ActivityTypeOK'
  BY <1>1, <1>2, <1>3 DEF ActivityInv, ActivityTypeOK
<1>5. WaitInv'
  <2>1. asks => Told(act.wait, hooks')
    BY <1>1, ToldNow
  <2>2. Rests'
    BY <1>2 DEF Rests
  <2> QED
    BY <1>1, <1>2, <2>1, <2>2 DEF WaitInv
<1> QED
  BY <1>1, <1>3, <1>4, <1>5, RestIsLeft DEF ActivityInv

LEMMA IdlePromptStep == ASSUME ActivityInv, IdlePrompt PROVE ActivityInv'
<1>1. /\ Up /\ guest.idle /\ guest' = [guest EXCEPT !.told = TRUE] /\ Says("idle")
      /\ UNCHANGED <<st, run, booted, watch, held, ending, act, vm, stream, patrol, patrolled, gone, shown, count, fault>>
  BY DEF IdlePrompt, runningVars, serveVars, patrolVars
<1>2. /\ guest' \in Habits /\ guest'.idle = guest.idle /\ guest'.idleFor = guest.idleFor /\ guest'.quiet = guest.quiet
      /\ guest'.open = guest.open
  BY <1>1 DEF ActivityInv, ActivityTypeOK, Habits
<1>3. hooks' \in Seq(HookKinds) /\ Len(hooks') <= MaxFlight + 1 /\ RunInv' /\ MessagesInv' /\ QuietInv'
  BY <1>1, <1>2, SaysMore DEF HookKinds
<1>4. ActivityTypeOK'
  BY <1>1, <1>2, <1>3 DEF ActivityInv, ActivityTypeOK
<1>5. WaitInv'
  <2>1. Told(act.wait, hooks')
    BY <1>1, ToldNow
  <2>2. Rests => Rests'
    BY <1>1, <1>2 DEF Rests
  <2> QED
    BY <1>1, <1>2, <2>1, <2>2 DEF ActivityInv, WaitInv, Up
<1> QED
  BY <1>1, <1>3, <1>4, <1>5, RestIsLeft DEF ActivityInv

\* The session of a run is over: nothing is to be heard of its VM that was not so.
LEMMA OverStep ==
    ASSUME ActivityInv, Up, vm' \in Machines, vm'.session \in {"ended", "failed"}, gone' = 0,
           vm'.strained = vm.strained, vm'.everStrained = vm.everStrained,
           UNCHANGED <<runningVars, act, guest, patrolVars, shown, count, fault>>,
           stream' \in Seq(Events), Len(stream') <= MaxFlight + 1, hooks' \in Seq(HookKinds), Len(hooks') <= MaxFlight + 1,
           \A i \in DOMAIN stream : i \in DOMAIN stream' /\ stream'[i] = stream[i],
           \A i \in DOMAIN hooks : i \in DOMAIN hooks' /\ hooks'[i] = hooks[i],
           \A i \in DOMAIN stream' : (i \in DOMAIN stream /\ stream'[i] = stream[i])
                                     \/ (stream'[i].kind = "failed" /\ vm'.session = "failed"),
           \A i \in DOMAIN hooks' : (i \in DOMAIN hooks /\ hooks'[i] = hooks[i])
                                    \/ (hooks'[i] = "end" /\ vm'.session = "ended"),
           vm'.session = "failed" /\ watch => \E i \in DOMAIN stream' : stream'[i].kind = "failed"
    PROVE  ActivityInv'
<1>1. UNCHANGED <<st, run, booted, watch, held, ending, act, guest, patrol, patrolled, shown, count, fault>>
  BY DEF runningVars, serveVars, patrolVars
<1>2. /\ st \in {"running", "gate"} /\ vm.session = "alive" /\ ~ending /\ (watch \/ "broken" \in fault)
  BY UpIs
<1>3. ActivityTypeOK'
  BY <1>1 DEF ActivityInv, ActivityTypeOK
<1>4. RunInv'
  BY <1>1, <1>2 DEF ActivityInv, RunInv
<1>5. MessagesInv'
  BY <1>1, <1>2 DEF ActivityInv, MessagesInv
<1>6. PatrolInv'
  BY <1>1, <1>2 DEF ActivityInv, PatrolInv
<1>7. DeadInv'
  BY <1>1, <1>2 DEF ActivityInv, DeadInv
<1>8. QuietInv'
  BY <1>1 DEF ActivityInv, QuietInv
<1>9. WaitInv'
  BY <1>1, <1>2 DEF ActivityInv, WaitInv, Up
<1> QED
  BY <1>1, <1>3, <1>4, <1>5, <1>6, <1>7, <1>8, <1>9, RestIsLeft DEF ActivityInv

LEMMA SessionEndsStep == ASSUME ActivityInv, NEW says \in BOOLEAN, SessionEnds(says) PROVE ActivityInv'
<1>1. /\ Up /\ vm' = [vm EXCEPT !.session = "ended"] /\ gone' = 0 /\ stream' = stream
      /\ IF says THEN Says("end") ELSE hooks' = hooks
      /\ UNCHANGED <<runningVars, act, guest, patrolVars, shown, count, fault>>
  BY DEF SessionEnds
<1>2. /\ vm' \in Machines /\ vm'.session = "ended" /\ vm'.strained = vm.strained /\ vm'.everStrained = vm.everStrained
      /\ stream' \in Seq(Events) /\ Len(stream') <= MaxFlight + 1
  BY <1>1 DEF ActivityInv, ActivityTypeOK, Machines
<1>3. /\ hooks' \in Seq(HookKinds) /\ Len(hooks') <= MaxFlight + 1
      /\ \A i \in DOMAIN hooks : i \in DOMAIN hooks' /\ hooks'[i] = hooks[i]
      /\ \A i \in DOMAIN hooks' : (i \in DOMAIN hooks /\ hooks'[i] = hooks[i]) \/ hooks'[i] = "end"
  <2>1. CASE says
    BY <1>1, <2>1, SaysIs DEF HookKinds
  <2>2. CASE ~says
    BY <1>1, <2>2 DEF ActivityInv, ActivityTypeOK
  <2> QED
    BY <2>1, <2>2
<1> QED
  BY <1>1, <1>2, <1>3, OverStep

LEMMA VMFailsStep == ASSUME ActivityInv, VMFails PROVE ActivityInv'
<1>1. /\ Up /\ vm' = [vm EXCEPT !.session = "failed"] /\ gone' = 0 /\ hooks' = hooks
      /\ Sees([kind |-> "failed"])
      /\ UNCHANGED <<runningVars, act, guest, patrolVars, shown, count, fault>>
  BY DEF VMFails
<1>2. /\ vm' \in Machines /\ vm'.session = "failed" /\ vm'.strained = vm.strained /\ vm'.everStrained = vm.everStrained
      /\ hooks' \in Seq(HookKinds) /\ Len(hooks') <= MaxFlight + 1
  BY <1>1 DEF ActivityInv, ActivityTypeOK, Machines
<1>3. PICK ev \in Events : ev = [kind |-> "failed"]
  BY DEF Events
<1>4. ev.kind = "failed" /\ Sees(ev)
  BY <1>1, <1>3
<1>5. /\ stream' \in Seq(Events) /\ Len(stream') <= MaxFlight + 1
      /\ \A i \in DOMAIN stream : i \in DOMAIN stream' /\ stream'[i] = stream[i]
      /\ \A i \in DOMAIN stream' : stream'[i] = ev \/ (i \in DOMAIN stream /\ stream'[i] = stream[i])
      /\ watch => \E i \in DOMAIN stream' : stream'[i] = ev
  BY <1>4, SeesIs
<1> QED
  BY <1>1, <1>2, <1>4, <1>5, OverStep

LEMMA LoadStep == ASSUME ActivityInv, Load PROVE ActivityInv'
<1>1. /\ Up /\ vm' = [vm EXCEPT !.strained = ~@, !.everStrained = TRUE] /\ count' = [count EXCEPT !.strain = @ + 1]
      /\ count.strain < MaxStrain
      /\ UNCHANGED <<st, run, booted, watch, held, ending, act, guest, stream, hooks, patrol, patrolled, gone, shown, fault>>
  BY DEF Load, runningVars, serveVars, patrolVars
<1>2. vm' \in Machines /\ vm'.session = vm.session /\ vm'.everStrained = TRUE
  BY <1>1 DEF ActivityInv, ActivityTypeOK, Machines
<1>3. count' \in [breaks : 0..MaxBreaks, strain : 0..MaxStrain]
  BY <1>1, BoundsAssumption DEF ActivityInv, ActivityTypeOK
<1>4. ActivityTypeOK'
  BY <1>1, <1>2, <1>3 DEF ActivityInv, ActivityTypeOK
<1>5. RunInv'
  BY <1>1, <1>2, UpIs DEF ActivityInv, RunInv
<1>6. MessagesInv' /\ PatrolInv' /\ DeadInv'
  BY <1>1, <1>2 DEF ActivityInv, MessagesInv, PatrolInv, DeadInv
<1>7. Rests => Rests'
  BY <1>1 DEF Rests
<1>8. WaitInv'
  BY <1>1, <1>2, <1>7 DEF ActivityInv, WaitInv, Up
<1> QED
  BY <1>1, <1>4, <1>5, <1>6, <1>8, RestIsLeft DEF ActivityInv

(***************************************************************************)
(* The steps that write the record                                         *)
(***************************************************************************)

\* What a write leaves of the record of a run that serve knows, and of one that it dropped.
LEMMA UpdateIs ==
    ASSUME NEW a \in Accounts, NEW b \in Accounts, b.kept = a.kept
    PROVE  Update(a, b) \in Accounts /\ Update(a, b).kept = a.kept /\ Update(a, b) = IF a.kept THEN b ELSE a
  BY DEF Update

\* What is shown is the kind of what is written.
LEMMA WriteIs ==
    ASSUME NEW b \in Accounts, st' \in {"starting", "running", "gate", "stopped", "done"}, Show(st', b)
    PROVE  act' \in Accounts /\ shown' \in Kinds /\ ShownInv'
<1>1. act' \in Accounts /\ shown' = Kind(st', act')
  BY ShowIs
<1>2. Kind(st', act') \in Kinds
  BY <1>1, KindIs
<1> QED
  BY <1>1, <1>2 DEF ShownInv

\* There is something to hear only of a run whose boot has ended.
LEMMA HeardOf ==
    ASSUME ActivityInv, stream # <<>> \/ hooks # <<>>
    PROVE  st \in {"running", "gate", "done"} /\ act.kept
  BY DEF ActivityInv, ActivityTypeOK, RunInv

LEMMA WatchSandboxStep == ASSUME ActivityInv, WatchSandbox PROVE ActivityInv'
<1> DEFINE ev == Head(stream)
           b == Update(act, Heard(act, ev))
<1>1. /\ stream # <<>> /\ Show(st', b) /\ stream' = Tail(stream)
      /\ fault' = fault
                  \cup (IF act.wait /\ guest.idle /\ ev.kind \in {"started", "finished"} THEN {"crossed"} ELSE {})
                  \cup (IF ev.kind = "stopped" /\ st = "running" THEN {"finishing"} ELSE {})
      /\ UNCHANGED <<st, run, booted, watch, held, ending, vm, guest, hooks, patrol, patrolled, gone, count>>
  BY DEF WatchSandbox, runningVars, serveVars, patrolVars
<1>2. st \in {"running", "gate", "done"} /\ act.kept
  BY <1>1, HeardOf
<1>3. /\ act \in Accounts /\ stream \in Seq(Events) /\ Len(stream) <= MaxFlight + 1 /\ MaxFlight \in Nat
      /\ fault \subseteq Faults
  BY BoundsAssumption DEF ActivityInv, ActivityTypeOK
<1>4. /\ ev = stream[1] /\ ev \in Events /\ 1 \in DOMAIN stream
      /\ stream' \in Seq(Events) /\ Len(stream') = Len(stream) - 1 /\ Len(stream) \in Nat
      /\ \A i \in DOMAIN stream' : i + 1 \in DOMAIN stream /\ stream'[i] = stream[i + 1]
      /\ \A i \in DOMAIN stream : i = 1 \/ (i - 1 \in DOMAIN stream' /\ stream'[i - 1] = stream[i])
  BY <1>1, <1>3, TailIs
<1> HIDE DEF ev
<1>5. b = Heard(act, ev)
  BY <1>2 DEF Update
<1> HIDE DEF b
<1>6. /\ b \in Accounts /\ b.kept = act.kept /\ b.warn = act.warn
      /\ ev.kind \in {"started", "finished", "stopped", "failed"}
      /\ ev.kind \in {"started", "finished"} => b.last = 0 /\ b.dead = act.dead
      /\ ev.kind \in {"stopped", "failed"} => b.last = act.last /\ b.dead /\ b.wait = act.wait
      /\ ev.kind # "started" => \A r \in Reqs : b.inflight[r] \in {act.inflight[r], -1}
  <2>1. PICK e \in Events : e = ev
    BY <1>4
  <2>2. PICK d : d = b
    OBVIOUS
  <2>3. act \in Accounts /\ d = Heard(act, e)
    BY <1>3, <1>5, <2>2, <2>1
  <2>4. /\ d \in Accounts /\ d.kept = act.kept /\ d.warn = act.warn
        /\ e.kind \in {"started", "finished"} => d.last = 0 /\ d.dead = act.dead
        /\ e.kind \in {"stopped", "failed"} => d.last = act.last /\ d.dead /\ d.wait = act.wait
        /\ e.kind # "started" => \A r \in Reqs : d.inflight[r] \in {act.inflight[r], -1}
    BY <2>3, HeardIs
  <2>5. e.kind \in {"started", "finished", "stopped", "failed"}
    BY EventIs
  <2> QED
    BY <2>1, <2>4, <2>5, <2>2
<1>7. /\ act' \in Accounts /\ act'.kept = act.kept /\ act'.warn = act.warn /\ (act.dead => act'.dead)
      /\ ev.kind \in {"started", "finished"} => act'.last = 0 /\ act'.dead = act.dead
      /\ ev.kind \in {"stopped", "failed"} => act'.last = act.last /\ act'.dead /\ act'.wait = act.wait
  BY <1>1, <1>6, ShowIs
<1>8. ev.kind # "started" => \A r \in Reqs : act'.inflight[r] \in {act.inflight[r], -1}
  BY <1>1, <1>6, ShowIs
<1>9. shown' \in Kinds /\ ShownInv'
  BY <1>1, <1>2, <1>6, WriteIs
<1>10. fault \subseteq fault' /\ fault' \subseteq Faults
  BY <1>1, <1>3 DEF Faults
<1>11. ActivityTypeOK'
  BY <1>1, <1>3, <1>4, <1>7, <1>9, <1>10 DEF ActivityInv, ActivityTypeOK
<1>12. RunInv'
  BY <1>1, <1>2, <1>7, <1>10 DEF ActivityInv, RunInv
<1>13. MessagesInv'
  BY <1>1, <1>4 DEF ActivityInv, MessagesInv
<1>14. PatrolInv'
  BY <1>1, <1>7, <1>10, RestIsLeft
<1>15. DeadInv'
  <2>1. ev.kind = "failed" => vm.session = "failed"
    BY <1>4 DEF ActivityInv, MessagesInv
  <2>2. ev.kind = "stopped" => "finishing" \in fault' \/ (st = "gate" /\ ending) \/ st = "done"
    BY <1>1, <1>2, <1>4 DEF ActivityInv, MessagesInv, RunInv
  <2>3. act'.dead => \/ fault' \cap {"old", "finishing"} # {}
                     \/ vm.session \in {"ended", "failed"} \/ (st = "gate" /\ ending) \/ st = "done"
    BY <1>6, <1>7, <1>10, <2>1, <2>2 DEF ActivityInv, DeadInv
  <2>4. vm.session = "failed" => act'.dead \/ "broken" \in fault' \/ \E i \in DOMAIN stream' : stream'[i].kind = "failed"
    BY <1>4, <1>7, <1>10 DEF ActivityInv, DeadInv
  <2>5. act'.warn => vm.everStrained \/ "old" \in fault'
    BY <1>7, <1>10 DEF ActivityInv, DeadInv
  <2> QED
    BY <1>1, <2>3, <2>4, <2>5 DEF DeadInv
<1>16. QuietInv'
  <2>1. CASE ev.kind \in {"started", "finished"}
    BY <1>1, <1>7, <2>1 DEF ActivityInv, ActivityTypeOK, QuietInv, Habits, Ages
  <2>2. CASE ev.kind \in {"stopped", "failed"}
    <3>1. (\E i \in DOMAIN stream : stream[i].kind \in {"started", "finished"})
            => \E i \in DOMAIN stream' : stream'[i].kind \in {"started", "finished"}
      BY <1>4, <2>2
    <3> QED
      BY <1>1, <1>7, <1>10, <2>2, <3>1 DEF ActivityInv, QuietInv
  <2> QED
    BY <1>6, <2>1, <2>2
<1>17. WaitInv'
  <2> SUFFICES ASSUME fault' \cap {"crossed", "old"} = {}, Up, guest.idle
               PROVE  (guest.told => Told(act'.wait, hooks)) /\ Rests'
    BY <1>1 DEF ActivityInv, WaitInv, Up
  <2>1. (guest.told => Told(act.wait, hooks)) /\ Rests
    BY <1>10 DEF ActivityInv, WaitInv
  <2>2. ~act.wait \/ act'.wait = act.wait
    BY <1>1, <1>6, <1>7
  <2>3. Told(act.wait, hooks) => Told(act'.wait, hooks)
    BY <2>2 DEF Told
  <2>4. Rests'
    <3>1. guest.idleFor >= 1 => ev.kind # "started" /\ \A i \in DOMAIN stream' : stream'[i].kind # "started"
      BY <1>4, <2>1 DEF Rests
    <3>2. guest.idleFor \in 0..3
      BY DEF ActivityInv, ActivityTypeOK, Habits, Ages, StallAfter
    <3>3. guest.idleFor >= 1 => \A r \in Reqs : act'.inflight[r] \in {act.inflight[r], -1}
      BY <1>8, <3>1
    <3>4. guest.idleFor >= 1 => \A r \in Reqs : act'.inflight[r] = -1 \/ act'.inflight[r] >= guest.idleFor
      BY <2>1, <3>3 DEF Rests
    <3>5. guest.idleFor >= 3 \/ (guest.idleFor = 2 /\ patrolled) => \A r \in Reqs : act'.inflight[r] = -1
      BY <2>1, <3>2, <3>3 DEF Rests
    <3> QED
      BY <1>1, <3>1, <3>4, <3>5 DEF Rests
  <2> QED
    BY <2>1, <2>3, <2>4
<1> QED
  BY <1>9, <1>11, <1>12, <1>13, <1>14, <1>15, <1>16, <1>17 DEF ActivityInv

LEMMA StreamBreaksStep == ASSUME ActivityInv, StreamBreaks PROVE ActivityInv'
<1>1. /\ watch' = FALSE /\ stream' = <<>> /\ count' = [count EXCEPT !.breaks = @ + 1] /\ count.breaks < MaxBreaks
      /\ fault' = fault \cup {"broken"}
      /\ UNCHANGED <<st, run, booted, held, ending, act, vm, guest, hooks, patrol, patrolled, gone, shown>>
  BY DEF StreamBreaks, serveVars, patrolVars
<1>2. count' \in [breaks : 0..MaxBreaks, strain : 0..MaxStrain] /\ fault \subseteq fault' /\ "broken" \in fault'
  <2>1. count \in [breaks : 0..MaxBreaks, strain : 0..MaxStrain] /\ MaxBreaks \in Nat
    BY BoundsAssumption DEF ActivityInv, ActivityTypeOK
  <2>2. count.breaks + 1 \in 0..MaxBreaks
    BY <1>1, <2>1
  <2> QED
    BY <1>1, <2>1, <2>2
<1>3. stream' \in Seq(Events) /\ Len(stream') = 0 /\ DOMAIN stream' = {} /\ MaxFlight \in Nat
  BY <1>1, BoundsAssumption
<1>4. ActivityTypeOK'
  <2>1. fault' \subseteq Faults
    BY <1>1 DEF ActivityInv, ActivityTypeOK, Faults
  <2>2. Len(stream') <= MaxFlight + 1
    BY <1>3
  <2> QED
    BY <1>1, <1>2, <1>3, <2>1, <2>2 DEF ActivityInv, ActivityTypeOK
<1>5. RunInv' /\ MessagesInv' /\ DeadInv' /\ QuietInv'
  <2>1. RunInv'
    BY <1>1, <1>2 DEF ActivityInv, RunInv
  <2>2. MessagesInv'
    BY <1>1, <1>3 DEF ActivityInv, MessagesInv
  <2>3. DeadInv' /\ QuietInv'
    BY <1>1, <1>2 DEF ActivityInv, DeadInv, QuietInv
  <2> QED
    BY <2>1, <2>2, <2>3
<1>6. WaitInv'
  <2>1. Rests => Rests'
    BY <1>1, <1>3 DEF Rests
  <2> QED
    BY <1>1, <2>1 DEF ActivityInv, WaitInv, Up
<1> QED
  BY <1>1, <1>2, <1>4, <1>5, <1>6, RestIsLeft DEF ActivityInv

\* What a hook leaves of the wait that was told of.
LEMMA ToldStays ==
    ASSUME hooks \in Seq(HookKinds), hooks # <<>>, hooks' = Tail(hooks), NEW w \in BOOLEAN,
           NEW hook, hook = Head(hooks), NEW v \in BOOLEAN,
           hook \in {"idle", "question"} => v, hook \in {"turn", "end"} => v = w,
           Told(w, hooks)
    PROVE  Told(v, hooks')
<1>1. /\ hook = hooks[1] /\ hook \in HookKinds /\ 1 \in DOMAIN hooks
      /\ DOMAIN hooks = 1..Len(hooks) /\ Len(hooks) \in Nat /\ DOMAIN hooks' = 1..(Len(hooks) - 1)
      /\ \A i \in DOMAIN hooks' : i + 1 \in DOMAIN hooks /\ hooks'[i] = hooks[i + 1]
  BY TailIs
<1>2. CASE w /\ \A i \in DOMAIN hooks : hooks[i] # "tool"
  <2>1. \A i \in DOMAIN hooks' : hooks'[i] # "tool"
    BY <1>1, <1>2
  <2>2. v
    BY <1>1, <1>2 DEF HookKinds
  <2> QED
    BY <2>1, <2>2 DEF Told
<1>3. CASE \E i \in DOMAIN hooks : hooks[i] \in {"idle", "question"} /\ \A j \in DOMAIN hooks : j > i => hooks[j] # "tool"
  <2>1. PICK i \in DOMAIN hooks : hooks[i] \in {"idle", "question"} /\ \A j \in DOMAIN hooks : j > i => hooks[j] # "tool"
    BY <1>3
  <2>2. CASE i = 1
    <3>1. \A k \in DOMAIN hooks' : hooks'[k] # "tool"
      BY <1>1, <2>1, <2>2
    <3>2. v
      BY <1>1, <2>1, <2>2
    <3> QED
      BY <3>1, <3>2 DEF Told
  <2>3. CASE i # 1
    <3>1. i - 1 \in DOMAIN hooks' /\ hooks'[i - 1] = hooks[i]
      BY <1>1, <2>3
    <3>2. \A j \in DOMAIN hooks' : j > i - 1 => hooks'[j] # "tool"
      BY <1>1, <2>1
    <3> QED
      BY <2>1, <3>1, <3>2 DEF Told
  <2> QED
    BY <2>2, <2>3
<1> QED
  BY <1>2, <1>3 DEF Told

LEMMA ObserveHookStep == ASSUME ActivityInv, ObserveHook PROVE ActivityInv'
<1> DEFINE hook == Head(hooks)
           b == Update(act, Hooked(act, hook))
<1>1. /\ hooks # <<>> /\ Show(st', b) /\ hooks' = Tail(hooks)
      /\ UNCHANGED <<st, run, booted, watch, held, ending, vm, guest, stream, patrol, patrolled, gone, count, fault>>
  BY DEF ObserveHook, runningVars, serveVars, patrolVars
<1>2. st \in {"running", "gate", "done"} /\ act.kept
  BY <1>1, HeardOf
<1>3. act \in Accounts /\ hooks \in Seq(HookKinds) /\ Len(hooks) <= MaxFlight + 1 /\ MaxFlight \in Nat
  BY BoundsAssumption DEF ActivityInv, ActivityTypeOK
<1>4. /\ hook = hooks[1] /\ hook \in HookKinds /\ 1 \in DOMAIN hooks
      /\ hooks' \in Seq(HookKinds) /\ Len(hooks') = Len(hooks) - 1 /\ Len(hooks) \in Nat
      /\ \A i \in DOMAIN hooks' : i + 1 \in DOMAIN hooks /\ hooks'[i] = hooks[i + 1]
      /\ \A i \in DOMAIN hooks : i = 1 \/ (i - 1 \in DOMAIN hooks' /\ hooks'[i - 1] = hooks[i])
  BY <1>1, <1>3, TailIs
<1>5. b = Hooked(act, hook)
  BY <1>2 DEF Update
<1> HIDE DEF hook
<1>7. /\ b \in Accounts /\ b.kept = act.kept /\ b.warn = act.warn
      /\ hook \in {"tool", "turn"} => b.last = 0
      /\ hook \notin {"tool", "turn"} => b.last = act.last
      /\ hook \in {"idle", "question"} => b.wait
      /\ hook \in {"turn", "end"} => b.wait = act.wait
      /\ hook = "end" => b.dead
      /\ hook # "end" => b.dead = act.dead
      /\ \A r \in Reqs : b.inflight[r] \in {act.inflight[r], -1}
  BY <1>3, <1>4, <1>5, HookedIs
<1> HIDE DEF b
<1>8. /\ act' \in Accounts /\ act'.kept = act.kept /\ act'.warn = act.warn /\ (act.dead => act'.dead)
      /\ act'.last = b.last /\ act'.wait = b.wait /\ act'.dead = b.dead
      /\ \A r \in Reqs : act'.inflight[r] \in {act.inflight[r], -1}
  BY <1>1, <1>7, ShowIs
<1>9. shown' \in Kinds /\ ShownInv'
  BY <1>1, <1>2, <1>7, WriteIs
<1>10. ActivityTypeOK'
  BY <1>1, <1>3, <1>4, <1>8, <1>9 DEF ActivityInv, ActivityTypeOK
<1>11. RunInv'
  BY <1>1, <1>2, <1>8 DEF ActivityInv, RunInv
<1>12. MessagesInv'
  BY <1>1, <1>4 DEF ActivityInv, MessagesInv
<1>13. PatrolInv'
  BY <1>1, <1>8, RestIsLeft
<1>14. DeadInv'
  <2>1. hook = "end" => vm.session = "ended"
    BY <1>4 DEF ActivityInv, MessagesInv
  <2> QED
    BY <1>1, <1>7, <1>8, <2>1 DEF ActivityInv, DeadInv
<1>15. QuietInv'
  <2>1. CASE hook \in {"tool", "turn"}
    BY <1>1, <1>7, <1>8, <2>1 DEF ActivityInv, ActivityTypeOK, QuietInv, Habits, Ages
  <2>2. CASE hook \notin {"tool", "turn"}
    <3>1. (\E i \in DOMAIN hooks : hooks[i] \in {"tool", "turn"}) => \E i \in DOMAIN hooks' : hooks'[i] \in {"tool", "turn"}
      BY <1>4, <2>2
    <3> QED
      BY <1>1, <1>7, <1>8, <2>2, <3>1 DEF ActivityInv, QuietInv
  <2> QED
    BY <2>1, <2>2
<1>16. WaitInv'
  <2> SUFFICES ASSUME fault \cap {"crossed", "old"} = {}, Up, guest.idle
               PROVE  (guest.told => Told(act'.wait, hooks')) /\ Rests'
    BY <1>1 DEF ActivityInv, WaitInv, Up
  <2>1. (guest.told => Told(act.wait, hooks)) /\ Rests
    BY DEF ActivityInv, WaitInv
  <2>2. Told(act.wait, hooks) => Told(act'.wait, hooks')
    <3>1. act.wait \in BOOLEAN /\ act'.wait \in BOOLEAN
      BY <1>3, <1>8 DEF Accounts
    <3>2. hook = Head(hooks)
      BY DEF hook
    <3> QED
      BY <1>1, <1>3, <1>7, <1>8, <3>1, <3>2, ToldStays
  <2>3. Rests'
    BY <1>1, <1>8, <2>1 DEF Rests, ActivityInv, ActivityTypeOK, Habits, Ages
  <2> QED
    BY <2>1, <2>2, <2>3
<1> QED
  BY <1>9, <1>10, <1>11, <1>12, <1>13, <1>14, <1>15, <1>16 DEF ActivityInv

\* What a handler had received is an event of the sandbox, or a hook.
LEMMA HeldIs ==
    ASSUME ActivityInv, NEW o \in held, NEW c, c = IF "hook" \in DOMAIN o THEN Hooked(act, o.hook) ELSE Heard(act, o)
    PROVE  c \in Accounts /\ c.kept = act.kept /\ c.last \in {0, act.last} /\ (act.dead => c.dead)
<1>1. act \in Accounts /\ (o \in Events \/ o \in [hook : HookKinds])
  BY DEF ActivityInv, ActivityTypeOK
<1>2. CASE o \in [hook : HookKinds]
  <2>1. c = Hooked(act, o.hook) /\ o.hook \in HookKinds
    BY <1>2
  <2> QED
    BY <1>1, <2>1, HookedIs
<1>3. CASE o \in Events
  <2>1. c = Heard(act, o)
    BY <1>3, EventIs
  <2> QED
    BY <1>1, <1>3, <2>1, EventIs, HeardIs
<1> QED
  BY <1>1, <1>2, <1>3

LEMMA OldObservationStep == ASSUME ActivityInv, NEW o \in held, OldObservation(o) PROVE ActivityInv'
<1> DEFINE c == IF "hook" \in DOMAIN o THEN Hooked(act, o.hook) ELSE Heard(act, o)
           b == Update(act, c)
<1>1. /\ Show(st', b) /\ held' = held \ {o} /\ fault' = IF act.kept THEN fault \cup {"old"} ELSE fault
      /\ UNCHANGED <<st, run, booted, watch, ending, vm, guest, stream, hooks, patrol, patrolled, gone, count>>
  BY DEF OldObservation, serveVars, patrolVars
<1>2. c \in Accounts /\ c.kept = act.kept /\ c.last \in {0, act.last} /\ (act.dead => c.dead)
  <2> HIDE DEF c
  <2>1. PICK d : d = c
    OBVIOUS
  <2>2. d = IF "hook" \in DOMAIN o THEN Hooked(act, o.hook) ELSE Heard(act, o)
    BY <2>1 DEF c
  <2> QED
    BY <2>1, <2>2, HeldIs
<1> HIDE DEF c
<1>3. act \in Accounts /\ st \in {"starting", "running", "gate", "stopped", "done"} /\ fault \subseteq Faults
  BY DEF ActivityInv, ActivityTypeOK
<1>4. /\ b \in Accounts /\ b.kept = act.kept /\ b.last \in {0, act.last} /\ (act.dead => b.dead)
      /\ ~act.kept => b = act
  BY <1>2, <1>3, UpdateIs
<1> HIDE DEF b
<1>5. /\ act' \in Accounts /\ act'.kept = act.kept /\ act'.last \in {0, act.last} /\ (act.dead => act'.dead)
      /\ ~act.kept => /\ act'.dead = act.dead /\ act'.warn = act.warn /\ act'.wait = act.wait
                      /\ \A r \in Reqs : act'.inflight[r] \in {act.inflight[r], -1}
  BY <1>1, <1>4, ShowIs
<1>6. shown' \in Kinds /\ ShownInv'
  BY <1>1, <1>3, <1>4, WriteIs
<1>7. fault \subseteq fault' /\ fault' \subseteq Faults /\ (act.kept => "old" \in fault')
  BY <1>1, <1>3 DEF Faults
<1>8. ActivityTypeOK'
  BY <1>1, <1>5, <1>6, <1>7 DEF ActivityInv, ActivityTypeOK
<1>9. RunInv' /\ MessagesInv' /\ PatrolInv'
  BY <1>1, <1>5, <1>7, RestIsLeft
<1>10. DeadInv'
  <2>1. CASE act.kept
    BY <1>1, <1>5, <1>7, <2>1 DEF ActivityInv, DeadInv
  <2>2. CASE ~act.kept
    BY <1>1, <1>5, <1>7, <2>2, RestIsLeft
  <2> QED
    BY <2>1, <2>2
<1>11. QuietInv'
  <2>1. act'.last <= guest.quiet \/ act'.last = act.last
    BY <1>5 DEF ActivityInv, ActivityTypeOK, Habits, Ages
  <2> QED
    BY <1>1, <1>7, <2>1 DEF ActivityInv, QuietInv
<1>12. WaitInv'
  <2>1. CASE act.kept
    BY <1>1, <1>7, <2>1 DEF ActivityInv, WaitInv
  <2>2. CASE ~act.kept
    BY <1>1, <1>5, <1>7, <2>2, RestIsLeft
  <2> QED
    BY <2>1, <2>2
<1> QED
  BY <1>6, <1>8, <1>9, <1>10, <1>11, <1>12 DEF ActivityInv

LEMMA PatrolShowsStep == ASSUME ActivityInv, PatrolShows PROVE ActivityInv'
<1>1. /\ Show(st', act)
      /\ UNCHANGED <<st, run, booted, watch, held, ending, vm, guest, stream, hooks, patrol, patrolled, gone, count, fault>>
  BY DEF PatrolShows, runningVars, serveVars, patrolVars
<1>2. act \in Accounts /\ st \in {"starting", "running", "gate", "stopped", "done"}
  BY DEF ActivityInv, ActivityTypeOK
<1>3. /\ act' \in Accounts /\ act'.kept = act.kept /\ act'.dead = act.dead /\ act'.warn = act.warn
      /\ act'.last = act.last /\ act'.wait = act.wait
      /\ \A r \in Reqs : act'.inflight[r] \in {act.inflight[r], -1}
  BY <1>1, <1>2, ShowIs
<1>4. shown' \in Kinds /\ ShownInv'
  BY <1>1, <1>2, WriteIs
<1>5. ActivityTypeOK'
  BY <1>1, <1>3, <1>4 DEF ActivityInv, ActivityTypeOK
<1> QED
  BY <1>1, <1>3, <1>4, <1>5, RestIsLeft DEF ActivityInv

(***************************************************************************)
(* The steps of the patrol                                                 *)
(***************************************************************************)

LEMMA PatrolLooksStep == ASSUME ActivityInv, PatrolLooks PROVE ActivityInv'
<1>1. /\ ~patrolled /\ run.no \in booted /\ patrol' = [at |-> "alive", no |-> run.no, load |-> FALSE]
      /\ UNCHANGED <<st, run, booted, watch, held, ending, act, vm, guest, stream, hooks, patrolled, gone, shown, count, fault>>
  BY DEF PatrolLooks, runningVars, serveVars
<1>2. run.no \in 1..MaxRuns /\ MaxRuns \in Nat
  BY BoundsAssumption DEF ActivityInv, ActivityTypeOK
<1>3. patrol' \in [at : Looks, no : 0..MaxRuns, load : BOOLEAN]
  BY <1>1, <1>2 DEF Looks
<1>4. ActivityTypeOK'
  BY <1>1, <1>3 DEF ActivityInv, ActivityTypeOK
<1>5. PatrolInv'
  BY <1>1, <1>2 DEF ActivityInv, PatrolInv
<1> QED
  BY <1>1, <1>4, <1>5, RestIsLeft DEF ActivityInv

LEMMA AliveStep == ASSUME ActivityInv, Alive PROVE ActivityInv'
<1>1. PICK answered \in BOOLEAN :
        /\ vm.session \in {"none", "failed", "destroyed"} => ~answered
        /\ patrol' = [patrol EXCEPT !.at = IF answered => vm.session = "alive" THEN "measure" ELSE "dead"]
        /\ gone' = IF answered THEN gone ELSE 0
  BY DEF Alive, HasSession
<1>2. /\ patrol.at = "alive"
      /\ UNCHANGED <<st, run, booted, watch, held, ending, act, vm, guest, stream, hooks, patrolled, shown, count, fault>>
  BY DEF Alive, runningVars, serveVars
<1>3. PICK found \in {"measure", "dead"} :
        /\ patrol' = [patrol EXCEPT !.at = found]
        /\ found = "dead" => answered /\ vm.session # "alive"
        /\ answered /\ vm.session # "alive" => found = "dead"
  BY <1>1
<1>4. /\ patrol' \in [at : Looks, no : 0..MaxRuns, load : BOOLEAN]
      /\ patrol'.at = found /\ patrol'.no = patrol.no /\ patrol'.load = patrol.load
  <2>1. patrol \in [at : Looks, no : 0..MaxRuns, load : BOOLEAN] /\ found \in Looks
    BY DEF ActivityInv, ActivityTypeOK, Looks
  <2>2. patrol' = [patrol EXCEPT !.at = found]
    BY <1>3
  <2> QED
    BY <2>1, <2>2
<1>5. gone' \in 0..2
  BY <1>1 DEF ActivityInv, ActivityTypeOK
<1>6. ActivityTypeOK'
  BY <1>2, <1>4, <1>5 DEF ActivityInv, ActivityTypeOK
<1>7. found = "dead" => vm.session \in {"unlaunched", "ended"}
  <2>1. vm.session \in {"none", "unlaunched", "alive", "ended", "failed", "destroyed"}
    BY DEF ActivityInv, ActivityTypeOK, Machines
  <2>2. found = "dead" => answered /\ vm.session # "alive"
    BY <1>3
  <2> QED
    BY <1>1, <2>1, <2>2
<1>8. patrol.no = run.no /\ st # "stopped" /\ found = "dead" => vm.session = "ended"
  BY <1>2, <1>7 DEF ActivityInv, ActivityTypeOK, PatrolInv, RunInv
<1>9. gone' >= 1 => gone' = gone /\ found = "dead" /\ patrol.no = run.no
  BY <1>1, <1>2, <1>3 DEF ActivityInv, PatrolInv
<1>10. PatrolInv'
  BY <1>2, <1>4, <1>8, <1>9 DEF ActivityInv, PatrolInv
<1> QED
  BY <1>2, <1>6, <1>10, RestIsLeft DEF ActivityInv

LEMMA MeasureStep == ASSUME ActivityInv, Measure PROVE ActivityInv'
<1>1. /\ patrol.at = "measure" /\ patrol' = [patrol EXCEPT !.at = "load", !.load = vm.strained]
      /\ UNCHANGED <<st, run, booted, watch, held, ending, act, vm, guest, stream, hooks, patrolled, gone, shown, count, fault>>
  BY DEF Measure, runningVars, serveVars
<1>2. /\ patrol' \in [at : Looks, no : 0..MaxRuns, load : BOOLEAN]
      /\ patrol'.at = "load" /\ patrol'.no = patrol.no /\ patrol'.load = vm.strained
  BY <1>1 DEF ActivityInv, ActivityTypeOK, Looks, Machines
<1>3. ActivityTypeOK'
  BY <1>1, <1>2 DEF ActivityInv, ActivityTypeOK
<1>4. ~(gone >= 1)
  BY <1>1 DEF ActivityInv, PatrolInv
<1>5. gone # 2
  BY <1>4
<1>6. PatrolInv'
  BY <1>1, <1>2, <1>4, <1>5 DEF ActivityInv, PatrolInv, RunInv
<1> QED
  BY <1>1, <1>3, <1>6, RestIsLeft DEF ActivityInv

LEMMA PatrolEndsStep == ASSUME ActivityInv, PatrolEnds PROVE ActivityInv'
<1> DEFINE c == Found(act)
           b == Update(act, c)
<1>1. /\ patrol.at \in {"dead", "load", "measure"} /\ Show(st', b)
      /\ patrol' = NoLook /\ patrolled' = (patrolled \/ patrol.no = run.no)
      /\ fault' = IF act.kept /\ patrol.at # "measure" /\ patrol.no # run.no THEN fault \cup {"old"} ELSE fault
      /\ UNCHANGED <<st, run, booted, watch, held, ending, vm, guest, stream, hooks, gone, count>>
  BY DEF PatrolEnds, runningVars, serveVars
<1>2. /\ act \in Accounts /\ st \in {"starting", "running", "gate", "stopped", "done"} /\ fault \subseteq Faults
      /\ patrol.load \in BOOLEAN
  BY DEF ActivityInv, ActivityTypeOK
<1>3. /\ c \in Accounts /\ c.kept = act.kept /\ c.last = act.last /\ c.wait = act.wait /\ c.inflight = act.inflight
      /\ patrol.at = "dead" => c.dead /\ c.warn = act.warn
      /\ patrol.at = "load" => c.warn = patrol.load /\ c.dead = act.dead
      /\ patrol.at \notin {"dead", "load"} => c = act
  BY <1>2, FoundIs
<1> HIDE DEF c
<1>4. b \in Accounts /\ b.kept = act.kept /\ b = IF act.kept THEN c ELSE act
  BY <1>2, <1>3, UpdateIs
<1> HIDE DEF b
<1>5. /\ act' \in Accounts /\ act'.kept = act.kept /\ act'.last = act.last /\ act'.wait = act.wait
      /\ act'.dead = (act.dead \/ (act.kept /\ patrol.at = "dead"))
      /\ act'.warn = IF act.kept /\ patrol.at = "load" THEN patrol.load ELSE act.warn
  <2>1. b.last = act.last /\ b.wait = act.wait
    BY <1>3, <1>4
  <2>2. b.dead = (act.dead \/ (act.kept /\ patrol.at = "dead"))
    BY <1>2, <1>3, <1>4 DEF Accounts
  <2>3. b.warn = IF act.kept /\ patrol.at = "load" THEN patrol.load ELSE act.warn
    BY <1>3, <1>4
  <2> QED
    BY <1>1, <1>4, <2>1, <2>2, <2>3, ShowIs
<1>6. \A r \in Reqs : act'.inflight[r] = IF act.inflight[r] >= 2 THEN -1 ELSE act.inflight[r]
  <2>1. b.inflight = act.inflight
    BY <1>3, <1>4
  <2> QED
    BY <1>1, <1>4, <2>1, ShowIs
<1>7. shown' \in Kinds /\ ShownInv'
  BY <1>1, <1>2, <1>4, WriteIs
<1>8. /\ fault \subseteq fault' /\ fault' \subseteq Faults
      /\ act.kept /\ patrol.at # "measure" /\ patrol.no # run.no => "old" \in fault'
  BY <1>1, <1>2 DEF Faults
<1>9. /\ patrol' \in [at : Looks, no : 0..MaxRuns, load : BOOLEAN] /\ patrolled' \in BOOLEAN
      /\ patrol'.at = "idle" /\ patrol'.no = 0 /\ patrol'.load = FALSE
  BY <1>1, BoundsAssumption DEF ActivityInv, ActivityTypeOK, NoLook, Looks
<1>10. ActivityTypeOK'
  BY <1>1, <1>5, <1>7, <1>8, <1>9 DEF ActivityInv, ActivityTypeOK
<1>11. RunInv' /\ MessagesInv' /\ QuietInv'
  BY <1>1, <1>5, <1>8, RestIsLeft
<1>12. PatrolInv'
  <2>1. run.no \in 1..MaxRuns
    BY DEF ActivityInv, ActivityTypeOK
  <2>2. gone >= 1 => act'.dead
    <3>1. gone >= 1 => vm.session \in {"ended", "failed"} /\ patrol.at = "dead"
      BY <1>1 DEF ActivityInv, PatrolInv
    <3>2. gone >= 1 => act.kept
      BY <3>1 DEF ActivityInv, RunInv
    <3> QED
      BY <1>5, <3>1, <3>2
  <2>3. gone = 2 => act'.dead
    BY <1>5 DEF ActivityInv, PatrolInv
  <2> QED
    BY <1>1, <1>9, <2>1, <2>2, <2>3 DEF ActivityInv, PatrolInv
<1>13. DeadInv'
  <2>1. act.kept /\ patrol.at = "dead" => "old" \in fault' \/ vm.session = "ended"
    BY <1>8 DEF ActivityInv, PatrolInv, RunInv
  <2>2. act.kept /\ patrol.at = "load" /\ patrol.load => "old" \in fault' \/ vm.everStrained
    BY <1>8 DEF ActivityInv, PatrolInv, RunInv
  <2> QED
    BY <1>1, <1>5, <1>8, <2>1, <2>2 DEF ActivityInv, DeadInv
<1>14. WaitInv'
  <2>1. guest.idleFor \in 0..3
    BY DEF ActivityInv, ActivityTypeOK, Habits, Ages, StallAfter
  <2>2. Rests => Rests'
    <3>1. Rests /\ guest.idleFor >= 1 => \A r \in Reqs : act'.inflight[r] = -1 \/ act'.inflight[r] >= guest.idleFor
      BY <1>6 DEF Rests
    <3>2. Rests /\ guest.idleFor >= 2 => \A r \in Reqs : act'.inflight[r] = -1
      BY <1>6, <2>1 DEF Rests, ActivityInv, ActivityTypeOK, Accounts, Ages
    <3> QED
      BY <1>1, <2>1, <3>1, <3>2 DEF Rests
  <2> QED
    BY <1>1, <1>5, <1>8, <2>2 DEF ActivityInv, WaitInv, Told, Up
<1> QED
  BY <1>7, <1>10, <1>11, <1>12, <1>13, <1>14 DEF ActivityInv

(***************************************************************************)
(* The steps of the run                                                    *)
(***************************************************************************)

LEMMA CreateVMStep == ASSUME ActivityInv, CreateVM PROVE ActivityInv'
<1>1. /\ st = "starting" /\ vm.session = "none" /\ vm' = [NoVM EXCEPT !.session = "unlaunched"] /\ watch' = TRUE
      /\ UNCHANGED <<st, run, booted, held, ending, act, guest, stream, hooks, patrol, patrolled, gone, shown, count, fault>>
  BY DEF CreateVM, serveVars, patrolVars
<1>2. /\ vm' \in Machines /\ vm'.session = "unlaunched" /\ ~vm'.strained /\ ~vm'.everStrained
      /\ ~vm.everStrained /\ stream = <<>> /\ hooks = <<>>
  BY <1>1 DEF ActivityInv, RunInv, NoVM, Machines
<1>3. ActivityTypeOK'
  BY <1>1, <1>2 DEF ActivityInv, ActivityTypeOK
<1>4. RunInv'
  BY <1>1, <1>2 DEF ActivityInv, RunInv
<1>5. MessagesInv'
  BY <1>1, <1>2 DEF MessagesInv
<1>6. PatrolInv'
  <2>1. patrol.no = run.no => patrol.at # "dead" /\ ~patrol.load
    BY <1>1, <1>2 DEF ActivityInv, PatrolInv
  <2>2. ~(gone >= 1) /\ gone # 2
    BY <1>1 DEF ActivityInv, PatrolInv
  <2> QED
    BY <1>1, <1>2, <2>1, <2>2 DEF ActivityInv, PatrolInv
<1>7. DeadInv'
  BY <1>1, <1>2 DEF ActivityInv, DeadInv
<1>8. WaitInv'
  BY <1>1, <1>2 DEF ActivityInv, WaitInv, Up
<1> QED
  BY <1>1, <1>3, <1>4, <1>5, <1>6, <1>7, <1>8, RestIsLeft DEF ActivityInv

LEMMA LaunchStep == ASSUME ActivityInv, Launch PROVE ActivityInv'
<1>1. /\ st = "starting" /\ vm.session = "unlaunched" /\ vm' = [vm EXCEPT !.session = "alive"] /\ guest' = Silent
      /\ booted' = booted \cup {run.no} /\ st' = "running" /\ Show(st', act)
      /\ UNCHANGED <<run, watch, held, ending, stream, hooks, patrol, patrolled, gone, count, fault>>
  BY DEF Launch, patrolVars
<1>2. /\ act \in Accounts /\ run.no \in 1..MaxRuns /\ act.kept /\ stream = <<>> /\ hooks = <<>> /\ ~ending
      /\ guest = Silent
  BY <1>1 DEF ActivityInv, ActivityTypeOK, RunInv
<1>3. /\ vm' \in Machines /\ vm'.session = "alive" /\ vm'.strained = vm.strained /\ vm'.everStrained = vm.everStrained
  BY <1>1 DEF ActivityInv, ActivityTypeOK, Machines
<1>4. act' \in Accounts /\ act'.kept = act.kept /\ act'.dead = act.dead /\ act'.warn = act.warn /\ act'.last = act.last
  BY <1>1, <1>2, ShowIs
<1>5. shown' \in Kinds /\ ShownInv'
  BY <1>1, <1>2, WriteIs
<1>6. ActivityTypeOK'
  <2>1. booted' \subseteq 1..MaxRuns
    BY <1>1, <1>2 DEF ActivityInv, ActivityTypeOK
  <2>2. guest' \in Habits
    BY <1>1, SilentIs
  <2> QED
    BY <1>1, <1>3, <1>4, <1>5, <2>1, <2>2 DEF ActivityInv, ActivityTypeOK
<1>7. RunInv'
  BY <1>1, <1>2, <1>3, <1>4 DEF ActivityInv, RunInv
<1>8. MessagesInv'
  BY <1>1, <1>2 DEF MessagesInv
<1>9. PatrolInv'
  <2>1. patrol.no = run.no => patrol.at = "idle"
    BY <1>1 DEF ActivityInv, PatrolInv, RunInv
  <2>2. ~(gone >= 1) /\ gone # 2
    BY <1>1 DEF ActivityInv, PatrolInv
  <2> QED
    BY <1>1, <1>3, <2>1, <2>2 DEF ActivityInv, PatrolInv
<1>10. DeadInv'
  BY <1>1, <1>2, <1>3, <1>4 DEF ActivityInv, DeadInv
<1>11. QuietInv'
  BY <1>1, <1>2, <1>4 DEF ActivityInv, QuietInv
<1>12. WaitInv'
  BY <1>1, SilentIs DEF WaitInv
<1> QED
  BY <1>5, <1>6, <1>7, <1>8, <1>9, <1>10, <1>11, <1>12 DEF ActivityInv

LEMMA EngineMovesStep == ASSUME ActivityInv, EngineMoves PROVE ActivityInv'
<1>1. /\ st \in {"running", "gate"} /\ ~ending /\ st' \in {"running", "gate"} /\ Show(st', act)
      /\ UNCHANGED <<run, booted, watch, held, ending, vm, guest, stream, hooks, patrol, patrolled, gone, count, fault>>
  BY DEF EngineMoves, patrolVars
<1>2. act \in Accounts
  BY DEF ActivityInv, ActivityTypeOK
<1>3. /\ act' \in Accounts /\ act'.kept = act.kept /\ act'.dead = act.dead /\ act'.warn = act.warn
      /\ act'.last = act.last /\ act'.wait = act.wait
      /\ \A r \in Reqs : act'.inflight[r] \in {act.inflight[r], -1}
  BY <1>1, <1>2, ShowIs
<1>4. shown' \in Kinds /\ ShownInv'
  BY <1>1, <1>2, WriteIs
<1>5. ActivityTypeOK'
  BY <1>1, <1>3, <1>4 DEF ActivityInv, ActivityTypeOK
<1>6. RunInv'
  BY <1>1, <1>3 DEF ActivityInv, RunInv
<1>7. MessagesInv' /\ PatrolInv'
  BY <1>1, <1>3 DEF ActivityInv, MessagesInv, PatrolInv
<1>8. DeadInv'
  BY <1>1, <1>3 DEF ActivityInv, DeadInv
<1>9. QuietInv'
  BY <1>1, <1>3 DEF ActivityInv, QuietInv
<1> QED
  BY <1>1, <1>3, <1>4, <1>5, <1>6, <1>7, <1>8, <1>9, RestIsLeft DEF ActivityInv

LEMMA CleanUpStep == ASSUME ActivityInv, CleanUp PROVE ActivityInv'
<1>1. /\ st \in {"running", "gate"} /\ ~ending /\ Len(stream) <= MaxFlight /\ ending' = TRUE
      /\ vm' = [vm EXCEPT !.session = IF @ = "alive" THEN "destroyed" ELSE @]
      /\ stream' = IF watch THEN Append(stream, [kind |-> "stopped"]) ELSE stream
      /\ UNCHANGED <<st, run, booted, watch, held, act, guest, hooks, patrol, patrolled, gone, shown, count, fault>>
  BY DEF CleanUp, serveVars, patrolVars
<1>2. /\ vm' \in Machines /\ vm'.strained = vm.strained /\ vm'.everStrained = vm.everStrained
      /\ vm'.session = IF vm.session = "alive" THEN "destroyed" ELSE vm.session
  <2>1. PICK s \in {"none", "unlaunched", "alive", "ended", "failed", "destroyed"} :
          s = IF vm.session = "alive" THEN "destroyed" ELSE vm.session
    BY DEF ActivityInv, ActivityTypeOK, Machines
  <2>2. vm' = [vm EXCEPT !.session = s]
    BY <1>1, <2>1
  <2> QED
    BY <2>1, <2>2 DEF ActivityInv, ActivityTypeOK, Machines
<1>3. /\ stream' \in Seq(Events) /\ Len(stream') <= MaxFlight + 1
      /\ \A i \in DOMAIN stream : i \in DOMAIN stream' /\ stream'[i] = stream[i]
      /\ \A i \in DOMAIN stream' : stream'[i].kind = "stopped" \/ (i \in DOMAIN stream /\ stream'[i] = stream[i])
  <2>1. stream \in Seq(Events) /\ MaxFlight \in Nat
    BY BoundsAssumption DEF ActivityInv, ActivityTypeOK
  <2>2. CASE watch
    <3>1. PICK e \in Events : e = [kind |-> "stopped"]
      BY DEF Events
    <3>2. e.kind = "stopped" /\ stream' = Append(stream, e)
      BY <1>1, <2>2, <3>1
    <3>3. /\ stream' \in Seq(Events) /\ Len(stream') = Len(stream) + 1 /\ Len(stream) \in Nat
          /\ DOMAIN stream = 1..Len(stream) /\ DOMAIN stream' = 1..(Len(stream) + 1)
          /\ stream'[Len(stream) + 1] = e /\ \A i \in DOMAIN stream : stream'[i] = stream[i]
      BY <2>1, <3>2, AppendIs
    <3>4. \A i \in DOMAIN stream' : i = Len(stream) + 1 \/ i \in DOMAIN stream
      BY <3>3
    <3> QED
      BY <1>1, <2>1, <3>2, <3>3, <3>4
  <2>3. CASE ~watch
    <3>1. stream' = stream
      BY <1>1, <2>3
    <3> QED
      BY <3>1 DEF ActivityInv, ActivityTypeOK
  <2> QED
    BY <2>2, <2>3
<1>4. ActivityTypeOK'
  BY <1>1, <1>2, <1>3 DEF ActivityInv, ActivityTypeOK
<1>5. RunInv'
  BY <1>1, <1>2 DEF ActivityInv, RunInv
<1>6. MessagesInv'
  <2>1. \A i \in DOMAIN stream' : stream'[i].kind = "failed" => vm'.session = "failed"
    BY <1>2, <1>3 DEF ActivityInv, MessagesInv
  <2>2. \A i \in DOMAIN hooks : hooks[i] = "end" => vm'.session = "ended"
    BY <1>2 DEF ActivityInv, MessagesInv
  <2> QED
    BY <1>1, <2>1, <2>2 DEF MessagesInv
<1>7. PatrolInv'
  BY <1>1, <1>2 DEF ActivityInv, PatrolInv
<1>8. DeadInv'
  <2>1. vm'.session = "failed" => vm.session = "failed"
    BY <1>2
  <2>2. vm.session \in {"ended", "failed"} => vm'.session = vm.session
    BY <1>2
  <2> QED
    BY <1>1, <1>2, <1>3, <2>1, <2>2 DEF ActivityInv, DeadInv
<1>9. QuietInv'
  BY <1>1, <1>3 DEF ActivityInv, QuietInv
<1>10. WaitInv'
  BY <1>1, <1>2 DEF ActivityInv, WaitInv, Up
<1> QED
  BY <1>1, <1>4, <1>5, <1>6, <1>7, <1>8, <1>9, <1>10, RestIsLeft DEF ActivityInv

LEMMA RunIsDoneStep == ASSUME ActivityInv, RunIsDone PROVE ActivityInv'
<1>1. /\ ending /\ ending' = FALSE /\ st' = "done" /\ watch' = FALSE /\ Show(st', act)
      /\ UNCHANGED <<run, booted, held, vm, guest, stream, hooks, patrol, patrolled, gone, count, fault>>
  BY DEF RunIsDone, patrolVars
<1>2. act \in Accounts /\ st \in {"running", "gate"} /\ vm.session # "alive"
  BY <1>1 DEF ActivityInv, ActivityTypeOK, RunInv
<1>3. act' \in Accounts /\ act'.kept = act.kept /\ act'.dead = act.dead /\ act'.warn = act.warn
  BY <1>1, <1>2, ShowIs
<1>4. shown' \in Kinds /\ ShownInv'
  BY <1>1, <1>2, WriteIs
<1>5. ActivityTypeOK'
  BY <1>1, <1>3, <1>4 DEF ActivityInv, ActivityTypeOK
<1>6. RunInv'
  BY <1>1, <1>2, <1>3 DEF ActivityInv, RunInv
<1>7. MessagesInv' /\ PatrolInv'
  BY <1>1, <1>2, <1>3 DEF ActivityInv, MessagesInv, PatrolInv
<1>8. DeadInv' /\ QuietInv'
  BY <1>1, <1>2, <1>3 DEF ActivityInv, DeadInv, QuietInv
<1>9. WaitInv'
  BY <1>1, <1>2 DEF ActivityInv, WaitInv, Up
<1> QED
  BY <1>4, <1>5, <1>6, <1>7, <1>8, <1>9 DEF ActivityInv

LEMMA NoActIs == /\ NoAct \in Accounts /\ NoAct.last = 0 /\ NoAct.dead = FALSE /\ NoAct.warn = FALSE /\ NoAct.kept = FALSE
                 /\ Fresh \in Accounts /\ Fresh.last = 0 /\ Fresh.dead = FALSE /\ Fresh.warn = FALSE /\ Fresh.kept = TRUE
                 /\ NoVM \in Machines /\ NoVM.session = "none" /\ NoVM.strained = FALSE /\ NoVM.everStrained = FALSE
<1>1. NoAct \in Accounts /\ Fresh \in Accounts
  <2>1. [r \in Reqs |-> -1] \in [Reqs -> Ages \cup {-1}] /\ 0 \in Ages
    BY DEF Ages, StallAfter
  <2>2. NoAct \in Accounts
    BY <2>1 DEF NoAct, Accounts
  <2> QED
    BY <2>2 DEF Fresh, Accounts
<1>2. NoVM \in Machines
  BY DEF NoVM, Machines
<1> QED
  BY <1>1, <1>2 DEF NoAct, Fresh, NoVM

LEMMA StopStep == ASSUME ActivityInv, Stop PROVE ActivityInv'
<1>1. /\ st' = "stopped" /\ run' = [run EXCEPT !.here = FALSE] /\ vm' = NoVM /\ guest' = Silent /\ watch' = FALSE
      /\ ending' = FALSE /\ act' = NoAct /\ shown' = "idle" /\ gone' = 0 /\ stream' = <<>> /\ hooks' = <<>>
      /\ held' = {stream[i] : i \in {j \in DOMAIN stream : j = 1 /\ stream[j].kind \in {"started", "finished"}}}
                 \cup {[hook |-> hooks[i]] : i \in {j \in DOMAIN hooks : j = 1}}
      /\ UNCHANGED <<booted, patrol, patrolled, count, fault>>
  BY DEF Stop, patrolVars
<1>2. run' \in [no : 1..MaxRuns, here : BOOLEAN] /\ run'.no = run.no /\ run'.here = FALSE
  BY <1>1 DEF ActivityInv, ActivityTypeOK
<1>3. held' \subseteq Events \cup [hook : HookKinds]
  <2>1. stream \in Seq(Events) /\ hooks \in Seq(HookKinds)
    BY DEF ActivityInv, ActivityTypeOK
  <2>2. (\A i \in DOMAIN stream : stream[i] \in Events) /\ \A i \in DOMAIN hooks : hooks[i] \in HookKinds
    BY <2>1, ElementOfSeq, LenProperties
  <2> QED
    BY <1>1, <2>2
<1>4. stream' \in Seq(Events) /\ hooks' \in Seq(HookKinds) /\ Len(stream') = 0 /\ Len(hooks') = 0 /\ MaxFlight \in Nat
  BY <1>1, BoundsAssumption
<1>5. ActivityTypeOK'
  <2>1. Len(stream') <= MaxFlight + 1 /\ Len(hooks') <= MaxFlight + 1
    BY <1>4
  <2>2. shown' \in Kinds /\ gone' \in 0..2
    BY <1>1 DEF Kinds
  <2> QED
    BY <1>1, <1>2, <1>3, <1>4, <2>1, <2>2, NoActIs, SilentIs DEF ActivityInv, ActivityTypeOK
<1>6. RunInv'
  BY <1>1, <1>2, NoActIs DEF ActivityInv, RunInv
<1>7. MessagesInv'
  BY <1>1 DEF MessagesInv
<1>8. PatrolInv'
  BY <1>1, <1>2 DEF ActivityInv, PatrolInv
<1>9. DeadInv'
  BY <1>1, NoActIs DEF DeadInv
<1>10. QuietInv'
  BY <1>1, NoActIs, SilentIs DEF QuietInv
<1>11. WaitInv'
  BY <1>1, SilentIs DEF WaitInv
<1>12. ShownInv'
  BY <1>1, <1>5, KindIs DEF ShownInv, ActivityTypeOK
<1> QED
  BY <1>5, <1>6, <1>7, <1>8, <1>9, <1>10, <1>11, <1>12 DEF ActivityInv

LEMMA ResumeStep == ASSUME ActivityInv, Resume PROVE ActivityInv'
<1>1. /\ st = "stopped" /\ run.no < MaxRuns /\ st' = "starting" /\ run' = [no |-> run.no + 1, here |-> TRUE]
      /\ act' = Fresh
      /\ UNCHANGED <<booted, watch, held, ending, vm, guest, stream, hooks, patrol, patrolled, gone, shown, count, fault>>
  BY DEF Resume, patrolVars
<1>2. run' \in [no : 1..MaxRuns, here : BOOLEAN] /\ run'.no = run.no + 1 /\ run'.here = TRUE /\ run.no \in Nat
  BY <1>1, BoundsAssumption DEF ActivityInv, ActivityTypeOK
<1>3. vm.session = "none" /\ guest = Silent /\ stream = <<>> /\ hooks = <<>>
  BY <1>1 DEF ActivityInv, RunInv
<1>4. ActivityTypeOK'
  BY <1>1, <1>2, NoActIs DEF ActivityInv, ActivityTypeOK
<1>5. RunInv'
  <2>1. \A n \in booted : n <= run.no + 1 /\ n # run.no + 1
    BY <1>2 DEF ActivityInv, ActivityTypeOK, RunInv
  <2> QED
    BY <1>1, <1>2, <1>3, <2>1, NoActIs DEF ActivityInv, RunInv
<1>6. MessagesInv'
  BY <1>1, <1>3 DEF MessagesInv
<1>7. PatrolInv'
  <2>1. patrol.no <= run.no + 1 /\ patrol.no # run.no + 1
    BY <1>2 DEF ActivityInv, ActivityTypeOK, PatrolInv
  <2>2. ~(gone >= 1) /\ gone # 2
    BY <1>3 DEF ActivityInv, PatrolInv
  <2> QED
    BY <1>1, <1>2, <2>1, <2>2 DEF ActivityInv, PatrolInv
<1>8. DeadInv'
  BY <1>1, <1>3, NoActIs DEF DeadInv
<1>9. QuietInv'
  BY <1>1, <1>3, NoActIs, SilentIs DEF QuietInv
<1>10. WaitInv'
  BY <1>1, <1>3, SilentIs DEF WaitInv
<1>11. ShownInv'
  <2>1. shown = "idle"
    BY <1>1, KindIs DEF ActivityInv, ActivityTypeOK, ShownInv
  <2>2. Kind(st', act') = "idle"
    BY <1>1, NoActIs, KindIs
  <2> QED
    BY <1>1, <2>1, <2>2 DEF ShownInv
<1> QED
  BY <1>4, <1>5, <1>6, <1>7, <1>8, <1>9, <1>10, <1>11 DEF ActivityInv

LEMMA OlderIs ==
    ASSUME NEW age \in Ages, NEW late \in Ages
    PROVE  /\ Older(age) \in Ages /\ Older(age) >= age /\ Older(age) >= 1
           /\ age <= late => Older(age) <= Older(late)
           /\ age >= 3 => Older(age) >= 3 /\ age = 3
           /\ age < 3 => Older(age) = age + 1
  BY DEF Older, Ages, StallAfter

LEMMA TickStep == ASSUME ActivityInv, Tick PROVE ActivityInv'
<1>1. /\ stream = <<>> /\ hooks = <<>> /\ patrol.at = "idle" /\ ~ending /\ st \in {"running", "gate"} /\ patrolled
      /\ act' = [act EXCEPT !.last = Older(@),
                            !.inflight = [r \in Reqs |-> IF @[r] = -1 THEN -1 ELSE Older(@[r])]]
      /\ guest' = [guest EXCEPT !.quiet = Older(@), !.idleFor = IF guest.idle THEN Older(@) ELSE 0]
      /\ gone' = IF vm.session \in {"ended", "failed"} /\ gone < 2 THEN gone + 1 ELSE gone
      /\ patrolled' = FALSE
      /\ UNCHANGED <<st, run, booted, watch, held, ending, vm, stream, hooks, patrol, shown, count, fault>>
  BY DEF Tick, runningVars, serveVars
<1>2. /\ act \in Accounts /\ act.last \in Ages /\ guest \in Habits /\ guest.quiet \in Ages /\ guest.idleFor \in Ages
      /\ (\A r \in Reqs : act.inflight[r] \in Ages \cup {-1}) /\ guest.idle \in BOOLEAN
      /\ -1 \notin Ages /\ 0 \in Ages
  BY DEF ActivityInv, ActivityTypeOK, Accounts, Habits, Ages, StallAfter
<1>3. /\ act' \in Accounts /\ act'.last = Older(act.last)
      /\ act'.wait = act.wait /\ act'.dead = act.dead /\ act'.auth = act.auth /\ act'.warn = act.warn /\ act'.kept = act.kept
      /\ \A r \in Reqs : act'.inflight[r] = IF act.inflight[r] = -1 THEN -1 ELSE Older(act.inflight[r])
  <2>1. PICK ages : ages = [r \in Reqs |-> IF act.inflight[r] = -1 THEN -1 ELSE Older(act.inflight[r])]
    OBVIOUS
  <2>2. ages \in [Reqs -> Ages \cup {-1}] /\ Older(act.last) \in Ages
    BY <1>2, <2>1, OlderIs
  <2>3. act' = [act EXCEPT !.last = Older(act.last), !.inflight = ages]
    BY <1>1, <2>1
  <2> QED
    BY <1>2, <2>1, <2>2, <2>3 DEF Accounts
<1>4. /\ guest' \in Habits /\ guest'.quiet = Older(guest.quiet) /\ guest'.idle = guest.idle /\ guest'.told = guest.told
      /\ guest'.idleFor = (IF guest.idle THEN Older(guest.idleFor) ELSE 0) /\ guest'.open = guest.open
  <2>1. PICK age \in Ages : age = IF guest.idle THEN Older(guest.idleFor) ELSE 0
    BY <1>2, OlderIs
  <2>2. guest' = [guest EXCEPT !.quiet = Older(guest.quiet), !.idleFor = age] /\ Older(guest.quiet) \in Ages
    BY <1>1, <1>2, <2>1, OlderIs
  <2> QED
    BY <1>2, <2>1, <2>2 DEF Habits
<1>5. /\ gone' \in 0..2 /\ (gone' = 2 => gone >= 1) /\ (gone' >= 1 => vm.session \in {"ended", "failed"})
  BY <1>1 DEF ActivityInv, ActivityTypeOK, PatrolInv
<1>6. ActivityTypeOK'
  BY <1>1, <1>3, <1>4, <1>5 DEF ActivityInv, ActivityTypeOK
<1>7. RunInv'
  BY <1>1, <1>3 DEF ActivityInv, RunInv
<1>8. MessagesInv'
  BY <1>1 DEF ActivityInv, MessagesInv
<1>9. PatrolInv'
  BY <1>1, <1>3, <1>5 DEF ActivityInv, PatrolInv
<1>10. DeadInv'
  BY <1>1, <1>3 DEF ActivityInv, DeadInv
<1>11. QuietInv'
  <2>1. act.last <= guest.quiet => act'.last <= guest'.quiet
    BY <1>2, <1>3, <1>4, OlderIs
  <2> QED
    BY <1>1, <2>1 DEF ActivityInv, QuietInv
<1>12. WaitInv'
  <2>1. Told(act.wait, hooks) => Told(act'.wait, hooks')
    BY <1>1, <1>3
  <2>2. ASSUME Rests, guest.idle PROVE Rests'
    <3>1. guest'.idleFor = Older(guest.idleFor)
      BY <1>4, <2>2
    <3>2. ASSUME NEW r \in Reqs PROVE act'.inflight[r] = -1 \/ act'.inflight[r] >= guest'.idleFor
      <4>1. CASE act.inflight[r] = -1
        BY <1>3, <4>1
      <4>2. CASE act.inflight[r] # -1
        <5>1. act.inflight[r] \in Ages /\ act'.inflight[r] = Older(act.inflight[r])
          BY <1>2, <1>3, <4>2
        <5>2. CASE guest.idleFor >= 1
          <6>1. guest.idleFor <= act.inflight[r]
            BY <1>2, <2>2, <4>2, <5>1, <5>2 DEF Rests, Ages
          <6> QED
            BY <1>2, <3>1, <5>1, <6>1, OlderIs DEF Ages
        <5>3. CASE ~(guest.idleFor >= 1)
          <6>1. guest'.idleFor = 1
            BY <1>2, <3>1, <5>3, OlderIs DEF Ages
          <6> QED
            BY <5>1, <6>1, OlderIs
        <5> QED
          BY <5>2, <5>3
      <4> QED
        BY <4>1, <4>2
    <3>3. guest'.idleFor >= 3 => \A r \in Reqs : act'.inflight[r] = -1
      <4>1. guest'.idleFor >= 3 => guest.idleFor >= 3 \/ (guest.idleFor = 2 /\ patrolled)
        BY <1>1, <1>2, <3>1, OlderIs DEF Ages, StallAfter
      <4> QED
        BY <1>3, <2>2, <4>1 DEF Rests
    <3>4. DOMAIN stream' = {}
      BY <1>1
    <3> QED
      BY <1>1, <3>2, <3>3, <3>4 DEF Rests
  <2> QED
    BY <1>1, <1>4, <2>1, <2>2 DEF ActivityInv, WaitInv, Up
<1>13. ShownInv'
  <2>1. (\E r \in Reqs : act'.inflight[r] >= 0) <=> \E r \in Reqs : act.inflight[r] >= 0
    <3>1. ASSUME NEW r \in Reqs PROVE act'.inflight[r] >= 0 <=> act.inflight[r] >= 0
      <4>1. CASE act.inflight[r] = -1
        BY <1>3, <4>1
      <4>2. CASE act.inflight[r] # -1
        BY <1>2, <1>3, <4>2, OlderIs DEF Ages
      <4> QED
        BY <4>1, <4>2
    <3> QED
      BY <3>1
  <2>2. act.last >= 3 => act'.last >= 3
    BY <1>2, <1>3, OlderIs
  <2>3. CASE st = "gate"
    BY <1>1, <1>2, <1>3, <2>3, KindIs DEF ActivityInv, ShownInv
  <2>4. CASE st = "running"
    <3>1. act.kept
      BY <2>4 DEF ActivityInv, RunInv
    <3>2. Kind(st', act') = Kind(st, act) \/ (Kind(st, act) = "working" /\ Kind(st', act') = "stalled")
      <4> DEFINE KindOf(a) == IF a.dead THEN "dead"
                              ELSE IF a.auth THEN "auth_rejected"
                              ELSE IF \E r \in Reqs : a.inflight[r] >= 0 THEN "working"
                              ELSE IF a.wait THEN "waiting_input"
                              ELSE IF a.last >= 3 THEN "stalled"
                              ELSE "working"
      <4>1. Kind(st, act) = KindOf(act)
        BY <1>2, <2>4, <3>1, KindIs
      <4>2. Kind(st', act') = KindOf(act')
        BY <1>1, <1>3, <2>4, <3>1, KindIs
      <4>3. KindOf(act') = KindOf(act) \/ (KindOf(act) = "working" /\ KindOf(act') = "stalled")
        BY <1>3, <2>1, <2>2
      <4> QED
        BY <4>1, <4>2, <4>3
    <3> QED
      BY <1>1, <3>2 DEF ActivityInv, ShownInv
  <2> QED
    BY <1>1, <2>3, <2>4
<1> QED
  BY <1>6, <1>7, <1>8, <1>9, <1>10, <1>11, <1>12, <1>13 DEF ActivityInv

(***************************************************************************)
(* The activity: the theorems                                              *)
(***************************************************************************)

LEMMA ActivityStart == ActivityInit => ActivityInv
<1> SUFFICES ASSUME ActivityInit PROVE ActivityInv
  OBVIOUS
<1>1. /\ st = "starting" /\ run = [no |-> 1, here |-> TRUE] /\ booted = {} /\ act = Fresh /\ vm = NoVM
      /\ guest = Silent /\ stream = <<>> /\ watch = FALSE /\ hooks = <<>> /\ held = {}
      /\ patrol = [at |-> "idle", no |-> 0, load |-> FALSE] /\ patrolled = FALSE /\ ending = FALSE /\ gone = 0
      /\ shown = "idle" /\ count = [breaks |-> 0, strain |-> 0] /\ fault = {}
  BY DEF ActivityInit
<1>2. /\ patrol \in [at : Looks, no : 0..MaxRuns, load : BOOLEAN] /\ run \in [no : 1..MaxRuns, here : BOOLEAN]
      /\ count \in [breaks : 0..MaxBreaks, strain : 0..MaxStrain]
      /\ shown \in Kinds /\ MaxFlight \in Nat
  BY <1>1, BoundsAssumption DEF Looks, Kinds
<1>3. ActivityTypeOK
  <2>1. stream \in Seq(Events) /\ hooks \in Seq(HookKinds) /\ Len(stream) <= MaxFlight + 1 /\ Len(hooks) <= MaxFlight + 1
    BY <1>1, <1>2
  <2>2. booted \subseteq 1..MaxRuns /\ held \subseteq Events \cup [hook : HookKinds] /\ fault \subseteq Faults /\ gone \in 0..2
    BY <1>1
  <2> QED
    BY <1>1, <1>2, <2>1, <2>2, NoActIs, SilentIs DEF ActivityTypeOK
<1>4. RunInv /\ MessagesInv
  BY <1>1, NoActIs DEF RunInv, MessagesInv
<1>5. PatrolInv /\ DeadInv
  BY <1>1, NoActIs DEF PatrolInv, DeadInv
<1>6. QuietInv /\ WaitInv
  BY <1>1, NoActIs, SilentIs DEF QuietInv, WaitInv
<1>7. ShownInv
  BY <1>1, NoActIs, KindIs DEF ShownInv
<1> QED
  BY <1>3, <1>4, <1>5, <1>6, <1>7 DEF ActivityInv

LEMMA ActivityStutter == ASSUME ActivityInv, UNCHANGED activityVars PROVE ActivityInv'
<1>1. UNCHANGED <<st, run, booted, act, vm, guest, stream, watch, hooks, held, patrol, patrolled, ending, gone,
                  shown, count, fault>>
  BY DEF activityVars, runningVars, serveVars, patrolVars
<1>2. ActivityTypeOK'
  BY <1>1 DEF ActivityInv, ActivityTypeOK
<1> QED
  BY <1>1, <1>2, RestIsLeft DEF ActivityInv

LEMMA ActivityStep == ASSUME ActivityInv, ActivityNext PROVE ActivityInv'
<1>1. CASE \E r \in Reqs : Request(r) \/ CutRequest(r) \/ \E ok \in BOOLEAN : Respond(r, ok)
  BY <1>1, RequestStep, CutRequestStep, RespondStep
<1>2. CASE UseTool
  BY <1>2, BusyStep DEF UseTool
<1>3. CASE EndTurn
  BY <1>3, BusyStep DEF EndTurn
<1>4. CASE \E asks \in BOOLEAN : Wait(asks)
  BY <1>4, WaitStep
<1>5. CASE IdlePrompt \/ VMFails \/ Load
  BY <1>5, IdlePromptStep, VMFailsStep, LoadStep
<1>6. CASE \E says \in BOOLEAN : SessionEnds(says)
  BY <1>6, SessionEndsStep
<1>7. CASE WatchSandbox \/ StreamBreaks \/ ObserveHook
  BY <1>7, WatchSandboxStep, StreamBreaksStep, ObserveHookStep
<1>8. CASE \E o \in held : OldObservation(o)
  BY <1>8, OldObservationStep
<1>9. CASE PatrolShows \/ PatrolLooks \/ Alive \/ Measure \/ PatrolEnds
  BY <1>9, PatrolShowsStep, PatrolLooksStep, AliveStep, MeasureStep, PatrolEndsStep
<1>10. CASE CreateVM \/ Launch \/ EngineMoves \/ CleanUp \/ RunIsDone \/ Stop \/ Resume \/ Tick
  BY <1>10, CreateVMStep, LaunchStep, EngineMovesStep, CleanUpStep, RunIsDoneStep, StopStep, ResumeStep, TickStep
<1> QED
  BY <1>1, <1>2, <1>3, <1>4, <1>5, <1>6, <1>7, <1>8, <1>9, <1>10 DEF ActivityNext

\* The types of the activity and the invariant that the theorems below rest on hold in every
\* state, however events, hooks, patrols, stops and resumes are interleaved.
THEOREM ActivityHolds == ActivitySpec => []ActivityInv
<1>1. ActivityInv /\ [ActivityNext]_activityVars => ActivityInv'
  BY ActivityStep, ActivityStutter
<1> QED
  BY <1>1, ActivityStart, PTL DEF ActivitySpec

LEMMA ActivityIsTrue == ActivityInv => ShownIsTrueUnlessSlip
<1> SUFFICES ASSUME ActivityInv PROVE ShownIsTrueUnlessSlip
  OBVIOUS
<1>1. act \in Accounts /\ st \in {"starting", "running", "gate", "stopped", "done"}
  BY DEF ActivityInv, ActivityTypeOK
<1>2. shown \in {"dead", "stalled"} => Kind(st, act) = shown
  BY DEF ActivityInv, ShownInv
<1>3. shown = "dead" => st = "running" /\ act.dead
  BY <1>1, <1>2, KindIs
<1>4. shown = "stalled" => st = "running" /\ act.last >= 3
  BY <1>1, <1>2, KindIs
<1>5. DeadIsTrue
  BY <1>3 DEF ActivityInv, DeadInv, DeadIsTrue
<1>6. StalledIsTrue
  <2>1. act.last \in 0..3 /\ guest.quiet \in 0..3
    BY DEF ActivityInv, ActivityTypeOK, Accounts, Habits, Ages, StallAfter
  <2> QED
    BY <1>4, <2>1 DEF ActivityInv, QuietInv, StalledIsTrue, StallAfter
<1>7. WarningIsOfThisVM
  BY DEF ActivityInv, DeadInv, WarningIsOfThisVM
<1> QED
  BY <1>5, <1>6, <1>7 DEF ShownIsTrueUnlessSlip

LEMMA ActivityIsShown == ActivityInv => EndAndWaitAreShownUnlessSlip
<1> SUFFICES ASSUME ActivityInv PROVE EndAndWaitAreShownUnlessSlip
  OBVIOUS
<1>1. act \in Accounts
  BY DEF ActivityInv, ActivityTypeOK
<1>2. st = "running" => act.kept
  BY DEF ActivityInv, RunInv
<1>3. st = "running" /\ act.dead => shown = "dead"
  BY <1>1, <1>2, KindIs DEF ActivityInv, ShownInv
<1>4. DeadIsShownUnlessSlip
  <2>1. gone = 2 => act.dead
    BY DEF ActivityInv, PatrolInv
  <2>2. vm.session = "failed" /\ stream = <<>> => act.dead \/ "broken" \in fault
    BY DEF ActivityInv, DeadInv
  <2> QED
    BY <1>3, <2>1, <2>2 DEF DeadIsShownUnlessSlip
<1>5. WaitIsShownUnlessSlip
  <2> SUFFICES ASSUME st = "running", Up, guest.idle, guest.told, guest.idleFor > 2, hooks = <<>>,
                      fault \cap {"crossed", "old"} = {}
               PROVE  shown \in {"waiting_input", "auth_rejected", "dead"}
    BY DEF WaitIsShownUnlessSlip, InflightStale
  <2>1. act.wait
    BY DEF ActivityInv, WaitInv, Told
  <2>2. guest.idleFor >= 3
    BY DEF ActivityInv, ActivityTypeOK, Habits, Ages
  <2>3. ~\E r \in Reqs : act.inflight[r] >= 0
    BY <2>2 DEF ActivityInv, WaitInv, Rests
  <2>4. Kind(st, act) \in {"waiting_input", "auth_rejected", "dead"}
    BY <1>1, <1>2, <2>1, <2>3, KindIs
  <2> QED
    BY <2>4 DEF ActivityInv, ShownInv
<1> QED
  BY <1>4, <1>5 DEF EndAndWaitAreShownUnlessSlip

\* What is shown of a run is true of the VM that the run has: DEAD and STALLED are what the
\* session really is, and a warning is of its load (serve/activity.go, serve/resources.go).
THEOREM ShownIsTrue == ActivitySpec => []ShownIsTrueUnlessSlip
  BY ActivityHolds, ActivityIsTrue, PTL

\* The end of a session and its wait for a person are shown, whatever calls fail and whatever
\* requests are given up without a word (inflightStale, idlePromptAfter).
THEOREM EndAndWaitAreShown == ActivitySpec => []EndAndWaitAreShownUnlessSlip
  BY ActivityHolds, ActivityIsShown, PTL
=============================================================================
