------------------------------ MODULE EventFeed ------------------------------
(***************************************************************************)
(* What Watch promises, without the ring and the locks of EventBus: one    *)
(* log of numbered events for all workspaces, and streams that go through  *)
(* it from where they were opened, in order, passing over nothing that     *)
(* they want.  A stream may jump only over events that are no longer kept, *)
(* and it starts over when serve does.                                     *)
(***************************************************************************)
EXTENDS Integers, Sequences

CONSTANTS Watchers, All, Nobody, BufferSize

VARIABLES log,    \* the events since serve started
          id,     \* the workspace a watcher asks for, or All
          pos,    \* how far its stream is in log, or Off
          heard   \* the number of the last event it was sent, or 0

feedVars == <<log, id, pos, heard>>

Off == -1

\* Events of no workspace go to everybody.
Wants(k, e) == id[k] = All \/ e.ws \in {id[k], Nobody}

\* k wants nothing of what lies behind a, up to b.
PassesOver(k, a, b) == \A n \in (a + 1)..b : ~Wants(k, log[n])

Init == /\ log = <<>>
        /\ pos = [k \in Watchers |-> Off]
        /\ heard = [k \in Watchers |-> 0]

Publish == /\ Len(log') = Len(log) + 1
           /\ log = SubSeq(log', 1, Len(log))
           /\ log'[Len(log')].seq = Len(log')
           /\ UNCHANGED <<id, pos, heard>>

\* The oldest position from which everything is still kept.
Kept == IF Len(log) > BufferSize THEN Len(log) - BufferSize ELSE 0

\* A stream starts where nothing that follows is lost yet.
Open(k) == /\ pos[k] = Off
           /\ \E n \in Kept..Len(log) : pos' = [pos EXCEPT ![k] = n]
           /\ heard' = [heard EXCEPT ![k] = 0]
           /\ UNCHANGED <<log, id>>

Advance(k) ==
    /\ pos[k] # Off
    /\ \E a \in {pos[k]} \cup (IF pos[k] < Kept THEN {Kept} ELSE {}) :
       \E b \in a..Len(log) :
          PassesOver(k, a, b) /\ pos' = [pos EXCEPT ![k] = b]
    /\ UNCHANGED <<log, id, heard>>

Deliver(k) ==
    /\ pos[k] # Off /\ pos[k] < Len(log)
    /\ Wants(k, log[pos[k] + 1])
    /\ heard' = [heard EXCEPT ![k] = log[pos[k] + 1].seq]
    /\ \E b \in (pos[k] + 1)..Len(log) :
          PassesOver(k, pos[k] + 1, b) /\ pos' = [pos EXCEPT ![k] = b]
    /\ UNCHANGED <<log, id>>

Close(k) == /\ pos[k] # Off
            /\ pos' = [pos EXCEPT ![k] = Off]
            /\ UNCHANGED <<log, id, heard>>

\* The stream that is sent the event it waited for ends with it.
DeliverLast(k) ==
    /\ pos[k] # Off /\ pos[k] < Len(log)
    /\ Wants(k, log[pos[k] + 1])
    /\ heard' = [heard EXCEPT ![k] = log[pos[k] + 1].seq]
    /\ pos' = [pos EXCEPT ![k] = Off]
    /\ UNCHANGED <<log, id>>

Restart == /\ log' = <<>>
           /\ pos' = [k \in Watchers |-> Off]
           /\ UNCHANGED <<id, heard>>

Next == \/ Publish \/ Restart
        \/ \E k \in Watchers : \/ Open(k) \/ Advance(k) \/ Deliver(k)
                               \/ DeliverLast(k) \/ Close(k)

Spec == Init /\ [][Next]_feedVars
=============================================================================
