------------------------------ MODULE WakeInv ------------------------------
(***************************************************************************)
(* The inductive invariant behind the safety properties of Wake.           *)
(*                                                                         *)
(* WakerInv and CallInv say who owns what, HandOutInv that a status on its *)
(* way to the main session is current.  WakeupInv says why no wake-up is   *)
(* lost.  It follows one call of next_task from its clearWaiting to the    *)
(* parked main session: as long as the engine stands at a position with    *)
(* something to do, or gets there without another requestWake (Danger),    *)
(* the advance loop owes a bump, which the call is going to notice, or a   *)
(* wake is coming that finds `waiting` set.                                *)
(***************************************************************************)
EXTENDS Wake

\* tryWake: one sender, and room for the send it is going to count.
WakerInv ==
    /\ OneWakeAtATime
    /\ \A w \in Wakers : waker[w] # "idle" => waking /\ wakeSends < WakeMaxSends

\* The guest has at most one open call; a ticket belongs to a call in its first
\* select; a sub-agent reports only while the main session works on its task.
CallInv ==
    /\ \A h \in Calls :
          /\ call[h] = "idle" => ~gone[h]
          /\ call[h] # "idle" /\ ~gone[h] => live = h
          /\ call[h] = "undelivered" => gone[h]
          /\ ticket[h] # "none" => call[h] = "run"
          /\ ticket[h] = "next" => queued
          /\ ticket[h] = "running" => loop \in {"advance", "bump", "wake", "close"}
    /\ live \in Calls => call[live] # "idle" /\ ~gone[live]
    /\ guest = "calling" <=> live \in Calls
    /\ reporter["tool"] # "idle" => guest = "working"

\* What a live call is going to hand out is where the engine stands.
Finished == loop \in {"bump", "wake", "close"}

HandOutInv ==
    \A h \in Calls : ~gone[h] =>
        /\ ticket[h] = "running" /\ Finished /\ WakesMainSession(loopSt) =>
              pos = loopSt
        /\ WakesMainSession(ticket[h]) => pos = ticket[h]
        /\ WakesMainSession(answer[h]) => call[h] # "idle" /\ pos = answer[h]

\* Handlers whose connection was cut ask for a wake at their end.  Together with
\* a wake that is already asked for, only the next call can undo this.
Assured ==
    \/ waiting /\ wantWake
    \/ \E h \in Calls : gone[h] /\ call[h] \notin {"idle", "undelivered", "deliver"}
    \/ waiting /\ \E h \in Calls : call[h] = "undelivered"

\* There is something to do, or decide and answer are about to get there with an
\* advance of their own, which counts no event and wakes nobody.
Danger ==
    \/ WakesMainSession(pos)
    \/ pos = "host" /\ reporter["api"] \in {"wake", "advance"}

\* The loop still owes a bump for the position it is going to find.
LoopOwesBump ==
    \/ queued \/ loop = "advance"
    \/ loop = "bump" /\ WakesMainSession(loopSt)

\* A wake is still coming for a session that has `waiting` set.
Owed == LoopOwesBump \/ loop = "wake" \/ reporter["api"] = "wake"

\* The status "human" of a live call's advance is current, or the report that
\* made it stale closes the channel of the call before it is advanced.
StaleSeen(h) ==
    \/ pos = "human"
    \/ chClosed[h]
    \/ pos = "host" /\ reporter["api"] \in {"idle", "save", "close"}

LiveCallInv(h) ==
    /\ ticket[h] = "running" => ~queued
    /\ ticket[h] \in Result \/ call[h] = "select" =>
          ~queued /\ loop \in {"take", "off"}
    /\ \/ ticket[h] = "running" /\ Finished /\ loopSt = "human"
       \/ ticket[h] = "human"
       \/ call[h] = "select"
       => StaleSeen(h)
    /\ ticket[h] = "running" /\ Finished => loopSt # "error"
    /\ call[h] \in {"run", "mark"} /\ ~moved[h] /\ Danger => LoopOwesBump
    /\ call[h] = "askwake" => waiting
    /\ call[h] \in {"mark", "askwake"} => answer[h] = "waiting"
    /\ call[h] \in {"return", "deliver"} /\ answer[h] = "waiting" =>
          waiting /\ (Danger => Owed)

WakeupInv ==
    slip = "none" /\ ~stopping /\ ~Assured =>
        /\ \A h \in Calls : ~gone[h] => LiveCallInv(h)
        /\ guest = "parked" => waiting /\ (Danger => Owed)

IInv == TypeOK /\ WakerInv /\ CallInv /\ HandOutInv /\ WakeupInv

=============================================================================
