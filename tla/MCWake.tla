------------------------------- MODULE MCWake -------------------------------
(* Wake on a small instance. *)
EXTENDS WakeInv

\* What comes after the first slip, until the next next_task, is not followed.
NoSlip == slip = "none"

\* A Stop is followed only if it comes before a wake is under way.
StopEarly == stopping => wakeSends = 0 /\ ~waking /\ reporter["tool"] = "idle"
=============================================================================
