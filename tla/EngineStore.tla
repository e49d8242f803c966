---------------------------- MODULE EngineStore ----------------------------
(***************************************************************************)
(* What the engine is promised of its store: an Apply takes effect at one    *)
(* moment, with everything it writes, on values that are still those it      *)
(* checked; or it has no effect.                                           *)
(***************************************************************************)
EXTENDS Naturals

CONSTANTS Keys, Users, MaxValue

Values == 0..MaxValue
Nothing == [keys |-> {}, seen |-> [k \in Keys |-> 0]]
Requests == [keys : SUBSET Keys, seen : [Keys -> Values]]

VARIABLES kv,      \* the values
          pending  \* the Apply of each user that has had no effect so far

vars == <<kv, pending>>

Init == kv = [k \in Keys |-> 0] /\ pending = [u \in Users |-> Nothing]

\* An Apply of u: it writes keys, if they are as u has read them.
Ask(u, r) ==
    /\ pending[u] = Nothing /\ r.keys # {}
    /\ pending' = [pending EXCEPT ![u] = r]
    /\ UNCHANGED kv

Holds(r) == \A k \in r.keys : kv[k] = r.seen[k]
Written(r, m) == [k \in Keys |-> IF k \in r.keys THEN r.seen[k] + 1 ELSE m[k]]

Take(u) ==
    /\ pending[u] # Nothing /\ Holds(pending[u])
    /\ kv' = Written(pending[u], kv)
    /\ pending' = [pending EXCEPT ![u] = Nothing]

\* Refused, failed, or lost with the process.
Drop(us) ==
    /\ pending' = [u \in Users |-> IF u \in us THEN Nothing ELSE pending[u]]
    /\ UNCHANGED kv

Next ==
    \/ \E u \in Users : (\E r \in Requests : Ask(u, r)) \/ Take(u)
    \/ \E us \in SUBSET Users : Drop(us)
=============================================================================
