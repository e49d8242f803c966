----------------------------- MODULE FileStore -----------------------------
(***************************************************************************)
(* records/engine.json (internal/runner/store.go): a FileStore holds all of  *)
(* it in memory and writes the whole file anew for every change.           *)
(*                                                                         *)
(* Each run of a workspace opens a store of its own.  Stop waits two minutes *)
(* for the engine of a run to return and goes on without it, so that a host  *)
(* node of the old run can come back to its store after a Resume.          *)
(***************************************************************************)
EXTENDS Naturals, FiniteSets

CONSTANTS Keys, Users, MaxValue,
          Runs  \* the runs of a workspace, 1 to the last

ASSUME StoreAssumption == Runs \subseteq Nat \ {0} /\ 1 \in Runs /\ MaxValue \in Nat

VARIABLES
    file,    \* engine.json
    m,       \* what each run's store has in memory
    stores,  \* the runs whose store is open
    op,      \* the Apply of each user, and the run it works for
    two      \* history: a run wrote over what another had written

storeVars == <<file, m, stores, op, two>>

\* engine.json is the store that the engine is promised: what has not been renamed into
\* place has had no effect.
Promised == INSTANCE EngineStore WITH
    kv <- file, pending <- [u \in Users |-> IF op[u].at \in {"asked", "writing"} THEN op[u].r
                                           ELSE [keys |-> {}, seen |-> [k \in Keys |-> 0]]]

Nothing == Promised!Nothing
Written(r, map) == Promised!Written(r, map)

NoOp == [at |-> "none", run |-> 0, r |-> Nothing, next |-> [k \in Keys |-> 0]]
Maps == [Keys -> 0..MaxValue]

Ops == [at : {"none", "asked", "writing", "renamed"}, run : Runs \cup {0}, r : Promised!Requests, next : Maps]

StoreTypeOK ==
    /\ file \in Maps
    /\ m \in [Runs -> Maps]
    /\ stores \subseteq Runs
    /\ op \in [Users -> Ops]
    /\ two \in BOOLEAN

StoreInit ==
    /\ file = [k \in Keys |-> 0]
    /\ m = [g \in Runs |-> file]
    /\ stores = {1}
    /\ op = [u \in Users |-> NoOp]
    /\ two = FALSE

\* OpenFileStore of run g; the runs of the set left have not returned from the engine.
OpenStore(g, left) ==
    /\ m' = [m EXCEPT ![g] = file]
    /\ stores' = left \cup {g}
    /\ UNCHANGED <<file, op, two>>

\* A user of run g has read the values, and applies a change of some keys.
Request(u, g, keys) ==
    /\ g \in stores /\ op[u] = NoOp /\ keys # {}
    /\ \A k \in keys : m[g][k] < MaxValue
    /\ op' = [op EXCEPT ![u] = [NoOp EXCEPT !.at = "asked", !.run = g, !.r = [keys |-> keys, seen |-> m[g]]]]
    /\ UNCHANGED <<file, m, stores, two>>

\* s.mu of the store of g.
Unlocked(g) == \A u \in Users : op[u].run = g => op[u].at \notin {"writing", "renamed"}

Checks(u) == \A k \in op[u].r.keys : m[op[u].run][k] = op[u].r.seen[k]

\* Mutant: nothing is checked.
ApplyUnchecked(u) ==
    /\ op[u].at = "asked" /\ Unlocked(op[u].run)
    /\ op' = [op EXCEPT ![u].at = "writing", ![u].next = Written(op[u].r, m[op[u].run])]
    /\ UNCHANGED <<file, m, stores, two>>

\* Apply: the checks, and the new map beside the old one.
Apply(u) ==
    /\ op[u].at = "asked" /\ Unlocked(op[u].run)
    /\ IF Checks(u)
       THEN op' = [op EXCEPT ![u].at = "writing", ![u].next = Written(op[u].r, m[op[u].run])]
       ELSE op' = [op EXCEPT ![u] = NoOp]
    /\ UNCHANGED <<file, m, stores, two>>

\* The temporary file is written and takes the place of the old one.
Rename(u) ==
    /\ op[u].at = "writing"
    /\ file' = op[u].next
    /\ op' = [op EXCEPT ![u].at = "renamed"]
    /\ two' = (two \/ file # m[op[u].run])
    /\ UNCHANGED <<m, stores>>

\* The temporary file cannot be written; the memory is as it was.
WriteFails(u) ==
    /\ op[u].at = "writing"
    /\ op' = [op EXCEPT ![u] = NoOp]
    /\ UNCHANGED <<file, m, stores, two>>

Swap(u) ==
    /\ op[u].at = "renamed"
    /\ m' = [m EXCEPT ![op[u].run] = op[u].next]
    /\ op' = [op EXCEPT ![u] = NoOp]
    /\ UNCHANGED <<file, stores, two>>

\* serve ends: what was in memory is gone.
CrashStore ==
    /\ stores' = {}
    /\ m' = [g \in Runs |-> [k \in Keys |-> 0]]
    /\ op' = [u \in Users |-> NoOp]
    /\ UNCHANGED <<file, two>>

StoreStep ==
    \E u \in Users :
        \/ \E g \in Runs, keys \in SUBSET Keys : Request(u, g, keys)
        \/ Apply(u) \/ Rename(u) \/ WriteFails(u) \/ Swap(u)
=============================================================================
