---------------------------- MODULE MCLifecycle ----------------------------
(* Lifecycle on a small instance.                                           *)
EXTENDS LifecycleInv, Naturals, TLC

CONSTANTS r1, r2,
          MaxActive     \* goroutines at work while two runs are alive

Symmetry == Permutations(Runs)

\* The properties "UnlessSlip" say nothing of what comes after the first slip.
NoSlip == slip = "none"

\* One run may do whatever it can; of two runs MaxActive goroutines go on, and
\* the steps by which more of them would come to life are the last ones.
Few == \/ \E r \in Runs : Idle(r)
       \/ Cardinality({a \in Runs \X Actors : pc[a[1]][a[2]] # "idle"}) <= MaxActive
=============================================================================
