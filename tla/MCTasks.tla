------------------------------ MODULE MCTasks ------------------------------
(***************************************************************************)
(* The instance of Tasks that TLC checks.  A plan that writes one step      *)
(* twice, and plans of another step, under the number of the second and    *)
(* under that of the first.                                                *)
(***************************************************************************)
EXTENDS Tasks, TLC

CONSTANTS r1, r2

S(number, what) == [number |-> number, what |-> what]
MCPlans == {<<S(1, "x"), S(2, "x")>>, <<S(2, "y")>>, <<S(1, "y")>>}
MCBad == <<S(0, "bad")>>
MCReports == {r1, r2}
Alike == Permutations(MCReports)
FewSlips == Cardinality(lapse) <= 1
=============================================================================
