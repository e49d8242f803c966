----------------------------- MODULE MCStaging -----------------------------
(***************************************************************************)
(* An instance of Staging: a file outside the plan, which a decision may    *)
(* allow, and a byproduct.                                                 *)
(***************************************************************************)
EXTENDS Staging, TLC

CONSTANTS step1, step2, occ1, occ2

MCFiles == {"a.go", "gen.go"}
MCPlan == {}
MCByproducts == {"gen.go"}
MCSteps == {step1, step2}
MCOccurrences == {occ1, occ2}
\* Steps and occurrences are names only.
Symmetry == Permutations(MCSteps) \cup Permutations(MCOccurrences)
=============================================================================
