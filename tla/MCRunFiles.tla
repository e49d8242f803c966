---------------------------- MODULE MCRunFiles -----------------------------
(***************************************************************************)
(* The instance of RunFiles that TLC checks: two runs of a workspace.     *)
(***************************************************************************)
EXTENDS RunFiles, TLC

MCRuns == 1..2
MCTasks == 1..2
Alike == Permutations(Users) \cup Permutations(Keys)
=============================================================================
