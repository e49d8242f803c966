---------------------------- MODULE MCApprovals ----------------------------
(***************************************************************************)
(* The instance of Approvals that TLC checks.  The clients are alike.       *)
(* A behaviour is followed up to its first mishap.                         *)
(***************************************************************************)
EXTENDS Approvals, TLC

Alike == Permutations(Clients)
StillPromised == mishap = {}
=============================================================================
