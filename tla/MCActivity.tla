---------------------------- MODULE MCActivity -----------------------------
(***************************************************************************)
(* The instance of Activity that TLC checks.  Behaviours are followed to    *)
(* their first fault, but for a broken stream, which excuses little; and     *)
(* those in which one run has more than one of its troubles at a time (a    *)
(* gate, a token that is refused, a VM under load, a broken stream) are     *)
(* left out.                                                               *)
(***************************************************************************)
EXTENDS Activity

StillPromised == fault \subseteq {"broken"}
OneTrouble ==
    Cardinality({t \in {"gate", "auth", "load", "broken"} :
                   CASE t = "gate" -> st = "gate"
                     [] t = "auth" -> act.auth
                     [] t = "load" -> vm.everStrained \/ act.warn
                     [] t = "broken" -> fault # {}}) <= 1
=============================================================================
