----------------------------- MODULE MCEventBus -----------------------------
(* EventBus on a small instance.                                            *)
EXTENDS EventBus

CONSTANTS w1, w2, p1, p2, k1
=============================================================================
