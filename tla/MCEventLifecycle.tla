-------------------------- MODULE MCEventLifecycle --------------------------
(***************************************************************************)
(* Instances of EventLifecycle for TLC.                                    *)
(***************************************************************************)
EXTENDS EventLifecycle, TLC

CONSTANTS e1, e2, u1, v1, x1, b1, b2, k1, k2, w1, w2
=============================================================================
