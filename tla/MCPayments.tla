----------------------------- MODULE MCPayments -----------------------------
(***************************************************************************)
(* Instances of Payments for TLC: what the provider reports.               *)
(***************************************************************************)
EXTENDS Payments, TLC

CONSTANTS s1, s2, m1, m2, m3, m4, m5, d1, d2, c1

\* The first payment is pending, fails and succeeds; the second one succeeds at once
\* or is cancelled.
MCAbout == [m \in Messages |-> IF m \in {m1, m2, m3} \/ s2 \notin Sessions THEN s1 ELSE s2]

MCSays ==
    [m \in Messages |->
        CASE m = m1 -> "FAILED"
          [] m = m2 -> "SUCCEEDED"
          [] m = m3 -> "PENDING"
          [] m = m4 -> "SUCCEEDED"
          [] OTHER -> "CANCELLED"]

MCSymmetry == Permutations(Deliveries) \cup Permutations(Cancels)
=============================================================================
