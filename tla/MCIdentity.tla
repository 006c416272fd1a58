----------------------------- MODULE MCIdentity -----------------------------
(***************************************************************************)
(* Instances of Identity for TLC.                                          *)
(***************************************************************************)
EXTENDS Identity, TLC

CONSTANTS g1, g2, l1, l2, f1, f2, f3, q1, q2, r1, r2

\* Only safety is checked, and nothing orders the requests of a kind.
Symmetry == Permutations(Registers) \cup Permutations(Logins) \cup Permutations(Refreshes)
                \cup Permutations(Forgots) \cup Permutations(Resets)
=============================================================================
