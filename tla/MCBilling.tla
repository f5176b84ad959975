----------------------------- MODULE MCBilling -----------------------------
(* Billing for TLC: orders, plans and provider ids are model values.       *)
EXTENDS Billing, TLC

\* Orders are alike: symmetry for the runs without liveness.
Symmetry == Permutations(Orders)
=============================================================================
