----------------------------- MODULE MCHosting -----------------------------
(* Instances of Hosting for TLC. *)
EXTENDS Hosting, TLC
Symmetry == Permutations(Actors)
=============================================================================
