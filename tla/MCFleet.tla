------------------------------ MODULE MCFleet ------------------------------
(* Instances of Fleet for TLC. *)
EXTENDS Fleet, TLC

\* Nodes are alike.
SameNodes == Permutations(Nodes)
=============================================================================
