------------------------------ MODULE MCStore ------------------------------
(* An instance of Store for TLC: two Java servers and a Bedrock server that    *)
(* may be switched to a version that is no longer offered, and whose settings  *)
(* are followed; a mod with two versions and a required dependency.            *)
EXTENDS Store, TLC
CONSTANTS j1, j2, b1, p1, p2, r1, r2
ThreeServers == {j1, j2, b1}
TwoJava == {j1, j2}
ThreeRows == j1 :> [flavor |-> "paper", ver |-> r1] @@ j2 :> [flavor |-> "vanilla", ver |-> r1]
            @@ b1 :> [flavor |-> "vanilla", ver |-> r1]
OneTuned == {b1}
NewestOf == p1 :> 2 @@ p2 :> 1
DepsOf == p1 :> {p2} @@ p2 :> {}
NotBuilt == {<<"paper", r2>>}
Alike == Permutations(Requests)
=============================================================================
