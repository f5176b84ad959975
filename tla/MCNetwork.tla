----------------------------- MODULE MCNetwork -----------------------------
(* Instances of Network for TLC: a Bedrock and a Java server on two nodes,   *)
(* and a Bedrock server that a start has detached from a dead node.  A node  *)
(* has room for one pair of Bedrock ports, and another that overlaps it.     *)
EXTENDS Network, TLC
CONSTANTS s1, s2, s3, n1, n2
TwoNodes == {n1, n2}
ThreeServers == {s1, s2, s3}
TwoBedrock == {s1, s3}
Row0(n, p, x) == [state |-> "running", node |-> n, port |-> p, proxy |-> x]
ThreeRows == s1 :> Row0(n2, 2, 21) @@ s2 :> Row0(n1, 11, 22) @@ s3 :> Row0(None, 2, 23)
JavaRange == 11..11
BedrockRange == 1..4
ProxyRange == 21..23
=============================================================================
