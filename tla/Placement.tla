----------------------------- MODULE Placement -----------------------------
(***************************************************************************)
(* What the fleet promises for the world of a game server: the process of  *)
(* a server runs on the node its row names and nowhere else, and the row   *)
(* is pointed at another node only while no process runs.  With one shared *)
(* file system two processes of a server would write the same world.       *)
(***************************************************************************)
EXTENDS FiniteSets

CONSTANTS Servers, Nodes, None

VARIABLES
    at,     \* the servers whose process a node runs
    home    \* the node of a server, or None

pvars == <<at, home>>
Runs(s) == \E n \in Nodes : s \in at[n]

Init == /\ at = [n \in Nodes |-> {}]
        /\ home = [s \in Servers |-> None]

Start(s) ==
    /\ home[s] # None /\ ~Runs(s)
    /\ at' = [at EXCEPT ![home[s]] = @ \cup {s}]
    /\ UNCHANGED home

Halt(n, S) ==
    /\ at' = [at EXCEPT ![n] = @ \ S]
    /\ UNCHANGED home

Move(S, n) ==
    /\ \A s \in S : ~Runs(s)
    /\ home' = [s \in Servers |-> IF s \in S THEN n ELSE home[s]]
    /\ UNCHANGED at

\* Servers of a node are stopped and move at once: one of them is deleted, or
\* the node is powered off and hands them on.
Vacate(n, S, m) ==
    /\ \A s \in S : home[s] = n
    /\ at' = [at EXCEPT ![n] = @ \ S]
    /\ home' = [s \in Servers |-> IF s \in S THEN m ELSE home[s]]

Next ==
    \/ \E s \in Servers : Start(s)
    \/ \E n \in Nodes, S \in SUBSET Servers :
          \/ Halt(n, S)
          \/ \E m \in Nodes \cup {None} : Vacate(n, S, m)
    \/ \E S \in SUBSET Servers, n \in Nodes \cup {None} : Move(S, n)

Spec == Init /\ [][Next]_pvars

\* Every process of a server runs on its home.
AtHome == \A n \in Nodes : \A s \in at[n] : home[s] = n
=============================================================================
