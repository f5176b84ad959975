----------------------------- MODULE FleetState -----------------------------
(***************************************************************************)
(* Worker nodes and the game servers placed on them: the rows the control  *)
(* plane keeps (database/schema.py), the processes the agents run          *)
(* (blockhost_agent/agent.py over runtime/systemd_runtime.py) and the      *)
(* requests in flight between the two.  All servers need the same RAM, so  *)
(* the capacity of a node is a number of servers.  production_mode is on:  *)
(* a server without a node has no runtime on the control plane.            *)
(***************************************************************************)
EXTENDS Naturals, FiniteSets

CONSTANTS
    Servers, Nodes,
    Java,        \* the servers whose flavor is a Java flavor
    Actors,      \* processes of the control plane, each with one request at a time
    Capacity,    \* total_ram_mb of a node, in servers
    Shared,      \* all nodes mount one file system (EFS); otherwise local disks
    Features,    \* operations of the control plane in use
    Faults,      \* what may go wrong
    MaxBreaks,   \* bound on broken connections
    MaxMoves,    \* settings.max_migrations_per_hour
    History,     \* lost is recorded; liveness does not need it
    None

FeatureKinds == { "drain", "rebalance", "shutdown", "migrate", "reprovision", "switch",
                  "delete", "poll" }
FaultKinds == { "break",      \* a websocket is lost
                "linger",     \* its handler notices late
                "cut",        \* a node is cut off from the control plane
                "delay",      \* a heartbeat is delivered after a change
                "timeout",    \* the answer to a start is lost
                "die",        \* a game server process dies
                "restart" }   \* a process of the control plane restarts

ASSUME FleetAssumption ==
    /\ IsFiniteSet(Servers) /\ Java \subseteq Servers
    /\ Capacity \in Nat \ {0}
    /\ Shared \in BOOLEAN /\ History \in BOOLEAN
    /\ Features \subseteq FeatureKinds
    /\ Faults \subseteq FaultKinds
    /\ MaxBreaks \in Nat /\ MaxMoves \in Nat
    /\ None \notin Nodes \cup Servers

NodeState == { "online", "offline", "starting", "draining" }
ServerState == { "none", "created", "provisioning", "running", "suspended",
                 "deleted" }
Active == { "provisioning", "running" }        \* _RAM_RESERVING_STATES

VARIABLES
    status,   \* Node.status
    fresh,    \* last_heartbeat is younger than HEARTBEAT_STALE_SECONDS
    sock,     \* the agent's websocket: none, halted (halt-all done), open
    gone,     \* nodes with a handler whose socket is lost and whose finally is due
    net,      \* up, cut off from the control plane, or powered off
    breaks,   \* connections broken so far
    late,     \* the running_servers of a heartbeat under way, or None
    proc,     \* the units active on a node
    row,      \* Server rows: [state, node]
    world,    \* where the world of a server is stored
    snap,     \* servers with a migration snapshot in S3
    redo,     \* servers whose _provision_java_server task is pending
    job,      \* the request an actor is handling
    cache,    \* NodeRouter._cache: the node an actor's calls go to
    moved,    \* servers in their migration cooldown
    moves,    \* _migration_times: migrations in the last hour
    lost      \* servers whose process ran on after its row had stopped telling of it

nodeRows == <<status, fresh>>
links    == <<sock, gone, net, breaks, late>>
disk     == <<world, snap>>
requests == <<redo, job, cache>>
guards   == <<moved, moves>>
fvars == <<nodeRows, links, proc, row, disk, requests, guards, lost>>

\* The processes of the servers S run on, and nobody knows of them.
Losing(S) == IF History THEN lost \cup S ELSE lost

\* Server: what the fleet needs of its columns.
Server == [state : ServerState, node : Nodes \cup {None}]

Store(n) == IF Shared THEN None ELSE n
Stores == { Store(n) : n \in Nodes }

\* A request: the step it is at, its server, the nodes a migration moves it
\* between, what the row's state was when it was loaded, and who asked.
Steps == { "begin", "assign", "prepare", "launch", "commit", "move", "snap", "pick",
           "restore", "purge", "poll" }
Job == [pc : Steps, srv : Servers, from : Nodes \cup {None}, to : Nodes \cup {None},
        seen : ServerState, by : {"user", "rebalance", "migrate"}]
ASSUME NoRequest == None \notin Job

\* The state every node, row, process and request is in.
FleetTypeOK ==
    /\ status \in [Nodes -> NodeState]
    /\ fresh \in [Nodes -> BOOLEAN]
    /\ sock \in [Nodes -> {"none", "halted", "open"}]
    /\ gone \subseteq Nodes
    /\ net \in [Nodes -> {"up", "cut", "off"}]
    /\ breaks \in 0..MaxBreaks
    /\ late \in [Nodes -> (SUBSET Servers) \cup {{None}}]
    /\ proc \in [Nodes -> SUBSET Servers]
    /\ row \in [Servers -> Server]
    /\ world \in [Servers -> SUBSET Stores]
    /\ snap \subseteq Servers
    /\ redo \subseteq Servers
    /\ job \in [Actors -> Job \cup {None}]
    /\ cache \in [Actors -> [Servers -> Nodes \cup {None}]]
    /\ moved \subseteq Servers /\ lost \subseteq Servers
    /\ moves \in 0..MaxMoves

FleetInit ==
    /\ status = [n \in Nodes |-> "offline"]
    /\ fresh = [n \in Nodes |-> FALSE]
    /\ sock = [n \in Nodes |-> "none"]
    /\ gone = {} /\ breaks = 0
    /\ net = [n \in Nodes |-> "up"]
    /\ late = [n \in Nodes |-> {None}]
    /\ proc = [n \in Nodes |-> {}]
    /\ row = [s \in Servers |-> [state |-> "none", node |-> None]]
    /\ world = [s \in Servers |-> {}]
    /\ snap = {} /\ redo = {} /\ moved = {} /\ moves = 0 /\ lost = {}
    /\ job = [a \in Actors |-> None]
    /\ cache = [a \in Actors |-> [s \in Servers |-> None]]

-----------------------------------------------------------------------------
Rows == { s \in Servers : row[s].state \notin {"none", "deleted"} }
On(n) == { s \in Servers : row[s].node = n }
RunningOn(n) == { s \in On(n) : row[s].state = "running" }
ActiveOn(n) == { s \in On(n) : row[s].state \in Active }
Online == { n \in Nodes : status[n] = "online" }
Reach(n) == n # None /\ net[n] = "up"

\* compute_node_allocated_ram_mb, _node_active_ram_mb
Allocated(n) == Cardinality(ActiveOn(n))
Full(n) == Allocated(n) >= Capacity
Overloaded(n) == 100 * Allocated(n) >= 85 * Capacity      \* NODE_OVERLOADED_RATIO

\* _healthy_online_nodes
Healthy == { n \in Online : fresh[n] }

Emptiest(n, S) == \A o \in S : Allocated(n) <= Allocated(o)

\* select_best_node: among the healthy nodes with room one with the most room.
Best == { n \in Healthy : ~Full(n) /\ Emptiest(n, Healthy) }

SetState(S, state) ==
    [s \in Servers |-> IF s \in S THEN [row[s] EXCEPT !.state = state] ELSE row[s]]
SetNode(S, n) ==
    [s \in Servers |-> IF s \in S THEN [row[s] EXCEPT !.node = n] ELSE row[s]]
=============================================================================
