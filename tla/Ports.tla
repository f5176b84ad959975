------------------------------- MODULE Ports -------------------------------
(***************************************************************************)
(* Ports of the game servers (api/servers.py, minecraft/port_alloc.py):    *)
(* every transaction that gives a server a node also gives it a port of    *)
(* that node, under a Postgres advisory lock held until it ends; a         *)
(* Bedrock server takes its port and the next one.  A server keeps one     *)
(* proxy port, the address its players know.                               *)
(***************************************************************************)
EXTENDS Naturals

CONSTANTS
    Servers, Nodes,
    Bedrock,               \* the servers whose flavor is BEDROCK; the others are Java
    Actors,                \* threads of the control plane, one transaction each
    JavaPorts, BedrockPorts,   \* settings: the two disjoint port ranges
    ProxyPorts,            \* settings: the range of proxy ports
    Busy,                  \* ports of the ranges taken on the control plane's host
    Stock,                 \* the rows at first; those that run on a node have their process
    MaxRequests,           \* bound on requests and on lost nodes
    None

ASSUME PortsAssumption ==
    /\ Bedrock \subseteq Servers
    /\ JavaPorts \subseteq Nat \ {0} /\ BedrockPorts \subseteq Nat \ {0}
    /\ ProxyPorts \subseteq Nat
    /\ JavaPorts \cap BedrockPorts = {}
    /\ MaxRequests \in Nat
    /\ None \notin Nodes \cup Servers \cup Actors \cup Nat

VARIABLES
    row,      \* Server rows: [state, node, port, proxy], or None
    proc,     \* game processes: [srv, node, port]
    up,       \* nodes that are online
    tx,       \* the request an actor is handling, with its open transaction
    kept,     \* servers whose owner's migration took their port to another node
    lock,     \* who holds advisory lock 8742031, or None
    asked     \* requests and lost nodes so far

pvars == <<row, kept, proc, up, tx, lock, asked>>

ServerState == {"created", "provisioning", "running", "suspended"}
Row == [state : ServerState, node : Nodes \cup {None},
        port : JavaPorts \cup BedrockPorts, proxy : ProxyPorts]
Process == [srv : Servers, node : Nodes, port : JavaPorts \cup BedrockPorts]
Tx == [op : {"create", "start", "move", "rescue", "cold"}, pc : {"alloc", "commit", "begin", "launch"},
       node : Nodes, from : Nodes \cup {None}, todo : SUBSET Servers,
       got : [Servers -> JavaPorts \cup BedrockPorts \cup {0}]]

\* A row that is gone is not a row.
ASSUME NoneAssumption == None \notin Row \cup Tx

PortsTypeOK ==
    /\ row \in [Servers -> Row \cup {None}]
    /\ kept \subseteq Servers
    /\ proc \subseteq Process
    /\ up \subseteq Nodes
    /\ tx \in [Actors -> Tx \cup {None}]
    /\ lock \in Actors \cup {None}
    /\ asked \in 0..MaxRequests

Rows == { s \in Servers : row[s] # None }
Running == { s \in Rows : row[s].state = "running" }
Range(s) == IF s \in Bedrock THEN BedrockPorts ELSE JavaPorts
Taken(s, p) == IF s \in Bedrock THEN {p, p + 1} ELSE {p}
ProcessOf(s, n) == { q \in proc : q.srv = s /\ q.node = n }
Endpoint(s) == [srv |-> s, node |-> row[s].node, port |-> row[s].port]

PortsInit ==
    /\ row = Stock /\ kept = {}
    /\ proc = { Endpoint(s) : s \in { o \in Running : row[o].node # None } }
    /\ up = Nodes
    /\ tx = [a \in Actors |-> None]
    /\ lock = None
    /\ asked = 0

-----------------------------------------------------------------------------
\* What the transaction of an actor sees: the committed rows with its own
\* flushed updates.
Seen(a) ==
    [s \in Servers |->
        IF tx[a].got[s] = 0 \/ row[s] = None THEN row[s]
        ELSE [row[s] EXCEPT !.node = tx[a].node, !.port = tx[a].got[s]]]

\* The rows on node n whose port is in the range of the flavor of s.
Neighbours(v, s, n) ==
    { o \in Servers : v[o] # None /\ v[o].node = n /\ v[o].port \in Range(s) }

\* Mutant: the second port of a Bedrock server is not reserved.
Reserved_Single(v, s, n) == { v[o].port : o \in Neighbours(v, s, n) }

\* _collect_reserved_ports
Reserved(v, s, n) ==
    (UNION { Taken(o, v[o].port) : o \in Neighbours(v, s, n) }) \cap Range(s)

\* _validate_server_port_pairs: every neighbour has its ports in the range, and
\* no two of them share one.
PairsValid(v, s, n) ==
    LET N == Neighbours(v, s, n) IN
    \A o \in N :
        /\ Taken(o, v[o].port) \subseteq Range(s)
        /\ \A q \in N \ {o} : Taken(o, v[o].port) \cap Taken(q, v[q].port) = {}

\* pick_free_tcp_port, pick_free_udp_port: the candidates, of which the lowest is
\* taken.  The bind test is made on the host of the control plane.
Candidates(v, s, n) ==
    { p \in Range(s) : /\ Taken(s, p) \subseteq Range(s)
                       /\ Taken(s, p) \cap (Reserved(v, s, n) \cup Busy) = {} }
Lowest(p, P) == p \in P /\ \A q \in P : p <= q

-----------------------------------------------------------------------------
Idle(a) == tx[a] = None
Request == asked < MaxRequests /\ asked' = asked + 1
Open(op, n, S) == [op |-> op, pc |-> "alloc", node |-> n, from |-> None, todo |-> S,
                   got |-> [s \in Servers |-> 0]]
Opens(a, op, n, S) == tx' = [tx EXCEPT ![a] = Open(op, n, S)]

\* A commit and a rollback both release the advisory lock.
Unlock(a) == lock' = IF lock = a THEN None ELSE lock
RollBack(a) == tx' = [tx EXCEPT ![a] = None] /\ Unlock(a) /\ UNCHANGED row

\* create_server: a node with room, a port, a proxy port, the row.
CreateServer(a, s) ==
    /\ Idle(a) /\ s \notin Rows
    /\ \A b \in Actors : ~Idle(b) => ~(tx[b].op = "create" /\ (s \in tx[b].todo \/ tx[b].got[s] # 0))
    /\ Request
    /\ \E n \in up : Opens(a, "create", n, {s})
    /\ UNCHANGED <<row, kept, proc, up, lock>>

\* _do_start_server: the server stays on its node, or is detached from a node
\* that is dead or full (the capacity of a node is left open) and placed anew.
Start(a, s) ==
    \/ /\ row[s].node \in up
       /\ tx' = [tx EXCEPT ![a] = [Open("start", row[s].node, {s}) EXCEPT !.pc = "launch"]]
       /\ UNCHANGED row
    \/ /\ row' = [row EXCEPT ![s].node = None]
       /\ \E n \in up \ {row[s].node} : Opens(a, "start", n, {s})
    \/ /\ row' = [row EXCEPT ![s].node = None]         \* no other node: 503
       /\ tx' = [tx EXCEPT ![a] = None]
StartServer(a, s) ==
    /\ Idle(a) /\ s \in Rows
    /\ ~(s \in Running /\ ProcessOf(s, row[s].node) # {})
    /\ Request
    /\ Start(a, s)
    /\ UNCHANGED <<kept, proc, up, lock>>

\* A migration ends with the same start.
Subject(a) == CHOOSE s \in Servers : s \in tx[a].todo \/ tx[a].got[s] # 0
StartMoved(a) ==
    /\ ~Idle(a) /\ tx[a].pc = "begin"
    /\ IF Subject(a) \in Rows
          THEN Start(a, Subject(a))
          ELSE tx' = [tx EXCEPT ![a] = None] /\ UNCHANGED row
    /\ UNCHANGED <<kept, proc, up, lock, asked>>


\* Mutant: a state the enum does not have.
Suspended_Stopped(s) == row' = [row EXCEPT ![s].state = "stopped"]

Suspended(s) == row' = [row EXCEPT ![s].state = "suspended"]

\* _migrate_server of the rebalancer: stop, then a fresh port on the other node.
RebalanceMove(a, s) ==
    /\ Idle(a) /\ s \in Running /\ row[s].node \in up
    /\ Request
    /\ proc' = proc \ ProcessOf(s, row[s].node)
    /\ Suspended(s)
    /\ \E n \in up \ {row[s].node} : Opens(a, "move", n, {s})
    /\ UNCHANGED <<kept, up, lock>>

\* Phase 0 of the rebalancer: the rows without an online node.
Orphans == { s \in Rows : row[s].node \notin up }
Rescue(a) ==
    /\ Idle(a) /\ Orphans # {}
    /\ Request
    /\ \E n \in up : Opens(a, "rescue", n, Orphans)
    /\ UNCHANGED <<row, kept, proc, up, lock>>

\* stop_instance: the node is off and its processes with it.
PowersOff(m) == up' = up \ {m} /\ proc' = { q \in proc : q.node # m }

\* Phase 3: the rows of a node without running servers, which is switched off.
ColdStorage(a, m) ==
    LET S == { s \in Rows : row[s].node = m } IN
    /\ Idle(a) /\ m \in up /\ S \cap Running = {}
    /\ Request
    /\ \E n \in up \ {m} :
          IF S = {} THEN PowersOff(m) /\ UNCHANGED tx
          ELSE /\ tx' = [tx EXCEPT ![a] = [Open("cold", n, S) EXCEPT !.from = m]]
               /\ UNCHANGED <<proc, up>>
    /\ UNCHANGED <<row, kept, lock>>

-----------------------------------------------------------------------------
\* Mutant: the allocator does not wait for the other transactions.
MayAllocate_Unlocked(a) == TRUE

\* pg_advisory_xact_lock(8742031)
MayAllocate(a) == lock \in {None, a}

\* The port of one server is chosen under the lock and flushed.
Picked(a, s, p) ==
    [tx[a] EXCEPT !.todo = tx[a].todo \ {s}, !.got = [tx[a].got EXCEPT ![s] = p],
                  !.pc = IF tx[a].todo = {s} THEN "commit" ELSE "alloc"]
Allocate(a) ==
    /\ ~Idle(a) /\ tx[a].pc = "alloc"
    /\ MayAllocate(a)
    /\ \E s \in tx[a].todo :
          LET v == Seen(a)
              n == tx[a].node IN
          /\ PairsValid(v, s, n)
          /\ \E p \in Range(s) :
                /\ Lowest(p, Candidates(v, s, n))
                /\ tx' = [tx EXCEPT ![a] = Picked(a, s, p)]
    /\ lock' = a
    /\ UNCHANGED <<row, kept, proc, up, asked>>

\* Invalid pairs or no free port: the request is refused; only the rescue goes
\* on to its next server, without those it had placed.
AllocateFails(a) ==
    /\ ~Idle(a) /\ tx[a].pc = "alloc"
    /\ MayAllocate(a)
    /\ \E s \in tx[a].todo :
          /\ ~PairsValid(Seen(a), s, tx[a].node) \/ Candidates(Seen(a), s, tx[a].node) = {}
          /\ IF tx[a].op = "rescue"
                THEN /\ tx' = [tx EXCEPT ![a] = IF @.todo = {s} THEN None
                                                ELSE Open("rescue", @.node, @.todo \ {s})]
                     /\ Unlock(a) /\ UNCHANGED row
                ELSE RollBack(a)
    /\ UNCHANGED <<kept, proc, up, asked>>

-----------------------------------------------------------------------------
Got(a) == { s \in Servers : tx[a].got[s] # 0 }

\* Mutant: uq_servers_node_port is missing.
Unique_ProxyOnly(r) ==
    \A s, o \in Servers :
        s # o /\ r[s] # None /\ r[o] # None => r[s].proxy # r[o].proxy

\* uq_servers_node_port and the unique proxy_port
Unique(r) ==
    \A s, o \in Servers :
        s # o /\ r[s] # None /\ r[o] # None
        => /\ r[s].proxy # r[o].proxy
           /\ ~(r[s].node # None /\ r[s].node = r[o].node /\ r[s].port = r[o].port)

\* The rows at first are rows that earlier requests wrote: they obey the constraints,
\* and ports that were allocated for a node do not overlap.
ASSUME StockAssumption ==
    /\ Stock \in [Servers -> Row \cup {None}]
    /\ Unique(Stock)
    /\ \A s \in Servers : Stock[s] # None =>
          /\ Taken(s, Stock[s].port) \subseteq Range(s)
          /\ \A o \in Servers \ {s} :
                Stock[o] # None /\ Stock[s].node # None /\ Stock[s].node = Stock[o].node
                => Taken(s, Stock[s].port) \cap Taken(o, Stock[o].port) = {}

\* _allocate_proxy_port: the lowest that no row has.  Its own advisory lock is
\* only asked for by a holder of the other.
FreeProxyPorts == ProxyPorts \ { row[s].proxy : s \in Rows }
ProxyPort == CHOOSE p \in ProxyPorts : Lowest(p, FreeProxyPorts)

\* The rows after the transaction's commit.
Written(a) ==
    [s \in Servers |->
        IF s \notin Got(a) THEN row[s]
        ELSE IF tx[a].op = "create"
                THEN [state |-> "created", node |-> tx[a].node, port |-> tx[a].got[s],
                      proxy |-> ProxyPort]
        ELSE [row[s] EXCEPT !.node = tx[a].node, !.port = tx[a].got[s],
                            !.state = IF tx[a].op = "start" THEN "provisioning" ELSE @]]

\* No proxy port, a constraint that fails or a row that is gone roll everything
\* back.
Commits(a) ==
    /\ IF tx[a].op = "create" THEN FreeProxyPorts # {} ELSE Got(a) \subseteq Rows
    /\ Unique(Written(a))
Commit(a) ==
    /\ ~Idle(a) /\ tx[a].pc = "commit"
    /\ IF Commits(a)
          THEN /\ row' = Written(a) /\ kept' = kept \ Got(a)
               /\ Unlock(a)
               /\ tx' = [tx EXCEPT ![a] = CASE @.op = "start" -> [@ EXCEPT !.pc = "launch"]
                                              [] @.op = "move" -> [@ EXCEPT !.pc = "begin"]
                                              [] OTHER -> None]
               /\ PowersOff(tx[a].from)
          ELSE RollBack(a) /\ UNCHANGED <<kept, proc, up>>
    /\ UNCHANGED asked

\* The cloud provider does not stop the instance: the rows stay where they were.
PowerOffFails(a) ==
    /\ ~Idle(a) /\ tx[a].pc = "commit" /\ tx[a].op = "cold"
    /\ RollBack(a)
    /\ UNCHANGED <<kept, proc, up, asked>>

\* A process binds the ports of its row.
CanBind(s) ==
    \A q \in proc : q.srv # s /\ q.node = row[s].node
                    => Taken(q.srv, q.port) \cap Taken(s, row[s].port) = {}

\* The end of _do_start_server, on the node the row names by then.  A Java server
\* that has just been placed is refused (409), a start that fails suspends the row.
Launch(a) ==
    /\ ~Idle(a) /\ tx[a].pc = "launch"
    /\ LET s == Subject(a) IN
       \/ /\ s \in Rows /\ row[s].node \in up /\ CanBind(s)
          /\ s \in Bedrock \/ row[s].state # "provisioning"
          /\ proc' = (proc \ ProcessOf(s, row[s].node)) \cup {Endpoint(s)}
          /\ row' = [row EXCEPT ![s].state = "running"]
       \/ /\ s \in Rows /\ (row[s].node \notin up \/ ~CanBind(s))
          /\ s \in Bedrock \/ row[s].state # "provisioning"
          /\ Suspended(s)
          /\ UNCHANGED proc
       \/ /\ s \in Rows => s \notin Bedrock /\ row[s].state = "provisioning"
          /\ UNCHANGED <<row, proc>>
    /\ tx' = [tx EXCEPT ![a] = None]
    /\ UNCHANGED <<kept, up, lock, asked>>

-----------------------------------------------------------------------------
\* stop_server, and the sleeper
StopServer(s) ==
    /\ s \in Running /\ row[s].node \in up
    /\ Request
    /\ proc' = proc \ ProcessOf(s, row[s].node)
    /\ Suspended(s)
    /\ UNCHANGED <<kept, up, tx, lock>>

\* delete_server: a running server is stopped if its node answers.
DeleteServer(s) ==
    /\ s \in Rows
    /\ Request
    /\ proc' = IF row[s].node \in up THEN proc \ ProcessOf(s, row[s].node) ELSE proc
    /\ row' = [row EXCEPT ![s] = None] /\ kept' = kept \ {s}
    /\ UNCHANGED <<up, tx, lock>>

\* migrate_server keeps the port; the constraint may refuse the new node.
MigrateServer(a, s) ==
    /\ Idle(a) /\ s \in Rows /\ row[s].node \in up
    /\ Request
    /\ proc' = proc \ ProcessOf(s, row[s].node)
    /\ \E n \in up \ {row[s].node} :
          LET moved == [row EXCEPT ![s].node = n, ![s].state = "suspended"] IN
          IF Unique(moved)
             THEN /\ row' = moved /\ kept' = kept \cup {s}
                  /\ tx' = [tx EXCEPT ![a] = [Open("move", n, {s}) EXCEPT !.pc = "begin"]]
             ELSE Suspended(s) /\ UNCHANGED <<kept, tx>>
    /\ UNCHANGED <<up, lock>>

\* provision_server's task ends for a Java server.
Reprovision(s) ==
    /\ s \in Rows \ Bedrock /\ row[s].state = "provisioning"
    /\ row' = [row EXCEPT ![s].state = "created"]
    /\ UNCHANGED <<kept, proc, up, tx, lock, asked>>

\* A node is lost with its processes running; when it is back the agent halts
\* them before the node is online.
NodeLost(n) ==
    /\ n \in up /\ Request
    /\ up' = up \ {n}
    /\ UNCHANGED <<row, kept, proc, tx, lock>>
NodeBack(n) ==
    /\ n \notin up
    /\ up' = up \cup {n}
    /\ proc' = { q \in proc : q.node # n }
    /\ UNCHANGED <<row, kept, tx, lock, asked>>

\* A heartbeat: running rows of the node whose process is not there.
Heartbeat(n) ==
    LET ghosts == { s \in Running : row[s].node = n /\ ProcessOf(s, n) = {} } IN
    /\ n \in up /\ ghosts # {}
    /\ row' = [s \in Servers |-> IF s \in ghosts THEN [row[s] EXCEPT !.state = "suspended"] ELSE row[s]]
    /\ UNCHANGED <<kept, proc, up, tx, lock, asked>>

TxNext(a) ==
    Allocate(a) \/ AllocateFails(a) \/ Commit(a) \/ PowerOffFails(a) \/ StartMoved(a) \/ Launch(a)
PortsNext ==
    \/ \E a \in Actors :
          \/ TxNext(a) \/ Rescue(a)
          \/ \E n \in Nodes : ColdStorage(a, n)
          \/ \E s \in Servers : CreateServer(a, s) \/ StartServer(a, s) \/ RebalanceMove(a, s) \/ MigrateServer(a, s)
    \/ \E s \in Servers : StopServer(s) \/ DeleteServer(s) \/ Reprovision(s)
    \/ \E n \in Nodes : NodeLost(n) \/ NodeBack(n) \/ Heartbeat(n)
=============================================================================
