----------------------------- MODULE GameProxy -----------------------------
(***************************************************************************)
(* The game proxy (services/game_proxy.py), a process of its own: one TCP  *)
(* and one UDP listener for every routed proxy port, a routing table it    *)
(* reads again from the servers' rows every few seconds, the connections   *)
(* and sessions of the players, and the start of suspended servers when    *)
(* somebody knocks.  Java players come over TCP, Bedrock players over UDP. *)
(***************************************************************************)
EXTENDS Ports

CONSTANTS
    Clients,
    BindMayFail      \* a port of the proxy may be taken when it is bound

ASSUME ProxyAssumption == BindMayFail \in BOOLEAN

VARIABLES
    routes,   \* routing_table
    tcp,      \* ports with a TCP listener
    udp,      \* ports with a UDP listener
    load,     \* the refresh under way: [new, add, del, closing], or None
    conn,     \* a Java player's connection: [proxy, end], or None
    sess      \* UDP sessions of the players: _client_sessions

listeners == <<tcp, udp>>
players == <<conn, sess>>
gvars == <<routes, listeners, load, players>>

Target == [node : Nodes, port : JavaPorts \cup BedrockPorts, srv : Servers, asleep : BOOLEAN]
Table == [ProxyPorts -> Target \cup {None}]

GameProxyTypeOK ==
    /\ routes \in Table
    /\ tcp \subseteq ProxyPorts /\ udp \subseteq ProxyPorts
    /\ load \in [new : Table, add : SUBSET ProxyPorts, del : SUBSET ProxyPorts,
                 closing : ProxyPorts \cup {None}] \cup {None}
    /\ conn \in [Clients -> [proxy : ProxyPorts, end : Process] \cup {None}]
    /\ sess \in [ProxyPorts -> [Clients -> [node : Nodes, port : BedrockPorts] \cup {None}]]

-----------------------------------------------------------------------------
\* _load_routing_table: running and suspended rows that have a node.
Routed == { s \in Rows : row[s].state \in {"running", "suspended"} /\ row[s].node # None }
RouteOf(s) == [node |-> row[s].node, port |-> row[s].port, srv |-> s,
               asleep |-> row[s].state = "suspended"]
Current ==
    [p \in ProxyPorts |->
        IF \E s \in Routed : row[s].proxy = p
           THEN RouteOf(CHOOSE s \in Routed : row[s].proxy = p) ELSE None]
PortsOf(table) == { p \in ProxyPorts : table[p] # None }

\* GameProxy.start
NoConn == [c \in Clients |-> None]
NoSess == [p \in ProxyPorts |-> [c \in Clients |-> None]]
GameProxyInit ==
    /\ routes = Current /\ load = None
    /\ tcp = PortsOf(Current) /\ udp = PortsOf(Current)
    /\ conn = NoConn /\ sess = NoSess

\* _refresh_loop wakes up and reads the rows.
Refresh ==
    /\ load = None
    /\ load' = [new |-> Current, add |-> PortsOf(Current) \ PortsOf(routes),
                del |-> PortsOf(routes) \ PortsOf(Current), closing |-> None]
    /\ UNCHANGED <<routes, listeners, players>>

\* _start_listeners: a bind that fails is logged.
Binds(S, p) == {S \cup {p}} \cup IF BindMayFail THEN {S} ELSE {}
StartListeners(p) ==
    /\ load # None /\ p \in load.add
    /\ tcp' \in Binds(tcp, p)
    /\ udp' \in Binds(udp, p)
    /\ load' = [load EXCEPT !.add = @ \ {p}]
    /\ UNCHANGED <<routes, players>>

\* _stop_listeners closes the TCP listener and waits until its connections have
\* ended (wait_closed, Python 3.12), then closes the UDP one and its sessions.
StopTcp(p) ==
    /\ load # None /\ load.add = {} /\ p \in load.del /\ load.closing = None
    /\ tcp' = tcp \ {p}
    /\ load' = [load EXCEPT !.closing = p]
    /\ UNCHANGED <<routes, udp, players>>
ConnectedTo(p) == { c \in Clients : conn[c] # None /\ conn[c].proxy = p }
StopUdp ==
    /\ load # None /\ load.closing # None
    /\ ConnectedTo(load.closing) = {}
    /\ udp' = udp \ {load.closing}
    /\ sess' = [sess EXCEPT ![load.closing] = [c \in Clients |-> None]]
    /\ load' = [load EXCEPT !.del = @ \ {load.closing}, !.closing = None]
    /\ UNCHANGED <<routes, tcp, conn>>

\* Mutant: the table is updated without being cleared.
UseRoutes_NoClear ==
    /\ load # None /\ load.add = {} /\ load.del = {}
    /\ routes' = [p \in ProxyPorts |-> IF load.new[p] = None THEN routes[p] ELSE load.new[p]]
    /\ load' = None
    /\ UNCHANGED <<listeners, players>>

\* The end of a pass: the table is replaced.
UseRoutes ==
    /\ load # None /\ load.add = {} /\ load.del = {}
    /\ routes' = load.new
    /\ load' = None
    /\ UNCHANGED <<listeners, players>>

-----------------------------------------------------------------------------
\* The process that answers at an address.
At(n, p) == { q \in proc : q.node = n /\ q.port = p }

\* _handle_tcp_client: the connection is passed on if somebody answers.
TcpConnect(c, p) ==
    /\ p \in tcp /\ conn[c] = None
    /\ routes[p] # None /\ ~routes[p].asleep /\ routes[p].srv \notin Bedrock
    /\ \E q \in At(routes[p].node, routes[p].port) :
          conn' = [conn EXCEPT ![c] = [proxy |-> p, end |-> q]]
    /\ UNCHANGED <<routes, listeners, load, sess>>

\* _pipe ends when the player leaves or the process does.
Disconnect(c) ==
    /\ conn[c] # None
    /\ conn' = [conn EXCEPT ![c] = None]
    /\ UNCHANGED <<routes, listeners, load, sess>>

\* UdpProxyProtocol.datagram_received: the first datagram of a player opens a
\* session; one that exists is used as it is.
UdpSend(c, p) ==
    /\ p \in udp /\ sess[p][c] = None
    /\ routes[p] # None /\ ~routes[p].asleep /\ routes[p].srv \in Bedrock
    /\ sess' = [sess EXCEPT ![p][c] = [node |-> routes[p].node, port |-> routes[p].port]]
    /\ UNCHANGED <<routes, listeners, load, conn>>

\* Somebody knocks where the table says asleep: _sync_trigger_wakeup, on a thread
\* of the executor, starts the server if its row is suspended.  It does nothing
\* if it was tried less than a minute ago; time is left open.
Wakeup(a, p) ==
    /\ p \in tcp \cup udp /\ routes[p] # None /\ routes[p].asleep
    /\ LET s == routes[p].srv IN
       /\ s \in Rows /\ row[s].state = "suspended"
       /\ Idle(a) /\ Request /\ Start(a, s)
    /\ UNCHANGED <<kept, proc, up, lock, gvars>>

\* A new proxy process, after a shutdown or a crash.
Restart ==
    /\ Request
    /\ routes' = Current /\ load' = None
    /\ tcp' = PortsOf(Current) /\ udp' = PortsOf(Current)
    /\ conn' = NoConn /\ sess' = NoSess
    /\ UNCHANGED <<row, kept, proc, up, tx, lock>>

RefreshNext == Refresh \/ (\E p \in ProxyPorts : StartListeners(p) \/ StopTcp(p)) \/ StopUdp \/ UseRoutes
GameProxyNext ==
    \/ RefreshNext
    \/ \E c \in Clients, p \in ProxyPorts : TcpConnect(c, p) \/ UdpSend(c, p)
    \/ \E c \in Clients : Disconnect(c)
=============================================================================
