------------------------------ MODULE Network ------------------------------
(***************************************************************************)
(* Port allocation and the game proxy together: they share nothing but the *)
(* servers' rows, which the one writes and the other polls.                *)
(***************************************************************************)
EXTENDS GameProxy

vars == <<pvars, gvars>>

Init == PortsInit /\ GameProxyInit
Next ==
    \/ PortsNext /\ UNCHANGED gvars
    \/ GameProxyNext /\ UNCHANGED pvars
    \/ \E a \in Actors, p \in ProxyPorts : Wakeup(a, p)
    \/ Restart
Spec == Init /\ [][Next]_vars

\* The loop of the proxy runs, its threads and the transactions of the control
\* plane come to an end, and players leave at last.
FairSpec ==
    /\ Spec
    /\ WF_vars(RefreshNext /\ UNCHANGED pvars)
    /\ \A c \in Clients : WF_vars(Disconnect(c) /\ UNCHANGED pvars)

\* Every row, process, transaction, route and session has the shape the code
\* gives it.
NetworkTypeOK == PortsTypeOK /\ GameProxyTypeOK

\* Servers whose port _allocate_port chose for the node they are on never share
\* one with each other, the second port of a Bedrock server included, on every
\* path that changes the node; only an owner's migration takes a port along.
Allocated == Rows \ kept
NoPortClash ==
    \A s, o \in Allocated :
        s # o /\ row[s].node # None /\ row[s].node = row[o].node
        => Taken(s, row[s].port) \cap Taken(o, row[o].port) = {}

\* What an allocator has picked is nobody else's until it commits: the advisory
\* lock covers reading the used ports, picking and writing, so that among
\* allocators the unique constraint never has to refuse a request.
PickStaysFree ==
    \A a \in Actors : ~Idle(a) /\ tx[a].pc \in {"alloc", "commit"} =>
        \A s \in Got(a), o \in Allocated \ Got(a) :
            row[o].node = tx[a].node
            => Taken(s, tx[a].got[s]) \cap Taken(o, row[o].port) = {}

\* A player who comes while the proxy's table is up to date plays on the server
\* whose address was dialled, and not on another that has its old port: no two rows
\* name one address, whatever the moves and the migrations between them.  Not on a
\* process nobody's row names any more, which a lost node may still run.
Owns(q, p) == row[q.srv] # None /\ row[q.srv].proxy = p
Stray(q) == row[q.srv] = None \/ row[q.srv].node # q.node \/ row[q.srv].port # q.port
RightServer ==
    [][routes = Current =>
          \A c \in Clients :
              /\ conn[c] = None /\ conn'[c] # None
                 => Stray(conn'[c].end) \/ Owns(conn'[c].end, conn'[c].proxy)
              /\ \A p \in ProxyPorts :
                    sess[p][c] = None /\ sess'[p][c] # None
                    => \A q \in At(sess'[p][c].node, sess'[p][c].port) :
                          Stray(q) \/ Owns(q, p)]_vars

\* When the rows stop changing the proxy's table and its listeners become what
\* the rows say, whatever passes of the refresh loop were under way.
RoutesSettle ==
    <>[](/\ routes = Current
         /\ tcp = PortsOf(Current) /\ udp = PortsOf(Current))
=============================================================================
