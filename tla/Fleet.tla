------------------------------- MODULE Fleet -------------------------------
(***************************************************************************)
(* Nodes and servers together, what the fleet promises and under which     *)
(* faults it keeps the promise.                                            *)
(***************************************************************************)
EXTENDS FleetServers

FleetNext == NodesNext \/ ServersNext
FleetSpec == FleetInit /\ [][FleetNext]_fvars

\* The agents reconnect (heartbeat_task retries for ever) and send heartbeats,
\* the handlers of the control plane run to their end, its loops keep turning.
\* A node that is marked offline again and again is not woken up every time
\* before its next heartbeat, five seconds later, tells it.
FleetFairness ==
    /\ \A n \in Nodes :
          /\ WF_fvars(RegisterHalt(n) \/ RegisterOnline(n))
          /\ WF_fvars(Heartbeat(n)) /\ SF_fvars(Heartbeat(n) /\ status[n] = "offline")
          /\ WF_fvars(Finally(n)) /\ WF_fvars(Stale(n))
    /\ \A a \in Actors : WF_fvars(JobNext(a))
    /\ WF_fvars(Watchdog)
FairFleetSpec == FleetSpec /\ FleetFairness

-----------------------------------------------------------------------------
\* The processes the rows have always told of.  A start whose result is lost or
\* not written, or a heartbeat sampled before it, leaves a process behind that
\* nobody knows of: its server is in lost from then on.
Known(n) == proc[n] \ lost

\* The fleet implements Placement: the process of a server runs on the node of
\* its row only, and a row changes its node only while the server is stopped.
P == INSTANCE Placement WITH at <- [n \in Nodes |-> Known(n)],
                             home <- [s \in Servers |-> row[s].node]
ImplementsPlacement == P!Spec

\* The known processes of a node fit into its RAM, whatever the order in which
\* the rows that reserve it are written (_do_start_server, select_best_node).
NoOvercommit == \A n \in Nodes : Cardinality(Known(n)) <= Capacity

\* No step takes the world away from under a known process, delete_server
\* included, except the purge that ends an owner's migration: on a shared file
\* system the old copy it removes is the new one.
WorldNotPulled ==
    [][\A n \in Nodes : \A s \in Known(n) \cap Known(n)' :
          Store(n) \in world[s] =>
             \/ Store(n) \in world'[s]
             \/ \E a \in Actors : At(a, "purge") /\ job[a].srv = s /\ job'[a] = None]_fvars

\* A node that stays reachable ends up registered, whatever broke before: an
\* offline node is told by its next heartbeat and comes back through halt-all.
NodeRecovers ==
    \A n \in Nodes :
        <>[](net[n] = "up") => <>[](status[n] \in {"online", "draining"})

\* A row that claims a process its node does not run is corrected by the
\* node's heartbeats, however the process was lost.
Ghost(s, n) == row[s].node = n /\ row[s].state \in Active /\ s \notin proc[n]
GhostSettles ==
    \A n \in Nodes, s \in Servers : <>[](net[n] = "up") => []<>~Ghost(s, n)
=============================================================================
