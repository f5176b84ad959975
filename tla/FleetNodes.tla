----------------------------- MODULE FleetNodes -----------------------------
(***************************************************************************)
(* Nodes: registration and heartbeats over the agent's websocket           *)
(* (api/nodes.py, agent.py heartbeat_task), the watchdog for stale nodes   *)
(* (services/node_capacity.py), draining and the cloud provider.           *)
(***************************************************************************)
EXTENDS FleetState

\* suspend_running_servers_on_node imports get_deployment_lifecycle_orchestrator,
\* which lifecycle_manager does not define: with a running row on the node it
\* raises before its caller commits, and the node keeps its status.
CanSuspend(n) == RunningOn(n) = {}

\* The finally clause of node_agent_websocket.
Offline(n) ==
    IF CanSuspend(n) THEN [status EXCEPT ![n] = "offline"] ELSE status

\* /agent/halt-all
HaltAll(n) == proc' = [proc EXCEPT ![n] = {}]

\* An agent connects and sends "register".  A node that was offline is told to
\* halt all its processes first; if it cannot be reached the socket is closed.
RegisterHalt(n) ==
    /\ net[n] = "up" /\ sock[n] = "none" /\ status[n] = "offline"
    /\ HaltAll(n)
    /\ sock' = [sock EXCEPT ![n] = "halted"]
    /\ UNCHANGED <<nodeRows, gone, net, breaks, late, row, disk, requests, guards, lost>>

\* The rest of the registration: the rows of a halted node are suspended.
RegisterOnline(n) ==
    /\ \/ sock[n] = "halted" /\ row' = SetState(ActiveOn(n), "suspended")
       \/ /\ net[n] = "up" /\ sock[n] = "none" /\ status[n] # "offline"
          /\ UNCHANGED row
    /\ status' = [status EXCEPT ![n] = "online"]
    /\ fresh' = [fresh EXCEPT ![n] = TRUE]
    /\ sock' = [sock EXCEPT ![n] = "open"]
    /\ UNCHANGED <<gone, net, breaks, late, proc, disk, requests, guards, lost>>

\* Mutants: an offline node's heartbeat is ignored and its socket kept; only
\* rows in state running are compared.
Beat_KeepSocket(n, S) ==
    /\ fresh' = IF status[n] = "offline" THEN fresh ELSE [fresh EXCEPT ![n] = TRUE]
    /\ row' = IF status[n] = "offline" THEN row ELSE SetState(ActiveOn(n) \ S, "suspended")
    /\ UNCHANGED <<sock, status, lost>>
Beat_RunningOnly(n, S) ==
    \/ /\ status[n] = "offline"
       /\ sock' = [sock EXCEPT ![n] = "none"]
       /\ UNCHANGED <<nodeRows, row, lost>>
    \/ /\ status[n] # "offline"
       /\ fresh' = [fresh EXCEPT ![n] = TRUE]
       /\ row' = SetState(RunningOn(n) \ S, "suspended")
       /\ UNCHANGED <<sock, status, lost>>

\* A heartbeat that reports the servers S: rows the node does not run are
\* suspended, also those of processes that were started after S was sampled.
\* The socket of a node marked offline is closed with 4002.
Beat(n, S) ==
    \/ /\ status[n] = "offline"
       /\ sock' = [sock EXCEPT ![n] = "none"]
       /\ UNCHANGED <<nodeRows, row, lost>>
    \/ /\ status[n] # "offline"
       /\ fresh' = [fresh EXCEPT ![n] = TRUE]
       /\ row' = SetState(ActiveOn(n) \ S, "suspended")
       /\ lost' = Losing((ActiveOn(n) \ S) \cap proc[n])
       /\ UNCHANGED <<sock, status>>
Heartbeat(n) ==
    /\ sock[n] = "open" /\ net[n] = "up"
    /\ Beat(n, proc[n])
    /\ late' = [late EXCEPT ![n] = {None}]
    /\ UNCHANGED <<gone, net, breaks, proc, disk, requests, guards>>

\* A heartbeat takes a while: systemctl is asked, then the message is sent.
Sample(n) ==
    /\ "delay" \in Faults
    /\ sock[n] = "open" /\ net[n] = "up" /\ late[n] = {None}
    /\ late' = [late EXCEPT ![n] = proc[n]]
    /\ UNCHANGED <<nodeRows, sock, gone, net, breaks, proc, row, disk, requests, guards, lost>>
LateHeartbeat(n) ==
    /\ sock[n] = "open" /\ net[n] = "up" /\ late[n] # {None}
    /\ Beat(n, late[n])
    /\ late' = [late EXCEPT ![n] = {None}]
    /\ UNCHANGED <<gone, net, breaks, proc, disk, requests, guards>>

\* A connection is lost.  The finally clause of its handler runs at once, or
\* after the agent has already reconnected.
Lose(n) ==
    /\ sock' = [sock EXCEPT ![n] = "none"]
    /\ late' = [late EXCEPT ![n] = {None}]
    /\ gone' = IF "linger" \in Faults /\ sock[n] # "none" THEN gone \cup {n} ELSE gone
Noticed(n) == IF "linger" \in Faults \/ sock[n] = "none" THEN status ELSE Offline(n)
Break(n) ==
    /\ "break" \in Faults /\ breaks < MaxBreaks
    /\ sock[n] # "none"
    /\ breaks' = breaks + 1
    /\ Lose(n)
    /\ status' = Noticed(n)
    /\ UNCHANGED <<fresh, net, proc, row, disk, requests, guards, lost>>
Finally(n) ==
    /\ n \in gone
    /\ gone' = gone \ {n}
    /\ status' = Offline(n)
    /\ UNCHANGED <<fresh, sock, net, breaks, late, proc, row, disk, requests, guards, lost>>

\* Time passes without a heartbeat: ping_timeout ends the connection.
Stale(n) ==
    /\ fresh[n] /\ (sock[n] = "none" \/ net[n] # "up")
    /\ fresh' = [fresh EXCEPT ![n] = FALSE]
    /\ Lose(n)
    /\ status' = Noticed(n)
    /\ UNCHANGED <<net, breaks, proc, row, disk, requests, guards, lost>>

\* mark_stale_nodes_offline: one pass over the stale nodes and the nodes stuck
\* in "starting", committed at its end; one node it cannot suspend aborts it all.
StaleNodes == { n \in Online : ~fresh[n] }
Watchdog ==
    \E stuck \in SUBSET { n \in Nodes : status[n] = "starting" } :
        /\ StaleNodes \cup stuck # {}
        /\ \A n \in StaleNodes : CanSuspend(n)
        /\ status' = [n \in Nodes |-> IF n \in StaleNodes \cup stuck THEN "offline" ELSE status[n]]
        /\ UNCHANGED <<fresh, links, proc, row, disk, requests, guards, lost>>

Cut(n) ==
    /\ "cut" \in Faults /\ breaks < MaxBreaks
    /\ net[n] = "up"
    /\ net' = [net EXCEPT ![n] = "cut"]
    /\ breaks' = breaks + 1
    /\ UNCHANGED <<nodeRows, sock, gone, late, proc, row, disk, requests, guards, lost>>
Mend(n) ==
    /\ net[n] = "cut"
    /\ net' = [net EXCEPT ![n] = "up"]
    /\ UNCHANGED <<nodeRows, sock, gone, breaks, late, proc, row, disk, requests, guards, lost>>

\* drain_node refuses an offline node, admin_evacuate_node does not.
DrainNode(n) ==
    /\ "drain" \in Features
    /\ status[n] \notin {"draining", "offline"}
    /\ status' = [status EXCEPT ![n] = "draining"]
    /\ UNCHANGED <<fresh, links, proc, row, disk, requests, guards, lost>>
EvacuateNode(n) ==
    /\ "drain" \in Features
    /\ status[n] # "draining"
    /\ status' = [status EXCEPT ![n] = "draining"]
    /\ UNCHANGED <<fresh, links, proc, row, disk, requests, guards, lost>>
UndrainNode(n) ==
    /\ status[n] = "draining" /\ fresh[n]
    /\ status' = [status EXCEPT ![n] = "online"]
    /\ UNCHANGED <<fresh, links, proc, row, disk, requests, guards, lost>>

\* start_instance and stop_instance of the provider
PowerOn(n) == net' = [net EXCEPT ![n] = IF @ = "off" THEN "up" ELSE @]
PowerOff(n) == net' = [net EXCEPT ![n] = "off"]

\* auto_wakeup_offline_node: nothing while a node is starting.
AutoWakeup ==
    \/ /\ \/ \E n \in Nodes : status[n] = "starting"
          \/ \A n \in Nodes : status[n] # "offline"
       /\ UNCHANGED <<status, net>>
    \/ /\ \A n \in Nodes : status[n] # "starting"
       /\ \E n \in Nodes :
             /\ status[n] = "offline"
             /\ status' = [status EXCEPT ![n] = "starting"]
             /\ PowerOn(n)

NodesNext ==
    \/ Watchdog
    \/ \E n \in Nodes :
          \/ RegisterHalt(n) \/ RegisterOnline(n) \/ Heartbeat(n)
          \/ Sample(n) \/ LateHeartbeat(n)
          \/ Break(n) \/ Finally(n) \/ Stale(n) \/ Cut(n) \/ Mend(n)
          \/ DrainNode(n) \/ EvacuateNode(n) \/ UndrainNode(n)
=============================================================================
