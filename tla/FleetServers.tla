---------------------------- MODULE FleetServers ----------------------------
(***************************************************************************)
(* Game servers: creation, start, stop, deletion, status polling           *)
(* (api/servers.py, orchestrator/server_lifecycle.py), migration by the    *)
(* rebalancer (services/node_rebalancer.py) and by the owner               *)
(* (api/servers_migration.py).  A request is a sequence of steps; between  *)
(* two of them heartbeats and other requests take theirs.  The billing     *)
(* checks of a start are in Billing and pass here.                         *)
(***************************************************************************)
EXTENDS FleetNodes

Idle(a) == job[a] = None
Ends(a) == job' = [job EXCEPT ![a] = None]
At(a, pc) == job[a] # None /\ job[a].pc = pc
GoesTo(a, pc) == job' = [job EXCEPT ![a] = [job[a] EXCEPT !.pc = pc]]

\* NodeRouter._get_runtime: the cached node, or the row's.
Target(a, s) == IF cache[a][s] # None THEN cache[a][s] ELSE row[s].node
Remembers(a, s, n) == [cache EXCEPT ![a] = [cache[a] EXCEPT ![s] = n]]
Cached(a, s) == Remembers(a, s, Target(a, s))
Forget(a, s) == Remembers(a, s, None)
\* get_status of the agent: the unit is active.
UnitActive(s, n) == s \in proc[n]
IsRunning(a, s) == Reach(Target(a, s)) /\ UnitActive(s, Target(a, s))

\* An entry of the router's cache expires.
CacheExpires(a, s) ==
    /\ cache[a][s] # None
    /\ cache' = Forget(a, s)
    /\ UNCHANGED <<nodeRows, links, proc, row, disk, redo, job, guards, lost>>

\* create_server
CreateServer(a, s) ==
    /\ Idle(a) /\ row[s].state = "none"
    /\ \/ /\ \E n \in Best :
                row' = [row EXCEPT ![s] = [state |-> "created", node |-> n]]
          /\ UNCHANGED <<status, net>>
       \/ Best = {} /\ AutoWakeup /\ UNCHANGED row
    /\ UNCHANGED <<fresh, sock, gone, breaks, late, proc, disk, requests, guards, lost>>

-----------------------------------------------------------------------------
\* start_server, force-start of provisioning, and the start of a migration.
Request(s, by, from, to) ==
    [pc |-> "begin", srv |-> s, from |-> from, to |-> to, seen |-> "none", by |-> by]

\* A request that finds its row running and its process too ends at once.
StartServer(a, s) ==
    /\ Idle(a) /\ s \in Rows
    /\ ~(row[s].state = "running" /\ IsRunning(a, s))
    /\ cache' = IF row[s].state = "running" THEN Cached(a, s) ELSE cache
    /\ job' = [job EXCEPT ![a] = Request(s, "user", None, None)]
    /\ UNCHANGED <<nodeRows, links, proc, row, disk, redo, guards, lost>>

\* Mutant: a node that is full is not left.
MustLeave_IgnoreFull(s) ==
    row[s].node \notin { n \in Nodes : status[n] \in {"online", "draining"} }

\* The node is dead or full; the server's own row counts if it is active.
MustLeave(s) ==
    row[s].node \notin { n \in Nodes : status[n] \in {"online", "draining"} /\ ~Full(n) }

\* _do_start_server up to its first commit: the server is detached or stays.
StartBegin(a) ==
    LET s == job[a].srv IN
    /\ At(a, "begin") /\ s \in Rows
    /\ \/ MustLeave(s) /\ row' = SetNode({s}, None) /\ GoesTo(a, "assign")
       \/ ~MustLeave(s) /\ GoesTo(a, "prepare") /\ UNCHANGED row
    /\ UNCHANGED <<nodeRows, links, proc, disk, redo, cache, guards, lost>>

\* Placement on a new node, or a 503 after a wake-up call.
StartAssign(a) ==
    LET s == job[a].srv IN
    /\ At(a, "assign") /\ s \in Rows
    /\ \/ /\ \E n \in Best :
                row' = [row EXCEPT ![s] = [state |-> "provisioning", node |-> n]]
          /\ GoesTo(a, "prepare")
          /\ UNCHANGED <<status, net>>
       \/ Best = {} /\ AutoWakeup /\ Ends(a) /\ UNCHANGED row
    /\ UNCHANGED <<fresh, sock, gone, breaks, late, proc, disk, redo, cache, guards, lost>>

\* _prepare_java_server_for_start answers 409 while the row is provisioning, as
\* it is after the placement above; what the row says is loaded with it.
StartPrepare(a) ==
    LET s == job[a].srv IN
    /\ At(a, "prepare") /\ s \in Rows
    /\ IF s \in Java /\ row[s].state = "provisioning"
          THEN Ends(a)
          ELSE job' = [job EXCEPT ![a] = [job[a] EXCEPT !.pc = "launch", !.seen = row[s].state]]
    /\ UNCHANGED <<nodeRows, links, proc, row, disk, redo, cache, guards, lost>>

\* The agent stops the unit and starts it again.  A world that is on none of
\* its disks is created; one that is stored elsewhere stays there, and the
\* process runs on an empty one.
UnitStarted(s, n) == proc' = [proc EXCEPT ![n] = @ \cup {s}]
Launched(s, n) ==
    /\ UnitStarted(s, n)
    /\ world' = [world EXCEPT ![s] = IF @ = {} \/ Store(n) \in @ THEN {Store(n)} ELSE @]
StartLaunch(a) ==
    LET s == job[a].srv
        n == row[s].node IN
    /\ At(a, "launch") /\ s \in Rows
    /\ cache' = Remembers(a, s, n)
    /\ \/ Reach(n) /\ Launched(s, n) /\ GoesTo(a, "commit") /\ UNCHANGED lost
       \/ /\ "timeout" \in Faults
          /\ Reach(n) /\ Launched(s, n) /\ Ends(a) /\ lost' = Losing({s})
       \/ ~Reach(n) /\ Ends(a) /\ UNCHANGED <<proc, world, lost>>
    /\ UNCHANGED <<nodeRows, links, row, snap, redo, guards>>

\* SQLAlchemy writes the state when it differs from the one that was loaded: a
\* heartbeat that has suspended the row in the meantime prevails, and the process
\* that was started is lost from sight.
Started(a) == IF job[a].seen = "running" THEN row[job[a].srv].state ELSE "running"

\* mark_server_migrated and record_migration
MarkMigrated(s) ==
    /\ moved' = moved \cup {s}
    /\ moves' = IF moves < MaxMoves THEN moves + 1 ELSE moves

\* The rest of the request: the commit of a start, or of the migration it ends.
StartCommit(a) ==
    LET s == job[a].srv IN
    /\ At(a, "commit") /\ s \in Rows
    /\ row' = SetState({s}, Started(a))
    /\ lost' = IF Started(a) = "running" THEN lost ELSE Losing({s})
    /\ \/ job[a].by = "user" /\ Ends(a) /\ UNCHANGED <<snap, guards>>
       \/ job[a].by = "rebalance" /\ MarkMigrated(s) /\ Ends(a) /\ UNCHANGED snap
       \/ job[a].by = "migrate" /\ MarkMigrated(s) /\ snap' = snap \ {s} /\ GoesTo(a, "purge")
    /\ UNCHANGED <<nodeRows, links, proc, world, redo, cache>>

\* A request whose row another request has deleted ends with an error.
RowDeleted(a) ==
    /\ ~Idle(a) /\ job[a].srv \notin Rows
    /\ Ends(a)
    /\ UNCHANGED <<nodeRows, links, proc, row, disk, redo, cache, guards, lost>>

-----------------------------------------------------------------------------
\* The orchestrator's stop_server.  Without a node the control plane, which
\* has no systemctl, stops nothing; an agent that cannot be reached raises.
UnitStopped(p, s, n) == [p EXCEPT ![n] = @ \ {s}]
Stopped(p, s, n) == IF Reach(n) THEN UnitStopped(p, s, n) ELSE p
OrchestratorStop(a, s) ==
    LET n == Target(a, s) IN
    /\ n = None \/ Reach(n)
    /\ proc' = Stopped(proc, s, n)
    /\ cache' = Cached(a, s)

\* Mutant: a state the enumeration does not have.
Suspended_Error(s) == row' = SetState({s}, "error")

Suspended(s) == row' = SetState({s}, "suspended")

\* stop_server of the API.
StopServer(a, s) ==
    /\ Idle(a) /\ s \in Rows
    /\ OrchestratorStop(a, s)
    /\ Suspended(s)
    /\ UNCHANGED <<nodeRows, links, disk, redo, job, guards, lost>>

\* toggle_server
ToggleServer(a, s) ==
    \/ row[s].state = "running" /\ IsRunning(a, s) /\ StopServer(a, s)
    \/ StartServer(a, s)

\* The auto-sleeper stops a running server that no player has used.
AutoSleep(a, s) ==
    /\ Idle(a) /\ row[s].state = "running"
    /\ OrchestratorStop(a, s)
    /\ Suspended(s)
    /\ UNCHANGED <<nodeRows, links, disk, redo, job, guards, lost>>

\* switch_server_software suspends a server it has not stopped, too.
SwitchSoftware(a, s) ==
    /\ "switch" \in Features
    /\ Idle(a) /\ s \in Rows
    /\ \/ row[s].state = "running" /\ OrchestratorStop(a, s)
       \/ row[s].state # "running" /\ UNCHANGED <<proc, cache>>
    /\ Suspended(s)
    /\ UNCHANGED <<nodeRows, links, disk, redo, job, guards, lost>>

\* admin_force_stop_server
ForceStop(a, s) ==
    /\ Idle(a) /\ s \in Rows
    /\ OrchestratorStop(a, s)
    /\ Suspended(s)
    /\ UNCHANGED <<nodeRows, links, disk, redo, job, guards, lost>>

\* purge_server_data: the unit is stopped and the directory removed.
Purged(w, s, n) == IF Reach(n) THEN [w EXCEPT ![s] = @ \ {Store(n)}] ELSE w

\* Mutant: the directory is removed and the process is left alone.
DeleteServer_NoStop(a, s) ==
    LET n == row[s].node IN
    /\ "delete" \in Features
    /\ Idle(a) /\ s \in Rows
    /\ world' = Purged(world, s, n)
    /\ snap' = snap \ {s}
    /\ row' = [row EXCEPT ![s] = [state |-> "deleted", node |-> None]]
    /\ UNCHANGED <<nodeRows, links, proc, requests, guards, lost>>

\* delete_server: neither a failed stop nor a failed purge keeps the row.
DeleteServer(a, s) ==
    LET n == row[s].node IN
    /\ "delete" \in Features
    /\ Idle(a) /\ s \in Rows
    /\ proc' = Stopped(IF row[s].state = "running" THEN Stopped(proc, s, Target(a, s)) ELSE proc,
                       s, n)
    /\ world' = Purged(world, s, n)
    /\ snap' = snap \ {s}
    /\ row' = [row EXCEPT ![s] = [state |-> "deleted", node |-> None]]
    /\ UNCHANGED <<nodeRows, links, requests, guards, lost>>

\* reprovision_java_server and its background task, which does not stop a
\* running process.
Reprovision(a, s) ==
    /\ "reprovision" \in Features
    /\ Idle(a) /\ s \in Rows \cap Java
    /\ row' = SetState({s}, "provisioning")
    /\ redo' = redo \cup {s}
    /\ UNCHANGED <<nodeRows, links, proc, disk, job, cache, guards, lost>>
ProvisionJava(s) ==
    /\ s \in redo
    /\ redo' = redo \ {s}
    /\ \/ s \in Rows /\ row' = SetState({s}, "created")
       \/ s \in Rows /\ Suspended(s)                    \* the download failed
       \/ s \notin Rows /\ UNCHANGED row
    /\ UNCHANGED <<nodeRows, links, proc, disk, job, cache, guards, lost>>

\* _compute_server_stats compares the process with the row it has loaded, and
\* commits afterwards.
PollStatus(a, s) ==
    /\ "poll" \in Features
    /\ Idle(a) /\ s \in Rows
    /\ cache' = Cached(a, s)
    /\ \/ IsRunning(a, s) /\ row[s].state \in {"suspended", "created"}
          /\ job' = [job EXCEPT ![a] = [Request(s, "user", None, None)
                                         EXCEPT !.pc = "poll", !.seen = "running"]]
       \/ ~IsRunning(a, s) /\ row[s].state = "running"
          /\ job' = [job EXCEPT ![a] = [Request(s, "user", None, None)
                                         EXCEPT !.pc = "poll", !.seen = "suspended"]]
    /\ UNCHANGED <<nodeRows, links, proc, row, disk, redo, guards, lost>>
PollCommit(a) ==
    /\ At(a, "poll") /\ job[a].srv \in Rows
    /\ row' = SetState({job[a].srv}, job[a].seen)
    /\ Ends(a)
    /\ UNCHANGED <<nodeRows, links, proc, disk, redo, cache, guards, lost>>

-----------------------------------------------------------------------------
\* _rebalance_cycle, phase 0: rows without a node, or on a node that is not
\* online, are pointed at the first healthy node.
Orphans == { s \in Rows : row[s].node \notin Online }
Rescue(a) ==
    /\ "rebalance" \in Features
    /\ Idle(a)
    /\ Orphans # {}
    /\ \E n \in Healthy : row' = SetNode(Orphans, n)
    /\ UNCHANGED <<nodeRows, links, proc, disk, requests, guards, lost>>

\* can_run_migration_now and server_in_migration_cooldown
MayMove(s) == moves < MaxMoves /\ s \notin moved

\* Phase 1 moves a server off the emptiest node to the emptiest other one that
\* has room, phase 2 one off an overloaded node to one that is not.
Consolidates(from, to) ==
    /\ Emptiest(from, Healthy)
    /\ ~Full(to) /\ Emptiest(to, Healthy \ {from})
Overflows(from, to) ==
    /\ Overloaded(from) /\ ~Overloaded(to)
    /\ Emptiest(to, { n \in Healthy \ {from} : ~Overloaded(n) })

\* _migrate_server: stop on the old node, or log that it failed, and suspend.
\* Mutant: the pointer moves and the old process is left alone.
RebalanceStop_NoStop(a, s, to) ==
    LET from == row[s].node IN
    /\ "rebalance" \in Features
    /\ Idle(a) /\ row[s].state = "running"
    /\ from \in Healthy /\ to \in Healthy \ {from}
    /\ MayMove(s)
    /\ Consolidates(from, to) \/ Overflows(from, to)
    /\ Suspended(s)
    /\ job' = [job EXCEPT ![a] = [Request(s, "rebalance", from, to) EXCEPT !.pc = "move"]]
    /\ UNCHANGED <<nodeRows, links, proc, disk, redo, cache, guards, lost>>

RebalanceStop(a, s, to) ==
    LET from == row[s].node IN
    /\ "rebalance" \in Features
    /\ Idle(a) /\ row[s].state = "running"
    /\ from \in Healthy /\ to \in Healthy \ {from}
    /\ MayMove(s)
    /\ Consolidates(from, to) \/ Overflows(from, to)
    /\ proc' = Stopped(proc, s, from)
    /\ Suspended(s)
    /\ job' = [job EXCEPT ![a] = [Request(s, "rebalance", from, to) EXCEPT !.pc = "move"]]
    /\ UNCHANGED <<nodeRows, links, disk, redo, cache, guards, lost>>

\* The pointer moves, and _do_start_server takes over.
RebalanceMove(a) ==
    LET s == job[a].srv IN
    /\ At(a, "move") /\ s \in Rows
    /\ row' = SetNode({s}, job[a].to)
    /\ cache' = Forget(a, s)
    /\ GoesTo(a, "begin")
    /\ UNCHANGED <<nodeRows, links, proc, disk, redo, guards, lost>>

\* Phase 2 finds no node with room: one is woken up.
RebalanceWake(a) ==
    /\ "rebalance" \in Features
    /\ Idle(a)
    /\ Healthy # {} /\ \A n \in Healthy : Overloaded(n)
    /\ AutoWakeup
    /\ UNCHANGED <<fresh, sock, gone, breaks, late, proc, row, disk, requests, guards, lost>>

\* Phase 3: a node without running rows, and not the last online one, hands its
\* rows to another online node and is powered off.
Shutdown(a, n) ==
    /\ "shutdown" \in Features
    /\ Idle(a) /\ Healthy # {}
    /\ status[n] = "online" /\ RunningOn(n) = {}
    /\ \E m \in Online \ {n} : row' = SetNode(On(n), m)
    /\ status' = [status EXCEPT ![n] = "offline"]
    /\ PowerOff(n)
    /\ proc' = [proc EXCEPT ![n] = {}]
    /\ Lose(n)
    /\ UNCHANGED <<fresh, breaks, disk, requests, guards, lost>>

-----------------------------------------------------------------------------
\* migrate_server, asked for by the owner: stop, snapshot to S3, point the row
\* at another node, restore there, start, purge the old node's copy.
MigrateStop(a, s) ==
    LET n == row[s].node IN
    /\ "migrate" \in Features
    /\ Idle(a) /\ s \in Rows /\ n # None
    /\ MayMove(s)
    /\ proc' = Stopped(proc, s, n)
    /\ Suspended(s)
    /\ job' = [job EXCEPT ![a] = [Request(s, "migrate", n, None) EXCEPT !.pc = "snap"]]
    /\ UNCHANGED <<nodeRows, links, disk, redo, cache, guards, lost>>

\* backup_server_to_s3 and restore_server_from_s3 of the agent.
Archives(s, n) == Reach(n) /\ Store(n) \in world[s]
Extracts(s, n) == Reach(n) /\ s \in snap
MigrateSnapshot(a) ==
    LET s == job[a].srv
        n == job[a].from IN
    /\ At(a, "snap") /\ s \in Rows
    /\ \/ Archives(s, n) /\ snap' = snap \cup {s} /\ GoesTo(a, "pick")
       \/ ~Archives(s, n) /\ Ends(a) /\ UNCHANGED snap
    /\ UNCHANGED <<nodeRows, links, proc, row, world, redo, cache, guards, lost>>

\* Any other online node may look free: used_ram_mb is a figure of the past.
MigratePick(a) ==
    LET s == job[a].srv IN
    /\ At(a, "pick") /\ s \in Rows
    /\ \/ /\ \E n \in Online \ {job[a].from} :
                /\ row' = SetNode({s}, n)
                /\ job' = [job EXCEPT ![a] = [job[a] EXCEPT !.pc = "restore", !.to = n]]
          /\ cache' = Forget(a, s)
       \/ Ends(a) /\ UNCHANGED <<row, cache>>
    /\ UNCHANGED <<nodeRows, links, proc, disk, redo, guards, lost>>
MigrateRestore(a) ==
    LET s == job[a].srv
        n == job[a].to IN
    /\ At(a, "restore") /\ s \in Rows
    /\ \/ /\ Extracts(s, n)
          /\ world' = [world EXCEPT ![s] = @ \cup {Store(n)}]
          /\ GoesTo(a, "begin")
          /\ UNCHANGED <<row, cache>>
       \/ /\ ~Extracts(s, n)
          /\ row' = SetNode({s}, job[a].from)
          /\ cache' = Forget(a, s)
          /\ Ends(a)
          /\ UNCHANGED world
    /\ UNCHANGED <<nodeRows, links, proc, snap, redo, guards, lost>>
MigratePurge(a) ==
    LET s == job[a].srv
        n == job[a].from IN
    /\ At(a, "purge")
    /\ proc' = Stopped(proc, s, n)
    /\ world' = Purged(world, s, n)
    /\ Ends(a)
    /\ UNCHANGED <<nodeRows, links, row, snap, redo, cache, guards, lost>>

-----------------------------------------------------------------------------
\* The end of a cooldown and of the hour.
Cooled ==
    /\ moved # {} \/ moves > 0
    /\ moved' = {} /\ moves' = 0
    /\ UNCHANGED <<nodeRows, links, proc, row, disk, requests, lost>>

\* A game server process dies, its unit is not restarted.
ProcessDies(n, s) ==
    /\ "die" \in Faults
    /\ s \in proc[n]
    /\ proc' = [proc EXCEPT ![n] = @ \ {s}]
    /\ UNCHANGED <<nodeRows, links, row, disk, requests, guards, lost>>

\* A process of the control plane restarts: its requests, its cache and its
\* background tasks are lost; reconcile_server_runtime_state corrects the rows.
BackendRestart(a) ==
    LET dead == { s \in Rows : row[s].state = "running"
                               /\ ~(Reach(row[s].node) /\ s \in proc[row[s].node]) } IN
    /\ "restart" \in Faults /\ breaks < MaxBreaks
    /\ breaks' = breaks + 1
    /\ Ends(a)
    /\ \E kept \in SUBSET redo : redo' = kept
    /\ moves' = 0
    /\ cache' = [cache EXCEPT ![a] = [s \in Servers |-> None]]
    /\ row' = SetState(dead, "suspended")
    /\ lost' = IF At(a, "commit") THEN Losing({job[a].srv}) ELSE lost
    /\ UNCHANGED <<nodeRows, sock, gone, net, late, proc, disk, moved>>

StartNext(a) == StartBegin(a) \/ StartAssign(a) \/ StartPrepare(a) \/ StartLaunch(a) \/ StartCommit(a)
MigrateNext(a) ==
    RebalanceMove(a) \/ MigrateSnapshot(a) \/ MigratePick(a) \/ MigrateRestore(a) \/ MigratePurge(a)
JobNext(a) == StartNext(a) \/ MigrateNext(a) \/ PollCommit(a) \/ RowDeleted(a)

ServersNext ==
    \/ Cooled
    \/ \E s \in Servers : ProvisionJava(s) \/ \E n \in Nodes : ProcessDies(n, s)
    \/ \E a \in Actors :
          \/ JobNext(a) \/ Rescue(a) \/ RebalanceWake(a) \/ BackendRestart(a)
          \/ \E n \in Nodes : Shutdown(a, n)
          \/ \E s \in Servers :
                \/ CacheExpires(a, s) \/ CreateServer(a, s) \/ StartServer(a, s)
                \/ StopServer(a, s) \/ ToggleServer(a, s) \/ ForceStop(a, s) \/ AutoSleep(a, s) \/ SwitchSoftware(a, s)
                \/ DeleteServer(a, s) \/ Reprovision(a, s)
                \/ PollStatus(a, s) \/ MigrateStop(a, s)
                \/ \E to \in Nodes : RebalanceStop(a, s, to)
=============================================================================
