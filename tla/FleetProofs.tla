---------------------------- MODULE FleetProofs ----------------------------
(***************************************************************************)
(* Types of the fleet, and what it promises while one request is handled   *)
(* at a time: it implements Placement, known processes fit into the RAM of *)
(* their node, and no world is taken away from under one.                  *)
(***************************************************************************)
EXTENDS Fleet, FiniteSetTheorems, TLAPS

-----------------------------------------------------------------------------
(* Types *)

LEMMA SetStateType ==
    ASSUME FleetTypeOK, NEW S, NEW state \in ServerState
    PROVE  SetState(S, state) \in [Servers -> Server]
BY DEF FleetTypeOK, SetState, Server

LEMMA SetNodeType ==
    ASSUME FleetTypeOK, NEW S, NEW n \in Nodes \cup {None}
    PROVE  SetNode(S, n) \in [Servers -> Server]
BY DEF FleetTypeOK, SetNode, Server

LEMMA SuspendedType ==
    ASSUME FleetTypeOK, NEW s, Suspended(s)
    PROVE  row' \in [Servers -> Server]
BY SetStateType DEF Suspended, ServerState

LEMMA NewRowType ==
    ASSUME FleetTypeOK, NEW s \in Servers, NEW state \in ServerState,
           NEW n \in Nodes \cup {None}, row' = [row EXCEPT ![s] = [state |-> state, node |-> n]]
    PROVE  row' \in [Servers -> Server]
BY DEF FleetTypeOK, Server

LEMMA EndsType ==
    ASSUME FleetTypeOK, NEW a \in Actors, Ends(a)
    PROVE  job' \in [Actors -> Job \cup {None}]
BY DEF FleetTypeOK, Ends

LEMMA GoesToType ==
    ASSUME FleetTypeOK, NEW a \in Actors, job[a] # None, NEW pc \in Steps, GoesTo(a, pc)
    PROVE  job' \in [Actors -> Job \cup {None}]
<1>1. job[a] \in Job  BY DEF FleetTypeOK
<1>2. [job[a] EXCEPT !.pc = pc] \in Job  BY <1>1 DEF Job
<1> QED  BY <1>2 DEF FleetTypeOK, GoesTo

LEMMA JobFields ==
    ASSUME FleetTypeOK, NEW a \in Actors, job[a] # None
    PROVE  /\ job[a] \in Job /\ job[a].srv \in Servers /\ job[a].seen \in ServerState
           /\ job[a].from \in Nodes \cup {None} /\ job[a].to \in Nodes \cup {None}
BY DEF FleetTypeOK, Job

LEMMA RequestType ==
    ASSUME FleetTypeOK, NEW a \in Actors, NEW s \in Servers,
           NEW by \in {"user", "rebalance", "migrate"},
           NEW from \in Nodes \cup {None}, NEW to \in Nodes \cup {None},
           NEW pc \in Steps, NEW seen \in ServerState,
           job' = [job EXCEPT ![a] =
                     [Request(s, by, from, to) EXCEPT !.pc = pc, !.seen = seen]]
    PROVE  job' \in [Actors -> Job \cup {None}]
<1>1. [Request(s, by, from, to) EXCEPT !.pc = pc, !.seen = seen] \in Job
  BY DEF Request, Job
<1> QED  BY <1>1 DEF FleetTypeOK

LEMMA TargetType ==
    ASSUME FleetTypeOK, NEW a \in Actors, NEW s \in Servers
    PROVE  Target(a, s) \in Nodes \cup {None}
BY DEF FleetTypeOK, Target, Server

LEMMA RemembersType ==
    ASSUME FleetTypeOK, NEW a \in Actors, NEW s \in Servers, NEW n \in Nodes \cup {None}
    PROVE  Remembers(a, s, n) \in [Actors -> [Servers -> Nodes \cup {None}]]
BY DEF FleetTypeOK, Remembers

LEMMA CacheTypes ==
    ASSUME FleetTypeOK, NEW a \in Actors, NEW s \in Servers
    PROVE  /\ Cached(a, s) \in [Actors -> [Servers -> Nodes \cup {None}]]
           /\ Forget(a, s) \in [Actors -> [Servers -> Nodes \cup {None}]]
BY TargetType, RemembersType DEF Cached, Forget

LEMMA StoppedType ==
    ASSUME NEW p \in [Nodes -> SUBSET Servers], NEW s, NEW n \in Nodes \cup {None}
    PROVE  Stopped(p, s, n) \in [Nodes -> SUBSET Servers]
BY DEF Stopped, UnitStopped, Reach

LEMMA OfflineType ==
    ASSUME FleetTypeOK, NEW n \in Nodes
    PROVE  Offline(n) \in [Nodes -> NodeState] /\ Noticed(n) \in [Nodes -> NodeState]
BY DEF FleetTypeOK, Offline, Noticed, NodeState

LEMMA LoseType ==
    ASSUME FleetTypeOK, NEW n \in Nodes, Lose(n)
    PROVE  /\ sock' \in [Nodes -> {"none", "halted", "open"}]
           /\ gone' \subseteq Nodes
           /\ late' \in [Nodes -> (SUBSET Servers) \cup {{None}}]
<1>1. sock' \in [Nodes -> {"none", "halted", "open"}]  BY DEF FleetTypeOK, Lose
<1>2. gone' \subseteq Nodes  BY DEF FleetTypeOK, Lose
<1>3. late' \in [Nodes -> (SUBSET Servers) \cup {{None}}]
  <2>1. {None} \in (SUBSET Servers) \cup {{None}}  OBVIOUS
  <2> QED  BY <2>1 DEF FleetTypeOK, Lose
<1> QED  BY <1>1, <1>2, <1>3

LEMMA WakeType ==
    ASSUME FleetTypeOK, AutoWakeup
    PROVE  status' \in [Nodes -> NodeState] /\ net' \in [Nodes -> {"up", "cut", "off"}]
BY DEF FleetTypeOK, AutoWakeup, PowerOn, NodeState

LEMMA BeatType ==
    ASSUME FleetTypeOK, NEW n \in Nodes, NEW S, Beat(n, S)
    PROVE  /\ sock' \in [Nodes -> {"none", "halted", "open"}]
           /\ fresh' \in [Nodes -> BOOLEAN] /\ status' \in [Nodes -> NodeState]
           /\ row' \in [Servers -> Server] /\ lost' \subseteq Servers
<1>1. row' \in [Servers -> Server]
  BY SetStateType DEF Beat, ServerState, FleetTypeOK
<1>2. ActiveOn(n) \subseteq Servers  BY DEF ActiveOn, On
<1> QED  BY <1>1, <1>2 DEF FleetTypeOK, Beat, Losing, nodeRows

LEMMA RegisterHalt_T ==
    ASSUME FleetTypeOK, NEW n \in Nodes, RegisterHalt(n)
    PROVE  FleetTypeOK'
BY DEF FleetTypeOK, RegisterHalt, HaltAll, nodeRows, links, disk, requests, guards

LEMMA RegisterOnline_T ==
    ASSUME FleetTypeOK, NEW n \in Nodes, RegisterOnline(n)
    PROVE  FleetTypeOK'
<1>1. row' \in [Servers -> Server]
  BY SetStateType DEF RegisterOnline, ServerState, FleetTypeOK
<1>2. status' \in [Nodes -> NodeState]  BY DEF FleetTypeOK, RegisterOnline, NodeState
<1> QED
  BY <1>1, <1>2 DEF FleetTypeOK, RegisterOnline, nodeRows, links, disk, requests, guards

LEMMA Heartbeat_T ==
    ASSUME FleetTypeOK, NEW n \in Nodes, Heartbeat(n)
    PROVE  FleetTypeOK'
BY BeatType DEF FleetTypeOK, Heartbeat, nodeRows, links, disk, requests, guards

LEMMA Sample_T ==
    ASSUME FleetTypeOK, NEW n \in Nodes, Sample(n)
    PROVE  FleetTypeOK'
BY DEF FleetTypeOK, Sample, nodeRows, links, disk, requests, guards

LEMMA LateHeartbeat_T ==
    ASSUME FleetTypeOK, NEW n \in Nodes, LateHeartbeat(n)
    PROVE  FleetTypeOK'
BY BeatType DEF FleetTypeOK, LateHeartbeat, nodeRows, links, disk, requests, guards

LEMMA Break_T ==
    ASSUME FleetTypeOK, NEW n \in Nodes, Break(n)
    PROVE  FleetTypeOK'
<1>1. breaks' \in 0..MaxBreaks  BY FleetAssumption DEF Break, FleetTypeOK
<1>2. status' \in [Nodes -> NodeState]  BY OfflineType DEF Break
<1>3. Lose(n)  BY DEF Break
<1>4. /\ sock' \in [Nodes -> {"none", "halted", "open"}] /\ gone' \subseteq Nodes
      /\ late' \in [Nodes -> (SUBSET Servers) \cup {{None}}]
  BY <1>3, LoseType
<1> QED
  BY <1>1, <1>2, <1>3, <1>4 DEF FleetTypeOK, Break, nodeRows, links, disk, requests, guards

LEMMA Finally_T ==
    ASSUME FleetTypeOK, NEW n \in Nodes, Finally(n)
    PROVE  FleetTypeOK'
BY OfflineType DEF FleetTypeOK, Finally, nodeRows, links, disk, requests, guards

LEMMA Stale_T ==
    ASSUME FleetTypeOK, NEW n \in Nodes, Stale(n)
    PROVE  FleetTypeOK'
BY LoseType, OfflineType DEF FleetTypeOK, Stale, nodeRows, links, disk, requests, guards

LEMMA Watchdog_T ==
    ASSUME FleetTypeOK, Watchdog
    PROVE  FleetTypeOK'
BY DEF FleetTypeOK, Watchdog, NodeState, nodeRows, links, disk, requests, guards

LEMMA Cut_T ==
    ASSUME FleetTypeOK, NEW n \in Nodes, Cut(n)
    PROVE  FleetTypeOK'
BY FleetAssumption DEF FleetTypeOK, Cut, nodeRows, links, disk, requests, guards

LEMMA Mend_T ==
    ASSUME FleetTypeOK, NEW n \in Nodes, Mend(n)
    PROVE  FleetTypeOK'
BY DEF FleetTypeOK, Mend, nodeRows, links, disk, requests, guards

LEMMA DrainNode_T ==
    ASSUME FleetTypeOK, NEW n \in Nodes, DrainNode(n)
    PROVE  FleetTypeOK'
BY DEF FleetTypeOK, DrainNode, NodeState, nodeRows, links, disk, requests, guards

LEMMA EvacuateNode_T ==
    ASSUME FleetTypeOK, NEW n \in Nodes, EvacuateNode(n)
    PROVE  FleetTypeOK'
BY DEF FleetTypeOK, EvacuateNode, NodeState, nodeRows, links, disk, requests, guards

LEMMA UndrainNode_T ==
    ASSUME FleetTypeOK, NEW n \in Nodes, UndrainNode(n)
    PROVE  FleetTypeOK'
BY DEF FleetTypeOK, UndrainNode, NodeState, nodeRows, links, disk, requests, guards

LEMMA CacheExpires_T ==
    ASSUME FleetTypeOK, NEW a \in Actors, NEW s \in Servers, CacheExpires(a, s)
    PROVE  FleetTypeOK'
BY CacheTypes DEF FleetTypeOK, CacheExpires, nodeRows, links, disk, requests, guards

LEMMA CreateServer_T ==
    ASSUME FleetTypeOK, NEW a \in Actors, NEW s \in Servers, CreateServer(a, s)
    PROVE  FleetTypeOK'
BY WakeType, NewRowType DEF FleetTypeOK, CreateServer, Best, Healthy, Online, ServerState, nodeRows, links, disk, requests, guards

LEMMA StartServer_T ==
    ASSUME FleetTypeOK, NEW a \in Actors, NEW s \in Servers, StartServer(a, s)
    PROVE  FleetTypeOK'
<1>1. cache' \in [Actors -> [Servers -> Nodes \cup {None}]]
  BY CacheTypes DEF StartServer, FleetTypeOK
<1>2. Request(s, "user", None, None) \in Job  BY DEF Request, Job, Steps, ServerState
<1>3. job' \in [Actors -> Job \cup {None}]  BY <1>2 DEF StartServer, FleetTypeOK
<1> QED
  BY <1>1, <1>2, <1>3 DEF FleetTypeOK, StartServer, nodeRows, links, disk, requests, guards

LEMMA StartBegin_T ==
    ASSUME FleetTypeOK, NEW a \in Actors, StartBegin(a)
    PROVE  FleetTypeOK'
<1>1. job[a] # None  BY DEF StartBegin, At
<1>2. row' \in [Servers -> Server]  BY <1>1, SetNodeType DEF StartBegin, FleetTypeOK
<1>3. job' \in [Actors -> Job \cup {None}]  BY <1>1, GoesToType DEF StartBegin, Steps
<1> QED
  BY <1>1, <1>2, <1>3 DEF FleetTypeOK, StartBegin, nodeRows, links, disk, requests, guards

LEMMA StartAssign_T ==
    ASSUME FleetTypeOK, NEW a \in Actors, StartAssign(a)
    PROVE  FleetTypeOK'
BY JobFields, WakeType, NewRowType, GoesToType, EndsType DEF FleetTypeOK, StartAssign, At, Steps, Best, Healthy, Online, ServerState, nodeRows, links, disk, requests, guards

LEMMA StartPrepare_T ==
    ASSUME FleetTypeOK, NEW a \in Actors, StartPrepare(a)
    PROVE  FleetTypeOK'
<1>1. job[a] # None /\ job[a].srv \in Servers /\ job[a] \in Job
  BY JobFields DEF StartPrepare, At
<1>2. row[job[a].srv].state \in ServerState  BY <1>1 DEF FleetTypeOK, Server
<1>3. [job[a] EXCEPT !.pc = "launch", !.seen = row[job[a].srv].state] \in Job
  BY <1>1, <1>2 DEF Job, Steps
<1>4. job' \in [Actors -> Job \cup {None}]
  BY <1>3, EndsType DEF StartPrepare, FleetTypeOK
<1> QED
  BY <1>1, <1>2, <1>3, <1>4 DEF FleetTypeOK, StartPrepare, nodeRows, links, disk, requests, guards

LEMMA StartLaunch_T ==
    ASSUME FleetTypeOK, NEW a \in Actors, StartLaunch(a)
    PROVE  FleetTypeOK'
<1>1. job[a] # None /\ job[a].srv \in Servers  BY JobFields DEF StartLaunch, At
<1>2. row[job[a].srv].node \in Nodes \cup {None}  BY <1>1 DEF FleetTypeOK, Server
<1>3. cache' \in [Actors -> [Servers -> Nodes \cup {None}]]
  BY <1>1, <1>2, RemembersType DEF StartLaunch
<1>4. job' \in [Actors -> Job \cup {None}]
  BY <1>1, GoesToType, EndsType DEF StartLaunch, Steps
<1>5. proc' \in [Nodes -> SUBSET Servers]
  <2>1. CASE Reach(row[job[a].srv].node) /\ Launched(job[a].srv, row[job[a].srv].node)
    BY <1>1, <1>2, <2>1 DEF Launched, UnitStarted, Reach, FleetTypeOK
  <2>2. CASE UNCHANGED proc  BY <2>2 DEF FleetTypeOK
  <2> QED  BY <2>1, <2>2 DEF StartLaunch
<1>6. Reach(row[job[a].srv].node) => Store(row[job[a].srv].node) \in Stores
  BY <1>2 DEF Reach, Stores
<1>7. world' \in [Servers -> SUBSET Stores]
  BY <1>1, <1>6 DEF StartLaunch, Launched, FleetTypeOK
<1>8. lost' \subseteq Servers  BY <1>1 DEF StartLaunch, Losing, FleetTypeOK
<1> QED
  BY <1>1, <1>2, <1>3, <1>4, <1>5, <1>6, <1>7, <1>8 DEF FleetTypeOK, StartLaunch, nodeRows, links, disk, requests, guards

LEMMA StartCommit_T ==
    ASSUME FleetTypeOK, NEW a \in Actors, StartCommit(a)
    PROVE  FleetTypeOK'
<1>1. job[a] # None /\ job[a].srv \in Servers  BY JobFields DEF StartCommit, At
<1>2. Started(a) \in ServerState  BY <1>1 DEF Started, FleetTypeOK, Server, ServerState
<1>3. row' \in [Servers -> Server]  BY <1>2, SetStateType DEF StartCommit
<1>4. job' \in [Actors -> Job \cup {None}]
  BY <1>1, GoesToType, EndsType DEF StartCommit, Steps
<1>5. moved' \subseteq Servers /\ moves' \in 0..MaxMoves
  BY <1>1, FleetAssumption DEF StartCommit, MarkMigrated, guards, FleetTypeOK
<1>6. snap' \subseteq Servers /\ lost' \subseteq Servers
  BY <1>1 DEF StartCommit, Losing, FleetTypeOK
<1> QED
  BY <1>1, <1>2, <1>3, <1>4, <1>5, <1>6 DEF FleetTypeOK, StartCommit, nodeRows, links, disk, requests, guards

LEMMA RowDeleted_T ==
    ASSUME FleetTypeOK, NEW a \in Actors, RowDeleted(a)
    PROVE  FleetTypeOK'
BY EndsType DEF FleetTypeOK, RowDeleted, nodeRows, links, disk, requests, guards

LEMMA StopServer_T ==
    ASSUME FleetTypeOK, NEW a \in Actors, NEW s \in Servers, StopServer(a, s)
    PROVE  FleetTypeOK'
BY SuspendedType, TargetType, StoppedType, CacheTypes DEF FleetTypeOK, StopServer, OrchestratorStop, nodeRows, links, disk, requests, guards

LEMMA AutoSleep_T ==
    ASSUME FleetTypeOK, NEW a \in Actors, NEW s \in Servers, AutoSleep(a, s)
    PROVE  FleetTypeOK'
BY SuspendedType, TargetType, StoppedType, CacheTypes DEF FleetTypeOK, AutoSleep, OrchestratorStop, nodeRows, links, disk, requests, guards

LEMMA ForceStop_T ==
    ASSUME FleetTypeOK, NEW a \in Actors, NEW s \in Servers, ForceStop(a, s)
    PROVE  FleetTypeOK'
BY SuspendedType, TargetType, StoppedType, CacheTypes DEF FleetTypeOK, ForceStop, OrchestratorStop, nodeRows, links, disk, requests, guards

LEMMA SwitchSoftware_T ==
    ASSUME FleetTypeOK, NEW a \in Actors, NEW s \in Servers, SwitchSoftware(a, s)
    PROVE  FleetTypeOK'
<1>1. row' \in [Servers -> Server]  BY SuspendedType DEF SwitchSoftware
<1>2. proc' \in [Nodes -> SUBSET Servers]
  <2>1. Stopped(proc, s, Target(a, s)) \in [Nodes -> SUBSET Servers]
    BY TargetType, StoppedType DEF FleetTypeOK
  <2> QED  BY <2>1 DEF SwitchSoftware, OrchestratorStop, FleetTypeOK
<1>3. cache' \in [Actors -> [Servers -> Nodes \cup {None}]]
  BY CacheTypes DEF SwitchSoftware, OrchestratorStop, FleetTypeOK
<1> QED
  BY <1>1, <1>2, <1>3 DEF FleetTypeOK, SwitchSoftware, nodeRows, links, disk, requests, guards

LEMMA ToggleServer_T ==
    ASSUME FleetTypeOK, NEW a \in Actors, NEW s \in Servers, ToggleServer(a, s)
    PROVE  FleetTypeOK'
BY StopServer_T, StartServer_T DEF ToggleServer

LEMMA DeleteServer_T ==
    ASSUME FleetTypeOK, NEW a \in Actors, NEW s \in Servers, DeleteServer(a, s)
    PROVE  FleetTypeOK'
BY StoppedType, TargetType, NewRowType DEF FleetTypeOK, DeleteServer, Purged, Server, ServerState, nodeRows, links, disk, requests, guards

LEMMA Reprovision_T ==
    ASSUME FleetTypeOK, NEW a \in Actors, NEW s \in Servers, Reprovision(a, s)
    PROVE  FleetTypeOK'
BY SetStateType DEF FleetTypeOK, Reprovision, ServerState, nodeRows, links, disk, requests, guards

LEMMA ProvisionJava_T ==
    ASSUME FleetTypeOK, NEW s \in Servers, ProvisionJava(s)
    PROVE  FleetTypeOK'
BY SetStateType, SuspendedType DEF FleetTypeOK, ProvisionJava, ServerState, nodeRows, links, disk, requests, guards

LEMMA PollStatus_T ==
    ASSUME FleetTypeOK, NEW a \in Actors, NEW s \in Servers, PollStatus(a, s)
    PROVE  FleetTypeOK'
<1>1. cache' \in [Actors -> [Servers -> Nodes \cup {None}]]  BY CacheTypes DEF PollStatus
<1>2. \A q \in {"running", "suspended"} :
        [Request(s, "user", None, None) EXCEPT !.pc = "poll", !.seen = q] \in Job
  BY DEF Request, Job, Steps, ServerState
<1>3. job' \in [Actors -> Job \cup {None}]  BY <1>2 DEF PollStatus, FleetTypeOK
<1> QED
  BY <1>1, <1>2, <1>3 DEF FleetTypeOK, PollStatus, nodeRows, links, disk, requests, guards

LEMMA PollCommit_T ==
    ASSUME FleetTypeOK, NEW a \in Actors, PollCommit(a)
    PROVE  FleetTypeOK'
BY JobFields, SetStateType, EndsType DEF FleetTypeOK, PollCommit, At, nodeRows, links, disk, requests, guards

LEMMA Rescue_T ==
    ASSUME FleetTypeOK, NEW a \in Actors, Rescue(a)
    PROVE  FleetTypeOK'
<1>1. PICK n \in Nodes : row' = SetNode(Orphans, n)  BY DEF Rescue, Healthy, Online
<1>2. row' \in [Servers -> Server]  BY <1>1, SetNodeType
<1> QED  BY <1>2 DEF FleetTypeOK, Rescue, nodeRows, links, disk, requests, guards

LEMMA RebalanceStop_T ==
    ASSUME FleetTypeOK, NEW a \in Actors, NEW s \in Servers, NEW to \in Nodes, RebalanceStop(a, s, to)
    PROVE  FleetTypeOK'
<1>1. row' \in [Servers -> Server]  BY SuspendedType DEF RebalanceStop
<1>2. row[s].node \in Nodes \cup {None}  BY DEF FleetTypeOK, Server
<1>3. proc' \in [Nodes -> SUBSET Servers]
  BY <1>2, StoppedType DEF RebalanceStop, FleetTypeOK
<1>4. [Request(s, "rebalance", row[s].node, to) EXCEPT !.pc = "move"] \in Job
  BY <1>2 DEF Request, Job, Steps, ServerState
<1>5. job' \in [Actors -> Job \cup {None}]  BY <1>4 DEF RebalanceStop, FleetTypeOK
<1> QED
  BY <1>1, <1>2, <1>3, <1>4, <1>5 DEF FleetTypeOK, RebalanceStop, nodeRows, links, disk, requests, guards

LEMMA RebalanceMove_T ==
    ASSUME FleetTypeOK, NEW a \in Actors, RebalanceMove(a)
    PROVE  FleetTypeOK'
BY JobFields, SetNodeType, CacheTypes, GoesToType DEF FleetTypeOK, RebalanceMove, At, Steps, nodeRows, links, disk, requests, guards

LEMMA RebalanceWake_T ==
    ASSUME FleetTypeOK, NEW a \in Actors, RebalanceWake(a)
    PROVE  FleetTypeOK'
BY WakeType DEF FleetTypeOK, RebalanceWake, nodeRows, links, disk, requests, guards

LEMMA Shutdown_T ==
    ASSUME FleetTypeOK, NEW a \in Actors, NEW n \in Nodes, Shutdown(a, n)
    PROVE  FleetTypeOK'
<1>1. Lose(n)  BY DEF Shutdown
<1>2. /\ sock' \in [Nodes -> {"none", "halted", "open"}] /\ gone' \subseteq Nodes
      /\ late' \in [Nodes -> (SUBSET Servers) \cup {{None}}]
  BY <1>1, LoseType
<1>3. row' \in [Servers -> Server]  BY SetNodeType DEF Shutdown, Online
<1>4. status' \in [Nodes -> NodeState] /\ net' \in [Nodes -> {"up", "cut", "off"}]
  BY DEF Shutdown, PowerOff, FleetTypeOK, NodeState
<1>5. proc' \in [Nodes -> SUBSET Servers]  BY DEF Shutdown, FleetTypeOK
<1> QED
  BY <1>1, <1>2, <1>3, <1>4, <1>5 DEF FleetTypeOK, Shutdown, nodeRows, links, disk, requests, guards

LEMMA MigrateStop_T ==
    ASSUME FleetTypeOK, NEW a \in Actors, NEW s \in Servers, MigrateStop(a, s)
    PROVE  FleetTypeOK'
<1>1. row' \in [Servers -> Server]  BY SuspendedType DEF MigrateStop
<1>2. row[s].node \in Nodes \cup {None}  BY DEF FleetTypeOK, Server
<1>3. proc' \in [Nodes -> SUBSET Servers]
  BY <1>2, StoppedType DEF MigrateStop, FleetTypeOK
<1>4. [Request(s, "migrate", row[s].node, None) EXCEPT !.pc = "snap"] \in Job
  BY <1>2 DEF Request, Job, Steps, ServerState
<1>5. job' \in [Actors -> Job \cup {None}]  BY <1>4 DEF MigrateStop, FleetTypeOK
<1> QED
  BY <1>1, <1>2, <1>3, <1>4, <1>5 DEF FleetTypeOK, MigrateStop, nodeRows, links, disk, requests, guards

LEMMA MigrateSnapshot_T ==
    ASSUME FleetTypeOK, NEW a \in Actors, MigrateSnapshot(a)
    PROVE  FleetTypeOK'
BY JobFields, GoesToType, EndsType DEF FleetTypeOK, MigrateSnapshot, At, Steps, nodeRows, links, disk, requests, guards

LEMMA MigratePick_T ==
    ASSUME FleetTypeOK, NEW a \in Actors, MigratePick(a)
    PROVE  FleetTypeOK'
<1>1. job[a] # None /\ job[a].srv \in Servers /\ job[a] \in Job
  BY JobFields DEF MigratePick, At
<1>2. row' \in [Servers -> Server]
  <2>1. \A n \in Nodes : SetNode({job[a].srv}, n) \in [Servers -> Server]  BY SetNodeType
  <2> QED  BY ZenonT(60), <2>1 DEF MigratePick, Online, FleetTypeOK
<1>3. \A n \in Nodes : [job[a] EXCEPT !.pc = "restore", !.to = n] \in Job
  BY <1>1 DEF Job, Steps
<1>4. job' \in [Actors -> Job \cup {None}]
  BY ZenonT(60), <1>3, EndsType DEF MigratePick, Online, FleetTypeOK
<1>5. cache' \in [Actors -> [Servers -> Nodes \cup {None}]]
  <2>1. Forget(a, job[a].srv) \in [Actors -> [Servers -> Nodes \cup {None}]]
    BY <1>1, CacheTypes
  <2> QED  BY <2>1 DEF MigratePick, FleetTypeOK
<1> QED
  BY <1>1, <1>2, <1>3, <1>4, <1>5 DEF FleetTypeOK, MigratePick, nodeRows, links, disk, requests, guards

LEMMA MigrateRestore_T ==
    ASSUME FleetTypeOK, NEW a \in Actors, MigrateRestore(a)
    PROVE  FleetTypeOK'
<1>1. /\ job[a] # None /\ job[a].srv \in Servers
      /\ job[a].from \in Nodes \cup {None} /\ job[a].to \in Nodes \cup {None}
  BY JobFields DEF MigrateRestore, At
<1>2. row' \in [Servers -> Server]  BY <1>1, SetNodeType DEF MigrateRestore, FleetTypeOK
<1>3. job' \in [Actors -> Job \cup {None}]
  BY <1>1, GoesToType, EndsType DEF MigrateRestore, Steps
<1>4. cache' \in [Actors -> [Servers -> Nodes \cup {None}]]
  BY <1>1, CacheTypes DEF MigrateRestore, FleetTypeOK
<1>5. Extracts(job[a].srv, job[a].to) => Store(job[a].to) \in Stores
  BY <1>1 DEF Extracts, Reach, Stores
<1>6. world' \in [Servers -> SUBSET Stores]  BY <1>1, <1>5 DEF MigrateRestore, FleetTypeOK
<1> QED
  BY <1>1, <1>2, <1>3, <1>4, <1>5, <1>6 DEF FleetTypeOK, MigrateRestore, nodeRows, links, disk, requests, guards

LEMMA MigratePurge_T ==
    ASSUME FleetTypeOK, NEW a \in Actors, MigratePurge(a)
    PROVE  FleetTypeOK'
BY JobFields, StoppedType, EndsType DEF FleetTypeOK, MigratePurge, At, Purged, Reach, nodeRows, links, disk, requests, guards

LEMMA Cooled_T ==
    ASSUME FleetTypeOK, Cooled
    PROVE  FleetTypeOK'
BY FleetAssumption DEF FleetTypeOK, Cooled, nodeRows, links, disk, requests, guards

LEMMA ProcessDies_T ==
    ASSUME FleetTypeOK, NEW n \in Nodes, NEW s \in Servers, ProcessDies(n, s)
    PROVE  FleetTypeOK'
BY DEF FleetTypeOK, ProcessDies, nodeRows, links, disk, requests, guards

LEMMA BackendRestart_T ==
    ASSUME FleetTypeOK, NEW a \in Actors, BackendRestart(a)
    PROVE  FleetTypeOK'
<1>1. row' \in [Servers -> Server]  BY SetStateType DEF BackendRestart, ServerState
<1>2. job' \in [Actors -> Job \cup {None}]  BY EndsType DEF BackendRestart
<1>3. cache' \in [Actors -> [Servers -> Nodes \cup {None}]]
  BY DEF BackendRestart, FleetTypeOK
<1>4. redo' \subseteq Servers  BY DEF BackendRestart, FleetTypeOK
<1>5. lost' \subseteq Servers  BY JobFields DEF BackendRestart, Losing, At, FleetTypeOK
<1>6. breaks' \in 0..MaxBreaks /\ moves' \in 0..MaxMoves
  BY FleetAssumption DEF BackendRestart, FleetTypeOK
<1> QED
  BY <1>1, <1>2, <1>3, <1>4, <1>5, <1>6 DEF FleetTypeOK, BackendRestart, nodeRows, links, disk, requests, guards

LEMMA NodeTypes ==
    ASSUME FleetTypeOK, NodesNext PROVE FleetTypeOK'
BY RegisterHalt_T, RegisterOnline_T, Heartbeat_T, Sample_T, LateHeartbeat_T, Break_T,
   Finally_T, Stale_T, Watchdog_T, Cut_T, Mend_T, DrainNode_T, EvacuateNode_T, UndrainNode_T
   DEF NodesNext

LEMMA JobTypes ==
    ASSUME FleetTypeOK, NEW a \in Actors, JobNext(a) PROVE FleetTypeOK'
BY StartBegin_T, StartAssign_T, StartPrepare_T, StartLaunch_T, StartCommit_T, RebalanceMove_T,
   MigrateSnapshot_T, MigratePick_T, MigrateRestore_T, MigratePurge_T, PollCommit_T, RowDeleted_T
   DEF JobNext, StartNext, MigrateNext

LEMMA ServerTypes ==
    ASSUME FleetTypeOK, ServersNext PROVE FleetTypeOK'
BY JobTypes, Cooled_T, ProvisionJava_T, ProcessDies_T, Rescue_T, RebalanceWake_T,
   BackendRestart_T, Shutdown_T, CacheExpires_T, CreateServer_T, StartServer_T, StopServer_T,
   ToggleServer_T, ForceStop_T, AutoSleep_T, SwitchSoftware_T, DeleteServer_T, Reprovision_T,
   PollStatus_T, MigrateStop_T, RebalanceStop_T
   DEF ServersNext

LEMMA InitTypes == ASSUME FleetInit PROVE FleetTypeOK
BY FleetAssumption DEF FleetInit, FleetTypeOK, NodeState, Server, ServerState

\* No handler, heartbeat or loop writes a value outside the enumerations of the
\* schema, for any fleet and whatever breaks (database/schema.py, api/nodes.py,
\* api/servers.py).
THEOREM FleetTyped == FleetSpec => []FleetTypeOK
<1>1. FleetInit => FleetTypeOK  BY InitTypes
<1>2. FleetTypeOK /\ [FleetNext]_fvars => FleetTypeOK'
  <2> SUFFICES ASSUME FleetTypeOK, [FleetNext]_fvars PROVE FleetTypeOK'
    OBVIOUS
  <2>1. CASE FleetNext  BY <2>1, NodeTypes, ServerTypes DEF FleetNext
  <2>2. CASE UNCHANGED fvars
    BY <2>2 DEF fvars, nodeRows, links, disk, requests, guards, FleetTypeOK
  <2> QED  BY <2>1, <2>2
<1> QED  BY <1>1, <1>2, PTL DEF FleetSpec

-----------------------------------------------------------------------------
(* The invariant of a fleet whose requests are handled one at a time. *)

\* One process of the control plane, which handles one request at a time; game
\* processes die, heartbeats are late, answers to a start are lost and the control
\* plane restarts, but agents stay connected; rows are not changed under a running
\* process by a drain or a reprovisioning.  lost is recorded.
Orderly ==
    /\ \A a, b \in Actors : a = b
    /\ Faults \subseteq {"die", "delay", "timeout", "restart"}
    /\ Features \cap {"drain", "reprovision"} = {}
    /\ History

\* A node that is not online runs nothing, and one that is can be reached.
LinkOK(n) ==
    /\ net[n] # "cut" /\ status[n] # "draining"
    /\ net[n] = "off" => sock[n] = "none"
    /\ status[n] = "online" => sock[n] = "open" /\ fresh[n] /\ net[n] = "up"
    /\ status[n] # "online" => proc[n] = {}
LinkInv == gone = {} /\ redo = {} /\ \A n \in Nodes : LinkOK(n)

\* A known process runs at home, its row says so or is about to, and the router
\* does not look for it elsewhere.
Committing(s) == \E a \in Actors : At(a, "commit") /\ job[a].srv = s
KnownOK(n, s) ==
    /\ row[s].node = n
    /\ row[s].state = "running" \/ Committing(s)
    /\ \A a \in Actors : cache[a][s] \in {None, n}
KnownInv == \A n \in Nodes : \A s \in Known(n) : KnownOK(n, s)

\* A request works on a server that exists and, until it has launched it, has no
\* known process; past the placement its node is online and has room for it.
Down(s) == \A n \in Nodes : s \notin Known(n)
Room(s, n) == Cardinality(ActiveOn(n) \cup {s}) <= Capacity
Waiting(j) == \/ j.pc \notin {"commit", "poll", "purge"}
              \/ j.pc = "poll" /\ j.seen # "running"
JobOK(j) ==
    /\ j.srv \in Rows
    /\ Waiting(j) => Down(j.srv)
    /\ j.pc \in {"prepare", "launch"} =>
          \E n \in Online : row[j.srv].node = n /\ Room(j.srv, n)
JobInv == \A a \in Actors : job[a] # None => JobOK(job[a])

FleetInv == FleetTypeOK /\ LinkInv /\ KnownInv /\ JobInv

\* No process becomes known: so of every step but a launch.
Shrinks == \A n \in Nodes : Known(n)' \subseteq Known(n)
Kept == LinkInv' /\ KnownInv' /\ JobInv' /\ Shrinks

LEMMA FiniteActive ==
    ASSUME FleetTypeOK, NEW n
    PROVE  IsFiniteSet(ActiveOn(n)) /\ Cardinality(ActiveOn(n)) \in Nat
BY FleetAssumption, FS_Subset, FS_CardinalityType DEF ActiveOn, On

LEMMA RoomFrame ==
    ASSUME FleetTypeOK, NEW s \in Servers, NEW n, Room(s, n), ActiveOn(n)' \subseteq ActiveOn(n) \cup {s}
    PROVE  Room(s, n)'
<1>1. IsFiniteSet(ActiveOn(n) \cup {s})  BY FiniteActive, FS_AddElement
<1>2. ActiveOn(n)' \cup {s} \subseteq ActiveOn(n) \cup {s}  OBVIOUS
<1>3. /\ Cardinality(ActiveOn(n)' \cup {s}) <= Cardinality(ActiveOn(n) \cup {s})
      /\ Cardinality(ActiveOn(n)' \cup {s}) \in Nat /\ Cardinality(ActiveOn(n) \cup {s}) \in Nat
  BY <1>1, <1>2, FS_Subset, FS_CardinalityType
<1> QED  BY <1>3, FleetAssumption DEF Room

\* What a request finds when it looks for a known process.
LEMMA Routed ==
    ASSUME FleetInv, NEW n \in Nodes, NEW s \in Known(n), NEW a \in Actors
    PROVE  Target(a, s) = n /\ Reach(n) /\ s \in proc[n] /\ status[n] = "online" /\ s \in Servers
<1>1. s \in proc[n] /\ s \in Servers  BY DEF FleetInv, FleetTypeOK, Known
<1>2. row[s].node = n /\ cache[a][s] \in {None, n}  BY DEF FleetInv, KnownInv, KnownOK
<1>3. status[n] = "online" /\ net[n] = "up"  BY <1>1 DEF FleetInv, LinkInv, LinkOK
<1> QED  BY <1>1, <1>2, <1>3, FleetAssumption DEF Target, Reach

\* While nobody is at work the row of a known process is in state running.
LEMMA IdleRuns ==
    ASSUME FleetInv, Orderly, NEW a \in Actors, ~At(a, "commit"), NEW n \in Nodes, NEW s \in Known(n)
    PROVE  row[s].state = "running" /\ row[s].node = n
BY DEF FleetInv, KnownInv, KnownOK, Committing, Orderly

LEMMA KnownFrame ==
    ASSUME KnownInv, Shrinks,
           \A n \in Nodes : \A s \in Known(n)' :
              /\ row'[s].node = row[s].node
              /\ row[s].state = "running" => row'[s].state = "running"
              /\ Committing(s) => Committing(s)' \/ row'[s].state = "running"
              /\ \A a \in Actors : cache'[a][s] \in {None, n, cache[a][s]}
    PROVE  KnownInv'
BY DEF KnownInv, KnownOK, Shrinks

\* The same when the one request at work is not about to commit.
LEMMA IdleFrame ==
    ASSUME FleetInv, Orderly, Shrinks, NEW a \in Actors, ~At(a, "commit"),
           \A n \in Nodes : \A s \in Known(n)' :
              /\ row'[s].node = row[s].node
              /\ row[s].state = "running" => row'[s].state = "running"
              /\ cache'[a][s] \in {None, n, cache[a][s]}
    PROVE  KnownInv'
<1>1. \A s : ~Committing(s)  BY DEF Committing, Orderly
<1> QED  BY <1>1, KnownFrame DEF FleetInv, Orderly

LEMMA JobFrame ==
    ASSUME FleetTypeOK, JobInv, Shrinks, job' = job, Online \subseteq Online',
           \A s \in Rows : s \in Rows' /\ row'[s].node = row[s].node,
           \A n \in Nodes : ActiveOn(n)' \subseteq ActiveOn(n)
    PROVE  JobInv'
<1> SUFFICES ASSUME NEW a \in Actors, job'[a] # None PROVE JobOK(job[a])'
  BY DEF JobInv
<1>1. JobOK(job[a])  BY DEF JobInv
<1>2. job[a].srv \in Rows'  BY <1>1 DEF JobOK
<1>3. Waiting(job[a]) => Down(job[a].srv)'  BY <1>1 DEF JobOK, Down, Shrinks
<1>4. ASSUME job[a].pc \in {"prepare", "launch"}
      PROVE  \E n \in Online' : row'[job[a].srv].node = n /\ Room(job[a].srv, n)'
  <2>1. PICK n \in Online : row[job[a].srv].node = n /\ Room(job[a].srv, n)
    BY <1>1, <1>4 DEF JobOK
  <2>2. job[a].srv \in Servers /\ n \in Nodes  BY JobFields DEF Online
  <2>3. Room(job[a].srv, n)'  BY <2>1, <2>2, RoomFrame
  <2> QED  BY <2>1, <2>3, <1>1 DEF JobOK
<1> QED  BY <1>2, <1>3, <1>4 DEF JobOK, Waiting

\* A step of nodes alone.
LEMMA Quiet ==
    ASSUME FleetInv, UNCHANGED <<proc, row, job, cache, lost>>, Online \subseteq Online'
    PROVE  KnownInv' /\ JobInv' /\ Shrinks
<1>1. Shrinks  BY DEF Shrinks, Known
<1>2. KnownInv'  BY DEF FleetInv, KnownInv, KnownOK, Known, Committing, At
<1>3. Rows' = Rows /\ \A n : ActiveOn(n)' = ActiveOn(n)  BY DEF Rows, ActiveOn, On
<1>4. JobInv'  BY <1>1, <1>3, JobFrame DEF FleetInv
<1> QED  BY <1>1, <1>2, <1>4

LEMMA LinkFrame ==
    ASSUME LinkInv, UNCHANGED <<status, fresh, sock, net, gone, redo>>,
           \A n \in Nodes : proc'[n] \subseteq proc[n]
    PROVE  LinkInv'
BY DEF LinkInv, LinkOK

-----------------------------------------------------------------------------
(* Steps of the nodes. *)

LEMMA RegisterHalt_I ==
    ASSUME FleetInv, NEW n \in Nodes, RegisterHalt(n)
    PROVE  Kept
<1>1. Shrinks  BY DEF FleetInv, FleetTypeOK, Shrinks, Known, RegisterHalt, HaltAll
<1>2. LinkInv'
  BY DEF FleetInv, FleetTypeOK, LinkInv, LinkOK, RegisterHalt, HaltAll, nodeRows, requests
<1>3. KnownInv'
  BY <1>1, KnownFrame DEF FleetInv, RegisterHalt, requests, Committing, At
<1>4. JobInv'
  BY <1>1, JobFrame DEF FleetInv, RegisterHalt, requests, nodeRows, Rows, ActiveOn, On, Online
<1> QED  BY <1>1, <1>2, <1>3, <1>4 DEF Kept

\* Rows of servers without a known process are suspended.
LEMMA SuspendRows ==
    ASSUME FleetInv, NEW S, row' = SetState(S, "suspended"), UNCHANGED <<job, cache>>,
           Shrinks, \A n \in Nodes : S \cap Known(n)' = {}, Online \subseteq Online',
           S \subseteq Rows
    PROVE  KnownInv' /\ JobInv'
<1>1. \A s \in Servers : row'[s].node = row[s].node
  BY DEF FleetInv, FleetTypeOK, Server, SetState
<1>2. \A s \in Servers \ S : row'[s] = row[s]  BY DEF SetState
<1>3. \A n \in Nodes : Known(n)' \subseteq Servers
  BY DEF Shrinks, FleetInv, FleetTypeOK, Known
<1>4. KnownInv'  BY <1>1, <1>2, <1>3, KnownFrame DEF FleetInv, Committing, At
<1>5. \A s \in Servers : row'[s].state \in {row[s].state, "suspended"}
  BY DEF FleetInv, FleetTypeOK, Server, SetState
<1>6. \A n \in Nodes : ActiveOn(n)' \subseteq ActiveOn(n)
  BY <1>1, <1>5 DEF ActiveOn, On, Active
<1>7. Rows \subseteq Rows'  BY <1>5 DEF Rows
<1>8. Rows \subseteq Servers  BY DEF Rows
<1>9. JobInv'  BY <1>1, <1>6, <1>7, <1>8, JobFrame DEF FleetInv
<1> QED  BY <1>4, <1>9

LEMMA RegisterOnline_I ==
    ASSUME FleetInv, NEW n \in Nodes, RegisterOnline(n)
    PROVE  Kept
<1>1. Shrinks  BY DEF Shrinks, Known, RegisterOnline
<1>2. LinkInv'
  <2>1. net[n] = "up"
    BY DEF FleetInv, FleetTypeOK, LinkInv, LinkOK, RegisterOnline
  <2> QED
    BY <2>1 DEF FleetInv, FleetTypeOK, LinkInv, LinkOK, RegisterOnline, requests
<1>3. Online \subseteq Online'  BY DEF FleetInv, FleetTypeOK, Online, RegisterOnline
<1>4. CASE sock[n] = "halted" /\ row' = SetState(ActiveOn(n), "suspended")
  <2>1. proc[n] = {}  BY <1>4 DEF FleetInv, LinkInv, LinkOK
  <2>2. \A m \in Nodes : \A s \in Known(m) : row[s].node = m
    BY DEF FleetInv, KnownInv, KnownOK
  <2>3. \A m \in Nodes : ActiveOn(n) \cap Known(m)' = {}
    BY <2>1, <2>2, <1>1 DEF ActiveOn, On, Known, Shrinks
  <2>4. ActiveOn(n) \subseteq Rows  BY DEF ActiveOn, On, Active, Rows
  <2> QED
    BY <1>1, <1>2, <1>3, <1>4, <2>3, <2>4, SuspendRows DEF Kept, RegisterOnline, requests
<1>5. CASE UNCHANGED row
  BY <1>1, <1>2, <1>3, <1>5, Quiet DEF Kept, RegisterOnline, requests
<1> QED  BY <1>4, <1>5 DEF RegisterOnline

LEMMA Beat_I ==
    ASSUME FleetInv, Orderly, NEW n \in Nodes, NEW S, Beat(n, S), UNCHANGED <<gone, net, proc, requests>>
    PROVE  Kept
<1>1. Shrinks  BY DEF Shrinks, Known, Beat, Losing
<1>2. LinkInv'
  BY DEF FleetInv, FleetTypeOK, LinkInv, LinkOK, Beat, requests, nodeRows
<1>3. Online \subseteq Online'  BY DEF Online, Beat, nodeRows
<1>4. CASE status[n] # "offline"
  <2>1. row' = SetState(ActiveOn(n) \ S, "suspended")
        /\ lost' = lost \cup ((ActiveOn(n) \ S) \cap proc[n])
    BY <1>4 DEF Beat, Losing, Orderly
  <2>2. \A m \in Nodes : \A s \in Known(m) : row[s].node = m
    BY DEF FleetInv, KnownInv, KnownOK
  <2>3. \A m \in Nodes : (ActiveOn(n) \ S) \cap Known(m)' = {}
    BY <2>1, <2>2, <1>1 DEF ActiveOn, On, Known, Shrinks
  <2>4. ActiveOn(n) \ S \subseteq Rows  BY DEF ActiveOn, On, Active, Rows
  <2> QED
    BY <1>1, <1>2, <1>3, <2>1, <2>3, <2>4, SuspendRows DEF Kept, requests
<1>5. CASE status[n] = "offline"
  BY <1>1, <1>2, <1>3, <1>5, Quiet DEF Kept, Beat, requests
<1> QED  BY <1>4, <1>5

LEMMA Heartbeat_I ==
    ASSUME FleetInv, Orderly, NEW n \in Nodes, Heartbeat(n) \/ LateHeartbeat(n)
    PROVE  Kept
BY Beat_I DEF Heartbeat, LateHeartbeat

LEMMA Sample_I ==
    ASSUME FleetInv, NEW n \in Nodes, Sample(n)
    PROVE  Kept
<1>1. LinkInv'  BY LinkFrame DEF FleetInv, Sample, nodeRows, requests
<1>2. Online \subseteq Online'  BY DEF Online, Sample, nodeRows
<1> QED  BY <1>1, <1>2, Quiet DEF Kept, Sample, requests

LEMMA Stale_I ==
    ASSUME FleetInv, Orderly, NEW n \in Nodes, Stale(n)
    PROVE  Kept
<1>1. sock[n] = "none" /\ status[n] # "online"
  BY DEF FleetInv, FleetTypeOK, LinkInv, LinkOK, Stale
<1>2. "linger" \notin Faults  BY DEF Orderly
<1>3. status' = status /\ gone' = gone
  BY <1>1, <1>2 DEF Stale, Lose, Noticed
<1>4. LinkInv'
  BY <1>1, <1>3 DEF FleetInv, FleetTypeOK, LinkInv, LinkOK, Stale, Lose, requests
<1>5. Online \subseteq Online'  BY <1>3 DEF Online
<1> QED  BY <1>4, <1>5, Quiet DEF Kept, Stale, requests

LEMMA Watchdog_I ==
    ASSUME FleetInv, Watchdog
    PROVE  Kept
<1>1. StaleNodes = {}  BY DEF FleetInv, LinkInv, LinkOK, StaleNodes, Online
<1>2. PICK stuck \in SUBSET { n \in Nodes : status[n] = "starting" } :
         status' = [n \in Nodes |-> IF n \in stuck THEN "offline" ELSE status[n]]
  BY <1>1 DEF Watchdog
<1>3. LinkInv'
  BY <1>2 DEF FleetInv, FleetTypeOK, LinkInv, LinkOK, Watchdog, links, requests
<1>4. Online \subseteq Online'  BY <1>2 DEF Online
<1> QED  BY <1>3, <1>4, Quiet DEF Kept, Watchdog, requests

\* The actions that Orderly excludes, or that need a node in a state it excludes.
LEMMA Excluded ==
    ASSUME FleetInv, Orderly, NEW n \in Nodes
    PROVE  ~Break(n) /\ ~Finally(n) /\ ~Cut(n) /\ ~Mend(n) /\ ~DrainNode(n) /\ ~EvacuateNode(n)
           /\ ~UndrainNode(n)
BY DEF FleetInv, LinkInv, LinkOK, Orderly, Break, Finally, Cut, Mend, DrainNode, EvacuateNode,
       UndrainNode

LEMMA Nodes_I ==
    ASSUME FleetInv, Orderly, NodesNext
    PROVE  Kept
BY RegisterHalt_I, RegisterOnline_I, Heartbeat_I, Sample_I, Stale_I, Watchdog_I, Excluded
   DEF NodesNext

LEMMA Wake_I ==
    ASSUME FleetInv, AutoWakeup,
           UNCHANGED <<fresh, sock, gone, redo, proc>>
    PROVE  LinkInv' /\ Online \subseteq Online'
<1>1. CASE UNCHANGED <<status, net>>  BY <1>1, LinkFrame DEF FleetInv, Online
<1>2. ASSUME NEW n \in Nodes, status[n] = "offline",
             status' = [status EXCEPT ![n] = "starting"], PowerOn(n)
      PROVE  LinkInv' /\ Online \subseteq Online'
  BY <1>2 DEF FleetInv, FleetTypeOK, LinkInv, LinkOK, PowerOn, Online
<1> QED  BY <1>1, <1>2 DEF AutoWakeup

-----------------------------------------------------------------------------
(* Steps of the requests. *)

LEMMA OneJob ==
    ASSUME Orderly, NEW a \in Actors, (job[a] = None \/ JobOK(job[a]))'
    PROVE  JobInv'
BY DEF Orderly, JobInv

\* A request changes the row and the cached node of a server that is down.
LEMMA Handled ==
    ASSUME FleetInv, Orderly, NEW a \in Actors, NEW s \in Servers, ~At(a, "commit"), Shrinks,
           Down(s)', \A r \in Servers \ {s} : row'[r] = row[r] /\ cache'[a][r] = cache[a][r]
    PROVE  KnownInv'
<1>1. \A n \in Nodes : Known(n)' \subseteq Servers \ {s}
  BY DEF Down, Shrinks, FleetInv, FleetTypeOK, Known
<1> QED  BY <1>1, IdleFrame

LEMMA SameProcs ==
    ASSUME UNCHANGED <<proc, lost>>
    PROVE  Shrinks /\ \A s : Down(s)' <=> Down(s)
BY DEF Shrinks, Down, Known

LEMMA JobSteps ==
    ASSUME FleetInv, NEW a \in Actors, job[a] # None
    PROVE  /\ JobOK(job[a]) /\ job[a].srv \in Servers /\ job[a] \in Job
           /\ \A pc \in Steps : GoesTo(a, pc) =>
                 job'[a] = [job[a] EXCEPT !.pc = pc] /\ job'[a].pc = pc /\ job'[a].srv = job[a].srv
           /\ Ends(a) => job'[a] = None
<1>1. job[a] \in Job /\ job[a].srv \in Servers  BY JobFields DEF FleetInv
<1>2. JobOK(job[a])  BY DEF FleetInv, JobInv
<1>3. Ends(a) => job'[a] = None  BY DEF FleetInv, FleetTypeOK, Ends
<1>4. \A pc \in Steps : GoesTo(a, pc) =>
         job'[a] = [job[a] EXCEPT !.pc = pc] /\ job'[a].pc = pc /\ job'[a].srv = job[a].srv
  BY <1>1 DEF FleetInv, FleetTypeOK, GoesTo, Job
<1> QED  BY <1>1, <1>2, <1>3, <1>4

LEMMA Remembered ==
    ASSUME FleetTypeOK, NEW a \in Actors, NEW s \in Servers, NEW n, cache' = Remembers(a, s, n)
    PROVE  cache'[a][s] = n /\ \A r \in Servers \ {s} : cache'[a][r] = cache[a][r]
BY DEF FleetTypeOK, Remembers

LEMMA CacheExpires_I ==
    ASSUME FleetInv, Orderly, NEW a \in Actors, NEW s \in Servers, CacheExpires(a, s)
    PROVE  Kept
<1>1. Shrinks  BY SameProcs DEF CacheExpires
<1>2. LinkInv'  BY LinkFrame DEF FleetInv, CacheExpires, nodeRows, links
<1>3. \A b \in Actors, r \in Servers : cache'[b][r] \in {None, cache[b][r]}
  BY Remembered DEF CacheExpires, Forget, Orderly, FleetInv
<1>4. \A n \in Nodes : Known(n)' \subseteq Servers
  BY <1>1 DEF Shrinks, FleetInv, FleetTypeOK, Known
<1>5. KnownInv'
  BY <1>1, <1>3, <1>4, KnownFrame DEF FleetInv, CacheExpires, Committing, At
<1>6. JobInv'
  BY <1>1, JobFrame DEF FleetInv, CacheExpires, nodeRows, Rows, ActiveOn, On, Online
<1> QED  BY <1>1, <1>2, <1>5, <1>6 DEF Kept

LEMMA CreateServer_I ==
    ASSUME FleetInv, Orderly, NEW a \in Actors, NEW s \in Servers, CreateServer(a, s)
    PROVE  Kept
<1>1. Shrinks /\ (Down(s)' <=> Down(s))  BY SameProcs DEF CreateServer
<1>2. job[a] = None /\ job' = job /\ ~At(a, "commit")  BY DEF CreateServer, Idle, requests, At
<1>3. CASE UNCHANGED <<status, net>> /\ \E n \in Best :
              row' = [row EXCEPT ![s] = [state |-> "created", node |-> n]]
  <2>1. Down(s)  BY <1>2, IdleRuns DEF CreateServer, Down
  <2>2. KnownInv'
    <3>1. \A r \in Servers \ {s} : row'[r] = row[r]  BY <1>3 DEF FleetInv, FleetTypeOK
    <3> QED  BY <1>1, <1>2, <2>1, <3>1, Handled DEF CreateServer, requests
  <2>3. LinkInv'  BY <1>3, LinkFrame DEF FleetInv, CreateServer, requests
  <2>4. JobInv'  BY <1>2, OneJob
  <2> QED  BY <1>1, <2>2, <2>3, <2>4 DEF Kept
<1>4. CASE AutoWakeup /\ UNCHANGED row
  BY <1>4, Wake_I, Quiet DEF Kept, CreateServer, requests
<1> QED  BY <1>3, <1>4 DEF CreateServer

\* A start that is not refused finds no known process, wherever its router looks.
LEMMA StartDown ==
    ASSUME FleetInv, Orderly, NEW a \in Actors, NEW s \in Servers, Idle(a),
           ~(row[s].state = "running" /\ IsRunning(a, s))
    PROVE  Down(s)
<1> SUFFICES ASSUME NEW n \in Nodes, s \in Known(n) PROVE FALSE
  BY DEF Down
<1>1. row[s].state = "running"  BY IdleRuns DEF Idle, At
<1>2. Target(a, s) = n /\ Reach(n) /\ s \in proc[n]  BY Routed
<1> QED  BY <1>1, <1>2 DEF IsRunning, UnitActive

LEMMA StartServer_I ==
    ASSUME FleetInv, Orderly, NEW a \in Actors, NEW s \in Servers, StartServer(a, s)
    PROVE  Kept
<1>1. Shrinks /\ (Down(s)' <=> Down(s))  BY SameProcs DEF StartServer
<1>2. Down(s)  BY StartDown DEF StartServer
<1>3. LinkInv'  BY LinkFrame DEF FleetInv, StartServer, nodeRows, links
<1>4. \A r \in Servers \ {s} : cache'[a][r] = cache[a][r]
  BY Remembered DEF StartServer, Cached, FleetInv
<1>5. KnownInv'  BY <1>1, <1>2, <1>4, Handled DEF StartServer, Idle, At
<1>6. job'[a] = Request(s, "user", None, None)  BY DEF StartServer, FleetInv, FleetTypeOK
<1>7. JobOK(job[a])'
  <2>1. job'[a].pc = "begin" /\ job'[a].srv = s  BY <1>6 DEF Request
  <2>2. s \in Rows'  BY DEF StartServer, Rows
  <2> QED  BY <2>1, <2>2, <1>1, <1>2 DEF JobOK, Waiting
<1>8. JobInv'  BY <1>7, OneJob
<1> QED  BY <1>1, <1>3, <1>5, <1>8 DEF Kept

LEMMA AddOne ==
    ASSUME FleetTypeOK, NEW s, NEW n, ~Full(n)
    PROVE  Room(s, n)
<1>1. IsFiniteSet(ActiveOn(n)) /\ Cardinality(ActiveOn(n)) \in Nat  BY FiniteActive
<1>2. \/ Cardinality(ActiveOn(n) \cup {s}) = Cardinality(ActiveOn(n))
      \/ Cardinality(ActiveOn(n) \cup {s}) = Cardinality(ActiveOn(n)) + 1
  BY <1>1, FS_AddElement
<1> QED  BY <1>1, <1>2, FleetAssumption DEF Room, Full, Allocated

LEMMA SetNodeRows ==
    ASSUME FleetTypeOK, NEW S, NEW n, row' = SetNode(S, n)
    PROVE  /\ \A r \in Servers \ S : row'[r] = row[r]
           /\ \A r \in Servers : row'[r].state = row[r].state
           /\ Rows' = Rows
           /\ \A r \in Servers \cap S : row'[r].node = n
<1>1. \A r \in Servers \ S : row'[r] = row[r]  BY DEF SetNode
<1>2. \A r \in Servers : row'[r].state = row[r].state  BY DEF FleetTypeOK, Server, SetNode
<1>3. \A r \in Servers \cap S : row'[r].node = n  BY DEF FleetTypeOK, Server, SetNode
<1> QED  BY <1>1, <1>2, <1>3 DEF Rows

LEMMA SetStateRows ==
    ASSUME FleetTypeOK, NEW S, NEW state, row' = SetState(S, state)
    PROVE  /\ \A r \in Servers \ S : row'[r] = row[r]
           /\ \A r \in Servers : row'[r].node = row[r].node
           /\ \A r \in Servers \cap S : row'[r].state = state
           /\ state \notin {"none", "deleted"} => Rows \subseteq Rows'
<1>1. \A r \in Servers \ S : row'[r] = row[r]  BY DEF SetState
<1>2. \A r \in Servers : row'[r].node = row[r].node  BY DEF FleetTypeOK, Server, SetState
<1>3. \A r \in Servers \cap S : row'[r].state = state  BY DEF FleetTypeOK, Server, SetState
<1> QED  BY <1>1, <1>2, <1>3 DEF Rows

LEMMA StartBegin_I ==
    ASSUME FleetInv, Orderly, NEW a \in Actors, StartBegin(a)
    PROVE  Kept
<1>1. job[a] # None /\ job[a].pc = "begin" /\ ~At(a, "commit")  BY DEF StartBegin, At
<1>2. PICK s \in Servers : s = job[a].srv /\ JobOK(job[a])  BY <1>1, JobSteps
<1>3. Down(s) /\ s \in Rows  BY <1>1, <1>2 DEF JobOK, Waiting
<1>4. Shrinks /\ (Down(s)' <=> Down(s))  BY SameProcs DEF StartBegin
<1>5. LinkInv'  BY LinkFrame DEF FleetInv, StartBegin, nodeRows, links
<1>6. CASE MustLeave(s) /\ row' = SetNode({s}, None) /\ GoesTo(a, "assign")
  <2>1. \A r \in Servers \ {s} : row'[r] = row[r]  BY <1>6, SetNodeRows DEF FleetInv
  <2>2. Rows' = Rows  BY <1>6, SetNodeRows DEF FleetInv
  <2>3. KnownInv'  BY <1>1, <1>2, <1>3, <1>4, <2>1, Handled DEF StartBegin
  <2>4. job'[a].pc = "assign" /\ job'[a].srv = s  BY <1>1, <1>2, <1>6, JobSteps DEF Steps
  <2>5. JobOK(job[a])'  BY <1>3, <1>4, <2>2, <2>4 DEF JobOK, Waiting
  <2> QED  BY <1>4, <1>5, <2>3, <2>5, OneJob DEF Kept
<1>7. CASE ~MustLeave(s) /\ GoesTo(a, "prepare") /\ UNCHANGED row
  <2>1. KnownInv'  BY <1>1, <1>2, <1>3, <1>4, <1>7, Handled DEF StartBegin
  <2>2. job'[a].pc = "prepare" /\ job'[a].srv = s  BY <1>1, <1>2, <1>7, JobSteps DEF Steps
  <2>3. PICK n \in Nodes : row[s].node = n /\ status[n] = "online" /\ ~Full(n)
    BY <1>7 DEF MustLeave, FleetInv, LinkInv, LinkOK
  <2>4. Room(s, n)'
    <3>1. Room(s, n)  BY <2>3, AddOne DEF FleetInv
    <3>2. ActiveOn(n)' = ActiveOn(n)  BY <1>7 DEF ActiveOn, On
    <3> QED  BY <3>1, <3>2, <1>2, RoomFrame DEF FleetInv
  <2>5. n \in Online' /\ row'[s].node = n  BY <2>3, <1>7 DEF Online, StartBegin, nodeRows
  <2>6. s \in Rows'  BY <1>3, <1>7 DEF Rows
  <2>7. JobOK(job[a])'  BY <1>3, <1>4, <2>2, <2>4, <2>5, <2>6 DEF JobOK, Waiting
  <2> QED  BY <1>4, <1>5, <2>1, <2>7, OneJob DEF Kept
<1> QED  BY <1>2, <1>6, <1>7 DEF StartBegin

LEMMA StartAssign_I ==
    ASSUME FleetInv, Orderly, NEW a \in Actors, StartAssign(a)
    PROVE  Kept
<1>1. job[a] # None /\ job[a].pc = "assign" /\ ~At(a, "commit")  BY DEF StartAssign, At
<1>2. PICK s \in Servers : s = job[a].srv /\ JobOK(job[a])  BY <1>1, JobSteps
<1>3. Down(s) /\ s \in Rows  BY <1>1, <1>2 DEF JobOK, Waiting
<1>4. Shrinks /\ (Down(s)' <=> Down(s))  BY SameProcs DEF StartAssign
<1>5. ASSUME NEW n \in Best, row' = [row EXCEPT ![s] = [state |-> "provisioning", node |-> n]],
             GoesTo(a, "prepare"), UNCHANGED <<status, net>>
      PROVE  Kept
  <2>1. \A r \in Servers \ {s} : row'[r] = row[r]  BY <1>5 DEF FleetInv, FleetTypeOK
  <2>2. row'[s] = [state |-> "provisioning", node |-> n]
    BY <1>2, <1>5 DEF FleetInv, FleetTypeOK
  <2>3. KnownInv'  BY <1>1, <1>2, <1>3, <1>4, <2>1, Handled DEF StartAssign
  <2>4. LinkInv'  BY <1>5, LinkFrame DEF FleetInv, StartAssign
  <2>5. job'[a].pc = "prepare" /\ job'[a].srv = s  BY <1>1, <1>2, <1>5, JobSteps DEF Steps
  <2>6. n \in Online' /\ n \in Nodes /\ ~Full(n)  BY <1>5 DEF Best, Healthy, Online
  <2>7. Room(s, n)'
    <3>1. Room(s, n)  BY <2>6, AddOne DEF FleetInv
    <3>2. ActiveOn(n)' \subseteq ActiveOn(n) \cup {s}  BY <2>1 DEF ActiveOn, On
    <3> QED  BY <3>1, <3>2, <1>2, RoomFrame DEF FleetInv
  <2>8. s \in Rows'  BY <1>2, <2>2 DEF Rows
  <2>9. JobOK(job[a])'
    <3>1. row'[s].node = n  BY <2>2
    <3> QED  BY <3>1, <1>3, <1>4, <2>5, <2>6, <2>7, <2>8 DEF JobOK, Waiting
  <2> QED  BY <1>4, <2>3, <2>4, <2>9, OneJob DEF Kept
<1>6. CASE AutoWakeup /\ Ends(a) /\ UNCHANGED row
  <2>1. LinkInv'  BY <1>6, Wake_I DEF StartAssign
  <2>2. KnownInv'  BY <1>1, <1>2, <1>3, <1>4, <1>6, Handled DEF StartAssign
  <2>3. job'[a] = None  BY <1>1, <1>6, JobSteps
  <2> QED  BY <1>4, <2>1, <2>2, <2>3, OneJob DEF Kept
<1> QED  BY <1>2, <1>5, <1>6 DEF StartAssign

LEMMA StartPrepare_I ==
    ASSUME FleetInv, Orderly, NEW a \in Actors, StartPrepare(a)
    PROVE  Kept
<1>1. job[a] # None /\ job[a].pc = "prepare" /\ ~At(a, "commit")  BY DEF StartPrepare, At
<1>2. PICK s \in Servers : s = job[a].srv /\ JobOK(job[a]) /\ job[a] \in Job  BY <1>1, JobSteps
<1>3. Down(s) /\ s \in Rows  BY <1>1, <1>2 DEF JobOK, Waiting
<1>4. Shrinks /\ (Down(s)' <=> Down(s))  BY SameProcs DEF StartPrepare
<1>5. LinkInv'  BY LinkFrame DEF FleetInv, StartPrepare, nodeRows, links
<1>6. KnownInv'  BY <1>1, <1>2, <1>3, <1>4, Handled DEF StartPrepare
<1>7. CASE Ends(a)  BY <1>1, <1>4, <1>5, <1>6, <1>7, JobSteps, OneJob DEF Kept
<1>8. CASE job' = [job EXCEPT ![a] = [job[a] EXCEPT !.pc = "launch", !.seen = row[s].state]]
  <2>1. job'[a].pc = "launch" /\ job'[a].srv = s
    BY <1>2, <1>8 DEF FleetInv, FleetTypeOK, Job
  <2>2. PICK n \in Online : row[s].node = n /\ Room(s, n)  BY <1>1, <1>2 DEF JobOK
  <2>3. n \in Online' /\ row'[s].node = n /\ s \in Rows'
    BY <1>3, <2>2 DEF Online, StartPrepare, nodeRows, Rows
  <2>4. Room(s, n)'
    <3>1. ActiveOn(n)' = ActiveOn(n)  BY DEF ActiveOn, On, StartPrepare
    <3> QED  BY <3>1, <1>2, <2>2, RoomFrame DEF FleetInv
  <2>5. JobOK(job[a])'  BY <1>3, <1>4, <2>1, <2>3, <2>4 DEF JobOK, Waiting
  <2> QED  BY <1>4, <1>5, <1>6, <2>5, OneJob DEF Kept
<1> QED  BY <1>2, <1>7, <1>8 DEF StartPrepare

LEMMA FitsStill ==
    ASSUME FleetTypeOK, NoOvercommit, Shrinks
    PROVE  NoOvercommit'
<1> SUFFICES ASSUME NEW m \in Nodes PROVE Cardinality(Known(m)') <= Capacity
  BY DEF NoOvercommit
<1>1. Known(m)' \subseteq Known(m) /\ IsFiniteSet(Known(m))
  BY FleetAssumption, FS_Subset DEF Shrinks, FleetTypeOK, Known
<1>2. /\ Cardinality(Known(m)') <= Cardinality(Known(m))
      /\ Cardinality(Known(m)') \in Nat /\ Cardinality(Known(m)) \in Nat
  BY <1>1, FS_Subset, FS_CardinalityType
<1> QED  BY <1>2, FleetAssumption DEF NoOvercommit

\* The request that launches is the only one, so no process is about to be told of.
LEMMA StartLaunch_I ==
    ASSUME FleetInv, Orderly, NoOvercommit, NEW a \in Actors, StartLaunch(a)
    PROVE  LinkInv' /\ KnownInv' /\ JobInv' /\ NoOvercommit'
<1>1. job[a] # None /\ job[a].pc = "launch" /\ ~At(a, "commit")  BY DEF StartLaunch, At
<1>2. PICK s \in Servers : s = job[a].srv /\ JobOK(job[a])  BY <1>1, JobSteps
<1>3. Down(s) /\ s \in Rows  BY <1>1, <1>2 DEF JobOK, Waiting
<1>4. PICK n \in Online : row[s].node = n /\ Room(s, n)  BY <1>1, <1>2 DEF JobOK
<1>5. n \in Nodes /\ status[n] = "online" /\ n # None  BY <1>4, FleetAssumption DEF Online
<1>6. cache' = Remembers(a, s, n) /\ row' = row /\ UNCHANGED <<nodeRows, links, redo>>
  BY <1>2, <1>4 DEF StartLaunch
<1>7. cache'[a][s] = n /\ \A r \in Servers \ {s} : cache'[a][r] = cache[a][r]
  BY <1>6, Remembered DEF FleetInv
<1>8. ASSUME Shrinks, Ends(a), LinkInv'
      PROVE  LinkInv' /\ KnownInv' /\ JobInv' /\ NoOvercommit'
  <2>1. Down(s)'  BY <1>3, <1>8 DEF Down, Shrinks
  <2>2. KnownInv'  BY <1>1, <1>6, <1>7, <1>8, <2>1, Handled
  <2>3. JobInv'  BY <1>1, <1>8, JobSteps, OneJob
  <2>4. NoOvercommit'  BY <1>8, FitsStill DEF FleetInv
  <2> QED  BY <1>8, <2>2, <2>3, <2>4
<1>9. ASSUME Launched(s, n)
      PROVE  /\ proc'[n] = proc[n] \cup {s}
             /\ \A m \in Nodes \ {n} : proc'[m] = proc[m]
             /\ LinkInv'
  <2>1. proc'[n] = proc[n] \cup {s} /\ \A m \in Nodes \ {n} : proc'[m] = proc[m]
    BY <1>5, <1>9 DEF Launched, UnitStarted, FleetInv, FleetTypeOK
  <2>2. LinkInv'  BY <1>5, <1>6, <2>1 DEF FleetInv, LinkInv, LinkOK, nodeRows, links
  <2> QED  BY <2>1, <2>2
<1>10. CASE Launched(s, n) /\ GoesTo(a, "commit") /\ UNCHANGED lost
  <2>1. job'[a].pc = "commit" /\ job'[a].srv = s /\ job'[a] # None
    <3>1. job'[a].pc = "commit" /\ job'[a].srv = s  BY <1>1, <1>2, <1>10, JobSteps DEF Steps
    <3>2. job[a] \in Job /\ job'[a] = [job[a] EXCEPT !.pc = "commit"]
      BY <1>1, <1>10, JobSteps DEF Steps
    <3>3. job'[a] \in Job  BY <3>2 DEF Job, Steps
    <3> QED  BY <3>1, <3>3, NoRequest
  <2>2. Committing(s)'  BY <2>1 DEF Committing, At
  <2>3. \A m \in Nodes : Known(m)' \subseteq IF m = n THEN Known(n) \cup {s} ELSE Known(m)
    BY <1>9, <1>10 DEF Known
  <2>4. KnownInv'
    <3> SUFFICES ASSUME NEW m \in Nodes, NEW r \in Known(m)' PROVE KnownOK(m, r)'
      BY DEF KnownInv
    <3>1. CASE r = s
      <4>1. m = n  BY <2>3, <3>1, <1>3 DEF Down
      <4> QED  BY <1>4, <1>6, <1>7, <2>2, <3>1, <4>1 DEF KnownOK, Orderly
    <3>2. CASE r # s
      <4>1. r \in Known(m) /\ r \in Servers  BY <2>3, <3>2 DEF FleetInv, FleetTypeOK, Known
      <4>2. row[r].state = "running" /\ row[r].node = m  BY <1>1, <4>1, IdleRuns
      <4>3. cache[a][r] \in {None, m}  BY <4>1 DEF FleetInv, KnownInv, KnownOK
      <4> QED  BY <1>6, <1>7, <3>2, <4>1, <4>2, <4>3 DEF KnownOK, Orderly
    <3> QED  BY <3>1, <3>2
  <2>5. JobOK(job[a])'
    <3>1. s \in Rows'  BY <1>3, <1>6 DEF Rows
    <3> QED  BY <2>1, <3>1 DEF JobOK, Waiting
  <2>6. NoOvercommit'
    <3> SUFFICES ASSUME NEW m \in Nodes PROVE Cardinality(Known(m)') <= Capacity
      BY DEF NoOvercommit
    <3>1. CASE m = n
      <4>1. Known(n) \subseteq ActiveOn(n)
        BY <1>1, <1>5, IdleRuns, Routed DEF ActiveOn, On, Active
      <4>2. Known(n)' \subseteq ActiveOn(n) \cup {s}  BY <2>3, <3>1, <4>1
      <4>3. IsFiniteSet(ActiveOn(n) \cup {s})  BY FiniteActive, FS_AddElement DEF FleetInv
      <4>4. /\ Cardinality(Known(n)') <= Cardinality(ActiveOn(n) \cup {s})
            /\ Cardinality(Known(n)') \in Nat /\ Cardinality(ActiveOn(n) \cup {s}) \in Nat
        BY <4>2, <4>3, FS_Subset, FS_CardinalityType
      <4> QED  BY <1>4, <3>1, <4>4, FleetAssumption DEF Room
    <3>2. CASE m # n
      <4>1. Known(m)' = Known(m)  BY <1>9, <1>10, <3>2 DEF Known
      <4> QED  BY <4>1 DEF NoOvercommit
    <3> QED  BY <3>1, <3>2
  <2> QED  BY <1>9, <1>10, <2>4, <2>5, <2>6, OneJob
<1>11. CASE Launched(s, n) /\ Ends(a) /\ lost' = lost \cup {s}
  <2>1. Shrinks  BY <1>9, <1>11 DEF Shrinks, Known
  <2> QED  BY <1>8, <1>9, <1>11, <2>1
<1>12. CASE Ends(a) /\ UNCHANGED <<proc, world, lost>>
  <2>1. Shrinks  BY <1>12, SameProcs
  <2>2. LinkInv'  BY <1>6, <1>12, LinkFrame DEF FleetInv, nodeRows, links
  <2> QED  BY <1>8, <1>12, <2>1, <2>2
<1> QED  BY <1>2, <1>4, <1>10, <1>11, <1>12 DEF StartLaunch, Losing, Orderly

LEMMA StartCommit_I ==
    ASSUME FleetInv, Orderly, NEW a \in Actors, StartCommit(a)
    PROVE  Kept
<1>1. job[a] # None /\ job[a].pc = "commit"  BY DEF StartCommit, At
<1>2. PICK s \in Servers : s = job[a].srv /\ JobOK(job[a])  BY <1>1, JobSteps
<1>3. s \in Rows  BY <1>1, <1>2 DEF JobOK
<1>4. row' = SetState({s}, Started(a)) /\ proc' = proc /\ cache' = cache
  BY <1>2 DEF StartCommit
<1>5. lost' = IF Started(a) = "running" THEN lost ELSE lost \cup {s}
  BY <1>2 DEF StartCommit, Losing, Orderly
<1>6. Shrinks  BY <1>4, <1>5 DEF Shrinks, Known
<1>7. LinkInv'  BY LinkFrame DEF FleetInv, StartCommit, nodeRows, links
<1>8. /\ \A r \in Servers \ {s} : row'[r] = row[r]
      /\ \A r \in Servers : row'[r].node = row[r].node
      /\ row'[s].state = Started(a)
  BY <1>4, SetStateRows DEF FleetInv
<1>9. KnownInv'
  <2> SUFFICES ASSUME NEW n \in Nodes, NEW r \in Known(n)' PROVE KnownOK(n, r)'
    BY DEF KnownInv
  <2>1. r \in Known(n) /\ r \in Servers
    BY <1>6 DEF Shrinks, FleetInv, FleetTypeOK, Known
  <2>2. KnownOK(n, r)  BY <2>1 DEF FleetInv, KnownInv
  <2>3. CASE r = s
    <3>1. Started(a) = "running"  BY <1>5, <2>3 DEF Known
    <3> QED  BY <1>4, <1>8, <2>1, <2>2, <2>3, <3>1 DEF KnownOK
  <2>4. CASE r # s
    <3>1. ~Committing(r)  BY <1>2, <2>4 DEF Committing, Orderly
    <3> QED  BY <1>4, <1>8, <2>1, <2>2, <2>4, <3>1 DEF KnownOK
  <2> QED  BY <2>3, <2>4
<1>10. Started(a) \notin {"none", "deleted"}  BY <1>2, <1>3 DEF Started, Rows
<1>11. s \in Rows'  BY <1>8, <1>10 DEF Rows
<1>12. (job[a] = None \/ JobOK(job[a]))'
  <2>1. CASE Ends(a)  BY <1>1, <2>1, JobSteps
  <2>2. CASE GoesTo(a, "purge")
    <3>1. job'[a].pc = "purge" /\ job'[a].srv = s  BY <1>1, <1>2, <2>2, JobSteps DEF Steps
    <3> QED  BY <3>1, <1>11 DEF JobOK, Waiting
  <2> QED  BY <2>1, <2>2 DEF StartCommit
<1> QED  BY <1>6, <1>7, <1>9, <1>12, OneJob DEF Kept

LEMMA NoRowDeleted ==
    ASSUME FleetInv, NEW a \in Actors
    PROVE  ~RowDeleted(a)
BY JobSteps DEF RowDeleted, Idle, JobOK

\* A stop of the orchestrator reaches the process that is known.
LEMMA StopReaches ==
    ASSUME FleetInv, NEW a \in Actors, NEW s \in Servers, OrchestratorStop(a, s), lost' = lost
    PROVE  Shrinks /\ Down(s)' /\ \A n \in Nodes : Known(n)' \in {Known(n), Known(n) \ {s}}
<1>1. Target(a, s) \in Nodes \cup {None}  BY TargetType DEF FleetInv
<1>2. CASE ~Reach(Target(a, s))
  <2>1. proc' = proc  BY <1>2 DEF OrchestratorStop, Stopped
  <2>2. Down(s)  BY <1>2, Routed DEF Down
  <2> QED  BY <2>1, <2>2 DEF Shrinks, Down, Known
<1>3. CASE Reach(Target(a, s))
  <2>1. \A n \in Nodes : proc'[n] = IF n = Target(a, s) THEN proc[n] \ {s} ELSE proc[n]
    BY <1>1, <1>3 DEF OrchestratorStop, Stopped, UnitStopped, FleetInv, FleetTypeOK
  <2>2. \A n \in Nodes : s \in Known(n) => n = Target(a, s)  BY Routed
  <2> QED  BY <2>1, <2>2 DEF Shrinks, Down, Known
<1> QED  BY <1>2, <1>3

\* stop_server, the auto-sleeper, the administrator's stop and a switch.
LEMMA Suspends ==
    ASSUME FleetInv, Orderly, NEW a \in Actors, NEW s \in Servers, Idle(a), s \in Rows,
           Shrinks, Down(s)', Suspended(s),
           \A r \in Servers \ {s} : cache'[a][r] = cache[a][r],
           UNCHANGED <<nodeRows, links, redo, job, lost>>, \A n \in Nodes : proc'[n] \subseteq proc[n]
    PROVE  Kept
<1>1. LinkInv'  BY LinkFrame DEF FleetInv, nodeRows, links
<1>2. \A r \in Servers \ {s} : row'[r] = row[r]  BY SetStateRows DEF FleetInv, Suspended
<1>3. KnownInv'  BY <1>2, Handled DEF Idle, At
<1>4. JobInv'  BY OneJob DEF Idle
<1> QED  BY <1>1, <1>3, <1>4 DEF Kept

LEMMA OrchestratorFrame ==
    ASSUME FleetInv, NEW a \in Actors, NEW s \in Servers, OrchestratorStop(a, s)
    PROVE  /\ \A n \in Nodes : proc'[n] \subseteq proc[n]
           /\ \A r \in Servers \ {s} : cache'[a][r] = cache[a][r]
<1>1. \A n \in Nodes : proc'[n] \subseteq proc[n]
  BY TargetType DEF OrchestratorStop, Stopped, UnitStopped, Reach, FleetInv, FleetTypeOK
<1>2. \A r \in Servers \ {s} : cache'[a][r] = cache[a][r]
  BY Remembered DEF OrchestratorStop, Cached, FleetInv
<1> QED  BY <1>1, <1>2

LEMMA Stops_I ==
    ASSUME FleetInv, Orderly, NEW a \in Actors, NEW s \in Servers,
           StopServer(a, s) \/ AutoSleep(a, s) \/ ForceStop(a, s)
    PROVE  Kept
<1>1. /\ Idle(a) /\ s \in Rows /\ OrchestratorStop(a, s) /\ Suspended(s)
      /\ UNCHANGED <<nodeRows, links, redo, job, lost>>
  BY DEF StopServer, AutoSleep, ForceStop, Rows
<1> QED  BY <1>1, StopReaches, OrchestratorFrame, Suspends

LEMMA SwitchSoftware_I ==
    ASSUME FleetInv, Orderly, NEW a \in Actors, NEW s \in Servers, SwitchSoftware(a, s)
    PROVE  Kept
<1>1. /\ Idle(a) /\ s \in Rows /\ Suspended(s)
      /\ UNCHANGED <<nodeRows, links, redo, job, lost>>
  BY DEF SwitchSoftware
<1>2. CASE OrchestratorStop(a, s)
  BY <1>1, <1>2, StopReaches, OrchestratorFrame, Suspends
<1>3. CASE row[s].state # "running" /\ UNCHANGED <<proc, cache>>
  <2>1. Down(s)  BY <1>1, <1>3, IdleRuns DEF Down, Idle, At
  <2> QED  BY <1>1, <1>3, <2>1, SameProcs, Suspends
<1> QED  BY <1>2, <1>3 DEF SwitchSoftware

LEMMA ToggleServer_I ==
    ASSUME FleetInv, Orderly, NEW a \in Actors, NEW s \in Servers, ToggleServer(a, s)
    PROVE  Kept
BY Stops_I, StartServer_I DEF ToggleServer

\* A stop on a node the row names, whether or not the node can be reached.
LEMMA HomeStopped ==
    ASSUME FleetInv, NEW s \in Servers, proc' = Stopped(proc, s, row[s].node), lost' = lost
    PROVE  /\ Shrinks /\ Down(s)' /\ \A n \in Nodes : proc'[n] \subseteq proc[n]
           /\ \A n \in Nodes : Known(n)' \in {Known(n), Known(n) \ {s}}
<1>1. \A n \in Nodes : s \in Known(n) => n = row[s].node /\ Reach(n)
  <2> SUFFICES ASSUME NEW n \in Nodes, s \in Known(n) PROVE n = row[s].node /\ Reach(n)
    OBVIOUS
  <2>1. row[s].node = n  BY DEF FleetInv, KnownInv, KnownOK
  <2>2. status[n] = "online" /\ net[n] = "up"  BY DEF FleetInv, LinkInv, LinkOK, Known
  <2> QED  BY <2>1, <2>2, FleetAssumption DEF Reach
<1>2. row[s].node \in Nodes \cup {None}  BY DEF FleetInv, FleetTypeOK, Server
<1>3. CASE ~Reach(row[s].node)
  <2>1. proc' = proc  BY <1>3 DEF Stopped
  <2>2. Down(s)  BY <1>1, <1>3 DEF Down
  <2> QED  BY <2>1, <2>2 DEF Shrinks, Down, Known
<1>4. CASE Reach(row[s].node)
  <2>1. \A n \in Nodes : proc'[n] = IF n = row[s].node THEN proc[n] \ {s} ELSE proc[n]
    BY <1>2, <1>4 DEF Stopped, UnitStopped, FleetInv, FleetTypeOK
  <2> QED  BY <1>1, <2>1 DEF Shrinks, Down, Known
<1> QED  BY <1>3, <1>4

\* delete_server may stop a server twice, by the router and by its row.
LEMMA TwiceStopped ==
    ASSUME FleetInv, NEW a \in Actors, NEW s \in Servers, DeleteServer(a, s)
    PROVE  /\ Shrinks /\ Down(s)' /\ \A n \in Nodes : proc'[n] \subseteq proc[n]
           /\ \A n \in Nodes : Known(n)' \in {Known(n), Known(n) \ {s}}
<1>1. row[s].node \in Nodes \cup {None} /\ Target(a, s) \in Nodes \cup {None}
  BY TargetType DEF FleetInv, FleetTypeOK, Server
<1> DEFINE q == IF row[s].state = "running" THEN Stopped(proc, s, Target(a, s)) ELSE proc
<1>2. /\ q \in [Nodes -> SUBSET Servers]
      /\ \A n \in Nodes : q[n] \in {proc[n], proc[n] \ {s}}
  BY <1>1 DEF Stopped, UnitStopped, Reach, FleetInv, FleetTypeOK
<1>3. proc' = Stopped(q, s, row[s].node) /\ lost' = lost  BY DEF DeleteServer
<1> HIDE DEF q
<1>4. \A n \in Nodes : s \in Known(n) => n = row[s].node /\ Reach(n)
  <2> SUFFICES ASSUME NEW n \in Nodes, s \in Known(n) PROVE n = row[s].node /\ Reach(n)
    OBVIOUS
  <2>1. row[s].node = n  BY DEF FleetInv, KnownInv, KnownOK
  <2>2. status[n] = "online" /\ net[n] = "up"  BY DEF FleetInv, LinkInv, LinkOK, Known
  <2> QED  BY <2>1, <2>2, FleetAssumption DEF Reach
<1>5. \A n \in Nodes : proc'[n] \in {proc[n], proc[n] \ {s}}
  BY <1>1, <1>2, <1>3 DEF Stopped, UnitStopped, Reach
<1>6. \A n \in Nodes : s \in Known(n) => s \notin proc'[n]
  BY <1>1, <1>2, <1>3, <1>4 DEF Stopped, UnitStopped
<1>7. \A n \in Nodes : Known(n)' \in {Known(n), Known(n) \ {s}} /\ s \notin Known(n)'
  BY <1>3, <1>5, <1>6 DEF Known
<1> QED  BY <1>5, <1>7 DEF Shrinks, Down

LEMMA DeleteServer_I ==
    ASSUME FleetInv, Orderly, NEW a \in Actors, NEW s \in Servers, DeleteServer(a, s)
    PROVE  Kept
<1>1. Shrinks /\ Down(s)' /\ \A n \in Nodes : proc'[n] \subseteq proc[n]  BY TwiceStopped
<1>2. Idle(a) /\ job' = job /\ cache' = cache  BY DEF DeleteServer, requests
<1>3. LinkInv'  BY <1>1, LinkFrame DEF FleetInv, DeleteServer, nodeRows, links, requests
<1>4. \A r \in Servers \ {s} : row'[r] = row[r]
  BY DEF DeleteServer, FleetInv, FleetTypeOK
<1>5. KnownInv'  BY <1>1, <1>2, <1>4, Handled DEF Idle, At
<1> QED  BY <1>1, <1>2, <1>3, <1>5, OneJob DEF Kept, Idle

LEMMA PollStatus_I ==
    ASSUME FleetInv, Orderly, NEW a \in Actors, NEW s \in Servers, PollStatus(a, s)
    PROVE  Kept
<1>1. Shrinks /\ (Down(s)' <=> Down(s)) /\ \A n \in Nodes : Known(n)' = Known(n)
  BY SameProcs DEF PollStatus, Known
<1>2. LinkInv'  BY LinkFrame DEF FleetInv, PollStatus, nodeRows, links
<1>3. Idle(a) /\ s \in Rows /\ row' = row /\ cache' = Cached(a, s) /\ ~At(a, "commit")
  BY DEF PollStatus, Idle, At
<1>4. \A r \in Servers \ {s} : cache'[a][r] = cache[a][r]
  BY <1>3, Remembered DEF Cached, FleetInv
<1>5. cache'[a][s] = Target(a, s)  BY <1>3, Remembered DEF Cached, FleetInv
<1>6. KnownInv'
  <2>1. \A n \in Nodes : s \in Known(n) => cache'[a][s] = n  BY <1>5, Routed
  <2>2. \A n \in Nodes : Known(n)' \subseteq Servers
    BY <1>1 DEF FleetInv, FleetTypeOK, Known
  <2> QED  BY <1>1, <1>3, <1>4, <2>1, <2>2, IdleFrame
<1>7. /\ job'[a].pc = "poll" /\ job'[a].srv = s
      /\ job'[a].seen # "running" => ~IsRunning(a, s) /\ row[s].state = "running"
  BY ZenonT(60) DEF PollStatus, Request, FleetInv, FleetTypeOK
<1>8. job'[a].seen # "running" => Down(s)  BY <1>3, <1>7, StartDown
<1>9. s \in Rows'  BY <1>3 DEF Rows
<1>10. JobOK(job[a])'  BY <1>1, <1>7, <1>8, <1>9 DEF JobOK, Waiting
<1> QED  BY <1>1, <1>2, <1>6, <1>10, OneJob DEF Kept

LEMMA PollCommit_I ==
    ASSUME FleetInv, Orderly, NEW a \in Actors, PollCommit(a)
    PROVE  Kept
<1>1. job[a] # None /\ job[a].pc = "poll" /\ ~At(a, "commit")  BY DEF PollCommit, At
<1>2. PICK s \in Servers : s = job[a].srv /\ JobOK(job[a])  BY <1>1, JobSteps
<1>3. Shrinks /\ (Down(s)' <=> Down(s)) /\ \A n \in Nodes : Known(n)' = Known(n)
  BY SameProcs DEF PollCommit, Known
<1>4. LinkInv'  BY LinkFrame DEF FleetInv, PollCommit, nodeRows, links
<1>5. row' = SetState({s}, job[a].seen) /\ cache' = cache  BY <1>2 DEF PollCommit
<1>6. /\ \A r \in Servers \ {s} : row'[r] = row[r]
      /\ \A r \in Servers : row'[r].node = row[r].node
      /\ row'[s].state = job[a].seen
  BY <1>5, SetStateRows DEF FleetInv
<1>7. KnownInv'
  <2>1. CASE job[a].seen = "running"
    <3>1. \A n \in Nodes : Known(n)' \subseteq Servers
      BY <1>3 DEF FleetInv, FleetTypeOK, Known
    <3> QED  BY <1>1, <1>3, <1>5, <1>6, <2>1, <3>1, IdleFrame
  <2>2. CASE job[a].seen # "running"
    <3>1. Down(s)  BY <1>1, <1>2, <2>2 DEF JobOK, Waiting
    <3> QED  BY <1>1, <1>3, <1>5, <1>6, <3>1, Handled
  <2> QED  BY <2>1, <2>2
<1>8. job'[a] = None  BY <1>1, JobSteps DEF PollCommit
<1> QED  BY <1>3, <1>4, <1>7, <1>8, OneJob DEF Kept

LEMMA Rescue_I ==
    ASSUME FleetInv, Orderly, NEW a \in Actors, Rescue(a)
    PROVE  Kept /\ (\A s \in Orphans : Down(s)) /\ (\A n \in Nodes : Known(n)' = Known(n))
<1>1. Shrinks /\ \A n \in Nodes : Known(n)' = Known(n)  BY SameProcs DEF Rescue, Known
<1>2. LinkInv'  BY LinkFrame DEF FleetInv, Rescue, nodeRows, links, requests
<1>3. Idle(a) /\ ~At(a, "commit") /\ job' = job /\ cache' = cache
  BY DEF Rescue, Idle, At, requests
<1>4. \A n \in Nodes : \A s \in Known(n) : s \in Servers /\ s \notin Orphans
  <2> SUFFICES ASSUME NEW n \in Nodes, NEW s \in Known(n) PROVE s \in Servers /\ row[s].node \in Online
    BY DEF Orphans
  <2> QED  BY <1>3, IdleRuns, Routed DEF Online
<1>5. PICK n \in Healthy : row' = SetNode(Orphans, n)  BY DEF Rescue
<1>6. \A r \in Servers \ Orphans : row'[r] = row[r]  BY <1>5, SetNodeRows DEF FleetInv
<1>7. KnownInv'  BY <1>1, <1>3, <1>4, <1>6, IdleFrame
<1>8. \A s \in Orphans : Down(s)  BY <1>4 DEF Down
<1> QED  BY <1>1, <1>2, <1>3, <1>7, <1>8, OneJob DEF Kept, Idle

LEMMA RebalanceStop_I ==
    ASSUME FleetInv, Orderly, NEW a \in Actors, NEW s \in Servers, NEW to \in Nodes, RebalanceStop(a, s, to)
    PROVE  Kept
<1>1. Shrinks /\ Down(s)' /\ \A n \in Nodes : proc'[n] \subseteq proc[n]
  BY HomeStopped DEF RebalanceStop
<1>2. LinkInv'  BY <1>1, LinkFrame DEF FleetInv, RebalanceStop, nodeRows, links
<1>3. /\ \A r \in Servers \ {s} : row'[r] = row[r]
      /\ row'[s].state = "suspended"
  BY SMTT(30), SetStateRows DEF RebalanceStop, Suspended, FleetInv
<1>4. KnownInv'  BY <1>1, <1>3, Handled DEF RebalanceStop, Idle, At
<1>5. job'[a].pc = "move" /\ job'[a].srv = s
  BY DEF RebalanceStop, Request, FleetInv, FleetTypeOK
<1>6. s \in Rows'  BY <1>3 DEF Rows
<1>7. JobOK(job[a])'  BY <1>1, <1>5, <1>6 DEF JobOK, Waiting
<1> QED  BY <1>1, <1>2, <1>4, <1>7, OneJob DEF Kept

LEMMA MigrateStop_I ==
    ASSUME FleetInv, Orderly, NEW a \in Actors, NEW s \in Servers, MigrateStop(a, s)
    PROVE  Kept
<1>1. Shrinks /\ Down(s)' /\ \A n \in Nodes : proc'[n] \subseteq proc[n]
  BY HomeStopped DEF MigrateStop
<1>2. LinkInv'  BY <1>1, LinkFrame DEF FleetInv, MigrateStop, nodeRows, links
<1>3. /\ \A r \in Servers \ {s} : row'[r] = row[r]
      /\ row'[s].state = "suspended"
  <2>1. row' = SetState({s}, "suspended")  BY DEF MigrateStop, Suspended
  <2> QED  BY SMTT(30), <2>1, SetStateRows DEF FleetInv
<1>4. KnownInv'  BY <1>1, <1>3, Handled DEF MigrateStop, Idle, At
<1>5. job'[a].pc = "snap" /\ job'[a].srv = s
  BY DEF MigrateStop, Request, FleetInv, FleetTypeOK
<1>6. s \in Rows'  BY <1>3 DEF Rows
<1>7. JobOK(job[a])'  BY <1>1, <1>5, <1>6 DEF JobOK, Waiting
<1> QED  BY <1>1, <1>2, <1>4, <1>7, OneJob DEF Kept

\* Steps of a migration while its server is down: the row may get another node.
LEMMA Moves ==
    ASSUME FleetInv, Orderly, NEW a \in Actors, NEW s \in Servers, job[a] # None, s = job[a].srv,
           job[a].pc \in {"move", "snap", "pick", "restore"}, Rows' = Rows,
           \A r \in Servers \ {s} : row'[r] = row[r] /\ cache'[a][r] = cache[a][r],
           \/ job'[a] = None
           \/ job'[a].srv = s /\ job'[a].pc \in {"begin", "pick", "restore"},
           UNCHANGED <<nodeRows, links, proc, redo, lost>>
    PROVE  Kept
<1>1. JobOK(job[a]) /\ ~At(a, "commit")  BY JobSteps DEF At
<1>2. Down(s) /\ s \in Rows  BY <1>1 DEF JobOK, Waiting
<1>3. Shrinks /\ (Down(s)' <=> Down(s))  BY SameProcs
<1>4. LinkInv'  BY LinkFrame DEF FleetInv, nodeRows, links
<1>5. KnownInv'  BY <1>1, <1>2, <1>3, Handled
<1>6. (job[a] = None \/ JobOK(job[a]))'  BY <1>2, <1>3 DEF JobOK, Waiting
<1> QED  BY <1>3, <1>4, <1>5, <1>6, OneJob DEF Kept

LEMMA Moves_I ==
    ASSUME FleetInv, Orderly, NEW a \in Actors,
           RebalanceMove(a) \/ MigrateSnapshot(a) \/ MigratePick(a) \/ MigrateRestore(a)
    PROVE  Kept
<1>1. job[a] # None /\ job[a].pc \in {"move", "snap", "pick", "restore"}
  BY DEF RebalanceMove, MigrateSnapshot, MigratePick, MigrateRestore, At
<1>2. PICK s \in Servers : s = job[a].srv /\ job[a] \in Job  BY <1>1, JobSteps
<1>3. UNCHANGED row \/ \E n : row' = SetNode({s}, n)
  BY <1>2 DEF RebalanceMove, MigrateSnapshot, MigratePick, MigrateRestore
<1>4. Rows' = Rows /\ \A r \in Servers \ {s} : row'[r] = row[r]
  BY <1>3, SetNodeRows DEF FleetInv, Rows
<1>5. UNCHANGED cache \/ cache' = Forget(a, s)
  BY <1>2 DEF RebalanceMove, MigrateSnapshot, MigratePick, MigrateRestore
<1>6. \A r \in Servers \ {s} : cache'[a][r] = cache[a][r]
  BY <1>5, Remembered DEF FleetInv, Forget
<1>7. \/ Ends(a)
      \/ \E pc \in {"begin", "pick"} : GoesTo(a, pc)
      \/ \E n : job' = [job EXCEPT ![a] = [job[a] EXCEPT !.pc = "restore", !.to = n]]
  BY DEF RebalanceMove, MigrateSnapshot, MigratePick, MigrateRestore
<1>8. \/ job'[a] = None
      \/ job'[a].srv = s /\ job'[a].pc \in {"begin", "pick", "restore"}
  <2>1. CASE Ends(a)  BY <1>1, <2>1, JobSteps
  <2>2. CASE \E pc \in {"begin", "pick"} : GoesTo(a, pc)
    BY <1>1, <1>2, <2>2, JobSteps DEF Steps
  <2>3. CASE \E n : job' = [job EXCEPT ![a] = [job[a] EXCEPT !.pc = "restore", !.to = n]]
    BY <1>2, <2>3 DEF FleetInv, FleetTypeOK, Job
  <2> QED  BY <1>7, <2>1, <2>2, <2>3
<1>9. UNCHANGED <<nodeRows, links, proc, redo, lost>>
  BY DEF RebalanceMove, MigrateSnapshot, MigratePick, MigrateRestore, disk
<1> QED  BY <1>1, <1>2, <1>4, <1>6, <1>8, <1>9, Moves

LEMMA RebalanceWake_I ==
    ASSUME FleetInv, Orderly, NEW a \in Actors, RebalanceWake(a)
    PROVE  Kept
BY Wake_I, Quiet DEF Kept, RebalanceWake, requests

LEMMA Cooled_I ==
    ASSUME FleetInv, Cooled
    PROVE  Kept
<1>1. LinkInv'  BY LinkFrame DEF FleetInv, Cooled, nodeRows, links, requests
<1>2. Online \subseteq Online'  BY DEF Online, Cooled, nodeRows
<1> QED  BY <1>1, <1>2, Quiet DEF Kept, Cooled, requests

\* What a node that is powered off runs: nothing that is known.
LEMMA Shutdown_I ==
    ASSUME FleetInv, Orderly, NEW a \in Actors, NEW n \in Nodes, Shutdown(a, n)
    PROVE  /\ Kept
           /\ \A m \in Nodes : Known(m)' = Known(m)
           /\ \A s \in On(n) : Down(s)
<1>1. Idle(a) /\ ~At(a, "commit") /\ job' = job /\ cache' = cache /\ redo' = redo
      /\ lost' = lost /\ fresh' = fresh /\ "linger" \notin Faults
  BY DEF Shutdown, Idle, At, requests, Orderly
<1>2. /\ \A m \in Nodes : proc'[m] = IF m = n THEN {} ELSE proc[m]
      /\ \A m \in Nodes : status'[m] = IF m = n THEN "offline" ELSE status[m]
      /\ \A m \in Nodes : net'[m] = IF m = n THEN "off" ELSE net[m]
      /\ \A m \in Nodes : sock'[m] = IF m = n THEN "none" ELSE sock[m]
      /\ gone' = gone
  BY <1>1 DEF Shutdown, PowerOff, Lose, FleetInv, FleetTypeOK
<1>3. LinkInv'  BY <1>1, <1>2 DEF FleetInv, LinkInv, LinkOK
<1>4. \A m \in Nodes : \A s \in Known(m) : s \in Servers /\ s \notin On(n)
  <2> SUFFICES ASSUME NEW m \in Nodes, NEW s \in Known(m), s \in On(n) PROVE s \in Servers /\ FALSE
    BY DEF FleetInv, FleetTypeOK, Known
  <2>1. row[s].state = "running"  BY <1>1, IdleRuns
  <2> QED  BY <2>1 DEF Shutdown, RunningOn
<1>5. Known(n) = {}  BY <1>1, <1>4, IdleRuns DEF On
<1>6. \A m \in Nodes : Known(m)' = Known(m)  BY <1>1, <1>2, <1>5 DEF Known
<1>7. Shrinks  BY <1>6 DEF Shrinks
<1>8. PICK m \in Online : row' = SetNode(On(n), m)  BY DEF Shutdown
<1>9. \A r \in Servers \ On(n) : row'[r] = row[r]  BY <1>8, SetNodeRows DEF FleetInv
<1>10. KnownInv'  BY <1>1, <1>4, <1>6, <1>7, <1>9, IdleFrame
<1>11. \A s \in On(n) : Down(s)  BY <1>4 DEF Down
<1> QED  BY <1>1, <1>3, <1>6, <1>7, <1>10, <1>11, OneJob DEF Kept, Idle

LEMMA MigratePurge_I ==
    ASSUME FleetInv, Orderly, NEW a \in Actors, MigratePurge(a)
    PROVE  Kept
<1>1. job[a] # None /\ ~At(a, "commit")  BY DEF MigratePurge, At
<1>2. job[a].from \in Nodes \cup {None}  BY <1>1, JobFields DEF FleetInv
<1>3. \A n \in Nodes : proc'[n] \subseteq proc[n]
  BY <1>2 DEF MigratePurge, Stopped, UnitStopped, Reach, FleetInv, FleetTypeOK
<1>4. Shrinks  BY <1>3 DEF Shrinks, Known, MigratePurge
<1>5. LinkInv'  BY <1>3, LinkFrame DEF FleetInv, MigratePurge, nodeRows, links
<1>6. KnownInv'  BY <1>1, <1>4, IdleFrame DEF MigratePurge
<1>7. job'[a] = None  BY <1>1, JobSteps DEF MigratePurge
<1> QED  BY <1>4, <1>5, <1>6, <1>7, OneJob DEF Kept

LEMMA ProcessDies_I ==
    ASSUME FleetInv, NEW n \in Nodes, NEW s \in Servers, ProcessDies(n, s)
    PROVE  Kept
<1>1. \A m \in Nodes : proc'[m] \subseteq proc[m]
  BY DEF ProcessDies, FleetInv, FleetTypeOK
<1>2. Shrinks  BY <1>1 DEF Shrinks, Known, ProcessDies
<1>3. LinkInv'  BY <1>1, LinkFrame DEF FleetInv, ProcessDies, nodeRows, links, requests
<1>4. KnownInv'
  BY <1>2, KnownFrame DEF FleetInv, ProcessDies, requests, Committing, At
<1>5. JobInv'
  BY <1>2, JobFrame DEF FleetInv, ProcessDies, requests, nodeRows, Rows, ActiveOn, On, Online
<1> QED  BY <1>2, <1>3, <1>4, <1>5 DEF Kept

\* The request that dies with the control plane may have launched its server.
LEMMA BackendRestart_I ==
    ASSUME FleetInv, Orderly, NEW a \in Actors, BackendRestart(a)
    PROVE  Kept
<1>1. proc' = proc /\ lost' = (IF At(a, "commit") THEN lost \cup {job[a].srv} ELSE lost)
      /\ job'[a] = None /\ redo' \subseteq redo
  BY DEF BackendRestart, Losing, Orderly, Ends, FleetInv, FleetTypeOK
<1>2. Shrinks  BY <1>1 DEF Shrinks, Known
<1>3. LinkInv'
  BY <1>1 DEF FleetInv, LinkInv, LinkOK, BackendRestart, nodeRows
<1>4. \A r \in Servers : cache'[a][r] = None  BY DEF BackendRestart, FleetInv, FleetTypeOK
<1>5. KnownInv'
  <2> SUFFICES ASSUME NEW n \in Nodes, NEW s \in Known(n)' PROVE KnownOK(n, s)'
    BY DEF KnownInv
  <2>1. s \in Known(n) /\ s \in Servers
    BY <1>2 DEF Shrinks, FleetInv, FleetTypeOK, Known
  <2>2. row[s].node = n /\ (row[s].state = "running" \/ Committing(s))
    BY <2>1 DEF FleetInv, KnownInv, KnownOK
  <2>3. ~Committing(s)  BY <1>1 DEF Known, Committing, Orderly
  <2>4. Reach(n) /\ s \in proc[n]  BY <2>1, Routed
  <2>5. PICK dead : row' = SetState(dead, "suspended")
                    /\ \A r \in dead : ~(Reach(row[r].node) /\ r \in proc[row[r].node])
    BY DEF BackendRestart
  <2>6. row'[s] = row[s]  BY <2>1, <2>2, <2>4, <2>5, SetStateRows DEF FleetInv
  <2> QED  BY <1>4, <2>1, <2>2, <2>3, <2>6 DEF KnownOK, Orderly
<1> QED  BY <1>1, <1>2, <1>3, <1>5, OneJob DEF Kept

-----------------------------------------------------------------------------
(* The invariant of the fleet. *)

LEMMA Redone ==
    ASSUME Orderly, NEW a \in Actors, NEW s \in Servers
    PROVE  ~Reprovision(a, s)
BY DEF Orderly, Reprovision

\* Every step but a launch keeps the invariant and makes no process known.
LEMMA Jobs_I ==
    ASSUME FleetInv, Orderly, NEW a \in Actors, JobNext(a)
    PROVE  Kept \/ StartLaunch(a)
BY StartBegin_I, StartAssign_I, StartPrepare_I, StartCommit_I, Moves_I, MigratePurge_I,
   PollCommit_I, NoRowDeleted
   DEF JobNext, StartNext, MigrateNext

LEMMA Requests_I ==
    ASSUME FleetInv, Orderly, NEW a \in Actors, NEW s \in Servers,
           \/ CacheExpires(a, s) \/ CreateServer(a, s) \/ StartServer(a, s)
           \/ StopServer(a, s) \/ ToggleServer(a, s) \/ ForceStop(a, s) \/ AutoSleep(a, s)
           \/ SwitchSoftware(a, s) \/ DeleteServer(a, s) \/ Reprovision(a, s)
           \/ PollStatus(a, s) \/ MigrateStop(a, s)
           \/ \E to \in Nodes : RebalanceStop(a, s, to)
    PROVE  Kept
BY CacheExpires_I, CreateServer_I, StartServer_I, Stops_I, ToggleServer_I, SwitchSoftware_I,
   DeleteServer_I, Redone, PollStatus_I, MigrateStop_I, RebalanceStop_I

LEMMA Servers_I ==
    ASSUME FleetInv, Orderly, ServersNext
    PROVE  Kept \/ \E a \in Actors : StartLaunch(a)
<1>1. CASE Cooled  BY <1>1, Cooled_I
<1>2. ASSUME NEW s \in Servers, ProvisionJava(s) \/ \E n \in Nodes : ProcessDies(n, s)
      PROVE  Kept
  BY <1>2, ProcessDies_I DEF FleetInv, LinkInv, ProvisionJava
<1>3. ASSUME NEW a \in Actors, JobNext(a)  PROVE Kept \/ StartLaunch(a)
  BY <1>3, Jobs_I
<1>4. ASSUME NEW a \in Actors,
             Rescue(a) \/ RebalanceWake(a) \/ BackendRestart(a) \/ \E n \in Nodes : Shutdown(a, n)
      PROVE  Kept
  BY <1>4, Rescue_I, RebalanceWake_I, BackendRestart_I, Shutdown_I
<1> QED  BY <1>1, <1>2, <1>3, <1>4, Requests_I DEF ServersNext

LEMMA FleetStarts ==
    ASSUME FleetInit
    PROVE  FleetInv /\ NoOvercommit
<1>1. \A n \in Nodes : Known(n) = {}  BY DEF FleetInit, Known
<1>2. LinkInv  BY DEF FleetInit, LinkInv, LinkOK
<1>3. NoOvercommit  BY <1>1, FS_EmptySet, FleetAssumption DEF NoOvercommit
<1> QED  BY <1>1, <1>2, <1>3, InitTypes DEF FleetInv, KnownInv, JobInv, FleetInit

LEMMA FleetSteps ==
    ASSUME FleetInv, NoOvercommit, Orderly, FleetTypeOK', [FleetNext]_fvars
    PROVE  (FleetInv /\ NoOvercommit)'
<1>1. CASE FleetNext
  <2>1. CASE Kept  BY <2>1, FitsStill DEF Kept, FleetInv
  <2>2. CASE \E a \in Actors : StartLaunch(a)  BY <2>2, StartLaunch_I DEF FleetInv
  <2> QED  BY <1>1, <2>1, <2>2, Nodes_I, Servers_I DEF FleetNext
<1>2. CASE UNCHANGED fvars
  <2>1. Shrinks  BY <1>2, SameProcs DEF fvars
  <2>2. KnownInv' /\ JobInv'  BY <1>2, Quiet DEF fvars, requests, nodeRows, Online
  <2>3. LinkInv'  BY <1>2, LinkFrame DEF FleetInv, fvars, requests, nodeRows, links
  <2> QED  BY <2>1, <2>2, <2>3, FitsStill DEF FleetInv
<1> QED  BY <1>1, <1>2

\* FleetInv and NoOvercommit hold together in every fleet that is Orderly: links and
\* processes agree, the row of a known process tells its node, and a start under way
\* has reserved its place (register_node, node_heartbeat, _do_start_server).
THEOREM FleetInductive ==
    ASSUME Orderly
    PROVE  FleetSpec => [](FleetInv /\ NoOvercommit)
<1>1. FleetInit => FleetInv /\ NoOvercommit  BY FleetStarts
<1>2. FleetInv /\ NoOvercommit /\ FleetTypeOK' /\ [FleetNext]_fvars => (FleetInv /\ NoOvercommit)'
  BY FleetSteps
<1> QED  BY <1>1, <1>2, FleetTyped, PTL DEF FleetSpec

\* NoOvercommit for every fleet: the processes the rows tell of fit into the RAM of
\* their node, although a start reserves its place by rows that heartbeats, deletions
\* and stops change before the process runs (_do_start_server, select_best_node).
THEOREM FitsRam ==
    ASSUME Orderly
    PROVE  FleetSpec => []NoOvercommit
BY FleetInductive, PTL

-----------------------------------------------------------------------------
(* No world is taken away from under a known process. *)

WorldKept ==
    \A n \in Nodes : \A s \in Known(n) \cap Known(n)' :
       Store(n) \in world[s] =>
          \/ Store(n) \in world'[s]
          \/ \E a \in Actors : At(a, "purge") /\ job[a].srv = s /\ job'[a] = None

LEMMA WorldOfOne ==
    ASSUME FleetInv, NEW s \in Servers, \A r \in Servers \ {s} : world'[r] = world[r],
           Down(s) \/ Down(s)'
    PROVE  WorldKept
<1>1. \A n \in Nodes : Known(n) \subseteq Servers  BY DEF FleetInv, FleetTypeOK, Known
<1> QED  BY <1>1 DEF WorldKept, Down

LEMMA WorldSteps ==
    ASSUME FleetInv, Orderly, [FleetNext]_fvars
    PROVE  WorldKept
<1>1. CASE UNCHANGED world  BY <1>1 DEF WorldKept
<1>2. ASSUME NEW a \in Actors, StartLaunch(a)  PROVE WorldKept
  <2>1. job[a] # None /\ job[a].pc = "launch"  BY <1>2 DEF StartLaunch, At
  <2>2. PICK s \in Servers : s = job[a].srv /\ JobOK(job[a])  BY <2>1, JobSteps
  <2>3. Down(s)  BY <2>1, <2>2 DEF JobOK, Waiting
  <2>4. \A r \in Servers \ {s} : world'[r] = world[r]
    BY <1>2, <2>2 DEF StartLaunch, Launched, FleetInv, FleetTypeOK
  <2> QED  BY <2>3, <2>4, WorldOfOne
<1>3. ASSUME NEW a \in Actors, NEW s \in Servers, DeleteServer(a, s)  PROVE WorldKept
  <2>1. Down(s)'  BY <1>3, TwiceStopped
  <2>2. \A r \in Servers \ {s} : world'[r] = world[r]
    BY <1>3 DEF DeleteServer, Purged, FleetInv, FleetTypeOK
  <2> QED  BY <2>1, <2>2, WorldOfOne
<1>4. ASSUME NEW a \in Actors, MigrateRestore(a)  PROVE WorldKept
  <2>1. job[a] # None /\ job[a].srv \in Servers  BY <1>4, JobSteps DEF MigrateRestore, At
  <2>2. \A r \in Servers : world[r] \subseteq world'[r]
    BY <1>4, <2>1 DEF MigrateRestore, FleetInv, FleetTypeOK
  <2>3. \A n \in Nodes : Known(n) \subseteq Servers  BY DEF FleetInv, FleetTypeOK, Known
  <2> QED  BY <2>2, <2>3 DEF WorldKept
<1>5. ASSUME NEW a \in Actors, MigratePurge(a)  PROVE WorldKept
  <2>1. job[a] # None /\ At(a, "purge")  BY <1>5 DEF MigratePurge, At
  <2>2. job'[a] = None  BY <1>5, <2>1, JobSteps DEF MigratePurge
  <2>3. \A r \in Servers \ {job[a].srv} : world'[r] = world[r]
    BY <1>5 DEF MigratePurge, Purged, FleetInv, FleetTypeOK
  <2>4. \A n \in Nodes : Known(n) \subseteq Servers  BY DEF FleetInv, FleetTypeOK, Known
  <2> QED  BY <2>1, <2>2, <2>3, <2>4 DEF WorldKept
<1>6. CASE NodesNext
  BY <1>1, <1>6 DEF NodesNext, RegisterHalt, RegisterOnline, Heartbeat, Sample, LateHeartbeat,
     Break, Finally, Stale, Watchdog, Cut, Mend, DrainNode, EvacuateNode, UndrainNode, disk
<1>7. ASSUME NEW a \in Actors, JobNext(a)  PROVE WorldKept
  <2>1. ASSUME StartBegin(a) \/ StartAssign(a) \/ StartPrepare(a) \/ StartCommit(a)
        PROVE  UNCHANGED world
    BY <2>1 DEF StartBegin, StartAssign, StartPrepare, StartCommit, disk
  <2>2. ASSUME RebalanceMove(a) \/ MigrateSnapshot(a) \/ MigratePick(a) \/ PollCommit(a)
               \/ RowDeleted(a)
        PROVE  UNCHANGED world
    BY <2>2 DEF RebalanceMove, MigrateSnapshot, MigratePick, PollCommit, RowDeleted, disk
  <2> QED  BY <1>1, <1>2, <1>4, <1>5, <1>7, <2>1, <2>2 DEF JobNext, StartNext, MigrateNext
<1>8. ASSUME NEW a \in Actors, NEW s \in Servers,
             \/ CacheExpires(a, s) \/ CreateServer(a, s) \/ StartServer(a, s)
             \/ StopServer(a, s) \/ ToggleServer(a, s) \/ ForceStop(a, s) \/ AutoSleep(a, s)
             \/ SwitchSoftware(a, s) \/ Reprovision(a, s) \/ PollStatus(a, s) \/ MigrateStop(a, s)
             \/ \E to \in Nodes : RebalanceStop(a, s, to)
      PROVE  UNCHANGED world
  BY <1>8 DEF CacheExpires, CreateServer, StartServer, StopServer, ToggleServer, ForceStop, AutoSleep,
     SwitchSoftware, Reprovision, PollStatus, MigrateStop, RebalanceStop, disk
<1>9. ASSUME NEW a \in Actors,
             Rescue(a) \/ RebalanceWake(a) \/ BackendRestart(a) \/ \E n \in Nodes : Shutdown(a, n)
      PROVE  UNCHANGED world
  BY <1>9 DEF Rescue, RebalanceWake, BackendRestart, Shutdown, disk
<1>10. ASSUME NEW s \in Servers, ProvisionJava(s) \/ \E n \in Nodes : ProcessDies(n, s)
       PROVE  UNCHANGED world
  BY <1>10 DEF ProvisionJava, ProcessDies, disk
<1>11. CASE Cooled \/ UNCHANGED fvars  BY <1>1, <1>11 DEF Cooled, fvars, disk
<1> QED  BY <1>1, <1>3, <1>6, <1>7, <1>8, <1>9, <1>10, <1>11 DEF FleetNext, ServersNext

\* WorldNotPulled for every fleet: a deletion removes a directory only after it has
\* stopped the process, and nothing else but the purge that ends a migration removes
\* one (delete_server, migrate_server).
THEOREM WorldStays ==
    ASSUME Orderly
    PROVE  FleetSpec => WorldNotPulled
<1>1. FleetInv /\ [FleetNext]_fvars => [WorldKept]_fvars  BY WorldSteps
<1> QED  BY <1>1, FleetInductive, PTL DEF FleetSpec, WorldNotPulled, WorldKept

-----------------------------------------------------------------------------
(* The fleet implements Placement. *)

Abstract == P!Next \/ UNCHANGED P!pvars
SameHomes == \A s \in Servers : row'[s].node = row[s].node
SameKnown == \A n \in Nodes : Known(n)' = Known(n)

LEMMA Stutters == ASSUME SameHomes, SameKnown PROVE Abstract
BY DEF SameHomes, SameKnown, Abstract, P!pvars

\* Processes of one node end, or are no longer known.
LEMMA Halts ==
    ASSUME FleetTypeOK, SameHomes, NEW n \in Nodes, Known(n)' \subseteq Known(n),
           \A m \in Nodes \ {n} : Known(m)' = Known(m)
    PROVE  Abstract
<1> DEFINE S == Known(n) \ Known(n)'
<1>1. S \in SUBSET Servers  BY DEF FleetTypeOK, Known
<1>2. Known(n)' = Known(n) \ S  OBVIOUS
<1> HIDE DEF S
<1>3. P!Halt(n, S)  BY <1>2 DEF SameHomes, P!Halt
<1> QED  BY <1>1, <1>3 DEF Abstract, P!Next

\* A known process runs at home, so one node at most is touched.
LEMMA OneHalts ==
    ASSUME FleetInv, SameHomes, NEW s, \A n \in Nodes : Known(n)' \in {Known(n), Known(n) \ {s}}
    PROVE  Abstract
<1>1. CASE Down(s)  BY <1>1, Stutters DEF Down, SameKnown
<1>2. ASSUME NEW n \in Nodes, s \in Known(n)  PROVE Abstract
  <2>1. \A m \in Nodes : s \in Known(m) => m = n
    BY <1>2 DEF FleetInv, KnownInv, KnownOK
  <2>2. \A m \in Nodes \ {n} : Known(m)' = Known(m)  BY <2>1
  <2> QED  BY <2>2, Halts DEF FleetInv
<1> QED  BY <1>1, <1>2 DEF Down

LEMMA Moved ==
    ASSUME SameKnown, NEW S \in SUBSET Servers, \A s \in S : Down(s), NEW n \in Nodes \cup {None},
           \A s \in Servers : row'[s].node = IF s \in S THEN n ELSE row[s].node
    PROVE  Abstract
<1>1. \A s \in S : ~P!Runs(s)  BY DEF P!Runs, Down
<1>2. P!Move(S, n)  BY <1>1 DEF P!Move, SameKnown
<1> QED  BY <1>2 DEF Abstract, P!Next

\* A server is stopped, wherever it runs, and its row gets another node.
LEMMA Leaves ==
    ASSUME FleetInv, NEW s \in Servers, NEW n \in Nodes \cup {None}, Down(s)',
           \A m \in Nodes : Known(m)' \in {Known(m), Known(m) \ {s}},
           \A r \in Servers : row'[r].node = IF r = s THEN n ELSE row[r].node
    PROVE  Abstract
<1>1. CASE Down(s)
  <2>1. SameKnown  BY <1>1 DEF Down, SameKnown
  <2>2. \A r \in Servers : row'[r].node = IF r \in {s} THEN n ELSE row[r].node  OBVIOUS
  <2> QED  BY <1>1, <2>1, <2>2, Moved
<1>2. ASSUME NEW m \in Nodes, s \in Known(m)  PROVE Abstract
  <2>1. row[s].node = m /\ \A k \in Nodes : s \in Known(k) => k = m
    BY <1>2 DEF FleetInv, KnownInv, KnownOK
  <2>2. \A k \in Nodes : Known(k)' = IF k = m THEN Known(m) \ {s} ELSE Known(k)
    BY <1>2, <2>1 DEF Down
  <2>3. P!Vacate(m, {s}, n)  BY <2>1, <2>2 DEF P!Vacate
  <2> QED  BY <2>3 DEF Abstract, P!Next
<1> QED  BY <1>1, <1>2 DEF Down

LEMMA Nodes_P ==
    ASSUME FleetInv, Orderly, NodesNext
    PROVE  Abstract
<1>1. ASSUME NEW n \in Nodes, RegisterHalt(n)  PROVE Abstract
  <2>1. SameHomes  BY <1>1 DEF SameHomes, RegisterHalt
  <2>2. Known(n)' \subseteq Known(n) /\ \A m \in Nodes \ {n} : Known(m)' = Known(m)
    BY <1>1 DEF RegisterHalt, HaltAll, Known, FleetInv, FleetTypeOK
  <2> QED  BY <2>1, <2>2, Halts DEF FleetInv
<1>2. ASSUME NEW n \in Nodes, RegisterOnline(n)  PROVE Abstract
  <2>1. SameKnown  BY <1>2 DEF SameKnown, Known, RegisterOnline
  <2>2. SameHomes  BY <1>2, SetStateRows DEF SameHomes, RegisterOnline, FleetInv
  <2> QED  BY <2>1, <2>2, Stutters
<1>3. ASSUME NEW n \in Nodes, NEW S, Beat(n, S), UNCHANGED proc  PROVE Abstract
  <2>1. SameHomes  BY <1>3, SetStateRows DEF SameHomes, Beat, FleetInv
  <2>2. lost \subseteq lost' /\ lost' \subseteq lost \cup ActiveOn(n)  BY <1>3 DEF Beat, Losing
  <2>3. \A m \in Nodes : \A s \in Known(m) : row[s].node = m
    BY DEF FleetInv, KnownInv, KnownOK
  <2>4. Known(n)' \subseteq Known(n) /\ \A m \in Nodes \ {n} : Known(m)' = Known(m)
    BY <1>3, <2>2, <2>3 DEF Known, ActiveOn, On
  <2> QED  BY <2>1, <2>4, Halts DEF FleetInv
<1>4. ASSUME UNCHANGED <<proc, lost, row>>  PROVE Abstract
  BY <1>4, Stutters DEF SameKnown, SameHomes, Known
<1>5. ASSUME NEW n \in Nodes, Heartbeat(n) \/ LateHeartbeat(n)  PROVE Abstract
  BY <1>3, <1>5 DEF Heartbeat, LateHeartbeat
<1>6. ASSUME NEW n \in Nodes, Sample(n) \/ Stale(n)  PROVE Abstract
  BY <1>4, <1>6 DEF Sample, Stale
<1>7. CASE Watchdog  BY <1>4, <1>7 DEF Watchdog
<1> QED  BY <1>1, <1>2, <1>5, <1>6, <1>7, Excluded DEF NodesNext

LEMMA StartLaunch_P ==
    ASSUME FleetInv, Orderly, NEW a \in Actors, StartLaunch(a)
    PROVE  Abstract
<1>1. job[a] # None /\ job[a].pc = "launch"  BY DEF StartLaunch, At
<1>2. PICK s \in Servers : s = job[a].srv /\ JobOK(job[a])  BY <1>1, JobSteps
<1>3. Down(s)  BY <1>1, <1>2 DEF JobOK, Waiting
<1>4. PICK n \in Nodes : row[s].node = n  BY <1>1, <1>2 DEF JobOK, Online
<1>5. SameHomes  BY DEF SameHomes, StartLaunch
<1>6. ASSUME Launched(s, n)
      PROVE  proc'[n] = proc[n] \cup {s} /\ \A m \in Nodes \ {n} : proc'[m] = proc[m]
  BY <1>6 DEF Launched, UnitStarted, FleetInv, FleetTypeOK
<1>7. CASE Launched(s, n) /\ UNCHANGED lost /\ s \notin lost
  <2>1. \A m \in Nodes : Known(m)' = IF m = n THEN Known(n) \cup {s} ELSE Known(m)
    BY <1>6, <1>7 DEF Known
  <2>2. ~P!Runs(s)  BY <1>3 DEF P!Runs, Down
  <2>3. row[s].node # None  BY <1>4, FleetAssumption
  <2>4. P!Start(s)  BY <1>4, <1>5, <2>1, <2>2, <2>3 DEF P!Start, SameHomes
  <2> QED  BY <2>4 DEF Abstract, P!Next
<1>8. CASE Launched(s, n) /\ UNCHANGED lost /\ s \in lost
  BY <1>5, <1>6, <1>8, Stutters DEF SameKnown, Known
<1>9. CASE Launched(s, n) /\ lost' = lost \cup {s}
  BY <1>3, <1>5, <1>6, <1>9, Stutters DEF SameKnown, Known, Down
<1>10. CASE UNCHANGED <<proc, lost>>
  BY <1>5, <1>10, Stutters DEF SameKnown, Known
<1> QED  BY <1>2, <1>4, <1>7, <1>8, <1>9, <1>10 DEF StartLaunch, Losing, Orderly

\* Steps of a request that is at work on a server.
LEMMA Placed_P ==
    ASSUME FleetInv, Orderly, NEW a \in Actors,
           StartBegin(a) \/ StartAssign(a) \/ RebalanceMove(a) \/ MigratePick(a) \/ MigrateRestore(a)
    PROVE  Abstract
<1>1. job[a] # None /\ job[a].pc \in {"begin", "assign", "move", "pick", "restore"}
  BY DEF StartBegin, StartAssign, RebalanceMove, MigratePick, MigrateRestore, At
<1>2. PICK s \in Servers : s = job[a].srv /\ JobOK(job[a]) /\ job[a] \in Job  BY <1>1, JobSteps
<1>3. Down(s)  BY <1>1, <1>2 DEF JobOK, Waiting
<1>4. job[a].from \in Nodes \cup {None} /\ job[a].to \in Nodes \cup {None}  BY <1>2 DEF Job
<1>5. \/ UNCHANGED row
      \/ \E n \in Nodes \cup {None} :
            \/ row' = SetNode({s}, n)
            \/ row' = [row EXCEPT ![s] = [state |-> "provisioning", node |-> n]]
  BY <1>2, <1>4 DEF StartBegin, StartAssign, RebalanceMove, MigratePick, MigrateRestore, Best,
     Healthy, Online
<1>6. SameKnown
  BY DEF SameKnown, Known, StartBegin, StartAssign, RebalanceMove, MigratePick, MigrateRestore
<1>7. CASE UNCHANGED row  BY <1>6, <1>7, Stutters DEF SameHomes
<1>8. ASSUME NEW n \in Nodes \cup {None},
             \/ row' = SetNode({s}, n)
             \/ row' = [row EXCEPT ![s] = [state |-> "provisioning", node |-> n]]
      PROVE  Abstract
  <2>1. CASE row' = SetNode({s}, n)
    <3>1. \A r \in Servers : row'[r].node = IF r \in {s} THEN n ELSE row[r].node
      <4>1. row'[s].node = n /\ \A r \in Servers \ {s} : row'[r] = row[r]
        BY <2>1, SetNodeRows DEF FleetInv
      <4> QED  BY <4>1
    <3> QED  BY <1>2, <1>3, <1>6, <3>1, Moved
  <2>2. CASE row' = [row EXCEPT ![s] = [state |-> "provisioning", node |-> n]]
    <3>1. \A r \in Servers : row'[r].node = IF r \in {s} THEN n ELSE row[r].node
      BY <2>2 DEF FleetInv, FleetTypeOK, Server
    <3> QED  BY <1>2, <1>3, <1>6, <3>1, Moved
  <2> QED  BY <1>8, <2>1, <2>2
<1> QED  BY <1>5, <1>7, <1>8

LEMMA Jobs_P ==
    ASSUME FleetInv, Orderly, NEW a \in Actors, JobNext(a)
    PROVE  Abstract
<1>1. CASE StartCommit(a)
  <2>1. row' = SetState({job[a].srv}, Started(a)) /\ proc' = proc
        /\ lost' \in {lost, lost \cup {job[a].srv}}
    BY <1>1 DEF StartCommit, Losing
  <2>2. SameHomes  BY <2>1, SetStateRows DEF SameHomes, FleetInv
  <2>3. \A n \in Nodes : Known(n)' \in {Known(n), Known(n) \ {job[a].srv}}  BY <2>1 DEF Known
  <2> QED  BY <2>2, <2>3, OneHalts
<1>2. CASE MigratePurge(a)
  <2>1. job[a] # None  BY <1>2 DEF MigratePurge, At
  <2>2. job[a].from \in Nodes \cup {None}  BY <2>1, JobFields DEF FleetInv
  <2>3. \A n \in Nodes : proc'[n] \in {proc[n], proc[n] \ {job[a].srv}}
    BY <1>2, <2>2 DEF MigratePurge, Stopped, UnitStopped, Reach, FleetInv, FleetTypeOK
  <2>4. \A n \in Nodes : Known(n)' \in {Known(n), Known(n) \ {job[a].srv}}
    BY <1>2, <2>3 DEF Known, MigratePurge
  <2>5. SameHomes  BY <1>2 DEF SameHomes, MigratePurge
  <2> QED  BY <2>4, <2>5, OneHalts
<1>3. CASE PollCommit(a)
  <2>1. SameHomes  BY <1>3, SetStateRows DEF SameHomes, PollCommit, FleetInv
  <2>2. SameKnown  BY <1>3 DEF SameKnown, Known, PollCommit
  <2> QED  BY <2>1, <2>2, Stutters
<1>4. CASE StartPrepare(a) \/ MigrateSnapshot(a)
  BY <1>4, Stutters DEF SameHomes, SameKnown, Known, StartPrepare, MigrateSnapshot
<1> QED
  BY <1>1, <1>2, <1>3, <1>4, StartLaunch_P, Placed_P, NoRowDeleted
  DEF JobNext, StartNext, MigrateNext

LEMMA Stops_P ==
    ASSUME FleetInv, Orderly, NEW a \in Actors, NEW s \in Servers,
           \/ StopServer(a, s) \/ AutoSleep(a, s) \/ ForceStop(a, s) \/ SwitchSoftware(a, s)
           \/ MigrateStop(a, s) \/ \E to \in Nodes : RebalanceStop(a, s, to)
    PROVE  Abstract
<1>1. row' = SetState({s}, "suspended") /\ lost' = lost
  BY DEF StopServer, AutoSleep, ForceStop, SwitchSoftware, MigrateStop, RebalanceStop, Suspended
<1>2. SameHomes  BY <1>1, SetStateRows DEF SameHomes, FleetInv
<1>3. CASE OrchestratorStop(a, s)
  <2>1. \A n \in Nodes : Known(n)' \in {Known(n), Known(n) \ {s}}  BY <1>1, <1>3, StopReaches
  <2> QED  BY <1>2, <2>1, OneHalts
<1>4. CASE proc' = Stopped(proc, s, row[s].node)
  <2>1. \A n \in Nodes : Known(n)' \in {Known(n), Known(n) \ {s}}  BY <1>1, <1>4, HomeStopped
  <2> QED  BY <1>2, <2>1, OneHalts
<1>5. CASE UNCHANGED proc  BY <1>1, <1>2, <1>5, Stutters DEF SameKnown, Known
<1> QED
  BY <1>3, <1>4, <1>5
  DEF StopServer, AutoSleep, ForceStop, SwitchSoftware, MigrateStop, RebalanceStop

LEMMA Requests_P ==
    ASSUME FleetInv, Orderly, NEW a \in Actors, NEW s \in Servers,
           \/ CacheExpires(a, s) \/ CreateServer(a, s) \/ StartServer(a, s)
           \/ StopServer(a, s) \/ ToggleServer(a, s) \/ ForceStop(a, s) \/ AutoSleep(a, s)
           \/ SwitchSoftware(a, s) \/ DeleteServer(a, s) \/ Reprovision(a, s)
           \/ PollStatus(a, s) \/ MigrateStop(a, s)
           \/ \E to \in Nodes : RebalanceStop(a, s, to)
    PROVE  Abstract
<1>1. CASE CacheExpires(a, s) \/ StartServer(a, s) \/ PollStatus(a, s)
  BY <1>1, Stutters DEF SameHomes, SameKnown, Known, CacheExpires, StartServer, PollStatus
<1>2. CASE CreateServer(a, s)
  <2>1. SameKnown  BY <1>2 DEF SameKnown, Known, CreateServer
  <2>2. Down(s)  BY <1>2, IdleRuns DEF CreateServer, Idle, At, Down
  <2>3. ASSUME NEW n \in Best, row' = [row EXCEPT ![s] = [state |-> "created", node |-> n]]
        PROVE  Abstract
    <3>1. n \in Nodes  BY DEF Best, Healthy, Online
    <3>2. \A r \in Servers : row'[r].node = IF r \in {s} THEN n ELSE row[r].node
      BY <2>3 DEF FleetInv, FleetTypeOK, Server
    <3> QED  BY <2>1, <2>2, <3>1, <3>2, Moved
  <2>4. CASE UNCHANGED row  BY <2>1, <2>4, Stutters DEF SameHomes
  <2> QED  BY <1>2, <2>3, <2>4 DEF CreateServer
<1>3. CASE DeleteServer(a, s)
  <2>1. \A r \in Servers : row'[r].node = IF r = s THEN None ELSE row[r].node
    BY <1>3 DEF DeleteServer, FleetInv, FleetTypeOK, Server
  <2> QED  BY <1>3, <2>1, TwiceStopped, Leaves
<1>4. CASE ToggleServer(a, s)
  <2>1. StopServer(a, s) \/ StartServer(a, s)  BY <1>4 DEF ToggleServer
  <2> QED  BY <1>1, <2>1, Stops_P
<1> QED  BY <1>1, <1>2, <1>3, <1>4, Stops_P, Redone

LEMMA Servers_P ==
    ASSUME FleetInv, Orderly, ServersNext
    PROVE  Abstract
<1>1. CASE Cooled  BY <1>1, Stutters DEF SameHomes, SameKnown, Known, Cooled
<1>2. ASSUME NEW s \in Servers, ProvisionJava(s) \/ \E n \in Nodes : ProcessDies(n, s)
      PROVE  Abstract
  <2>1. PICK n \in Nodes : ProcessDies(n, s)
    BY <1>2 DEF FleetInv, LinkInv, ProvisionJava
  <2>2. SameHomes  BY <2>1 DEF SameHomes, ProcessDies
  <2>3. Known(n)' \subseteq Known(n) /\ \A m \in Nodes \ {n} : Known(m)' = Known(m)
    BY <2>1 DEF ProcessDies, Known, FleetInv, FleetTypeOK
  <2> QED  BY <2>2, <2>3, Halts DEF FleetInv
<1>3. ASSUME NEW a \in Actors, Rescue(a)  PROVE Abstract
  <2>1. PICK n \in Healthy : row' = SetNode(Orphans, n)  BY <1>3 DEF Rescue
  <2>2. n \in Nodes /\ Orphans \in SUBSET Servers  BY DEF Healthy, Online, Orphans, Rows
  <2>3. \A r \in Servers : row'[r].node = IF r \in Orphans THEN n ELSE row[r].node
    BY <2>1, SetNodeRows DEF FleetInv
  <2> QED  BY <1>3, <2>2, <2>3, Rescue_I, Moved DEF SameKnown
<1>4. ASSUME NEW a \in Actors, NEW n \in Nodes, Shutdown(a, n)  PROVE Abstract
  <2>1. PICK m \in Nodes : row' = SetNode(On(n), m)  BY <1>4 DEF Shutdown, Online
  <2>2. On(n) \in SUBSET Servers  BY DEF On
  <2>3. \A r \in Servers : row'[r].node = IF r \in On(n) THEN m ELSE row[r].node
    BY <2>1, SetNodeRows DEF FleetInv
  <2> QED  BY <1>4, <2>2, <2>3, Shutdown_I, Moved DEF SameKnown
<1>5. ASSUME NEW a \in Actors, RebalanceWake(a)  PROVE Abstract
  BY <1>5, Stutters DEF SameHomes, SameKnown, Known, RebalanceWake
<1>6. ASSUME NEW a \in Actors, BackendRestart(a)  PROVE Abstract
  <2>1. proc' = proc /\ lost' \in {lost, lost \cup {job[a].srv}}  BY <1>6 DEF BackendRestart, Losing
  <2>2. \A n \in Nodes : Known(n)' \in {Known(n), Known(n) \ {job[a].srv}}  BY <2>1 DEF Known
  <2>3. \E dead : row' = SetState(dead, "suspended")  BY <1>6 DEF BackendRestart
  <2>4. SameHomes  BY <2>3, SetStateRows DEF SameHomes, FleetInv
  <2> QED  BY <2>2, <2>4, OneHalts
<1> QED  BY <1>1, <1>2, <1>3, <1>4, <1>5, <1>6, Jobs_P, Requests_P DEF ServersNext

LEMMA Starts_P == ASSUME FleetInit PROVE P!Init
BY DEF FleetInit, P!Init, Known

\* The fleet implements Placement, whatever its servers and nodes: the process the
\* rows tell of runs on the node of its row, and a row gets another node only while
\* its server is down (_do_start_server, _migrate_server, migrate_server).
THEOREM Refines ==
    ASSUME Orderly
    PROVE  FleetSpec => ImplementsPlacement
<1>1. FleetInit => P!Init  BY Starts_P
<1>2. FleetInv /\ [FleetNext]_fvars => [P!Next]_(P!pvars)
  <2> SUFFICES ASSUME FleetInv, [FleetNext]_fvars PROVE Abstract
    BY DEF Abstract
  <2>1. CASE FleetNext  BY <2>1, Nodes_P, Servers_P DEF FleetNext
  <2>2. CASE UNCHANGED fvars  BY <2>2, Stutters DEF SameHomes, SameKnown, Known, fvars
  <2> QED  BY <2>1, <2>2
<1> QED  BY <1>1, <1>2, FleetInductive, PTL DEF FleetSpec, ImplementsPlacement, P!Spec
=============================================================================
