# A TLA+ verification of BlockHost

BlockHost is a hosting panel: a FastAPI backend (`src/src/blockhost_backend`)
that keeps users, game servers, nodes, backups and subscriptions in a database,
worker loops (threads or a worker process) that act on those rows, and an agent
(`src/src/blockhost_agent`) on every node that runs the game servers and
containers. This directory models the parts of it whose correctness depends on
the order of steps. There are six models, each of one subsystem, because the
subsystems meet only in rows that one of them writes and another reads:

| model | modules | about |
|---|---|---|
| backup | `BackupState`, `BackupJobs`, `RestoreJobs`, `BackupRestore` | backup and restore of a game server |
| billing | `BillingState`, `Billing` | payments, subscriptions, expiry |
| fleet | `FleetState`, `FleetNodes`, `FleetServers`, `Fleet`, `Placement` | nodes, the servers on them, migrations |
| hosting | `HostingState`, `Provisioning`, `Deployments`, `Databases`, `Hosting` | apps, managed databases, routes, snapshots |
| network | `Ports`, `GameProxy`, `Network` | ports of the servers and the proxy in front of them |
| store | `StoreState`, `Settings`, `Software`, `Mods`, `Store` | what a node keeps on disk for its servers |

An `MC...` module gives TLC its sets. The theorems are in `BackupRestoreProofs` and
`BackupSafetyProofs`, `BillingProofs`, `FleetProofs` and `PlacementProofs`,
`HostingProofs`, `NetworkProofs` and `StoreProofs`. A mutant (`Name_Change`, above the
definition it changes) is a plausible bug that makes a property fail.

## Inventory

| component | state | operations | interacts with |
|---|---|---|---|
| backup jobs (`orchestrator/backup.py`) | `Backup`, `BackupJob` rows, the `.tar.gz`, its `.tmp` and `.sha256`, thread locals | `run_backup_job`, `apply_backup_retention` | per-server Redis lock, game server, restore rows |
| restore jobs (same file) | `RestoreJob` row, staging and rollback directories | `run_restore_job` | lock, archives, world directory, game server |
| schedule dispatcher (same file) | `BackupSchedule` rows | `dispatch_due_backup_schedules` every 60 s | inserts backups, submits to its own pool |
| backup API (`api/backups.py`) | the same rows and files | create, restore, delete, retention, schedules | pool of the API process |
| API cache (`services/api_cache.py`) | Redis keys | JSON cache, `lock()` | everything that locks |
| lifecycle orchestrator, runtimes, node router | cached runtimes, 10 s | start, stop, send_command | agents, systemd, docker |
| servers API (`api/servers.py`) | `Server` rows | create, start, stop, toggle, delete, fail-over | orchestrator, capacity, billing |
| nodes API (`api/nodes.py`), capacity, rebalancer, migration guards | `Node` rows, websocket connections, hourly budget | register, heartbeat, disconnect, drain; place, wake, consolidate, rescue, migrate | agents, `Server.node_id` |
| auto-sleeper, startup reconciliation | `Server.state`, `last_activity` | stop idle servers, repair states | orchestrator, rebalancer |
| billing (`services/billing.py`, `api/billing.py`) | transactions, subscriptions, processed webhook events | order, verify, Razorpay and Paddle webhooks, expiration pass | payment providers, orchestrator, provisioning |
| provisioning, deployments, databases | `AppDeployment`, `DatabaseInstance` rows | place, build, start, back up | agents, ingress |
| proxies (`services/game_proxy.py`, `api/wake_proxy.py`) | routing table | wake a sleeping server on a connection | servers API |
| auth, refresh tokens, rate limits | token rows, Redis counters | issue, refresh, revoke, count | all endpoints |
| agent (`agent.py`) | processes and containers of a node | start, stop, halt-all, backup to S3, heartbeat | backend websocket and HTTP |
| mods (`api/mods.py`), software, settings, files | jars, shared caches and `server.properties` on a node's disk | install, delete, start's downloads, switch, `/config`, `/properties`, editor | Modrinth, agent, per-server lease |
| port allocation (`minecraft/port_alloc.py`, `api/servers.py`) | ports in `Server` rows | allocate, validate pairs | advisory lock, rebalancer |
| versions, bans, collaborators; Flutter and admin clients | | requests without a protocol of their own | |

What is hard here: rows are checked and inserted in separate statements; the
lock is a Redis lease that may expire, or a local lock that excludes nobody;
two processes run jobs of the same server; handlers run after the lock was
released; files change before rows are committed; processes die between two
steps and nothing recovers their rows. What makes the components correct:

* backup and restore: never lose the only copy of a world, never mix versions
  in an archive, never touch the world under a running server, keep a completed
  backup, finish every job, resume held saves;
* nodes: at most one process per server, no placement on a dead node, a
  migration keeps a server's data, a reachable node comes back online;
* billing: a payment is applied once and never forgotten, what was paid for is
  not taken away, a renewed server can start, an expired one is stopped;
* hosting: row, container, route and revision agree, provisioning ends, the
  history tells what ran, databases are dumped every day;
* network: no two servers share a port of a node, an address leads to its server;
* store: what the owner was told is installed or set is there, and a server is
  launched from complete programs.

## Backup and restore

All rows, files and locks of `orchestrator/backup.py` belong to one game server,
so one server is modelled.

* `BackupState`: the variables, the thread pool, the per-server lock, the
  orchestrator's calls, retention's selection and the types.
* `BackupJobs`: `run_backup_job`, one action per stretch between two effects that
  another process can see (a commit, a file operation, a call to the node):
  `AdmitBackup`, `Inspect`, `SaveHold`, `SaveQuery`, `StopForBackup`, `OpenTar`,
  `CloseTar`, `ResumeServer`, `StoreArchive`, `CompleteBackup`, `RetainUnlink`,
  `RetainCommit`; its handler `RecoverServer`, `FailBackup`; its `finally`.
* `RestoreJobs`: `run_restore_job` in the same way: `ValidateBackup`,
  `StopForRestore`, `Extract`, `SwapOut`, `SwapIn`, `CopyConfig`, `RestartServer`,
  `CompleteRestore`, `DropRollback`; its handler `HandleError`, `SetAside`,
  `PutBack`, `FailRestore`, `ReviveServer`.
* `BackupRestore`: composes both with the API (`CheckBackup`/`InsertBackup`,
  `CheckRestore`/`InsertRestore`, `DeleteFiles`/`ApplyRetention`/`CommitDeleted`),
  the dispatcher (`CheckSchedule`), the game server that writes its world, its
  users, and processes that die. Properties and fairness are here.
`pc[j]` is the place of job `j` in its function; `Critical` are the places between
the acquisition and the release of the lock. Database rows are functions from ids
to status; the archive, the `.tmp` file and the three directories of a restore are
functions from ids to what is in them. World contents are version numbers: each
write of the running server makes a version never used before, and an archive
made across a write is `Torn`. An exception is a jump to the handler: `Raise`
leaves the `with` block, so the lock is released first, as in the code. A check
and the insert that follows it are two actions, because the session is not
serializable and no constraint backs the check.

The constant `Env` says what the surroundings may do: Redis unreachable, a lease
that runs out under a working job, a process killed, disk errors, node calls that
raise (with or without effect), users who start and stop, users who delete. Each
run picks the set its question is about, and the proofs hold for every set or
name the ones they exclude.

## Billing

One server's subscriptions; different servers share nothing but the worker loop.

* `BillingState`: rows (`subs`, in the order of `created_at`), the date, the
  expiration pass and the start check. The pass is `ExpireLoad` (both queries),
  `ExpireStop`, `ExpireCommit`. Sessions are made with `autoflush=False`, so the
  second query does not see the rows the first one moved: they are suspended by a
  later pass at the earliest.
* `Billing`: orders (`CheckOrder`, the call to Razorpay, `InsertOrder`), payment
  (`Capture`), fulfilment by `/verify` or by the webhook (`Load`, `Activate`,
  `RollBack`), and Paddle (`PaddleRead`, `PaddleCommit`, `PaddleFail`).

`Load` stands for the `SELECT ... FOR UPDATE` of the transaction and the plain
`SELECT` of the subscriptions to cancel: what `Activate` cancels is what `Load`
saw. `RowLocks` tells a database on which `FOR UPDATE` locks (PostgreSQL) from one
on which it does nothing (SQLite, the default outside production); an `UPDATE` waits
for the rows of a pass under way. The Paddle handler is a coroutine that does not
await after the body is read, so one event is in hand at a time; that its
`transaction.completed` branch always fails is `BillingTransactionStatus.success`
(`api/billing.py:680`), a member the enumeration does not have. An update event
whose status is `canceled` behaves like a cancel event and is not a kind of its own.

## Fleet

* `FleetState`: rows of nodes and servers, processes, worlds on disks, requests.
  All servers need the same RAM, so the capacity of a node is a number of servers.
* `FleetNodes`: the agent's connection. `RegisterHalt` (the agent stops everything
  before it counts as online), `RegisterOnline`, `Heartbeat` and `LateHeartbeat`
  with the reconciliation of rows in `Beat`, `Finally` (the handler of a lost socket),
  `Watchdog`, `AutoWakeup`, drain, undrain and evacuation.
* `FleetServers`: `CreateServer`; a start as `StartBegin`, `StartAssign`,
  `StartPrepare`, `StartLaunch`, `StartCommit`; stops by the owner, the auto-sleeper
  and an administrator; switch, reprovision, delete, status polls that write the
  row; the rebalancer (`Rescue`, `RebalanceStop`, `RebalanceMove`, `RebalanceWake`,
  `Shutdown`) with cooldown and budget; the owner's migration (`MigrateStop` to
  `MigratePurge`); restarts of the control plane with their reconciliation.
* `Placement`: the abstract specification, nothing but processes and homes. A server
  is started on its home, moves only while it has no process, and a node that is
  powered off hands its servers on at once. A deletion stops a server and takes its
  home away in one step. `Fleet!ImplementsPlacement` is the refinement: `at` is
  `Known`, `home` is the node column.

A start whose answer is lost, or whose row is suspended by a heartbeat sampled before
it, leaves a process that no row tells of. The variable `lost` remembers these servers;
no action reads it, and the constant `History` switches it off where it is not needed.
`Known(n)`, the processes of a node less the lost ones, is what the
three safety properties are about.

`Features` and `Faults` choose what happens. The safety properties hold when requests are
handled one at a time and agents stay connected: `Orderly` (in `FleetProofs`) says one
process of the control plane, faults among `die`, `delay`, `timeout` and `restart`, and
neither drain nor reprovision. Adding one thing at a time shows what they rest on:

| added | lost |
|---|---|
| a second process of the control plane (stale router cache, two starts) | `ImplementsPlacement` |
| broken sockets, handlers that notice late, nodes cut off | `ImplementsPlacement` (a stop that fails is logged and the move goes on) |
| drain, reprovision | `ImplementsPlacement` (rows change under a running process) |
| local disks with the rebalancer | a process runs where its world is not |
| delayed heartbeats, lost answers, restarts of the control plane | nothing, but processes are left behind that nobody knows of |

Liveness, `NodeRecovers` and `GhostSettles`, is checked with every fault, with drain,
reprovision and deletions, and with two processes of the control plane.

## Hosting

One deployment or database: different ones share no row and no container.

* `HostingState`: rows, revisions, containers, the agent's builds, the route.
* `Provisioning`: the thread that builds, polls, starts and commits. The new
  container is started before the old ones are removed (`StartList`, `StartRun`,
  `StartWait`); `Commit` writes what the thread loaded, `Fail` marks the latest
  revision.
* `Deployments`: requests (create, restart, webhook, environment, rollback, connect a
  database), stop, delete and sleep with their calls to the agent as steps of their
  own, the wake proxy, domains, snapshots and their restore.
* `Databases`: the same for a database, manual and daily dumps.

Nothing keeps two requests for a resource apart. `upsets` counts requests that came
while a thread was at work and stops that were lost; `Calm` says there was none. What
the code guards only when requests do not overlap is claimed for calm behaviours;
the revision history (`RanAsRecorded`), the types and both liveness properties are
claimed for all.

## Network

* `Ports`: the transactions that give a server a node and a port: create, start on
  another node, rescue, move, shutdown of a node, each with the advisory lock, the
  pick and the commit with its unique constraint; Bedrock's pair; the owner's
  migration, which keeps the port.
* `GameProxy`: the refresh loop (`Refresh`, `StartListeners`, `StopTcp`, `StopUdp`,
  `UseRoutes`), players over TCP and UDP, wake-ups, a restart of the proxy.

The proxy polls the rows, so the two modules compose by sharing them.

## Store

* `Mods`: an install with its lease, the listing, the resolution of dependencies and
  the agent's download into the live directory; deletion by the mods and by the
  files API.
* `Software`: what a start fetches: JDK, jar, Bedrock distribution, all in caches that
  the servers of a node share without a lock; switches of flavor and version.
* `Settings`: `mc_config` and `server.properties`: what a start writes, `/properties`,
  `/config`, the file editor, each as read, write of `server.tmp` and rename.
* `Store`: all of them, and restarts of the agent.

Where the code has no guard, the servers or versions concerned are marked (`blurred`
mods, `clash` of downloads, `mixed` writers of the properties) and the properties leave
them out; each mark is set in the step where the interference takes place.

## Runs

Deadlock is not checked anywhere: ids, writes, requests and days are finite, and a
system with nothing left to do rightly stops.

| run | bounds | shows |
|---|---|---|
| `healthy` | manual and scheduled backup, restore, 2 writes, deaths | the lock excludes; a restore runs with the server down and takes effect; archives are consistent; retention leaves a backup; the server is stopped only for an intact archive |
| `all` | backup, restore, no writes, every failure | rows keep their types; the two renames and their rollback never lose the only world |
| `deletions` | two backups, restore, deletions and users | a completed row without archive always has a deletion about to commit |
| `live` | two backups, restore, disk errors | each job reaches a final status, held saves are resumed |
| `billing` | two orders, one Paddle subscription, three days, failing commits and stops | a payment is applied once, neither activations nor the expiration pass take away a live subscription |
| `billing_live` | two orders, three days, failing stops | each captured payment is fulfilled |
| `fleet` | 2 servers, 2 nodes with room for one, 1 actor | no node runs more than fits, `Placement` is implemented, no world is removed under a process |
| `fleet_live` | 1 server, 1 node, 2 processes, 1 break, every fault | a reachable node recovers, ghosts are corrected |
| `hosting` | 2 threads, 4 requests, 1 upset | row, container, route, revisions and snapshot agree |
| `hosting_live` | 2 threads, 3 requests, failing calls, forgetful agent | building ends, a database is dumped daily |
| `network` | 3 servers, 2 nodes, 2 transactions, 1 player, 2 requests | ports do not clash, a pick stays free, players reach their server, routes settle |
| `store` | 3 servers, 2 handlers, 3 requests | installed, launched, set: all as told |

Two backups are the least for retention to retire one and for two jobs to compete;
one of them is scheduled, so both processes take part. `Keep` = 1 is the boundary
of the slice. Two writes give an archive a before and an after. One restore is
enough where restores are alone in what they do, and the theorems cover any number.
Two orders are the least for two activations to be concurrent, and days 0 to 2 with
lengths of 1 reach expiry, the grace period and suspension. Two nodes with room for
one server each are the least for a full node and a move; two servers compete for
the room. Larger nodes, on which servers are moved together, are covered by the theorems.
One server and one node are enough for the fleet's liveness, which is stated of each
pair, but for one case listed below. Four requests give a deployment two revisions, a rollback and a
request that overlaps. The Bedrock range holds one pair of ports and another that
overlaps it, and one port is busy, so every way in which a pair can clash occurs;
one player is enough because a session depends on nobody else's. In `store` a mod
has two versions and a dependency, a setting two values besides its default, two servers
share a version of the game, and one
version is no longer offered; three requests are enough for an install, a retry and
an interference. Orders, threads, handlers and the nodes of
the fleet are symmetric in the runs without liveness.

Fairness. A thread of the pool, and a request past its check, goes on: threads are
scheduled by the operating system and nothing in them waits but the lock; the
lock's owner finishes, or dies and Redis drops its key after 3600 s, so weak
fairness of each job's steps and of `LeaseTimeout` is all that `JobsFinish` needs.
Users, deaths and failures have none. In billing, Razorpay delivers until it is
answered 200 (the handler's own comment at `api/billing.py:383` relies on it), the
handlers finish, and the expiration loop goes round; nobody need pay or call
`/verify`. In the fleet, agents reconnect for ever and beat every 5 s, handlers and
loops run. Strong fairness is assumed for one thing, the heartbeat of an offline
node: it may be marked `starting` by wake-ups again and again, but a wake-up comes
with a request and the heartbeat every 5 s. In hosting, threads, builds and the
scheduler's loop go on, and no call has to succeed for `BuildingSettles`; `BackedUpDaily`
says the container stays up, and the dump then works. In the network the refresh
loop runs, transactions need none, and players leave at last: a listener is closed
only when its last player has left, and the whole loop waits for it.

## Proofs

`BackupRestoreProofs` proves, for any sets of ids (the backups finite), any bounds
and any pool size, under `StateAssumption`:

* `TypeCorrect`: `Spec => []TypeOK`. The types alone are not inductive: a restore
  reads `object[src[r]]`, so the invariant is `TypeOK` and `Sourced`, which says
  that a restore past its checks has a backup. One lemma per action.
* `Exclusion`: `Spec => []LockExclusion` when `Env` has neither `redis_down` nor
  `lease_expiry`. Exclusion says nothing of the lock, so what is inductive is
  `Owned`: who is in the critical section owns the key. Every step but those on
  the lock is shown to enter nothing (`NoEntry`); the lock's own steps are treated
  one by one. Deaths are included: the key of a dead job stays until Redis drops
  it. Without Redis two jobs do enter (see below), so the assumption is needed.
* `WorldKept`: `Spec => []WorldNeverLost` with no assumption on `Env`, so also when
  the lock fails and restores overlap. `WorldInv` strengthens it: a restore about
  to swap has a staged world (`Staged`), one about to put back has a rollback
  (`Saved`), none has a rollback before its swap (`Unswapped`), and a missing world
  is in the rollback directory of a restore that is not about to drop it (`Kept`).
  Most steps leave these places alone (`Calm`); the steps of the swap and of its
  handler are treated one by one.

`BackupSafetyProofs` proves the other safety properties, for the same parameters. Each
theorem excludes from `Env` what breaks it; what a run found under the excluded faults is
listed below.

* `ArchivesKept`: `Spec => []CompletedHasArtifact` without `crash` and `io_error`. A job
  completes after it stored its archive (`Archived`), and only rows of jobs that are over
  are deleted (`Ended`, `Condemned`). The lock plays no part: users may delete and
  retain while it fails. A death between the unlink and the commit leaves a row without
  archive, as does an unlink that fails half way.
* `OneIsLeft`: `Spec => []RetentionLeavesOne` without `redis_down`, `lease_expiry`,
  `purge` and `io_error`, so also when processes die, calls fail and users start and stop.
  The newest completed backup is never in the slice that is retired (`NewestKept`), a
  completed row is never taken back (`Settled`), and between unlink and commit a backup
  outside the slice is there (`Survivor`). `Owned` keeps two passes apart.
* `RestoresStopped`, `RestoresEffective`, `StopsForIntact` and, for a Bedrock server,
  `BackupsWhole`: `RestoreNeverWhileRunning`, `RestoreTakesEffect`,
  `StopOnlyForIntactBackup` and `NoTornBackup` where nothing but deaths happens
  (`Env \subseteq {"crash"}`). `HealthyInv` says for each place of a job what it knows of
  the server, the world, the archive and its own directories; by `Owned` nobody else is in the
  critical section to change it, and the handlers, which run without the lock, have
  nothing to undo. A Java server's saves are not held, so its archives may be torn.

`BillingProofs` proves, for any orders, plans, provider ids, lengths and faults, under
`BillingAssumption`:

* `BillingTypes`: `Spec => []BillingTypeOK`, by groups of variables that change
  together, one step per action.
* `AppliedOnce`: `Spec => []PaidOnce` when `RowLocks` holds. `PaidInv` strengthens
  it: an order that has a row is paid (`Billed`), an order a handler has loaded is
  pending (`Held`), one handler at a time has it (`OneHolder`), and an order has one
  row (`Single`). An activation finds its order pending, so it adds the first row.
  Without row locks both handlers load the pending order, so `OneHolder` is lost.
* `EntitlementSafe`: `Spec => EntitlementKept`, with or without row locks. Two facts
  of the state carry it: the rows the expiration pass has read were due and, as dates
  never change, still are at its commit (`Due`); the event in hand has not been
  processed (`Unprocessed`), so a commit of Paddle is never one of the property's steps.

`PlacementProofs` proves of the abstract specification, for any servers and nodes
with `None` not a node: `RunsAtHome`, a process runs on its server's home, and from
it `RunsOnce`, a server has one process at most. `AtHome` is inductive together with
the types.

`FleetProofs` proves `FleetTyped`, the types, under every feature, every fault and any
number of processes of the control plane. For an `Orderly` fleet, with any servers, nodes
and capacity and on shared or local disks, it proves that `FleetInv` is inductive, with
`NoOvercommit` (`FleetInductive`):

* `LinkInv`: an online node has an open socket and can be reached; one that is not
  online runs nothing. With sockets that break this fails, which is why `Orderly`
  excludes them;
* `KnownInv`: the row of a known process names its node, says `running` or is about
  to (`Committing`), and the router's cache does not name another node;
* `JobInv`: a request under way works on a server that has no known process until it
  launches one, and once it has chosen a node that node has room for it among the
  rows that claim a place there. The cache and `JobInv` are where a second
  process of the control plane would interfere.

From it follow `FitsRam` (`NoOvercommit`), `WorldStays` (`WorldNotPulled`, an action
property) and `Refines`: `FleetSpec => ImplementsPlacement`, in which every action is
a `Start`, `Halt`, `Move`, `Vacate` or a stutter. With `Refines`, `RunsAtHome` and
`RunsOnce` are facts about the fleet for every size of it.

`HostingProofs` proves, for any number of threads, requests, upsets, environments and any
faults, under `HostingAssumption`: `HostingTyped`; `RunsRecorded` and `OneActive` under
every interleaving (the second claims uniqueness for calm behaviours only, as the property
does); `TruthfulRow`, `RoutesEnd` and `SnapshotsSound`, which the properties claim for calm
behaviours. Two invariants carry them. `WorkInv`: a thread about to commit has run its
revision (`RanInv`), container ids do not exceed the counter, so a new one is new (`IdsInv`),
the newest revision is active (`ActiveInv`). `CalmInv`: while requests have not overlapped,
at most one thread is at work, and for each of its places `Phase` says what the row,
the containers, the route and the volume are; `AtRest` says it for nobody at work.

`NetworkProofs` proves, for any servers, nodes, threads, ranges and rows at the start that
satisfy `PortsAssumption`, `NoneAssumption` and `StockAssumption`: `NetworkTypes`,
`PortsApart` (`NoPortClash`), `LockCovers` (`PickStaysFree`) and `DialledServer`
(`RightServer`). `NetworkInv` is inductive: who has picked holds the advisory lock
(`Holder`), picks lie in their range (`InRange`) and do not overlap each other
(`PicksApart`), no two rows have the same port on a node (`Unique`, the constraint), and
every table leads Bedrock addresses to Bedrock ports (`TablesOK`). `NoPortClash` leaves
out the servers whose port the owner's migration kept. `AddressOwned` turns it into a
statement about processes: who answers at the address of a row is the row's own, or a
process its own row no longer names (`Stray`).

`StoreProofs` proves, for any servers, releases, flavors, mods, dependencies and requests:
`StoreTyped`; `ProgramsWhole` (`LaunchedWhole`) from `SoftInv`, which says who writes a jar or
unpacks a version and that, outside `clash`, only one request does; `PortsAsTold`
(`ListensWhereTold`) from `ListenInv`, a start past its settings has written its port;
`SettingsKept` (`SettingKept`) from `KeptInv`, a setting under way promises nothing until its
key is in the file. `OneOfEach` and `ToldThere` assume that the lock is in Redis; without
it each process has locks of its own. `InstallInv` carries them: on a server nobody
interfered with the one install under way has the lease, knows the directory (`Knows`), its
download has added what it was to add (`Progress`), and an unfinished jar is being
written (`DiskInv`).

What the theorems do not cover: liveness and fairness (`JobsFinish`, `SavesResumed`,
`PaymentsFulfilled`, `NodeRecovers`, `GhostSettles`, `BuildingSettles`, `BackedUpDaily`,
`RoutesSettle`) is out of the prover's reach and stays model-checked. Every safety run stays within the
hypotheses of the theorems on its properties, so each of these properties is both checked
on the instance and proved for every size.

## Known disagreements

Each of these was met while modelling and reproduced with TLC by a change of
constants, or follows from the lines named. They are not kept as runs.

Backup and restore:
* A restore fails, commits, releases the lock, and starts the server while the next
  restore swaps the world (`backup.py:822`; `docs/backup_restore_architecture.md:463`
  "Restore must never run while the server is running"): two restores and disk
  errors break `RestoreNeverWhileRunning`.
* The restart in a failed backup's handler raises; `except Exception as exc` inside
  the handler deletes the outer `exc`, the next line raises `UnboundLocalError`, and
  the job stays active (`backup.py:605`): `Env = {"rpc_error"}` breaks `JobsFinish`.
* Without Redis `ApiCache.lock` makes a new `threading.Lock` per caller
  (`api_cache.py:117`): `redis_down` breaks `LockExclusion`.
* A lease expires during the retention pass; the release raises, and the handler marks
  failed the backup whose completion retired the previous one (`backup.py:597`):
  `lease_expiry` breaks `RetentionLeavesOne`.
* Two requests can both insert an active job; nothing recovers the rows of a dead
  process; a Java server's saves are not held; a backup can be deleted while it is
  being restored; a process that dies between unlink and commit leaves a completed row
  without archive; a deferred `next_run_at` is not committed unless another schedule of
  the pass is dispatched (`backup.py:899`); two scheduler processes dispatch one
  schedule twice.

Billing:
* A suspended server is renewed; the suspended row stays and forbids each start
  (`billing.py:188`; `billing.py:333` "Renew before starting this server").
* The commit of the webhook fails, the answer is 200, and nobody tries again
  (`api/billing.py:412`): `db_error` breaks `PaymentsFulfilled`.
* `transaction.completed` of Paddle always fails; two orders paid at once leave two live
  subscriptions; a start that passed its check outlives the suspension; a Paddle
  update of a row in its grace period makes it active with a date in the past.

Fleet:
* A start loads a row that says running, and a heartbeat suspends the row meanwhile; the start
  assigns `running` to what it loaded as `running`, so nothing is written
  (`servers.py:1224`, `1257`): the process runs and its row denies it. `lost` keeps such
  servers out of the safety properties; a later heartbeat of the node does not correct it.
* When the watchdog's pass meets a dead node with running rows it raises, and the nodes it
  had still to release from `starting` stay there (`node_capacity.py:242`, `178`): two nodes,
  one of them cut off and one waiting with an open socket, break `NodeRecovers`.
* `suspend_running_servers_on_node` imports a function that does not exist
  (`node_capacity.py:178`), so a node with running rows is never marked offline by the
  watchdog or by the handler of its socket (docstring at `node_capacity.py:220`).
* The owner's migration purges the old node's copy (`servers_migration.py:189`), which on
  a shared file system is the only one; the rebalancer relies on a shared file system
  (`node_rebalancer.py:161`, `251`), so neither setting suits both.
* The rebalancer moves the node of a deployment without stopping its container
  (`node_rebalancer.py:287-305`, `439-441`).

Hosting:
* An image built from GitHub exists only on the node, and a start pulls it
  (`docker_runtime.py:141`), so it fails; a rollback changes the environment only.
* An app that was woken keeps its route to the wake page (`wake_proxy.py:94-95`,
  `ingress.py:120-123`), whose refresh every 5 s provisions again and again; the
  route of the default domain is never removed.
* A stop or delete during provisioning leaves a container nobody knows; overlapping
  requests can leave two active revisions; deployments have no reconciliation.
* A snapshot is refused only in state running (`volumes.py:111`): a failed start may
  have left a container that writes; its restore always fails (`agent.py:2010`, an
  undefined name), as does the force-start of deployments; a Redis dump is not restored.

Network:
* The owner's migration keeps the port (`servers_migration.py:148`): a refused commit, or
  overlapping Bedrock pairs, after which every allocation on the node is refused.
* UDP sessions neither expire nor follow a migrated server (`game_proxy.py:300-308`);
  a listener whose bind failed is not retried, and a connected player holds up the
  refresh of every route (`game_proxy.py:420`); a stale table may lead to another server
  on a reused port. Whether a port is free is tested on the control plane's host.
* SQLite has no advisory lock.

Store:
* A listing that fails counts as an empty directory (`mods.py:154-156`); the control
  plane gives up after 300 s while the agent goes on, and the lease ends then
  too (`mods.py:65`); deleting takes no lock; a jar that a restart cut off counts
  as installed.
* The jar cache is keyed by version only (`agent.py:398`), so a switch of flavor keeps
  the old jar; jars and JDK archives are written in place (`agent.py:403-415`, `314-344`);
  a Bedrock link is never replaced (`agent.py:936`); two installs share `.tmp-{version}`
  (`agent.py:895-899`); Fabric has no provider.
* `/config` of a running server resets settings the request does not name
  (`servers.py:1417-1438`), and of a stopped one never reaches an existing file
  (`agent.py:379-386`); all writers of the properties share one `server.tmp`
  (`java_properties.py:68`); a first start of a Bedrock server writes no `server-portv6`;
  an upload to a node's server fails with 403, the limit is never sent (`agent.py:1490`).

## Not modelled

Backups: errors of the database inside jobs, deletion of a server, checksums and tar
layout (an archive is intact, torn or absent), `skip_if_server_offline` and
`next_run_at`. Billing: signatures, plans' resource limits, `Server.state` (no check
reads it), cached answers, Stripe (its handler only logs). Fleet: RAM of different
sizes, deployments on a node, creation and deletion of nodes, cloud errors. Hosting:
restoring a dump, other fields of a deployment, metrics, logs, the health loop (it
raises at once, `agent.py:143`). Network: the bytes of the protocols, the 60 s cooldown
of wake-ups. Store: listing, upload and download of files, the version catalogue and
its registry, `provision_version` and `sync-config` (nobody calls them). Authentication,
tokens, rate limits, bans, collaborators, consoles, migrations of the schema and both
clients are left out: they take no part in these protocols.

## What could come next

1. A second process of the control plane in the proofs: what of `KnownInv` survives a stale
   router cache and two starts of one server, so that `FitsRam` can do without the first
   conjunct of `Orderly`.
2. `next_run_at`, deferral and two dispatchers of the backup schedules.
3. Deployments on the nodes of the fleet; S3 backups of databases with their restore.
