---------------------------- MODULE BackupState ----------------------------
(***************************************************************************)
(* State shared by the backup worker, the restore worker and the backup    *)
(* API of one game server (orchestrator/backup.py, api/backups.py,         *)
(* services/api_cache.py).  All rows, files and locks of that code are     *)
(* per server, so one server is modelled.                                  *)
(*                                                                         *)
(* World contents are abstracted to version numbers: every write of the    *)
(* running game server gives the world a version never used before.        *)
(***************************************************************************)
EXTENDS Naturals, FiniteSets

CONSTANTS
    BackupIds,      \* ids of Backup rows; each has exactly one BackupJob
    RestoreIds,     \* ids of RestoreJob rows
    Scheduled,      \* the backups created by the schedule dispatcher
    Threads,        \* backup_worker_threads: pool size of one process
    KeepManual,     \* settings.backup_retention_count
    KeepScheduled,  \* BackupSchedule.retention_count
    Defer,          \* BackupSchedule.defer_if_job_active
    MaxWrites,      \* bound on the writes of the game server
    IsJava,         \* is_java_flavor(server.flavor)
    Env,            \* what the environment of the workers may do
    Free,           \* the Redis key lock:backup:{server} does not exist
    Absent,         \* no such file or directory
    Torn,           \* contents read while they were being written
    Empty           \* a world directory, or an archive, with no world in it

EnvKinds == { "redis_down",    \* Redis is unreachable for a while
              "lease_expiry",  \* a lock is held for more than 3600 s
              "crash",         \* the API or the worker process is killed
              "io_error",      \* an OSError, a full disk, a bad server_dir
              "rpc_error",     \* an orchestrator call raises, a start without a subscription too
              "lifecycle",     \* users and the auto-sleeper start and stop
              "purge" }        \* users delete backups, apply retention

ASSUME StateAssumption ==
    /\ IsFiniteSet(BackupIds)
    /\ Scheduled \subseteq BackupIds
    /\ BackupIds \cap RestoreIds = {}
    /\ Threads \in Nat \ {0}
    /\ KeepManual \in Nat \ {0}
    /\ KeepScheduled \in Nat \ {0}
    /\ Defer \in BOOLEAN
    /\ MaxWrites \in Nat
    /\ IsJava \in BOOLEAN
    /\ Env \subseteq EnvKinds
    /\ Free \notin BackupIds \cup RestoreIds
    /\ Absent \notin Nat
    /\ Torn \notin Nat
    /\ Empty \notin Nat
    /\ Absent # Torn /\ Absent # Empty /\ Torn # Empty
    /\ Absent \notin BackupIds

Jobs == BackupIds \cup RestoreIds

\* The process whose thread pool runs the job: the API process for what a
\* request submits, the worker process for what the dispatcher submits.
Home(j) == IF j \in Scheduled THEN "worker" ELSE "api"

Versions == 0 .. MaxWrites
Contents == Versions \cup {Absent, Torn, Empty}

ActiveBackup == { "pending", "running", "held_saves", "compressing", "verifying" }
BackupJobStatus == ActiveBackup \cup { "none", "completed", "failed" }
BackupRowStatus == { "none", "pending", "running", "completed", "failed", "deleted" }

ActiveRestore == { "pending", "running", "validating_backup", "stopping_server",
                   "extracting", "validating_restore", "swapping", "starting_server" }
RestoreStatus == ActiveRestore \cup { "none", "completed", "failed", "rolled_back" }

VARIABLES
    \* database rows
    bjob,       \* BackupJob.status
    bkp,        \* Backup.status
    born,       \* creation order of the Backup rows (created_at)
    rjob,       \* RestoreJob.status
    src,        \* RestoreJob.backup_id
    opts,       \* job options: the force_offline, restart and rollback flags set
    \* requests and threads
    checked,    \* requests that passed the API's checks and have not inserted
    unlinked,   \* requests that removed the files of a set of backups and have
                \* not committed their rows: those sets
    pc,         \* where the thread of a job is
    lock,       \* owner of the Redis key, or Free
    leased,     \* jobs whose lock object is a Redis lock (not a local one)
    saveHeld,   \* run_backup_job's save_held
    stoppedFor, \* run_backup_job's stopped_for_backup
    committed,  \* run_backup_job's completed
    doomed,     \* what the retention pass of a job marked before its commit
    wasUp,      \* server_was_running of either kind of job
    withWorld,  \* run_backup_job's includes contains the world directory
    \* the game server and its files
    running,    \* the game server process is active
    held,       \* the game server holds its saves
    writes,     \* versions used so far
    world,      \* contents of the active world directory
    config,     \* the backup server.properties & co. were restored from
    stage,      \* runtime/tmp/restore/{job}
    rollback,   \* runtime/tmp/rollback/{job}
    aside,      \* {world}.failed-restore-{job}
    \* backup storage
    temp,       \* {backup}.tar.gz.tmp
    object      \* {backup}.tar.gz and its .sha256 sidecar

rows     == <<bjob, bkp, born, rjob, src, opts>>
locking  == <<lock, leased>>
locals   == <<saveHeld, stoppedFor, committed, doomed, wasUp, withWorld>>
server   == <<running, held>>
worlds   == <<writes, world, config, stage, rollback, aside>>
storage  == <<temp, object>>
vars == <<rows, checked, unlinked, pc, locking, locals, server, worlds, storage>>

BackupPC == { "inspect", "hold", "query", "stop", "opentar", "read", "resume",
              "store", "complete", "retain", "retained" }
RestorePC == { "validate", "stopping", "extract", "swapout", "swapin", "copycfg",
               "restart", "finish", "cleanup" }
\* Between acquiring and releasing the per-server lock.
Critical == BackupPC \cup RestorePC \cup { "admit", "unlock", "unwind" }
HandlerPC == { "except", "setaside", "putback", "fail", "failrb", "revive", "finally" }
PC == Critical \cup HandlerPC
        \cup { "none", "queued", "locking", "done", "lost" }

Options == { "offline", "restart", "rollback" }

At(j, l) == pc[j] = l
Goto(j, l) == pc' = [pc EXCEPT ![j] = l]

\* ThreadPoolExecutor(max_workers): a job waits in the queue of its process
\* until one of the pool's threads is free; waiting for the lock keeps a thread.
Busy(p) == { j \in Jobs : Home(j) = p /\ pc[j] \notin {"none", "queued", "done", "lost"} }
Begin(j) ==
    /\ At(j, "queued")
    /\ Cardinality(Busy(Home(j))) < Threads
    /\ Goto(j, "locking")
    /\ UNCHANGED <<rows, checked, unlinked, locking, locals, server, worlds, storage>>

\* Mutant: the lock is asked for without blocking, and the answer is ignored.
Acquire_NonBlocking(j) ==
    /\ At(j, "locking")
    /\ lock' = IF lock = Free THEN j ELSE lock
    /\ leased' = IF lock = Free THEN leased \cup {j} ELSE leased
    /\ Goto(j, "admit")
    /\ UNCHANGED <<rows, checked, unlinked, locals, server, worlds, storage>>

\* server_backup_restore_lock(...).__enter__: the Redis lock blocks until it is
\* free.  With Redis unreachable the cache hands out a fresh threading.Lock,
\* which excludes nobody, or the acquire itself raises.
Acquire(j) ==
    /\ At(j, "locking")
    /\ \/ /\ lock = Free
          /\ lock' = j
          /\ leased' = leased \cup {j}
          /\ Goto(j, "admit")
       \/ /\ "redis_down" \in Env
          /\ Goto(j, "admit")
          /\ UNCHANGED locking
       \/ /\ "redis_down" \in Env
          /\ Goto(j, "except")
          /\ UNCHANGED locking
    /\ UNCHANGED <<rows, checked, unlinked, locals, server, worlds, storage>>

\* The lock's __exit__: the release of a lease that has expired (or that Redis
\* cannot be asked about) raises, and the exception reaches the job's handler.
Exit(j, next) ==
    /\ \/ /\ j \in leased
          /\ lock = j
          /\ lock' = Free
          /\ Goto(j, next)
       \/ /\ j \in leased
          /\ lock # j \/ "redis_down" \in Env
          /\ UNCHANGED lock
          /\ Goto(j, "except")
       \/ /\ j \notin leased
          /\ UNCHANGED lock
          /\ Goto(j, next)
    /\ UNCHANGED leased
    /\ UNCHANGED <<rows, checked, unlinked, locals, server, worlds, storage>>
Unlock(j) == At(j, "unlock") /\ Exit(j, "finally")
Unwind(j) == At(j, "unwind") /\ Exit(j, "except")

\* The key's timeout: Redis drops a lease nobody releases.
LeaseTimeout ==
    /\ lock # Free
    /\ "lease_expiry" \in Env \/ pc[lock] \notin Critical
    /\ lock' = Free
    /\ UNCHANGED <<rows, checked, unlinked, pc, leased, locals, server, worlds, storage>>

\* Orchestrator calls.  A start stops the old process first; a call that raises
\* may have taken effect on the node.
StartServer == running' = TRUE /\ held' = FALSE
StopServer == running' = FALSE /\ held' = FALSE
StartRaises == "rpc_error" \in Env /\ (UNCHANGED server \/ StopServer \/ StartServer)
StopRaises == "rpc_error" \in Env /\ (UNCHANGED server \/ StopServer)

\* _save_resume_best_effort: errors are swallowed.
SaveResume ==
    \/ running /\ held' = FALSE /\ UNCHANGED running
    \/ ~running /\ UNCHANGED server
    \/ "rpc_error" \in Env /\ UNCHANGED server

\* apply_backup_retention's selection: completed backups, newest first, without
\* the first keep of them.  (No operation of the repository pins a backup.)
Completed == { b \in BackupIds : bkp[b] = "completed" }
\* Mutant: the slice starts one backup too early.
Expired_OffByOne(keep) ==
    { b \in Completed : Cardinality({ c \in Completed : born[c] > born[b] }) + 1 >= keep }
Expired(keep) ==
    { b \in Completed : Cardinality({ c \in Completed : born[c] > born[b] }) >= keep }

\* verify_backup_artifact: object and sidecar exist and match the row.
ArtifactOK(b) == object[b] # Absent

\* Types, by the groups of variables above.
RowsOK ==
    /\ bjob \in [BackupIds -> BackupJobStatus]
    /\ bkp \in [BackupIds -> BackupRowStatus]
    /\ born \in [BackupIds -> Nat]
    /\ rjob \in [RestoreIds -> RestoreStatus]
    /\ src \in [RestoreIds -> BackupIds \cup {Absent}]
    /\ opts \in [Jobs -> SUBSET Options]
ThreadsOK ==
    /\ checked \in SUBSET Jobs
    /\ unlinked \in SUBSET SUBSET BackupIds
    /\ pc \in [Jobs -> PC]
    /\ lock \in Jobs \cup {Free}
    /\ leased \in SUBSET Jobs
LocalsOK ==
    /\ saveHeld \in SUBSET BackupIds
    /\ stoppedFor \in SUBSET BackupIds
    /\ committed \in SUBSET BackupIds
    /\ doomed \in [BackupIds -> SUBSET BackupIds]
    /\ wasUp \in SUBSET Jobs
    /\ withWorld \in SUBSET BackupIds
ServerOK ==
    /\ running \in BOOLEAN
    /\ held \in BOOLEAN
FilesOK ==
    /\ writes \in Versions
    /\ world \in Contents
    /\ config \in BackupIds \cup {Absent}
    /\ stage \in [RestoreIds -> Contents]
    /\ rollback \in [RestoreIds -> Contents]
    /\ aside \in [RestoreIds -> Contents]
    /\ temp \in [BackupIds -> Contents]
    /\ object \in [BackupIds -> Contents]
TypeOK == RowsOK /\ ThreadsOK /\ LocalsOK /\ ServerOK /\ FilesOK
=============================================================================
