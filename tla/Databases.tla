----------------------------- MODULE Databases -----------------------------
(***************************************************************************)
(* Managed databases (api/databases.py, api/databases_backups.py,          *)
(* orchestrator/database_backup_scheduler.py): a container like that of a  *)
(* deployment, and dumps of it in S3 that outlive it.                      *)
(***************************************************************************)
EXTENDS Deployments

DbRequest(a) == Idle(a) /\ Db

CreateDatabase(a) ==
    /\ Idle(a) /\ row.state = "none"
    /\ row' = [kind |-> "db", src |-> "image", state |-> "created", env |-> None, port |-> 0]
    /\ Provision(a)
    /\ UNCHANGED <<revs, docker, builds, proxy, dumps>>

\* deploy_template makes one of the two.
DeployTemplate(a) ==
    \/ CreateDatabase(a)
    \/ \E env \in Env : CreateDeployment(a, "image", env)

\* start_database returns at once when the row is running, restart does not.
StartDatabase(a) ==
    /\ DbRequest(a)
    /\ row.state # "running"
    /\ row' = SetState("building")
    /\ Provision(a)
    /\ UNCHANGED <<revs, docker, builds, proxy, dumps>>
RestartDatabase(a) ==
    /\ DbRequest(a)
    /\ row' = SetState("building")
    /\ Provision(a)
    /\ UNCHANGED <<revs, docker, builds, proxy, dumps>>

\* stop_database: the agent first, then the row.
StopDatabase(a) ==
    /\ DbRequest(a)
    /\ Begins(a, "stop", row.state)
    /\ UNCHANGED <<rows, docker, builds, proxy, dumps>>

\* delete_database: container and directory, then the row; dumps are kept.
DeleteDatabase(a) ==
    /\ DbRequest(a)
    /\ Begins(a, "delete", row.state)
    /\ UNCHANGED <<rows, docker, builds, proxy, dumps>>

\* backup_database of the agent runs the dump in the newest container.
ActiveContainer == { c \in box : \A d \in box : d.id <= c.id }
Dumps == ActiveContainer # {}
TriggerBackup(a) ==
    /\ DbRequest(a) /\ Dumps
    /\ saved' = "recent"
    /\ UNCHANGED <<rows, docker, builds, proxy, snap, job, hist>>

\* dispatch_daily_database_backups: the newest dump is older than a day.
\* Mutant: a database without a dump is skipped.
NeedsBackup_SkipFirst == saved = "old"
NeedsBackup == saved # "recent"
DispatchBackup ==
    /\ Db /\ NeedsBackup /\ Dumps
    /\ saved' = "recent"
    /\ UNCHANGED <<rows, docker, builds, proxy, snap, job, hist>>

\* A day passes.
DayPasses ==
    /\ saved = "recent"
    /\ saved' = "old"
    /\ UNCHANGED <<rows, docker, builds, proxy, snap, job, hist>>

DatabaseRequest(a) ==
    \/ DeployTemplate(a) \/ StartDatabase(a) \/ RestartDatabase(a)
    \/ StopDatabase(a) \/ DeleteDatabase(a) \/ TriggerBackup(a)
=============================================================================
