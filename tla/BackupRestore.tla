---------------------------- MODULE BackupRestore ----------------------------
(***************************************************************************)
(* Backup and restore of one game server: the requests of api/backups.py,  *)
(* the schedule dispatcher, the worker threads of BackupJobs and           *)
(* RestoreJobs, the game server that writes its world, and what may go     *)
(* wrong around them (Env).                                                *)
(***************************************************************************)
EXTENDS BackupJobs, RestoreJobs

Init ==
    /\ bjob = [b \in BackupIds |-> "none"]
    /\ bkp = [b \in BackupIds |-> "none"]
    /\ born = [b \in BackupIds |-> 0]
    /\ rjob = [r \in RestoreIds |-> "none"]
    /\ src = [r \in RestoreIds |-> Absent]
    /\ opts = [j \in Jobs |-> {}]
    /\ checked = {}
    /\ unlinked = {}
    /\ pc = [j \in Jobs |-> "none"]
    /\ lock = Free
    /\ leased = {}
    /\ saveHeld = {} /\ stoppedFor = {} /\ committed = {} /\ wasUp = {} /\ withWorld = {}
    /\ doomed = [b \in BackupIds |-> {}]
    /\ running \in BOOLEAN
    /\ held = FALSE
    /\ writes = 0
    /\ world = 0
    /\ config = Absent
    /\ stage = [r \in RestoreIds |-> Absent]
    /\ rollback = [r \in RestoreIds |-> Absent]
    /\ aside = [r \in RestoreIds |-> Absent]
    /\ temp = [b \in BackupIds |-> Absent]
    /\ object = [b \in BackupIds |-> Absent]

BackupActive == \E b \in BackupIds : bjob[b] \in ActiveBackup
RestoreActive == \E r \in RestoreIds : rjob[r] \in ActiveRestore

-----------------------------------------------------------------------------
\* Requests.  The checks and the insert of a request are separate database
\* statements with nothing that serialises two requests.

\* create_backup up to the insert: with an active restore it answers 409, with
\* an active backup it returns that job.
CheckBackup(b) ==
    /\ b \notin Scheduled
    /\ pc[b] = "none"
    /\ b \notin checked
    /\ ~RestoreActive
    /\ ~BackupActive
    /\ checked' = checked \cup {b}
    /\ UNCHANGED <<rows, unlinked, pc, locking, locals, server, worlds, storage>>

\* dispatch_due_backup_schedules up to the insert: a schedule may defer while a
\* backup is active.  Restores are not looked at.
CheckSchedule(b) ==
    /\ b \in Scheduled
    /\ pc[b] = "none"
    /\ b \notin checked
    /\ Defer => ~BackupActive
    /\ checked' = checked \cup {b}
    /\ UNCHANGED <<rows, unlinked, pc, locking, locals, server, worlds, storage>>

\* The two rows, the commit and the submit to the pool.
InsertBackup(b) ==
    /\ b \in checked
    /\ At(b, "none")
    /\ checked' = checked \ {b}
    /\ bjob' = [bjob EXCEPT ![b] = "pending"]
    /\ bkp' = [bkp EXCEPT ![b] = "pending"]
    /\ born' = [born EXCEPT ![b] = Cardinality({ c \in BackupIds : bkp[c] # "none" }) + 1]
    /\ opts' \in { [opts EXCEPT ![b] = o] : o \in IF b \in Scheduled THEN {{}}
                                                  ELSE {{}, {"offline"}} }
    /\ Goto(b, "queued")
    /\ UNCHANGED <<rjob, src, unlinked, locking, locals, server, worlds, storage>>

\* create_restore up to the insert.
CheckRestore(r, b) ==
    /\ pc[r] = "none"
    /\ r \notin checked
    /\ bkp[b] = "completed"
    /\ ArtifactOK(b)
    /\ ~BackupActive
    /\ ~RestoreActive
    /\ checked' = checked \cup {r}
    /\ src' = [src EXCEPT ![r] = b]
    /\ UNCHANGED <<bjob, bkp, born, rjob, opts, unlinked, pc, locking, locals, server, worlds,
                   storage>>

InsertRestore(r) ==
    /\ r \in checked
    /\ At(r, "none")
    /\ checked' = checked \ {r}
    /\ rjob' = [rjob EXCEPT ![r] = "pending"]
    /\ opts' \in { [opts EXCEPT ![r] = o] : o \in SUBSET {"restart", "rollback"} }
    /\ Goto(r, "queued")
    /\ UNCHANGED <<bjob, bkp, born, src, unlinked, locking, locals, server, worlds, storage>>

\* delete_backup and the retention endpoint: the files go first, the rows are
\* committed after them.  A request whose unlink raises commits nothing.
DeleteFiles(b) ==
    /\ "purge" \in Env
    /\ bkp[b] \in {"completed", "failed"}
    /\ {b} \notin unlinked
    /\ \/ unlinked' = unlinked \cup {{b}}
       \/ "io_error" \in Env /\ UNCHANGED unlinked
    /\ Unlink({b})
    /\ temp' = [temp EXCEPT ![b] = Absent]
    /\ UNCHANGED <<rows, checked, pc, locking, locals, server, worlds>>

ApplyRetention ==
    LET old == Expired(KeepManual)
    IN  /\ "purge" \in Env
        /\ old # {}
        /\ old \notin unlinked
        /\ \/ unlinked' = unlinked \cup {old} /\ Unlink(old)
           \/ /\ "io_error" \in Env
              /\ \E marked, lost \in SUBSET old :
                    PartlyUnlinked(old, marked, lost) /\ Unlink(lost)
              /\ UNCHANGED unlinked
        /\ UNCHANGED <<rows, checked, pc, locking, locals, server, worlds, temp>>

CommitDeleted ==
    \E S \in unlinked :
        /\ bkp' = MarkDeleted(S)
        /\ unlinked' = unlinked \ {S}
        /\ UNCHANGED <<bjob, born, rjob, src, opts, checked, pc, locking, locals, server,
                       worlds, storage>>

-----------------------------------------------------------------------------
\* The game server and its users.

\* A write of the running game server; without a world it generates one.
WriteWorld ==
    /\ running /\ ~held
    /\ writes < MaxWrites
    /\ writes' = writes + 1
    /\ world' = writes + 1
    /\ UNCHANGED <<rows, checked, unlinked, pc, locking, locals, server, config, stage,
                   rollback, aside, storage>>

\* The start, stop and toggle endpoints and the auto-sleeper.
UserLifecycle ==
    /\ "lifecycle" \in Env
    /\ \/ ~running /\ StartServer
       \/ running /\ StopServer
    /\ UNCHANGED <<rows, checked, unlinked, pc, locking, locals, worlds, storage>>

\* A process dies: its queue, its threads and its requests are gone; rows,
\* files and the Redis key stay.
Crash(p) ==
    /\ "crash" \in Env
    /\ pc' = [j \in Jobs |-> IF Home(j) = p /\ pc[j] \notin {"none", "done"}
                             THEN "lost" ELSE pc[j]]
    /\ checked' = { j \in checked : Home(j) # p }
    /\ unlinked' = IF p = "api" THEN {} ELSE unlinked
    /\ UNCHANGED <<rows, locking, locals, server, worlds, storage>>

-----------------------------------------------------------------------------
ApiStep ==
    \/ \E b \in BackupIds : CheckBackup(b) \/ CheckSchedule(b) \/ InsertBackup(b)
    \/ \E r \in RestoreIds : InsertRestore(r) \/ \E b \in BackupIds : CheckRestore(r, b)
    \/ \E b \in BackupIds : DeleteFiles(b)
    \/ ApplyRetention \/ CommitDeleted

Next ==
    \/ ApiStep
    \/ \E b \in BackupIds : BackupStep(b)
    \/ \E r \in RestoreIds : RestoreStep(r)
    \/ LeaseTimeout
    \/ WriteWorld
    \/ UserLifecycle
    \/ \E p \in {"api", "worker"} : Crash(p)

Spec == Init /\ [][Next]_vars

\* Threads and requests that can take a step take it; Redis drops dead leases.
Fairness ==
    /\ \A b \in BackupIds : WF_vars(BackupStep(b)) /\ WF_vars(InsertBackup(b))
    /\ \A r \in RestoreIds : WF_vars(RestoreStep(r)) /\ WF_vars(InsertRestore(r))
    /\ WF_vars(CommitDeleted)
    /\ WF_vars(LeaseTimeout)

FairSpec == Spec /\ Fairness
-----------------------------------------------------------------------------
\* Safety.

\* The world directory is missing only while some restore's rollback directory
\* still holds a world: whatever fails, two renames never lose the only copy
\* (run_restore_job's swap and its handler).
WorldNeverLost == world = Absent => \E r \in RestoreIds : rollback[r] # Absent

\* Two jobs are never both between the acquisition and the release of
\* server_backup_restore_lock.
LockExclusion ==
    \A i, j \in Jobs : pc[i] \in Critical /\ pc[j] \in Critical => i = j

\* A backup listed as completed has its archive, or a deletion that removed the
\* archive is about to commit (completion, the finally block, retention and
\* delete_backup together).
CompletedHasArtifact ==
    \A b \in BackupIds :
        bkp[b] = "completed" /\ object[b] = Absent
        => b \in UNION unlinked \/ \E c \in BackupIds : b \in doomed[c]

\* From the extraction to the last copied file of a restore the game server is
\* down: no handler, job or request has started it.
RestoreNeverWhileRunning ==
    \A r \in RestoreIds : pc[r] \in {"extract", "swapout", "swapin", "copycfg"} => ~running

\* A completed backup is one version of the world, never a mix of two.
NoTornBackup == \A b \in BackupIds : bkp[b] = "completed" => object[b] # Torn

\* A backup that was retired leaves a completed one behind: retention keeps the
\* newest, and the job whose completion retired it does not take that back.
RetentionLeavesOne == (\E b \in BackupIds : bkp[b] = "deleted") => Completed # {}

\* A restore that completes leaves the backup's world in place (a restarted
\* server may have written to it since) and the backup's configuration.
RestoreTakesEffect ==
    [][\A r \in RestoreIds :
          rjob'[r] = "completed" /\ rjob[r] # "completed" =>
             /\ config = src[r]
             /\ "restart" \in opts[r] \/ world = object[src[r]]]_vars

\* A restore does not stop the server for a backup whose archive is gone.
StopOnlyForIntactBackup ==
    [][\A r \in RestoreIds :
          pc[r] = "stopping" /\ pc'[r] = "extract" => ArtifactOK(src[r])]_vars

-----------------------------------------------------------------------------
\* Liveness.

\* Every job that is recorded as active reaches a final status.
JobsFinish ==
    /\ \A b \in BackupIds : bjob[b] \in ActiveBackup ~> bjob[b] \notin ActiveBackup
    /\ \A r \in RestoreIds : rjob[r] \in ActiveRestore ~> rjob[r] \notin ActiveRestore

\* Saves held for a backup are resumed.
SavesResumed == held ~> ~held
=============================================================================
