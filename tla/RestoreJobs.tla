---------------------------- MODULE RestoreJobs ----------------------------
(***************************************************************************)
(* run_restore_job: the thread that puts one backup's world in place of    *)
(* the active one, and back when that fails.                               *)
(***************************************************************************)
EXTENDS BackupState

RaiseRestore(r) == Goto(r, "unwind")
Phase(r, status) == rjob' = [rjob EXCEPT ![r] = status]

\* os.replace of a directory: the target must not be a directory with files.
Replaceable == world \in {Absent, Empty}

\* Refuse while a backup is active, mark the job running.
AdmitRestore(r) ==
    /\ At(r, "admit")
    /\ IF \E b \in BackupIds : bjob[b] \in ActiveBackup
       THEN RaiseRestore(r) /\ UNCHANGED rjob
       ELSE Phase(r, "running") /\ Goto(r, "validate")
    /\ UNCHANGED <<bjob, bkp, born, src, opts, checked, unlinked, locking, locals, server,
                   worlds, storage>>

\* Mutant: the worker relies on the checks of create_restore.
ValidateBackup_Trusting(r) ==
    /\ At(r, "validate")
    /\ wasUp' = IF running THEN wasUp \cup {r} ELSE wasUp
    /\ Phase(r, "validating_backup")
    /\ Goto(r, "stopping")
    /\ UNCHANGED <<bjob, bkp, born, src, opts, checked, unlinked, locking, saveHeld,
                   stoppedFor, committed, doomed, withWorld, server, worlds, storage>>

\* The backup must be completed, its object intact and hold a
\* world (for Bedrock an empty worlds directory counts); then is_running.
ValidateBackup(r) ==
    /\ At(r, "validate")
    /\ LET ok == /\ bkp[src[r]] = "completed"
                 /\ ArtifactOK(src[r])
                 /\ IsJava => object[src[r]] # Empty
       IN  \/ /\ ok
              /\ wasUp' = IF running THEN wasUp \cup {r} ELSE wasUp
              /\ Goto(r, "stopping")
           \/ /\ ~ok \/ {"io_error", "rpc_error"} \cap Env # {}
              /\ RaiseRestore(r)
              /\ UNCHANGED wasUp
    /\ Phase(r, IF bkp[src[r]] = "completed" THEN "validating_backup" ELSE "running")
    /\ UNCHANGED <<bjob, bkp, born, src, opts, checked, unlinked, locking, saveHeld,
                   stoppedFor, committed, doomed, withWorld, server, worlds, storage>>

\* Mutant: the server is stopped only when it is to be restarted.
StopForRestore_IfRestart(r) ==
    /\ At(r, "stopping")
    /\ Phase(r, "stopping_server")
    /\ IF r \in wasUp /\ "restart" \in opts[r] THEN StopServer ELSE UNCHANGED server
    /\ Goto(r, "extract")
    /\ UNCHANGED <<bjob, bkp, born, src, opts, checked, unlinked, locking, locals, worlds,
                   storage>>

StopForRestore(r) ==
    /\ At(r, "stopping")
    /\ Phase(r, "stopping_server")
    /\ \/ r \in wasUp /\ StopServer /\ Goto(r, "extract")
       \/ r \notin wasUp /\ UNCHANGED server /\ Goto(r, "extract")
       \/ r \in wasUp /\ StopRaises /\ RaiseRestore(r)
    /\ UNCHANGED <<bjob, bkp, born, src, opts, checked, unlinked, locking, locals, worlds,
                   storage>>

\* The archive is opened again, after it was verified.
Extract(r) ==
    /\ At(r, "extract")
    /\ \/ /\ ArtifactOK(src[r])
          /\ stage' = [stage EXCEPT ![r] = object[src[r]]]
          /\ Phase(r, "validating_restore")
          /\ Goto(r, "swapout")
       \/ /\ ~ArtifactOK(src[r]) \/ "io_error" \in Env
          /\ Phase(r, "extracting")
          /\ RaiseRestore(r)
          /\ UNCHANGED stage
    /\ UNCHANGED <<bjob, bkp, born, src, opts, checked, unlinked, locking, locals, server,
                   writes, world, config, rollback, aside, storage>>

\* The active world moves to the rollback directory.
SwapOut(r) ==
    /\ At(r, "swapout")
    /\ Phase(r, "swapping")
    /\ \/ /\ rollback' = [rollback EXCEPT ![r] = world]
          /\ world' = Absent
          /\ Goto(r, "swapin")
       \/ /\ "io_error" \in Env
          /\ RaiseRestore(r)
          /\ UNCHANGED <<rollback, world>>
    /\ UNCHANGED <<bjob, bkp, born, src, opts, checked, unlinked, locking, locals, server,
                   writes, config, stage, aside, storage>>

\* The extracted world moves in; when that fails the old one
\* moves back at once, if nothing has taken its place.
SwapIn(r) ==
    /\ At(r, "swapin")
    /\ \/ /\ Replaceable
          /\ world' = stage[r]
          /\ stage' = [stage EXCEPT ![r] = Absent]
          /\ Goto(r, "copycfg")
          /\ UNCHANGED rollback
       \/ /\ ~Replaceable \/ "io_error" \in Env
          /\ \/ /\ rollback[r] # Absent /\ world = Absent
                /\ world' = rollback[r]
                /\ rollback' = [rollback EXCEPT ![r] = Absent]
             \/ /\ rollback[r] # Absent /\ world = Absent => "io_error" \in Env
                /\ UNCHANGED <<world, rollback>>
          /\ RaiseRestore(r)
          /\ UNCHANGED stage
    /\ UNCHANGED <<rows, checked, unlinked, locking, locals, server, writes, config, aside,
                   storage>>

\* Mutant: the files are copied only for a server that is restarted.
CopyConfig_IfRestart(r) ==
    /\ At(r, "copycfg")
    /\ config' = IF "restart" \in opts[r] THEN src[r] ELSE config
    /\ Goto(r, "restart")
    /\ UNCHANGED <<rows, checked, unlinked, locking, locals, server, writes, world, stage,
                   rollback, aside, storage>>

\* The configuration files are copied over, one by one.
CopyConfig(r) ==
    /\ At(r, "copycfg")
    /\ \/ config' = src[r] /\ Goto(r, "restart")
       \/ "io_error" \in Env /\ config' \in {config, src[r]} /\ RaiseRestore(r)
    /\ UNCHANGED <<rows, checked, unlinked, locking, locals, server, writes, world, stage,
                   rollback, aside, storage>>

RestartServer(r) ==
    /\ At(r, "restart")
    /\ IF "restart" \in opts[r]
       THEN /\ Phase(r, "starting_server")
            /\ \/ StartServer /\ Goto(r, "finish")
               \/ StartRaises /\ RaiseRestore(r)
       ELSE Goto(r, "finish") /\ UNCHANGED <<rjob, server>>
    /\ UNCHANGED <<bjob, bkp, born, src, opts, checked, unlinked, locking, locals, worlds,
                   storage>>

CompleteRestore(r) ==
    /\ At(r, "finish")
    /\ Phase(r, "completed")
    /\ Goto(r, "cleanup")
    /\ UNCHANGED <<bjob, bkp, born, src, opts, checked, unlinked, locking, locals, server,
                   worlds, storage>>

\* Only now is the previous world removed.
DropRollback(r) ==
    /\ At(r, "cleanup")
    /\ rollback' = [rollback EXCEPT ![r] = Absent]
    /\ Goto(r, "unlock")
    /\ UNCHANGED <<rows, checked, unlinked, locking, locals, server, writes, world, config,
                   stage, aside, storage>>

\* Mutant: the handler does not check that there is a world to roll back to.
HandleError_NoExists(r) ==
    /\ At(r, "except")
    /\ Goto(r, IF "rollback" \in opts[r] THEN "setaside" ELSE "fail")
    /\ UNCHANGED <<rows, checked, unlinked, locking, locals, server, worlds, storage>>

\* The handler chooses between rolling back and just failing.
HandleError(r) ==
    /\ At(r, "except")
    /\ Goto(r, IF "rollback" \in opts[r] /\ rollback[r] # Absent THEN "setaside" ELSE "fail")
    /\ UNCHANGED <<rows, checked, unlinked, locking, locals, server, worlds, storage>>

\* The half-restored world is kept beside the active path.
SetAside(r) ==
    /\ At(r, "setaside")
    /\ \/ /\ aside' = [aside EXCEPT ![r] = IF world = Absent THEN @ ELSE world]
          /\ world' = Absent
          /\ Goto(r, "putback")
       \/ /\ "io_error" \in Env
          /\ Goto(r, "fail")
          /\ UNCHANGED <<aside, world>>
    /\ UNCHANGED <<rows, checked, unlinked, locking, locals, server, writes, config, stage,
                   rollback, storage>>

PutBack(r) ==
    /\ At(r, "putback")
    /\ \/ /\ Replaceable
          /\ world' = rollback[r]
          /\ rollback' = [rollback EXCEPT ![r] = Absent]
          /\ Goto(r, "failrb")
       \/ /\ ~Replaceable \/ "io_error" \in Env
          /\ Goto(r, "fail")
          /\ UNCHANGED <<world, rollback>>
    /\ UNCHANGED <<rows, checked, unlinked, locking, locals, server, writes, config, stage,
                   aside, storage>>

\* Mutant: a failed restore gets the status the architecture document names,
\* which the RestoreStatus enum does not have.
FailRestore_ManualReview(r) ==
    /\ \/ At(r, "fail") /\ Phase(r, "needs_manual_review")
       \/ At(r, "failrb") /\ Phase(r, "rolled_back")
    /\ Goto(r, "revive")
    /\ UNCHANGED <<bjob, bkp, born, src, opts, checked, unlinked, locking, locals, server,
                   worlds, storage>>

\* The final status is committed.
FailRestore(r) ==
    /\ \/ At(r, "fail") /\ Phase(r, "failed")
       \/ At(r, "failrb") /\ Phase(r, "rolled_back")
    /\ Goto(r, "revive")
    /\ UNCHANGED <<bjob, bkp, born, src, opts, checked, unlinked, locking, locals, server,
                   worlds, storage>>

\* After that commit, and without the lock, a server that was
\* running is started again; errors are logged.
ReviveServer(r) ==
    /\ At(r, "revive")
    /\ \/ r \in wasUp /\ ~running /\ (StartServer \/ StartRaises)
       \/ (r \notin wasUp \/ running) /\ UNCHANGED server
    /\ Goto(r, "finally")
    /\ UNCHANGED <<rows, checked, unlinked, locking, locals, worlds, storage>>

FinishRestore(r) ==
    /\ At(r, "finally")
    /\ stage' = [stage EXCEPT ![r] = Absent]
    /\ Goto(r, "done")
    /\ UNCHANGED <<rows, checked, unlinked, locking, locals, server, writes, world, config,
                   rollback, aside, storage>>

RestoreStep(r) ==
    \/ Begin(r) \/ Acquire(r) \/ Unlock(r) \/ Unwind(r)
    \/ AdmitRestore(r) \/ ValidateBackup(r) \/ StopForRestore(r) \/ Extract(r)
    \/ SwapOut(r) \/ SwapIn(r) \/ CopyConfig(r) \/ RestartServer(r)
    \/ CompleteRestore(r) \/ DropRollback(r)
    \/ HandleError(r) \/ SetAside(r) \/ PutBack(r) \/ FailRestore(r)
    \/ ReviveServer(r) \/ FinishRestore(r)
=============================================================================
