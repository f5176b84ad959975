----------------------------- MODULE BackupJobs -----------------------------
(***************************************************************************)
(* run_backup_job: the thread that produces one backup.  The lock is       *)
(* acquired and released by the operators of BackupState; an exception     *)
(* raised under the lock goes through "unwind", one raised by the release  *)
(* itself goes straight to the handler ("except").                         *)
(***************************************************************************)
EXTENDS BackupState

Raise(b) == Goto(b, "unwind")

\* Refuse while a restore is active, else mark both rows.
AdmitBackup(b) ==
    /\ At(b, "admit")
    /\ IF \E r \in RestoreIds : rjob[r] \in ActiveRestore
       THEN Raise(b) /\ UNCHANGED <<bjob, bkp>>
       ELSE /\ bjob' = [bjob EXCEPT ![b] = "running"]
            /\ bkp' = [bkp EXCEPT ![b] = "running"]
            /\ Goto(b, "inspect")
    /\ UNCHANGED <<born, rjob, src, opts, checked, unlinked, locking, locals, server, worlds, storage>>

\* Mutant: force_offline skips the save hold but does not stop the server.
Inspect_OfflineUnstopped(b) ==
    /\ At(b, "inspect")
    /\ wasUp' = IF running THEN wasUp \cup {b} ELSE wasUp
    /\ withWorld' = IF world # Absent THEN withWorld \cup {b} ELSE withWorld
    /\ Goto(b, IF running /\ "offline" \notin opts[b] THEN "hold" ELSE "opentar")
    /\ UNCHANGED <<rows, checked, unlinked, locking, saveHeld, stoppedFor, committed, doomed,
                   server, worlds, storage>>

\* Directory and disk checks, the paths to include (without a
\* world directory, no world), then is_running decides how to keep it still.
Inspect(b) ==
    /\ At(b, "inspect")
    /\ \/ /\ wasUp' = IF running THEN wasUp \cup {b} ELSE wasUp
          /\ withWorld' = IF world # Absent THEN withWorld \cup {b} ELSE withWorld
          /\ Goto(b, IF ~running THEN "opentar"
                     ELSE IF "offline" \in opts[b] THEN "stop" ELSE "hold")
       \/ /\ {"io_error", "rpc_error"} \cap Env # {}
          /\ Raise(b)
          /\ UNCHANGED <<wasUp, withWorld>>
    /\ UNCHANGED <<rows, checked, unlinked, locking, saveHeld, stoppedFor, committed, doomed,
                   server, worlds, storage>>

\* _try_save_hold's first command.  A Java server has no "save hold".
SaveHold(b) ==
    /\ At(b, "hold")
    /\ \/ /\ running
          /\ held' = (held \/ ~IsJava)
          /\ Goto(b, "query")
       \/ /\ ~running \/ "rpc_error" \in Env
          /\ held' \in {held, held \/ (running /\ ~IsJava)}
          /\ Goto(b, "stop")
    /\ UNCHANGED <<rows, checked, unlinked, locking, locals, running, worlds, storage>>

\* _try_save_hold's second command, and the held_saves status; without it the server is stopped instead.
SaveQuery(b) ==
    /\ At(b, "query")
    /\ \/ /\ running
          /\ saveHeld' = saveHeld \cup {b}
          /\ bjob' = [bjob EXCEPT ![b] = "held_saves"]
          /\ Goto(b, "opentar")
       \/ /\ ~running \/ "rpc_error" \in Env
          /\ Goto(b, "stop")
          /\ UNCHANGED <<saveHeld, bjob>>
    /\ UNCHANGED <<bkp, born, rjob, src, opts, checked, unlinked, locking, stoppedFor,
                   committed, doomed, wasUp, withWorld, server, worlds, storage>>

StopForBackup(b) ==
    /\ At(b, "stop")
    /\ \/ /\ StopServer
          /\ stoppedFor' = stoppedFor \cup {b}
          /\ Goto(b, "opentar")
       \/ StopRaises /\ Raise(b) /\ UNCHANGED stoppedFor
    /\ UNCHANGED <<rows, checked, unlinked, locking, saveHeld, committed, doomed, wasUp, withWorld,
                   worlds, storage>>

\* The first file: the world as the archive begins to read it.
OpenTar(b) ==
    /\ At(b, "opentar")
    /\ bjob' = [bjob EXCEPT ![b] = "compressing"]
    /\ \/ /\ temp' = [temp EXCEPT ![b] = IF b \in withWorld THEN world ELSE Empty]
          /\ b \in withWorld => world # Absent
          /\ Goto(b, "read")
       \/ /\ "io_error" \in Env \/ (b \in withWorld /\ world = Absent)
          /\ Raise(b)
          /\ UNCHANGED temp
    /\ UNCHANGED <<bkp, born, rjob, src, opts, checked, unlinked, locking, locals, server,
                   worlds, object>>

\* The last file: a world that changed meanwhile leaves an
\* archive of mixed contents; one that was moved away fails the copy.
CloseTar(b) ==
    /\ At(b, "read")
    /\ \/ /\ b \in withWorld => temp[b] = world
          /\ Goto(b, "resume")
          /\ UNCHANGED temp
       \/ /\ b \in withWorld /\ world \notin {temp[b], Absent}
          /\ temp' = [temp EXCEPT ![b] = Torn]
          /\ Goto(b, "resume")
       \/ /\ "io_error" \in Env \/ (b \in withWorld /\ world = Absent)
          /\ Raise(b)
          /\ UNCHANGED temp
    /\ UNCHANGED <<rows, checked, unlinked, locking, locals, server, worlds, object>>

ResumeServer(b) ==
    /\ At(b, "resume")
    /\ \/ /\ b \in saveHeld
          /\ SaveResume
          /\ saveHeld' = saveHeld \ {b}
          /\ Goto(b, "store")
          /\ UNCHANGED stoppedFor
       \/ /\ b \notin saveHeld
          /\ b \in stoppedFor
          /\ \/ StartServer /\ stoppedFor' = stoppedFor \ {b} /\ Goto(b, "store")
             \/ StartRaises /\ Raise(b) /\ UNCHANGED stoppedFor
          /\ UNCHANGED saveHeld
       \/ /\ b \notin saveHeld \cup stoppedFor
          /\ Goto(b, "store")
          /\ UNCHANGED <<saveHeld, stoppedFor, server>>
    /\ UNCHANGED <<rows, checked, unlinked, locking, committed, doomed, wasUp, withWorld, worlds, storage>>

\* _commit_local_backup_artifact renames the archive into the
\* store, writes the sidecar and verifies both.
StoreArchive(b) ==
    /\ At(b, "store")
    /\ bjob' = [bjob EXCEPT ![b] = "verifying"]
    /\ \/ /\ object' = [object EXCEPT ![b] = temp[b]]
          /\ temp' = [temp EXCEPT ![b] = Absent]
          /\ Goto(b, "complete")
       \/ /\ "io_error" \in Env
          /\ Raise(b)
          /\ \/ UNCHANGED <<object, temp>>
             \/ /\ object' = [object EXCEPT ![b] = temp[b]]
                /\ temp' = [temp EXCEPT ![b] = Absent]
    /\ UNCHANGED <<bkp, born, rjob, src, opts, checked, unlinked, locking, locals, server,
                   worlds>>

CompleteBackup(b) ==
    /\ At(b, "complete")
    /\ bjob' = [bjob EXCEPT ![b] = "completed"]
    /\ bkp' = [bkp EXCEPT ![b] = "completed"]
    /\ committed' = committed \cup {b}
    /\ Goto(b, "retain")
    /\ UNCHANGED <<born, rjob, src, opts, checked, unlinked, locking, saveHeld, stoppedFor,
                   doomed, wasUp, withWorld, server, worlds, storage>>

Unlink(S) == object' = [b \in BackupIds |-> IF b \in S THEN Absent ELSE object[b]]

\* The loop of apply_backup_retention: newest first, object then sidecar; an
\* unlink that raises leaves the rest, and one backup perhaps without object.
PartlyUnlinked(old, marked, lost) ==
    \E cut \in old : /\ marked = { c \in old : born[c] > born[cut] }
                     /\ lost \in { marked, marked \cup {cut} }

RetainUnlink(b) ==
    /\ At(b, "retain")
    /\ LET old == Expired(IF b \in Scheduled THEN KeepScheduled ELSE KeepManual)
       IN  \/ /\ Unlink(old)
              /\ doomed' = [doomed EXCEPT ![b] = old]
              /\ Goto(b, "retained")
           \/ /\ "io_error" \in Env
              /\ \E marked, lost \in SUBSET old :
                    /\ PartlyUnlinked(old, marked, lost)
                    /\ Unlink(lost)
                    /\ doomed' = [doomed EXCEPT ![b] = marked]
              /\ Raise(b)
    /\ UNCHANGED <<rows, checked, unlinked, locking, saveHeld, stoppedFor, committed, wasUp, withWorld,
                   server, worlds, temp>>

MarkDeleted(S) == [b \in BackupIds |-> IF b \in S THEN "deleted" ELSE bkp[b]]

RetainCommit(b) ==
    /\ At(b, "retained")
    /\ bkp' = MarkDeleted(doomed[b])
    /\ doomed' = [doomed EXCEPT ![b] = {}]
    /\ Goto(b, "unlock")
    /\ UNCHANGED <<bjob, born, rjob, src, opts, checked, unlinked, locking, saveHeld,
                   stoppedFor, committed, wasUp, withWorld, server, worlds, storage>>

\* Mutant: the handler restarts a stopped server but forgets held saves.
RecoverServer_NoResume(b) ==
    /\ At(b, "except")
    /\ IF b \in stoppedFor THEN StartServer \/ StartRaises ELSE UNCHANGED server
    /\ Goto(b, "fail")
    /\ UNCHANGED <<rows, checked, unlinked, locking, locals, worlds, storage>>

\* The handler resumes saves or restarts the server it stopped.  The except
\* clause of that restart binds the handler's own name exc, which Python deletes
\* at the end of the clause: after a restart that raises, the use of exc raises
\* again and the failure is never recorded.
RecoverServer(b) ==
    /\ At(b, "except")
    /\ \/ b \in saveHeld /\ SaveResume /\ Goto(b, "fail")
       \/ b \in stoppedFor \ saveHeld /\ StartServer /\ Goto(b, "fail")
       \/ b \in stoppedFor \ saveHeld /\ StartRaises /\ Goto(b, "finally")
       \/ b \notin saveHeld \cup stoppedFor /\ UNCHANGED server /\ Goto(b, "fail")
    /\ UNCHANGED <<rows, checked, unlinked, locking, locals, worlds, storage>>

\* Mutant: the handler fails the backup and leaves its job as it was.
FailBackup_RowOnly(b) ==
    /\ At(b, "fail")
    /\ bkp' = [MarkDeleted(doomed[b]) EXCEPT ![b] = "failed"]
    /\ doomed' = [doomed EXCEPT ![b] = {}]
    /\ Goto(b, "finally")
    /\ UNCHANGED <<bjob, born, rjob, src, opts, checked, unlinked, locking, saveHeld, stoppedFor,
                   committed, wasUp, withWorld, server, worlds, storage>>

\* Both rows failed; the commit also writes what a retention
\* pass had marked in the same session.
FailBackup(b) ==
    /\ At(b, "fail")
    /\ bjob' = [bjob EXCEPT ![b] = "failed"]
    /\ bkp' = [MarkDeleted(doomed[b]) EXCEPT ![b] = "failed"]
    /\ doomed' = [doomed EXCEPT ![b] = {}]
    /\ Goto(b, "finally")
    /\ UNCHANGED <<born, rjob, src, opts, checked, unlinked, locking, saveHeld, stoppedFor,
                   committed, wasUp, withWorld, server, worlds, storage>>

\* Mutant: the finally block does not look at completed.
FinishBackup_Always(b) ==
    /\ At(b, "finally")
    /\ temp' = [temp EXCEPT ![b] = Absent]
    /\ object' = [object EXCEPT ![b] = Absent]
    /\ Goto(b, "done")
    /\ UNCHANGED <<rows, checked, unlinked, locking, locals, server, worlds>>

\* The finally block removes what did not become a backup.
FinishBackup(b) ==
    /\ At(b, "finally")
    /\ temp' = [temp EXCEPT ![b] = Absent]
    /\ object' = IF b \in committed THEN object ELSE [object EXCEPT ![b] = Absent]
    /\ Goto(b, "done")
    /\ UNCHANGED <<rows, checked, unlinked, locking, locals, server, worlds>>

BackupStep(b) ==
    \/ Begin(b) \/ Acquire(b) \/ Unlock(b) \/ Unwind(b)
    \/ AdmitBackup(b) \/ Inspect(b)
    \/ SaveHold(b) \/ SaveQuery(b) \/ StopForBackup(b)
    \/ OpenTar(b) \/ CloseTar(b) \/ ResumeServer(b)
    \/ StoreArchive(b) \/ CompleteBackup(b) \/ RetainUnlink(b) \/ RetainCommit(b)
    \/ RecoverServer(b) \/ FailBackup(b) \/ FinishBackup(b)
=============================================================================
