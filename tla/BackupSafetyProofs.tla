------------------------- MODULE BackupSafetyProofs -------------------------
(***************************************************************************)
(* What backups and restores promise, for any number of them: a completed  *)
(* backup has its archive, retention leaves one, and with a healthy lock   *)
(* and orchestrator a restore works on a stopped server, takes effect and  *)
(* a Bedrock backup is one version of the world.                           *)
(***************************************************************************)
EXTENDS BackupRestoreProofs, WellFoundedInduction

USE DEF TypeInv, TypeOK, Sourced, rows, locking, locals, server, worlds, storage, Goto, At, Jobs

-----------------------------------------------------------------------------
(* Completed backups have their archives.  The invariant ties the rows to    *)
(* the threads: only a job that has stored its archive completes, and only   *)
(* rows of jobs that are over are ever deleted.                              *)

Over == {"retain", "retained", "unlock", "unwind", "except", "fail", "finally", "done", "lost"}
Final == {"completed", "failed", "deleted"}

Ended == \A b \in BackupIds : bkp[b] \in Final => pc[b] \in Over
Trusted == \A b \in BackupIds : bkp[b] = "completed" => b \in committed
Archived == \A b \in BackupIds : /\ pc[b] \in {"read", "resume", "store"} => temp[b] # Absent
                                 /\ pc[b] = "complete" => object[b] # Absent
Condemned == /\ \A S \in unlinked : \A b \in S : bkp[b] \in Final
             /\ \A c \in BackupIds : \A b \in doomed[c] : bkp[b] \in Final
Retiring == \A b \in BackupIds : doomed[b] # {} => pc[b] = "retained"
ArchiveInv == Ended /\ Trusted /\ Archived /\ Condemned /\ Retiring /\ CompletedHasArtifact

NothingLost == Env \cap {"crash", "io_error"} = {}

\* A step that leaves the rows and the archives alone.
Aloof ==
    /\ UNCHANGED <<bkp, unlinked, committed, doomed, temp, object>>
    /\ \A b \in BackupIds : pc'[b] = pc[b]

LEMMA AloofKeepsArchive == ASSUME ArchiveInv, Aloof PROVE ArchiveInv'
BY DEF ArchiveInv, Ended, Trusted, Archived, Condemned, Retiring, CompletedHasArtifact, Aloof

\* A job that goes on, or ends, without touching a row or an archive.
Onward(b) ==
    /\ UNCHANGED <<bkp, unlinked, committed, doomed, temp, object>>
    /\ \A c \in BackupIds : c # b => pc'[c] = pc[c]
    /\ \/ pc[b] \notin Over \cup {"none"} /\ pc'[b] \in PC \ {"read", "resume", "store", "complete"}
       \/ pc[b] \in {"read", "resume"} /\ pc'[b] \in {"resume", "store"}
       \/ pc[b] \in Over \ {"retained"} /\ pc'[b] \in Over

LEMMA OnwardKeepsArchive ==
  ASSUME ArchiveInv, NEW b \in BackupIds, Onward(b) PROVE ArchiveInv'
<1>1. Ended' /\ Trusted'
  BY DEF ArchiveInv, Ended, Trusted, Onward, Over
<1>2. Archived' /\ Retiring'
  BY DEF ArchiveInv, Archived, Retiring, Onward, Over
<1>3. Condemned' /\ CompletedHasArtifact'
  BY DEF ArchiveInv, Condemned, CompletedHasArtifact, Onward
<1> QED  BY <1>1, <1>2, <1>3 DEF ArchiveInv

\* Rows that are final stay final, and nobody marks others.
LEMMA CondemnedStay ==
  ASSUME ThreadsOK, LocalsOK, Condemned, \A c \in BackupIds : bkp[c] \in Final => bkp'[c] \in Final,
         unlinked' \subseteq unlinked, \A c \in BackupIds : doomed'[c] \subseteq doomed[c]
  PROVE  Condemned'
<1>1. \A S \in unlinked : S \subseteq BackupIds  BY DEF ThreadsOK
<1>2. \A c \in BackupIds : doomed[c] \subseteq BackupIds  BY DEF LocalsOK
<1> QED  BY <1>1, <1>2 DEF Condemned, Final

\* A step of run_backup_job.
LEMMA BackupKeepsArchive ==
  ASSUME NothingLost, TypeInv, ArchiveInv, NEW b \in BackupIds, BackupStep(b)
  PROVE  ArchiveInv'
<1>0. /\ pc \in [Jobs -> PC] /\ bkp \in [BackupIds -> BackupRowStatus] /\ committed \subseteq BackupIds
      /\ doomed \in [BackupIds -> SUBSET BackupIds]
      /\ temp \in [BackupIds -> Contents] /\ object \in [BackupIds -> Contents]
  BY DEF ThreadsOK, RowsOK, LocalsOK, FilesOK
<1>1. CASE Begin(b) \/ Acquire(b) \/ Unlock(b) \/ Unwind(b)
  <2>1. Onward(b)
    BY <1>0, <1>1 DEF Onward, Over, Begin, Acquire, Unlock, Unwind, Exit, PC, Critical, HandlerPC
  <2> QED  BY <2>1, OnwardKeepsArchive
<1>2. CASE Inspect(b) \/ SaveHold(b) \/ SaveQuery(b) \/ StopForBackup(b)
  <2>1. Onward(b)
    BY <1>0, <1>2 DEF Onward, Over, Inspect, SaveHold, SaveQuery, StopForBackup, Raise, PC, Critical, BackupPC
  <2> QED  BY <2>1, OnwardKeepsArchive
<1>3. CASE ResumeServer(b) \/ RecoverServer(b)
  <2>1. Onward(b)
    BY <1>0, <1>3 DEF Onward, Over, ResumeServer, RecoverServer, Raise, PC, Critical, HandlerPC
  <2> QED  BY <2>1, OnwardKeepsArchive
<1>4. CASE AdmitBackup(b)
  <2>1. bkp[b] \notin Final  BY <1>4 DEF ArchiveInv, Ended, AdmitBackup, Over
  <2>2. UNCHANGED <<unlinked, committed, doomed, temp, object>>  BY <1>4 DEF AdmitBackup
  <2>3. /\ bkp'[b] = bkp[b] \/ bkp'[b] = "running"
        /\ \A c \in BackupIds : c # b => bkp'[c] = bkp[c] /\ pc'[c] = pc[c]
        /\ pc[b] = "admit" /\ pc'[b] \in {"unwind", "inspect"}
    BY <1>0, <1>4 DEF AdmitBackup, Raise
  <2>4. Ended' /\ Trusted'  BY <2>1, <2>2, <2>3 DEF ArchiveInv, Ended, Trusted, Final
  <2>5. Archived' /\ Retiring'  BY <2>2, <2>3 DEF ArchiveInv, Archived, Retiring
  <2>6. Condemned'  BY <2>1, <2>2, <2>3, CondemnedStay DEF ArchiveInv
  <2>7. CompletedHasArtifact'  BY <2>1, <2>2, <2>3 DEF ArchiveInv, CompletedHasArtifact, Final
  <2> QED  BY <2>4, <2>5, <2>6, <2>7 DEF ArchiveInv
<1>5. CASE OpenTar(b) \/ CloseTar(b) \/ StoreArchive(b)
  <2>1. UNCHANGED <<bkp, unlinked, committed, doomed>>
    BY <1>5 DEF OpenTar, CloseTar, StoreArchive
  <2>2. /\ \A c \in BackupIds : c # b => pc'[c] = pc[c] /\ temp'[c] = temp[c] /\ object'[c] = object[c]
        /\ pc[b] \notin Over
        /\ pc'[b] \in {"read", "resume", "store"} => temp'[b] # Absent
        /\ pc'[b] = "complete" => object'[b] # Absent
    <3>1. OpenTar(b) => temp'[b] # Absent \/ pc'[b] = "unwind"
      BY <1>0, StateAssumption DEF OpenTar, Raise
    <3>2. CloseTar(b) => temp'[b] # Absent
      BY <1>0, StateAssumption DEF CloseTar, ArchiveInv, Archived
    <3>3. StoreArchive(b) => pc'[b] = "unwind" \/ (pc'[b] = "complete" /\ object'[b] # Absent)
      <4>1. StoreArchive(b) => temp[b] # Absent  BY DEF StoreArchive, ArchiveInv, Archived
      <4>2. StoreArchive(b) => pc' = [pc EXCEPT ![b] = "unwind"]
                               \/ (pc' = [pc EXCEPT ![b] = "complete"] /\ object' = [object EXCEPT ![b] = temp[b]])
        BY DEF StoreArchive, Raise
      <4> QED  BY <1>0, <4>1, <4>2
    <3>4. \A c \in BackupIds : c # b => pc'[c] = pc[c] /\ temp'[c] = temp[c] /\ object'[c] = object[c]
      BY <1>0, <1>5 DEF OpenTar, CloseTar, StoreArchive, Raise
    <3>5. pc[b] \notin Over  BY <1>5 DEF OpenTar, CloseTar, StoreArchive, Over
    <3>6. /\ OpenTar(b) => pc'[b] \in {"read", "unwind"}
          /\ CloseTar(b) => pc'[b] \in {"resume", "unwind"}
      BY <1>0 DEF OpenTar, CloseTar, Raise
    <3> QED  BY <1>5, <3>1, <3>2, <3>3, <3>4, <3>5, <3>6
  <2>3. Ended' /\ Trusted' /\ Archived'
    BY <2>1, <2>2 DEF ArchiveInv, Ended, Trusted, Archived
  <2>4. Condemned'  BY <2>1 DEF ArchiveInv, Condemned
  <2>5. Retiring'  BY <2>1, <2>2 DEF ArchiveInv, Retiring, Over
  <2>6. CompletedHasArtifact'
    BY <2>1, <2>2 DEF ArchiveInv, Ended, CompletedHasArtifact, Final
  <2> QED  BY <2>3, <2>4, <2>5, <2>6 DEF ArchiveInv
<1>6. CASE CompleteBackup(b)
  <2>1. object[b] # Absent  BY <1>6 DEF CompleteBackup, ArchiveInv, Archived
  <2>2. /\ UNCHANGED <<unlinked, doomed, temp, object>> /\ committed' = committed \cup {b}
        /\ bkp'[b] = "completed" /\ pc[b] = "complete" /\ pc'[b] = "retain"
        /\ \A c \in BackupIds : c # b => bkp'[c] = bkp[c] /\ pc'[c] = pc[c]
    BY <1>0, <1>6 DEF CompleteBackup
  <2>3. Ended' /\ Trusted' /\ Archived'
    BY <2>2 DEF ArchiveInv, Ended, Trusted, Archived, Over
  <2>4. Condemned'
    <3>1. \A c \in BackupIds : bkp[c] \in Final => bkp'[c] \in Final  BY <2>2 DEF Final
    <3> QED  BY <2>2, <3>1, CondemnedStay DEF ArchiveInv
  <2>5. Retiring'  BY <2>2 DEF ArchiveInv, Retiring
  <2>6. CompletedHasArtifact'  BY <2>1, <2>2 DEF ArchiveInv, CompletedHasArtifact
  <2> QED  BY <2>3, <2>4, <2>5, <2>6 DEF ArchiveInv
<1>7. CASE RetainUnlink(b)
  <2> DEFINE old == Expired(IF b \in Scheduled THEN KeepScheduled ELSE KeepManual)
  <2>1. /\ object' = [c \in BackupIds |-> IF c \in old THEN Absent ELSE object[c]]
        /\ doomed' = [doomed EXCEPT ![b] = old] /\ pc' = [pc EXCEPT ![b] = "retained"]
        /\ pc[b] = "retain" /\ UNCHANGED <<bkp, unlinked, committed, temp>>
    BY <1>7 DEF RetainUnlink, Unlink, NothingLost
  <2>2. \A c \in old : c \in BackupIds /\ bkp[c] = "completed"  BY DEF Expired, Completed
  <2> HIDE DEF old
  <2>3. doomed'[b] = old /\ \A c \in BackupIds : c # b => doomed'[c] = doomed[c] /\ pc'[c] = pc[c]
    BY <1>0, <2>1
  <2>4. pc'[b] = "retained" /\ \A c \in BackupIds : object'[c] = IF c \in old THEN Absent ELSE object[c]
    BY <1>0, <2>1
  <2>5. Ended' /\ Trusted'  BY <2>1, <2>3, <2>4 DEF ArchiveInv, Ended, Trusted, Over
  <2>6. Archived'
    BY <2>1, <2>2, <2>3, <2>4 DEF ArchiveInv, Ended, Archived, Over, Final
  <2>7. Condemned'  BY <2>1, <2>2, <2>3 DEF ArchiveInv, Condemned, Final
  <2>8. Retiring'  BY <2>1, <2>3, <2>4 DEF ArchiveInv, Retiring
  <2>9. CompletedHasArtifact'
    BY <2>1, <2>3, <2>4 DEF ArchiveInv, Retiring, CompletedHasArtifact
  <2> QED  BY <2>5, <2>6, <2>7, <2>8, <2>9 DEF ArchiveInv
<1>8. CASE RetainCommit(b) \/ FailBackup(b)
  <2>1. /\ UNCHANGED <<unlinked, committed, temp, object>> /\ doomed' = [doomed EXCEPT ![b] = {}]
        /\ \A c \in BackupIds : c # b => pc'[c] = pc[c]
        /\ pc[b] \in Over /\ pc'[b] \in {"unlock", "finally"}
    BY <1>0, <1>8 DEF RetainCommit, FailBackup, Over
  <2>2. \A c \in doomed[b] : bkp'[c] \in {"deleted", "failed"}
    BY <1>0, <1>8 DEF RetainCommit, FailBackup, MarkDeleted
  <2>3. \A c \in BackupIds \ doomed[b] : bkp'[c] = bkp[c] \/ (c = b /\ bkp'[c] = "failed")
    <3>1. RetainCommit(b) => \A c \in BackupIds \ doomed[b] : bkp'[c] = bkp[c]
      BY DEF RetainCommit, MarkDeleted
    <3>2. FailBackup(b) => \A c \in BackupIds \ doomed[b] : bkp'[c] = IF c = b THEN "failed" ELSE bkp[c]
      BY DEF FailBackup, MarkDeleted
    <3> QED  BY <1>8, <3>1, <3>2
  <2>4. doomed'[b] = {} /\ \A c \in BackupIds : c # b => doomed'[c] = doomed[c]
    BY <1>0, <2>1
  <2>5. \A c \in doomed[b] : c \in BackupIds /\ bkp[c] \in Final  BY <1>0 DEF ArchiveInv, Condemned
  <2>6. Ended'  BY <2>1, <2>2, <2>3, <2>5 DEF ArchiveInv, Ended, Over
  <2>7. Trusted'  BY <2>1, <2>2, <2>3 DEF ArchiveInv, Trusted
  <2>8. Archived' /\ Retiring'  BY <2>1, <2>4 DEF ArchiveInv, Archived, Retiring
  <2>9. Condemned'
    <3>1. \A c \in BackupIds : bkp[c] \in Final => bkp'[c] \in Final
      BY <2>2, <2>3 DEF Final
    <3>2. \A S \in unlinked : S \subseteq BackupIds  BY DEF ThreadsOK
    <3> QED  BY <1>0, <2>1, <2>4, <3>1, <3>2 DEF ArchiveInv, Condemned, Final
  <2>10. CompletedHasArtifact'
    BY <2>1, <2>2, <2>3, <2>4 DEF ArchiveInv, CompletedHasArtifact
  <2> QED  BY <2>6, <2>7, <2>8, <2>9, <2>10 DEF ArchiveInv
<1>9. CASE FinishBackup(b)
  <2>1. /\ UNCHANGED <<bkp, unlinked, committed, doomed>>
        /\ \A c \in BackupIds : c # b => pc'[c] = pc[c] /\ temp'[c] = temp[c] /\ object'[c] = object[c]
        /\ pc[b] = "finally" /\ pc'[b] = "done"
        /\ b \in committed => object'[b] = object[b]
    BY <1>0, <1>9 DEF FinishBackup
  <2>2. Ended' /\ Trusted' /\ Archived'
    BY <2>1 DEF ArchiveInv, Ended, Trusted, Archived, Over
  <2>3. Condemned' /\ Retiring'  BY <2>1 DEF ArchiveInv, Condemned, Retiring
  <2>4. CompletedHasArtifact'  BY <2>1 DEF ArchiveInv, Trusted, CompletedHasArtifact
  <2> QED  BY <2>2, <2>3, <2>4 DEF ArchiveInv
<1> QED  BY <1>1, <1>2, <1>3, <1>4, <1>5, <1>6, <1>7, <1>8, <1>9 DEF BackupStep

\* Restores and the environment leave rows and archives of backups alone.
LEMMA RestoreAloof ==
  ASSUME TypeInv, NEW r \in RestoreIds, RestoreStep(r) PROVE Aloof
<1>0. pc \in [Jobs -> PC] /\ r \notin BackupIds  BY StateAssumption DEF ThreadsOK
<1> USE <1>0 DEF Aloof
<1>1. CASE Begin(r) \/ Acquire(r) \/ Unlock(r) \/ Unwind(r)
  BY <1>1 DEF Begin, Acquire, Unlock, Unwind, Exit
<1>2. CASE AdmitRestore(r) \/ ValidateBackup(r) \/ StopForRestore(r) \/ Extract(r)
  BY <1>2 DEF AdmitRestore, ValidateBackup, StopForRestore, Extract, RaiseRestore
<1>3. CASE SwapOut(r) \/ SwapIn(r) \/ CopyConfig(r) \/ RestartServer(r)
  BY <1>3 DEF SwapOut, SwapIn, CopyConfig, RestartServer, RaiseRestore
<1>4. CASE CompleteRestore(r) \/ DropRollback(r) \/ HandleError(r) \/ SetAside(r)
  BY <1>4 DEF CompleteRestore, DropRollback, HandleError, SetAside
<1>5. CASE PutBack(r) \/ FailRestore(r) \/ ReviveServer(r) \/ FinishRestore(r)
  BY <1>5 DEF PutBack, FailRestore, ReviveServer, FinishRestore
<1> QED  BY <1>1, <1>2, <1>3, <1>4, <1>5 DEF RestoreStep

LEMMA WorldAloof ==
  ASSUME TypeInv, LeaseTimeout \/ WriteWorld \/ UserLifecycle \/ UNCHANGED vars PROVE Aloof
BY DEF LeaseTimeout, WriteWorld, UserLifecycle, vars, Aloof

LEMMA RequestAloof ==
  ASSUME TypeInv,
         \/ \E b \in BackupIds : CheckBackup(b) \/ CheckSchedule(b)
         \/ \E r \in RestoreIds : InsertRestore(r) \/ \E b \in BackupIds : CheckRestore(r, b)
  PROVE  Aloof
<1>1. ASSUME NEW b \in BackupIds, CheckBackup(b) \/ CheckSchedule(b) PROVE Aloof
  BY <1>1 DEF CheckBackup, CheckSchedule, Aloof
<1>2. ASSUME NEW r \in RestoreIds, InsertRestore(r) PROVE Aloof
  BY <1>2, StateAssumption DEF InsertRestore, Aloof, ThreadsOK
<1>3. ASSUME NEW r \in RestoreIds, NEW b \in BackupIds, CheckRestore(r, b) PROVE Aloof
  BY <1>3 DEF CheckRestore, Aloof
<1> QED  BY <1>1, <1>2, <1>3

\* Requests that insert or delete backups.
LEMMA ApiKeepsArchive ==
  ASSUME NothingLost, TypeInv, ArchiveInv, ApiStep PROVE ArchiveInv'
<1>0. /\ pc \in [Jobs -> PC] /\ bkp \in [BackupIds -> BackupRowStatus]
      /\ temp \in [BackupIds -> Contents] /\ object \in [BackupIds -> Contents]
      /\ \A S \in unlinked : S \subseteq BackupIds
  BY DEF ThreadsOK, RowsOK, LocalsOK, FilesOK
<1>1. ASSUME NEW b \in BackupIds, InsertBackup(b) PROVE ArchiveInv'
  <2>1. bkp[b] \notin Final  BY <1>1 DEF ArchiveInv, Ended, InsertBackup, Over
  <2>2. /\ UNCHANGED <<unlinked, committed, doomed, temp, object>>
        /\ bkp'[b] = "pending" /\ pc[b] = "none" /\ pc'[b] = "queued"
        /\ \A c \in BackupIds : c # b => bkp'[c] = bkp[c] /\ pc'[c] = pc[c]
    BY <1>0, <1>1 DEF InsertBackup
  <2>3. Ended' /\ Trusted' /\ Archived' /\ Retiring'
    BY <2>1, <2>2 DEF ArchiveInv, Ended, Trusted, Archived, Retiring, Final
  <2>4. Condemned'  BY <2>1, <2>2, CondemnedStay DEF ArchiveInv
  <2>5. CompletedHasArtifact'  BY <2>1, <2>2 DEF ArchiveInv, CompletedHasArtifact
  <2> QED  BY <2>3, <2>4, <2>5 DEF ArchiveInv
<1>2. ASSUME NEW b \in BackupIds, DeleteFiles(b) PROVE ArchiveInv'
  <2>1. bkp[b] \in Final /\ pc[b] \in Over
    BY <1>2 DEF DeleteFiles, Final, ArchiveInv, Ended
  <2>2. /\ UNCHANGED <<bkp, committed, doomed, pc>> /\ unlinked' = unlinked \cup {{b}}
        /\ \A c \in BackupIds : c # b => temp'[c] = temp[c] /\ object'[c] = object[c]
    BY <1>0, <1>2 DEF DeleteFiles, Unlink, NothingLost
  <2>3. Ended' /\ Trusted' /\ Retiring'  BY <2>2 DEF ArchiveInv, Ended, Trusted, Retiring
  <2>4. Archived'  BY <2>1, <2>2 DEF ArchiveInv, Archived, Over
  <2>5. Condemned'  BY <2>1, <2>2 DEF ArchiveInv, Condemned
  <2>6. CompletedHasArtifact'  BY <2>2 DEF ArchiveInv, CompletedHasArtifact
  <2> QED  BY <2>3, <2>4, <2>5, <2>6 DEF ArchiveInv
<1>3. CASE ApplyRetention
  <2> DEFINE old == Expired(KeepManual)
  <2>1. /\ UNCHANGED <<bkp, committed, doomed, pc, temp>> /\ unlinked' = unlinked \cup {old}
        /\ \A c \in BackupIds : object'[c] = IF c \in old THEN Absent ELSE object[c]
    BY <1>3 DEF ApplyRetention, Unlink, NothingLost
  <2>2. \A c \in old : c \in BackupIds /\ bkp[c] = "completed"  BY DEF Expired, Completed
  <2> HIDE DEF old
  <2>3. Ended' /\ Trusted' /\ Retiring'  BY <2>1 DEF ArchiveInv, Ended, Trusted, Retiring
  <2>4. Archived'  BY <2>1, <2>2 DEF ArchiveInv, Archived, Ended, Over, Final
  <2>5. Condemned'  BY <2>1, <2>2 DEF ArchiveInv, Condemned, Final
  <2>6. CompletedHasArtifact'  BY <2>1 DEF ArchiveInv, CompletedHasArtifact
  <2> QED  BY <2>3, <2>4, <2>5, <2>6 DEF ArchiveInv
<1>4. CASE CommitDeleted
  <2>1. PICK S \in unlinked :
           /\ bkp' = MarkDeleted(S) /\ unlinked' = unlinked \ {S}
           /\ UNCHANGED <<committed, doomed, pc, temp, object>>
    BY <1>4 DEF CommitDeleted
  <2>2. \A c \in BackupIds : bkp'[c] = IF c \in S THEN "deleted" ELSE bkp[c]
    BY <2>1 DEF MarkDeleted
  <2>3. \A c \in S : c \in BackupIds /\ bkp[c] \in Final  BY <1>0 DEF ArchiveInv, Condemned
  <2>4. Ended' /\ Trusted' /\ Archived' /\ Retiring'
    BY <2>1, <2>2, <2>3 DEF ArchiveInv, Ended, Trusted, Archived, Retiring
  <2>5. \A c \in BackupIds : bkp[c] \in Final => bkp'[c] \in Final  BY <2>2 DEF Final
  <2>6. Condemned'  BY <2>1, <2>5, CondemnedStay DEF ArchiveInv
  <2>7. CompletedHasArtifact'  BY <2>1, <2>2 DEF ArchiveInv, CompletedHasArtifact
  <2> QED  BY <2>4, <2>6, <2>7 DEF ArchiveInv
<1> QED  BY <1>1, <1>2, <1>3, <1>4, RequestAloof, AloofKeepsArchive DEF ApiStep

\* While no process is killed and no unlink fails, a completed backup has its
\* archive or a request to delete it is about to commit: with or without Redis,
\* with users deleting and retaining as they like, for any number of backups.
THEOREM ArchivesKept ==
  ASSUME NothingLost
  PROVE  Spec => []CompletedHasArtifact
<1>1. Init => ArchiveInv
  BY DEF Init, ArchiveInv, Ended, Trusted, Archived, Condemned, Retiring, CompletedHasArtifact, Final
<1>2. ASSUME TypeInv, ArchiveInv, [Next]_vars PROVE ArchiveInv'
  <2>1. \A p : ~Crash(p)  BY DEF Crash, NothingLost
  <2> QED  BY <1>2, <2>1, ApiKeepsArchive, BackupKeepsArchive, RestoreAloof, WorldAloof, AloofKeepsArchive DEF Next
<1>3. ArchiveInv => CompletedHasArtifact  BY DEF ArchiveInv
<1> QED  BY <1>1, <1>2, <1>3, TypeAlways, PTL DEF Spec

-----------------------------------------------------------------------------
(* Retention leaves a completed backup: the pass counts under the lock, keeps *)
(* at least the newest, and nobody takes a completed backup back meanwhile.   *)

KeepsCompleted == Env \cap {"redis_down", "lease_expiry", "purge", "io_error"} = {}
Safe == {"retain", "retained", "unlock", "finally", "done", "lost"}

Settled == \A b \in BackupIds : bkp[b] = "completed" => pc[b] \in Safe
Marking == \A b \in BackupIds : doomed[b] # {} => pc[b] \in {"retained", "lost"}
Survivor == \A b \in BackupIds :
               pc[b] = "retained" /\ doomed[b] # {} => \E c \in Completed : c \notin doomed[b]
RetentionInv == unlinked = {} /\ Settled /\ Marking /\ Survivor /\ RetentionLeavesOne

\* The newest completed backup has no newer one, so it is among those that are kept.
LEMMA NewestKept ==
  ASSUME RowsOK, NEW k \in Nat \ {0}, Completed # {} PROVE \E n \in Completed : n \notin Expired(k)
<1> DEFINE Newer(b) == { c \in Completed : born[c] > born[b] }
           M == { Cardinality(Newer(b)) : b \in Completed }
           R == { ss \in Nat \X Nat : ss[1] < ss[2] }
<1>1. Completed \subseteq BackupIds /\ \A b \in Completed : born[b] \in Nat  BY DEF Completed, RowsOK
<1>2. IsFiniteSet(Completed)  BY <1>1, StateAssumption, FS_Subset
<1>3. \A b \in Completed : IsFiniteSet(Newer(b)) /\ Cardinality(Newer(b)) \in Nat
  BY <1>2, FS_Subset, FS_CardinalityType
<1>4. M \subseteq Nat /\ M # {}  BY <1>3
<1>5. IsWellFoundedOn(R, Nat)  BY NatLessThanWellFounded DEF OpToRel
<1> HIDE DEF R
<1>6. PICK x \in M : \A y \in M : <<y, x>> \notin R  BY <1>4, <1>5, WFMin
<1>7. PICK n \in Completed : x = Cardinality(Newer(n))  BY <1>6
<1>8. ASSUME NEW c \in Newer(n) PROVE FALSE
  <2>1. c \in Completed /\ Newer(c) \subseteq Newer(n) /\ c \notin Newer(c)  BY <1>1
  <2>2. Cardinality(Newer(c)) \in Nat /\ Cardinality(Newer(n)) \in Nat  BY <1>3, <2>1
  <2>3. Cardinality(Newer(c)) <= Cardinality(Newer(n)) /\ Cardinality(Newer(c)) # Cardinality(Newer(n))
    BY <1>3, <1>8, <2>1, FS_Subset
  <2>4. Cardinality(Newer(c)) \in M  BY <2>1
  <2>5. <<Cardinality(Newer(c)), x>> \in R  BY <1>7, <2>2, <2>3 DEF R
  <2> QED  BY <1>6, <2>4, <2>5
<1>9. Cardinality(Newer(n)) = 0  BY <1>8, FS_EmptySet
<1>10. n \notin Expired(k)  BY <1>9 DEF Expired
<1> QED  BY <1>10

\* A step that leaves the rows alone and takes no completed backup back.
Steady ==
    /\ UNCHANGED <<bkp, unlinked, doomed>>
    /\ \A b \in BackupIds :
          /\ pc[b] \in Safe /\ bkp[b] = "completed" => pc'[b] \in Safe
          /\ pc'[b] = pc[b] \/ (pc'[b] # "retained" /\ pc[b] # "retained") \/ pc'[b] = "lost"
          /\ pc[b] = "lost" => pc'[b] = "lost"

LEMMA SteadyKeeps == ASSUME RetentionInv, Steady PROVE RetentionInv'
<1>1. Completed' = Completed  BY DEF Completed, Steady
<1>2. Settled' /\ Marking'  BY DEF RetentionInv, Settled, Marking, Steady
<1>3. Survivor'  BY <1>1 DEF RetentionInv, Survivor, Steady
<1> QED  BY <1>1, <1>2, <1>3 DEF RetentionInv, RetentionLeavesOne, Steady

LEMMA BackupKeepsRetention ==
  ASSUME KeepsCompleted, TypeInv, Owned, RetentionInv, NEW b \in BackupIds, BackupStep(b)
  PROVE  RetentionInv'
<1>0. /\ pc \in [Jobs -> PC] /\ bkp \in [BackupIds -> BackupRowStatus]
      /\ doomed \in [BackupIds -> SUBSET BackupIds]
  BY DEF ThreadsOK, RowsOK, LocalsOK
<1>1. CASE Begin(b) \/ Acquire(b)
  BY <1>0, <1>1, SteadyKeeps DEF Steady, Safe, Begin, Acquire, KeepsCompleted
<1>2. CASE Unlock(b) \/ Unwind(b)
  <2>1. lock = b  BY <1>2 DEF Owned, Unlock, Unwind, Critical
  <2>2. Steady  BY <1>0, <1>2, <2>1 DEF Steady, Safe, Unlock, Unwind, Exit, KeepsCompleted, RetentionInv, Settled
  <2> QED  BY <2>2, SteadyKeeps
<1>3. CASE Inspect(b) \/ SaveHold(b) \/ SaveQuery(b) \/ StopForBackup(b)
  BY <1>0, <1>3, SteadyKeeps DEF Steady, Safe, Inspect, SaveHold, SaveQuery, StopForBackup, Raise
<1>4. CASE OpenTar(b) \/ CloseTar(b) \/ ResumeServer(b) \/ StoreArchive(b)
  BY <1>0, <1>4, SteadyKeeps DEF Steady, Safe, OpenTar, CloseTar, ResumeServer, StoreArchive, Raise
<1>5. CASE RecoverServer(b) \/ FinishBackup(b)
  BY <1>0, <1>5, SteadyKeeps DEF Steady, Safe, RecoverServer, FinishBackup
<1>6. CASE AdmitBackup(b)
  <2>1. bkp[b] # "completed"  BY <1>6 DEF AdmitBackup, RetentionInv, Settled, Safe
  <2>2. /\ UNCHANGED <<unlinked, doomed>> /\ bkp'[b] \in {bkp[b], "running"}
        /\ pc[b] = "admit" /\ pc'[b] \in {"unwind", "inspect"}
        /\ \A c \in BackupIds : c # b => bkp'[c] = bkp[c] /\ pc'[c] = pc[c]
    BY <1>0, <1>6 DEF AdmitBackup, Raise
  <2>3. Completed' = Completed  BY <2>1, <2>2 DEF Completed
  <2>4. Settled' /\ Marking' /\ Survivor'
    BY <2>1, <2>2, <2>3 DEF RetentionInv, Settled, Marking, Survivor
  <2>5. RetentionLeavesOne'  BY <2>2, <2>3 DEF RetentionInv, RetentionLeavesOne
  <2> QED  BY <2>2, <2>4, <2>5 DEF RetentionInv
<1>7. CASE CompleteBackup(b)
  <2>1. /\ UNCHANGED <<unlinked, doomed>> /\ bkp'[b] = "completed" /\ pc[b] = "complete" /\ pc'[b] = "retain"
        /\ \A c \in BackupIds : c # b => bkp'[c] = bkp[c] /\ pc'[c] = pc[c]
    BY <1>0, <1>7 DEF CompleteBackup
  <2>2. Completed \subseteq Completed' /\ b \in Completed'  BY <2>1 DEF Completed
  <2>3. Settled' /\ Marking' /\ Survivor'
    BY <2>1, <2>2 DEF RetentionInv, Settled, Marking, Survivor, Safe
  <2> QED  BY <2>1, <2>2, <2>3 DEF RetentionInv, RetentionLeavesOne
<1>8. CASE RetainUnlink(b)
  <2> DEFINE keep == IF b \in Scheduled THEN KeepScheduled ELSE KeepManual
  <2>1. /\ doomed' = [doomed EXCEPT ![b] = Expired(keep)] /\ pc' = [pc EXCEPT ![b] = "retained"]
        /\ pc[b] = "retain" /\ UNCHANGED <<bkp, unlinked>>
    BY <1>8 DEF RetainUnlink, KeepsCompleted
  <2>2. Completed' = Completed  BY <2>1 DEF Completed
  <2>3. Expired(keep) # {} => \E c \in Completed : c \notin Expired(keep)
    BY NewestKept, StateAssumption DEF Expired
  <2> HIDE DEF keep
  <2>4. /\ pc'[b] = "retained" /\ doomed'[b] = Expired(keep)
        /\ \A c \in BackupIds : c # b => pc'[c] = pc[c] /\ doomed'[c] = doomed[c]
    BY <1>0, <2>1
  <2>5. Settled' /\ Marking'  BY <2>1, <2>4 DEF RetentionInv, Settled, Marking, Safe
  <2>6. Survivor'  BY <2>1, <2>2, <2>3, <2>4 DEF RetentionInv, Survivor
  <2> QED  BY <2>1, <2>2, <2>5, <2>6 DEF RetentionInv, RetentionLeavesOne
<1>9. CASE RetainCommit(b)
  <2>1. /\ bkp' = MarkDeleted(doomed[b]) /\ doomed' = [doomed EXCEPT ![b] = {}]
        /\ pc' = [pc EXCEPT ![b] = "unlock"] /\ pc[b] = "retained" /\ UNCHANGED unlinked
    BY <1>9 DEF RetainCommit
  <2>2. Completed' = Completed \ doomed[b]  BY <1>0, <2>1 DEF Completed, MarkDeleted
  <2>3. /\ pc'[b] = "unlock" /\ doomed'[b] = {}
        /\ \A c \in BackupIds : c # b => pc'[c] = pc[c] /\ doomed'[c] = doomed[c]
    BY <1>0, <2>1
  <2>4. \A c \in BackupIds : c # b => pc[c] # "retained"
    BY <2>1 DEF Owned, Critical, BackupPC
  <2>5. \A c \in BackupIds : bkp'[c] = "completed" => bkp[c] = "completed"
    BY <2>1 DEF MarkDeleted
  <2>6. Settled' /\ Marking' /\ Survivor'
    BY <2>3, <2>4, <2>5 DEF RetentionInv, Settled, Marking, Survivor, Safe
  <2>7. CASE doomed[b] = {}
    <3>1. bkp' = bkp  BY <1>0, <2>1, <2>7 DEF MarkDeleted
    <3> QED  BY <2>1, <2>2, <2>6, <2>7, <3>1 DEF RetentionInv, RetentionLeavesOne
  <2>8. CASE doomed[b] # {}
    <3>1. Completed' # {}  BY <2>1, <2>2, <2>8 DEF RetentionInv, Survivor
    <3> QED  BY <2>1, <2>6, <3>1 DEF RetentionInv, RetentionLeavesOne
  <2> QED  BY <2>7, <2>8
<1>10. CASE FailBackup(b)
  <2>1. doomed[b] = {} /\ bkp[b] # "completed"
    BY <1>10 DEF FailBackup, RetentionInv, Marking, Settled, Safe
  <2>2. /\ bkp' = [MarkDeleted(doomed[b]) EXCEPT ![b] = "failed"] /\ doomed' = [doomed EXCEPT ![b] = {}]
        /\ pc' = [pc EXCEPT ![b] = "finally"] /\ UNCHANGED unlinked /\ pc[b] = "fail"
    BY <1>10 DEF FailBackup
  <2>3. MarkDeleted(doomed[b]) = bkp  BY <1>0, <2>1 DEF MarkDeleted
  <2>4. /\ bkp'[b] = "failed" /\ pc'[b] = "finally" /\ doomed' = doomed
        /\ \A c \in BackupIds : c # b => bkp'[c] = bkp[c] /\ pc'[c] = pc[c]
    BY <1>0, <2>1, <2>2, <2>3
  <2>5. Completed' = Completed  BY <2>1, <2>4 DEF Completed
  <2>6. Settled' /\ Marking' /\ Survivor'
    BY <2>1, <2>2, <2>4, <2>5 DEF RetentionInv, Settled, Marking, Survivor, Safe
  <2>7. RetentionLeavesOne'  BY <2>4, <2>5 DEF RetentionInv, RetentionLeavesOne
  <2> QED  BY <2>2, <2>6, <2>7 DEF RetentionInv
<1> QED  BY <1>1, <1>2, <1>3, <1>4, <1>5, <1>6, <1>7, <1>8, <1>9, <1>10 DEF BackupStep

LEMMA AloofIsSteady == ASSUME Aloof PROVE Steady
BY DEF Aloof, Steady

LEMMA OthersKeepRetention ==
  ASSUME KeepsCompleted, TypeInv, RetentionInv, ApiStep \/ \E p \in {"api", "worker"} : Crash(p)
  PROVE  RetentionInv'
<1>0. pc \in [Jobs -> PC] /\ bkp \in [BackupIds -> BackupRowStatus]  BY DEF ThreadsOK, RowsOK
<1>1. ASSUME NEW b \in BackupIds, InsertBackup(b) PROVE RetentionInv'
  <2>1. bkp[b] # "completed"  BY <1>1 DEF InsertBackup, RetentionInv, Settled, Safe
  <2>2. /\ UNCHANGED <<unlinked, doomed>> /\ bkp'[b] = "pending" /\ pc[b] = "none" /\ pc'[b] = "queued"
        /\ \A c \in BackupIds : c # b => bkp'[c] = bkp[c] /\ pc'[c] = pc[c]
    BY <1>0, <1>1 DEF InsertBackup
  <2>3. Completed' = Completed  BY <2>1, <2>2 DEF Completed
  <2>4. Settled' /\ Marking' /\ Survivor'
    BY <2>1, <2>2, <2>3 DEF RetentionInv, Settled, Marking, Survivor
  <2>5. RetentionLeavesOne'  BY <2>2, <2>3 DEF RetentionInv, RetentionLeavesOne
  <2> QED  BY <2>2, <2>4, <2>5 DEF RetentionInv
<1>2. ASSUME NEW p, Crash(p) PROVE RetentionInv'
  <2>1. \A b \in BackupIds : pc'[b] = pc[b] \/ pc'[b] = "lost"  BY <1>2 DEF Crash
  <2>2. UNCHANGED <<bkp, doomed>> /\ unlinked' \in {unlinked, {}}  BY <1>2 DEF Crash
  <2>3. Steady  BY <2>1, <2>2 DEF Steady, Safe, RetentionInv
  <2> QED  BY <2>3, SteadyKeeps
<1>3. /\ \A b \in BackupIds : ~DeleteFiles(b)
      /\ ~ApplyRetention /\ ~CommitDeleted
  BY DEF DeleteFiles, ApplyRetention, CommitDeleted, KeepsCompleted, RetentionInv
<1> QED  BY <1>1, <1>2, <1>3, RequestAloof, AloofIsSteady, SteadyKeeps DEF ApiStep

\* With a working lock and store, and as long as users delete nothing themselves,
\* a backup is retired only while a completed one stays: whatever is killed, fails on
\* the node or is started and stopped meanwhile.
THEOREM OneIsLeft ==
  ASSUME KeepsCompleted
  PROVE  Spec => []RetentionLeavesOne
<1>1. Init => RetentionInv
  BY DEF Init, RetentionInv, Settled, Marking, Survivor, RetentionLeavesOne
<1>2. ASSUME TypeInv, Owned, RetentionInv, [Next]_vars PROVE RetentionInv'
  BY <1>2, OthersKeepRetention, BackupKeepsRetention, RestoreAloof, WorldAloof, AloofIsSteady, SteadyKeeps DEF Next
<1>3. RetentionInv => RetentionLeavesOne  BY DEF RetentionInv
<1>4. LockHealthy  BY DEF KeepsCompleted, LockHealthy
<1>5. Spec => []Owned  BY <1>4, OwnedAlways
<1> QED  BY <1>1, <1>2, <1>3, <1>5, TypeAlways, PTL DEF Spec

-----------------------------------------------------------------------------
(* A healthy installation: processes are killed, but Redis, the store and the *)
(* node answer, and users leave the server alone.  Who holds the lock finds   *)
(* the game server and its files as it left them; the handlers of failed      *)
(* jobs, which run without it, have nothing to undo.  A Bedrock server keeps  *)
(* its saves held while its world is read.                                    *)

Healthy == Env \subseteq {"crash"}

BackupFine(b) ==
    /\ bkp[b] = "completed" => b \in committed
    /\ pc[b] \in {"none", "queued", "locking", "admit", "inspect"} => b \notin withWorld
    /\ pc[b] \in {"none", "queued", "locking", "admit", "inspect", "hold", "query", "stop", "unwind", "except"}
       => b \notin saveHeld \cup stoppedFor
    /\ pc[b] \in {"hold", "query", "stop", "opentar", "read"} /\ b \in withWorld => world # Absent
    /\ ~IsJava /\ pc[b] \in {"query", "opentar", "read"} => ~running \/ held
    /\ ~IsJava /\ pc[b] = "read" /\ b \in withWorld => temp[b] = world
Sure == {"stopping", "extract", "swapout", "swapin", "copycfg", "restart", "finish"}
RestoreFine(r) ==
    /\ pc[r] \notin {"setaside", "putback", "failrb"}
    /\ pc[r] \in {"none", "queued", "locking", "admit", "validate", "unwind", "except", "fail", "revive"}
       => r \notin wasUp
    /\ pc[r] \in {"none", "queued", "locking", "admit", "validate", "stopping", "extract", "swapout", "unwind", "except"}
       => rollback[r] = Absent
    /\ pc[r] \in Sure => src[r] \in committed /\ object[src[r]] # Absent
    /\ pc[r] = "stopping" /\ r \notin wasUp => ~running
    /\ pc[r] \in {"extract", "swapout", "swapin", "copycfg", "restart"} => ~running
    /\ pc[r] \in {"swapout", "swapin"} => stage[r] = object[src[r]]
    /\ pc[r] = "swapin" => world = Absent
    /\ pc[r] \in {"restart", "finish"} => config = src[r]
    /\ pc[r] \in {"copycfg", "restart"} => world = object[src[r]]
    /\ pc[r] = "finish" /\ "restart" \notin opts[r] => ~running /\ world = object[src[r]]
Untorn == ~IsJava => world # Torn /\ \A b \in BackupIds : temp[b] # Torn /\ object[b] # Torn
HealthyInv ==
    /\ \A b \in BackupIds : BackupFine(b)
    /\ \A r \in RestoreIds : RestoreFine(r)
    /\ Untorn

\* What a step leaves to the other jobs.
SameBackup(b) ==
    /\ pc'[b] = pc[b] /\ temp'[b] = temp[b]
    /\ b \in saveHeld' <=> b \in saveHeld
    /\ b \in stoppedFor' <=> b \in stoppedFor
    /\ b \in withWorld' <=> b \in withWorld
    /\ bkp'[b] = "completed" => bkp[b] = "completed"
SameRestore(r) ==
    /\ pc'[r] = pc[r] /\ src'[r] = src[r] /\ opts'[r] = opts[r]
    /\ r \in wasUp' <=> r \in wasUp
    /\ stage'[r] = stage[r] /\ rollback'[r] = rollback[r]
Untouched ==
    /\ UNCHANGED <<running, held, world, config>>
    /\ \A b \in committed : object'[b] = object[b]
Apart(j) ==
    /\ \A b \in BackupIds : b # j => SameBackup(b)
    /\ \A r \in RestoreIds : r # j => SameRestore(r)
    /\ committed \subseteq committed'
    /\ pc[j] \in Critical \/ Untouched

LEMMA BackupStays ==
  ASSUME NEW b \in BackupIds, BackupFine(b), SameBackup(b), committed \subseteq committed',
         pc[b] \notin Critical \/ Untouched
  PROVE  BackupFine(b)'
BY DEF BackupFine, SameBackup, Untouched, Critical, BackupPC

LEMMA RestoreStays ==
  ASSUME NEW r \in RestoreIds, RestoreFine(r), SameRestore(r), committed \subseteq committed',
         pc[r] \notin Critical \/ Untouched
  PROVE  RestoreFine(r)'
<1>1. CASE pc[r] \notin Critical
  BY <1>1 DEF RestoreFine, SameRestore, Critical, RestorePC, Sure
<1>2. CASE Untouched
  <2>1. pc[r] \in Sure => object'[src[r]] = object[src[r]]  BY <1>2 DEF RestoreFine, Untouched
  <2> QED  BY <1>2, <2>1 DEF RestoreFine, SameRestore, Untouched, Sure
<1> QED  BY <1>1, <1>2

\* Whoever acts holds the lock or touches nothing: the others are as they were.
LEMMA OthersFine ==
  ASSUME Owned, HealthyInv, NEW j \in Jobs, Apart(j)
  PROVE  /\ \A b \in BackupIds : b # j => BackupFine(b)'
         /\ \A r \in RestoreIds : r # j => RestoreFine(r)'
<1>1. \A k \in Jobs : k # j => pc[k] \notin Critical \/ Untouched
  BY DEF Owned, Apart
<1> QED  BY <1>1, BackupStays, RestoreStays DEF HealthyInv, Apart

LEMMA BackupKeepsHealthy ==
  ASSUME Healthy, TypeInv, Owned, HealthyInv, NEW b \in BackupIds, BackupStep(b)
  PROVE  HealthyInv'
<1>0. /\ pc \in [Jobs -> PC] /\ bkp \in [BackupIds -> BackupRowStatus] /\ committed \subseteq BackupIds
      /\ temp \in [BackupIds -> Contents] /\ object \in [BackupIds -> Contents]
      /\ b \notin RestoreIds /\ b \in Jobs
  BY StateAssumption DEF ThreadsOK, RowsOK, LocalsOK, FilesOK
<1>1. BackupFine(b) /\ Untorn  BY DEF HealthyInv
<1>2. ASSUME Apart(b), BackupFine(b)', Untorn' PROVE HealthyInv'
  BY <1>0, <1>2, OthersFine DEF HealthyInv
<1> USE DEF Healthy
<1>3. CASE Begin(b) \/ Acquire(b)
  <2>1. Apart(b)
    BY <1>0, <1>3 DEF Begin, Acquire, Apart, SameBackup, SameRestore, Untouched
  <2>2. BackupFine(b)' /\ Untorn'
    BY <1>0, <1>1, <1>3 DEF Begin, Acquire, BackupFine, Untorn
  <2> QED  BY <1>2, <2>1, <2>2
<1>4. CASE Unlock(b) \/ Unwind(b)
  <2>0. lock = b  BY <1>4 DEF Owned, Unlock, Unwind, Critical
  <2>1. Apart(b)
    BY <1>0, <1>4 DEF Unlock, Unwind, Exit, Apart, SameBackup, SameRestore, Untouched
  <2>2. BackupFine(b)' /\ Untorn'
    BY <1>0, <1>1, <1>4, <2>0 DEF Unlock, Unwind, Exit, BackupFine, Untorn
  <2> QED  BY <1>2, <2>1, <2>2
<1>5. CASE AdmitBackup(b)
  <2>1. Apart(b)
    BY <1>0, <1>5 DEF AdmitBackup, Raise, Apart, SameBackup, SameRestore, Untouched
  <2>2. BackupFine(b)' /\ Untorn'
    BY <1>0, <1>1, <1>5 DEF AdmitBackup, Raise, BackupFine, Untorn
  <2> QED  BY <1>2, <2>1, <2>2
<1>6. CASE Inspect(b)
  <2>1. Apart(b)
    BY <1>0, <1>6 DEF Inspect, Raise, Apart, SameBackup, SameRestore, Critical, BackupPC
  <2>2. BackupFine(b)' /\ Untorn'
    BY <1>0, <1>1, <1>6 DEF Inspect, Raise, BackupFine, Untorn
  <2> QED  BY <1>2, <2>1, <2>2
<1>7. CASE SaveHold(b) \/ SaveQuery(b)
  <2>1. Apart(b)
    BY <1>0, <1>7 DEF SaveHold, SaveQuery, Apart, SameBackup, SameRestore, Critical, BackupPC
  <2>2. BackupFine(b)' /\ Untorn'
    BY <1>0, <1>1, <1>7 DEF SaveHold, SaveQuery, BackupFine, Untorn
  <2> QED  BY <1>2, <2>1, <2>2
<1>8. CASE StopForBackup(b)
  <2>1. Apart(b)
    BY <1>0, <1>8 DEF StopForBackup, Raise, Apart, SameBackup, SameRestore, Critical, BackupPC
  <2>2. BackupFine(b)' /\ Untorn'
    BY <1>0, <1>1, <1>8 DEF StopForBackup, StopServer, StopRaises, Raise, BackupFine, Untorn
  <2> QED  BY <1>2, <2>1, <2>2
<1>9. CASE OpenTar(b)
  <2>1. Apart(b)
    BY <1>0, <1>9 DEF OpenTar, Raise, Apart, SameBackup, SameRestore, Critical, BackupPC
  <2>2. BackupFine(b)' /\ Untorn'
    BY <1>0, <1>1, <1>9, StateAssumption DEF OpenTar, Raise, BackupFine, Untorn
  <2> QED  BY <1>2, <2>1, <2>2
<1>10. CASE CloseTar(b)
  <2>1. Apart(b)
    BY <1>0, <1>10 DEF CloseTar, Raise, Apart, SameBackup, SameRestore, Critical, BackupPC
  <2>2. BackupFine(b)' /\ Untorn'
    BY <1>0, <1>1, <1>10 DEF CloseTar, Raise, BackupFine, Untorn
  <2> QED  BY <1>2, <2>1, <2>2
<1>11. CASE ResumeServer(b)
  <2>1. Apart(b)
    BY <1>0, <1>11 DEF ResumeServer, Raise, Apart, SameBackup, SameRestore, Critical, BackupPC
  <2>2. BackupFine(b)' /\ Untorn'
    BY <1>0, <1>1, <1>11 DEF ResumeServer, StartRaises, Raise, BackupFine, Untorn
  <2> QED  BY <1>2, <2>1, <2>2
<1>12. CASE StoreArchive(b)
  <2>1. Apart(b)
    BY <1>0, <1>12 DEF StoreArchive, Raise, Apart, SameBackup, SameRestore, Critical, BackupPC
  <2>2. BackupFine(b)' /\ Untorn'
    BY <1>0, <1>1, <1>12, StateAssumption DEF StoreArchive, Raise, BackupFine, Untorn
  <2> QED  BY <1>2, <2>1, <2>2
<1>13. CASE CompleteBackup(b)
  <2>1. Apart(b)
    BY <1>0, <1>13 DEF CompleteBackup, Apart, SameBackup, SameRestore, Critical, BackupPC
  <2>2. BackupFine(b)' /\ Untorn'
    BY <1>0, <1>1, <1>13 DEF CompleteBackup, BackupFine, Untorn
  <2> QED  BY <1>2, <2>1, <2>2
<1>14. CASE RetainUnlink(b)
  <2>1. Apart(b)
    BY <1>0, <1>14 DEF RetainUnlink, Raise, Apart, SameBackup, SameRestore, Critical, BackupPC
  <2>2. BackupFine(b)' /\ Untorn'
    BY <1>0, <1>1, <1>14, StateAssumption DEF RetainUnlink, Unlink, Raise, BackupFine, Untorn
  <2> QED  BY <1>2, <2>1, <2>2
<1>15. CASE RetainCommit(b)
  <2>1. Apart(b)
    BY <1>0, <1>15 DEF RetainCommit, MarkDeleted, Apart, SameBackup, SameRestore, Critical, BackupPC
  <2>2. BackupFine(b)' /\ Untorn'
    BY <1>0, <1>1, <1>15 DEF RetainCommit, MarkDeleted, BackupFine, Untorn
  <2> QED  BY <1>2, <2>1, <2>2
<1>16. CASE RecoverServer(b)
  <2>0. UNCHANGED server  BY <1>1, <1>16 DEF RecoverServer, BackupFine
  <2>1. Apart(b)
    BY <1>0, <1>16, <2>0 DEF RecoverServer, Apart, SameBackup, SameRestore, Untouched
  <2>2. BackupFine(b)' /\ Untorn'
    BY <1>0, <1>1, <1>16, <2>0 DEF RecoverServer, BackupFine, Untorn
  <2> QED  BY <1>2, <2>1, <2>2
<1>17. CASE FailBackup(b)
  <2>0. \A c \in BackupIds : bkp'[c] = "completed" => bkp[c] = "completed"
    BY <1>17 DEF FailBackup, MarkDeleted
  <2>1. Apart(b)
    BY <1>0, <1>17, <2>0 DEF FailBackup, Apart, SameBackup, SameRestore, Untouched
  <2>2. BackupFine(b)' /\ Untorn'
    BY <1>0, <1>1, <1>17, <2>0 DEF FailBackup, BackupFine, Untorn
  <2> QED  BY <1>2, <2>1, <2>2
<1>18. CASE FinishBackup(b)
  <2>1. Apart(b)
    BY <1>0, <1>18 DEF FinishBackup, Apart, SameBackup, SameRestore, Untouched
  <2>2. BackupFine(b)' /\ Untorn'
    BY <1>0, <1>1, <1>18, StateAssumption DEF FinishBackup, BackupFine, Untorn
  <2> QED  BY <1>2, <2>1, <2>2
<1> QED
  BY <1>3, <1>4, <1>5, <1>6, <1>7, <1>8, <1>9, <1>10, <1>11, <1>12, <1>13, <1>14, <1>15, <1>16, <1>17, <1>18
  DEF BackupStep

LEMMA RestoreKeepsHealthy ==
  ASSUME Healthy, TypeInv, Owned, HealthyInv, NEW r \in RestoreIds, RestoreStep(r)
  PROVE  HealthyInv'
<1>0. /\ pc \in [Jobs -> PC] /\ committed \subseteq BackupIds /\ src \in [RestoreIds -> BackupIds \cup {Absent}]
      /\ rollback \in [RestoreIds -> Contents] /\ stage \in [RestoreIds -> Contents]
      /\ object \in [BackupIds -> Contents] /\ r \notin BackupIds /\ r \in Jobs
  BY StateAssumption DEF ThreadsOK, RowsOK, LocalsOK, FilesOK
<1>1. RestoreFine(r) /\ Untorn  BY DEF HealthyInv
<1>2. ASSUME Apart(r), RestoreFine(r)', Untorn' PROVE HealthyInv'
  BY <1>0, <1>2, OthersFine DEF HealthyInv
<1>3. pc[r] # "none" => src[r] \in BackupIds  OBVIOUS
<1> USE DEF Healthy
<1>4. CASE Begin(r) \/ Acquire(r)
  <2>1. Apart(r)
    BY <1>0, <1>4 DEF Begin, Acquire, Apart, SameBackup, SameRestore, Untouched
  <2>2. RestoreFine(r)' /\ Untorn'
    BY <1>0, <1>1, <1>4 DEF Begin, Acquire, RestoreFine, Sure, Untorn
  <2> QED  BY <1>2, <2>1, <2>2
<1>5. CASE Unlock(r) \/ Unwind(r)
  <2>0. lock = r  BY <1>5 DEF Owned, Unlock, Unwind, Critical
  <2>1. Apart(r)
    BY <1>0, <1>5 DEF Unlock, Unwind, Exit, Apart, SameBackup, SameRestore, Untouched
  <2>2. RestoreFine(r)' /\ Untorn'
    BY <1>0, <1>1, <1>5, <2>0 DEF Unlock, Unwind, Exit, RestoreFine, Sure, Untorn
  <2> QED  BY <1>2, <2>1, <2>2
<1>6. CASE AdmitRestore(r)
  <2>1. Apart(r)
    BY <1>0, <1>6 DEF AdmitRestore, RaiseRestore, Phase, Apart, SameBackup, SameRestore, Critical, RestorePC
  <2>2. RestoreFine(r)' /\ Untorn'
    BY <1>0, <1>1, <1>6, StateAssumption DEF AdmitRestore, RaiseRestore, Phase, RestoreFine, Sure, Untorn
  <2> QED  BY <1>2, <2>1, <2>2
<1>7. CASE ValidateBackup(r)
  <2>0. bkp[src[r]] = "completed" => src[r] \in committed  BY <1>3, <1>7 DEF ValidateBackup, HealthyInv, BackupFine
  <2>1. Apart(r)
    BY <1>0, <1>7 DEF ValidateBackup, RaiseRestore, ArtifactOK, Phase, Apart, SameBackup, SameRestore, Critical, RestorePC
  <2>2. RestoreFine(r)' /\ Untorn'
    BY <1>0, <1>1, <1>7, <2>0, <1>3, StateAssumption DEF ValidateBackup, RaiseRestore, ArtifactOK, Phase, RestoreFine, Sure, Untorn
  <2> QED  BY <1>2, <2>1, <2>2
<1>8. CASE StopForRestore(r)
  <2>1. Apart(r)
    BY <1>0, <1>8 DEF StopForRestore, RaiseRestore, StopServer, StopRaises, Phase, Apart, SameBackup, SameRestore, Critical, RestorePC
  <2>2. RestoreFine(r)' /\ Untorn'
    BY <1>0, <1>1, <1>8, StateAssumption DEF StopForRestore, RaiseRestore, StopServer, StopRaises, Phase, RestoreFine, Sure, Untorn
  <2> QED  BY <1>2, <2>1, <2>2
<1>9. CASE Extract(r)
  <2>1. Apart(r)
    BY <1>0, <1>9 DEF Extract, RaiseRestore, ArtifactOK, Phase, Apart, SameBackup, SameRestore, Critical, RestorePC
  <2>2. RestoreFine(r)' /\ Untorn'
    BY <1>0, <1>1, <1>9, StateAssumption DEF Extract, RaiseRestore, ArtifactOK, Phase, RestoreFine, Sure, Untorn
  <2> QED  BY <1>2, <2>1, <2>2
<1>10. CASE SwapOut(r)
  <2>1. Apart(r)
    BY <1>0, <1>10 DEF SwapOut, RaiseRestore, Phase, Apart, SameBackup, SameRestore, Critical, RestorePC
  <2>2. RestoreFine(r)' /\ Untorn'
    BY <1>0, <1>1, <1>10, StateAssumption DEF SwapOut, RaiseRestore, Phase, RestoreFine, Sure, Untorn
  <2> QED  BY <1>2, <2>1, <2>2
<1>11. CASE SwapIn(r)
  <2>1. Apart(r)
    BY <1>0, <1>11 DEF SwapIn, RaiseRestore, Replaceable, Apart, SameBackup, SameRestore, Critical, RestorePC
  <2>2. RestoreFine(r)' /\ Untorn'
    BY <1>0, <1>1, <1>11, StateAssumption DEF SwapIn, RaiseRestore, Replaceable, RestoreFine, Sure, Untorn
  <2> QED  BY <1>2, <2>1, <2>2
<1>12. CASE CopyConfig(r)
  <2>1. Apart(r)
    BY <1>0, <1>12 DEF CopyConfig, RaiseRestore, Apart, SameBackup, SameRestore, Critical, RestorePC
  <2>2. RestoreFine(r)' /\ Untorn'
    BY <1>0, <1>1, <1>12, StateAssumption DEF CopyConfig, RaiseRestore, RestoreFine, Sure, Untorn
  <2> QED  BY <1>2, <2>1, <2>2
<1>13. CASE RestartServer(r)
  <2>1. Apart(r)
    BY <1>0, <1>13 DEF RestartServer, RaiseRestore, StartRaises, Phase, Apart, SameBackup, SameRestore, Critical, RestorePC
  <2>2. RestoreFine(r)' /\ Untorn'
    BY <1>0, <1>1, <1>13, StateAssumption DEF RestartServer, RaiseRestore, StartRaises, Phase, RestoreFine, Sure, Untorn
  <2> QED  BY <1>2, <2>1, <2>2
<1>14. CASE CompleteRestore(r)
  <2>1. Apart(r)
    BY <1>0, <1>14 DEF CompleteRestore, Phase, Apart, SameBackup, SameRestore, Critical, RestorePC
  <2>2. RestoreFine(r)' /\ Untorn'
    BY <1>0, <1>1, <1>14, StateAssumption DEF CompleteRestore, Phase, RestoreFine, Sure, Untorn
  <2> QED  BY <1>2, <2>1, <2>2
<1>15. CASE DropRollback(r)
  <2>1. Apart(r)
    BY <1>0, <1>15 DEF DropRollback, Apart, SameBackup, SameRestore, Critical, RestorePC
  <2>2. RestoreFine(r)' /\ Untorn'
    BY <1>0, <1>1, <1>15, StateAssumption DEF DropRollback, RestoreFine, Sure, Untorn
  <2> QED  BY <1>2, <2>1, <2>2
<1>16. CASE HandleError(r)
  <2>1. Apart(r)
    BY <1>0, <1>16 DEF HandleError, Apart, SameBackup, SameRestore, Untouched
  <2>2. RestoreFine(r)' /\ Untorn'
    BY <1>0, <1>1, <1>16, StateAssumption DEF HandleError, RestoreFine, Sure, Untorn
  <2> QED  BY <1>2, <2>1, <2>2
<1>17. CASE FailRestore(r)
  <2>1. Apart(r)
    BY <1>0, <1>17 DEF FailRestore, Phase, Apart, SameBackup, SameRestore, Untouched
  <2>2. RestoreFine(r)' /\ Untorn'
    BY <1>0, <1>1, <1>17, StateAssumption DEF FailRestore, Phase, RestoreFine, Sure, Untorn
  <2> QED  BY <1>2, <2>1, <2>2
<1>18. CASE ReviveServer(r)
  <2>0. UNCHANGED server  BY <1>1, <1>18 DEF ReviveServer, RestoreFine
  <2>1. Apart(r)
    BY <1>0, <1>18, <2>0 DEF ReviveServer, Apart, SameBackup, SameRestore, Untouched
  <2>2. RestoreFine(r)' /\ Untorn'
    BY <1>0, <1>1, <1>18, <2>0, StateAssumption DEF ReviveServer, RestoreFine, Sure, Untorn
  <2> QED  BY <1>2, <2>1, <2>2
<1>19. CASE FinishRestore(r)
  <2>1. Apart(r)
    BY <1>0, <1>19 DEF FinishRestore, Apart, SameBackup, SameRestore, Untouched
  <2>2. RestoreFine(r)' /\ Untorn'
    BY <1>0, <1>1, <1>19, StateAssumption DEF FinishRestore, RestoreFine, Sure, Untorn
  <2> QED  BY <1>2, <2>1, <2>2
<1>20. ~SetAside(r) /\ ~PutBack(r)  BY <1>1 DEF SetAside, PutBack, RestoreFine
<1> QED
  BY <1>4, <1>5, <1>6, <1>7, <1>8, <1>9, <1>10, <1>11, <1>12, <1>13, <1>14, <1>15, <1>16, <1>17, <1>18, <1>19, <1>20
  DEF RestoreStep

LEMMA OthersKeepHealthy ==
  ASSUME Healthy, TypeInv, HealthyInv,
         ApiStep \/ LeaseTimeout \/ WriteWorld \/ UserLifecycle
            \/ (\E p \in {"api", "worker"} : Crash(p)) \/ UNCHANGED vars
  PROVE  HealthyInv'
<1>0. /\ pc \in [Jobs -> PC] /\ bkp \in [BackupIds -> BackupRowStatus]
      /\ src \in [RestoreIds -> BackupIds \cup {Absent}] /\ opts \in [Jobs -> SUBSET Options]
  BY DEF ThreadsOK, RowsOK
<1> USE DEF Healthy
<1>1. ASSUME \A b \in BackupIds : SameBackup(b), \A r \in RestoreIds : SameRestore(r),
             committed \subseteq committed', Untouched, UNCHANGED object
      PROVE  HealthyInv'
  <2>1. \A b \in BackupIds : BackupFine(b)'  BY <1>1, BackupStays DEF HealthyInv
  <2>2. \A r \in RestoreIds : RestoreFine(r)'  BY <1>1, RestoreStays DEF HealthyInv
  <2> QED  BY <1>1, <2>1, <2>2 DEF HealthyInv, Untorn, Untouched, SameBackup
<1>2. ASSUME NEW b \in BackupIds, InsertBackup(b) PROVE HealthyInv'
  <2>1. BackupFine(b)'  BY <1>0, <1>2 DEF InsertBackup, HealthyInv, BackupFine
  <2>2. \A c \in BackupIds : c # b => SameBackup(c)
    BY <1>0, <1>2 DEF InsertBackup, SameBackup
  <2>3. \A r \in RestoreIds : SameRestore(r)
    BY <1>0, <1>2, StateAssumption DEF InsertBackup, SameRestore
  <2>4. Untouched /\ UNCHANGED <<committed, object, temp>>  BY <1>2 DEF InsertBackup, Untouched
  <2>5. \A c \in BackupIds : BackupFine(c)'  BY <2>1, <2>2, <2>4, BackupStays DEF HealthyInv
  <2>6. \A r \in RestoreIds : RestoreFine(r)'  BY <2>3, <2>4, RestoreStays DEF HealthyInv
  <2> QED  BY <2>4, <2>5, <2>6 DEF HealthyInv, Untorn, Untouched
<1>3. ASSUME NEW r \in RestoreIds, InsertRestore(r) \/ \E b \in BackupIds : CheckRestore(r, b) PROVE HealthyInv'
  <2>1. RestoreFine(r)'
    <3>1. pc[r] = "none" /\ pc'[r] \in {"none", "queued"} /\ UNCHANGED <<wasUp, rollback>>
      BY <1>0, <1>3 DEF InsertRestore, CheckRestore
    <3> QED  BY <3>1 DEF HealthyInv, RestoreFine, Sure
  <2>2. \A b \in BackupIds : SameBackup(b)
    BY <1>0, <1>3, StateAssumption DEF InsertRestore, CheckRestore, SameBackup
  <2>3. \A q \in RestoreIds : q # r => SameRestore(q)
    BY <1>0, <1>3 DEF InsertRestore, CheckRestore, SameRestore
  <2>4. Untouched /\ UNCHANGED <<committed, object, temp>>
    BY <1>3 DEF InsertRestore, CheckRestore, Untouched
  <2>5. \A b \in BackupIds : BackupFine(b)'  BY <2>2, <2>4, BackupStays DEF HealthyInv
  <2>6. \A q \in RestoreIds : RestoreFine(q)'  BY <2>1, <2>3, <2>4, RestoreStays DEF HealthyInv
  <2> QED  BY <2>4, <2>5, <2>6 DEF HealthyInv, Untorn, Untouched
<1>4. ASSUME NEW b \in BackupIds, CheckBackup(b) \/ CheckSchedule(b) PROVE HealthyInv'
  BY <1>1, <1>4 DEF CheckBackup, CheckSchedule, SameBackup, SameRestore, Untouched
<1>5. CASE CommitDeleted
  BY <1>1, <1>5 DEF CommitDeleted, MarkDeleted, SameBackup, SameRestore, Untouched
<1>6. CASE LeaseTimeout \/ UNCHANGED vars
  BY <1>1, <1>6 DEF LeaseTimeout, vars, SameBackup, SameRestore, Untouched
<1>7. ASSUME NEW p, Crash(p) PROVE HealthyInv'
  <2>1. \A j \in Jobs : pc'[j] = pc[j] \/ pc'[j] = "lost"  BY <1>7 DEF Crash
  <2>2. UNCHANGED <<rows, locals, server, worlds, storage>>  BY <1>7 DEF Crash
  <2>3. \A b \in BackupIds : BackupFine(b)'  BY <2>1, <2>2 DEF HealthyInv, BackupFine
  <2>4. \A r \in RestoreIds : RestoreFine(r)'
    <3>1. SUFFICES ASSUME NEW r \in RestoreIds PROVE RestoreFine(r)'  OBVIOUS
    <3>2. CASE pc'[r] = "lost"  BY <3>2 DEF RestoreFine, Sure
    <3>3. CASE pc'[r] = pc[r]
      BY <2>2, <3>3, RestoreStays DEF HealthyInv, SameRestore, Untouched
    <3> QED  BY <2>1, <3>2, <3>3
  <2> QED  BY <2>2, <2>3, <2>4 DEF HealthyInv, Untorn
<1>8. CASE WriteWorld
  <2>1. /\ running /\ ~held /\ world' \notin {Absent, Torn}
        /\ UNCHANGED <<rows, pc, locals, server, config, stage, rollback, storage>>
    BY <1>8, StateAssumption DEF WriteWorld, FilesOK, Versions
  <2>2. ASSUME NEW b \in BackupIds PROVE BackupFine(b)'
    BY <2>1 DEF HealthyInv, BackupFine
  <2>3. ASSUME NEW r \in RestoreIds PROVE RestoreFine(r)'
    BY <2>1 DEF HealthyInv, RestoreFine, Sure
  <2> QED  BY <2>1, <2>2, <2>3 DEF HealthyInv, Untorn
<1>9. /\ \A b \in BackupIds : ~DeleteFiles(b)
      /\ ~ApplyRetention /\ ~UserLifecycle
  BY DEF DeleteFiles, ApplyRetention, UserLifecycle
<1> QED  BY <1>2, <1>3, <1>4, <1>5, <1>6, <1>7, <1>8, <1>9 DEF ApiStep

LEMMA HealthyAlways ==
  ASSUME Healthy
  PROVE  Spec => []HealthyInv
<1>1. Init => HealthyInv
  BY StateAssumption DEF Init, HealthyInv, BackupFine, RestoreFine, Sure, Untorn
<1>2. ASSUME TypeInv, Owned, HealthyInv, [Next]_vars PROVE HealthyInv'
  BY <1>2, BackupKeepsHealthy, RestoreKeepsHealthy, OthersKeepHealthy DEF Next
<1>3. LockHealthy  BY DEF Healthy, LockHealthy
<1>4. Spec => []Owned  BY <1>3, OwnedAlways
<1> QED  BY <1>1, <1>2, <1>4, TypeAlways, PTL DEF Spec

\* In a healthy installation the game server is down while a restore replaces its
\* files, whatever other jobs fail, wait or are killed meanwhile.
THEOREM RestoresStopped ==
  ASSUME Healthy
  PROVE  Spec => []RestoreNeverWhileRunning
<1>1. HealthyInv => RestoreNeverWhileRunning
  BY DEF HealthyInv, RestoreFine, RestoreNeverWhileRunning
<1> QED  BY <1>1, HealthyAlways, PTL

\* In a healthy installation a backup of a Bedrock server is one version of its
\* world: saves stay held from the first file to the last.
THEOREM BackupsWhole ==
  ASSUME Healthy, ~IsJava
  PROVE  Spec => []NoTornBackup
<1>1. HealthyInv => NoTornBackup  BY DEF HealthyInv, Untorn, NoTornBackup
<1> QED  BY <1>1, HealthyAlways, PTL

\* A restore is recorded as completed in one place.
LEMMA OnlyCompletion ==
  ASSUME rjob \in [RestoreIds -> RestoreStatus], [Next]_vars, NEW r \in RestoreIds,
         rjob'[r] = "completed", rjob[r] # "completed"
  PROVE  CompleteRestore(r)
<1>1. ASSUME NEW b \in BackupIds, BackupStep(b) PROVE UNCHANGED rjob
  <2>1. CASE Begin(b) \/ Acquire(b) \/ Unlock(b) \/ Unwind(b)
    BY <2>1 DEF Begin, Acquire, Unlock, Unwind, Exit
  <2>2. CASE AdmitBackup(b) \/ Inspect(b) \/ SaveHold(b) \/ SaveQuery(b) \/ StopForBackup(b)
    BY <2>2 DEF AdmitBackup, Inspect, SaveHold, SaveQuery, StopForBackup
  <2>3. CASE OpenTar(b) \/ CloseTar(b) \/ ResumeServer(b) \/ StoreArchive(b) \/ CompleteBackup(b)
    BY <2>3 DEF OpenTar, CloseTar, ResumeServer, StoreArchive, CompleteBackup
  <2>4. CASE RetainUnlink(b) \/ RetainCommit(b) \/ RecoverServer(b) \/ FailBackup(b) \/ FinishBackup(b)
    BY <2>4 DEF RetainUnlink, RetainCommit, RecoverServer, FailBackup, FinishBackup
  <2> QED  BY <1>1, <2>1, <2>2, <2>3, <2>4 DEF BackupStep
<1>2. ASSUME NEW q \in RestoreIds, RestoreStep(q), ~CompleteRestore(q) PROVE FALSE
  <2>1. CASE Begin(q) \/ Acquire(q) \/ Unlock(q) \/ Unwind(q)
    BY <2>1 DEF Begin, Acquire, Unlock, Unwind, Exit
  <2>2. CASE AdmitRestore(q) \/ ValidateBackup(q) \/ StopForRestore(q) \/ Extract(q) \/ SwapOut(q)
    BY <2>2 DEF AdmitRestore, ValidateBackup, StopForRestore, Extract, SwapOut, Phase
  <2>3. CASE SwapIn(q) \/ CopyConfig(q) \/ RestartServer(q) \/ DropRollback(q)
    BY <2>3 DEF SwapIn, CopyConfig, RestartServer, DropRollback, Phase
  <2>4. CASE HandleError(q) \/ SetAside(q) \/ PutBack(q) \/ FailRestore(q)
    BY <2>4 DEF HandleError, SetAside, PutBack, FailRestore, Phase
  <2>5. CASE ReviveServer(q) \/ FinishRestore(q)
    BY <2>5 DEF ReviveServer, FinishRestore
  <2> QED  BY <1>2, <2>1, <2>2, <2>3, <2>4, <2>5 DEF RestoreStep
<1>3. ASSUME NEW q \in RestoreIds, CompleteRestore(q) PROVE q = r
  BY <1>3 DEF CompleteRestore, Phase
<1>4. ASSUME NEW q \in RestoreIds, InsertRestore(q) PROVE FALSE
  BY <1>4 DEF InsertRestore
<1>5. ASSUME NEW b \in BackupIds,
             CheckBackup(b) \/ CheckSchedule(b) \/ InsertBackup(b) \/ DeleteFiles(b)
             \/ \E q \in RestoreIds : CheckRestore(q, b)
      PROVE  FALSE
  BY <1>5 DEF CheckBackup, CheckSchedule, InsertBackup, DeleteFiles, CheckRestore
<1>6. ~ApplyRetention /\ ~CommitDeleted /\ ~LeaseTimeout /\ ~WriteWorld /\ ~UserLifecycle /\ ~UNCHANGED vars
  BY DEF ApplyRetention, CommitDeleted, LeaseTimeout, WriteWorld, UserLifecycle, vars
<1>7. \A p : ~Crash(p)  BY DEF Crash
<1> QED  BY <1>1, <1>2, <1>3, <1>4, <1>5, <1>6, <1>7 DEF Next, ApiStep

\* In a healthy installation a restore that is recorded as completed has put the
\* backup's world and configuration in place.
THEOREM RestoresEffective ==
  ASSUME Healthy
  PROVE  Spec => RestoreTakesEffect
<1>1. ASSUME TypeInv, HealthyInv, [Next]_vars, NEW r \in RestoreIds,
             rjob'[r] = "completed", rjob[r] # "completed"
      PROVE  config = src[r] /\ ("restart" \in opts[r] \/ world = object[src[r]])
  <2>1. CompleteRestore(r)  BY <1>1, OnlyCompletion DEF RowsOK
  <2> QED  BY <1>1, <2>1 DEF CompleteRestore, HealthyInv, RestoreFine
<1>2. ASSUME TypeInv, HealthyInv, [Next]_vars PROVE
        [\A r \in RestoreIds :
          rjob'[r] = "completed" /\ rjob[r] # "completed" =>
             /\ config = src[r]
             /\ "restart" \in opts[r] \/ world = object[src[r]]]_vars
  BY <1>1, <1>2
<1> QED  BY <1>2, TypeAlways, HealthyAlways, PTL DEF Spec, RestoreTakesEffect

\* In a healthy installation the server is stopped only for a restore whose archive
\* is there.
THEOREM StopsForIntact ==
  ASSUME Healthy
  PROVE  Spec => StopOnlyForIntactBackup
<1>1. ASSUME HealthyInv, [Next]_vars PROVE
        [\A r \in RestoreIds :
          pc[r] = "stopping" /\ pc'[r] = "extract" => ArtifactOK(src[r])]_vars
  BY <1>1 DEF HealthyInv, RestoreFine, Sure, ArtifactOK
<1> QED  BY <1>1, HealthyAlways, PTL DEF Spec, StopOnlyForIntactBackup
=============================================================================
