------------------------- MODULE BackupRestoreProofs -------------------------
(***************************************************************************)
(* Proofs about BackupRestore for any number of backups, restores, threads *)
(* and writes and for every environment.                                   *)
(***************************************************************************)
EXTENDS BackupRestore, FiniteSetTheorems, TLAPS

-----------------------------------------------------------------------------
(* Type correctness.  A restore's archive has a type only because a restore  *)
(* that was checked has a source, so the type invariant alone is not         *)
(* inductive.                                                                *)

Sourced == \A r \in RestoreIds : r \in checked \/ pc[r] # "none" => src[r] \in BackupIds
TypeInv == TypeOK /\ Sourced

USE DEF TypeInv, TypeOK, Sourced, rows, locking, locals, server, worlds, storage, Goto, At, Jobs

\* Every orchestrator call leaves the two flags of the game server Boolean.
LEMMA ServerCalls ==
  ASSUME ServerOK, StartServer \/ StopServer \/ StartRaises \/ StopRaises \/ SaveResume
  PROVE  ServerOK'
BY DEF ServerOK, StartServer, StopServer, StartRaises, StopRaises, SaveResume

\* Retention selects backups.
LEMMA ExpiredType ==
  ASSUME NEW k PROVE Expired(k) \in SUBSET BackupIds
BY DEF Expired, Completed

\* Begin keeps every variable in its type.
LEMMA TypeBegin ==
  ASSUME TypeInv, NEW j \in Jobs, Begin(j)
  PROVE  TypeInv'
BY StateAssumption DEF Begin, RowsOK, ThreadsOK, LocalsOK, FilesOK, ServerOK, Contents, PC,
   Critical, BackupPC, RestorePC, HandlerPC, BackupJobStatus, ActiveBackup, BackupRowStatus,
   ActiveRestore, RestoreStatus

\* Acquire keeps every variable in its type.
LEMMA TypeAcquire ==
  ASSUME TypeInv, NEW j \in Jobs, Acquire(j)
  PROVE  TypeInv'
<1>1. ServerOK'
    BY ServerCalls DEF Acquire, ServerOK
<1> USE DEF Acquire
<1>2. RowsOK'
    BY StateAssumption DEF RowsOK, ThreadsOK, BackupJobStatus, ActiveBackup,
       BackupRowStatus, ActiveRestore, RestoreStatus
<1>3. ThreadsOK'
    BY StateAssumption DEF ThreadsOK, PC, Critical, BackupPC, RestorePC, HandlerPC
<1>4. LocalsOK' /\ FilesOK'
    BY StateAssumption DEF LocalsOK, FilesOK, ThreadsOK, Contents
<1>5. Sourced'
    BY StateAssumption DEF RowsOK, ThreadsOK
<1> QED BY <1>1, <1>2, <1>3, <1>4, <1>5

\* Unlock keeps every variable in its type.
LEMMA TypeUnlock ==
  ASSUME TypeInv, NEW j \in Jobs, Unlock(j)
  PROVE  TypeInv'
<1>1. ServerOK'
    BY ServerCalls DEF Unlock, ServerOK, Exit
<1> USE DEF Unlock, Exit
<1>2. RowsOK'
    BY StateAssumption DEF RowsOK, ThreadsOK, BackupJobStatus, ActiveBackup,
       BackupRowStatus, ActiveRestore, RestoreStatus
<1>3. ThreadsOK'
    BY StateAssumption DEF ThreadsOK, PC, Critical, BackupPC, RestorePC, HandlerPC
<1>4. LocalsOK' /\ FilesOK'
    BY StateAssumption DEF LocalsOK, FilesOK, ThreadsOK, Contents
<1>5. Sourced'
    BY StateAssumption DEF RowsOK, ThreadsOK
<1> QED BY <1>1, <1>2, <1>3, <1>4, <1>5

\* Unwind keeps every variable in its type.
LEMMA TypeUnwind ==
  ASSUME TypeInv, NEW j \in Jobs, Unwind(j)
  PROVE  TypeInv'
<1>1. ServerOK'
    BY ServerCalls DEF Unwind, ServerOK, Exit
<1> USE DEF Unwind, Exit
<1>2. RowsOK'
    BY StateAssumption DEF RowsOK, ThreadsOK, BackupJobStatus, ActiveBackup,
       BackupRowStatus, ActiveRestore, RestoreStatus
<1>3. ThreadsOK'
    BY StateAssumption DEF ThreadsOK, PC, Critical, BackupPC, RestorePC, HandlerPC
<1>4. LocalsOK' /\ FilesOK'
    BY StateAssumption DEF LocalsOK, FilesOK, ThreadsOK, Contents
<1>5. Sourced'
    BY StateAssumption DEF RowsOK, ThreadsOK
<1> QED BY <1>1, <1>2, <1>3, <1>4, <1>5

\* AdmitBackup keeps every variable in its type.
LEMMA TypeAdmitBackup ==
  ASSUME TypeInv, NEW b \in BackupIds, AdmitBackup(b)
  PROVE  TypeInv'
<1>1. ServerOK'
    BY ServerCalls DEF AdmitBackup, ServerOK
<1> USE DEF AdmitBackup, Raise
<1>2. RowsOK'
    BY StateAssumption DEF RowsOK, ThreadsOK, BackupJobStatus, ActiveBackup,
       BackupRowStatus, ActiveRestore, RestoreStatus
<1>3. ThreadsOK'
    BY StateAssumption DEF ThreadsOK, PC, Critical, BackupPC, RestorePC, HandlerPC
<1>4. LocalsOK' /\ FilesOK'
    BY StateAssumption DEF LocalsOK, FilesOK, ThreadsOK, Contents
<1>5. Sourced'
    BY StateAssumption DEF RowsOK, ThreadsOK
<1> QED BY <1>1, <1>2, <1>3, <1>4, <1>5

\* Inspect keeps every variable in its type.
LEMMA TypeInspect ==
  ASSUME TypeInv, NEW b \in BackupIds, Inspect(b)
  PROVE  TypeInv'
BY StateAssumption DEF Inspect, Raise, RowsOK, ThreadsOK, LocalsOK, FilesOK, ServerOK, Contents, PC,
   Critical, BackupPC, RestorePC, HandlerPC, BackupJobStatus, ActiveBackup, BackupRowStatus,
   ActiveRestore, RestoreStatus

\* SaveHold keeps every variable in its type.
LEMMA TypeSaveHold ==
  ASSUME TypeInv, NEW b \in BackupIds, SaveHold(b)
  PROVE  TypeInv'
<1>1. ServerOK'
    BY ServerCalls DEF SaveHold, ServerOK
<1>2. RowsOK' /\ ThreadsOK' /\ LocalsOK' /\ FilesOK' /\ Sourced'
    BY StateAssumption DEF SaveHold, RowsOK, ThreadsOK, LocalsOK, FilesOK, ServerOK, Contents, PC,
   Critical, BackupPC, RestorePC, HandlerPC, BackupJobStatus, ActiveBackup, BackupRowStatus,
   ActiveRestore, RestoreStatus
<1> QED BY <1>1, <1>2

\* SaveQuery keeps every variable in its type.
LEMMA TypeSaveQuery ==
  ASSUME TypeInv, NEW b \in BackupIds, SaveQuery(b)
  PROVE  TypeInv'
<1>1. ServerOK'
    BY ServerCalls DEF SaveQuery, ServerOK
<1> USE DEF SaveQuery
<1>2. RowsOK'
    BY StateAssumption DEF RowsOK, ThreadsOK, BackupJobStatus, ActiveBackup,
       BackupRowStatus, ActiveRestore, RestoreStatus
<1>3. ThreadsOK'
    BY StateAssumption DEF ThreadsOK, PC, Critical, BackupPC, RestorePC, HandlerPC
<1>4. LocalsOK' /\ FilesOK'
    BY StateAssumption DEF LocalsOK, FilesOK, ThreadsOK, Contents
<1>5. Sourced'
    BY StateAssumption DEF RowsOK, ThreadsOK
<1> QED BY <1>1, <1>2, <1>3, <1>4, <1>5

\* StopForBackup keeps every variable in its type.
LEMMA TypeStopForBackup ==
  ASSUME TypeInv, NEW b \in BackupIds, StopForBackup(b)
  PROVE  TypeInv'
<1>1. ServerOK'
    BY ServerCalls DEF StopForBackup, ServerOK, StartRaises, StopRaises
<1>2. RowsOK' /\ ThreadsOK' /\ LocalsOK' /\ FilesOK' /\ Sourced'
    BY StateAssumption DEF StopForBackup, Raise, RowsOK, ThreadsOK, LocalsOK, FilesOK, ServerOK, Contents, PC,
   Critical, BackupPC, RestorePC, HandlerPC, BackupJobStatus, ActiveBackup, BackupRowStatus,
   ActiveRestore, RestoreStatus
<1> QED BY <1>1, <1>2

\* OpenTar keeps every variable in its type.
LEMMA TypeOpenTar ==
  ASSUME TypeInv, NEW b \in BackupIds, OpenTar(b)
  PROVE  TypeInv'
<1>1. ServerOK'
    BY ServerCalls DEF OpenTar, ServerOK
<1> USE DEF OpenTar, Raise
<1>2. RowsOK'
    BY StateAssumption DEF RowsOK, ThreadsOK, BackupJobStatus, ActiveBackup,
       BackupRowStatus, ActiveRestore, RestoreStatus
<1>3. ThreadsOK'
    BY StateAssumption DEF ThreadsOK, PC, Critical, BackupPC, RestorePC, HandlerPC
<1>4. LocalsOK' /\ FilesOK'
    BY StateAssumption DEF LocalsOK, FilesOK, ThreadsOK, Contents
<1>5. Sourced'
    BY StateAssumption DEF RowsOK, ThreadsOK
<1> QED BY <1>1, <1>2, <1>3, <1>4, <1>5

\* CloseTar keeps every variable in its type.
LEMMA TypeCloseTar ==
  ASSUME TypeInv, NEW b \in BackupIds, CloseTar(b)
  PROVE  TypeInv'
<1>1. ServerOK'
    BY ServerCalls DEF CloseTar, ServerOK
<1> USE DEF CloseTar, Raise
<1>2. RowsOK'
    BY StateAssumption DEF RowsOK, ThreadsOK, BackupJobStatus, ActiveBackup,
       BackupRowStatus, ActiveRestore, RestoreStatus
<1>3. ThreadsOK'
    BY StateAssumption DEF ThreadsOK, PC, Critical, BackupPC, RestorePC, HandlerPC
<1>4. LocalsOK' /\ FilesOK'
    BY StateAssumption DEF LocalsOK, FilesOK, ThreadsOK, Contents
<1>5. Sourced'
    BY StateAssumption DEF RowsOK, ThreadsOK
<1> QED BY <1>1, <1>2, <1>3, <1>4, <1>5

\* ResumeServer keeps every variable in its type.
LEMMA TypeResumeServer ==
  ASSUME TypeInv, NEW b \in BackupIds, ResumeServer(b)
  PROVE  TypeInv'
<1>1. ServerOK'
    BY ServerCalls DEF ResumeServer, ServerOK, StartRaises, StopRaises
<1> USE DEF ResumeServer, Raise
<1>2. RowsOK'
    BY StateAssumption DEF RowsOK, ThreadsOK, BackupJobStatus, ActiveBackup,
       BackupRowStatus, ActiveRestore, RestoreStatus
<1>3. ThreadsOK'
    BY StateAssumption DEF ThreadsOK, PC, Critical, BackupPC, RestorePC, HandlerPC
<1>4. LocalsOK' /\ FilesOK'
    BY StateAssumption DEF LocalsOK, FilesOK, ThreadsOK, Contents
<1>5. Sourced'
    BY StateAssumption DEF RowsOK, ThreadsOK
<1> QED BY <1>1, <1>2, <1>3, <1>4, <1>5

\* StoreArchive keeps every variable in its type.
LEMMA TypeStoreArchive ==
  ASSUME TypeInv, NEW b \in BackupIds, StoreArchive(b)
  PROVE  TypeInv'
<1>1. ServerOK'
    BY ServerCalls DEF StoreArchive, ServerOK
<1> USE DEF StoreArchive, Raise
<1>2. RowsOK'
    BY StateAssumption DEF RowsOK, ThreadsOK, BackupJobStatus, ActiveBackup,
       BackupRowStatus, ActiveRestore, RestoreStatus
<1>3. ThreadsOK'
    BY StateAssumption DEF ThreadsOK, PC, Critical, BackupPC, RestorePC, HandlerPC
<1>4. LocalsOK' /\ FilesOK'
    BY StateAssumption DEF LocalsOK, FilesOK, ThreadsOK, Contents
<1>5. Sourced'
    BY StateAssumption DEF RowsOK, ThreadsOK
<1> QED BY <1>1, <1>2, <1>3, <1>4, <1>5

\* CompleteBackup keeps every variable in its type.
LEMMA TypeCompleteBackup ==
  ASSUME TypeInv, NEW b \in BackupIds, CompleteBackup(b)
  PROVE  TypeInv'
BY StateAssumption DEF CompleteBackup, RowsOK, ThreadsOK, LocalsOK, FilesOK, ServerOK, Contents, PC,
   Critical, BackupPC, RestorePC, HandlerPC, BackupJobStatus, ActiveBackup, BackupRowStatus,
   ActiveRestore, RestoreStatus

\* RetainUnlink keeps every variable in its type.
LEMMA TypeRetainUnlink ==
  ASSUME TypeInv, NEW b \in BackupIds, RetainUnlink(b)
  PROVE  TypeInv'
<1>1. ServerOK'
    BY ServerCalls DEF RetainUnlink, ServerOK
<1>2. RowsOK' /\ ThreadsOK' /\ Sourced'
    BY DEF RetainUnlink, Raise, RowsOK, ThreadsOK, PC, Critical, BackupPC
<1>3. LocalsOK' /\ FilesOK'
    BY ExpiredType DEF RetainUnlink, Unlink, LocalsOK, FilesOK, Contents
<1> QED BY <1>1, <1>2, <1>3

\* RetainCommit keeps every variable in its type.
LEMMA TypeRetainCommit ==
  ASSUME TypeInv, NEW b \in BackupIds, RetainCommit(b)
  PROVE  TypeInv'
BY StateAssumption DEF RetainCommit, MarkDeleted, RowsOK, ThreadsOK, LocalsOK, FilesOK, ServerOK, Contents, PC,
   Critical, BackupPC, RestorePC, HandlerPC, BackupJobStatus, ActiveBackup, BackupRowStatus,
   ActiveRestore, RestoreStatus

\* RecoverServer keeps every variable in its type.
LEMMA TypeRecoverServer ==
  ASSUME TypeInv, NEW b \in BackupIds, RecoverServer(b)
  PROVE  TypeInv'
<1>1. ServerOK'
    BY ServerCalls DEF RecoverServer, ServerOK, StartRaises, StopRaises
<1>2. RowsOK' /\ ThreadsOK' /\ LocalsOK' /\ FilesOK' /\ Sourced'
    BY StateAssumption DEF RecoverServer, RowsOK, ThreadsOK, LocalsOK, FilesOK, ServerOK, Contents, PC,
   Critical, BackupPC, RestorePC, HandlerPC, BackupJobStatus, ActiveBackup, BackupRowStatus,
   ActiveRestore, RestoreStatus
<1> QED BY <1>1, <1>2

\* FailBackup keeps every variable in its type.
LEMMA TypeFailBackup ==
  ASSUME TypeInv, NEW b \in BackupIds, FailBackup(b)
  PROVE  TypeInv'
BY StateAssumption DEF FailBackup, MarkDeleted, RowsOK, ThreadsOK, LocalsOK, FilesOK, ServerOK, Contents, PC,
   Critical, BackupPC, RestorePC, HandlerPC, BackupJobStatus, ActiveBackup, BackupRowStatus,
   ActiveRestore, RestoreStatus

\* FinishBackup keeps every variable in its type.
LEMMA TypeFinishBackup ==
  ASSUME TypeInv, NEW b \in BackupIds, FinishBackup(b)
  PROVE  TypeInv'
BY StateAssumption DEF FinishBackup, RowsOK, ThreadsOK, LocalsOK, FilesOK, ServerOK, Contents, PC,
   Critical, BackupPC, RestorePC, HandlerPC, BackupJobStatus, ActiveBackup, BackupRowStatus,
   ActiveRestore, RestoreStatus

\* AdmitRestore keeps every variable in its type.
LEMMA TypeAdmitRestore ==
  ASSUME TypeInv, NEW r \in RestoreIds, AdmitRestore(r)
  PROVE  TypeInv'
<1>1. ServerOK'
    BY ServerCalls DEF AdmitRestore, ServerOK
<1> USE DEF AdmitRestore, RaiseRestore, Phase
<1>2. RowsOK'
    BY StateAssumption DEF RowsOK, ThreadsOK, BackupJobStatus, ActiveBackup,
       BackupRowStatus, ActiveRestore, RestoreStatus
<1>3. ThreadsOK'
    BY StateAssumption DEF ThreadsOK, PC, Critical, BackupPC, RestorePC, HandlerPC
<1>4. LocalsOK' /\ FilesOK'
    BY StateAssumption DEF LocalsOK, FilesOK, ThreadsOK, Contents
<1>5. Sourced'
    BY StateAssumption DEF RowsOK, ThreadsOK
<1> QED BY <1>1, <1>2, <1>3, <1>4, <1>5

\* ValidateBackup keeps every variable in its type.
LEMMA TypeValidateBackup ==
  ASSUME TypeInv, NEW r \in RestoreIds, ValidateBackup(r)
  PROVE  TypeInv'
<1>1. ServerOK'
    BY ServerCalls DEF ValidateBackup, ServerOK
<1> USE DEF ValidateBackup, RaiseRestore, Phase
<1>2. RowsOK'
    BY StateAssumption DEF RowsOK, ThreadsOK, BackupJobStatus, ActiveBackup,
       BackupRowStatus, ActiveRestore, RestoreStatus
<1>3. ThreadsOK'
    BY StateAssumption DEF ThreadsOK, PC, Critical, BackupPC, RestorePC, HandlerPC
<1>4. LocalsOK' /\ FilesOK'
    BY StateAssumption DEF LocalsOK, FilesOK, ThreadsOK, Contents
<1>5. Sourced'
    BY StateAssumption DEF RowsOK, ThreadsOK
<1> QED BY <1>1, <1>2, <1>3, <1>4, <1>5

\* StopForRestore keeps every variable in its type.
LEMMA TypeStopForRestore ==
  ASSUME TypeInv, NEW r \in RestoreIds, StopForRestore(r)
  PROVE  TypeInv'
<1>1. ServerOK'
    BY ServerCalls DEF StopForRestore, ServerOK, StartRaises, StopRaises
<1> USE DEF StopForRestore, RaiseRestore, Phase
<1>2. RowsOK'
    BY StateAssumption DEF RowsOK, ThreadsOK, BackupJobStatus, ActiveBackup,
       BackupRowStatus, ActiveRestore, RestoreStatus
<1>3. ThreadsOK'
    BY StateAssumption DEF ThreadsOK, PC, Critical, BackupPC, RestorePC, HandlerPC
<1>4. LocalsOK' /\ FilesOK'
    BY StateAssumption DEF LocalsOK, FilesOK, ThreadsOK, Contents
<1>5. Sourced'
    BY StateAssumption DEF RowsOK, ThreadsOK
<1> QED BY <1>1, <1>2, <1>3, <1>4, <1>5

\* Extract keeps every variable in its type.
LEMMA TypeExtract ==
  ASSUME TypeInv, NEW r \in RestoreIds, Extract(r)
  PROVE  TypeInv'
<1>1. ServerOK'
    BY ServerCalls DEF Extract, ServerOK
<1> USE DEF Extract, RaiseRestore, Phase, ArtifactOK
<1>2. RowsOK'
    BY StateAssumption DEF RowsOK, ThreadsOK, BackupJobStatus, ActiveBackup,
       BackupRowStatus, ActiveRestore, RestoreStatus
<1>3. ThreadsOK'
    BY StateAssumption DEF ThreadsOK, PC, Critical, BackupPC, RestorePC, HandlerPC
<1>4. LocalsOK' /\ FilesOK'
    BY StateAssumption DEF LocalsOK, FilesOK, ThreadsOK, Contents
<1>5. Sourced'
    BY StateAssumption DEF RowsOK, ThreadsOK
<1> QED BY <1>1, <1>2, <1>3, <1>4, <1>5

\* SwapOut keeps every variable in its type.
LEMMA TypeSwapOut ==
  ASSUME TypeInv, NEW r \in RestoreIds, SwapOut(r)
  PROVE  TypeInv'
<1>1. ServerOK'
    BY ServerCalls DEF SwapOut, ServerOK
<1> USE DEF SwapOut, RaiseRestore, Phase
<1>2. RowsOK'
    BY StateAssumption DEF RowsOK, ThreadsOK, BackupJobStatus, ActiveBackup,
       BackupRowStatus, ActiveRestore, RestoreStatus
<1>3. ThreadsOK'
    BY StateAssumption DEF ThreadsOK, PC, Critical, BackupPC, RestorePC, HandlerPC
<1>4. LocalsOK' /\ FilesOK'
    BY StateAssumption DEF LocalsOK, FilesOK, ThreadsOK, Contents
<1>5. Sourced'
    BY StateAssumption DEF RowsOK, ThreadsOK
<1> QED BY <1>1, <1>2, <1>3, <1>4, <1>5

\* SwapIn keeps every variable in its type.
LEMMA TypeSwapIn ==
  ASSUME TypeInv, NEW r \in RestoreIds, SwapIn(r)
  PROVE  TypeInv'
<1>1. ServerOK'
    BY ServerCalls DEF SwapIn, ServerOK
<1> USE DEF SwapIn, RaiseRestore, Replaceable
<1>2. RowsOK'
    BY StateAssumption DEF RowsOK, ThreadsOK, BackupJobStatus, ActiveBackup,
       BackupRowStatus, ActiveRestore, RestoreStatus
<1>3. ThreadsOK'
    BY StateAssumption DEF ThreadsOK, PC, Critical, BackupPC, RestorePC, HandlerPC
<1>4. LocalsOK' /\ FilesOK'
    BY StateAssumption DEF LocalsOK, FilesOK, ThreadsOK, Contents
<1>5. Sourced'
    BY StateAssumption DEF RowsOK, ThreadsOK
<1> QED BY <1>1, <1>2, <1>3, <1>4, <1>5

\* CopyConfig keeps every variable in its type.
LEMMA TypeCopyConfig ==
  ASSUME TypeInv, NEW r \in RestoreIds, CopyConfig(r)
  PROVE  TypeInv'
BY StateAssumption DEF CopyConfig, RaiseRestore, RowsOK, ThreadsOK, LocalsOK, FilesOK, ServerOK, Contents, PC,
   Critical, BackupPC, RestorePC, HandlerPC, BackupJobStatus, ActiveBackup, BackupRowStatus,
   ActiveRestore, RestoreStatus

\* RestartServer keeps every variable in its type.
LEMMA TypeRestartServer ==
  ASSUME TypeInv, NEW r \in RestoreIds, RestartServer(r)
  PROVE  TypeInv'
<1>1. ServerOK'
    BY ServerCalls DEF RestartServer, ServerOK, StartRaises, StopRaises
<1>2. RowsOK' /\ ThreadsOK' /\ LocalsOK' /\ FilesOK' /\ Sourced'
    BY SMTT(30), StateAssumption DEF RestartServer, RaiseRestore, Phase, RowsOK, ThreadsOK, LocalsOK, FilesOK, ServerOK, Contents, PC,
   Critical, BackupPC, RestorePC, HandlerPC, BackupJobStatus, ActiveBackup, BackupRowStatus,
   ActiveRestore, RestoreStatus
<1> QED BY <1>1, <1>2

\* CompleteRestore keeps every variable in its type.
LEMMA TypeCompleteRestore ==
  ASSUME TypeInv, NEW r \in RestoreIds, CompleteRestore(r)
  PROVE  TypeInv'
BY StateAssumption DEF CompleteRestore, Phase, RowsOK, ThreadsOK, LocalsOK, FilesOK, ServerOK, Contents, PC,
   Critical, BackupPC, RestorePC, HandlerPC, BackupJobStatus, ActiveBackup, BackupRowStatus,
   ActiveRestore, RestoreStatus

\* DropRollback keeps every variable in its type.
LEMMA TypeDropRollback ==
  ASSUME TypeInv, NEW r \in RestoreIds, DropRollback(r)
  PROVE  TypeInv'
BY StateAssumption DEF DropRollback, RowsOK, ThreadsOK, LocalsOK, FilesOK, ServerOK, Contents, PC,
   Critical, BackupPC, RestorePC, HandlerPC, BackupJobStatus, ActiveBackup, BackupRowStatus,
   ActiveRestore, RestoreStatus

\* HandleError keeps every variable in its type.
LEMMA TypeHandleError ==
  ASSUME TypeInv, NEW r \in RestoreIds, HandleError(r)
  PROVE  TypeInv'
BY StateAssumption DEF HandleError, RowsOK, ThreadsOK, LocalsOK, FilesOK, ServerOK, Contents, PC,
   Critical, BackupPC, RestorePC, HandlerPC, BackupJobStatus, ActiveBackup, BackupRowStatus,
   ActiveRestore, RestoreStatus

\* SetAside keeps every variable in its type.
LEMMA TypeSetAside ==
  ASSUME TypeInv, NEW r \in RestoreIds, SetAside(r)
  PROVE  TypeInv'
<1>1. ServerOK'
    BY ServerCalls DEF SetAside, ServerOK
<1> USE DEF SetAside
<1>2. RowsOK'
    BY StateAssumption DEF RowsOK, ThreadsOK, BackupJobStatus, ActiveBackup,
       BackupRowStatus, ActiveRestore, RestoreStatus
<1>3. ThreadsOK'
    BY StateAssumption DEF ThreadsOK, PC, Critical, BackupPC, RestorePC, HandlerPC
<1>4. LocalsOK' /\ FilesOK'
    BY StateAssumption DEF LocalsOK, FilesOK, ThreadsOK, Contents
<1>5. Sourced'
    BY StateAssumption DEF RowsOK, ThreadsOK
<1> QED BY <1>1, <1>2, <1>3, <1>4, <1>5

\* PutBack keeps every variable in its type.
LEMMA TypePutBack ==
  ASSUME TypeInv, NEW r \in RestoreIds, PutBack(r)
  PROVE  TypeInv'
<1>1. ServerOK'
    BY ServerCalls DEF PutBack, ServerOK
<1> USE DEF PutBack, Replaceable
<1>2. RowsOK'
    BY StateAssumption DEF RowsOK, ThreadsOK, BackupJobStatus, ActiveBackup,
       BackupRowStatus, ActiveRestore, RestoreStatus
<1>3. ThreadsOK'
    BY StateAssumption DEF ThreadsOK, PC, Critical, BackupPC, RestorePC, HandlerPC
<1>4. LocalsOK' /\ FilesOK'
    BY StateAssumption DEF LocalsOK, FilesOK, ThreadsOK, Contents
<1>5. Sourced'
    BY StateAssumption DEF RowsOK, ThreadsOK
<1> QED BY <1>1, <1>2, <1>3, <1>4, <1>5

\* FailRestore keeps every variable in its type.
LEMMA TypeFailRestore ==
  ASSUME TypeInv, NEW r \in RestoreIds, FailRestore(r)
  PROVE  TypeInv'
BY StateAssumption DEF FailRestore, Phase, RowsOK, ThreadsOK, LocalsOK, FilesOK, ServerOK, Contents, PC,
   Critical, BackupPC, RestorePC, HandlerPC, BackupJobStatus, ActiveBackup, BackupRowStatus,
   ActiveRestore, RestoreStatus

\* ReviveServer keeps every variable in its type.
LEMMA TypeReviveServer ==
  ASSUME TypeInv, NEW r \in RestoreIds, ReviveServer(r)
  PROVE  TypeInv'
<1>1. ServerOK'
    BY ServerCalls DEF ReviveServer, ServerOK, StartRaises, StopRaises
<1>2. RowsOK' /\ ThreadsOK' /\ LocalsOK' /\ FilesOK' /\ Sourced'
    BY StateAssumption DEF ReviveServer, RowsOK, ThreadsOK, LocalsOK, FilesOK, ServerOK, Contents, PC,
   Critical, BackupPC, RestorePC, HandlerPC, BackupJobStatus, ActiveBackup, BackupRowStatus,
   ActiveRestore, RestoreStatus
<1> QED BY <1>1, <1>2

\* FinishRestore keeps every variable in its type.
LEMMA TypeFinishRestore ==
  ASSUME TypeInv, NEW r \in RestoreIds, FinishRestore(r)
  PROVE  TypeInv'
BY StateAssumption DEF FinishRestore, RowsOK, ThreadsOK, LocalsOK, FilesOK, ServerOK, Contents, PC,
   Critical, BackupPC, RestorePC, HandlerPC, BackupJobStatus, ActiveBackup, BackupRowStatus,
   ActiveRestore, RestoreStatus

\* The number that orders a new Backup row is a natural number.
LEMMA BornType ==
  Cardinality({ c \in BackupIds : bkp[c] # "none" }) + 1 \in Nat
<1> DEFINE S == { c \in BackupIds : bkp[c] # "none" }
<1>1. IsFiniteSet(S)
    BY StateAssumption, FS_Subset
<1>2. Cardinality(S) \in Nat
    BY <1>1, FS_CardinalityType
<1> QED BY <1>2

\* The steps of requests keep every variable in its type.
LEMMA TypeApi ==
  ASSUME TypeInv, ApiStep
  PROVE  TypeInv'
<1> USE StateAssumption DEF RowsOK, ThreadsOK, LocalsOK, FilesOK, ServerOK
<1>1. ASSUME NEW b \in BackupIds, CheckBackup(b) \/ CheckSchedule(b) PROVE TypeInv'
    BY <1>1 DEF CheckBackup, CheckSchedule
<1>2. ASSUME NEW b \in BackupIds, InsertBackup(b) PROVE TypeInv'
  <2>1. opts' \in [Jobs -> SUBSET Options]
    <3>1. PICK o \in {{}, {"offline"}} : opts' = [opts EXCEPT ![b] = o]
      <4>1. opts' \in { [opts EXCEPT ![b] = q] : q \in IF b \in Scheduled THEN {{}} ELSE {{}, {"offline"}} }
          BY <1>2, Zenon DEF InsertBackup
      <4>2. PICK q \in (IF b \in Scheduled THEN {{}} ELSE {{}, {"offline"}}) : opts' = [opts EXCEPT ![b] = q]
          BY <4>1, Zenon
      <4>3. q \in {{}, {"offline"}}
          BY Zenon
      <4> QED BY <4>2, <4>3, Zenon
    <3>2. o \in SUBSET Options
        BY DEF Options
    <3> QED BY <3>1, <3>2
  <2>2. born' \in [BackupIds -> Nat]
    <3>1. born \in [BackupIds -> Nat]
        OBVIOUS
    <3> HIDE DEF RowsOK, ThreadsOK, LocalsOK, FilesOK, ServerOK, TypeInv
    <3> QED BY <1>2, <3>1, BornType DEF InsertBackup
  <2>3. bjob' \in [BackupIds -> BackupJobStatus] /\ bkp' \in [BackupIds -> BackupRowStatus]
      BY <1>2 DEF InsertBackup, BackupJobStatus, BackupRowStatus, ActiveBackup
  <2>4. RowsOK'
      BY <1>2, <2>1, <2>2, <2>3 DEF InsertBackup
  <2>5. ThreadsOK'
      BY <1>2 DEF InsertBackup, PC
  <2>6. LocalsOK' /\ FilesOK' /\ ServerOK'
      BY <1>2 DEF InsertBackup
  <2>7. Sourced'
      BY <1>2 DEF InsertBackup
  <2> QED BY <2>4, <2>5, <2>6, <2>7
<1>3. ASSUME NEW r \in RestoreIds, InsertRestore(r) PROVE TypeInv'
  <2>1. PICK o \in SUBSET {"restart", "rollback"} : opts' = [opts EXCEPT ![r] = o]
      BY <1>3 DEF InsertRestore
  <2>2. opts' \in [Jobs -> SUBSET Options]
      BY <2>1 DEF Options
  <2> QED BY <1>3, <2>2 DEF InsertRestore, PC, RestoreStatus, ActiveRestore
<1>4. ASSUME NEW r \in RestoreIds, NEW b \in BackupIds, CheckRestore(r, b) PROVE TypeInv'
    BY <1>4 DEF CheckRestore
<1>5. ASSUME NEW b \in BackupIds, DeleteFiles(b) PROVE TypeInv'
    BY <1>5 DEF DeleteFiles, Unlink, Contents
<1>6. ASSUME ApplyRetention PROVE TypeInv'
    BY <1>6, ExpiredType DEF ApplyRetention, Unlink, Contents
<1>7. ASSUME CommitDeleted PROVE TypeInv'
    BY <1>7 DEF CommitDeleted, MarkDeleted, BackupRowStatus
<1> QED BY SMTT(30), <1>1, <1>2, <1>3, <1>4, <1>5, <1>6, <1>7 DEF ApiStep

\* So do the steps of Redis, of the game server, of its users and a crash.
LEMMA TypeEnvironment ==
  ASSUME TypeInv, LeaseTimeout \/ WriteWorld \/ UserLifecycle \/ \E p \in {"api", "worker"} : Crash(p)
  PROVE  TypeInv'
<1> USE StateAssumption DEF RowsOK, ThreadsOK, LocalsOK, FilesOK
<1>1. CASE LeaseTimeout
    BY <1>1 DEF LeaseTimeout, ServerOK
<1>2. CASE WriteWorld
    BY <1>2 DEF WriteWorld, Contents, Versions, ServerOK
<1>3. CASE UserLifecycle
  <2>1. ServerOK'
      BY <1>3, ServerCalls DEF UserLifecycle
  <2> QED BY <1>3, <2>1 DEF UserLifecycle
<1>4. ASSUME NEW p, Crash(p) PROVE TypeInv'
    BY <1>4 DEF Crash, PC, ServerOK
<1> QED BY <1>1, <1>2, <1>3, <1>4

\* The initial states are typed.
LEMMA TypeInit == Init => TypeInv
<1> SUFFICES ASSUME Init PROVE TypeInv
    OBVIOUS
<1>1. RowsOK
    BY DEF Init, RowsOK, BackupJobStatus, BackupRowStatus, RestoreStatus
<1>2. ThreadsOK /\ LocalsOK /\ ServerOK
    BY DEF Init, ThreadsOK, LocalsOK, ServerOK, PC
<1>3. FilesOK
    BY StateAssumption DEF Init, FilesOK, Contents, Versions
<1>4. Sourced
    BY DEF Init
<1> QED BY <1>1, <1>2, <1>3, <1>4

\* Every step keeps the type invariant.
LEMMA TypeStep == TypeInv /\ [Next]_vars => TypeInv'
<1> SUFFICES ASSUME TypeInv, [Next]_vars PROVE TypeInv'
    OBVIOUS
<1>1. ASSUME NEW b \in BackupIds, BackupStep(b) PROVE TypeInv'
    BY <1>1, TypeBegin, TypeAcquire, TypeUnlock, TypeUnwind, TypeAdmitBackup, TypeInspect, TypeSaveHold, TypeSaveQuery, TypeStopForBackup, TypeOpenTar, TypeCloseTar, TypeResumeServer, TypeStoreArchive, TypeCompleteBackup, TypeRetainUnlink, TypeRetainCommit, TypeRecoverServer, TypeFailBackup, TypeFinishBackup DEF BackupStep
<1>2. ASSUME NEW r \in RestoreIds, RestoreStep(r) PROVE TypeInv'
    BY <1>2, TypeBegin, TypeAcquire, TypeUnlock, TypeUnwind, TypeAdmitRestore, TypeValidateBackup, TypeStopForRestore, TypeExtract, TypeSwapOut, TypeSwapIn, TypeCopyConfig, TypeRestartServer, TypeCompleteRestore, TypeDropRollback, TypeHandleError, TypeSetAside, TypePutBack, TypeFailRestore, TypeReviveServer, TypeFinishRestore DEF RestoreStep
<1>3. CASE UNCHANGED vars
    BY <1>3 DEF vars, RowsOK, ThreadsOK, LocalsOK, FilesOK, ServerOK
<1> QED BY <1>1, <1>2, <1>3, TypeApi, TypeEnvironment DEF Next

LEMMA TypeAlways == Spec => []TypeInv
BY TypeInit, TypeStep, PTL DEF Spec

\* Every variable keeps its type, whatever the workers and their environment do.
THEOREM TypeCorrect == Spec => []TypeOK
<1>1. TypeInv => TypeOK
    OBVIOUS
<1> QED BY <1>1, TypeAlways, PTL

-----------------------------------------------------------------------------
(* Mutual exclusion.  While Redis answers and no lease runs out, whoever is past the   *)
(* acquisition owns the key: that, and not the exclusion, is inductive.      *)

LockHealthy == Env \cap {"redis_down", "lease_expiry"} = {}
Owned == \A j \in Jobs : pc[j] \in Critical => lock = j

\* A step that leaves the lock alone and brings no job into the critical section.
NoEntry ==
    /\ lock' = lock
    /\ \A j \in Jobs : pc'[j] \in Critical => pc[j] \in Critical

\* Such a step keeps ownership.
LEMMA NoEntryKeepsOwned ==
  ASSUME Owned, NoEntry
  PROVE  Owned'
BY DEF Owned, NoEntry, Critical, BackupPC, RestorePC

\* No step of run_backup_job but those on the lock enters the critical section.
LEMMA BackupMoves ==
  ASSUME pc \in [Jobs -> PC], NEW b \in BackupIds, BackupStep(b),
         ~Begin(b), ~Acquire(b), ~Unlock(b), ~Unwind(b)
  PROVE  NoEntry
<1> USE DEF NoEntry, Critical, BackupPC, RestorePC
<1>1. AdmitBackup(b) => NoEntry
    BY DEF AdmitBackup, Raise
<1>2. Inspect(b) => NoEntry
    BY DEF Inspect, Raise
<1>3. SaveHold(b) => NoEntry
    BY DEF SaveHold
<1>4. SaveQuery(b) => NoEntry
    BY DEF SaveQuery
<1>5. StopForBackup(b) => NoEntry
    BY DEF StopForBackup, Raise
<1>6. OpenTar(b) => NoEntry
    BY DEF OpenTar, Raise
<1>7. CloseTar(b) => NoEntry
    BY DEF CloseTar, Raise
<1>8. ResumeServer(b) => NoEntry
    BY DEF ResumeServer, Raise
<1>9. StoreArchive(b) => NoEntry
    BY DEF StoreArchive, Raise
<1>10. CompleteBackup(b) => NoEntry
    BY DEF CompleteBackup
<1>11. RetainUnlink(b) => NoEntry
    BY DEF RetainUnlink, Raise
<1>12. RetainCommit(b) => NoEntry
    BY DEF RetainCommit
<1>13. RecoverServer(b) => NoEntry
    BY DEF RecoverServer
<1>14. FailBackup(b) => NoEntry
    BY DEF FailBackup
<1>15. FinishBackup(b) => NoEntry
    BY DEF FinishBackup
<1> QED BY <1>1, <1>2, <1>3, <1>4, <1>5, <1>6, <1>7, <1>8, <1>9, <1>10, <1>11, <1>12, <1>13, <1>14, <1>15
    DEF BackupStep

\* No step of run_restore_job but those on the lock enters the critical section.
LEMMA RestoreMoves ==
  ASSUME pc \in [Jobs -> PC], NEW r \in RestoreIds, RestoreStep(r),
         ~Begin(r), ~Acquire(r), ~Unlock(r), ~Unwind(r)
  PROVE  NoEntry
<1> USE DEF NoEntry, Critical, BackupPC, RestorePC
<1>1. AdmitRestore(r) => NoEntry
    BY DEF AdmitRestore, RaiseRestore
<1>2. ValidateBackup(r) => NoEntry
    BY DEF ValidateBackup, RaiseRestore
<1>3. StopForRestore(r) => NoEntry
    BY DEF StopForRestore, RaiseRestore
<1>4. Extract(r) => NoEntry
    BY DEF Extract, RaiseRestore
<1>5. SwapOut(r) => NoEntry
    BY DEF SwapOut, RaiseRestore
<1>6. SwapIn(r) => NoEntry
    BY DEF SwapIn, RaiseRestore
<1>7. CopyConfig(r) => NoEntry
    BY DEF CopyConfig, RaiseRestore
<1>8. RestartServer(r) => NoEntry
    BY DEF RestartServer, RaiseRestore
<1>9. CompleteRestore(r) => NoEntry
    BY DEF CompleteRestore
<1>10. DropRollback(r) => NoEntry
    BY DEF DropRollback
<1>11. HandleError(r) => NoEntry
    BY DEF HandleError
<1>12. SetAside(r) => NoEntry
    BY DEF SetAside
<1>13. PutBack(r) => NoEntry
    BY DEF PutBack
<1>14. FailRestore(r) => NoEntry
    BY DEF FailRestore
<1>15. ReviveServer(r) => NoEntry
    BY DEF ReviveServer
<1>16. FinishRestore(r) => NoEntry
    BY DEF FinishRestore
<1> QED BY <1>1, <1>2, <1>3, <1>4, <1>5, <1>6, <1>7, <1>8, <1>9, <1>10, <1>11, <1>12, <1>13, <1>14, <1>15, <1>16
    DEF RestoreStep

\* Taking and releasing the lock keeps ownership when the lock is healthy.
LEMMA LockKeepsOwned ==
  ASSUME LockHealthy, pc \in [Jobs -> PC], Owned, NEW j \in Jobs,
         Begin(j) \/ Acquire(j) \/ Unlock(j) \/ Unwind(j)
  PROVE  Owned'
<1> USE StateAssumption DEF Owned
<1>1. CASE Begin(j)
    BY <1>1 DEF Begin, Critical, BackupPC, RestorePC
<1>2. CASE Acquire(j)
    BY <1>2 DEF Acquire, LockHealthy, Critical, BackupPC, RestorePC
<1>3. CASE Unlock(j)
    BY <1>3 DEF Unlock, Exit, LockHealthy, Critical, BackupPC, RestorePC
<1>4. CASE Unwind(j)
    BY <1>4 DEF Unwind, Exit, LockHealthy, Critical, BackupPC, RestorePC
<1> QED BY <1>1, <1>2, <1>3, <1>4

\* Requests, the expiry of a dead lease and a crash keep ownership.
LEMMA OthersKeepOwned ==
  ASSUME LockHealthy, pc \in [Jobs -> PC], Owned,
         ApiStep \/ LeaseTimeout \/ WriteWorld \/ UserLifecycle
            \/ (\E p \in {"api", "worker"} : Crash(p)) \/ UNCHANGED vars
  PROVE  Owned'
<1> USE StateAssumption DEF Owned
<1>1. CASE ApiStep
  <2>1. ASSUME NEW j \in Jobs, InsertBackup(j) \/ InsertRestore(j) PROVE Owned'
      BY <2>1 DEF InsertBackup, InsertRestore, Critical, BackupPC, RestorePC
  <2>2. ASSUME NEW b \in BackupIds, CheckBackup(b) \/ CheckSchedule(b) \/ DeleteFiles(b)
        PROVE Owned'
      BY <2>2 DEF CheckBackup, CheckSchedule, DeleteFiles
  <2>3. ASSUME NEW r \in RestoreIds, NEW b \in BackupIds, CheckRestore(r, b) PROVE Owned'
      BY <2>3 DEF CheckRestore
  <2>4. CASE ApplyRetention \/ CommitDeleted
      BY <2>4 DEF ApplyRetention, CommitDeleted
  <2> QED BY <1>1, <2>1, <2>2, <2>3, <2>4 DEF ApiStep
<1>2. CASE LeaseTimeout
    BY <1>2 DEF LeaseTimeout, LockHealthy
<1>3. CASE WriteWorld \/ UserLifecycle \/ UNCHANGED vars
    BY <1>3 DEF WriteWorld, UserLifecycle, vars
<1>4. ASSUME NEW p, Crash(p) PROVE Owned'
    BY <1>4 DEF Crash, Critical, BackupPC, RestorePC
<1> QED BY <1>1, <1>2, <1>3, <1>4

\* Whoever is past the acquisition owns the key.
LEMMA OwnedAlways ==
  ASSUME LockHealthy
  PROVE  Spec => []Owned
<1>1. Init => Owned
    BY DEF Init, Owned, Critical, BackupPC, RestorePC
<1>2. ASSUME TypeInv, Owned, [Next]_vars PROVE Owned'
  <2>1. pc \in [Jobs -> PC]
      BY <1>2 DEF ThreadsOK
  <2>2. ASSUME NEW b \in BackupIds, BackupStep(b) PROVE Owned'
      BY <1>2, <2>1, <2>2, BackupMoves, NoEntryKeepsOwned, LockKeepsOwned
  <2>3. ASSUME NEW r \in RestoreIds, RestoreStep(r) PROVE Owned'
      BY <1>2, <2>1, <2>3, RestoreMoves, NoEntryKeepsOwned, LockKeepsOwned
  <2> QED BY <1>2, <2>1, <2>2, <2>3, OthersKeepOwned DEF Next
<1> QED BY <1>1, <1>2, TypeAlways, PTL DEF Spec

\* Two jobs are never both inside server_backup_restore_lock, as long as Redis
\* answers and no job holds its lock longer than the lease.
THEOREM Exclusion ==
  ASSUME LockHealthy
  PROVE  Spec => []LockExclusion
<1>1. Owned => LockExclusion
    BY DEF Owned, LockExclusion
<1> QED BY <1>1, OwnedAlways, PTL

-----------------------------------------------------------------------------
(* The world is never lost.  The restore that moved it away, or that holds it   *)
(* for its rollback, is past the point where the rollback directory is       *)
(* created and before the one where it is dropped.                           *)

Early == {"none", "queued", "locking", "admit", "validate", "stopping", "extract"}
Landed == {"copycfg", "restart", "finish", "cleanup"}
Past == {"unlock", "unwind", "except", "fail", "failrb", "revive", "finally", "done", "lost"}

Staged == \A r \in RestoreIds : pc[r] \in {"swapout", "swapin"} => stage[r] # Absent
Saved == \A r \in RestoreIds : pc[r] \in {"setaside", "putback"} => rollback[r] # Absent
Unswapped == \A r \in RestoreIds : pc[r] \in Early \cup {"swapout"} => rollback[r] = Absent
Kept == world = Absent => \E r \in RestoreIds : rollback[r] # Absent /\ pc[r] \notin Landed
WorldInv == Staged /\ Saved /\ Unswapped /\ Kept

\* A step that moves no directory and takes no restore into or out of the swap.
Calm ==
    /\ UNCHANGED <<world, stage, rollback>>
    /\ \A r \in RestoreIds : \/ pc'[r] = pc[r]
                             \/ pc[r] \in Early /\ pc'[r] \in Early
                             \/ pc[r] \in Landed /\ pc'[r] \in Landed
                             \/ pc'[r] \in Past

\* Such a step keeps the invariant.
LEMMA CalmKeepsWorld ==
  ASSUME WorldInv, Calm
  PROVE  WorldInv'
<1>1. Staged' /\ Saved' /\ Unswapped'
    BY DEF WorldInv, Staged, Saved, Unswapped, Calm, Early, Landed, Past
<1>2. Kept'
    BY DEF WorldInv, Kept, Calm, Early, Landed, Past
<1> QED BY <1>1, <1>2 DEF WorldInv

\* No step of run_backup_job touches the world or a restore.
LEMMA BackupCalm ==
  ASSUME pc \in [Jobs -> PC], NEW b \in BackupIds, BackupStep(b)
  PROVE  Calm
<1> USE StateAssumption DEF Calm
<1>1. Begin(b) => Calm
    BY DEF Begin
<1>2. Acquire(b) => Calm
    BY DEF Acquire
<1>3. Unlock(b) => Calm
    BY DEF Unlock, Exit
<1>4. Unwind(b) => Calm
    BY DEF Unwind, Exit
<1>5. AdmitBackup(b) => Calm
    BY DEF AdmitBackup, Raise
<1>6. Inspect(b) => Calm
    BY DEF Inspect, Raise
<1>7. SaveHold(b) => Calm
    BY DEF SaveHold
<1>8. SaveQuery(b) => Calm
    BY DEF SaveQuery
<1>9. StopForBackup(b) => Calm
    BY DEF StopForBackup, Raise
<1>10. OpenTar(b) => Calm
    BY DEF OpenTar, Raise
<1>11. CloseTar(b) => Calm
    BY DEF CloseTar, Raise
<1>12. ResumeServer(b) => Calm
    BY DEF ResumeServer, Raise
<1>13. StoreArchive(b) => Calm
    BY DEF StoreArchive, Raise
<1>14. CompleteBackup(b) => Calm
    BY DEF CompleteBackup
<1>15. RetainUnlink(b) => Calm
    BY DEF RetainUnlink, Raise
<1>16. RetainCommit(b) => Calm
    BY DEF RetainCommit
<1>17. RecoverServer(b) => Calm
    BY DEF RecoverServer
<1>18. FailBackup(b) => Calm
    BY DEF FailBackup
<1>19. FinishBackup(b) => Calm
    BY DEF FinishBackup
<1> QED BY <1>1, <1>2, <1>3, <1>4, <1>5, <1>6, <1>7, <1>8, <1>9, <1>10, <1>11, <1>12, <1>13, <1>14, <1>15, <1>16, <1>17, <1>18, <1>19
    DEF BackupStep

\* Most steps of run_restore_job are calm.
LEMMA RestoreCalm ==
  ASSUME pc \in [Jobs -> PC], NEW r \in RestoreIds,
         Begin(r) \/ Acquire(r) \/ Unlock(r) \/ Unwind(r) \/ AdmitRestore(r) \/ ValidateBackup(r)
         \/ StopForRestore(r) \/ CopyConfig(r) \/ RestartServer(r) \/ CompleteRestore(r) \/ FailRestore(r) \/ ReviveServer(r)
  PROVE  Calm
<1> USE DEF Calm, Early, Landed, Past
<1>1. Begin(r) => Calm
    BY DEF Begin
<1>2. Acquire(r) => Calm
    BY DEF Acquire
<1>3. Unlock(r) => Calm
    BY DEF Unlock, Exit
<1>4. Unwind(r) => Calm
    BY DEF Unwind, Exit
<1>5. AdmitRestore(r) => Calm
    BY DEF AdmitRestore, RaiseRestore
<1>6. ValidateBackup(r) => Calm
    BY DEF ValidateBackup, RaiseRestore
<1>7. StopForRestore(r) => Calm
    BY DEF StopForRestore, RaiseRestore
<1>8. CopyConfig(r) => Calm
    BY DEF CopyConfig, RaiseRestore
<1>9. RestartServer(r) => Calm
    BY DEF RestartServer, RaiseRestore
<1>10. CompleteRestore(r) => Calm
    BY DEF CompleteRestore
<1>11. FailRestore(r) => Calm
    BY DEF FailRestore
<1>12. ReviveServer(r) => Calm
    BY DEF ReviveServer
<1> QED BY <1>1, <1>2, <1>3, <1>4, <1>5, <1>6, <1>7, <1>8, <1>9, <1>10, <1>11, <1>12

\* The others move a directory, and keep a copy of the world.
LEMMA SwapKeepsWorld ==
  ASSUME WorldInv, TypeInv, NEW r \in RestoreIds,
         Extract(r) \/ SwapOut(r) \/ SwapIn(r) \/ DropRollback(r)
         \/ HandleError(r) \/ SetAside(r) \/ PutBack(r) \/ FinishRestore(r)
  PROVE  WorldInv'
<1> USE StateAssumption DEF WorldInv, Staged, Saved, Unswapped, Kept, Early, Landed, ThreadsOK, FilesOK
<1>1. Extract(r) => WorldInv'
    BY DEF Extract, RaiseRestore, ArtifactOK
<1>2. SwapOut(r) => WorldInv'
    BY DEF SwapOut, RaiseRestore
<1>3. SwapIn(r) => WorldInv'
    BY DEF SwapIn, RaiseRestore, Replaceable
<1>4. DropRollback(r) => WorldInv'
    BY DEF DropRollback
<1>5. HandleError(r) => WorldInv'
    BY DEF HandleError
<1>6. SetAside(r) => WorldInv'
    BY DEF SetAside
<1>7. PutBack(r) => WorldInv'
    BY DEF PutBack, Replaceable
<1>8. FinishRestore(r) => WorldInv'
    BY DEF FinishRestore
<1> QED BY <1>1, <1>2, <1>3, <1>4, <1>5, <1>6, <1>7, <1>8

\* The game server generates a world where it finds none; the rest is calm.
LEMMA OthersKeepWorld ==
  ASSUME WorldInv, TypeInv,
         ApiStep \/ LeaseTimeout \/ WriteWorld \/ UserLifecycle
            \/ (\E p \in {"api", "worker"} : Crash(p)) \/ UNCHANGED vars
  PROVE  WorldInv'
<1>0. pc \in [Jobs -> PC]
    BY DEF ThreadsOK
<1>1. ASSUME NEW r \in RestoreIds, InsertRestore(r) PROVE Calm
    BY <1>0, <1>1 DEF InsertRestore, Calm, Early, Past
<1>2. ASSUME NEW b \in BackupIds, InsertBackup(b) PROVE Calm
    BY <1>0, <1>2, StateAssumption DEF InsertBackup, Calm
<1>3. ASSUME NEW b \in BackupIds, CheckBackup(b) \/ CheckSchedule(b) \/ DeleteFiles(b) PROVE Calm
    BY <1>3 DEF CheckBackup, CheckSchedule, DeleteFiles, Calm
<1>4. ASSUME NEW r \in RestoreIds, NEW b \in BackupIds, CheckRestore(r, b) PROVE Calm
    BY <1>4 DEF CheckRestore, Calm
<1>5. ApplyRetention \/ CommitDeleted \/ LeaseTimeout \/ UserLifecycle \/ UNCHANGED vars => Calm
    BY DEF ApplyRetention, CommitDeleted, LeaseTimeout, UserLifecycle, Calm, vars
<1>6. ASSUME NEW p, Crash(p) PROVE Calm
    BY <1>0, <1>6 DEF Crash, Calm, Early, Past
<1>7. WriteWorld => WorldInv'
    BY StateAssumption DEF WriteWorld, WorldInv, Staged, Saved, Unswapped, Kept, FilesOK, Versions
<1> QED BY <1>1, <1>2, <1>3, <1>4, <1>5, <1>6, <1>7, CalmKeepsWorld DEF ApiStep

\* Under every fault of the model, with any number of restores and with or
\* without the lock, a world that is not in place is in a rollback directory.
THEOREM WorldKept == Spec => []WorldNeverLost
<1>1. Init => WorldInv
    BY StateAssumption DEF Init, WorldInv, Staged, Saved, Unswapped, Kept
<1>2. ASSUME TypeInv, WorldInv, [Next]_vars PROVE WorldInv'
  <2>1. pc \in [Jobs -> PC]
      BY <1>2 DEF ThreadsOK
  <2>2. ASSUME NEW b \in BackupIds, BackupStep(b) PROVE WorldInv'
      BY <1>2, <2>1, <2>2, BackupCalm, CalmKeepsWorld
  <2>3. ASSUME NEW r \in RestoreIds, RestoreStep(r) PROVE WorldInv'
      BY <1>2, <2>1, <2>3, RestoreCalm, CalmKeepsWorld, SwapKeepsWorld DEF RestoreStep
  <2> QED BY <1>2, <2>2, <2>3, OthersKeepWorld DEF Next
<1>3. WorldInv => WorldNeverLost
    BY DEF WorldInv, Kept, WorldNeverLost
<1> QED BY <1>1, <1>2, <1>3, TypeAlways, PTL DEF Spec
=============================================================================
