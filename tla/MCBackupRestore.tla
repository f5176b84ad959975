--------------------------- MODULE MCBackupRestore ---------------------------
(* BackupRestore for TLC: ids are model values; restores, and the backups of *)
(* one origin, are interchangeable.                                          *)
EXTENDS BackupRestore, TLC

Symmetry == Permutations(RestoreIds) \cup Permutations(BackupIds \ Scheduled)
=============================================================================
