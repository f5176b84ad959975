SPECIFICATION Spec
CONSTANTS
    BackupIds = {b1, b2}
    RestoreIds = {r1}
    Scheduled = {b2}
    Threads = 2
    KeepManual = 1
    KeepScheduled = 1
    Defer = TRUE
    MaxWrites = 0
    IsJava = FALSE
    Env = {"purge", "lifecycle"}
    Free = Free
    Absent = Absent
    Torn = Torn
    Empty = Empty
INVARIANT CompletedHasArtifact
CHECK_DEADLOCK FALSE
