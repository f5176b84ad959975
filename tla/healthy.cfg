SPECIFICATION Spec
CONSTANTS
    BackupIds = {b1, b2}
    RestoreIds = {r1}
    Scheduled = {b2}
    Threads = 2
    KeepManual = 1
    KeepScheduled = 1
    Defer = TRUE
    MaxWrites = 2
    IsJava = FALSE
    Env = {"crash"}
    Free = Free
    Absent = Absent
    Torn = Torn
    Empty = Empty
INVARIANTS
    LockExclusion
    
    NoTornBackup
    RetentionLeavesOne
PROPERTIES
    
    StopOnlyForIntactBackup
CHECK_DEADLOCK FALSE
