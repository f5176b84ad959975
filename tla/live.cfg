SPECIFICATION FairSpec
CONSTANTS
    BackupIds = {b1, b2}
    RestoreIds = {r1}
    Scheduled = {b2}
    Threads = 2
    KeepManual = 1
    KeepScheduled = 1
    Defer = TRUE
    MaxWrites = 0
    IsJava = FALSE
    Env = {"io_error"}
    Free = Free
    Absent = Absent
    Torn = Torn
    Empty = Empty
PROPERTIES JobsFinish SavesResumed
CHECK_DEADLOCK FALSE
