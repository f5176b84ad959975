SPECIFICATION Spec
CONSTANTS
    BackupIds = {b1}
    RestoreIds = {r1}
    Scheduled = {b1}
    Threads = 2
    KeepManual = 1
    KeepScheduled = 1
    Defer = TRUE
    MaxWrites = 0
    IsJava = FALSE
    Env = {"redis_down", "lease_expiry", "crash", "io_error", "rpc_error", "lifecycle", "purge"}
    Free = Free
    Absent = Absent
    Torn = Torn
    Empty = Empty
INVARIANTS TypeOK WorldNeverLost
CHECK_DEADLOCK FALSE
