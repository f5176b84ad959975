SPECIFICATION FairSpec
CONSTANTS
    Orders = {o1, o2}
    Plans = {basic}
    PaddleIds = {}
    Duration = 1
    Trial = 1
    Grace = 1
    MaxDay = 2
    RowLocks = TRUE
    Faults = {"rpc_error"}
    None = None
PROPERTY PaymentsFulfilled
CHECK_DEADLOCK FALSE
