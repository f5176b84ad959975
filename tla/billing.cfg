SPECIFICATION Spec
CONSTANTS
    Orders = {o1, o2}
    Plans = {basic}
    PaddleIds = {p1}
    Duration = 1
    Trial = 1
    Grace = 1
    MaxDay = 2
    RowLocks = TRUE
    Faults = {"db_error", "rpc_error"}
    None = None
SYMMETRY Symmetry
INVARIANTS BillingTypeOK PaidOnce
PROPERTY EntitlementKept
CHECK_DEADLOCK FALSE
