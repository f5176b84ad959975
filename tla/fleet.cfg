CONSTANTS
    s1 = s1
    s2 = s2
    n1 = n1
    n2 = n2
    a1 = a1
    None = None
    Servers = {s1, s2}
    Java = {s1}
    Nodes = {n1, n2}
    Actors = {a1}
    Capacity = 1
    Shared = TRUE
    Features = {"rebalance", "shutdown", "migrate", "switch", "delete", "poll"}
    Faults = {"die"}
    MaxBreaks = 0
    MaxMoves = 1
    History = TRUE
SPECIFICATION FleetSpec
INVARIANTS FleetTypeOK 
PROPERTIES  WorldNotPulled
CHECK_DEADLOCK FALSE
SYMMETRY SameNodes
