CONSTANTS
    s1 = s1
    n1 = n1
    a1 = a1
    a2 = a2
    None = None
    Servers = {s1}
    Java = {s1}
    Nodes = {n1}
    Actors = {a1, a2}
    Capacity = 1
    Shared = TRUE
    Features = {"drain", "reprovision", "delete"}
    Faults = {"break", "linger", "cut", "delay", "timeout", "die", "restart"}
    MaxBreaks = 1
    MaxMoves = 1
    History = FALSE
SPECIFICATION FairFleetSpec
PROPERTIES NodeRecovers GhostSettles
CHECK_DEADLOCK FALSE
