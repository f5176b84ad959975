CONSTANTS
    a1 = a1
    a2 = a2
    e1 = e1
    None = None
    Wake = Wake
    Actors = {a1, a2}
    Envs = {e1}
    Sources = {"image", "github"}
    Pullable = {"image"}
    Faults = {"agent", "amnesia"}
    MaxRequests = 3
    MaxUpsets = 1
SPECIFICATION FairHostingSpec
PROPERTIES BuildingSettles BackedUpDaily
CHECK_DEADLOCK FALSE
