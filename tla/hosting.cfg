CONSTANTS
    a1 = a1
    a2 = a2
    e1 = e1
    None = None
    Wake = Wake
    Actors = {a1, a2}
    Envs = {e1}
    Sources = {"image", "github"}
    Pullable = {"image"}
    Faults = {}
    MaxRequests = 4
    MaxUpsets = 1
SPECIFICATION HostingSpec
INVARIANTS HostingTypeOK RowTellsTruth NoStrayRoute RanAsRecorded OneActiveRevision SnapshotSound
SYMMETRY Symmetry
CHECK_DEADLOCK FALSE
