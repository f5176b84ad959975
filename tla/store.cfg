CONSTANTS
    None = None
    j1 = j1
    j2 = j2
    b1 = b1
    p1 = p1
    p2 = p2
    r1 = r1
    r2 = r2
    q1 = q1
    q2 = q2
    Servers <- ThreeServers
    JavaServers <- TwoJava
    Flavors = {"vanilla", "paper"}
    PluginFlavors = {"paper"}
    Releases = {r1, r2}
    Stock <- ThreeRows
    Requests = {q1, q2}
    MaxRequests = 3
    Projects = {p1, p2}
    Versions = {1, 2}
    Newest <- NewestOf
    Deps <- DepsOf
    Redis = TRUE
    Unbuilt <- NotBuilt
    Unavailable = {r2}
    Latest = r1
    Tuned <- OneTuned
    Values = {v1, v2}
    Default = v0
    Ports = {1, 2}
SPECIFICATION Spec
SYMMETRY Alike
INVARIANTS StoreTypeOK ToldIsInstalled  LaunchedWhole SettingKept ListensWhereTold
CHECK_DEADLOCK FALSE
