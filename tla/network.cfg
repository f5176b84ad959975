CONSTANTS
    None = None
    s1 = s1
    s2 = s2
    s3 = s3
    n1 = n1
    n2 = n2
    a1 = a1
    a2 = a2
    c1 = c1
    Servers <- ThreeServers
    Nodes <- TwoNodes
    Bedrock <- TwoBedrock
    Actors = {a1, a2}
    JavaPorts <- JavaRange
    BedrockPorts <- BedrockRange
    ProxyPorts <- ProxyRange
    Busy = {1}
    Stock <- ThreeRows
    MaxRequests = 2
    Clients = {c1}
    BindMayFail = FALSE
SPECIFICATION FairSpec
INVARIANTS NetworkTypeOK NoPortClash PickStaysFree
PROPERTIES RightServer RoutesSettle
CHECK_DEADLOCK FALSE
