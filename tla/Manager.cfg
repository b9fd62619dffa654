\* Both controllers, whatever the lookups find.
CONSTANTS
    ClassNames = {"k1"}
    ClassStates = {"ours", "foreign"}
    BlueprintStates = {"ok", "broken", "missing"}
    Gateways = {"g1"}
    ClassOf <- OneClass
    GatewayStates = {"live", "deleting", "missing"}
    Parents = {"p1"}
    GatewayOf <- OneGatewayOf
    RefKind <- OneKind
    RefGroup <- OneGroup
    RefLists <- OneList
    Resources = {"tg"}
    RouteResources <- OneResources
    RouteDeps <- OneDeps
    ClusterScoped = {}
    Managed = {}
    MaxEntries = 2
    MayDelete = FALSE
    MaxGen = 1
    MaxEdits = 1
    MaxFaults = 1
SPECIFICATION FairSpec
INVARIANTS UnacceptedIsRetried
PROPERTIES AcceptedIsCurrent ClassesSettle AcceptedIsServed RouteConverges
