\* The blueprint of one parent does not parse.
CONSTANTS
    ClassNames = {"k1", "k2"}
    ClassStates = {"ours"}
    BlueprintStates = {"ok", "broken"}
    Gateways = {"g1", "g2"}
    ClassOf <- PairTwoClasses
    GatewayStates = {"live"}
    Parents = {"p1", "p2", "p3"}
    GatewayOf <- PairGatewayOf
    RefKind <- PairKind
    RefGroup <- PairGroup
    RefLists <- PairFixedList
    Resources = {"tg", "bind"}
    RouteResources <- PairResources
    RouteDeps <- PairDeps
    ClusterScoped = {}
    Managed = {"tg"}
    MaxEntries = 2
    MayDelete = FALSE
    MaxGen = 1
    MaxEdits = 0
    MaxFaults = 0
SPECIFICATION RouteFairSpec
PROPERTIES ParentsIndependent
