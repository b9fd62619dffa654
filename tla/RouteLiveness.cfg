\* A route of two parents is edited and deleted, with a failure or restart; blueprints
\* may not parse, and the first parent has a cluster-scoped child.
CONSTANTS
    ClassNames = {"k1", "k2"}
    ClassStates = {"ours"}
    BlueprintStates = {"ok", "broken"}
    Gateways = {"g1", "g2"}
    ClassOf <- PairTwoClasses
    GatewayStates = {"live"}
    Parents = {"p1", "p2", "p3"}
    GatewayOf <- PairGatewayOf
    RefKind <- PairKind
    RefGroup <- PairGroup
    RefLists <- PairFixedList
    Resources = {"tg", "bind"}
    RouteResources <- PairResources
    RouteDeps <- PairDeps
    ClusterScoped = {"tg"}
    Managed = {}
    MaxEntries = 2
    MayDelete = TRUE
    MaxGen = 2
    MaxEdits = 0
    MaxFaults = 1
SPECIFICATION RouteFairSpec
CHECK_DEADLOCK FALSE
PROPERTIES RouteConverges RouteDeletionCompletes
