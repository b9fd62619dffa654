\* Edits, faults and restarts at every point of a Reconcile of a route.
CONSTANTS
    ClassNames = {"k1"}
    ClassStates = {"ours"}
    BlueprintStates = {"ok", "missing"}
    Gateways = {"g1", "g2"}
    ClassOf <- PairSameClass
    GatewayStates = {"live", "missing"}
    Parents = {"p1", "p2", "p3"}
    GatewayOf <- PairGatewayOf
    RefKind <- PairKind
    RefGroup <- PairGroup
    RefLists <- PairLists
    Resources = {"tg", "bind"}
    RouteResources <- PairResources
    RouteDeps <- PairDeps
    ClusterScoped = {}
    Managed = {"tg"}
    MaxEntries = 2
    MayDelete = FALSE
    MaxGen = 2
    MaxEdits = 1
    MaxFaults = 1
SPECIFICATION RouteSpec
INVARIANTS RouteTypeOK RouteNoLostWakeup
PROPERTIES EntryIsBacked RouteImplementsOwner
