\* A domain is named by itself and with a wildcard.
CONSTANTS
    Labels = {"com", "ex", "a", "b"}
    Domains <- MCDomains
    Routes = {"r1", "r2"}
    Namespaces = {"ns0", "ns1"}
    RouteNamespace <- MCRouteNamespace
    GwNamespace = "ns0"
    GwName = "gw"
    Refs <- MCRefs
    MaxHostnames = 2
    Unset = Unset
SPECIFICATION Spec
INVARIANTS NothingLost
