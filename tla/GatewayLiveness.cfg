\* The Gateway is edited and deleted during a Reconcile, with a failure or restart.
CONSTANTS
    N = 2
    Resources = {"lb", "dns"}
    ResourcesOf <- ChainResourcesOf
    Deps <- ChainDeps
    Managed = {}
    ClusterScoped = {"dns"}
    StatusDeps = {1}
    Classes = {"ours"}
    Blueprints <- GoodBlueprint
    MayDelete = TRUE
    MaxGen = 2
    MaxInp = 0
    MaxFaults = 1
SPECIFICATION FairSpec
CHECK_DEADLOCK FALSE
PROPERTIES Convergence DeletionCompletes
