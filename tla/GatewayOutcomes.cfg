\* Every outcome of the lookups and of the status template, changing unnoticed.
CONSTANTS
    N = 2
    Resources = {"lb", "dns"}
    ResourcesOf <- ChainResourcesOf
    Deps <- ChainDeps
    Managed = {"lb"}
    ClusterScoped = {}
    StatusDeps = {1}
    Classes = {"ours", "foreign", "missing"}
    Blueprints <- AllBlueprints
    MayDelete = FALSE
    MaxGen = 1
    MaxInp = 1
    MaxFaults = 1
SPECIFICATION FairSpec
INVARIANTS ReadyConsistent
PROPERTIES Convergence
