\* Edits, faults and restarts at every point of a Reconcile.
CONSTANTS
    N = 2
    Resources = {"lb", "dns"}
    ResourcesOf <- ChainResourcesOf
    Deps <- ChainDeps
    Managed = {"lb"}
    ClusterScoped = {}
    StatusDeps = {1}
    Classes = {"ours"}
    Blueprints <- GoodBlueprint
    MayDelete = FALSE
    MaxGen = 2
    MaxInp = 1
    MaxFaults = 2
SPECIFICATION Spec
INVARIANTS TypeOK ProgrammedSound NoLostWakeup ReadyConsistent LoopSufficient
PROPERTIES NeverStaler ImplementsOwner
