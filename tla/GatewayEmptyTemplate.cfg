\* A template that renders to no resource.
CONSTANTS
    N = 2
    Resources = {"lb"}
    ResourcesOf <- EmptyResourcesOf
    Deps <- NoDeps
    Managed = {"lb"}
    ClusterScoped = {}
    StatusDeps = {1}
    Classes = {"ours"}
    Blueprints <- GoodBlueprint
    MayDelete = FALSE
    MaxGen = 1
    MaxInp = 0
    MaxFaults = 0
SPECIFICATION FairSpec
PROPERTIES EmptyTemplateProgrammed
