\* Policies and Gateways are edited while a Gateway is reconciled.
CONSTANTS
    Gateways = {"g1", "g2"}
    Configs = {"c1", "c2"}
    Names = {"user", "ctrl", "k1", "k2", "gw"}
    GwNamespace <- MCGwNamespace
    GwName <- MCGwName
    CfgNamespace <- MCCfgNamespace
    CfgKind <- MCCfgKind
    ControllerNamespace = "ctrl"
    ClassNames = {"k1", "k2"}
    FirstClass <- MCFirstClass
    Targets <- MCTargets
    NoNamespace = "none"
    MaxEdits = 3
SPECIFICATION FairSpec
CHECK_DEADLOCK FALSE
INVARIANTS NoMissedPolicy
PROPERTIES PoliciesArrive ResyncRepairs
