\* Up to two policies beside the blueprint.
CONSTANTS
    Parts <- MCParts
    MaxPolicies = 2
    MaxBorn = 2
SPECIFICATION Spec
INVARIANTS ValuesFollowHierarchy 
PROPERTIES MergeIsLocal
