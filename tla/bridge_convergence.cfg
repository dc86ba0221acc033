SPECIFICATION Spec
CONSTANTS
    None = None
    VClusters <- V1
    Bindings <- BothBindings
    Roles <- BothRoles
    SCCNames <- OneSCC
    RoleRefs <- RefOwn
    SubjectSets <- SubjMixed
    RuleSets <- RulesToggle
    LabelMax = 4
    MaxEdits = 2
    MaxSCCEdits = 0
    MaxHostFaults = 1
    MaxVirtualFaults = 0
    MaxCrashes = 1
INVARIANTS NoDanglingBinding GrantsInPlace RevokedGrantsGone
CHECK_DEADLOCK FALSE
