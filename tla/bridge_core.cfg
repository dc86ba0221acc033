SPECIFICATION Spec
CONSTANTS
    None = None
    VClusters <- V1
    Bindings <- BothBindings
    Roles <- OneCR
    SCCNames <- TwoSCCs
    RoleRefs <- RefCR
    SubjectSets <- SubjMixed
    RuleSets <- RulesMixed
    LabelMax = 4
    MaxEdits = 1
    MaxSCCEdits = 1
    MaxHostFaults = 1
    MaxVirtualFaults = 1
    MaxCrashes = 0
INVARIANT TypeOK
PROPERTIES ReconcileTouchesOwn PairsFollowTheirLife
CHECK_DEADLOCK FALSE
