SPECIFICATION Spec
CONSTANTS
    None = None
    VClusters <- V1
    Bindings <- OneRB
    Roles <- OneCR
    SCCNames <- OneSCC
    RoleRefs <- RefCR
    SubjectSets <- SubjSA
    RuleSets <- RulesOne
    LabelMax = 4
    MaxEdits = 1
    MaxSCCEdits = 0
    MaxHostFaults = 0
    MaxVirtualFaults = 0
    MaxCrashes = 0
INVARIANT GrantsInPlace
CHECK_DEADLOCK FALSE
