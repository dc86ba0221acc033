SPECIFICATION Spec
CONSTANTS
    None = None
    VClusters <- V1
    Bindings <- OneCRB
    Roles <- OneCR
    SCCNames <- OneSCC
    RoleRefs <- RefCR
    SubjectSets <- SubjSA
    RuleSets <- RulesOne
    LabelMax = 4
    MaxEdits = 1
    MaxSCCEdits = 0
    MaxHostFaults = 0
    MaxVirtualFaults = 0
    MaxCrashes = 1
INVARIANT DeletedBindingsCleanedUp
CHECK_DEADLOCK FALSE
