SPECIFICATION FairSpec
CONSTANTS
    None = None
    VClusters <- V1
    Bindings <- OneRB
    Roles <- OneRole
    SCCNames <- TwoSCCs
    RoleRefs <- RefOwn
    SubjectSets <- SubjAll
    RuleSets <- RulesNarrow
    LabelMax = 4
    MaxEdits = 2
    MaxSCCEdits = 0
    MaxHostFaults = 2
    MaxVirtualFaults = 0
    MaxCrashes = 0
PROPERTIES GrantsConverge RevocationsConverge
CHECK_DEADLOCK FALSE
