SPECIFICATION Spec
CONSTANTS
    None = None
    VClusters <- V1
    Bindings <- OneCRB
    Roles <- OneCR
    SCCNames <- TwoSCCs
    RoleRefs <- RefCR
    SubjectSets <- SubjSA
    RuleSets <- RulesNamed
    LabelMax = 4
    MaxEdits = 1
    MaxSCCEdits = 0
    MaxHostFaults = 0
    MaxVirtualFaults = 0
    MaxCrashes = 0
INVARIANT NoStaleGrant
CHECK_DEADLOCK FALSE
