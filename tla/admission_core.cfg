SPECIFICATION FairSpec
CONSTANTS
    None = None
    Absent = Absent
    VClusters <- V1
    vcluster <- v1
    sccName <- anyuid
    SCCNames <- OneSCC
    Pod <- AppPod
    defaultSCC <- restricted
    Bindings <- TwoBindings
    Roles <- TwoRoles
    RoleRefs <- ToRole
    SubjectSets <- ToApp
    RuleSets <- UseRules
    Fields <- RunAsUser
    SCCs <- TwoContents
    Ceilings <- OneCeiling
    LabelMax = 4
    Starts <- SomeStarts
    MaxEdits = 2
    MaxFaults = 1
    MaxCrashes = 1
INVARIANTS TypeOK HookAndBridgeAgree UsableIsAdmitted AdmittedHadAGrant
PROPERTY PodStarts
CHECK_DEADLOCK FALSE
