SPECIFICATION Spec
CONSTANTS
    None = None
    VClusters <- V1
    vcluster <- v1
    Bindings <- HookBindings
    Roles <- HookRoles
    SCCNames <- HookSCCs
    RoleRefs <- HookRefs
    SubjectSets <- HookSubjects
    RuleSets <- HookRules
    Pods <- HookPods
    defaultSCC <- restricted
    Priorities = {0, 10}
    NameRank <- HookRank
    MaxEdits = 2
    MaxFaults = 1
INVARIANTS TypeOK SelectionIsBestOfAnInstant SelectionWasGranted SelectionHasAGrant
CHECK_DEADLOCK FALSE
