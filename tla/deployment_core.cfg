SPECIFICATION FairSpec
CONSTANTS
    Absent = Absent
    MaxDeploys = 2
    MaxFaults = 1
    Kinds <- MCKinds
    Configurations <- MCConfigurations
    MaxAttempts = 1
    MaxStartFailures = 1
    Objects <- MCObjects
    Namespace <- MCNamespace
    vcluster <- v1
    KindChoices <- MCKindChoices
    Contents <- MCContents
    Statuses = {"admitted"}
    CAs = {"ca1", "ca2"}
    MaxEdits = 2
    MaxHostEdits = 1
    MaxCallFaults = 1
    MaxCAFaults = 1
    MaxCrashes = 1
    Scenarios <- MCScenarios
    HostCA <- Rotated
    MaxMishaps = 2
INVARIANTS TypeOK NothingInClusterOnHost CompleteMeansDone SettledInPlace SettledStatusReported RoutesShareCA ServiceCAInPlace
PROPERTIES TenantKeepsObject PluginComesUp ObjectsConverge
CHECK_DEADLOCK FALSE
