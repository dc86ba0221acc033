SPECIFICATION FairSpec
CONSTANTS
    None = None
    Absent = Absent
    Fields <- AllFields
    SCCs <- TenantSCCs
    Ceilings <- TwoCeilings
    MaxEdits = 3
    MaxAdminDeletes = 1
    MaxFaults = 1
    MaxRestarts = 1
INVARIANTS TypeOK HostWithinCeiling NoCopyWithoutLicence CopyOfWhatIsAllowed
PROPERTIES TenantKeepsSCC CopyConverges
CHECK_DEADLOCK FALSE
