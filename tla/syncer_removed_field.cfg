SPECIFICATION Spec
CONSTANTS
    None = None
    Absent = Absent
    Fields <- AllFields
    SCCs <- TenantSCCs
    Ceilings <- OneCeiling
    MaxEdits = 2
    MaxAdminDeletes = 0
    MaxFaults = 0
    MaxRestarts = 0
INVARIANT CopyIsFaithful
CHECK_DEADLOCK FALSE
