SPECIFICATION FairSpec
CONSTANTS
    Roles <- MCRoles
    Processes <- MCProcesses
    RoleOf <- MCRoleOf
    FromBefore <- MCFromBefore
    EarlierKey = EarlierKey
    NoKey = NoKey
    Unwritten = Unwritten
    MaxGenerations = 2
    MaxFaults = 1
INVARIANTS UsedIsStored ToldIsPaid
PROPERTIES ResetEnds NoSilentWait
CHECK_DEADLOCK FALSE
