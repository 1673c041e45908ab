SPECIFICATION Spec
CONSTANTS
    first = first
    second = second
    Attempts = {first, second}
    LoginOf <- SameLogin
    MaxCompanies = 1
    MaxFailures = 3
    Faults = {"refused", "lost", "undoRefused", "rollbackTimeout", "skipped", "hangUp", "authCrash", "companyCrash"}
INVARIANTS
    TypeOK
    RetryNotBlocked
    LeftoversExplained
    NoOrphans
    FailedLeavesNoAccess
SYMMETRY AnyOrder
CHECK_DEADLOCK FALSE
