SPECIFICATION Spec
CONSTANTS
    first = first
    second = second
    Attempts = {first, second}
    LoginOf <- OwnLogin
    MaxCompanies = 0
    MaxFailures = 2
    Faults = {"refused", "lost", "undoRefused", "rollbackTimeout", "hangUp", "authCrash", "companyCrash"}
PROPERTIES
    KeepsPromise
CHECK_DEADLOCK FALSE
