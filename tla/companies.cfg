SPECIFICATION Spec
CONSTANTS
    first = first
    second = second
    Attempts = {first, second}
    LoginOf <- OwnLogin
    MaxCompanies = 1
    MaxFailures = 0
    Faults = {}
INVARIANTS
    AtMostMaxCompanies
CHECK_DEADLOCK FALSE
