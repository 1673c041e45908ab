SPECIFICATION FairBootstrapSpec
CONSTANTS
    first = first
    second = second
    third = third
    Attempts = {first, second, third}
    LoginOf <- SameLogin
    MaxCompanies = 1
    MaxFailures = 1
    Faults = {"refused", "lost", "undoRefused", "rollbackTimeout", "hangUp", "authCrash", "companyCrash"}
INVARIANTS
    BootstrapTypeOK
    MarkerMeansInstalled
    UnusableOnlyForReason
    OneToolOneCompany
PROPERTIES
    CommandsEnd
    EveryRegistrationAnswers
CHECK_DEADLOCK FALSE
