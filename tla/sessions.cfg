SPECIFICATION Spec
CONSTANTS
    Nothing = Nothing
    c1 = c1
    c2 = c2
    c3 = c3
    e1 = e1
    e2 = e2
    Calls = {c1, c2}
    Environments = {e1, e2}
    SessionLimit = 1
    MaxSessions = 3
    Active = {1}
    Life = 1
    CacheLife = 1
INVARIANTS
    SessionsTypeOK
    LimitUnlessOverlapped
    SignedOutStaysOut
    OneEnvironmentUnlessRaced
PROPERTIES
    NeverRevived
SYMMETRY AnyOrder
