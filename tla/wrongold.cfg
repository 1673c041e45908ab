SPECIFICATION Spec
CONSTANTS
    Nothing = Nothing
    NoHash = NoHash
    c1 = c1
    c2 = c2
    c3 = c3
    p1 = p1
    p2 = p2
    p3 = p3
    Calls = {c1}
    Passwords = {p1, p2}
INVARIANTS
    RefusedChangesNothing
