SPECIFICATION FairSpec
CONSTANTS
    Nothing = Nothing
    t1 = t1
    t2 = t2
    p1 = p1
    p2 = p2
    p3 = p3
    p4 = p4
    c1 = c1
    c2 = c2
    e1 = e1
    e2 = e2
    Tenants = {t1}
    Pools = {p1, p2, p3}
    Connects = {c1, c2}
    Edits = {e1, e2}
    MaxConns = 2
INVARIANTS
    PoolsTypeOK
    TenantsReachable
    NoPoolLost
PROPERTIES
    AllEndUnlessStarved
