SPECIFICATION FairSpec
CONSTANTS
    Nothing = Nothing
    k1 = k1
    k2 = k2
    v1 = v1
    v2 = v2
    r1 = r1
    r2 = r2
    w1 = w1
    w2 = w2
    Keys = {k1}
    Values = {v1}
    Requests = {r1, r2}
    Writers = {w1}
    Life = 2
    MarkLife = 1
INVARIANTS
    CacheTypeOK
PROPERTIES
    DeletedStaysForgotten
    AnswersCatchUp
    NobodyWaitsForEver
