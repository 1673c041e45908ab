SPECIFICATION Spec
CONSTANTS
    Nothing = Nothing
    f1 = f1
    f2 = f2
    s1 = s1
    s2 = s2
    s3 = s3
    v1 = v1
    v2 = v2
    e1 = e1
    e2 = e2
    text = text
    number = number
    FieldIds = {f1, f2}
    Slugs = {s1, s2, s3}
    Types = {text}
    Views = {v1}
    Sessions = {e1, e2}
    Overlapping = TRUE
INVARIANTS
    CatalogueMatchesTable
CHECK_DEADLOCK FALSE
