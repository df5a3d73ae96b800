CONSTANTS
    s1 = s1
    s2 = s2
    s3 = s3
    i1 = i1
    i2 = i2
    Sessions = {s1, s2}
    Ids = {i1}
    IdOf <- OneId
    Clients = {k1, k2}
    None = None
SPECIFICATION Spec
INVARIANTS
    ReusedSessionsAreActive
CHECK_DEADLOCK FALSE
