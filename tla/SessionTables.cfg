CONSTANTS
    s1 = s1
    s2 = s2
    s3 = s3
    i1 = i1
    i2 = i2
    Sessions = {s1, s2, s3}
    Ids = {i1, i2}
    IdOf <- SharedId
    Clients = {k1}
    None = None
SPECIFICATION Spec
SYMMETRY ObjectSymmetry
INVARIANTS
    TablesAgree
    EndedSessionsAreForgotten
    WaitersHearOfTheEnd
PROPERTIES
    ReferencesKeepTheirSession
CHECK_DEADLOCK FALSE
