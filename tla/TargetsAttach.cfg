CONSTANTS
    Clients = {k1}
    Calls = {c1, c2, c3}
    r1 = r1
    Editors = {e1, e2}
    Roots = {r1}
    RootOf <- OneRoot
    Sessions = {s1, s2}
    TTL = 1
    MaxTime = 2
    None = None
    Budget = 9
    Envelope = 2
    Flag = 3
SPECIFICATION Spec
SYMMETRY Symmetry
INVARIANTS
    CapabilitiesAreTheLatest
    OneSessionPerRoot
PROPERTIES
    StartsAreEarned
    AttachedWhereAllowed
CHECK_DEADLOCK FALSE
