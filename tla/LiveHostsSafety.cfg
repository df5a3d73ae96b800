CONSTANTS
    Hosts = {h1, h2}
    None = None
    StaleTicks = 2
    Scanning = TRUE
SPECIFICATION SafeSpec
SYMMETRY HostSymmetry
INVARIANTS
    TypeOK
PROPERTIES
    ClosedIsWithdrawn
    PruneSparesTheLiving
    SteadyHostsAreSeen
