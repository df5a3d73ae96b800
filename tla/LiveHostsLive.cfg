CONSTANTS
    Hosts = {h1, h2}
    None = None
    StaleTicks = 1
    Scanning = FALSE
SPECIFICATION PruneSpec
PROPERTIES
    DeadRecordsGo
    CloseResolves
