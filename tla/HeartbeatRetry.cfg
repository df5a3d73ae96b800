CONSTANTS
    Hosts = {h1}
    None = None
    StaleTicks = 1
    Scanning = FALSE
SPECIFICATION PublishSpec
PROPERTIES
    EveryFailureIsRetried
