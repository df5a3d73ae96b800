CONSTANTS
    Hooks = 2
    Disposers = {d1, d2}
    Objects = {b1, b2}
SPECIFICATION BreakpointsSpec
INVARIANTS
    NothingIsLeft
    AdvertisedHostsListen
    OwnershipFollowsTheEditor
PROPERTIES
    EveryoneIsAnswered
CHECK_DEADLOCK FALSE
