CONSTANTS
    Calls = {c1, c2}
    MaxLinks = 3
    MaxFrame = 3
    Malformed <- Sevens
    Unsafe = Unsafe
SPECIFICATION Spec
INVARIANTS
    OneLiveLink
    PeersAgree
    NobodyIsForgotten
PROPERTIES
    ImplementsAtMostOnceCalls
    EveryCallIsAnswered
CHECK_DEADLOCK FALSE
