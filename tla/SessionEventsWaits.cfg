CONSTANTS
    Waiters = {w1, w2}
    Capacity = 2
    Filters <- SomeFilters
    MaxSequence = 3
SPECIFICATION Spec
INVARIANTS
    NoEventIsLost
    NoLostWakeup
    FirstRetainedMatch
    NothingOutlivesAWait
PROPERTIES
    StatesNeverReturn
    EveryWaitIsAnswered
CHECK_DEADLOCK FALSE
