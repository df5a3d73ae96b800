CONSTANTS
    Commands = {c1, c2}
    Sessions = {s1}
    None = None
    MaxGeneration = 3
SPECIFICATION Spec
INVARIANTS
    ReferencesAreCurrent
    NoInspectionAfterResume
    ResultsAreCoherent
    TransitionsAreEarned
PROPERTIES
    ReferencesEndForCause
    EveryCallSettles
CHECK_DEADLOCK FALSE
