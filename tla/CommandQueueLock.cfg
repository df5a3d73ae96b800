CONSTANTS
    Commands = {c1, c2, c3, c4}
    Sessions = {s1, s2}
    NoQueue = NoQueue
SPECIFICATION Spec
INVARIANTS
    GrantsAreExact
    OneQueuePerSession
PROPERTIES
    ImplementsFairReadersWriters
