CONSTANTS
    Commands = {c1, c2}
    Recognized = {"v1", "v2"}
    Current = "v2"
    None = None
    MaxEdits = 2
SPECIFICATION Spec
SYMMETRY CommandSymmetry
PROPERTIES
    OnlyOwnEntryChanges
    AllOrNothing
CHECK_DEADLOCK FALSE
