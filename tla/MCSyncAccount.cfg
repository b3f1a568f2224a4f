SPECIFICATION Spec
CONSTANTS
    Callers = {c1, c2}
    None = None
    Alone = TRUE
    MaxCalls = 5
    MaxEdits = 1
    MaxFaults = 2
SYMMETRY MCSymmetry
INVARIANTS
    RecordIsCurrent
PROPERTIES
    JournalIsCommitted
    NothingOverwritten
CHECK_DEADLOCK FALSE
