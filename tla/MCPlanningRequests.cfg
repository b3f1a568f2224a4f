SPECIFICATION FairSpec
CONSTANTS
    None = None
    Chunks = 1
    Batches = 2
    MaxPending = 2
    MaxEdits = 1
    MaxEvents = 1
INVARIANTS
    PlanningInv
PROPERTIES
    SignalsNeverOlder
    PlanningSettles
CHECK_DEADLOCK FALSE
