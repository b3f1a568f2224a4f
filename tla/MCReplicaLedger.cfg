SPECIFICATION Spec
CONSTANTS
    Devices = {1, 2}
    Fields = {"front"}
    Tags = {"hard"}
    Values = {va, vb, vc}
    NoValue = NoValue
    Skew <- MCNoSkew
    MaxAhead = 2
    Deletes = TRUE
    MaxEdits = 3
    MaxFailures = 1
SYMMETRY MCValueSymmetry
INVARIANTS
LedgerInv CaptureKeepsEdits
PROPERTY ResolvedIsSettled
CHECK_DEADLOCK FALSE
