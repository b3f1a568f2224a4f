SPECIFICATION FairSpec
CONSTANTS
    a = a
    b = b
    Items = {a, b}
    First = {a}
    MaxVersion = 3
    None = None
    MaxEdits = 3
    MaxFailures = 1
    MaxAttempts = 3
    MaxHarms = 1
    MaxRecoveries = 2
    MaxChanges = 3
    Overlap = {}

    
PROPERTIES
    NoRegression
    OutcomeReported
CHECK_DEADLOCK FALSE
