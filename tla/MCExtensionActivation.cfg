SPECIFICATION FairSpec
CONSTANTS
    Versions = {v1, v2, v3}
    WithUi = {v2}
    None = None
    NoFile = NoFile
    Handlers = {h1}
    Reinstalls = FALSE
    MaxChanges = 3
    MaxFaults = 2
INVARIANTS
    ActivationInv
PROPERTIES
    ProvenIsReplacedByConfirmation
    StartupEnds
CHECK_DEADLOCK FALSE
