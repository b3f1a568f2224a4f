SPECIFICATION FairSpec
CONSTANTS
    Devices = {d1, d2}
    FirstDevice = d1
    Mobile = {d1, d2}
    MaxSequence = 2
    Batches <- MCBatches
    Cursors <- MCCursors
    Bodies <- MCBodies
    MaxDevices = 2
    OperationQuota = 10
    RetainedManifests = 2
    MaxRequests = 2
    PushLimit = 1
    PullLimit = 2
    Faults = {"push", "pull", "acknowledge", "crash", "revoke", "disconnect"}
    MaxFaults = 1
    Established = FALSE
    Concurrent = FALSE
    EditsDuringSync = FALSE
    Reviews = {}
    AnkiImports = {}
    ClientState = {}
    Deletions = {}
PROPERTIES
    Convergence
CHECK_DEADLOCK FALSE
