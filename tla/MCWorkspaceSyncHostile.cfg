SPECIFICATION Spec
CONSTANTS
    Devices = {d1, d2}
    FirstDevice = d1
    Mobile = {d2}
    MaxSequence = 2
    Batches <- MCBatches
    Cursors <- MCCursors
    Bodies <- MCBodies
    MaxDevices = 2
    OperationQuota = 3
    RetainedManifests = 2
    MaxRequests = 2
    PushLimit = 1
    PullLimit = 2
    Faults = {"push", "pull", "upload", "download", "commit", "save", "acknowledge", "crash", "revoke", "disconnect"}
    MaxFaults = 1
    Established = FALSE
    Concurrent = TRUE
    EditsDuringSync = TRUE
    Reviews = {}
    AnkiImports = {}
    ClientState <- MCMobileOperations
    Deletions <- MCFirstOperation
INVARIANTS
    LogsAgree
CHECK_DEADLOCK FALSE
