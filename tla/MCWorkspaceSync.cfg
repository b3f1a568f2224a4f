SPECIFICATION Spec
CONSTANTS
    Devices = {d1, d2, d3}
    FirstDevice = d1
    Mobile = {d2, d3}
    MaxSequence = 2
    Batches <- MCBatches
    Cursors <- MCCursors
    Bodies <- MCBodies
    MaxDevices = 3
    OperationQuota = 10
    RetainedManifests = 2
    MaxRequests = 2
    PushLimit = 1
    PullLimit = 2
    Faults = {"push", "pull", "commit", "acknowledge", "crash", "revoke"}
    MaxFaults = 1
    Established = TRUE
    Concurrent = FALSE
    EditsDuringSync = FALSE
    Reviews = {}
    AnkiImports = {}
    ClientState = {}
    Deletions = {}
INVARIANTS
    StoresAgree
    AckedImpliesApplied
    SnapshotIsExact
    NoPhantomRevert
PROPERTIES
    EditsReachOutbox
    ImplementsReplication
CHECK_DEADLOCK FALSE
