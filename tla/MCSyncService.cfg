SPECIFICATION ServiceSpec
CONSTANTS
    Devices = {d1, d2}
    MaxSequence = 2
    Batches <- MCBatches
    Cursors <- MCCursors
    Bodies <- MCBodies
    MaxDevices = 2
    OperationQuota = 3
    RetainedManifests = 2
    MaxRequests = 1
SYMMETRY Symmetry
INVARIANTS
    ServiceTypeOK
    RetainedSuffix
    NoHistoryLost
    CatchUpIsComplete
PROPERTIES
    CompactionAcknowledged
    SequenceNeverReused
