SPECIFICATION StoreSpec
CONSTANTS
    a = a
    b = b
    m = m
    Items = {a, b}
    MaxVersion = 2
    Settings = {0, 1}
    Changes <- MCChanges
    Incoming <- MCIncoming
    None = None
    Unfiled = {}
    Media = {m}
    ExtensionMedia = {x}
    Keys = {k}
    Structure = Structure
    MaxRevision = 3
    MaxDecks = 0
    Overlap = FALSE
INVARIANTS
    StoreIsComplete
    CacheIsDisk
    JournalReplays
    ReceiptMeansApplied
PROPERTY
    ImplementsDurability
CHECK_DEADLOCK FALSE
