CONSTANTS
    h3 = h3
    b2 = b2
    h1 = h1
    h2 = h2
    b1 = b1
    NoEntry = NoEntry
    Hashes <- Hashes2
    MaxVersion = 1
    Batches <- OneBatch
    MaxCrashes = 0
    MaxCommits = 2
    DiscardWriteLogs = FALSE
    RestoreVersions = {1}
    SerialRestore = TRUE
SPECIFICATION Spec
INVARIANT FinalizedWriteLogsOwned
PROPERTY FinalizedVersionFrozen
SYMMETRY Symmetry
