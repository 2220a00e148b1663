CONSTANTS
    h1 = h1
    h2 = h2
    h3 = h3
    b1 = b1
    b2 = b2
    NoEntry = NoEntry
    Hashes <- Hashes2
    MaxVersion = 1
    Batches <- OneBatch
    MaxCrashes = 0
    MaxCommits = 3
    DiscardWriteLogs = TRUE
    RestoreVersions = {}
    SerialRestore = TRUE
SPECIFICATION Spec
INVARIANT FinalizedRootsReadable
SYMMETRY Symmetry
