\* clearCache may reject: is updateCollections still attempted?
CONSTANTS
    Files = {f1, f2}
    NoFile = NoFile
    NoCache = NoCache
    JobSlots = {j1}
    MaxSeq = 3
    Debounce <- MC_Debounce
    RenameWindow <- MC_RenameWindow
    RedisEnabled = TRUE
    CanDelete = FALSE
    Fallible <- ClearCacheFails
SPECIFICATION Spec
PROPERTY SyncBestEffort
