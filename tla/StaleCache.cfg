\* Writes only, one callback, Redis on: can an API request refill the
\* cache between clearCache and updateCollections?
CONSTANTS
    Files = {f1, f2}
    NoFile = NoFile
    NoCache = NoCache
    JobSlots = {j1}
    MaxSeq = 3
    Debounce <- MC_Debounce
    RenameWindow <- MC_RenameWindow
    RedisEnabled = TRUE
    CanDelete = FALSE
    Fallible <- NoOps
SPECIFICATION Spec
INVARIANT CacheCoherent
