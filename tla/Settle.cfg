\* Liveness: every awaited call may reject and Redis is on, so every
\* path of the timer callback is taken; two file events, two callbacks.
CONSTANTS
    Files = {f1, f2}
    NoFile = NoFile
    NoCache = NoCache
    JobSlots = {j1, j2}
    MaxSeq = 3
    Debounce <- MC_Debounce
    RenameWindow <- MC_RenameWindow
    RedisEnabled = TRUE
    CanDelete = TRUE
    Fallible <- AllOps
SPECIFICATION Spec
PROPERTIES EveryEventSettles
