\* One callback at a time and no rejections: can the debounce lose a
\* change when the last event of a burst is a delete?
CONSTANTS
    Files = {f1, f2}
    NoFile = NoFile
    NoCache = NoCache
    JobSlots = {j1}
    MaxSeq = 3
    Debounce <- MC_Debounce
    RenameWindow <- MC_RenameWindow
    RedisEnabled = FALSE
    CanDelete = TRUE
    Fallible <- NoOps
SPECIFICATION Spec
INVARIANT QuiescentCompiledCurrent
