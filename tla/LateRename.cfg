\* Spec 8's rename threshold against timers that fire late: one file,
\* one callback slot, four events.
CONSTANTS
    Files = {f1}
    NoFile = NoFile
    NoCache = NoCache
    JobSlots = {j1}
    MaxSeq = 4
    Debounce <- MC_Debounce
    RenameWindow <- MC_RenameWindow
    RedisEnabled = FALSE
    CanDelete = TRUE
    Fallible <- NoOps
SPECIFICATION Spec
PROPERTY RenameWithinWindow
