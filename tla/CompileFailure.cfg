\* compile may reject: is the client still notified?
CONSTANTS
    Files = {f1, f2}
    NoFile = NoFile
    NoCache = NoCache
    JobSlots = {j1}
    MaxSeq = 3
    Debounce <- MC_Debounce
    RenameWindow <- MC_RenameWindow
    RedisEnabled = FALSE
    CanDelete = FALSE
    Fallible <- CompileFails
SPECIFICATION Spec
PROPERTY NotifyEveryOutcome
