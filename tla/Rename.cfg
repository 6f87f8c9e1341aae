\* Rename pairing: four file events on two files, two callbacks in
\* flight; no call rejects and Redis is off (neither bears on renames).
CONSTANTS
    Files = {f1, f2}
    NoFile = NoFile
    NoCache = NoCache
    JobSlots = {j1, j2}
    MaxSeq = 5
    Debounce <- MC_Debounce
    RenameWindow <- MC_RenameWindow
    RedisEnabled = FALSE
    CanDelete = TRUE
    Fallible <- NoOps
SYMMETRY Symmetry
SPECIFICATION Spec
INVARIANTS TypeOK RenamePairing
PROPERTIES ClassifierRefinement DebounceRefinement
