CONSTANTS
    LoadIds = {l1, l2}
    NoLoad = NoLoad
    ReloadSlots = {r1, r2}
    MaxSeq = 4
    CanDelete = TRUE
    ImportMayFail = TRUE
SPECIFICATION Spec
INVARIANT TypeOK
