CONSTANTS
    LoadIds = {l1}
    NoLoad = NoLoad
    ReloadSlots = {r1, r2}
    MaxSeq = 4
    CanDelete = FALSE
    ImportMayFail = FALSE
SPECIFICATION Spec
INVARIANT RolesCurrent
