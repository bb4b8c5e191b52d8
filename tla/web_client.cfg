SPECIFICATION WebSpec
CONSTANTS
    Call = {c1}
    None = None
    SyncAttempts = 2
    Budget <- Budgets
    MaxChains = 2
INVARIANTS
    WebTypeOK
    Converged
    ResumesOpenCall
    PendingIsAttended
PROPERTIES
    PostCallSyncSettles
CHECK_DEADLOCK FALSE
