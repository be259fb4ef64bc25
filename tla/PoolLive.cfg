SPECIFICATION FairSpec
CONSTANTS
    k1 = k1 k2 = k2 k3 = k3
    Size = 2
    Clients = {a}
    Tasks = {k1, k2}
    Batches <- Singles
    Nested = FALSE
    Panics = TRUE
    Deadline = FALSE
    StartMayFail = FALSE
    None = None
INVARIANTS
    ThreadsFitTheWork
PROPERTIES
    EverythingEnds
CHECK_DEADLOCK FALSE
