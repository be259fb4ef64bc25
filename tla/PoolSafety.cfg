SPECIFICATION Spec
CONSTANTS
    k1 = k1 k2 = k2 k3 = k3
    Size = 2
    Clients = {a}
    Tasks = {k1, k2, k3}
    Batches <- BatchOfTwo
    Nested = TRUE
    Panics = FALSE
    Deadline = TRUE
    StartMayFail = TRUE
    None = None
INVARIANTS
    TypeOK
    CountsAreTrue
    EveryTaskHasAThread
    NoLostWakeup
    OnlyTasksBlockTasks
    ShutdownDrains
CHECK_DEADLOCK FALSE
