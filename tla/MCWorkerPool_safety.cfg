\* Two workers at most, four tasks and two failures.
SPECIFICATION FairSpec
CONSTANTS
    Tasks = {t1, t2, t3, t4}
    Workers = {w1, w2, w3, w4}
    None = None
    MaximumNumberOfWorkers = 2
    MaxFaults = 2
INVARIANTS
    Inv
    TasksAreKept
    NoWorkerRestsBesideAQueue
    CountIsRight
PROPERTY
    TasksAreAnswered
CHECK_DEADLOCK FALSE
