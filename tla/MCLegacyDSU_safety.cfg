\* Three tasks on two instances; up to two calls fail.
CONSTANTS
    d1 = d1
    d2 = d2
    t1 = t1
    t2 = t2
    t3 = t3
    None = None
    Instances <- MCInstances
    Tasks <- MCTasks3
    MaxFaults = 2
SPECIFICATION Spec
INVARIANTS Inv OneRealBatch WritesAreKept
SYMMETRY MCSymmetry
CHECK_DEADLOCK FALSE
