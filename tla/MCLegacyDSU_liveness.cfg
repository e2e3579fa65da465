\* Nothing fails; callbacks run, and who opened a batch closes it.
CONSTANTS
    d1 = d1
    d2 = d2
    t1 = t1
    t2 = t2
    t3 = t3
    None = None
    Instances <- MCInstances
    Tasks <- MCTasks3
    MaxFaults = 0
SPECIFICATION MCFairSpec
PROPERTIES Woken
CHECK_DEADLOCK FALSE
