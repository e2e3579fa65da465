\* getLastVersion may fail.
CONSTANTS
    c1 = c1
    c2 = c2
    f1 = f1
    f2 = f2
    Clients <- MCClients
    Files <- MCFiles
    Kinds <- AllKinds
    Faults <- AllFaults
    Seeds <- MCSeeds
    MaxWrites = 1
    MaxFaults = 1
    MaxReopens = 0
SPECIFICATION Spec
INVARIANTS ErrorsKeepChangesPending
CHECK_DEADLOCK FALSE
