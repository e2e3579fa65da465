\* Two writes, two remote calls that fail, one restart.
CONSTANTS
    c1 = c1
    c2 = c2
    f1 = f1
    f2 = f2
    Clients <- MCClients
    Files <- MCFiles
    Kinds <- AllKinds
    Faults <- AllFaults
    Seeds <- MCSeeds
    MaxWrites = 2
    MaxFaults = 2
    MaxReopens = 1
SPECIFICATION Spec
SYMMETRY MCSymmetry
INVARIANTS Inv NoWriteForgotten 
CHECK_DEADLOCK FALSE
