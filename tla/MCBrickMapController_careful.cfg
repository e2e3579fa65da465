\* Clients that load the DSU again after a conflict they were told of; an answer is lost.
CONSTANTS
    c1 = c1
    c2 = c2
    f1 = f1
    f2 = f2
    Clients <- MCClients
    Files <- MCFiles
    Kinds <- MCAddDelete
    Faults <- MCReply
    Seeds <- MCSeeds
    MaxWrites = 3
    MaxFaults = 1
    MaxReopens = 1
SPECIFICATION CarefulSpec
SYMMETRY MCSymmetry
INVARIANTS FilesNeverVanish ConcurrentChangeIsReported
CHECK_DEADLOCK FALSE
