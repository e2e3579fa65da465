\* Three puts, a take and a get on a queue of limit 1.
CONSTANTS
    p1 = p1
    p2 = p2
    p3 = p3
    t1 = t1
    t2 = t2
    g1 = g1
    None = None
    Puts <- MCPuts
    Takes <- MCOneTake
    Gets <- MCGets
    Limit = 1
SPECIFICATION CarefulSpec
SYMMETRY Symmetry
INVARIANTS Inv NothingIsLost OldestFirst
CHECK_DEADLOCK FALSE
