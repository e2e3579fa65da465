\* Four requests, none slow and none dies: two waiters see a leftover lock expired.
CONSTANTS
    r1 = r1
    r2 = r2
    r3 = r3
    r4 = r4
    None = None
    Requests <- MCRequests4
    Stamps <- MCStamps1
    MaxCrashes = 0
SPECIFICATION PromptSpec
SYMMETRY MCSymmetry
INVARIANTS LockedByAnotherProcess
CHECK_DEADLOCK FALSE
