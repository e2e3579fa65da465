\* Three requests with two timestamps, steps scheduled fairly; one of them may die.
CONSTANTS
    r1 = r1
    r2 = r2
    r3 = r3
    r4 = r4
    None = None
    Requests <- MCRequests3
    Stamps <- MCStamps2
    MaxCrashes = 1
SPECIFICATION FairSpec
INVARIANTS Inv MutualExclusion HistoryStaysReadable StampsInOrder AcknowledgedIsStored RefusedLeavesNoTrace
PROPERTIES HistoryOnlyGrows ImplementsAnchorLog EveryRequestAnswered
CHECK_DEADLOCK FALSE
