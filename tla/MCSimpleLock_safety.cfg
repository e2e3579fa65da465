\* Three clients, two requests for the lock of each.
SPECIFICATION FairSpec
CONSTANTS
    Secrets = {s1, s2, s3}
    None = None
    Nobody = Nobody
    MaxAsks = 2
INVARIANTS
    Inv
    HoldersHaveTheLock
    NoneFailsAlone
    OnlyWhoAskedHasIt
PROPERTIES
    EveryRequestIsAnswered
    ImplementsLease
CHECK_DEADLOCK FALSE
