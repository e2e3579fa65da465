\* Two calls of one engine and one of another, beside a user of the first, steps scheduled
\* fairly; one call may fail and the lock may expire.
SPECIFICATION FairSpec
CONSTANTS
  c1 = c1
  c2 = c2
  c3 = c3
  e1 = e1
  e2 = e2
  Calls <- MCCalls
  Engines <- MCEngines
  EngineOf <- MCEngineOf
  Other = Other
  Shared <- MCShared
  None = None
  Window = TRUE
  MaxAttempts = 0
  MaxFaults = 1
INVARIANTS
  Inv
  EditorsHoldTheLock
  ResolvedIsKept
PROPERTIES
  CallsEnd
CHECK_DEADLOCK FALSE
