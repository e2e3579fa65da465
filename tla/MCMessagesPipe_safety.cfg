\* Two calls with two messages each, and a tick at a time; two
\* grouping functions or callbacks may fail.
SPECIFICATION FairSpec
CONSTANTS
  c1 = c1
  c2 = c2
  t1 = t1
  t2 = t2
  Calls <- MCCalls
  Ticks <- MCOneTick
  Size <- MCSize
  MaxGroupSize = 3
  MaxFaults = 2
INVARIANTS
  Inv
  PipeIsAQueue
PROPERTIES
  OnlyFailuresStopIt
  MessagesArrive
CHECK_DEADLOCK FALSE
