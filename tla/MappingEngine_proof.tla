------------------------- MODULE MappingEngine_proof -------------------------
(***************************************************************************)
(* Proofs about MappingEngine, for any calls, engines and users of their   *)
(* storage services, and any number of attempts and failures.              *)
(***************************************************************************)
EXTENDS MappingEngine, TLAPS

USE EngineAssumption, UserAssumption, SharedAssumption, WindowAssumption, BoundsAssumption

\* In the initial state nobody has called.
LEMMA InitInv == Init => Inv /\ EditorsHoldTheLock
<1> SUFFICES ASSUME Init PROVE Inv /\ EditorsHoldTheLock
  OBVIOUS
<1> USE DEF Init, At, StorageOf, Busy, Editing, Settled, Finished, Steps
<1>1. TypeOK
  <2>1. storage \in [Engines -> Storage]
    BY DEF Storage, Users
  <2>2. attempts \in [Calls -> 0..MaxAttempts] /\ faults \in 0..MaxFaults
    OBVIOUS
  <2> QED
    BY <2>1, <2>2 DEF TypeOK
<1>2. OneAtATime /\ Order
  BY DEF OneAtATime, Order
<1>3. Apart /\ EditorsHoldTheLock
  BY DEF Apart, EditorsHoldTheLock, ClosesStill
<1>4. Carried
  BY DEF Carried
<1> QED
  BY <1>1, <1>2, <1>3, <1>4 DEF Inv

\* What a storage service becomes is a storage service, and what is assigned to one
\* engine leaves those of the others.
LEMMA StorageTypes ==
    ASSUME NEW s \in Storage
    PROVE  /\ Stored(s) \in Storage /\ Failed(s) \in Storage
           /\ Cancelled(s) \in Storage /\ Notified(s) \in Storage
<1>1. Closed(s) \in Storage
  BY DEF Storage, Closed
<1>2. Stored(s) \in Storage /\ Failed(s) \in Storage
  BY <1>1 DEF Storage, Closed, Stored, Failed
<1>3. Cancelled(s) \in Storage
  BY DEF Storage, Cancelled
<1>4. Notified(s) \in Storage
  BY DEF Storage, Notified
<1> QED
  BY <1>2, <1>3, <1>4

LEMMA UserTypes ==
    ASSUME NEW s \in Storage, NEW u \in Users
    PROVE  /\ Attached(s, u) \in Storage /\ Begun(s, u) \in Storage
           /\ Left(s, u) \in Storage /\ Closing(s, u) \in Storage
<1>1. Attached(s, u) \in Storage /\ Begun(s, u) \in Storage
  BY DEF Storage, Attached, Begun
<1>2. Left(s, u) \in Storage /\ Closing(s, u) \in Storage
  BY DEF Storage, Left, Closing
<1> QED
  BY <1>1, <1>2

LEMMA CallTypes ==
    ASSUME NEW s \in Storage, NEW c \in Calls
    PROVE  Edited(s, c) \in Storage
  BY DEF Storage, Edited

LEMMA SetStorageType ==
    ASSUME TypeOK, NEW e \in Engines, NEW s \in Storage, SetStorage(e, s)
    PROVE  /\ storage' \in [Engines -> Storage]
           /\ storage'[e] = s
           /\ \A f \in Engines \ {e} : storage'[f] = storage[f]
  BY DEF TypeOK, SetStorage

\* Every step of an engine keeps the types.
LEMMA StepType == TypeOK /\ [Next]_vars => TypeOK'
<1> SUFFICES ASSUME TypeOK, [Next]_vars PROVE TypeOK'
  OBVIOUS
<1>a. ASSUME NEW e \in Engines
      PROVE  storage[e] \in Storage
  BY <1>a DEF TypeOK
<1>b. Calls \subseteq Users /\ Other \in Users
  BY DEF Users
<1>c. ASSUME NEW c \in Calls PROVE EngineOf[c] \in Engines
  BY <1>c
<1>1. ASSUME NEW c \in Calls, DigestMessages(c) PROVE TypeOK'
  BY <1>1, <1>c DEF DigestMessages, TypeOK, Steps, At, Goto, Throw, lock
<1>2. ASSUME NEW c \in Calls, LockAnswered(c) PROVE TypeOK'
  <2>1. CASE SafeBeginBatch(c)
    <3>1. storage' \in [Engines -> Storage]
      BY <1>a, <1>b, <1>c, <2>1, SetStorageType, StorageTypes, UserTypes, CallTypes
      DEF SafeBeginBatch, StorageOf, TypeOK
    <3>2. step' \in [Calls -> Steps] /\ inProgress' \in [Engines -> BOOLEAN]
      BY <2>1 DEF SafeBeginBatch, Goto, Throw, TypeOK, Steps, Editing
    <3>3. crowded' \in BOOLEAN
      BY <2>1 DEF SafeBeginBatch, TypeOK
    <3> QED
      BY <1>2, <3>1, <3>2, <3>3 DEF LockAnswered, TypeOK, Fault
  <2>2. CASE ~SafeBeginBatch(c)
    BY <1>2, <2>2 DEF LockAnswered, TypeOK, Fault, Goto, Throw, Steps
  <2> QED
    BY <2>1, <2>2
<1>3. ASSUME NEW c \in Calls, Slept(c) PROVE TypeOK'
  <2>1. attempts' \in [Calls -> 0..MaxAttempts]
    BY <1>3 DEF Slept, TypeOK
  <2>2. step' \in [Calls -> Steps] /\ inProgress' \in [Engines -> BOOLEAN]
    BY <1>3, <1>c DEF Slept, TypeOK, Goto, Throw, Settle, Steps, Settled
  <2> QED
    BY <1>3, <2>1, <2>2 DEF Slept, TypeOK, lock
<1>4. ASSUME NEW c \in Calls, Opened(c) PROVE TypeOK'
  <2>1. storage' \in [Engines -> Storage]
    BY <1>a, <1>b, <1>c, <1>4, SetStorageType, StorageTypes, UserTypes, CallTypes DEF Opened, StorageOf, TypeOK
  <2>2. step' \in [Calls -> Steps] /\ faults' \in 0..MaxFaults /\ UNCHANGED inProgress
    BY <1>4 DEF Opened, TypeOK, Goto, Throw, Steps, Editing, Fault
  <2>3. crowded' \in BOOLEAN
    BY <1>4 DEF Opened, TypeOK
  <2> QED
    BY <1>4, <2>1, <2>2, <2>3 DEF Opened, TypeOK, lock
<1>5. ASSUME NEW c \in Calls, Mapped(c) PROVE TypeOK'
  <2>1. storage' \in [Engines -> Storage]
    BY <1>a, <1>b, <1>c, <1>5, SetStorageType, StorageTypes, UserTypes, CallTypes DEF Mapped, Finish, TypeOK
  <2>2. /\ step' \in [Calls -> Steps] /\ inProgress' \in [Engines -> BOOLEAN]
        /\ UNCHANGED releasing
    BY <1>5, <1>c
    DEF Mapped, Finish, TypeOK, Goto, Throw, Settle, Steps, Settled, Editing
  <2>3. faults' \in 0..MaxFaults
    BY <1>5 DEF Mapped, Fault, TypeOK
  <2> QED
    BY <1>5, <2>1, <2>2, <2>3 DEF Mapped, TypeOK
<1>6. ASSUME NEW e \in Engines, Committed(e) PROVE TypeOK'
  <2> DEFINE u == storage[e].closing
  <2>1. u \in Users \cup {None} /\ storage[e].taken \subseteq Calls
    BY <1>a DEF Storage
  <2>2. storage' \in [Engines -> Storage]
    <3>1. CASE SetStorage(e, Stored(storage[e])) \/ SetStorage(e, Failed(storage[e]))
      BY <1>a, <1>b, <3>1, SetStorageType, StorageTypes, UserTypes, CallTypes
    <3>2. CASE u \in Calls /\ Rollback(u, Failed(storage[e]))
      <4>1. EngineOf[u] \in Engines
        BY <3>2, <1>c
      <4>2. Failed(storage[e]) \in Storage /\ Cancelled(Failed(storage[e])) \in Storage
        BY <1>a, StorageTypes
      <4> QED
        BY <3>2, <4>1, <4>2, SetStorageType DEF Rollback
    <3> QED
      BY <1>6, <3>1, <3>2 DEF Committed
  <2>3. step' \in [Calls -> Steps] /\ inProgress' \in [Engines -> BOOLEAN]
    <3>1. CASE UNCHANGED <<step, inProgress>>
      BY <3>1 DEF TypeOK
    <3>2. CASE u \in Calls /\ (Settle(u, "resolved") \/ Rollback(u, Failed(storage[e])))
      BY <1>c, <3>2 DEF Settle, Rollback, Goto, TypeOK, Steps, Settled
    <3> QED
      BY <1>6, <3>1, <3>2 DEF Committed
  <2>4. anchored' \subseteq Calls /\ faults' \in 0..MaxFaults
    BY <1>6, <2>1 DEF Committed, TypeOK, Fault
  <2> QED
    BY <1>6, <2>2, <2>3, <2>4 DEF Committed, TypeOK, lock
<1>8. ASSUME NEW e \in Engines, NotifyOnCommitBatch(e) PROVE TypeOK'
  <2>1. storage' \in [Engines -> Storage]
    BY <1>a, <1>8, SetStorageType, StorageTypes DEF NotifyOnCommitBatch
  <2>2. storage[e].listeners \subseteq Calls
    BY <1>a DEF Storage
  <2> QED
    BY <1>8, <2>1, <2>2 DEF NotifyOnCommitBatch, TypeOK
<1>9. ASSUME NEW c \in Calls, ReleaseLock(c) PROVE TypeOK'
  BY <1>9 DEF ReleaseLock, TypeOK, Fault
<1>10. ASSUME NEW c \in Calls, Expire(c) PROVE TypeOK'
  BY <1>10 DEF Expire, TypeOK
<1>11. ASSUME NEW e \in Engines, OtherBegins(e) PROVE TypeOK'
  <2>1. storage' \in [Engines -> Storage]
    BY <1>a, <1>b, <1>11, SetStorageType, StorageTypes, UserTypes, CallTypes DEF OtherBegins
  <2> QED
    BY <1>11, <2>1 DEF OtherBegins, TypeOK, lock
<1>12. ASSUME NEW e \in Engines, OtherCommits(e) PROVE TypeOK'
  <2>1. storage' \in [Engines -> Storage]
    BY <1>a, <1>b, <1>12, SetStorageType, StorageTypes, UserTypes, CallTypes DEF OtherCommits
  <2> QED
    BY <1>12, <2>1 DEF OtherCommits, TypeOK, lock
<1>13. CASE UNCHANGED vars
  BY <1>13 DEF vars, lock, TypeOK
<1> QED
  BY <1>1, <1>2, <1>3, <1>4, <1>5, <1>6, <1>8, <1>9, <1>10, <1>11, <1>12, <1>13
  DEF Next, Callback

\* What becomes of the parts of a storage service the invariant is about.
LEMMA AttachedParts ==
    ASSUME NEW s \in Storage, NEW u
    PROVE  /\ Attached(s, u).batches = s.batches \cup {u}
           /\ Attached(s, u).edits = s.edits
           /\ Attached(s, u).taken = s.taken
           /\ Attached(s, u).closing = s.closing
           /\ Attached(s, u).notify = s.notify
           /\ Attached(s, u).listeners = s.listeners
  BY DEF Storage, Attached

LEMMA BegunParts ==
    ASSUME NEW s \in Storage, NEW u
    PROVE  /\ Begun(s, u).batches = s.batches \cup {u}
           /\ Begun(s, u).edits = {}
           /\ Begun(s, u).taken = s.taken
           /\ Begun(s, u).closing = s.closing
           /\ Begun(s, u).notify = s.notify
           /\ Begun(s, u).listeners = s.listeners
  BY DEF Storage, Begun, Attached

LEMMA EditedParts ==
    ASSUME NEW s \in Storage, NEW u
    PROVE  /\ Edited(s, u).batches = s.batches
           /\ Edited(s, u).edits = s.edits \cup {u}
           /\ Edited(s, u).taken = s.taken
           /\ Edited(s, u).closing = s.closing
           /\ Edited(s, u).notify = s.notify
           /\ Edited(s, u).listeners = s.listeners \cup {u}
  BY DEF Storage, Edited

LEMMA LeftParts ==
    ASSUME NEW s \in Storage, NEW u
    PROVE  /\ Left(s, u).batches = s.batches \ {u}
           /\ Left(s, u).edits = s.edits
           /\ Left(s, u).taken = s.taken
           /\ Left(s, u).closing = s.closing
           /\ Left(s, u).notify = s.notify
           /\ Left(s, u).listeners = s.listeners
  BY DEF Storage, Left

LEMMA ClosingParts ==
    ASSUME NEW s \in Storage, NEW u
    PROVE  /\ Closing(s, u).batches = s.batches \ {u}
           /\ Closing(s, u).edits = {}
           /\ Closing(s, u).taken = s.edits
           /\ Closing(s, u).closing = u
           /\ Closing(s, u).notify = s.notify
           /\ Closing(s, u).listeners = s.listeners
  BY DEF Storage, Closing, Left

LEMMA StoredParts ==
    ASSUME NEW s \in Storage
    PROVE  /\ Stored(s).batches = s.batches
           /\ Stored(s).edits = s.edits
           /\ Stored(s).taken = {}
           /\ Stored(s).closing = None
           /\ Stored(s).notify = TRUE
           /\ Stored(s).listeners = s.listeners
  BY DEF Storage, Stored, Closed

LEMMA FailedParts ==
    ASSUME NEW s \in Storage
    PROVE  /\ Failed(s).batches = s.batches
           /\ Failed(s).edits = (IF s.batches = {} THEN {} ELSE s.edits \cup s.taken)
           /\ Failed(s).taken = {}
           /\ Failed(s).closing = None
           /\ Failed(s).notify = s.notify
           /\ Failed(s).listeners = s.listeners
  BY DEF Storage, Failed, Closed

LEMMA CancelledParts ==
    ASSUME NEW s \in Storage
    PROVE  /\ Cancelled(s).batches \subseteq s.batches
           /\ Cancelled(s).edits = s.edits
           /\ Cancelled(s).taken = s.taken
           /\ Cancelled(s).closing = s.closing
           /\ Cancelled(s).notify = s.notify
           /\ Cancelled(s).listeners = s.listeners
  BY DEF Storage, Cancelled

LEMMA NotifiedParts ==
    ASSUME NEW s \in Storage
    PROVE  /\ Notified(s).batches = s.batches
           /\ Notified(s).edits = s.edits
           /\ Notified(s).taken = s.taken
           /\ Notified(s).closing = s.closing
           /\ Notified(s).notify = FALSE
           /\ Notified(s).listeners = {}
  BY DEF Storage, Notified

\* Whether the bar is in a batch.
LEMMA RealParts ==
    ASSUME NEW s \in Storage, NEW u
    PROVE  /\ Attached(s, u).real = s.real
           /\ Begun(s, u).real
           /\ Edited(s, u).real = s.real
           /\ Left(s, u).real = s.real
           /\ Closing(s, u).real = s.real
           /\ Notified(s).real = s.real
  BY DEF Storage, Attached, Begun, Edited, Left, Closing, Notified

\* What commits and rolls back is the call the storage service is closing for.
LEMMA CommittedCases ==
    ASSUME TypeOK, NEW e \in Engines, Committed(e)
    PROVE  LET u == storage[e].closing IN
           /\ u \in Users
           /\ \/ /\ u \in Calls
                 /\ At(u, "committing")
                 /\ \/ Settle(u, "resolved") /\ SetStorage(e, Stored(storage[e]))
                    \/ Rollback(u, Failed(storage[e]))
              \/ /\ u = Other
                 /\ UNCHANGED <<step, inProgress>>
                 /\ \/ SetStorage(e, Stored(storage[e]))
                    \/ SetStorage(e, Failed(storage[e]))
<1>1. storage[e].closing \in Users \cup {None}
  BY DEF TypeOK, Storage
<1> QED
  BY <1>1 DEF Committed, Users

LEMMA StepOneAtATime == TypeOK /\ OneAtATime /\ [Next]_vars => OneAtATime'
<1> SUFFICES ASSUME TypeOK, OneAtATime, [Next]_vars PROVE OneAtATime'
  OBVIOUS
<1> USE DEF OneAtATime, TypeOK, At, Goto, Throw, Settle, Busy, Editing, Settled
<1>1. ASSUME NEW c \in Calls, DigestMessages(c) PROVE OneAtATime'
  BY <1>1 DEF DigestMessages
<1>2. ASSUME NEW c \in Calls, LockAnswered(c) PROVE OneAtATime'
  <2>1. At(c, "asking") /\ UNCHANGED inProgress
        /\ \E p \in {"opening", "mapping", "sleeping", "unsettled"} : Goto(c, p)
    BY <1>2 DEF LockAnswered, SafeBeginBatch
  <2> QED
    BY <2>1
<1>3. ASSUME NEW c \in Calls, Slept(c) PROVE OneAtATime'
  BY <1>3 DEF Slept
<1>4. ASSUME NEW c \in Calls, Opened(c) PROVE OneAtATime'
  <2>1. At(c, "opening") /\ UNCHANGED inProgress
        /\ \E p \in {"mapping", "unsettled"} : Goto(c, p)
    BY <1>4 DEF Opened
  <2> QED
    BY <2>1
<1>5. ASSUME NEW c \in Calls, Mapped(c) PROVE OneAtATime'
  <2>1. /\ At(c, "mapping")
        /\ \/ Settle(c, "resolved") \/ Settle(c, "rejected")
           \/ UNCHANGED inProgress /\ Goto(c, "committing")
           \/ UNCHANGED inProgress /\ Goto(c, "unsettled")
    BY <1>5 DEF Mapped, Finish
  <2> QED
    BY <2>1
<1>6. ASSUME NEW e \in Engines, Committed(e) PROVE OneAtATime'
  <2> DEFINE u == storage[e].closing
  <2>1. CASE UNCHANGED <<step, inProgress>>
    BY <2>1
  <2>2. CASE /\ u \in Calls /\ At(u, "committing")
             /\ Settle(u, "resolved") \/ Settle(u, "rejected")
    <3> HIDE DEF u
    <3> QED
      BY <2>2
  <2> QED
    BY <1>6, <2>1, <2>2, CommittedCases DEF Rollback
<1>8. CASE UNCHANGED <<step, inProgress>>
  BY <1>8
<1>9. CASE UNCHANGED vars
  BY <1>9 DEF vars
<1> QED
  BY <1>1, <1>2, <1>3, <1>4, <1>5, <1>6, <1>8, <1>9
  DEF Next, Callback, NotifyOnCommitBatch, ReleaseLock, Expire, OtherBegins, OtherCommits

\* A call that is past its mapping never edits again.
LEMMA FinishedStays ==
    ASSUME TypeOK, [Next]_vars, NEW d \in Calls, step[d] \in Finished
    PROVE  step'[d] \in Finished
<1> USE DEF TypeOK, At, Goto, Throw, Settle, Settled, Finished
<1>1. ASSUME NEW c \in Calls, DigestMessages(c) PROVE step'[d] \in Finished
  BY <1>1 DEF DigestMessages
<1>2. ASSUME NEW c \in Calls, Callback(c) PROVE step'[d] \in Finished
  <2>1. CASE LockAnswered(c)
    BY <2>1 DEF LockAnswered, SafeBeginBatch
  <2>2. CASE Slept(c)
    BY <2>2 DEF Slept
  <2>3. CASE Opened(c)
    BY <2>3 DEF Opened
  <2>4. CASE Mapped(c)
    BY <2>4 DEF Mapped, Finish
  <2> QED
    BY <1>2, <2>1, <2>2, <2>3, <2>4 DEF Callback
<1>3. ASSUME NEW e \in Engines, Committed(e) PROVE step'[d] \in Finished
  BY <1>3, CommittedCases DEF Rollback
<1>4. CASE UNCHANGED step
  BY <1>4
<1> QED
  BY <1>1, <1>2, <1>3, <1>4
  DEF Next, vars, NotifyOnCommitBatch, ReleaseLock, Expire, OtherBegins, OtherCommits

\* Order holds after a step that changes one storage service, if it holds there.
LEMMA OrderKept ==
    ASSUME TypeOK, Order, NEW e \in Engines, NEW s \in Storage, SetStorage(e, s),
           \A d \in Calls : step[d] \in Finished => step'[d] \in Finished,
           \A d \in releasing' : step'[d] \in Finished,
           \A d \in s.edits \cup s.taken \cup s.listeners :
               EngineOf[d] = e /\ step'[d] \in Finished,
           s.closing = None => s.taken = {},
           s.closing \in Calls => EngineOf[s.closing] = e,
           \A d \in Calls : EngineOf[d] = e =>
               /\ step'[d] = "committing" => s.closing = d
               /\ step'[d] = "mapping" => d \in s.batches,
           \A d \in Calls : EngineOf[d] # e => step'[d] = step[d]
    PROVE  Order'
<1>1. /\ storage'[e] = s
      /\ \A f \in Engines \ {e} : storage'[f] = storage[f]
  BY SetStorageType
<1>2. ASSUME NEW f \in Engines
      PROVE  /\ \A c \in storage'[f].edits \cup storage'[f].taken \cup storage'[f].listeners :
                   EngineOf[c] = f /\ step'[c] \in Finished
             /\ storage'[f].closing = None => storage'[f].taken = {}
             /\ storage'[f].closing \in Calls => EngineOf[storage'[f].closing] = f
  <2>1. CASE f = e
    BY <1>1, <2>1
  <2>2. CASE f # e
    <3>1. storage[f] \in Storage /\ storage'[f] = storage[f]
      BY <1>1, <2>2 DEF TypeOK
    <3>2. storage[f].edits \cup storage[f].taken \cup storage[f].listeners \subseteq Calls
      BY <3>1 DEF Storage
    <3> QED
      BY <3>1, <3>2 DEF Order
  <2> QED
    BY <2>1, <2>2
<1>3. ASSUME NEW c \in Calls
      PROVE  /\ step'[c] = "committing" => storage'[EngineOf[c]].closing = c
             /\ step'[c] = "mapping" => c \in storage'[EngineOf[c]].batches
  <2>1. CASE EngineOf[c] = e
    BY <1>1, <2>1
  <2>2. CASE EngineOf[c] # e
    <3>1. EngineOf[c] \in Engines /\ storage'[EngineOf[c]] = storage[EngineOf[c]]
      BY <1>1, <2>2
    <3>2. step'[c] = step[c]
      BY <2>2
    <3> QED
      BY <3>1, <3>2 DEF Order, At, StorageOf
  <2> QED
    BY <2>1, <2>2
<1> QED
  BY <1>2, <1>3 DEF Order, At, StorageOf

\* The same after a step that changes none.
LEMMA OrderKeptOutside ==
    ASSUME TypeOK, Order, UNCHANGED <<storage, releasing>>,
           \A d \in Calls : step[d] \in Finished => step'[d] \in Finished,
           \A d \in Calls :
               step'[d] \in {"committing", "mapping"} => step'[d] = step[d]
    PROVE  Order'
<1>1. \A f \in Engines :
         storage[f].edits \cup storage[f].taken \cup storage[f].listeners \subseteq Calls
  BY DEF TypeOK, Storage
<1>2. releasing \subseteq Calls
  BY DEF TypeOK
<1> QED
  BY <1>1, <1>2 DEF Order, At, StorageOf

LEMMA StepOrder == Inv /\ [Next]_vars => Order'
<1> SUFFICES ASSUME TypeOK, OneAtATime, Order, [Next]_vars PROVE Order'
  BY DEF Inv
<1>a. ASSUME NEW e \in Engines
      PROVE  /\ storage[e] \in Storage
             /\ storage[e].edits \subseteq Calls
             /\ storage[e].taken \subseteq Calls
             /\ storage[e].listeners \subseteq Calls
  BY <1>a DEF TypeOK, Storage
<1>b. Calls \subseteq Users /\ Other \in Users
  BY DEF Users
<1>c. ASSUME NEW c \in Calls PROVE EngineOf[c] \in Engines
  BY <1>c
<1>d. \A d \in Calls : step[d] \in Finished => step'[d] \in Finished
  BY FinishedStays
<1>e. releasing \subseteq Calls
  BY DEF TypeOK
<1>1. ASSUME NEW c \in Calls, DigestMessages(c) PROVE Order'
  <2>1. UNCHANGED <<storage, releasing>>
        /\ \E p \in {"asking", "unsettled"} : Goto(c, p)
    BY <1>1 DEF DigestMessages, lock, Throw
  <2> QED
    BY <2>1, <1>d, OrderKeptOutside DEF Goto, TypeOK
<1>2. ASSUME NEW c \in Calls, LockAnswered(c) PROVE Order'
  <2>0. UNCHANGED releasing /\ At(c, "asking")
    BY <1>2 DEF LockAnswered
  <2>1. CASE SetStorage(EngineOf[c], Attached(StorageOf(c), c)) /\ Goto(c, "mapping")
    <3> DEFINE e == EngineOf[c]
               s == Attached(storage[e], c)
    <3>1. e \in Engines /\ s \in Storage /\ SetStorage(e, s)
      BY <1>a, <1>b, <1>c, <2>1, UserTypes DEF StorageOf
    <3>2. /\ s.edits = storage[e].edits /\ s.taken = storage[e].taken
          /\ s.listeners = storage[e].listeners /\ s.closing = storage[e].closing
          /\ s.batches = storage[e].batches \cup {c}
      BY <1>a, <3>1, AttachedParts
    <3>3. /\ step'[c] = "mapping"
          /\ \A d \in Calls \ {c} : step'[d] = step[d]
      BY <2>1 DEF Goto, TypeOK
    <3>4. \A d \in Calls : EngineOf[d] = e =>
             /\ step'[d] = "committing" => s.closing = d
             /\ step'[d] = "mapping" => d \in s.batches
      BY <3>2, <3>3 DEF Order, At, StorageOf
    <3>5. \A d \in s.edits \cup s.taken \cup s.listeners :
             EngineOf[d] = e /\ step'[d] \in Finished
      BY <3>1, <3>2, <1>a, <1>d DEF Order
    <3>6. (s.closing = None => s.taken = {}) /\ (s.closing \in Calls => EngineOf[s.closing] = e)
      BY <3>1, <3>2 DEF Order
    <3>7. \A d \in releasing' : step'[d] \in Finished
      BY <2>0, <1>d, <1>e DEF Order
    <3>8. \A d \in Calls : EngineOf[d] # e => step'[d] = step[d]
      BY <3>3
    <3> HIDE DEF e, s
    <3> QED
      BY <3>1, <3>4, <3>5, <3>6, <3>7, <3>8, <1>d, OrderKept
  <2>2. CASE /\ UNCHANGED storage
             /\ \E p \in {"opening", "sleeping", "unsettled"} : Goto(c, p)
    BY <2>0, <2>2, <1>d, OrderKeptOutside DEF Goto, TypeOK
  <2> QED
    BY <1>2, <2>1, <2>2 DEF LockAnswered, SafeBeginBatch, Throw
<1>3. ASSUME NEW c \in Calls, Slept(c) PROVE Order'
  <2>1. UNCHANGED <<storage, releasing>>
        /\ \E p \in {"asking", "rejected", "unsettled"} : Goto(c, p)
    BY <1>3 DEF Slept, lock, Throw, Settle
  <2> QED
    BY <2>1, <1>d, OrderKeptOutside DEF Goto, TypeOK
<1>4. ASSUME NEW c \in Calls, Opened(c) PROVE Order'
  <2>0. UNCHANGED releasing
    BY <1>4 DEF Opened, lock
  <2>1. ASSUME NEW s, s \in {Begun(StorageOf(c), c), Attached(StorageOf(c), c)},
               SetStorage(EngineOf[c], s), Goto(c, "mapping")
        PROVE  Order'
    <3> DEFINE e == EngineOf[c]
    <3>0. e \in Engines /\ SetStorage(e, s)
      BY <1>c, <2>1
    <3>1. s \in Storage
      BY <1>a, <1>b, <2>1, <3>0, UserTypes DEF StorageOf
    <3>2. /\ s.edits \subseteq storage[e].edits /\ s.taken = storage[e].taken
          /\ s.listeners = storage[e].listeners /\ s.closing = storage[e].closing
          /\ s.batches = storage[e].batches \cup {c}
      BY <1>a, <2>1, <3>0, AttachedParts, BegunParts DEF StorageOf
    <3>3. /\ step'[c] = "mapping"
          /\ \A d \in Calls \ {c} : step'[d] = step[d]
      BY <2>1 DEF Goto, TypeOK
    <3>4. \A d \in Calls : EngineOf[d] = e =>
             /\ step'[d] = "committing" => s.closing = d
             /\ step'[d] = "mapping" => d \in s.batches
      BY <3>2, <3>3 DEF Order, At, StorageOf
    <3>5. \A d \in s.edits \cup s.taken \cup s.listeners :
             EngineOf[d] = e /\ step'[d] \in Finished
      BY <3>0, <3>2, <1>a, <1>d DEF Order
    <3>6. (s.closing = None => s.taken = {}) /\ (s.closing \in Calls => EngineOf[s.closing] = e)
      BY <3>0, <3>2 DEF Order
    <3>7. \A d \in releasing' : step'[d] \in Finished
      BY <2>0, <1>d, <1>e DEF Order
    <3>8. \A d \in Calls : EngineOf[d] # e => step'[d] = step[d]
      BY <3>3
    <3> HIDE DEF e
    <3> QED
      BY <3>0, <3>1, <3>4, <3>5, <3>6, <3>7, <3>8, <1>d, OrderKept
  <2>2. CASE UNCHANGED storage /\ Goto(c, "unsettled")
    BY <2>0, <2>2, <1>d, OrderKeptOutside DEF Goto, TypeOK
  <2> QED
    BY <1>4, <2>1, <2>2 DEF Opened, Throw
<1>5. ASSUME NEW c \in Calls, Mapped(c) PROVE Order'
  <2> DEFINE e == EngineOf[c]
             t == Edited(storage[e], c)
  <2>0. UNCHANGED releasing /\ At(c, "mapping")
    BY <1>5 DEF Mapped, Finish
  <2>1. /\ e \in Engines /\ t \in Storage /\ c \in Users
        /\ t.edits = storage[e].edits \cup {c} /\ t.taken = storage[e].taken
        /\ t.listeners = storage[e].listeners \cup {c} /\ t.closing = storage[e].closing
        /\ t.batches = storage[e].batches
    BY <1>a, <1>b, <1>c, CallTypes, EditedParts
  <2>2. \A d \in releasing' : step'[d] \in Finished
    BY <2>0, <1>d, <1>e DEF Order
  <2>3. ASSUME NEW d \in Calls, EngineOf[d] = e
        PROVE  step[d] # "committing" /\ (step[d] = "mapping" => d = c)
    BY <2>0, <2>3 DEF OneAtATime, At, Busy, Editing
  <2>4. CASE SetStorage(e, Left(t, c)) /\ \E p \in Settled : Goto(c, p)
    <3> DEFINE s == Left(t, c)
    <3>1. e \in Engines /\ s \in Storage /\ SetStorage(e, s)
      BY <2>1, <2>4, UserTypes
    <3>2. /\ s.edits = t.edits /\ s.taken = t.taken
          /\ s.listeners = t.listeners /\ s.closing = t.closing
      BY <2>1, LeftParts
    <3>3. /\ step'[c] \in Settled
          /\ \A d \in Calls \ {c} : step'[d] = step[d]
      BY <2>4 DEF Goto, TypeOK
    <3>4. \A d \in Calls : EngineOf[d] = e =>
             /\ step'[d] = "committing" => s.closing = d
             /\ step'[d] = "mapping" => d \in s.batches
      BY <2>3, <3>3 DEF Settled
    <3>5. \A d \in s.edits \cup s.taken \cup s.listeners :
             EngineOf[d] = e /\ step'[d] \in Finished
      BY <2>1, <3>2, <3>3, <1>a, <1>d DEF Order, Finished
    <3>6. (s.closing = None => s.taken = {}) /\ (s.closing \in Calls => EngineOf[s.closing] = e)
      BY <2>1, <3>2 DEF Order
    <3>7. \A d \in Calls : EngineOf[d] # e => step'[d] = step[d]
      BY <3>3
    <3> HIDE DEF e, s
    <3> QED
      BY <3>1, <3>4, <3>5, <3>6, <3>7, <2>2, <1>d, OrderKept
  <2>5. CASE SetStorage(e, Closing(t, c)) /\ Goto(c, "committing")
    <3> DEFINE s == Closing(t, c)
    <3>1. e \in Engines /\ s \in Storage /\ SetStorage(e, s)
      BY <2>1, <2>5, UserTypes
    <3>2. s.edits = {} /\ s.taken = t.edits /\ s.listeners = t.listeners /\ s.closing = c
      BY <2>1, ClosingParts
    <3>3. /\ step'[c] = "committing"
          /\ \A d \in Calls \ {c} : step'[d] = step[d]
      BY <2>5 DEF Goto, TypeOK
    <3>4. \A d \in Calls : EngineOf[d] = e =>
             /\ step'[d] = "committing" => s.closing = d
             /\ step'[d] = "mapping" => d \in s.batches
      BY <2>3, <3>2, <3>3
    <3>5. \A d \in s.edits \cup s.taken \cup s.listeners :
             EngineOf[d] = e /\ step'[d] \in Finished
      BY <2>1, <3>2, <3>3, <1>a, <1>d DEF Order, Finished
    <3>6. (s.closing = None => s.taken = {}) /\ (s.closing \in Calls => EngineOf[s.closing] = e)
      BY <3>2, UserAssumption
    <3>7. \A d \in Calls : EngineOf[d] # e => step'[d] = step[d]
      BY <3>3
    <3> HIDE DEF e, s
    <3> QED
      BY <3>1, <3>4, <3>5, <3>6, <3>7, <2>2, <1>d, OrderKept
  <2>6. CASE UNCHANGED storage /\ Goto(c, "unsettled")
    BY <2>0, <2>6, <1>d, OrderKeptOutside DEF Goto, TypeOK
  <2> QED
    BY <1>5, <2>4, <2>5, <2>6 DEF Mapped, Finish, Settle, Throw, Settled
<1>6. ASSUME NEW e \in Engines, Committed(e) PROVE Order'
  <2> DEFINE u == storage[e].closing
  <2>0. UNCHANGED releasing
    BY <1>6 DEF Committed, lock
  <2>1. \A d \in releasing' : step'[d] \in Finished
    BY <2>0, <1>d, <1>e DEF Order
  <2>2. u \in Calls => EngineOf[u] = e
    BY DEF Order
  <2>3. \A d \in Calls : EngineOf[d] = e /\ step[d] = "committing" => d = u
    BY DEF Order, At, StorageOf
  <2>4. ASSUME NEW s \in Storage, SetStorage(e, s), s.closing = None, s.taken = {},
               s.edits \subseteq storage[e].edits \cup storage[e].taken,
               s.listeners = storage[e].listeners,
               \/ s.batches = storage[e].batches
               \/ \A d \in Calls : EngineOf[d] = e => step[d] # "mapping",
               \/ u \in Calls /\ \E p \in Settled : Goto(u, p)
               \/ u = Other /\ UNCHANGED step
        PROVE  Order'
    <3>1. /\ u \in Calls => step'[u] \in Settled
          /\ \A d \in Calls : d # u => step'[d] = step[d]
      BY <2>4 DEF Goto, TypeOK
    <3>2. \A d \in Calls : EngineOf[d] = e =>
             /\ step'[d] = "committing" => s.closing = d
             /\ step'[d] = "mapping" => d \in s.batches
      BY <2>3, <2>4, <3>1 DEF Order, At, StorageOf, Settled
    <3>3. \A d \in s.edits \cup s.taken \cup s.listeners :
             EngineOf[d] = e /\ step'[d] \in Finished
      BY <2>4, <1>a, <1>d DEF Order
    <3>4. s.closing = None => s.taken = {}
      BY <2>4
    <3>5. s.closing \in Calls => EngineOf[s.closing] = e
      BY <2>4, UserAssumption
    <3>6. \A d \in Calls : EngineOf[d] # e => step'[d] = step[d]
      BY <2>2, <3>1
    <3> QED
      BY <2>1, <2>4, <3>2, <3>3, <3>4, <3>5, <3>6, <1>d, OrderKept
  <2>5. CASE SetStorage(e, Stored(storage[e]))
             /\ ((u \in Calls /\ Settle(u, "resolved")) \/ (u = Other /\ UNCHANGED step))
    <3> DEFINE s == Stored(storage[e])
    <3>1. /\ s \in Storage /\ s.closing = None /\ s.taken = {} /\ s.edits = storage[e].edits
          /\ s.listeners = storage[e].listeners /\ s.batches = storage[e].batches
      BY <1>a, StorageTypes, StoredParts
    <3>2. \/ u \in Calls /\ \E p \in Settled : Goto(u, p)
          \/ u = Other /\ UNCHANGED step
      BY <2>5 DEF Settle, Settled
    <3> HIDE DEF s, u
    <3> QED
      BY <2>4, <2>5, <3>1, <3>2 DEF s
  <2>6. CASE SetStorage(e, Failed(storage[e]))
             /\ ((u \in Calls /\ Settle(u, "rejected")) \/ (u = Other /\ UNCHANGED step))
    <3> DEFINE s == Failed(storage[e])
    <3>1. /\ s \in Storage /\ s.closing = None /\ s.taken = {}
          /\ s.edits \subseteq storage[e].edits \cup storage[e].taken
          /\ s.listeners = storage[e].listeners /\ s.batches = storage[e].batches
      BY <1>a, StorageTypes, FailedParts
    <3>2. \/ u \in Calls /\ \E p \in Settled : Goto(u, p)
          \/ u = Other /\ UNCHANGED step
      BY <2>6 DEF Settle, Settled
    <3> HIDE DEF s, u
    <3> QED
      BY <2>4, <2>6, <3>1, <3>2 DEF s
  <2>7. \A d \in Calls : EngineOf[d] = e /\ u \in Calls /\ At(u, "committing") =>
           step[d] # "mapping"
    BY <2>2 DEF OneAtATime, At, Busy, Editing
  <2>8. CASE u \in Calls /\ At(u, "committing") /\ Rollback(u, Failed(storage[e]))
    <3> DEFINE t == Failed(storage[e])
               s == Cancelled(t)
    <3>0. /\ t \in Storage /\ t.closing = None /\ t.taken = {}
          /\ t.edits \subseteq storage[e].edits \cup storage[e].taken
          /\ t.listeners = storage[e].listeners
      BY <1>a, StorageTypes, FailedParts
    <3> HIDE DEF t
    <3>1. /\ s \in Storage /\ s.closing = None /\ s.taken = {}
          /\ s.edits \subseteq storage[e].edits \cup storage[e].taken
          /\ s.listeners = storage[e].listeners
      BY <3>0, StorageTypes, CancelledParts
    <3> USE DEF t
    <3>2. SetStorage(e, s) /\ Goto(u, "rejected") /\ "rejected" \in Settled
      BY <2>2, <2>8 DEF Rollback, Settle, Settled
    <3>3. \A d \in Calls : EngineOf[d] = e => step[d] # "mapping"
      BY <2>7, <2>8
    <3> HIDE DEF s, u
    <3> QED
      BY <2>4, <2>8, <3>1, <3>2, <3>3
  <2>9. CASE u = Other /\ UNCHANGED <<step, inProgress>>
             /\ (SetStorage(e, Stored(storage[e])) \/ SetStorage(e, Failed(storage[e])))
    BY <2>5, <2>6, <2>9
  <2>10. CASE u \in Calls /\ Settle(u, "resolved") /\ SetStorage(e, Stored(storage[e]))
    BY <2>5, <2>10
  <2> QED
    BY <1>6, <2>8, <2>9, <2>10, CommittedCases
<1>8. ASSUME NEW e \in Engines, NotifyOnCommitBatch(e) PROVE Order'
  <2> DEFINE s == Notified(storage[e])
  <2>0. UNCHANGED step /\ releasing' = releasing \cup storage[e].listeners
    BY <1>8 DEF NotifyOnCommitBatch
  <2>1. s \in Storage /\ SetStorage(e, s)
    BY <1>8, <1>a, StorageTypes DEF NotifyOnCommitBatch
  <2>2. /\ s.edits = storage[e].edits /\ s.taken = storage[e].taken
        /\ s.listeners = {} /\ s.closing = storage[e].closing
        /\ s.batches = storage[e].batches
    BY <1>a, NotifiedParts
  <2>3. \A d \in Calls : EngineOf[d] = e =>
           /\ step'[d] = "committing" => s.closing = d
           /\ step'[d] = "mapping" => d \in s.batches
    BY <2>0, <2>2 DEF Order, At, StorageOf
  <2>4. \A d \in s.edits \cup s.taken \cup s.listeners :
           EngineOf[d] = e /\ step'[d] \in Finished
    BY <2>0, <2>2 DEF Order
  <2>5. s.closing = None => s.taken = {}
    BY <2>2 DEF Order
  <2>6. s.closing \in Calls => EngineOf[s.closing] = e
    BY <2>2 DEF Order
  <2>7. \A d \in releasing' : step'[d] \in Finished
    BY <2>0 DEF Order
  <2>8. \A d \in Calls : EngineOf[d] # e => step'[d] = step[d]
    BY <2>0
  <2> HIDE DEF s
  <2> QED
    BY <2>1, <2>3, <2>4, <2>5, <2>6, <2>7, <2>8, <1>d, OrderKept
<1>9. ASSUME NEW c \in Calls, ReleaseLock(c) PROVE Order'
  BY <1>9 DEF ReleaseLock, Order, At, StorageOf
<1>10. ASSUME NEW c \in Calls, Expire(c) PROVE Order'
  BY <1>10 DEF Expire, Order, At, StorageOf
<1>11. ASSUME NEW e \in Engines, NEW s \in Storage, SetStorage(e, s), UNCHANGED <<step, releasing>>,
              s.listeners = storage[e].listeners,
              \/ s.closing = storage[e].closing /\ s.taken = storage[e].taken
                 /\ s.edits \subseteq storage[e].edits
              \/ s.closing = Other /\ storage[e].closing = None
                 /\ s.taken = storage[e].edits /\ s.edits = {},
              storage[e].batches \cap Calls \subseteq s.batches
       PROVE  Order'
  <2>1. \A d \in Calls : EngineOf[d] = e =>
           /\ step'[d] = "committing" => s.closing = d
           /\ step'[d] = "mapping" => d \in s.batches
    BY <1>11, UserAssumption DEF Order, At, StorageOf
  <2>2. \A d \in s.edits \cup s.taken \cup s.listeners :
           EngineOf[d] = e /\ step'[d] \in Finished
    BY <1>11 DEF Order
  <2>3. s.closing = None => s.taken = {}
    BY <1>11, UserAssumption DEF Order
  <2>4. s.closing \in Calls => EngineOf[s.closing] = e
    BY <1>11, UserAssumption DEF Order
  <2>5. \A d \in releasing' : step'[d] \in Finished
    BY <1>11 DEF Order
  <2>6. \A d \in Calls : EngineOf[d] # e => step'[d] = step[d]
    BY <1>11
  <2> QED
    BY <1>11, <2>1, <2>2, <2>3, <2>4, <2>5, <2>6, <1>d, OrderKept
<1>12. ASSUME NEW e \in Engines, OtherBegins(e) PROVE Order'
  <2>1. PICK s \in {Attached(storage[e], Other), Begun(storage[e], Other)} : SetStorage(e, s)
    BY <1>12 DEF OtherBegins
  <2>2. s \in Storage /\ UNCHANGED <<step, releasing>>
    BY <1>12, <1>a, <1>b, <2>1, UserTypes DEF OtherBegins, lock
  <2>3. /\ s.edits \subseteq storage[e].edits /\ s.taken = storage[e].taken
        /\ s.listeners = storage[e].listeners /\ s.closing = storage[e].closing
        /\ storage[e].batches \cap Calls \subseteq s.batches
    BY <1>a, <2>1, AttachedParts, BegunParts
  <2> QED
    BY <1>11, <2>1, <2>2, <2>3
<1>13. ASSUME NEW e \in Engines, OtherCommits(e) PROVE Order'
  <2>1. CASE SetStorage(e, Left(storage[e], Other))
    <3> DEFINE s == Left(storage[e], Other)
    <3>1. s \in Storage /\ SetStorage(e, s) /\ UNCHANGED <<step, releasing>>
      BY <2>1, <1>13, <1>a, <1>b, UserTypes DEF OtherCommits, lock
    <3>2. /\ s.edits = storage[e].edits /\ s.taken = storage[e].taken
          /\ s.listeners = storage[e].listeners /\ s.closing = storage[e].closing
          /\ storage[e].batches \cap Calls \subseteq s.batches
      BY <1>a, LeftParts, UserAssumption
    <3> HIDE DEF s
    <3> QED
      BY <1>11, <3>1, <3>2
  <2>2. CASE SetStorage(e, Closing(storage[e], Other)) /\ storage[e].closing = None
    <3> DEFINE s == Closing(storage[e], Other)
    <3>1. s \in Storage /\ SetStorage(e, s) /\ UNCHANGED <<step, releasing>>
      BY <2>2, <1>13, <1>a, <1>b, UserTypes DEF OtherCommits, lock
    <3>2. /\ s.edits = {} /\ s.taken = storage[e].edits
          /\ s.listeners = storage[e].listeners /\ s.closing = Other
          /\ storage[e].batches \cap Calls \subseteq s.batches
      BY <1>a, ClosingParts, UserAssumption
    <3> HIDE DEF s
    <3> QED
      BY <1>11, <2>2, <3>1, <3>2
  <2> QED
    BY <1>13, <2>1, <2>2 DEF OtherCommits
<1>14. CASE UNCHANGED vars
  BY <1>14 DEF vars, lock, Order, At, StorageOf
<1> QED
  BY <1>1, <1>2, <1>3, <1>4, <1>5, <1>6, <1>8, <1>9, <1>10, <1>12, <1>13, <1>14
  DEF Next, Callback

\* Apart holds after a step that changes one storage service, if it holds there.
LEMMA ApartKept ==
    ASSUME TypeOK, Order, Apart, ~crowded, NEW e \in Engines, NEW s \in Storage,
           SetStorage(e, s), releasing' \subseteq Calls,
           \A d \in releasing' :
               /\ step'[d] # "committing"
               /\ EngineOf[d] = e => d \notin s.edits \cup s.taken
               /\ EngineOf[d] # e => d \in releasing,
           \A d \in Calls : EngineOf[d] = e =>
               /\ step'[d] = "mapping" => ~ClosesStill(s)
               /\ step'[d] = "committing" => ~s.notify,
           s.notify => s.edits = {} /\ s.taken = {},
           s.closing # None => s.edits = {},
           \A d \in Calls : EngineOf[d] # e => step'[d] = step[d]
    PROVE  Apart'
<1>1. /\ storage'[e] = s
      /\ \A f \in Engines \ {e} : storage'[f] = storage[f]
  BY SetStorageType
<1>2. ASSUME NEW d \in releasing'
      PROVE  /\ d \notin storage'[EngineOf[d]].edits \cup storage'[EngineOf[d]].taken
             /\ step'[d] # "committing"
  <2>1. CASE EngineOf[d] = e
    BY <1>1, <2>1
  <2>2. CASE EngineOf[d] # e
    <3>1. EngineOf[d] \in Engines /\ d \in releasing
      BY <2>2
    <3> QED
      BY <1>1, <2>2, <3>1 DEF Apart, StorageOf
  <2> QED
    BY <2>1, <2>2
<1>3. ASSUME NEW d \in Calls
      PROVE  /\ step'[d] = "mapping" => ~ClosesStill(storage'[EngineOf[d]])
             /\ step'[d] = "committing" => ~storage'[EngineOf[d]].notify
  <2>1. CASE EngineOf[d] = e
    BY <1>1, <2>1
  <2>2. CASE EngineOf[d] # e
    <3>1. EngineOf[d] \in Engines /\ step'[d] = step[d]
      BY <2>2
    <3> QED
      BY <1>1, <2>2, <3>1 DEF Apart, StorageOf, At
  <2> QED
    BY <2>1, <2>2
<1>4. ASSUME NEW f \in Engines
      PROVE  /\ storage'[f].notify => storage'[f].edits = {} /\ storage'[f].taken = {}
             /\ storage'[f].closing # None => storage'[f].edits = {}
  <2>1. CASE f = e
    BY <1>1, <2>1
  <2>2. CASE f # e
    <3>1. storage'[f] = storage[f]
      BY <1>1, <2>2
    <3> QED
      BY <3>1 DEF Apart
  <2> QED
    BY <2>1, <2>2
<1> QED
  BY <1>2, <1>3, <1>4 DEF Apart, At, StorageOf, ClosesStill

\* What is spoilt stays so.
LEMMA CrowdedStays == TypeOK /\ [Next]_vars /\ crowded => crowded'
  BY DEF Next, vars, Callback, DigestMessages, LockAnswered, SafeBeginBatch, Slept, Opened, Mapped,
         Committed, NotifyOnCommitBatch, ReleaseLock, Expire, OtherBegins, OtherCommits

\* Nobody edits where a commit is under way or a listener waits to be called.
LEMMA StepApart == Inv /\ [Next]_vars => Apart'
<1> SUFFICES ASSUME TypeOK, OneAtATime, Order, Apart, [Next]_vars, ~crowded, ~crowded'
             PROVE  Apart'
  BY CrowdedStays DEF Inv, Apart
<1>a. ASSUME NEW e \in Engines
      PROVE  /\ storage[e] \in Storage
             /\ storage[e].notify \in BOOLEAN
             /\ storage[e].closing \in Users \cup {None}
             /\ storage[e].listeners \subseteq Calls
  BY <1>a DEF TypeOK, Storage
<1>b. Calls \subseteq Users /\ Other \in Users
  BY DEF Users
<1>c. ASSUME NEW c \in Calls PROVE EngineOf[c] \in Engines
  BY <1>c
<1>d. /\ releasing \subseteq Calls
      /\ \A d \in releasing : /\ step[d] \in Finished /\ step[d] # "committing"
                              /\ d \notin storage[EngineOf[d]].edits
                              /\ d \notin storage[EngineOf[d]].taken
  BY DEF TypeOK, Order, Apart, At, StorageOf
<1>e. ASSUME NEW d \in Calls
      PROVE  /\ step[d] = "mapping" => ~ClosesStill(storage[EngineOf[d]])
             /\ step[d] = "committing" => ~storage[EngineOf[d]].notify
             /\ step[d] = "committing" => storage[EngineOf[d]].closing = d
  BY DEF Apart, At, StorageOf, Order
<1>f. ASSUME NEW e \in Engines
      PROVE  /\ storage[e].notify => storage[e].edits = {} /\ storage[e].taken = {}
             /\ storage[e].closing # None => storage[e].edits = {}
             /\ storage[e].closing = None => storage[e].taken = {}
             /\ storage[e].closing \in Calls => EngineOf[storage[e].closing] = e
  BY <1>f DEF Apart, At, Order
<1>g. ASSUME NEW e \in Engines, NEW s \in Storage, NEW c \in Calls, EngineOf[c] = e,
             SetStorage(e, s), UNCHANGED releasing, Goto(c, "mapping"),
             step[c] \in {"asking", "opening"}, ~ClosesStill(storage[e]),
             s.closing = storage[e].closing, s.notify = storage[e].notify,
             s.edits \subseteq storage[e].edits, s.taken = storage[e].taken
      PROVE  Apart'
  <2>1. step'[c] = "mapping" /\ \A d \in Calls \ {c} : step'[d] = step[d]
    BY <1>g DEF Goto, TypeOK
  <2>2. \A d \in releasing' : /\ step'[d] # "committing"
                              /\ EngineOf[d] = e => d \notin s.edits \cup s.taken
                              /\ EngineOf[d] # e => d \in releasing
    BY <1>d, <1>g, <2>1
  <2>3. \A d \in Calls : EngineOf[d] = e =>
         /\ step'[d] = "mapping" => ~ClosesStill(s)
         /\ step'[d] = "committing" => ~s.notify
    BY <1>g, <2>1 DEF ClosesStill
  <2>4. /\ s.notify => s.edits = {} /\ s.taken = {}
        /\ \A d \in Calls : EngineOf[d] # e => step'[d] = step[d]
        /\ s.closing = None /\ releasing' \subseteq Calls
    BY <1>d, <1>f, <1>g, <2>1 DEF ClosesStill
  <2> QED
    BY <1>g, <2>2, <2>3, <2>4, ApartKept
<1>1. ASSUME NEW c \in Calls, UNCHANGED <<storage, releasing>>,
             \/ UNCHANGED step
             \/ \E p \in Steps \ {"mapping", "committing"} : Goto(c, p)
      PROVE  Apart'
  <2>1. \A d \in Calls : step'[d] \in {"mapping", "committing"} => step'[d] = step[d]
    BY <1>1 DEF Goto, TypeOK
  <2>2. \A d \in releasing' : /\ step'[d] # "committing"
                              /\ d \notin storage'[EngineOf[d]].edits
                              /\ d \notin storage'[EngineOf[d]].taken
    BY <1>1, <1>d, <2>1
  <2>3. \A d \in Calls :
           /\ step'[d] = "mapping" => ~ClosesStill(storage'[EngineOf[d]])
           /\ step'[d] = "committing" => ~storage'[EngineOf[d]].notify
    BY <1>1, <1>e, <2>1
  <2>4. \A e \in Engines :
           /\ storage'[e].notify => storage'[e].edits = {} /\ storage'[e].taken = {}
           /\ storage'[e].closing # None => storage'[e].edits = {}
    BY <1>1, <1>f
  <2> QED
    BY <2>2, <2>3, <2>4 DEF Apart, At, StorageOf, ClosesStill
<1>2. ASSUME NEW c \in Calls, DigestMessages(c) \/ Slept(c) \/ ReleaseLock(c) \/ Expire(c)
      PROVE  Apart'
  <2>1. CASE ReleaseLock(c)
    <3>1. UNCHANGED <<step, storage>> /\ releasing' \subseteq releasing
      BY <2>1 DEF ReleaseLock
    <3> QED
      BY <3>1 DEF Apart, At, StorageOf, ClosesStill
  <2>2. CASE DigestMessages(c)
    BY <1>1, <2>2 DEF DigestMessages, lock, Throw, At, Steps
  <2>3. CASE Slept(c)
    BY <1>1, <2>3 DEF Slept, lock, Throw, Settle, At, Steps, Settled
  <2>4. CASE Expire(c)
    BY <1>1, <2>4 DEF Expire
  <2> QED
    BY <1>2, <2>1, <2>2, <2>3, <2>4
<1>3. ASSUME NEW c \in Calls, LockAnswered(c) PROVE Apart'
  <2> DEFINE e == EngineOf[c]
  <2>0. e \in Engines /\ step[c] = "asking" /\ UNCHANGED releasing
    BY <1>3, <1>c DEF LockAnswered, At
  <2>1. CASE SafeBeginBatch(c) /\ SetStorage(e, Attached(storage[e], c)) /\ Goto(c, "mapping")
    <3>1. ~ClosesStill(storage[e])
      BY <2>1 DEF SafeBeginBatch, StorageOf
    <3>2. /\ Attached(storage[e], c) \in Storage
          /\ Attached(storage[e], c).closing = storage[e].closing
          /\ Attached(storage[e], c).notify = storage[e].notify
          /\ Attached(storage[e], c).edits = storage[e].edits
          /\ Attached(storage[e], c).taken = storage[e].taken
      BY <1>a, <1>b, <2>0, UserTypes, AttachedParts
    <3> HIDE DEF e
    <3> QED
      BY <1>g, <2>0, <2>1, <3>1, <3>2 DEF e
  <2>2. CASE UNCHANGED storage /\ \E p \in {"opening", "sleeping", "unsettled"} : Goto(c, p)
    BY <1>1, <2>0, <2>2 DEF Steps, Editing
  <2> QED
    BY <1>3, <2>1, <2>2 DEF LockAnswered, SafeBeginBatch, StorageOf, Throw
<1>4. ASSUME NEW c \in Calls, Opened(c) PROVE Apart'
  <2> DEFINE e == EngineOf[c]
  <2>0. e \in Engines /\ step[c] = "opening" /\ UNCHANGED releasing
    BY <1>4, <1>c DEF Opened, At, lock
  <2>1. CASE SetStorage(e, Begun(storage[e], c)) /\ Goto(c, "mapping")
             /\ crowded' = (crowded \/ ClosesStill(storage[e]))
    <3>1. ~ClosesStill(storage[e])
      BY <2>1
    <3>2. /\ Begun(storage[e], c) \in Storage
          /\ Begun(storage[e], c).closing = storage[e].closing
          /\ Begun(storage[e], c).notify = storage[e].notify
          /\ Begun(storage[e], c).edits = {}
          /\ Begun(storage[e], c).taken = storage[e].taken
      BY <1>a, <1>b, <2>0, UserTypes, BegunParts
    <3> HIDE DEF e
    <3> QED
      BY <1>g, <2>0, <2>1, <3>1, <3>2 DEF e
  <2>2. CASE UNCHANGED storage /\ Goto(c, "unsettled")
    BY <1>1, <2>0, <2>2 DEF Steps
  <2> QED
    BY <1>4, <2>1, <2>2 DEF Opened, StorageOf, Throw
<1>5. ASSUME NEW c \in Calls, Mapped(c) PROVE Apart'
  <2> DEFINE e == EngineOf[c]
             t == Edited(storage[e], c)
  <2>0. e \in Engines /\ step[c] = "mapping" /\ UNCHANGED releasing
    BY <1>5, <1>c DEF Mapped, At, Finish
  <2>1. /\ t \in Storage /\ c \in Users
        /\ t.edits = storage[e].edits \cup {c} /\ t.taken = storage[e].taken
        /\ t.closing = storage[e].closing /\ t.notify = storage[e].notify
    BY <1>a, <1>b, <2>0, CallTypes, EditedParts
  <2>2. t.closing = None /\ ~t.notify
    BY <1>e, <2>0, <2>1 DEF ClosesStill
  <2>3. ASSUME NEW d \in Calls, EngineOf[d] = e
        PROVE  step[d] # "committing" /\ (step[d] = "mapping" => d = c)
    BY <2>0, <2>3 DEF OneAtATime, At, Busy, Editing
  <2>4. \A d \in releasing' : d # c /\ (EngineOf[d] = e => d \notin t.edits \cup t.taken)
    BY <1>d, <2>0, <2>1 DEF Finished, Settled
  <2>5. CASE SetStorage(e, Left(t, c)) /\ \E p \in Settled : Goto(c, p)
    <3> DEFINE s == Left(t, c)
    <3>1. /\ s \in Storage /\ SetStorage(e, s)
          /\ s.edits = t.edits /\ s.taken = t.taken
          /\ s.closing = None /\ s.notify = t.notify
      BY <2>1, <2>2, <2>5, UserTypes, LeftParts
    <3>2. step'[c] \in Settled /\ \A d \in Calls \ {c} : step'[d] = step[d]
      BY <2>5 DEF Goto, TypeOK
    <3>3. \A d \in releasing' : /\ step'[d] # "committing"
                                /\ EngineOf[d] = e => d \notin s.edits \cup s.taken
                                /\ EngineOf[d] # e => d \in releasing
      BY <1>d, <2>0, <2>4, <3>1, <3>2
    <3>4. \A d \in Calls : EngineOf[d] = e =>
           /\ step'[d] = "mapping" => ~ClosesStill(s)
           /\ step'[d] = "committing" => ~s.notify
      BY <2>3, <3>2 DEF Settled
    <3>5. /\ s.notify => s.edits = {} /\ s.taken = {}
          /\ \A d \in Calls : EngineOf[d] # e => step'[d] = step[d]
          /\ releasing' \subseteq Calls
      BY <1>d, <2>0, <2>2, <3>1, <3>2
    <3> HIDE DEF e, s
    <3> QED
      BY <2>0, <3>1, <3>3, <3>4, <3>5, ApartKept
  <2>6. CASE SetStorage(e, Closing(t, c)) /\ Goto(c, "committing")
    <3> DEFINE s == Closing(t, c)
    <3>1. /\ s \in Storage /\ SetStorage(e, s)
          /\ s.edits = {} /\ s.taken = t.edits
          /\ s.notify = t.notify
      BY <2>1, <2>2, <2>6, UserTypes, ClosingParts
    <3>2. step'[c] = "committing" /\ \A d \in Calls \ {c} : step'[d] = step[d]
      BY <2>6 DEF Goto, TypeOK
    <3>3. \A d \in releasing' : /\ step'[d] # "committing"
                                /\ EngineOf[d] = e => d \notin s.edits \cup s.taken
                                /\ EngineOf[d] # e => d \in releasing
      BY <1>d, <2>0, <2>4, <3>1, <3>2
    <3>4. \A d \in Calls : EngineOf[d] = e =>
           /\ step'[d] = "mapping" => ~ClosesStill(s)
           /\ step'[d] = "committing" => ~s.notify
      BY <2>2, <2>3, <3>1, <3>2
    <3>5. /\ s.notify => s.edits = {} /\ s.taken = {}
          /\ \A d \in Calls : EngineOf[d] # e => step'[d] = step[d]
          /\ releasing' \subseteq Calls
      BY <1>d, <2>0, <2>2, <3>1, <3>2
    <3> HIDE DEF e, s
    <3> QED
      BY <2>0, <3>1, <3>3, <3>4, <3>5, ApartKept
  <2>7. CASE UNCHANGED storage /\ Goto(c, "unsettled")
    BY <1>1, <2>0, <2>7 DEF Steps
  <2> QED
    BY <1>5, <2>5, <2>6, <2>7 DEF Mapped, Finish, Settle, Throw, Settled
<1>6. ASSUME NEW e \in Engines, Committed(e) PROVE Apart'
  <2> DEFINE t == storage[e]
             u == t.closing
  <2>1. /\ u \in Users /\ u # None /\ UNCHANGED releasing /\ t \in Storage
        /\ u \in Calls => step[u] = "committing" /\ EngineOf[u] = e
    BY <1>a, <1>6, UserAssumption, CommittedCases DEF Committed, At, Users, lock, Order
  <2>2. /\ t.edits = {}
        /\ t.notify => t.taken = {}
    BY <1>f, <2>1
  <2>3. ASSUME NEW d \in Calls, EngineOf[d] = e
        PROVE  step[d] # "mapping" /\ (step[d] = "committing" => d = u)
    BY <1>e, <2>1, <2>3 DEF ClosesStill
  <2>4. ASSUME NEW s \in Storage, SetStorage(e, s),
               s.edits \subseteq t.edits \cup t.taken, s.taken = {},
               s.notify => s.edits = {},
               s.closing = None,
               \A d \in Calls \ {u} : step'[d] = step[d],
               u \in Calls => step'[u] \in Settled
        PROVE  Apart'
    <3>1. \A d \in releasing' : /\ step'[d] # "committing"
                                /\ EngineOf[d] = e => d \notin s.edits \cup s.taken
                                /\ EngineOf[d] # e => d \in releasing
      BY <1>d, <2>1, <2>4 DEF Settled
    <3>2. \A d \in Calls : EngineOf[d] = e =>
             /\ step'[d] = "mapping" => ~ClosesStill(s)
             /\ step'[d] = "committing" => ~s.notify
      BY <2>3, <2>4 DEF Settled
    <3>3. /\ releasing' \subseteq Calls
          /\ s.notify => s.edits = {} /\ s.taken = {}
          /\ \A d \in Calls : EngineOf[d] # e => step'[d] = step[d]
      BY <1>d, <2>1, <2>4
    <3> HIDE DEF t, u
    <3> QED
      BY <2>4, <3>1, <3>2, <3>3, ApartKept
  <2>5. /\ Stored(t) \in Storage /\ Failed(t) \in Storage
        /\ Stored(t).edits = {} /\ Stored(t).taken = {} /\ Stored(t).closing = None
        /\ Failed(t).edits \subseteq t.edits \cup t.taken /\ Failed(t).taken = {}
        /\ Failed(t).closing = None /\ Failed(t).notify = t.notify
        /\ Failed(t).notify => Failed(t).edits = {}
    <3>1. Failed(t).edits = {} \/ Failed(t).edits = t.edits \cup t.taken
      BY <2>1, FailedParts
    <3> HIDE DEF t
    <3> QED
      BY <2>1, <2>2, <3>1, StorageTypes, StoredParts, FailedParts
  <2>6. ASSUME u \in Calls, NEW q, Goto(u, q)
        PROVE  step'[u] = q /\ \A d \in Calls \ {u} : step'[d] = step[d]
    BY <2>6 DEF Goto, TypeOK
  <2>7. CASE u \in Calls /\ Settle(u, "resolved") /\ SetStorage(e, Stored(t))
    BY <2>4, <2>5, <2>6, <2>7 DEF Settle, Settled
  <2>8. CASE u \in Calls /\ Rollback(u, Failed(t))
    <3> DEFINE s == Cancelled(Failed(t))
    <3>1. /\ s \in Storage /\ s.edits = Failed(t).edits /\ s.taken = Failed(t).taken
          /\ s.closing = Failed(t).closing /\ s.notify = Failed(t).notify
      BY ZenonT(40), <2>5, StorageTypes, CancelledParts
    <3>2. SetStorage(e, s) /\ Goto(u, "rejected") /\ "rejected" \in Settled
      BY <2>1, <2>8 DEF Rollback, Settle, Settled
    <3> HIDE DEF s
    <3> QED
      BY <2>4, <2>5, <2>6, <2>8, <3>1, <3>2
  <2>9. CASE /\ u = Other /\ UNCHANGED <<step, inProgress>>
             /\ (SetStorage(e, Stored(t)) \/ SetStorage(e, Failed(t)))
    BY <2>4, <2>5, <2>9, UserAssumption
  <2> QED
    BY <1>6, <2>7, <2>8, <2>9, CommittedCases
<1>8. ASSUME NEW e \in Engines, NotifyOnCommitBatch(e) PROVE Apart'
  <2> DEFINE t == storage[e]
             s == Notified(t)
  <2>1. /\ t \in Storage /\ t.notify /\ SetStorage(e, s) /\ UNCHANGED step
        /\ releasing' = releasing \cup t.listeners /\ t.listeners \subseteq Calls
    BY <1>8, <1>a DEF NotifyOnCommitBatch
  <2>2. /\ s \in Storage /\ s.edits = {} /\ s.taken = {}
        /\ s.closing = t.closing /\ ~s.notify
    BY <1>f, <2>1, StorageTypes, NotifiedParts
  <2>3. ASSUME NEW d \in t.listeners
        PROVE  d \in Calls /\ EngineOf[d] = e /\ step[d] # "committing"
    BY <1>e, <2>1, <2>3 DEF Order
  <2>4. ASSUME NEW d \in Calls, EngineOf[d] = e
        PROVE  step[d] \notin {"mapping", "committing"}
    BY <1>e, <2>1, <2>4 DEF ClosesStill
  <2>5. \A d \in releasing' : /\ step'[d] # "committing"
                              /\ EngineOf[d] = e => d \notin s.edits \cup s.taken
                              /\ EngineOf[d] # e => d \in releasing
    BY <1>d, <2>1, <2>2, <2>3
  <2>6. \A d \in Calls : EngineOf[d] = e =>
           /\ step'[d] = "mapping" => ~ClosesStill(s)
           /\ step'[d] = "committing" => ~s.notify
    BY <2>1, <2>4
  <2>7. /\ releasing' \subseteq Calls
        /\ \A d \in Calls : EngineOf[d] # e => step'[d] = step[d]
    BY <1>d, <2>1
  <2> HIDE DEF t, s
  <2> QED
    BY <2>1, <2>2, <2>5, <2>6, <2>7, ApartKept
<1>9. ASSUME NEW e \in Engines, NEW s \in Storage, SetStorage(e, s),
             UNCHANGED <<step, releasing>>,
             s.edits \cup s.taken \subseteq storage[e].edits \cup storage[e].taken,
             s.notify = storage[e].notify,
             s.closing # None => s.edits = {},
             \A d \in Calls : EngineOf[d] = e /\ step[d] = "mapping" => ~ClosesStill(s)
      PROVE  Apart'
  <2>1. \A d \in releasing' : /\ step'[d] # "committing"
                              /\ EngineOf[d] = e => d \notin s.edits \cup s.taken
                              /\ EngineOf[d] # e => d \in releasing
    BY <1>d, <1>9
  <2>2. \A d \in Calls : EngineOf[d] = e =>
           /\ step'[d] = "mapping" => ~ClosesStill(s)
           /\ step'[d] = "committing" => ~s.notify
    BY <1>e, <1>9
  <2>3. /\ releasing' \subseteq Calls
        /\ s.notify => s.edits = {} /\ s.taken = {}
        /\ \A d \in Calls : EngineOf[d] # e => step'[d] = step[d]
    BY <1>d, <1>f, <1>9
  <2> QED
    BY <1>9, <2>1, <2>2, <2>3, ApartKept
<1>10. ASSUME NEW e \in Engines, OtherBegins(e) PROVE Apart'
  <2>1. PICK s \in {Attached(storage[e], Other), Begun(storage[e], Other)} : SetStorage(e, s)
    BY <1>10 DEF OtherBegins
  <2>2. s \in Storage /\ UNCHANGED <<step, releasing>>
    BY <1>10, <1>a, <1>b, <2>1, UserTypes DEF OtherBegins, lock
  <2>3. /\ s.edits \subseteq storage[e].edits /\ s.taken = storage[e].taken
        /\ s.closing = storage[e].closing /\ s.notify = storage[e].notify
    BY <1>a, <2>1, AttachedParts, BegunParts
  <2>4. \A d \in Calls : EngineOf[d] = e /\ step[d] = "mapping" => ~ClosesStill(s)
    BY <1>e, <2>3 DEF ClosesStill
  <2> QED
    BY <1>9, <1>f, <2>1, <2>2, <2>3, <2>4
<1>11. ASSUME NEW e \in Engines, OtherCommits(e) PROVE Apart'
  <2>1. CASE SetStorage(e, Left(storage[e], Other))
    <3> DEFINE s == Left(storage[e], Other)
    <3>1. s \in Storage /\ SetStorage(e, s) /\ UNCHANGED <<step, releasing>>
      BY <1>11, <1>a, <1>b, <2>1, UserTypes DEF OtherCommits, lock
    <3>2. /\ s.edits = storage[e].edits /\ s.taken = storage[e].taken
          /\ s.closing = storage[e].closing /\ s.notify = storage[e].notify
      BY <1>a, LeftParts
    <3>3. \A d \in Calls : EngineOf[d] = e /\ step[d] = "mapping" => ~ClosesStill(s)
      BY <1>e, <3>2 DEF ClosesStill
    <3> HIDE DEF s
    <3> QED
      BY <1>9, <1>f, <3>1, <3>2, <3>3
  <2>2. CASE /\ SetStorage(e, Closing(storage[e], Other))
             /\ storage[e].batches = {Other} /\ storage[e].closing = None
    <3> DEFINE s == Closing(storage[e], Other)
    <3>1. s \in Storage /\ SetStorage(e, s) /\ UNCHANGED <<step, releasing>>
      BY <1>11, <1>a, <1>b, <2>2, UserTypes DEF OtherCommits, lock
    <3>2. /\ s.edits = {} /\ s.taken = storage[e].edits
          /\ s.closing = Other /\ s.notify = storage[e].notify
      BY <1>a, ClosingParts
    <3>3. \A d \in Calls : EngineOf[d] = e => step[d] # "mapping"
      BY <2>2, UserAssumption DEF Order, At, StorageOf
    <3> HIDE DEF s
    <3> QED
      BY <1>9, <3>1, <3>2, <3>3
  <2> QED
    BY <1>11, <2>1, <2>2 DEF OtherCommits
<1>12. CASE UNCHANGED vars
  BY <1>12 DEF vars, lock, Apart, At, StorageOf, ClosesStill
<1> QED
  BY <1>2, <1>3, <1>4, <1>5, <1>6, <1>8, <1>10, <1>11, <1>12 DEF Next, Callback

-----------------------------------------------------------------------------
\* What EditorsHoldTheLock says a call needs the lock for.
NeedsTheLock(c) ==
    step[c] \in Editing \/ c \in StorageOf(c).edits \cup StorageOf(c).taken

\* Edits that move or vanish in one storage service come from nowhere.
LEMMA EditsMove ==
    ASSUME TypeOK, NEW e \in Engines, NEW s \in Storage, SetStorage(e, s), NEW A,
           s.edits \cup s.taken \subseteq storage[e].edits \cup storage[e].taken \cup A
    PROVE  \A d \in Calls \ A :
               (d \in StorageOf(d).edits \cup StorageOf(d).taken)' =>
                   d \in StorageOf(d).edits \cup StorageOf(d).taken
<1>1. /\ storage'[e] = s
      /\ \A f \in Engines \ {e} : storage'[f] = storage[f]
  BY SetStorageType
<1> SUFFICES ASSUME NEW d \in Calls \ A,
                    d \in storage'[EngineOf[d]].edits \cup storage'[EngineOf[d]].taken
             PROVE  d \in storage[EngineOf[d]].edits \cup storage[EngineOf[d]].taken
  BY DEF StorageOf
<1>2. CASE EngineOf[d] = e
  BY <1>1, <1>2
<1>3. CASE EngineOf[d] # e
  BY <1>1, <1>3
<1> QED
  BY <1>2, <1>3

\* Who needs the lock keeps it: it is granted when its period is over only, and the
\* request to release it is sent when the edits are anchored or gone.
LEMMA StepHold == Inv /\ EditorsHoldTheLock /\ [Next]_vars => EditorsHoldTheLock'
<1> SUFFICES ASSUME TypeOK, Order, Apart, [Next]_vars, ~crowded, ~crowded',
                    \A d \in Calls : NeedsTheLock(d) => holder = d \/ d \in over
             PROVE  \A d \in Calls : NeedsTheLock(d)' => (holder = d \/ d \in over)'
  BY CrowdedStays DEF Inv, EditorsHoldTheLock, NeedsTheLock
<1>a. ASSUME NEW e \in Engines PROVE storage[e] \in Storage
  BY <1>a DEF TypeOK
<1>b. Calls \subseteq Users /\ Other \in Users
  BY DEF Users
<1>c. ASSUME NEW c \in Calls PROVE EngineOf[c] \in Engines
  BY <1>c
<1> DEFINE OneMoves(c, p) == step'[c] = p /\ \A d \in Calls \ {c} : step'[d] = step[d]
<1>d. ASSUME NEW c \in Calls, NEW p, Goto(c, p) PROVE OneMoves(c, p)
  BY <1>d DEF Goto, TypeOK
<1> HIDE DEF OneMoves
<1>e. ASSUME \A d \in Calls : NeedsTheLock(d)' => NeedsTheLock(d),
             UNCHANGED <<holder, over>>
      PROVE  \A d \in Calls : NeedsTheLock(d)' => (holder = d \/ d \in over)'
  BY <1>e
<1>f. ASSUME NEW c \in Calls, UNCHANGED storage,
             \/ UNCHANGED step
             \/ \E p \in Steps \ Editing : Goto(c, p)
      PROVE  \A d \in Calls : NeedsTheLock(d)' => NeedsTheLock(d)
  BY <1>f, <1>d DEF NeedsTheLock, StorageOf, OneMoves
<1>g. ASSUME NEW e \in Engines, NEW s \in Storage, SetStorage(e, s),
             s.edits \cup s.taken \subseteq storage[e].edits \cup storage[e].taken,
             UNCHANGED step \/ \E c \in Calls, p \in Steps :
                                  Goto(c, p) /\ (p \in Editing => step[c] \in Editing)
      PROVE  \A d \in Calls : NeedsTheLock(d)' => NeedsTheLock(d)
  <2>1. \A d \in Calls : step'[d] \in Editing => step[d] \in Editing
    BY <1>g, <1>d DEF OneMoves
  <2>2. \A d \in Calls : (d \in StorageOf(d).edits \cup StorageOf(d).taken)' =>
                            d \in StorageOf(d).edits \cup StorageOf(d).taken
    <3>1. s.edits \cup s.taken \subseteq storage[e].edits \cup storage[e].taken \cup {}
      BY <1>g
    <3> QED
      BY <1>g, <3>1, EditsMove
  <2> QED
    BY <2>1, <2>2 DEF NeedsTheLock
<1>1. ASSUME NEW c \in Calls, DigestMessages(c) \/ Slept(c)
      PROVE  \A d \in Calls : NeedsTheLock(d)' => (holder = d \/ d \in over)'
  <2>1. /\ UNCHANGED <<storage, holder, over>>
        /\ \E p \in Steps \ Editing : Goto(c, p)
    BY <1>1 DEF DigestMessages, Slept, Throw, Settle, lock, Steps, Editing, Settled
  <2> QED
    BY <1>e, <1>f, <2>1
<1>2. ASSUME NEW c \in Calls, LockAnswered(c)
      PROVE  \A d \in Calls : NeedsTheLock(d)' => (holder = d \/ d \in over)'
  <2>1. CASE UNCHANGED storage /\ \E p \in {"sleeping", "unsettled"} : Goto(c, p)
    <3>1. \A d \in Calls : NeedsTheLock(d)' => NeedsTheLock(d)
      BY <1>f, <2>1 DEF Steps, Editing
    <3>2. UNCHANGED over /\ (UNCHANGED holder \/ holder \in over \cup {None})
      BY <1>2 DEF LockAnswered
    <3> QED
      BY <3>1, <3>2, UserAssumption
  <2>2. CASE holder \in over \cup {None} /\ holder' = c /\ SafeBeginBatch(c)
    <3>1. \A d \in Calls \ {c} : NeedsTheLock(d)' => NeedsTheLock(d)
      <4>1. \A d \in Calls : (d \in StorageOf(d).edits \cup StorageOf(d).taken)' =>
                                d \in StorageOf(d).edits \cup StorageOf(d).taken
        <5>1. CASE UNCHANGED storage
          BY <5>1 DEF StorageOf
        <5>2. CASE SetStorage(EngineOf[c], Attached(StorageOf(c), c))
          <6> DEFINE e == EngineOf[c]
                     s == Attached(storage[e], c)
          <6>1. /\ e \in Engines /\ s \in Storage /\ SetStorage(e, s)
                /\ s.edits = storage[e].edits /\ s.taken = storage[e].taken
            BY <5>2, <1>a, <1>b, <1>c, UserTypes, AttachedParts DEF StorageOf
          <6>2. s.edits \cup s.taken \subseteq storage[e].edits \cup storage[e].taken \cup {}
            BY <6>1
          <6> HIDE DEF s, e
          <6> QED
            BY <6>1, <6>2, EditsMove
        <5> QED
          BY <2>2, <5>1, <5>2 DEF SafeBeginBatch
      <4>2. \A d \in Calls \ {c} : step'[d] = step[d]
        BY <2>2, <1>d DEF SafeBeginBatch, Throw, OneMoves
      <4> QED
        BY <4>1, <4>2 DEF NeedsTheLock
    <3>2. UNCHANGED over
      BY <1>2 DEF LockAnswered
    <3> QED
      BY <2>2, <3>1, <3>2, UserAssumption
  <2> QED
    BY <1>2, <2>1, <2>2 DEF LockAnswered, Throw
<1>3. ASSUME NEW c \in Calls, Opened(c)
      PROVE  \A d \in Calls : NeedsTheLock(d)' => (holder = d \/ d \in over)'
  <2>0. step[c] = "opening" /\ UNCHANGED <<holder, over>>
    BY <1>3 DEF Opened, At, lock
  <2>1. CASE UNCHANGED storage /\ Goto(c, "unsettled")
    BY <1>e, <1>f, <2>0, <2>1 DEF Steps, Editing
  <2>2. CASE SetStorage(EngineOf[c], Begun(StorageOf(c), c)) /\ Goto(c, "mapping")
    <3> DEFINE e == EngineOf[c]
               s == Begun(storage[e], c)
    <3>1. /\ e \in Engines /\ s \in Storage /\ SetStorage(e, s)
          /\ s.edits = {} /\ s.taken = storage[e].taken
      BY <2>2, <1>a, <1>b, <1>c, UserTypes, BegunParts DEF StorageOf
    <3>2. "mapping" \in Steps /\ step[c] \in Editing
      BY <2>0 DEF Steps, Editing
    <3> HIDE DEF s, e
    <3> QED
      BY <1>e, <1>g, <2>0, <2>2, <3>1, <3>2
  <2> QED
    BY <1>3, <2>1, <2>2 DEF Opened, Throw
<1>4. ASSUME NEW c \in Calls, Mapped(c)
      PROVE  \A d \in Calls : NeedsTheLock(d)' => (holder = d \/ d \in over)'
  <2> DEFINE e == EngineOf[c]
             t == Edited(storage[e], c)
  <2>0. /\ step[c] = "mapping" /\ NeedsTheLock(c) /\ UNCHANGED <<holder, over>>
        /\ \E p \in Steps : Goto(c, p)
    BY <1>4 DEF Mapped, Finish, At, NeedsTheLock, Settle, Throw, Steps, Editing, Settled
  <2>1. CASE UNCHANGED storage /\ Goto(c, "unsettled")
    BY <1>e, <1>f, <2>0, <2>1 DEF Steps, Editing
  <2>2. CASE SetStorage(e, Left(t, c)) \/ SetStorage(e, Closing(t, c))
    <3>1. /\ e \in Engines /\ t \in Storage /\ c \in Users
          /\ t.edits = storage[e].edits \cup {c} /\ t.taken = storage[e].taken
      BY <1>a, <1>b, <1>c, CallTypes, EditedParts
    <3>2. PICK s \in Storage : SetStorage(e, s) /\ s.edits \cup s.taken \subseteq t.edits \cup t.taken
      <4>1. /\ Left(t, c) \in Storage
            /\ Left(t, c).edits \cup Left(t, c).taken \subseteq t.edits \cup t.taken
        BY <3>1, UserTypes, LeftParts
      <4>2. /\ Closing(t, c) \in Storage
            /\ Closing(t, c).edits \cup Closing(t, c).taken \subseteq t.edits \cup t.taken
        BY <3>1, UserTypes, ClosingParts
      <4> HIDE DEF t
      <4> QED
        BY <2>2, <4>1, <4>2
    <3>3. s.edits \cup s.taken \subseteq storage[e].edits \cup storage[e].taken \cup {c}
      BY <3>1, <3>2
    <3> HIDE DEF t, e
    <3>4. \A d \in Calls \ {c} : (d \in StorageOf(d).edits \cup StorageOf(d).taken)' =>
                                    d \in StorageOf(d).edits \cup StorageOf(d).taken
      BY <3>1, <3>2, <3>3, EditsMove
    <3>5. \A d \in Calls \ {c} : step'[d] = step[d]
      BY <2>0, <1>d DEF OneMoves
    <3> QED
      BY <1>e, <2>0, <3>4, <3>5 DEF NeedsTheLock
  <2> QED
    BY <1>4, <2>1, <2>2 DEF Mapped, Finish, Throw
<1>5. ASSUME NEW e \in Engines, Committed(e)
      PROVE  \A d \in Calls : NeedsTheLock(d)' => (holder = d \/ d \in over)'
  <2> DEFINE t == storage[e]
             u == t.closing
  <2>0. t \in Storage /\ UNCHANGED <<holder, over>>
    BY <1>5, <1>a DEF Committed, lock
  <2>1. /\ Stored(t) \in Storage
        /\ Stored(t).edits \cup Stored(t).taken \subseteq t.edits \cup t.taken
    BY <2>0, StorageTypes, StoredParts
  <2>2. /\ Failed(t) \in Storage
        /\ Failed(t).edits \cup Failed(t).taken \subseteq t.edits \cup t.taken
    BY <2>0, StorageTypes, FailedParts
  <2>3. /\ Cancelled(Failed(t)) \in Storage
        /\ Cancelled(Failed(t)).edits = Failed(t).edits
        /\ Cancelled(Failed(t)).taken = Failed(t).taken
    BY <2>2, StorageTypes, CancelledParts
  <2>4. \E s \in Storage : SetStorage(e, s) /\ s.edits \cup s.taken \subseteq t.edits \cup t.taken
    <3>1. CASE SetStorage(e, Stored(t))
      BY <2>1, <3>1
    <3>2. CASE SetStorage(e, Failed(t))
      BY <2>2, <3>2
    <3>3. CASE SetStorage(e, Cancelled(Failed(t)))
      BY <2>2, <2>3, <3>3
    <3>4. u \in Calls /\ Rollback(u, Failed(t)) => u \in Calls /\ EngineOf[u] = e
      BY DEF Order
    <3> HIDE DEF t, u
    <3> QED
      BY <1>5, <3>1, <3>2, <3>3, <3>4, CommittedCases DEF Rollback, t, u
  <2>5. UNCHANGED step \/ \E c \in Calls, p \in Steps :
                             Goto(c, p) /\ (p \in Editing => step[c] \in Editing)
    <3>1. {"resolved", "rejected"} \cap Editing = {} /\ {"resolved", "rejected"} \subseteq Steps
      BY DEF Steps, Editing, Settled
    <3> HIDE DEF t, u
    <3> QED
      BY <1>5, <3>1, CommittedCases DEF Rollback, Settle, t, u
  <2> HIDE DEF t, u
  <2> QED
    BY <1>e, <1>g, <2>0, <2>4, <2>5 DEF t
<1>7. ASSUME NEW e \in Engines, NotifyOnCommitBatch(e)
      PROVE  \A d \in Calls : NeedsTheLock(d)' => (holder = d \/ d \in over)'
  <2>1. /\ Notified(storage[e]) \in Storage /\ SetStorage(e, Notified(storage[e]))
        /\ Notified(storage[e]).edits = storage[e].edits
        /\ Notified(storage[e]).taken = storage[e].taken
        /\ UNCHANGED <<step, holder, over>>
    BY <1>7, <1>a, StorageTypes, NotifiedParts DEF NotifyOnCommitBatch
  <2> QED
    BY <1>e, <1>g, <2>1
<1>8. ASSUME NEW c \in Calls, ReleaseLock(c)
      PROVE  \A d \in Calls : NeedsTheLock(d)' => (holder = d \/ d \in over)'
  <2>1. ~NeedsTheLock(c)
    BY <1>8 DEF ReleaseLock, Order, Apart, At, NeedsTheLock, Editing, Finished, Settled
  <2>2. /\ UNCHANGED <<step, storage, over>>
        /\ UNCHANGED holder \/ holder = c
    BY <1>8 DEF ReleaseLock
  <2>3. \A d \in Calls : NeedsTheLock(d)' => NeedsTheLock(d)
    BY <2>2 DEF NeedsTheLock, StorageOf
  <2> QED
    BY <2>1, <2>2, <2>3
<1>9. ASSUME NEW c \in Calls, Expire(c)
      PROVE  \A d \in Calls : NeedsTheLock(d)' => (holder = d \/ d \in over)'
  BY <1>9 DEF Expire, NeedsTheLock, StorageOf
<1>10. ASSUME NEW e \in Engines, OtherBegins(e) \/ OtherCommits(e)
       PROVE  \A d \in Calls : NeedsTheLock(d)' => (holder = d \/ d \in over)'
  <2>1. /\ UNCHANGED <<step, holder, over>>
        /\ \/ SetStorage(e, Attached(storage[e], Other))
           \/ SetStorage(e, Begun(storage[e], Other))
           \/ SetStorage(e, Left(storage[e], Other))
           \/ SetStorage(e, Closing(storage[e], Other))
    BY <1>10 DEF OtherBegins, OtherCommits, lock
  <2>2. PICK s \in Storage :
           /\ SetStorage(e, s)
           /\ s.edits \cup s.taken \subseteq storage[e].edits \cup storage[e].taken
    <3> DEFINE t == storage[e]
    <3>1. /\ Begun(t, Other) \in Storage
          /\ Begun(t, Other).edits \cup Begun(t, Other).taken \subseteq t.edits \cup t.taken
      BY <1>a, <1>b, UserTypes, BegunParts
    <3>4. /\ Attached(t, Other) \in Storage
          /\ Attached(t, Other).edits \cup Attached(t, Other).taken \subseteq t.edits \cup t.taken
      BY <1>a, <1>b, UserTypes, AttachedParts
    <3>2. /\ Left(t, Other) \in Storage
          /\ Left(t, Other).edits \cup Left(t, Other).taken \subseteq t.edits \cup t.taken
      BY <1>a, <1>b, UserTypes, LeftParts
    <3>3. /\ Closing(t, Other) \in Storage
          /\ Closing(t, Other).edits \cup Closing(t, Other).taken \subseteq t.edits \cup t.taken
      BY <1>a, <1>b, UserTypes, ClosingParts
    <3> QED
      BY <2>1, <3>1, <3>2, <3>3, <3>4
  <2> QED
    BY <1>e, <1>g, <2>1, <2>2
<1>11. CASE UNCHANGED vars
  BY <1>11 DEF vars, lock, NeedsTheLock, StorageOf
<1> QED
  BY <1>1, <1>2, <1>3, <1>4, <1>5, <1>7, <1>8, <1>9, <1>10, <1>11 DEF Next, Callback

-----------------------------------------------------------------------------
\* A failure is not undone.
LEMMA FaultsStay == TypeOK /\ [Next]_vars /\ faults' = 0 => faults = 0
<1> SUFFICES ASSUME TypeOK, [Next]_vars, faults' = 0 PROVE faults = 0
  OBVIOUS
<1>1. UNCHANGED faults \/ faults' = faults + 1
  BY DEF Next, vars, Callback, Fault, DigestMessages, LockAnswered, Slept, Opened, Mapped,
         Committed, NotifyOnCommitBatch, ReleaseLock, Expire, OtherBegins,
         OtherCommits
<1>2. faults \in Nat
  BY DEF TypeOK
<1> QED
  BY <1>1, <1>2

\* Carried holds after a step that changes one storage service, if it holds there.
LEMMA CarriedKept ==
    ASSUME TypeOK, Carried, ~crowded, faults = 0, NEW e \in Engines, NEW s \in Storage,
           SetStorage(e, s), anchored \subseteq anchored',
           s.edits # {} => s.batches # {} /\ s.real,
           s.closing # None /\ ~s.real => s.closing = Other /\ s.taken = {},
           \A d \in Calls : EngineOf[d] = e =>
               /\ step'[d] = "mapping" => s.real
               /\ step'[d] = "committing" => d \in s.taken
               /\ step'[d] = "resolved" => d \in anchored' \cup s.taken \cup s.edits,
           \A d \in Calls : EngineOf[d] # e => step'[d] = step[d]
    PROVE  Carried'
<1>1. /\ storage'[e] = s
      /\ \A f \in Engines \ {e} : storage'[f] = storage[f]
  BY SetStorageType
<1>2. ASSUME NEW f \in Engines
      PROVE  /\ storage'[f].edits # {} => storage'[f].batches # {} /\ storage'[f].real
             /\ storage'[f].closing # None /\ ~storage'[f].real =>
                   storage'[f].closing = Other /\ storage'[f].taken = {}
  <2>1. CASE f = e
    BY <1>1, <2>1
  <2>2. CASE f # e
    BY <1>1, <2>2 DEF Carried
  <2> QED
    BY <2>1, <2>2
<1>3. ASSUME NEW d \in Calls
      PROVE  /\ step'[d] = "mapping" => storage'[EngineOf[d]].real
             /\ step'[d] = "committing" => d \in storage'[EngineOf[d]].taken
             /\ step'[d] = "resolved" =>
                   d \in anchored' \cup storage'[EngineOf[d]].taken
                                   \cup storage'[EngineOf[d]].edits
  <2>1. CASE EngineOf[d] = e
    BY <1>1, <2>1
  <2>2. CASE EngineOf[d] # e
    <3>1. EngineOf[d] \in Engines /\ step'[d] = step[d]
      BY <2>2
    <3> QED
      BY <1>1, <2>2, <3>1 DEF Carried, At, StorageOf
  <2> QED
    BY <2>1, <2>2
<1> QED
  BY <1>2, <1>3 DEF Carried, At, StorageOf

\* Without failures no edits are lost: who leaves a batch last takes all edits, and a
\* commit that finds its bar in no batch is one of somebody else, without edits.
LEMMA StepCarried == Inv /\ [Next]_vars => Carried'
<1> SUFFICES ASSUME TypeOK, OneAtATime, Order, Apart, Carried, [Next]_vars,
                    ~crowded, ~crowded', faults = 0, faults' = 0
             PROVE  Carried'
  BY CrowdedStays, FaultsStay DEF Inv, Carried
<1>a. ASSUME NEW e \in Engines
      PROVE  /\ storage[e] \in Storage
             /\ storage[e].real \in BOOLEAN
             /\ storage[e].closing \in Users \cup {None}
             /\ storage[e].edits # {} => storage[e].batches # {} /\ storage[e].real
             /\ storage[e].closing # None /\ ~storage[e].real =>
                   storage[e].closing = Other /\ storage[e].taken = {}
             /\ storage[e].closing = None => storage[e].taken = {}
  BY <1>a DEF TypeOK, Storage, Carried, Order
<1>b. Calls \subseteq Users /\ Other \in Users
  BY DEF Users
<1>c. ASSUME NEW c \in Calls PROVE EngineOf[c] \in Engines
  BY <1>c
<1>d. ASSUME NEW d \in Calls
      PROVE  /\ step[d] = "mapping" => storage[EngineOf[d]].real
             /\ step[d] = "mapping" => storage[EngineOf[d]].closing = None
             /\ step[d] = "committing" => d \in storage[EngineOf[d]].taken
             /\ step[d] = "committing" => storage[EngineOf[d]].closing = d
             /\ step[d] = "resolved" => d \in anchored \cup storage[EngineOf[d]].taken
                                                       \cup storage[EngineOf[d]].edits
  BY DEF Carried, Apart, Order, At, StorageOf, ClosesStill
<1>e. ASSUME NEW e \in Engines, storage[e].closing # None PROVE storage[e].edits = {}
  BY <1>e DEF Apart
<1>f. ~Fault
  BY DEF Fault
\* A step of one call, or of none, that leaves the storage services alone.
<1>g. ASSUME UNCHANGED <<storage, anchored>>,
             \/ UNCHANGED step
             \/ \E c \in Calls :
                   \E p \in Steps \ {"mapping", "committing", "resolved"} :
                      Goto(c, p)
      PROVE  Carried'
  <2>1. \A d \in Calls : step'[d] \in {"mapping", "committing", "resolved"} =>
                            step'[d] = step[d]
    BY <1>g DEF Goto, TypeOK
  <2> QED
    BY <1>a, <1>d, <1>g, <2>1 DEF Carried, At, StorageOf
\* The batch of a call opens.
<1>h. ASSUME NEW c \in Calls, NEW e \in Engines, NEW s \in Storage, EngineOf[c] = e,
             SetStorage(e, s), UNCHANGED anchored, Goto(c, "mapping"), s.real,
             s.batches = storage[e].batches \cup {c},
             s.edits = storage[e].edits \/ (s.edits = {} /\ ~storage[e].real),
             s.taken = storage[e].taken
      PROVE  Carried'
  <2>1. step'[c] = "mapping" /\ \A d \in Calls \ {c} : step'[d] = step[d]
    BY <1>h DEF Goto, TypeOK
  <2>2. \A d \in Calls : EngineOf[d] = e =>
           /\ step'[d] = "mapping" => s.real
           /\ step'[d] = "committing" => d \in s.taken
           /\ step'[d] = "resolved" => d \in anchored' \cup s.taken \cup s.edits
    BY <1>a, <1>d, <1>h, <2>1
  <2>3. \A d \in Calls : EngineOf[d] # e => step'[d] = step[d]
    BY <1>h, <2>1
  <2>4. anchored \subseteq anchored' /\ s.batches # {}
    BY <1>h
  <2> QED
    BY <1>h, <2>2, <2>3, <2>4, CarriedKept
<1>1. ASSUME NEW c \in Calls, DigestMessages(c) \/ Slept(c) \/ ReleaseLock(c) \/ Expire(c)
      PROVE  Carried'
  <2>1. UNCHANGED <<storage, anchored>>
        /\ (UNCHANGED step \/ \E p \in {"asking", "rejected", "unsettled"} : Goto(c, p))
    BY <1>1 DEF DigestMessages, Slept, ReleaseLock, Expire, Throw, Settle
  <2> QED
    BY <1>g, <2>1 DEF Steps, Settled
<1>2. ASSUME NEW c \in Calls, LockAnswered(c) PROVE Carried'
  <2> DEFINE e == EngineOf[c]
             s == Attached(storage[e], c)
  <2>0. e \in Engines /\ UNCHANGED anchored
    BY <1>2, <1>c DEF LockAnswered
  <2>1. CASE SetStorage(e, s) /\ Goto(c, "mapping") /\ storage[e].real
    <3>1. /\ s \in Storage /\ s.batches = storage[e].batches \cup {c}
          /\ s.edits = storage[e].edits /\ s.taken = storage[e].taken
      BY <1>a, <1>b, <2>0, UserTypes, AttachedParts
    <3>2. s.real
      BY Zenon, <1>a, <2>0, <2>1, RealParts
    <3> HIDE DEF e, s
    <3> QED
      BY <1>h, <2>0, <2>1, <3>1, <3>2 DEF e
  <2>2. CASE UNCHANGED storage /\ \E p \in {"opening", "sleeping", "unsettled"} : Goto(c, p)
    BY <1>g, <2>0, <2>2 DEF Steps, Editing
  <2> QED
    BY <1>2, <2>1, <2>2 DEF LockAnswered, SafeBeginBatch, StorageOf, Throw
<1>3. ASSUME NEW c \in Calls, Opened(c) PROVE Carried'
  <2> DEFINE e == EngineOf[c]
             s == Begun(storage[e], c)
  <2>0. e \in Engines /\ UNCHANGED anchored
    BY <1>3, <1>c DEF Opened
  <2>1. CASE SetStorage(e, s) /\ Goto(c, "mapping") /\ ~storage[e].real
    <3>1. /\ s \in Storage /\ s.batches = storage[e].batches \cup {c}
          /\ s.edits = {} /\ s.taken = storage[e].taken
      BY <1>a, <1>b, <2>0, UserTypes, BegunParts
    <3>2. s.real
      BY Zenon, <1>a, <2>0, RealParts
    <3> HIDE DEF e, s
    <3> QED
      BY <1>h, <2>0, <2>1, <3>1, <3>2 DEF e
  <2>2. CASE UNCHANGED storage /\ Goto(c, "unsettled")
    BY <1>g, <2>0, <2>2 DEF Steps
  <2> QED
    BY <1>3, <2>1, <2>2 DEF Opened, StorageOf, Throw
<1>4. ASSUME NEW c \in Calls, Mapped(c) PROVE Carried'
  <2> DEFINE e == EngineOf[c]
             t == Edited(storage[e], c)
  <2>0. e \in Engines /\ UNCHANGED anchored /\ step[c] = "mapping" /\ c \in Users
    BY <1>4, <1>b, <1>c DEF Mapped, At
  <2>1. /\ t \in Storage /\ t.edits = storage[e].edits \cup {c}
        /\ t.taken = {} /\ t.batches = storage[e].batches
        /\ t.closing = None
    <3>1. storage[e].closing = None /\ storage[e].taken = {} /\ storage[e] \in Storage
      BY <1>a, <1>d, <2>0
    <3> QED
      BY <2>0, <3>1, CallTypes, EditedParts
  <2>2. t.real
    <3>1. storage[e].real
      BY <1>d, <2>0
    <3> QED
      BY Zenon, <1>a, <2>0, <3>1, RealParts
  <2>3. \/ /\ t.batches \ {c} # {} /\ SetStorage(e, Left(t, c)) /\ Goto(c, "resolved")
        \/ SetStorage(e, Closing(t, c)) /\ Goto(c, "committing")
    BY <1>4, <1>f, <2>1 DEF Mapped, Finish, Settle
  <2>4. \A d \in Calls \ {c} : step'[d] = step[d]
    BY <2>3 DEF Goto, TypeOK
  <2>5. \A d \in Calls : EngineOf[d] = e /\ d # c =>
           step[d] # "mapping" /\ step[d] # "committing"
    BY <2>0 DEF OneAtATime, Busy, Editing
  <2>6. CASE t.batches \ {c} # {} /\ SetStorage(e, Left(t, c)) /\ Goto(c, "resolved")
    <3> DEFINE s == Left(t, c)
    <3>1. /\ s \in Storage /\ s.batches = t.batches \ {c}
          /\ s.edits = storage[e].edits \cup {c} /\ s.taken = storage[e].taken
          /\ s.closing = None
      <4>1. storage[e].taken = {}
        BY <1>a, <1>d, <2>0
      <4>2. t \in Storage /\ c \in Users
        BY <2>0, <2>1
      <4> QED
        BY <2>1, <4>1, <4>2, UserTypes, LeftParts
    <3>2. s.real
      BY Zenon, <2>1, <2>2, RealParts
    <3>3. step'[c] = "resolved"
      BY <2>6 DEF Goto, TypeOK
    <3>4. \A d \in Calls : EngineOf[d] = e =>
             /\ step'[d] = "mapping" => s.real
             /\ step'[d] = "committing" => d \in s.taken
             /\ step'[d] = "resolved" => d \in anchored' \cup s.taken \cup s.edits
      BY <1>d, <2>0, <2>4, <2>5, <3>1, <3>3, <3>2
    <3>5. \A d \in Calls : EngineOf[d] # e => step'[d] = step[d]
      BY <2>4
    <3> HIDE DEF e, s, t
    <3> QED
      BY <2>0, <2>6, <3>1, <3>4, <3>5, <3>2, CarriedKept DEF s
  <2>7. CASE SetStorage(e, Closing(t, c)) /\ Goto(c, "committing")
    <3> DEFINE s == Closing(t, c)
    <3>1. /\ s \in Storage /\ s.edits = {}
          /\ s.taken = storage[e].edits \cup {c} /\ s.closing = c
      BY <2>0, <2>1, UserTypes, ClosingParts
    <3>2. s.real
      BY Zenon, <2>1, <2>2, RealParts
    <3>3. step'[c] = "committing"
      BY <2>7 DEF Goto, TypeOK
    <3>4. \A d \in Calls : EngineOf[d] = e =>
             /\ step'[d] = "mapping" => s.real
             /\ step'[d] = "committing" => d \in s.taken
             /\ step'[d] = "resolved" => d \in anchored' \cup s.taken \cup s.edits
      <4>1. storage[e].taken = {}
        BY <1>a, <1>d, <2>0
      <4> QED
        BY <1>d, <2>0, <2>4, <2>5, <3>1, <3>3, <3>2, <4>1
    <3>5. \A d \in Calls : EngineOf[d] # e => step'[d] = step[d]
      BY <2>4
    <3> HIDE DEF e, s, t
    <3> QED
      BY <2>0, <2>7, <3>1, <3>4, <3>5, <3>2, CarriedKept DEF s
  <2> QED
    BY <2>3, <2>6, <2>7
<1>5. ASSUME NEW e \in Engines, Committed(e) PROVE Carried'
  <2> DEFINE t == storage[e]
             u == t.closing
  <2>0. t \in Storage /\ u # None /\ t.edits = {}
    BY <1>5, <1>a, <1>e DEF Committed
  <2>1. CASE t.real
    <3> DEFINE s == Stored(t)
    <3>1. /\ anchored' = anchored \cup t.taken /\ SetStorage(e, s)
          /\ \/ u \in Calls /\ EngineOf[u] = e /\ Goto(u, "resolved") /\ At(u, "committing")
             \/ UNCHANGED step
      BY <1>5, <1>f, <2>1 DEF Committed, Settle, Order
    <3>2. s \in Storage /\ s.edits = {} /\ s.taken = {} /\ s.closing = None
      BY <2>0, StorageTypes, StoredParts
    <3>3. /\ \A d \in Calls : EngineOf[d] # e => step'[d] = step[d]
          /\ \A d \in Calls : step'[d] = step[d] \/
                                 (d = u /\ step[d] = "committing" /\ step'[d] = "resolved")
      BY <3>1 DEF Goto, TypeOK, At
    <3>4. \A d \in Calls : EngineOf[d] = e => step'[d] # "mapping" /\ step'[d] # "committing"
      <4> SUFFICES ASSUME NEW d \in Calls, EngineOf[d] = e
                   PROVE  step'[d] # "mapping" /\ step'[d] # "committing"
        OBVIOUS
      <4>1. step[d] # "mapping"
        BY <1>d, <2>0
      <4>2. step[d] = "committing" => d = u
        BY <1>d
      <4>3. u \in Calls /\ d = u => step'[d] = "resolved"
        BY <1>5, <1>f, <2>1 DEF Committed, Settle, Goto, TypeOK
      <4> QED
        BY <3>3, <4>1, <4>2, <4>3
    <3>5. \A d \in Calls : EngineOf[d] = e =>
             /\ step'[d] = "resolved" => d \in anchored' \cup s.taken \cup s.edits
      BY <1>d, <2>0, <3>1, <3>3
    <3> HIDE DEF t, u, s
    <3> QED
      BY <3>1, <3>2, <3>3, <3>4, <3>5, CarriedKept
  <2>2. CASE ~t.real
    <3> DEFINE s == Failed(t)
    <3>1. u = Other /\ t.taken = {}
      BY <1>a, <2>0, <2>2
    <3>2. SetStorage(e, s) /\ UNCHANGED <<step, anchored>>
      BY <1>5, <2>2, <3>1, UserAssumption DEF Committed
    <3>3. s \in Storage /\ s.edits = {} /\ s.taken = {} /\ s.closing = None
      BY <2>0, <3>1, StorageTypes, FailedParts
    <3>4. \A d \in Calls : EngineOf[d] = e =>
             /\ step'[d] # "mapping"
             /\ step'[d] # "committing"
             /\ step'[d] = "resolved" => d \in anchored' \cup s.taken \cup s.edits
      BY <1>d, <2>0, <3>1, <3>2
    <3> HIDE DEF t, u, s
    <3> QED
      BY <3>2, <3>3, <3>4, CarriedKept
  <2> QED
    BY <2>1, <2>2
<1>6. ASSUME NEW e \in Engines, NotifyOnCommitBatch(e) PROVE Carried'
  <2> DEFINE s == Notified(storage[e])
  <2>1. /\ s \in Storage /\ SetStorage(e, s) /\ UNCHANGED <<step, anchored>>
        /\ s.edits = storage[e].edits /\ s.taken = storage[e].taken /\ s.real = storage[e].real
        /\ s.batches = storage[e].batches /\ s.closing = storage[e].closing
    BY <1>6, <1>a, StorageTypes, NotifiedParts, RealParts DEF NotifyOnCommitBatch
  <2> HIDE DEF s
  <2> QED
    BY <1>a, <1>d, <2>1, CarriedKept
<1>7. ASSUME NEW e \in Engines, OtherBegins(e) PROVE Carried'
  <2> DEFINE t == storage[e]
  <2>0. UNCHANGED <<step, anchored>>
    BY <1>7 DEF OtherBegins
  <2>1. ASSUME NEW s \in Storage, SetStorage(e, s), s.taken = t.taken, s.edits = t.edits,
               s.batches = t.batches \cup {Other}, s.real
        PROVE  Carried'
    BY <1>d, <2>0, <2>1, CarriedKept
  <2>2. CASE SetStorage(e, Attached(t, Other)) /\ t.real
    <3> DEFINE s == Attached(t, Other)
    <3>1. /\ s \in Storage /\ s.taken = t.taken /\ s.edits = t.edits
          /\ s.batches = t.batches \cup {Other}
      BY <1>a, <1>b, UserTypes, AttachedParts
    <3>2. s.real
      BY Zenon, <1>a, <2>2, RealParts
    <3> HIDE DEF s
    <3> QED
      BY <2>1, <2>2, <3>1, <3>2 DEF s
  <2>3. CASE SetStorage(e, Begun(t, Other)) /\ t.batches = {}
    <3> DEFINE s == Begun(t, Other)
    <3>1. /\ s \in Storage /\ s.taken = t.taken /\ s.edits = t.edits
          /\ s.batches = t.batches \cup {Other}
      BY <1>a, <1>b, <2>3, UserTypes, BegunParts
    <3>2. s.real
      BY Zenon, <1>a, RealParts
    <3> HIDE DEF s
    <3> QED
      BY <2>1, <2>3, <3>1, <3>2 DEF s
  <2> QED
    BY <1>7, <2>2, <2>3 DEF OtherBegins
<1>8. ASSUME NEW e \in Engines, OtherCommits(e) PROVE Carried'
  <2> DEFINE t == storage[e]
  <2>0. t \in Storage /\ UNCHANGED <<step, anchored>>
    BY <1>8, <1>a DEF OtherCommits
  <2>1. CASE SetStorage(e, Left(t, Other)) /\ (t.batches # {Other} \/ t.closing # None)
    <3> DEFINE s == Left(t, Other)
    <3>1. /\ s \in Storage /\ s.edits = t.edits /\ s.taken = t.taken /\ s.real = t.real
          /\ s.closing = t.closing /\ s.batches = t.batches \ {Other}
      BY <1>b, <2>0, UserTypes, LeftParts, RealParts
    <3>2. s.edits # {} => s.batches # {} /\ s.real
      <4> SUFFICES ASSUME s.edits # {} PROVE s.batches # {} /\ s.real
        OBVIOUS
      <4>1. t.batches # {} /\ t.real /\ t.closing = None
        BY <1>a, <1>e, <3>1
      <4> QED
        BY <2>1, <3>1, <4>1
    <3>3. s.closing # None /\ ~s.real => s.closing = Other /\ s.taken = {}
      BY <1>a, <3>1
    <3>4. \A d \in Calls : EngineOf[d] = e =>
             /\ step'[d] = "mapping" => s.real
             /\ step'[d] = "committing" => d \in s.taken
             /\ step'[d] = "resolved" => d \in anchored' \cup s.taken \cup s.edits
      BY <1>d, <2>0, <3>1
    <3> HIDE DEF t, s
    <3> QED
      BY <2>0, <2>1, <3>1, <3>2, <3>3, <3>4, CarriedKept DEF s
  <2>2. CASE SetStorage(e, Closing(t, Other)) /\ t.closing = None
    <3> DEFINE s == Closing(t, Other)
    <3>1. /\ s \in Storage /\ s.edits = {} /\ s.taken = t.edits /\ s.real = t.real
          /\ s.closing = Other
      BY <1>b, <2>0, UserTypes, ClosingParts, RealParts
    <3>2. ~s.real => s.taken = {}
      BY <1>a, <3>1
    <3>3. \A d \in Calls : EngineOf[d] = e =>
             /\ step'[d] = "mapping" => s.real
             /\ step'[d] # "committing"
             /\ step'[d] = "resolved" => d \in anchored' \cup s.taken \cup s.edits
      <4> SUFFICES ASSUME NEW d \in Calls, EngineOf[d] = e
                   PROVE  /\ step[d] = "mapping" => s.real
                          /\ step[d] # "committing"
                          /\ step[d] = "resolved" => d \in anchored \cup s.taken \cup s.edits
        BY <2>0
      <4>1. step[d] # "committing"
        BY <1>d, <2>2, UserAssumption
      <4>2. t.taken = {}
        BY <1>a, <2>2
      <4> QED
        BY <1>d, <3>1, <4>1, <4>2
    <3> HIDE DEF t, s
    <3> QED
      BY <2>0, <2>2, <3>1, <3>2, <3>3, CarriedKept DEF s
  <2> QED
    BY <1>8, <2>1, <2>2 DEF OtherCommits
<1>10. CASE UNCHANGED vars
  BY <1>g, <1>10 DEF vars
<1> QED
  BY <1>1, <1>2, <1>3, <1>4, <1>5, <1>6, <1>7, <1>8, <1>10 DEF Next, Callback

-----------------------------------------------------------------------------
\* An engine digests one call at a time; the edits, listeners and commits of a storage
\* service are of its calls, and no listener is called before the edits are anchored.
\* Without failures, edits are in a batch somebody is to leave, and no commit loses them.
THEOREM InductiveInvariant == Spec => []Inv
<1>1. Init => Inv
  BY InitInv
<1>2. Inv /\ [Next]_vars => Inv'
  BY StepType, StepOneAtATime, StepOrder, StepApart, StepCarried DEF Inv
<1> QED
  BY <1>1, <1>2, PTL DEF Spec

\* A call that edits, or whose edits are not anchored yet, holds the lock or has had
\* its whole period: digestMessages up to the release by its onCommitBatch listener.
THEOREM LockCoversTheEdits == Spec => []EditorsHoldTheLock
<1>1. Init => EditorsHoldTheLock
  BY InitInv
<1>2. Inv /\ EditorsHoldTheLock /\ [Next]_vars => EditorsHoldTheLock'
  BY StepHold
<1> QED
  BY <1>1, <1>2, InductiveInvariant, PTL DEF Spec

\* Without failures, a call that was answered without an error has its edits anchored, or
\* in a commit under way, or in a batch that somebody is to leave: digestMessages, with the
\* commits of the storage service it shares (LegacyDSU).
THEOREM ResolvedEditsAreKept == Spec => []ResolvedIsKept
<1>1. Inv => ResolvedIsKept
  BY DEF Inv, Carried, ResolvedIsKept, TypeOK, StorageOf
<1> QED
  BY <1>1, InductiveInvariant, PTL
=============================================================================
