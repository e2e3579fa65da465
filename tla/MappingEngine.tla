---------------------------- MODULE MappingEngine ----------------------------
(***************************************************************************)
(* The M2DSU mapping engine (opendsu/m2dsu): digestMessages over a storage *)
(* service that several engines edit, each through an instance of its own, *)
(* and that the lock service of the hub keeps for one of them at a time.   *)
(*                                                                         *)
(* A call of digestMessages makes up a secret of its own and stands for    *)
(* it, and for the id of its batch.  The lock service answers as Lease     *)
(* promises, in one step.  The storage service of an engine is a LegacyDSU *)
(* that somebody else (Other) may batch on as well.  A step is what runs   *)
(* between two asynchronous calls.                                         *)
(***************************************************************************)
EXTENDS Naturals, FiniteSets

CONSTANTS
    Calls,        \* calls of digestMessages
    Engines,      \* engines, each with its storage service
    EngineOf,     \* the engine of a call
    Other,        \* another user of the storage service
    Shared,       \* the engines whose storage service it uses
    None,         \* nobody
    Window,       \* the engines run in a browser
    MaxAttempts,  \* bound: how often a call asks again, the user's consents included
    MaxFaults     \* bound: requests that fail and mappings that cannot be looked up

ASSUME EngineAssumption == EngineOf \in [Calls -> Engines]
ASSUME UserAssumption == Other \notin Calls /\ None \notin Calls /\ None # Other
ASSUME SharedAssumption == Shared \subseteq Engines
ASSUME WindowAssumption == Window \in BOOLEAN
ASSUME BoundsAssumption == MaxAttempts \in Nat /\ MaxFaults \in Nat

VARIABLES
    step,        \* [Calls -> what the call waits for]
    attempts,    \* [Calls -> attempts it has left]
    inProgress,  \* [Engines -> the engine's flag]
    storage,     \* [Engines -> its storage service]
    holder,      \* the call the lock service keeps the lock for, or None
    over,        \* calls whose period is over
    releasing,   \* calls whose unlock request is on its way
    anchored,    \* calls whose edits were anchored
    faults,      \* failures so far
    crowded      \* ghost: a call and Other opened their batches at the same time, or one
                 \* came while the other closed and its listeners were still to be called

lock == <<holder, over, releasing>>
vars == <<step, attempts, inProgress, storage, lock, anchored, faults, crowded>>

Users == Calls \cup {Other}
Editing == {"opening", "mapping", "committing"}
Settled == {"resolved", "rejected"}
Steps == Editing \cup Settled \cup {"idle", "asking", "sleeping", "unsettled"}

Storage ==
    [batches   : SUBSET Users,          \* the batches in progress
     real      : BOOLEAN,               \* its bar is in a batch
     closing   : Users \cup {None},     \* whose commit is under way
     edits     : SUBSET Calls,          \* calls with edits that no commit has taken
     taken     : SUBSET Calls,          \* calls with edits in the commit under way
     notify    : BOOLEAN,               \* the timer of notifyOnCommitBatch is set
     listeners : SUBSET Calls]          \* listeners of onCommitBatch

TypeOK ==
    /\ step \in [Calls -> Steps]
    /\ attempts \in [Calls -> 0..MaxAttempts]
    /\ inProgress \in [Engines -> BOOLEAN]
    /\ storage \in [Engines -> Storage]
    /\ holder \in Calls \cup {None}
    /\ over \subseteq Calls
    /\ releasing \subseteq Calls
    /\ anchored \subseteq Calls
    /\ faults \in 0..MaxFaults
    /\ crowded \in BOOLEAN

Init ==
    /\ step = [c \in Calls |-> "idle"]
    /\ attempts = [c \in Calls |-> MaxAttempts]
    /\ inProgress = [e \in Engines |-> FALSE]
    /\ storage = [e \in Engines |->
                    [batches |-> {}, real |-> FALSE, closing |-> None, edits |-> {},
                     taken |-> {}, notify |-> FALSE, listeners |-> {}]]
    /\ holder = None
    /\ over = {}
    /\ releasing = {}
    /\ anchored = {}
    /\ faults = 0
    /\ crowded = FALSE

-----------------------------------------------------------------------------
At(c, s) == step[c] = s
Goto(c, s) == step' = [step EXCEPT ![c] = s]
StorageOf(c) == storage[EngineOf[c]]
SetStorage(e, s) == storage' = [storage EXCEPT ![e] = s]

Fault == faults < MaxFaults /\ faults' = faults + 1

\* resolve and reject, as digestMessages wraps them
Settle(c, s) ==
    /\ Goto(c, s)
    /\ inProgress' = [inProgress EXCEPT ![EngineOf[c]] = FALSE]

\* An error is thrown where only the executor of the promise can catch it: the
\* promise is never settled, and the flag stays.
Throw(c) == Goto(c, "unsettled") /\ UNCHANGED inProgress

-----------------------------------------------------------------------------
(* What a storage service becomes *)

\* A commit is under way, or its listeners are still to be called.
ClosesStill(s) == s.closing # None \/ s.notify

\* startVirtualBatch
Attached(s, u) == [s EXCEPT !.batches = @ \cup {u}]

\* refresh and beginBatchAsync: the bar is a new one, without edits of the one before.
Begun(s, u) == [Attached(s, u) EXCEPT !.real = TRUE, !.edits = {}]

\* The mappings of the call have edited it, and finish listens for its commit.
Edited(s, c) == [s EXCEPT !.edits = @ \cup {c}, !.listeners = @ \cup {c}]

\* Fault: the storage service is loaded again whenever a batch leaves.
LeftReloads(s, u) == [s EXCEPT !.batches = @ \ {u}, !.edits = {}]

\* commitBatch: the batch of u leaves, and the last one to leave takes all edits.
Left(s, u) == [s EXCEPT !.batches = @ \ {u}]
Closing(s, u) == [Left(s, u) EXCEPT !.closing = u, !.taken = s.edits, !.edits = {}]

\* The commit ends.  When it failed, the storage service is loaded again, without the
\* edits, unless a batch is left on it.
Closed(s) == [s EXCEPT !.closing = None, !.real = FALSE, !.taken = {}]
Stored(s) == [Closed(s) EXCEPT !.notify = TRUE]
Failed(s) == [Closed(s) EXCEPT !.edits = IF s.batches = {} THEN {} ELSE @ \cup s.taken]

\* cancelBatch without an id, of a bar that is in no batch any more: it forgets the only
\* batch there is, whose it may be, and the bar answers an error and keeps its edits.
Cancelled(s) == IF Cardinality(s.batches) = 1 THEN [s EXCEPT !.batches = {}] ELSE s

\* The timer of notifyOnCommitBatch: every listener is called once.
Notified(s) == [s EXCEPT !.notify = FALSE, !.listeners = {}]

-----------------------------------------------------------------------------
(* Asking for the lock *)

\* Fault: the flag is looked at after the lock was acquired.
DigestMessagesTogether(c) ==
    /\ At(c, "idle")
    /\ Goto(c, "asking")
    /\ inProgress' = [inProgress EXCEPT ![EngineOf[c]] = TRUE]
    /\ UNCHANGED <<attempts, storage, lock, anchored, faults, crowded>>

\* digestMessages, up to the first request of acquireLock
DigestMessages(c) ==
    /\ At(c, "idle")
    /\ IF inProgress[EngineOf[c]]
       THEN Throw(c)
       ELSE /\ Goto(c, "asking")
            /\ inProgress' = [inProgress EXCEPT ![EngineOf[c]] = TRUE]
    /\ UNCHANGED <<attempts, storage, lock, anchored, faults, crowded>>

\* safeBeginBatch up to its refresh: it attaches to a batch of the bar, also to one
\* that is being committed, and answers an error beside a batch without a bar.
SafeBeginBatch(c) ==
    LET s == StorageOf(c) IN
    /\ IF s.real
       THEN /\ SetStorage(EngineOf[c], Attached(s, c))
            /\ Goto(c, "mapping")
       ELSE /\ IF s.batches = {} THEN Goto(c, "opening") ELSE Throw(c)
            /\ UNCHANGED storage
    /\ crowded' = (crowded \/ ClosesStill(s) \/ (~s.real /\ s.batches # {}))
    /\ UNCHANGED inProgress

\* The lock service answers: it grants, refuses, or its answer is an error or lost.
LockAnswered(c) ==
    /\ At(c, "asking")
    /\ \/ /\ holder \in over \cup {None}
          /\ holder' = c
          /\ SafeBeginBatch(c)
          /\ UNCHANGED faults
       \/ /\ holder \notin over \cup {None}
          /\ Goto(c, "sleeping")
          /\ UNCHANGED <<inProgress, storage, holder, faults, crowded>>
       \/ /\ Fault
          /\ \/ UNCHANGED holder
             \/ holder \in over \cup {None} /\ holder' = c
          /\ Throw(c)
          /\ UNCHANGED <<storage, crowded>>
    /\ UNCHANGED <<attempts, over, releasing, anchored>>

\* After a sleep the call asks again, or gives up; without a window there is
\* nobody to ask whether to, and the question throws.
Slept(c) ==
    /\ At(c, "sleeping")
    /\ IF attempts[c] > 0
       THEN /\ Goto(c, "asking")
            /\ attempts' = [attempts EXCEPT ![c] = @ - 1]
            /\ UNCHANGED inProgress
       ELSE /\ IF Window THEN Settle(c, "rejected") ELSE Throw(c)
            /\ UNCHANGED attempts
    /\ UNCHANGED <<storage, lock, anchored, faults, crowded>>

-----------------------------------------------------------------------------
(* Editing *)

\* The storage service is refreshed and opens the batch, once nobody closes one.  When
\* Other has opened one meanwhile, the refreshed bar is in a batch of its own beside it;
\* or the call throws, when Other came after its refresh; or it attaches, when both
\* have waited for somebody to close.
Opened(c) ==
    LET s == StorageOf(c) IN
    /\ At(c, "opening")
    /\ s.closing = None
    /\ \/ /\ ~s.real
          /\ SetStorage(EngineOf[c], Begun(s, c))
          /\ Goto(c, "mapping")
          /\ crowded' = (crowded \/ ClosesStill(s))
          /\ UNCHANGED <<inProgress, faults>>
       \/ /\ s.real
          /\ \/ /\ \E t \in {Begun(s, c), Attached(s, c)} : SetStorage(EngineOf[c], t)
                /\ Goto(c, "mapping")
                /\ UNCHANGED inProgress
             \/ Throw(c) /\ UNCHANGED storage
          /\ crowded' = TRUE
          /\ UNCHANGED faults
       \/ /\ Fault
          /\ Throw(c)
          /\ UNCHANGED <<storage, crowded>>
    /\ UNCHANGED <<attempts, lock, anchored>>

\* Fault: the lock is given back once the commit of the call is answered.
FinishReleases(c) ==
    LET s == [StorageOf(c) EXCEPT !.edits = @ \cup {c}] IN
    /\ IF s.batches \ {c} # {}
       THEN SetStorage(EngineOf[c], Left(s, c)) /\ Settle(c, "resolved")
       ELSE SetStorage(EngineOf[c], Closing(s, c)) /\ Goto(c, "committing")
            /\ UNCHANGED inProgress
    /\ releasing' = releasing \cup {c}

\* finish, up to the answer of a commitBatch that has nothing to wait for: the
\* listener is there before the commit, and stays when that fails.
Finish(c) ==
    LET e == EngineOf[c]
        s == Edited(storage[e], c)
    IN  /\ IF s.batches \ {c} # {}
           THEN SetStorage(e, Left(s, c)) /\ Settle(c, "resolved")
           ELSE IF s.closing # None
           THEN SetStorage(e, Left(s, c)) /\ Settle(c, "rejected")
           ELSE /\ SetStorage(e, Closing(s, c))
                /\ Goto(c, "committing")
                /\ UNCHANGED inProgress
        /\ UNCHANGED releasing

\* All messages are mapped, those that can be, and their DSUs committed; the
\* messages that cannot be are reported, but an error of a match function is not.
Mapped(c) ==
    /\ At(c, "mapping")
    /\ \/ Finish(c) /\ UNCHANGED faults
       \/ Fault /\ Throw(c) /\ UNCHANGED <<storage, releasing>>
    /\ UNCHANGED <<attempts, holder, over, anchored, crowded>>

\* rollback and reject, and an error of rollback is only logged
Rollback(c, s) == SetStorage(EngineOf[c], Cancelled(s)) /\ Settle(c, "rejected")

\* The commit of u ends: its own fails, or finds that the bar is in no batch, and a
\* call then rolls back.
Committed(e) ==
    LET s == storage[e]
        u == s.closing
    IN  /\ u # None
        /\ u \in Calls => At(u, "committing")
        /\ \/ /\ s.real
              /\ anchored' = anchored \cup s.taken
              /\ SetStorage(e, Stored(s))
              /\ IF u \in Calls THEN Settle(u, "resolved")
                 ELSE UNCHANGED <<step, inProgress>>
              /\ UNCHANGED faults
           \/ /\ IF s.real THEN Fault ELSE UNCHANGED faults
              /\ IF u \in Calls THEN Rollback(u, Failed(s))
                 ELSE SetStorage(e, Failed(s)) /\ UNCHANGED <<step, inProgress>>
              /\ UNCHANGED anchored
        /\ UNCHANGED <<attempts, lock, crowded>>

-----------------------------------------------------------------------------
(* Giving the lock back *)

\* Fault: the listeners of a DSU are not called.
NotifyNobody(e) ==
    /\ storage[e].notify
    /\ SetStorage(e, [storage[e] EXCEPT !.notify = FALSE])
    /\ UNCHANGED <<step, attempts, inProgress, lock, anchored, faults, crowded>>

\* The listeners of finish ask for the unlock.
NotifyOnCommitBatch(e) ==
    /\ storage[e].notify
    /\ SetStorage(e, Notified(storage[e]))
    /\ releasing' = releasing \cup storage[e].listeners
    /\ UNCHANGED <<step, attempts, inProgress, holder, over, anchored, faults, crowded>>

\* The lock service has dealt with the request of releaseLock, or never gets it.
ReleaseLock(c) ==
    /\ c \in releasing
    /\ releasing' = releasing \ {c}
    /\ \/ holder' = (IF holder = c THEN None ELSE holder) /\ UNCHANGED faults
       \/ Fault /\ UNCHANGED holder
    /\ UNCHANGED <<step, attempts, inProgress, storage, over, anchored, crowded>>

\* The period of the lock is over before its call has given it back.
Expire(c) ==
    /\ holder = c
    /\ c \notin over
    /\ over' = over \cup {c}
    /\ UNCHANGED <<step, attempts, inProgress, storage, holder, releasing, anchored,
                   faults, crowded>>

-----------------------------------------------------------------------------
(* The other user of a storage service *)

\* safeBeginBatch by Other, which attaches, or opens a batch on a refreshed bar; when a
\* call has opened one during the refresh, it does so beside it.
OtherBegins(e) ==
    LET s == storage[e] IN
    /\ e \in Shared
    /\ Other \notin s.batches
    /\ \/ /\ s.real
          /\ s.closing # Other
          /\ SetStorage(e, Attached(s, Other))
          /\ UNCHANGED crowded
       \/ /\ s.closing = None
          /\ s.real \/ s.batches = {}
          /\ SetStorage(e, Begun(s, Other))
          /\ crowded' = (crowded \/ s.real)
    /\ UNCHANGED <<step, attempts, inProgress, lock, anchored, faults>>

\* commitBatch with an id: the last one to leave fails while another one closes.
OtherCommits(e) ==
    LET s == storage[e] IN
    /\ Other \in s.batches
    /\ SetStorage(e, IF s.batches # {Other} \/ s.closing # None
                     THEN Left(s, Other) ELSE Closing(s, Other))
    /\ UNCHANGED <<step, attempts, inProgress, lock, anchored, faults, crowded>>

-----------------------------------------------------------------------------
Callback(c) ==
    LockAnswered(c) \/ Slept(c) \/ Opened(c) \/ Mapped(c)

Next ==
    \/ \E c \in Calls : DigestMessages(c) \/ Callback(c) \/ ReleaseLock(c) \/ Expire(c)
    \/ \E e \in Engines : \/ Committed(e) \/ NotifyOnCommitBatch(e)
                          \/ OtherBegins(e) \/ OtherCommits(e)

Spec == Init /\ [][Next]_vars

\* Node runs what has ended, and who opened a batch closes it.  A call that finds the
\* storage service closing is a continuation of its registry, which the release runs
\* whatever comes later: hence the strong fairness.
Fairness ==
    /\ \A c \in Calls :
          WF_vars(Callback(c)) /\ SF_vars(Opened(c)) /\ WF_vars(ReleaseLock(c))
    /\ \A e \in Engines : /\ WF_vars(Committed(e))
                          /\ WF_vars(NotifyOnCommitBatch(e))
                          /\ WF_vars(OtherCommits(e))

FairSpec == Spec /\ Fairness

-----------------------------------------------------------------------------
(* Properties *)

Busy == Editing \cup {"asking", "sleeping"}

\* An engine digests one call at a time.
OneAtATime ==
    \A c, d \in Calls :
        /\ step[c] \in Busy => inProgress[EngineOf[c]]
        /\ step[c] \in Busy /\ step[d] \in Busy /\ EngineOf[c] = EngineOf[d] => c = d

\* Edits and listeners are of calls that are past their mapping, a call that commits
\* closes the storage service itself, and only a commit has edits taken.
Finished == Settled \cup {"committing"}
Order ==
    /\ \A c \in releasing : step[c] \in Finished
    /\ \A e \in Engines :
          /\ \A c \in storage[e].edits \cup storage[e].taken \cup storage[e].listeners :
                EngineOf[c] = e /\ step[c] \in Finished
          /\ storage[e].closing = None => storage[e].taken = {}
          /\ storage[e].closing \in Calls => EngineOf[storage[e].closing] = e
    /\ \A c \in Calls :
          /\ At(c, "committing") => StorageOf(c).closing = c
          /\ At(c, "mapping") => c \in StorageOf(c).batches

\* A call that has edited finds no listener called before its edits are anchored.
Apart ==
    \/ crowded
    \/ /\ \A c \in releasing :
             c \notin StorageOf(c).edits \cup StorageOf(c).taken /\ ~At(c, "committing")
       /\ \A c \in Calls :
             /\ At(c, "mapping") => ~ClosesStill(StorageOf(c))
             /\ At(c, "committing") => ~StorageOf(c).notify
       /\ \A e \in Engines :
             /\ storage[e].notify => storage[e].edits = {} /\ storage[e].taken = {}
             /\ storage[e].closing # None => storage[e].edits = {}

\* Without failures, edits are in a bar that is in a batch somebody is to leave, a
\* commit under way takes all there are.
Carried ==
    \/ crowded
    \/ faults # 0
    \/ /\ \A e \in Engines :
             /\ storage[e].edits # {} => storage[e].batches # {} /\ storage[e].real
             /\ storage[e].closing # None /\ ~storage[e].real =>
                   storage[e].closing = Other /\ storage[e].taken = {}
       /\ \A c \in Calls :
             /\ At(c, "mapping") => StorageOf(c).real
             /\ At(c, "committing") => c \in StorageOf(c).taken
             /\ At(c, "resolved") =>
                   c \in anchored \cup StorageOf(c).taken \cup StorageOf(c).edits

Inv == TypeOK /\ OneAtATime /\ Order /\ Apart /\ Carried

\* As long as a call edits, or its edits wait for a commit that will anchor them, also
\* one of somebody else after the call was answered, the lock is its own, unless
\* its period is over: nobody else edits what it has not anchored.
EditorsHoldTheLock ==
    crowded \/ \A c \in Calls :
        \/ step[c] \in Editing
        \/ c \in StorageOf(c).edits \cup StorageOf(c).taken
        => holder = c \/ c \in over

\* A call that was answered without an error has its edits anchored, or on the way
\* to be: they are neither dropped nor left in a bar that nobody commits.
ResolvedIsKept ==
    crowded \/ faults # 0 \/ \A c \in Calls : At(c, "resolved") =>
        \/ c \in anchored
        \/ c \in StorageOf(c).taken
        \/ c \in StorageOf(c).edits /\ StorageOf(c).batches # {}

\* Calls whose engine was free are answered, with their failed messages or an error,
\* and then their locks are given back: when their edits are anchored, whoever commits
\* them, without failures.
CallsEnd ==
    []<>(\/ \A c \in Calls : step[c] \notin Busy /\ holder # c
         \/ faults # 0 \/ crowded)

\* Every call is answered, also one that finds the engine busy: "Mapping Engine is
\* digesting messages for the moment".
EveryCallIsAnswered == \A c \in Calls : ~At(c, "unsettled")

\* A rollback does not make the storage service forget the batch of somebody else.
OthersKeepTheirBatch ==
    [][\A e \in Engines :
          Other \in storage[e].batches =>
              Other \in storage'[e].batches \/ OtherCommits(e)]_vars
=============================================================================
