------------------------------ MODULE LegacyDSU ------------------------------
(***************************************************************************)
(* Batches on the instances of one DSU inside one process: LegacyDSU's     *)
(* safeBeginBatch, commitBatch and cancelBatch, with the registry they     *)
(* share (RaceConditionPreventer): its lock and its continuations.         *)
(*                                                                         *)
(* An instance wraps a bar (an Archive), which a refresh replaces by a     *)
(* newly loaded one.  Every task opens one batch on its instance, may      *)
(* write in it, and commits or cancels it; the task stands for its batch's *)
(* id.  A step is what runs between two asynchronous calls.  The DSU is    *)
(* anchored, and neither mounts DSUs nor is mounted.                       *)
(***************************************************************************)
EXTENDS Naturals, SequencesExt

CONSTANTS
    Instances,   \* the LegacyDSU objects of the DSU
    Tasks,       \* the callers
    None,        \* no task
    MaxFaults    \* bound: loads and anchorings that fail

ASSUME NoneAssumption == None \notin Tasks
ASSUME FaultsAssumption == MaxFaults \in Nat

VARIABLES
    task,        \* [Tasks -> what the task is doing]
    bars,        \* [Instances -> the bars the instance has had, the current one last]
    inProgress,  \* [Instances -> inProgressBatches, real and virtual ones]
    lock,        \* the task whose commit or cancel holds locks[anchorId], or None
    continuations, \* [Instances -> its continuations of the anchor]
    order,       \* instances with continuations, as the first of each came
    loading,     \* refreshes that a commit or a cancel has asked for
    anchored,    \* tasks whose writes were anchored
    faults,      \* failures so far
    careless     \* ghost: a batch was cancelled, asked to wait, or was opened while
                 \* another one was being opened or closed

waiting == <<continuations, order>>
vars == <<task, bars, inProgress, lock, waiting, loading, anchored, faults, careless>>

Closing == {"committing", "anchored", "cancelling", "notifying"}
Steps == Closing \cup {"idle", "waiting", "refreshing", "checking", "open", "done", "failed"}

Task == [pc      : Steps,
         inst    : Instances,
         virtual : BOOLEAN,   \* it follows the real batch of another continuation
         bar     : Nat,       \* the bar its commitBatch or cancelBatch was called on
         failed  : BOOLEAN,   \* an error, reported once the others are notified
         wrote   : BOOLEAN]
Bar == [batch: BOOLEAN, writes: SUBSET Tasks]
Continuation == [task: Tasks, call: {"safeBegin", "init"}]

TypeOK ==
    /\ task \in [Tasks -> Task]
    /\ bars \in [Instances -> Seq(Bar)]
    /\ \A t \in Tasks : task[t].bar \in DOMAIN bars[task[t].inst]
    /\ \A i \in Instances : bars[i] # <<>>
    /\ inProgress \in [Instances -> SUBSET Tasks]
    /\ lock \in Tasks \cup {None}
    /\ continuations \in [Instances -> Seq(Continuation)]
    /\ order \in Seq(Instances)
    /\ loading \subseteq [task: Tasks, inst: Instances]
    /\ anchored \subseteq Tasks
    /\ faults \in 0..MaxFaults
    /\ careless \in BOOLEAN

LoadedBar == [batch |-> FALSE, writes |-> {}]

Init ==
    /\ \E inst \in [Tasks -> Instances] :
          task = [t \in Tasks |->
                    [pc |-> "idle", inst |-> inst[t], virtual |-> FALSE, bar |-> 1,
                     failed |-> FALSE, wrote |-> FALSE]]
    /\ bars = [i \in Instances |-> <<LoadedBar>>]
    /\ inProgress = [i \in Instances |-> {}]
    /\ lock = None
    /\ continuations = [i \in Instances |-> <<>>]
    /\ order = <<>>
    /\ loading = {}
    /\ anchored = {}
    /\ faults = 0
    /\ careless = FALSE

-----------------------------------------------------------------------------
At(t, step) == task[t].pc = step
InstanceOf(t) == task[t].inst
CurrentBar(i) == Last(bars[i])
Goto(t, step) == task' = [task EXCEPT ![t].pc = step]

\* Fault: asks whether all instances are in a batch.
BatchInProgressAll == \A i \in Instances : inProgress[i] # {}

\* RaceConditionPreventer.batchInProgress
BatchInProgress == \E i \in Instances : inProgress[i] # {}

SetBar(i, n, b) == bars' = [bars EXCEPT ![i][n] = b]
\* Archive.beginBatch, on a bar that is in no batch
BeginBatchOfBar(i) == SetBar(i, Len(bars[i]), [CurrentBar(i) EXCEPT !.batch = TRUE])
\* The instance gets a newly loaded bar.
Reload(i) == bars' = [bars EXCEPT ![i] = Append(@, LoadedBar)]

Fault == faults < MaxFaults /\ faults' = faults + 1

\* startVirtualBatch: the id joins those in progress, the bar is not asked.
StartVirtualBatch(t) ==
    /\ inProgress' = [inProgress EXCEPT ![InstanceOf(t)] = @ \cup {t}]
    /\ Goto(t, "open")

\* waitUntilCanBeginBatch
Wait(t, call) ==
    LET i == InstanceOf(t) IN
    /\ continuations' = [continuations EXCEPT ![i] = Append(@, [task |-> t, call |-> call])]
    /\ order' = IF continuations[i] = <<>> THEN Append(order, i) ELSE order
    /\ Goto(t, "waiting")

\* _beginBatch, and beginBatchAsync up to its first await
BeginBatch(t) ==
    IF lock # None THEN Wait(t, "init") /\ UNCHANGED inProgress
    ELSE IF task[t].virtual THEN StartVirtualBatch(t) /\ UNCHANGED waiting
    ELSE Goto(t, "checking") /\ UNCHANGED <<inProgress, waiting>>

-----------------------------------------------------------------------------
(* Opening a batch *)

SafeBeginBatch(t) ==
    /\ At(t, "idle")
    /\ IF CurrentBar(InstanceOf(t)).batch
       THEN StartVirtualBatch(t) /\ UNCHANGED waiting
       ELSE /\ IF BatchInProgress
               THEN \/ Wait(t, "safeBegin")
                    \/ Goto(t, "failed") /\ UNCHANGED waiting
               ELSE Goto(t, "refreshing") /\ UNCHANGED waiting
            /\ UNCHANGED inProgress
    /\ careless' = \/ careless
                   \/ lock # None
                   \/ \E u \in Tasks : At(u, "refreshing") \/ At(u, "checking")
                   \/ At(t, "waiting")'
    /\ UNCHANGED <<bars, lock, loading, anchored, faults>>

\* The refresh of safeBeginBatch ends: the bar that was loaded takes the place of
\* the current one, whatever happened to that meanwhile.
Refreshed(t) ==
    /\ At(t, "refreshing")
    /\ \/ /\ Reload(InstanceOf(t))
          /\ BeginBatch(t)
          /\ UNCHANGED faults
       \/ /\ Fault
          /\ Goto(t, "failed")
          /\ UNCHANGED <<bars, inProgress, waiting>>
    /\ UNCHANGED <<lock, loading, anchored>>

\* beginBatchAsync once the mounted and the parent DSUs are checked; Archive's
\* beginBatch throws when its bar is in a batch.
BeginBatchAsync(t) ==
    LET i == InstanceOf(t) IN
    /\ At(t, "checking")
    /\ IF CurrentBar(i).batch
       THEN Goto(t, "failed") /\ UNCHANGED <<bars, inProgress>>
       ELSE /\ BeginBatchOfBar(i)
            /\ inProgress' = [inProgress EXCEPT ![i] = @ \cup {t}]
            /\ Goto(t, "open")
    /\ UNCHANGED <<lock, waiting, loading, anchored, faults>>

\* A write of the task, which preventUpdateOutsideBatch lets through to the current
\* bar: kept for the commit in a batch of that bar, anchored at once outside.
Write(t) ==
    LET i == InstanceOf(t) IN
    /\ At(t, "open")
    /\ ~task[t].wrote
    /\ task' = [task EXCEPT ![t].wrote = TRUE]
    /\ IF CurrentBar(i).batch
       THEN /\ SetBar(i, Len(bars[i]), [CurrentBar(i) EXCEPT !.writes = @ \cup {t}])
            /\ UNCHANGED anchored
       ELSE anchored' = anchored \cup {t} /\ UNCHANGED bars
    /\ UNCHANGED <<inProgress, lock, waiting, loading, faults>>

-----------------------------------------------------------------------------
(* Closing a batch *)

\* Fault: the lock is released and nobody is told.
UnlockAnchorIdSilently(tasks, batches) ==
    lock' = None /\ task' = tasks /\ inProgress' = batches /\ UNCHANGED waiting

\* unlockAnchorId, in a state where the tasks and the batches are as given: the
\* continuations of the instance that waited first are run, the last one first,
\* and all but that one are told to start virtual batches.
UnlockAnchorId(tasks, batches) ==
    LET j == Head(order)
        run == continuations[j]
        \* _beginBatch is reached at once, without a refresh
        AtOnce(n) == \/ run[n].call = "init"
                     \/ batches[j] # {}
                     \/ \E m \in (n + 1)..(Len(run) - 1) : run[m].call = "init"
        Virtual(n) == n < Len(run) /\ AtOnce(n)
        step(n) == IF Virtual(n) THEN "open" ELSE IF AtOnce(n) THEN "checking" ELSE "refreshing"
        Turn(t) == {n \in DOMAIN run : run[n].task = t}
    IN  /\ lock' = None
        /\ IF order = <<>>
           THEN task' = tasks /\ inProgress' = batches /\ UNCHANGED waiting
           ELSE /\ task' = [t \in Tasks |->
                      IF Turn(t) = {} THEN tasks[t]
                      ELSE LET n == CHOOSE n \in Turn(t) : TRUE IN
                           [tasks[t] EXCEPT !.pc = step(n), !.virtual = n < Len(run)]]
                /\ inProgress' = [batches EXCEPT
                      ![j] = @ \cup {run[n].task : n \in {m \in DOMAIN run : Virtual(m)}}]
                /\ continuations' = [continuations EXCEPT ![j] = <<>>]
                /\ order' = Tail(order)

Ended(t, failed) == [task EXCEPT ![t].pc = IF failed THEN "failed" ELSE "done"]

\* notifyBatchCommitted: every instance is refreshed, which does nothing on one
\* that is in a batch; once all have answered the lock is released.
Notify(t, failed, batches) ==
    LET idle == {i \in Instances : batches[i] = {}} IN
    IF idle = {} THEN UnlockAnchorId(Ended(t, failed), batches) /\ UNCHANGED loading
    ELSE /\ lock' = t
         /\ loading' = loading \cup {[task |-> t, inst |-> i] : i \in idle}
         /\ task' = [task EXCEPT ![t].pc = "notifying", ![t].failed = failed]
         /\ inProgress' = batches
         /\ UNCHANGED waiting

\* Fault: the first to leave takes every batch of the instance with it.
LeftClears(t) == [inProgress EXCEPT ![InstanceOf(t)] = {}]

\* Both closing calls: the id leaves those in progress; the last one to leave
\* takes the lock and goes on with the bar it finds.
Left(t) == [inProgress EXCEPT ![InstanceOf(t)] = @ \ {t}]
IsLast(t) == inProgress[InstanceOf(t)] = {t}
OnCurrentBar(t, step) ==
    /\ task' = [task EXCEPT ![t].pc = step, ![t].bar = Len(bars[InstanceOf(t)])]
    /\ lock' = t
    /\ inProgress' = Left(t)
    /\ UNCHANGED <<waiting, loading>>
LeavesOnly(t, step) ==
    Goto(t, step) /\ inProgress' = Left(t) /\ UNCHANGED <<lock, waiting, loading>>

\* Fault: the commit goes on when the lock is another's.
CommitBatchUnlocked(t) ==
    /\ At(t, "open")
    /\ IF ~IsLast(t) THEN LeavesOnly(t, "done")
       ELSE IF CurrentBar(InstanceOf(t)).batch THEN OnCurrentBar(t, "committing")
       ELSE Notify(t, TRUE, Left(t))
    /\ UNCHANGED <<bars, anchored, faults>>

CommitBatch(t) ==
    /\ At(t, "open")
    /\ IF ~IsLast(t) THEN LeavesOnly(t, "done")
       ELSE IF lock # None THEN LeavesOnly(t, "failed")
       ELSE IF CurrentBar(InstanceOf(t)).batch THEN OnCurrentBar(t, "committing")
       ELSE Notify(t, TRUE, Left(t))
    /\ UNCHANGED <<bars, anchored, faults>>

\* Archive.commitBatch: doAnchoring on the bar it was called on
DoAnchoring(t) ==
    LET i == InstanceOf(t)
        n == task[t].bar
    IN  /\ At(t, "committing")
        /\ \/ /\ anchored' = anchored \cup bars[i][n].writes
              /\ SetBar(i, n, [bars[i][n] EXCEPT !.writes = {}])
              /\ Goto(t, "anchored")
              /\ UNCHANGED faults
           \/ /\ Fault
              /\ task' = [task EXCEPT ![t].pc = "anchored", ![t].failed = TRUE]
              /\ UNCHANGED <<bars, anchored>>
        /\ UNCHANGED <<inProgress, lock, waiting, loading>>

\* batchOperationsInProgress is cleared, and the instances are notified.
BatchCommitted(t) ==
    LET i == InstanceOf(t)
        n == task[t].bar
    IN  /\ At(t, "anchored")
        /\ SetBar(i, n, [bars[i][n] EXCEPT !.batch = FALSE])
        /\ Notify(t, task[t].failed, inProgress)
        /\ UNCHANGED <<anchored, faults>>

\* Archive.cancelBatch answers at once when its bar is in no batch, and loads the
\* bar again when it is.
CancelBatch(t) ==
    LET i == InstanceOf(t)
        n == Len(bars[i])
    IN  /\ At(t, "open")
        /\ IF ~IsLast(t) \/ lock # None
           THEN LeavesOnly(t, "failed") /\ UNCHANGED bars
           ELSE IF CurrentBar(i).batch
           THEN /\ OnCurrentBar(t, "cancelling")
                /\ SetBar(i, n, [CurrentBar(i) EXCEPT !.batch = FALSE])
           ELSE UnlockAnchorId(Ended(t, TRUE), Left(t)) /\ UNCHANGED <<bars, loading>>
        /\ careless' = TRUE
        /\ UNCHANGED <<anchored, faults>>

BatchCancelled(t) ==
    LET i == InstanceOf(t)
        n == task[t].bar
    IN  /\ At(t, "cancelling")
        /\ \/ /\ SetBar(i, n, LoadedBar)
              /\ Notify(t, FALSE, inProgress)
              /\ UNCHANGED faults
           \/ /\ Fault
              /\ UnlockAnchorId(Ended(t, TRUE), inProgress)
              /\ UNCHANGED <<bars, loading>>
        /\ UNCHANGED anchored

\* A refresh asked for by notifyBatchCommitted ends.  The last one of the task
\* releases the lock; one that fails releases it at once, and so does the next
\* one that fails, whoever holds it by then.
NotifiedInstance(t, i) ==
    LET l == [task |-> t, inst |-> i] IN
    /\ l \in loading
    /\ loading' = loading \ {l}
    /\ \/ /\ Reload(i)
          /\ IF At(t, "notifying") /\ \A m \in loading : m.task = t => m = l
             THEN UnlockAnchorId(Ended(t, task[t].failed), inProgress)
             ELSE UNCHANGED <<task, inProgress, lock, waiting>>
          /\ UNCHANGED faults
       \/ /\ Fault
          /\ IF lock = None THEN UNCHANGED <<task, inProgress, lock, waiting>>
             ELSE UnlockAnchorId(IF At(t, "notifying") THEN Ended(t, TRUE) ELSE task,
                                 inProgress)
          /\ UNCHANGED bars
    /\ UNCHANGED anchored

-----------------------------------------------------------------------------
Callback(t) ==
    /\ \/ Refreshed(t)
       \/ BeginBatchAsync(t)
       \/ DoAnchoring(t)
       \/ BatchCommitted(t)
       \/ BatchCancelled(t)
       \/ \E i \in Instances : NotifiedInstance(t, i)
    /\ UNCHANGED careless

Close(t) == (CommitBatch(t) /\ UNCHANGED careless) \/ CancelBatch(t)

Next == \E t \in Tasks :
    \/ SafeBeginBatch(t)
    \/ Write(t) /\ UNCHANGED careless
    \/ Close(t)
    \/ Callback(t)

Spec == Init /\ [][Next]_vars

\* Asynchronous calls answer, and who opened a batch closes it.
Fairness == \A t \in Tasks : WF_vars(Callback(t)) /\ WF_vars(Close(t))
FairSpec == Spec /\ Fairness

-----------------------------------------------------------------------------
(* Properties *)

\* While a task closes the last batch of its instance, up to its answer, the lock of
\* the anchor is its own: lockAnchorId refuses a second one, and nobody else unlocks,
\* until a second call fails.
LockIsHeld == faults > 1 \/ \A t \in Tasks : task[t].pc \in Closing => lock = t

\* The same whatever fails: unlocking a lock that is not one's own is an error.
LockIsAlwaysHeld == \A t \in Tasks : task[t].pc \in Closing => lock = t

\* "Another DSU instance is already in batch mode": at most one instance of the DSU
\* is in a real batch.
OneInBatchMode ==
    \A i, j \in Instances : CurrentBar(i).batch /\ CurrentBar(j).batch => i = j

\* So it is as long as callers open their batches while no other opens or closes one,
\* and neither wait nor cancel, until a second call fails: safeBeginBatch turns away
\* whoever finds another instance in batch mode.
OneRealBatch == careless \/ faults > 1 \/ OneInBatchMode

\* What a task of such callers wrote in its batch is anchored, or waits in the open
\* batch of a current bar, as long as the batch is open and once commitBatch has
\* answered without error; a call that fails later may take it away again.
WritesAreKept == careless \/ faults # 0 \/
    \A t \in Tasks : task[t].pc \in {"open", "done"} /\ task[t].wrote =>
        \/ t \in anchored
        \/ \E i \in Instances : CurrentBar(i).batch /\ t \in CurrentBar(i).writes

\* What these rest on.  Who waits has not been answered, nobody writes before its batch
\* is open, and who asked for a refresh waits for it unless another one has failed.
Opening == {"refreshing", "checking"}
StepsInOrder ==
    /\ \A i \in Instances : \A n \in DOMAIN continuations[i] :
          LET t == continuations[i][n].task IN At(t, "waiting") /\ InstanceOf(t) = i
    /\ \A t \in Tasks : task[t].pc \in {"idle", "waiting"} \cup Opening => ~task[t].wrote
    /\ faults = 0 => \A l \in loading : At(l.task, "notifying")

\* Careful callers: one task opens a batch at a time, while there is no other; all
\* batches are of one instance and none is open while one is closed; a bar is in a
\* batch as long as its instance is, or a commit works on that bar.
Committing == {"committing", "anchored"}
OneAtATime == careless \/ faults > 1 \/
    /\ order = <<>>
    /\ \A t \in Tasks : ~At(t, "waiting") /\ ~At(t, "cancelling") /\ ~task[t].virtual
    /\ \A t, u \in Tasks : task[t].pc \in Opening /\ task[u].pc \in Opening => t = u
    /\ \A t \in Tasks : task[t].pc \in Opening => lock = None /\ ~BatchInProgress
    /\ lock # None => ~BatchInProgress
    /\ \A t \in Tasks, i \in Instances :
          t \in inProgress[i] <=> At(t, "open") /\ InstanceOf(t) = i
    /\ \A i, j \in Instances : inProgress[i] # {} /\ inProgress[j] # {} => i = j
    /\ \A i \in Instances : CurrentBar(i).batch =>
          \/ inProgress[i] # {}
          \/ \E t \in Tasks : task[t].pc \in Committing /\ InstanceOf(t) = i /\ task[t].bar = Len(bars[i])

\* As long as nothing fails: an open batch is one of its bar, a commit works on the
\* current bar, and what was written waits in it until it is anchored.
Kept(t) ==
    \/ t \in anchored
    \/ \E i \in Instances : CurrentBar(i).batch /\ t \in CurrentBar(i).writes
BarsAreCommitted == careless \/ faults # 0 \/
    /\ \A t \in Tasks : At(t, "open") => CurrentBar(InstanceOf(t)).batch
    /\ \A t \in Tasks : task[t].pc \in Committing => task[t].bar = Len(bars[InstanceOf(t)])
    /\ \A t \in Tasks : At(t, "anchored") => CurrentBar(InstanceOf(t)).writes = {}
    /\ \A t \in Tasks :
          task[t].pc \in Committing \cup {"open", "notifying", "done"} /\ task[t].wrote => Kept(t)

\* The inductive invariant.
Inv == TypeOK /\ LockIsHeld /\ StepsInOrder /\ OneAtATime /\ BarsAreCommitted

\* An instance in a batch keeps its bar: refresh answers that it "was not possible".
NoRefreshInBatch ==
    [][\A i \in Instances : Len(bars'[i]) > Len(bars[i]) => inProgress[i] = {}]_vars

\* No batch starts between the lock of a closing batch and its release: beginBatch
\* and beginBatchAsync throw when the anchor is locked.
NoBatchWhileLocked ==
    [][\A t \in Tasks : At(t, "open")' /\ ~At(t, "open") => lock' = None]_vars

\* Who waits for another batch to finish is eventually let in, or told that it failed:
\* unlockAnchorId runs the continuations of one instance only, and the next ones rely
\* on that one to lock and unlock in its turn.
Woken == \A t \in Tasks : At(t, "waiting") ~> ~At(t, "waiting")

=============================================================================
