----------------------------- MODULE WorkerPool ------------------------------
(***************************************************************************)
(* The pool of workers of syndicate: WorkerPool.addTask over AbstractPool, *)
(* with the threads of Pool-Threads.                                       *)
(*                                                                         *)
(* A step is one callback of the event loop.  Creating a worker is         *)
(* asynchronous; the release of a worker runs the next task in the same    *)
(* callback, and the release of a new worker waits for a setImmediate.     *)
(***************************************************************************)
EXTENDS Integers, Sequences, FiniteSets

CONSTANTS
    Tasks,
    Workers,      \* names for the workers that are there at one time
    None,
    MaximumNumberOfWorkers,
    MaxFaults     \* bound: workers that fail or end

ASSUME NoneAssumption == None \notin Tasks
ASSUME WorkersAssumption == IsFiniteSet(Workers)
ASSUME NumberAssumption == MaximumNumberOfWorkers \in Nat \ {0} /\ MaxFaults \in Nat

VARIABLES
    pool,        \* workers in the pool
    working,     \* those marked isWorking
    undefd,      \* those whose workerInstance is undefined
    size,        \* currentPoolSize
    creating,    \* workers that are being created
    released,    \* RELEASED_WORKER events in setImmediate
    taskQueue,
    running,     \* [Workers -> the task whose listeners the worker has, or None]
    asked,       \* tasks that were added
    answer,      \* [Tasks -> what its callback got]
    dead,        \* workers in the pool whose thread has ended without anybody listening
    faults,
    forgot       \* ghost: a worker was removed while another one was being created

count == <<size, creating, released>>
vars == <<pool, working, undefd, count, taskQueue, running, asked, answer, dead,
          faults, forgot>>

Answers == {"none", "result", "error"}

TypeOK ==
    /\ pool \subseteq Workers /\ creating \subseteq Workers \ pool
    /\ working \subseteq pool /\ undefd \subseteq pool /\ dead \subseteq pool
    /\ size \in Int /\ released \in Nat
    /\ taskQueue \in Seq(Tasks)
    /\ running \in [Workers -> Tasks \cup {None}]
    /\ asked \subseteq Tasks
    /\ answer \in [Tasks -> Answers]
    /\ faults \in 0..MaxFaults
    /\ forgot \in BOOLEAN

Init ==
    /\ pool = {} /\ working = {} /\ undefd = {} /\ dead = {} /\ creating = {}
    /\ size = 0 /\ released = 0
    /\ taskQueue = <<>>
    /\ running = [w \in Workers |-> None]
    /\ asked = {}
    /\ answer = [t \in Tasks |-> "none"]
    /\ faults = 0
    /\ forgot = FALSE

-----------------------------------------------------------------------------
\* Fault: the size is that of the pool, which does not hold the workers in the making.
CreateNewWorkerByPool ==
    IF Cardinality(pool) >= MaximumNumberOfWorkers
    THEN UNCHANGED <<size, creating>>
    ELSE /\ size' = size + 1
         /\ \E w \in Workers \ (pool \cup creating) : creating' = creating \cup {w}

\* AbstractPool._createNewWorker
CreateNewWorker ==
    IF size >= MaximumNumberOfWorkers
    THEN UNCHANGED <<size, creating>>
    ELSE /\ size' = size + 1
         /\ \E w \in Workers \ (pool \cup creating) : creating' = creating \cup {w}

\* runTaskImmediately: getAvailableWorker marks the first worker that is free, where
\* "back" has become so in this very callback, or has one made for a later task.  A
\* slot without a worker is marked too and takes no task.
Free(back) == pool \ (working \ back)
Idle(back) == [w \in Workers |-> IF w \in back THEN None ELSE running[w]]

Accepted(t, back) ==
    \E w \in Free(back) \ undefd :
        /\ working' = (working \ back) \cup {w}
        /\ running' = [Idle(back) EXCEPT ![w] = t]
        /\ UNCHANGED <<size, creating>>

NotAccepted(back) ==
    \/ \E w \in Free(back) \cap undefd :
          /\ working' = (working \ back) \cup {w}
          /\ running' = Idle(back)
          /\ UNCHANGED <<size, creating>>
    \/ /\ Free(back) = {}
       /\ CreateNewWorker
       /\ UNCHANGED <<working, running>>

\* Fault: the task that was accepted stays in the queue.
OnReleasedKeeps(back) ==
    \/ /\ taskQueue = <<>>
       /\ working' = working \ back
       /\ running' = Idle(back)
       /\ UNCHANGED <<taskQueue, size, creating>>
    \/ /\ taskQueue # <<>>
       /\ Accepted(Head(taskQueue), back) \/ NotAccepted(back)
       /\ UNCHANGED taskQueue

\* Fault: a worker that comes back is left to the next task that is added.
OnReleasedOnlyNew(back) ==
    \/ /\ taskQueue = <<>> \/ back # {}
       /\ working' = working \ back
       /\ running' = Idle(back)
       /\ UNCHANGED <<taskQueue, size, creating>>
    \/ /\ taskQueue # <<>> /\ back = {}
       /\ Accepted(Head(taskQueue), back)
       /\ taskQueue' = Tail(taskQueue)
    \/ /\ taskQueue # <<>> /\ back = {}
       /\ NotAccepted(back)
       /\ UNCHANGED taskQueue

\* The listener to RELEASED_WORKER.
OnReleased(back) ==
    \/ /\ taskQueue = <<>>
       /\ working' = working \ back
       /\ running' = Idle(back)
       /\ UNCHANGED <<taskQueue, size, creating>>
    \/ /\ taskQueue # <<>>
       /\ Accepted(Head(taskQueue), back)
       /\ taskQueue' = Tail(taskQueue)
    \/ /\ taskQueue # <<>>
       /\ NotAccepted(back)
       /\ UNCHANGED taskQueue

AddTask(t) ==
    /\ t \notin asked
    /\ asked' = asked \cup {t}
    /\ \/ Accepted(t, {}) /\ UNCHANGED taskQueue
       \/ NotAccepted({}) /\ taskQueue' = Append(taskQueue, t)
    /\ UNCHANGED <<pool, undefd, released, answer, dead, faults, forgot>>

Emit ==
    /\ released > 0
    /\ released' = released - 1
    /\ OnReleased({})
    /\ UNCHANGED <<pool, undefd, asked, answer, dead, faults, forgot>>

-----------------------------------------------------------------------------
(* A worker is created. *)

\* Fault: a worker that was made is not announced.
CreatedSilently(w) ==
    /\ w \in creating
    /\ creating' = creating \ {w}
    /\ pool' = pool \cup {w}
    /\ UNCHANGED <<working, size, released, taskQueue, running, asked, answer, dead, forgot>>

Created(w) ==
    /\ w \in creating
    /\ creating' = creating \ {w}
    /\ pool' = pool \cup {w}
    /\ released' = released + 1
    /\ UNCHANGED <<working, size, taskQueue, running, asked, answer, dead, forgot>>

\* The worker sends 'ready'.
Ready(w) == Created(w) /\ UNCHANGED <<undefd, faults>>

\* The thread ends with exit code 0 before it is ready: the code is taken for no error,
\* and no worker.
ExitsEarly(w) ==
    /\ faults < MaxFaults /\ faults' = faults + 1
    /\ undefd' = undefd \cup {w}
    /\ Created(w)

CreationFails(w) ==
    /\ faults < MaxFaults /\ faults' = faults + 1
    /\ w \in creating
    /\ creating' = creating \ {w}
    /\ size' = size - 1
    /\ UNCHANGED <<pool, working, undefd, released, taskQueue, running, asked, answer,
                   dead, forgot>>

-----------------------------------------------------------------------------
(* A worker ends a task. *)

\* A message: returnWorker, then the callback of the task.
ReturnWorker(w) ==
    /\ running[w] # None /\ w \notin dead
    /\ answer' = [answer EXCEPT ![running[w]] = "result"]
    /\ OnReleased({w})
    /\ UNCHANGED <<pool, undefd, released, asked, dead, faults, forgot>>

\* Fault: the size is left as it was.
RemoveWorkerUncounted(w) ==
    /\ faults < MaxFaults /\ faults' = faults + 1
    /\ running[w] # None /\ w \notin dead
    /\ answer' = [answer EXCEPT ![running[w]] = "error"]
    /\ running' = [running EXCEPT ![w] = None]
    /\ pool' = pool \ {w}
    /\ working' = working \ {w}
    /\ forgot' = (forgot \/ creating # {})
    /\ UNCHANGED <<undefd, size, creating, released, taskQueue, asked, dead>>

\* An error, or an exit with another code than 0: removeWorker, which releases nobody.
RemoveWorker(w) ==
    /\ faults < MaxFaults /\ faults' = faults + 1
    /\ running[w] # None /\ w \notin dead
    /\ answer' = [answer EXCEPT ![running[w]] = "error"]
    /\ running' = [running EXCEPT ![w] = None]
    /\ pool' = pool \ {w}
    /\ working' = working \ {w}
    /\ size' = Cardinality(pool')
    /\ forgot' = (forgot \/ creating # {})
    /\ UNCHANGED <<undefd, creating, released, taskQueue, asked, dead>>

\* A thread ends while nobody listens, or with exit code 0, to which nobody reacts.
QuietExit(w) ==
    /\ faults < MaxFaults /\ faults' = faults + 1
    /\ w \in pool \ (undefd \cup dead)
    /\ dead' = dead \cup {w}
    /\ UNCHANGED <<pool, working, undefd, count, taskQueue, running, asked, answer,
                   forgot>>

-----------------------------------------------------------------------------
Next ==
    \/ \E t \in Tasks : AddTask(t)
    \/ Emit
    \/ \E w \in Workers :
          \/ Ready(w) \/ ExitsEarly(w) \/ CreationFails(w)
          \/ ReturnWorker(w) \/ RemoveWorker(w) \/ QuietExit(w)

Spec == Init /\ [][Next]_vars

\* The event loop runs every callback, and a worker that is made and given a task
\* answers.
FairSpec ==
    /\ Spec
    /\ WF_vars(Emit)
    /\ \A w \in Workers : WF_vars(Ready(w)) /\ WF_vars(ReturnWorker(w))

-----------------------------------------------------------------------------
Elements(q) == {q[i] : i \in DOMAIN q}
Distinct(q) == \A i, j \in DOMAIN q : q[i] = q[j] => i = j

Queued(t) == t \in Elements(taskQueue)
Runs(t) == \E w \in Workers : running[w] = t

\* Who has a task is a worker of the pool that is marked.
BusyWorkersAreMarked == \A w \in Workers : running[w] # None => w \in working \ undefd

\* A task that was added is in the queue once, or with one worker, until its callback
\* is called, and then nowhere: it is not run twice and not dropped.
TasksAreKept ==
    /\ Distinct(taskQueue)
    /\ \A v, w \in Workers : running[v] = running[w] /\ running[v] # None => v = w
    /\ \A t \in Tasks :
          /\ ~(Queued(t) /\ Runs(t))
          /\ answer[t] # "none" => t \in asked
          /\ (t \in asked /\ answer[t] = "none") <=> (Queued(t) \/ Runs(t))

\* A task waits in the queue only as long as every worker of the pool is busy, or as
\* many events are under way as there are free workers.
NoWorkerRestsBesideAQueue ==
    taskQueue # <<>> /\ undefd = {} => Cardinality(pool \ working) <= released

\* "the upper bound of the number of workers allowed to be created"
AtMostMaximum == Cardinality(pool \cup creating) <= MaximumNumberOfWorkers

\* The bound holds until a worker fails while another one is being created.
CountIsRight ==
    \/ forgot
    \/ size = Cardinality(pool) + Cardinality(creating) /\ AtMostMaximum

\* The inductive invariant.
Inv ==
    /\ TypeOK /\ BusyWorkersAreMarked /\ TasksAreKept /\ NoWorkerRestsBesideAQueue
    /\ CountIsRight

\* As long as no worker fails, every task is answered.
TasksAreAnswered == \A t \in Tasks : t \in asked ~> answer[t] # "none" \/ faults > 0

\* An event finds a worker for the task that waits: that it does not "should never
\* happen and it's most likely a bug".
EventsRunATask ==
    [][released' < released /\ taskQueue # <<>> => taskQueue' = Tail(taskQueue)]_vars

\* A worker that fails takes no other task with it.
OthersAreAnswered ==
    \A t \in Tasks : t \in asked ~> answer[t] # "none"
=============================================================================
