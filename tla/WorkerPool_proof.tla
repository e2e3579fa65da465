-------------------------- MODULE WorkerPool_proof ---------------------------
(***************************************************************************)
(* Proofs about WorkerPool, for any tasks, any finite set of workers and   *)
(* any number of failures.                                                 *)
(***************************************************************************)
EXTENDS WorkerPool, FiniteSetTheorems, TLAPS

\* What the proofs need of the sizes of sets of workers.
LEMMA SizeOf ==
    ASSUME NEW A \in SUBSET Workers, NEW w
    PROVE  /\ IsFiniteSet(A)
           /\ Cardinality(A) \in Nat
           /\ Cardinality(A \cup {w}) = IF w \in A THEN Cardinality(A) ELSE Cardinality(A) + 1
           /\ Cardinality(A \ {w}) = IF w \in A THEN Cardinality(A) - 1 ELSE Cardinality(A)
<1>1. IsFiniteSet(A)
  BY WorkersAssumption, FS_Subset
<1> QED
  BY <1>1, FS_CardinalityType, FS_AddElement, FS_RemoveElement

\* In the initial state there is neither a worker nor a task.
LEMMA InitInv == Init => Inv
<1> SUFFICES ASSUME Init PROVE Inv
  OBVIOUS
<1> USE NoneAssumption, NumberAssumption DEF Init
<1>1. TypeOK
  <2>1. 0 \in 0..MaxFaults
    OBVIOUS
  <2>2. taskQueue \in Seq(Tasks)
    OBVIOUS
  <2>3. answer \in [Tasks -> Answers] /\ running \in [Workers -> Tasks \cup {None}]
    BY DEF Answers
  <2>4. /\ pool \subseteq Workers /\ creating \subseteq Workers \ pool
        /\ working \subseteq pool /\ undefd \subseteq pool /\ dead \subseteq pool
        /\ asked \subseteq Tasks /\ forgot \in BOOLEAN
    OBVIOUS
  <2>5. size \in Int /\ released \in Nat /\ faults \in 0..MaxFaults
    BY <2>1
  <2> HIDE DEF Init
  <2> QED
    BY <2>2, <2>3, <2>4, <2>5 DEF TypeOK
<1>2. BusyWorkersAreMarked /\ TasksAreKept
  BY DEF BusyWorkersAreMarked, TasksAreKept, Queued, Runs, Elements, Distinct
<1>3. NoWorkerRestsBesideAQueue
  BY DEF NoWorkerRestsBesideAQueue
<1>4. CountIsRight
  <2>1. Cardinality({}) = 0
    BY FS_EmptySet
  <2> QED
    BY <2>1 DEF CountIsRight, AtMostMaximum
<1> QED
  BY <1>1, <1>2, <1>3, <1>4 DEF Inv

-----------------------------------------------------------------------------
\* The listener to RELEASED_WORKER keeps the types.
LEMMA ReleasedType ==
    ASSUME TypeOK, NEW back \in SUBSET Workers, OnReleased(back)
    PROVE  /\ working' \subseteq pool
           /\ creating' \subseteq Workers \ pool
           /\ size' \in Int
           /\ taskQueue' \in Seq(Tasks)
           /\ running' \in [Workers -> Tasks \cup {None}]
<1> USE DEF TypeOK, Idle, Free
<1>1. CASE taskQueue = <<>> /\ working' = working \ back /\ running' = Idle(back)
           /\ UNCHANGED <<taskQueue, size, creating>>
  BY <1>1
<1>2. CASE taskQueue # <<>> /\ Accepted(Head(taskQueue), back) /\ taskQueue' = Tail(taskQueue)
  <2>1. Head(taskQueue) \in Tasks /\ Tail(taskQueue) \in Seq(Tasks)
    BY <1>2
  <2> QED
    BY <1>2, <2>1 DEF Accepted
<1>3. CASE taskQueue # <<>> /\ NotAccepted(back) /\ UNCHANGED taskQueue
  BY <1>3 DEF NotAccepted, CreateNewWorker
<1> QED
  BY <1>1, <1>2, <1>3 DEF OnReleased

LEMMA StepType == TypeOK /\ BusyWorkersAreMarked /\ [Next]_vars => TypeOK'
<1> SUFFICES ASSUME TypeOK, BusyWorkersAreMarked, [Next]_vars PROVE TypeOK'
  OBVIOUS
<1> USE NumberAssumption DEF TypeOK, Answers, count
<1>1. ASSUME NEW t \in Tasks, AddTask(t) PROVE TypeOK'
  BY <1>1 DEF AddTask, Accepted, NotAccepted, CreateNewWorker, Idle, Free
<1>2. CASE Emit
  BY <1>2, ReleasedType DEF Emit
<1>3. ASSUME NEW w \in Workers, Ready(w) PROVE TypeOK'
  BY <1>3 DEF Ready, Created
<1>4. ASSUME NEW w \in Workers, ExitsEarly(w) PROVE TypeOK'
  BY <1>4 DEF ExitsEarly, Created
<1>5. ASSUME NEW w \in Workers, CreationFails(w) PROVE TypeOK'
  BY <1>5 DEF CreationFails
<1>6. ASSUME NEW w \in Workers, ReturnWorker(w) PROVE TypeOK'
  BY <1>6, ReleasedType DEF ReturnWorker
<1>7. ASSUME NEW w \in Workers, RemoveWorker(w) PROVE TypeOK'
  <2>1. pool' \in SUBSET Workers /\ Cardinality(pool') \in Nat
    BY <1>7, SizeOf DEF RemoveWorker
  <2>2. w \notin undefd /\ answer' \in [Tasks -> Answers]
    BY <1>7 DEF RemoveWorker, BusyWorkersAreMarked
  <2> QED
    BY <1>7, <2>1, <2>2 DEF RemoveWorker
<1>8. ASSUME NEW w \in Workers, QuietExit(w) PROVE TypeOK'
  BY <1>8 DEF QuietExit
<1>9. CASE UNCHANGED vars
  BY <1>9 DEF vars
<1> QED
  BY <1>1, <1>2, <1>3, <1>4, <1>5, <1>6, <1>7, <1>8, <1>9 DEF Next

-----------------------------------------------------------------------------
\* Only a worker that was free is given a task, and it is marked then.
LEMMA StepBusy ==
    TypeOK /\ BusyWorkersAreMarked /\ [Next]_vars => BusyWorkersAreMarked'
<1> SUFFICES ASSUME TypeOK, BusyWorkersAreMarked, [Next]_vars
             PROVE  BusyWorkersAreMarked'
  OBVIOUS
<1> USE DEF TypeOK, BusyWorkersAreMarked, count
<1>0. ASSUME NEW back \in SUBSET Workers, OnReleased(back), UNCHANGED undefd
      PROVE  BusyWorkersAreMarked'
  BY <1>0 DEF OnReleased, Accepted, NotAccepted, Idle, Free
<1>1. ASSUME NEW t \in Tasks, AddTask(t) PROVE BusyWorkersAreMarked'
  BY <1>1 DEF AddTask, Accepted, NotAccepted, Idle, Free
<1>2. CASE Emit
  BY <1>2, <1>0 DEF Emit
<1>3. ASSUME NEW w \in Workers, Ready(w) PROVE BusyWorkersAreMarked'
  BY <1>3 DEF Ready, Created
<1>4. ASSUME NEW w \in Workers, ExitsEarly(w) PROVE BusyWorkersAreMarked'
  BY <1>4 DEF ExitsEarly, Created
<1>5. ASSUME NEW w \in Workers, CreationFails(w) PROVE BusyWorkersAreMarked'
  BY <1>5 DEF CreationFails
<1>6. ASSUME NEW w \in Workers, ReturnWorker(w) PROVE BusyWorkersAreMarked'
  BY <1>6, <1>0 DEF ReturnWorker
<1>7. ASSUME NEW w \in Workers, RemoveWorker(w) PROVE BusyWorkersAreMarked'
  BY <1>7 DEF RemoveWorker
<1>8. ASSUME NEW w \in Workers, QuietExit(w) PROVE BusyWorkersAreMarked'
  BY <1>8 DEF QuietExit
<1>9. CASE UNCHANGED vars
  BY <1>9 DEF vars
<1> QED
  BY <1>1, <1>2, <1>3, <1>4, <1>5, <1>6, <1>7, <1>8, <1>9 DEF Next

-----------------------------------------------------------------------------
\* There are as many events as free workers as long as a task waits: a worker becomes
\* free with an event, or with the event in the same callback.
LEMMA StepRests ==
    TypeOK /\ BusyWorkersAreMarked /\ NoWorkerRestsBesideAQueue /\ [Next]_vars
        => NoWorkerRestsBesideAQueue'
<1> SUFFICES ASSUME TypeOK, BusyWorkersAreMarked, NoWorkerRestsBesideAQueue,
                    [Next]_vars, taskQueue' # <<>>, undefd' = {}
             PROVE  Cardinality(pool' \ working') <= released'
  BY DEF NoWorkerRestsBesideAQueue
<1> DEFINE free == pool \ working
<1>0. /\ undefd = {} /\ free \in SUBSET Workers /\ released \in Nat
      /\ working \subseteq pool /\ pool \subseteq Workers /\ creating \cap pool = {}
  BY DEF TypeOK, Next, AddTask, Emit, Ready, ExitsEarly, Created, CreationFails,
         ReturnWorker, RemoveWorker, QuietExit, vars
<1>a. taskQueue # <<>> => Cardinality(free) <= released
  BY <1>0 DEF NoWorkerRestsBesideAQueue
<1>b. Cardinality({}) = 0
  BY FS_EmptySet
<1> USE <1>0 DEF count
<1>1. ASSUME NEW t \in Tasks, AddTask(t) PROVE Cardinality(pool' \ working') <= released'
  <2>1. CASE Accepted(t, {}) /\ UNCHANGED taskQueue
    <3>1. PICK w \in free : working' = working \cup {w}
      BY <2>1 DEF Accepted, Free
    <3>2. pool' \ working' = free \ {w} /\ released' = released
      BY <1>1, <3>1 DEF AddTask
    <3>3. Cardinality(pool' \ working') = Cardinality(free \ {w})
      BY <3>2, Zenon
    <3>4. Cardinality(free) <= released
      BY <2>1, <1>a
    <3>5. /\ Cardinality(free \ {w}) = Cardinality(free) - 1
          /\ Cardinality(free) \in Nat
      <4> HIDE DEF free
      <4> QED
        BY <1>0, <3>1, SizeOf
    <3> HIDE DEF free
    <3> QED
      BY <3>2, <3>3, <3>4, <3>5
  <2>2. CASE NotAccepted({})
    <3>1. pool' \ working' = {} /\ released' = released
      BY <1>1, <2>2 DEF AddTask, NotAccepted, Free
    <3>2. Cardinality(pool' \ working') = 0
      BY <3>1, <1>b, Zenon
    <3> QED
      BY <3>1, <3>2
  <2> QED
    BY <1>1, <2>1, <2>2 DEF AddTask
<1>2. CASE Emit
  <2>1. pool' = pool /\ released' = released - 1 /\ released' \in Nat
    BY <1>2 DEF Emit
  <2>2. CASE taskQueue # <<>> /\ Accepted(Head(taskQueue), {})
    <3>1. PICK w \in free : working' = working \cup {w}
      BY <2>2 DEF Accepted, Free
    <3>2. pool' \ working' = free \ {w}
      BY <2>1, <3>1
    <3>3. Cardinality(pool' \ working') = Cardinality(free \ {w})
      BY <3>2, Zenon
    <3>4. Cardinality(free) <= released
      BY <2>2, <1>a
    <3>5. /\ Cardinality(free \ {w}) = Cardinality(free) - 1
          /\ Cardinality(free) \in Nat
      <4> HIDE DEF free
      <4> QED
        BY <1>0, <3>1, SizeOf
    <3> HIDE DEF free
    <3> QED
      BY <2>1, <3>3, <3>4, <3>5
  <2>3. CASE NotAccepted({})
    <3>1. pool' \ working' = {}
      BY <2>1, <2>3 DEF NotAccepted, Free
    <3>2. Cardinality(pool' \ working') = 0
      BY <3>1, <1>b, Zenon
    <3> QED
      BY <2>1, <3>2
  <2> QED
    BY <1>2, <2>2, <2>3 DEF Emit, OnReleased
<1>3. ASSUME NEW w \in Workers, Ready(w) PROVE Cardinality(pool' \ working') <= released'
  <2>1. pool' \ working' = free \cup {w} /\ released' = released + 1 /\ taskQueue # <<>>
    BY <1>3 DEF Ready, Created
  <2>2. Cardinality(pool' \ working') = Cardinality(free \cup {w})
    BY <2>1, Zenon
  <2>3. Cardinality(free) <= released
    BY <2>1, <1>a
  <2>4. /\ Cardinality(free \cup {w}) = Cardinality(free) + 1
        /\ Cardinality(free) \in Nat
    <3>1. w \notin free
      BY <1>0, <1>3 DEF Ready, Created
    <3> HIDE DEF free
    <3> QED
      BY <1>0, <3>1, SizeOf
  <2> HIDE DEF free
  <2> QED
    BY <2>1, <2>2, <2>3, <2>4
<1>4. ASSUME NEW w \in Workers, ExitsEarly(w) PROVE FALSE
  BY <1>4 DEF ExitsEarly
<1>5. ASSUME NEW w \in Workers, CreationFails(w)
      PROVE  Cardinality(pool' \ working') <= released'
  BY <1>5 DEF CreationFails, NoWorkerRestsBesideAQueue
<1>6. ASSUME NEW w \in Workers, ReturnWorker(w)
      PROVE  Cardinality(pool' \ working') <= released'
  <2>1. w \in working /\ pool' = pool /\ released' = released
    BY <1>6 DEF ReturnWorker, BusyWorkersAreMarked, TypeOK
  <2>2. taskQueue # <<>> /\ Accepted(Head(taskQueue), {w})
    BY <1>6, <2>1 DEF ReturnWorker, OnReleased, NotAccepted, Free
  <2>3. PICK v \in free \cup {w} : working' = (working \ {w}) \cup {v}
    BY <2>2, <2>1 DEF Accepted, Free
  <2>4. pool' \ working' = (free \cup {w}) \ {v}
    BY <2>1, <2>3
  <2>5. free \cup {w} \in SUBSET Workers /\ w \notin free
    BY <2>1
  <2>6. Cardinality(free \cup {w}) = Cardinality(free) + 1 /\ Cardinality(free) \in Nat
    BY <2>5, SizeOf
  <2>7. Cardinality((free \cup {w}) \ {v}) = Cardinality(free)
    <3> DEFINE all == free \cup {w}
    <3>1. all \in SUBSET Workers /\ v \in all
      BY <2>3, <2>5
    <3>2. Cardinality(all \ {v}) = Cardinality(all) - 1
      BY <3>1, SizeOf
    <3> QED
      BY <2>6, <3>2
  <2> QED
    BY <2>1, <2>2, <2>4, <2>7, <1>a, <1>b
<1>7. ASSUME NEW w \in Workers, RemoveWorker(w)
      PROVE  Cardinality(pool' \ working') <= released'
  <2>1. pool' \ working' = free /\ UNCHANGED <<released, taskQueue>>
    BY <1>7 DEF RemoveWorker, BusyWorkersAreMarked
  <2> QED
    BY <2>1 DEF NoWorkerRestsBesideAQueue
<1>8. ASSUME NEW w \in Workers, QuietExit(w) PROVE Cardinality(pool' \ working') <= released'
  BY <1>8 DEF QuietExit, NoWorkerRestsBesideAQueue
<1>9. CASE UNCHANGED vars
  BY <1>9 DEF vars, NoWorkerRestsBesideAQueue
<1> QED
  BY <1>1, <1>2, <1>3, <1>4, <1>5, <1>6, <1>7, <1>8, <1>9 DEF Next

-----------------------------------------------------------------------------
\* The bound on the pool is a bound on its size.
LEMMA SizeBounds ==
    TypeOK => (CountIsRight <=>
                 \/ forgot
                 \/ /\ size = Cardinality(pool) + Cardinality(creating)
                    /\ size <= MaximumNumberOfWorkers)
<1> SUFFICES ASSUME TypeOK
             PROVE  Cardinality(pool \cup creating) = Cardinality(pool) + Cardinality(creating)
  BY DEF CountIsRight, AtMostMaximum
<1>1. pool \in SUBSET Workers /\ creating \in SUBSET Workers
  BY DEF TypeOK
<1>2. IsFiniteSet(pool) /\ IsFiniteSet(creating)
  BY <1>1, SizeOf
<1>3. Cardinality(pool) \in Nat /\ Cardinality(creating) \in Nat
  BY <1>1, SizeOf
<1>4. Cardinality(pool \cup creating)
        = Cardinality(pool) + Cardinality(creating) - Cardinality(pool \cap creating)
  BY <1>2, FS_Union
<1>5. pool \cap creating = {}
  BY DEF TypeOK
<1>6. Cardinality(pool \cap creating) = 0
  BY <1>5, FS_EmptySet, Zenon
<1> QED
  BY <1>3, <1>4, <1>6

\* Workers that are made are counted before, and a worker that fails is not counted any
\* more.
LEMMA StepCount ==
    TypeOK /\ BusyWorkersAreMarked /\ CountIsRight /\ [Next]_vars => CountIsRight'
<1> DEFINE Right == /\ size = Cardinality(pool) + Cardinality(creating)
                   /\ size <= MaximumNumberOfWorkers
<1> SUFFICES ASSUME TypeOK, BusyWorkersAreMarked, TypeOK', Right, [Next]_vars, ~forgot'
             PROVE  Right'
  <2>1. ~forgot' => ~forgot \/ ~[Next]_vars
    BY DEF Next, AddTask, Emit, Ready, ExitsEarly, Created, CreationFails, ReturnWorker,
           RemoveWorker, QuietExit, vars, TypeOK
  <2>2. TypeOK /\ BusyWorkersAreMarked /\ [Next]_vars => TypeOK'
    BY StepType
  <2>3. (TypeOK => (CountIsRight <=> forgot \/ Right))'
    BY SizeBounds, PTL
  <2> QED
    BY <2>1, <2>2, <2>3, SizeBounds
<1>0. pool \in SUBSET Workers /\ creating \in SUBSET Workers /\ size \in Int
  BY DEF TypeOK
<1>a. Cardinality(pool) \in Nat /\ Cardinality(creating) \in Nat
  BY <1>0, SizeOf
<1> USE NumberAssumption DEF count
<1>b. ASSUME CreateNewWorker, UNCHANGED pool PROVE Right'
  <2>1. CASE size >= MaximumNumberOfWorkers
    BY <1>b, <2>1 DEF CreateNewWorker
  <2>2. CASE ~(size >= MaximumNumberOfWorkers)
    <3>1. PICK w \in Workers \ (pool \cup creating) : creating' = creating \cup {w}
      BY <1>b, <2>2 DEF CreateNewWorker
    <3>2. Cardinality(creating \cup {w}) = Cardinality(creating) + 1
      BY <1>0, <3>1, SizeOf
    <3>3. Cardinality(creating') = Cardinality(creating \cup {w})
      BY <3>1, Zenon
    <3>4. size' = size + 1 /\ size + 1 <= MaximumNumberOfWorkers
      BY <1>0, <1>b, <2>2 DEF CreateNewWorker
    <3> QED
      BY <1>0, <1>a, <1>b, <3>2, <3>3, <3>4
  <2> QED
    BY <2>1, <2>2
<1>c. ASSUME NEW back \in SUBSET Workers, OnReleased(back), UNCHANGED pool PROVE Right'
  BY <1>c, <1>b DEF OnReleased, Accepted, NotAccepted
<1>d. ASSUME NEW w \in Workers, Created(w) PROVE Right'
  <2>1. w \in creating /\ w \notin pool /\ size' = size
    BY <1>d DEF Created, TypeOK
  <2>2. Cardinality(pool \cup {w}) = Cardinality(pool) + 1
    BY <1>0, <2>1, SizeOf
  <2>3. Cardinality(creating \ {w}) = Cardinality(creating) - 1
    BY <1>0, <2>1, SizeOf
  <2>4. /\ Cardinality(pool') = Cardinality(pool \cup {w})
        /\ Cardinality(creating') = Cardinality(creating \ {w})
    BY <1>d, Zenon DEF Created
  <2> QED
    BY <1>a, <2>1, <2>2, <2>3, <2>4
<1>1. ASSUME NEW t \in Tasks, AddTask(t) PROVE Right'
  BY <1>1, <1>b DEF AddTask, Accepted, NotAccepted
<1>2. CASE Emit
  BY <1>2, <1>c DEF Emit
<1>3. ASSUME NEW w \in Workers, Ready(w) \/ ExitsEarly(w) PROVE Right'
  BY <1>3, <1>d DEF Ready, ExitsEarly
<1>4. ASSUME NEW w \in Workers, CreationFails(w) PROVE Right'
  <2>1. w \in creating /\ size' = size - 1 /\ pool' = pool
    BY <1>4 DEF CreationFails
  <2>2. Cardinality(creating \ {w}) = Cardinality(creating) - 1
    BY <1>0, <2>1, SizeOf
  <2>3. Cardinality(creating') = Cardinality(creating \ {w})
    BY <1>4, Zenon DEF CreationFails
  <2> QED
    BY <1>0, <1>a, <2>1, <2>2, <2>3
<1>5. ASSUME NEW w \in Workers, ReturnWorker(w) PROVE Right'
  BY <1>5, <1>c DEF ReturnWorker
<1>6. ASSUME NEW w \in Workers, RemoveWorker(w) PROVE Right'
  <2>1. size' = Cardinality(pool') /\ creating' = {} /\ creating = {}
    BY <1>6 DEF RemoveWorker, TypeOK
  <2>2. Cardinality(creating') = 0 /\ Cardinality(creating) = 0
    BY <2>1, FS_EmptySet, Zenon
  <2>3. w \in pool
    BY <1>6 DEF RemoveWorker, BusyWorkersAreMarked, TypeOK
  <2>4. Cardinality(pool \ {w}) = Cardinality(pool) - 1
    BY <1>0, <2>3, SizeOf
  <2>5. Cardinality(pool') = Cardinality(pool \ {w})
    BY <1>6, Zenon DEF RemoveWorker
  <2> QED
    BY <1>a, <2>1, <2>2, <2>4, <2>5
<1>7. ASSUME NEW w \in Workers, QuietExit(w) PROVE Right'
  BY <1>7 DEF QuietExit
<1>8. CASE UNCHANGED vars
  BY <1>8 DEF vars
<1> QED
  BY <1>1, <1>2, <1>3, <1>4, <1>5, <1>6, <1>7, <1>8 DEF Next

-----------------------------------------------------------------------------
\* A task that is pushed to, or taken from, a queue without repetitions.
LEMMA Pushed ==
    ASSUME NEW q \in Seq(Tasks), Distinct(q), NEW t \in Tasks, t \notin Elements(q)
    PROVE  Distinct(Append(q, t)) /\ Elements(Append(q, t)) = Elements(q) \cup {t}
<1> DEFINE r == Append(q, t)
<1>1. /\ DOMAIN r = 1..(Len(q) + 1) /\ DOMAIN q = 1..Len(q) /\ Len(q) \in Nat
      /\ \A i \in 1..Len(q) : r[i] = q[i]
      /\ r[Len(q) + 1] = t
  OBVIOUS
<1> HIDE DEF r
<1>2. Distinct(r)
  BY <1>1 DEF Distinct, Elements
<1>3. Elements(r) = Elements(q) \cup {t}
  BY <1>1 DEF Elements
<1> QED
  BY <1>2, <1>3 DEF r

LEMMA Popped ==
    ASSUME NEW q \in Seq(Tasks), Distinct(q), q # <<>>
    PROVE  /\ Distinct(Tail(q)) /\ Head(q) \in Elements(q)
           /\ Elements(Tail(q)) = Elements(q) \ {Head(q)}
<1> DEFINE r == Tail(q)
<1>1. /\ DOMAIN r = 1..(Len(q) - 1) /\ DOMAIN q = 1..Len(q) /\ Len(q) \in Nat /\ Len(q) > 0
      /\ \A i \in 1..(Len(q) - 1) : r[i] = q[i + 1]
      /\ Head(q) = q[1]
  OBVIOUS
<1> HIDE DEF r
<1>2. Distinct(r)
  BY <1>1 DEF Distinct
<1>3. Head(q) \in Elements(q)
  BY <1>1 DEF Elements
<1>4. ASSUME NEW x \in Elements(r) PROVE x \in Elements(q) \ {Head(q)}
  BY <1>1, <1>4 DEF Elements, Distinct
<1>5. ASSUME NEW x \in Elements(q) \ {Head(q)} PROVE x \in Elements(r)
  <2>1. PICK i \in 1..Len(q) : x = q[i] /\ i # 1
    BY <1>1, <1>5 DEF Elements
  <2>2. i - 1 \in 1..(Len(q) - 1) /\ r[i - 1] = x
    BY <1>1, <2>1
  <2> QED
    BY <1>1, <2>2 DEF Elements
<1> QED
  BY <1>2, <1>3, <1>4, <1>5 DEF r

\* What is left of TasksAreKept when it is not asked who was answered.
Placed ==
    /\ Distinct(taskQueue)
    /\ \A v, w \in Workers : running[v] = running[w] /\ running[v] # None => v = w
    /\ \A t \in Tasks : ~(Queued(t) /\ Runs(t))

\* A release moves at most the first task of the queue to a worker, and forgets the
\* tasks of the workers that come back.
LEMMA ReleasedMoves ==
    ASSUME TypeOK, BusyWorkersAreMarked, Placed, NEW back \in SUBSET Workers,
           OnReleased(back)
    PROVE  /\ Placed'
           /\ \A t \in Tasks : (Queued(t) \/ Runs(t))'
                 <=> (Queued(t) \/ \E w \in Workers \ back : running[w] = t)
<1> USE NoneAssumption DEF TypeOK, Placed, Queued, Runs
<1>1. CASE UNCHANGED taskQueue /\ running' = Idle(back)
  BY <1>1 DEF Idle
<1>2. CASE taskQueue # <<>> /\ Accepted(Head(taskQueue), back) /\ taskQueue' = Tail(taskQueue)
  <2> DEFINE h == Head(taskQueue)
  <2>1. /\ h \in Tasks /\ h \in Elements(taskQueue)
        /\ Distinct(taskQueue') /\ Elements(taskQueue') = Elements(taskQueue) \ {h}
    BY <1>2, Popped
  <2>2. PICK v \in Free(back) \ undefd : running' = [Idle(back) EXCEPT ![v] = h]
    BY <1>2 DEF Accepted
  <2>3. /\ v \in Workers /\ Idle(back)[v] = None
        /\ \A w \in Workers : Idle(back)[w] = IF w \in back THEN None ELSE running[w]
    BY <2>2 DEF Idle, Free, BusyWorkersAreMarked
  <2>4. \A w \in Workers : running'[w] = IF w = v THEN h ELSE Idle(back)[w]
    BY <2>2, <2>3 DEF Idle
  <2> HIDE DEF h
  <2>5. \A w \in Workers : running[w] # h
    BY <2>1
  <2> QED
    BY <2>1, <2>3, <2>4, <2>5
<1>3. CASE taskQueue # <<>> /\ NotAccepted(back) /\ UNCHANGED taskQueue
  <2>1. running' = Idle(back)
    BY <1>3 DEF NotAccepted, Free, Idle, BusyWorkersAreMarked
  <2> QED
    BY <1>1, <1>3, <2>1
<1> QED
  BY <1>1, <1>2, <1>3 DEF OnReleased

LEMMA KeptIsPlaced ==
    TasksAreKept <=> /\ Placed
                     /\ \A t \in Tasks :
                          /\ (t \in asked /\ answer[t] = "none") <=> (Queued(t) \/ Runs(t))
                          /\ answer[t] # "none" => t \in asked
  BY DEF TasksAreKept, Placed

\* A task is dropped from the queue or from a worker only by the step that hands it on
\* or calls its callback.
LEMMA StepKept ==
    TypeOK /\ BusyWorkersAreMarked /\ TasksAreKept /\ [Next]_vars => TasksAreKept'
<1> SUFFICES ASSUME TypeOK, BusyWorkersAreMarked, TasksAreKept, [Next]_vars
             PROVE  TasksAreKept'
  OBVIOUS
<1>0. /\ Placed
      /\ \A t \in Tasks :
           /\ (t \in asked /\ answer[t] = "none") <=> (Queued(t) \/ Runs(t))
           /\ answer[t] # "none" => t \in asked
  BY KeptIsPlaced
<1> USE NoneAssumption
<1>1. ASSUME NEW t \in Tasks, AddTask(t) PROVE TasksAreKept'
  <2>1. ~Queued(t) /\ ~Runs(t) /\ answer[t] = answer'[t]
    BY <1>0, <1>1 DEF AddTask
  <2>2. CASE Accepted(t, {}) /\ UNCHANGED taskQueue
    <3>1. PICK v \in Free({}) \ undefd : running' = [Idle({}) EXCEPT ![v] = t]
      BY <2>2 DEF Accepted
    <3>2. v \in Workers /\ running[v] = None
      BY <3>1 DEF Free, BusyWorkersAreMarked, TypeOK
    <3>3. \A w \in Workers : running'[w] = IF w = v THEN t ELSE running[w]
      BY <3>1 DEF Idle
    <3>4. answer[t] = "none"
      BY <1>0, <1>1 DEF AddTask
    <3> QED
      BY <1>0, <1>1, <2>1, <2>2, <3>2, <3>3, <3>4
      DEF AddTask, TasksAreKept, Placed, Queued, Runs, TypeOK
  <2>3. CASE NotAccepted({}) /\ taskQueue' = Append(taskQueue, t)
    <3>1. Distinct(taskQueue') /\ Elements(taskQueue') = Elements(taskQueue) \cup {t}
      BY <1>0, <2>1, <2>3, Pushed DEF Placed, Queued, TypeOK
    <3>2. running' = running
      BY <2>3 DEF NotAccepted, Idle, Free, TypeOK
    <3> QED
      BY <1>0, <1>1, <2>1, <3>1, <3>2 DEF AddTask, TasksAreKept, Placed, Queued, Runs
  <2> QED
    BY <1>1, <2>2, <2>3 DEF AddTask
<1>2. CASE Emit
  <2>1. /\ Placed'
        /\ \A t \in Tasks : (Queued(t) \/ Runs(t))' <=> (Queued(t) \/ Runs(t))
    BY <1>0, <1>2, ReleasedMoves DEF Emit, Runs
  <2> QED
    BY <1>0, <1>2, <2>1 DEF Emit, TasksAreKept, Placed
<1>3. ASSUME NEW w \in Workers, ReturnWorker(w) PROVE TasksAreKept'
  <2>1. running[w] \in Tasks /\ Runs(running[w])
    BY <1>3 DEF ReturnWorker, TypeOK, Runs
  <2>2. /\ Placed'
        /\ \A t \in Tasks : (Queued(t) \/ Runs(t))'
              <=> (Queued(t) \/ \E v \in Workers \ {w} : running[v] = t)
    BY <1>0, <1>3, ReleasedMoves DEF ReturnWorker
  <2>3. \A t \in Tasks : (Queued(t) \/ Runs(t))' <=> (Queued(t) \/ Runs(t)) /\ t # running[w]
    BY <1>0, <2>1, <2>2 DEF Placed, Runs
  <2>4. \A t \in Tasks : answer'[t] = IF t = running[w] THEN "result" ELSE answer[t]
    BY <1>3, <2>1 DEF ReturnWorker, TypeOK
  <2>5. running[w] \in asked /\ asked' = asked
    BY <1>0, <1>3, <2>1 DEF ReturnWorker
  <2>6. \A t \in Tasks :
          /\ (t \in asked' /\ answer'[t] = "none") <=> (Queued(t) \/ Runs(t))'
          /\ answer'[t] # "none" => t \in asked'
    BY <1>0, <2>3, <2>4, <2>5
  <2> QED
    BY <2>2, <2>6 DEF TasksAreKept, Placed
<1>4. ASSUME NEW w \in Workers, RemoveWorker(w) PROVE TasksAreKept'
  <2>1. running[w] \in Tasks /\ Runs(running[w])
    BY <1>4 DEF RemoveWorker, TypeOK, Runs
  <2>2. \A v \in Workers : running'[v] = IF v = w THEN None ELSE running[v]
    BY <1>4 DEF RemoveWorker, TypeOK
  <2>3. \A t \in Tasks : answer'[t] = IF t = running[w] THEN "error" ELSE answer[t]
    BY <1>4, <2>1 DEF RemoveWorker, TypeOK
  <2> QED
    BY <1>0, <1>4, <2>1, <2>2, <2>3 DEF RemoveWorker, TasksAreKept, Placed, Queued, Runs
<1>5. CASE UNCHANGED <<taskQueue, running, asked, answer>>
  BY <1>5 DEF TasksAreKept, Queued, Runs
<1> QED
  BY <1>1, <1>2, <1>3, <1>4, <1>5
  DEF Next, Ready, ExitsEarly, Created, CreationFails, QuietExit, vars

-----------------------------------------------------------------------------
\* The inductive invariant.
THEOREM InductiveInvariant == Spec => []Inv
<1>1. Inv /\ [Next]_vars => Inv'
  BY StepType, StepBusy, StepKept, StepRests, StepCount DEF Inv
<1> QED
  BY InitInv, <1>1, PTL DEF Spec

\* A task that was added is in one place until its callback is called.
THEOREM NoTaskIsLost == Spec => []TasksAreKept
<1>1. Inv => TasksAreKept
  BY DEF Inv
<1> QED
  BY InductiveInvariant, <1>1, PTL

\* No worker rests beside a task that waits.
THEOREM WorkersWork == Spec => []NoWorkerRestsBesideAQueue
<1>1. Inv => NoWorkerRestsBesideAQueue
  BY DEF Inv
<1> QED
  BY InductiveInvariant, <1>1, PTL

\* The bound on the workers holds until a worker fails while another one is made.
THEOREM PoolIsBounded == Spec => []CountIsRight
<1>1. Inv => CountIsRight
  BY DEF Inv
<1> QED
  BY InductiveInvariant, <1>1, PTL
=============================================================================
