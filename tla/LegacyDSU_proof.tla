--------------------------- MODULE LegacyDSU_proof ---------------------------
(***************************************************************************)
(* Proofs about LegacyDSU, for any instances and tasks and any number of   *)
(* calls that fail.                                                        *)
(***************************************************************************)
EXTENDS LegacyDSU, SequenceTheorems, TLAPS

USE NoneAssumption, FaultsAssumption

-----------------------------------------------------------------------------
(* What the operators that actions share do *)

\* A bar of an instance is changed.
LEMMA SetBarEffect ==
    ASSUME TypeOK, NEW i \in Instances, NEW n \in DOMAIN bars[i], NEW b \in Bar,
           SetBar(i, n, b)
    PROVE  /\ bars' \in [Instances -> Seq(Bar)]
           /\ \A j \in Instances :
                 /\ bars'[j] # <<>>
                 /\ DOMAIN bars'[j] = DOMAIN bars[j]
                 /\ Len(bars'[j]) = Len(bars[j])
                 /\ CurrentBar(j)' = IF j = i /\ n = Len(bars[i]) THEN b ELSE CurrentBar(j)
<1>1. \A j \in Instances : bars[j] \in Seq(Bar) /\ bars[j] # <<>>
  BY DEF TypeOK
<1>2. \A j \in Instances :
         /\ Len(bars[j]) \in Nat \ {0} /\ DOMAIN bars[j] = 1..Len(bars[j])
         /\ \A k \in DOMAIN bars[j] : bars[j][k] \in Bar
  BY <1>1
<1> DEFINE q == [bars[i] EXCEPT ![n] = b]
<1>3. /\ q \in Seq(Bar) /\ Len(q) = Len(bars[i])
      /\ \A k \in DOMAIN bars[i] : q[k] = IF k = n THEN b ELSE bars[i][k]
  BY <1>1, <1>2, ExceptSeq
<1>4. bars' = [bars EXCEPT ![i] = q]
  BY DEF SetBar
<1>5. bars' \in [Instances -> Seq(Bar)]
  BY <1>3, <1>4 DEF TypeOK
<1> HIDE DEF q
<1>6. \A j \in Instances : bars'[j] = IF j = i THEN q ELSE bars[j]
  BY <1>4 DEF TypeOK
<1>7. ASSUME NEW j \in Instances
      PROVE  /\ bars'[j] # <<>> /\ DOMAIN bars'[j] = DOMAIN bars[j]
             /\ Len(bars'[j]) = Len(bars[j])
             /\ CurrentBar(j)' = IF j = i /\ n = Len(bars[i]) THEN b ELSE CurrentBar(j)
  <2>1. CASE j = i
    <3>1. bars'[j] = q /\ Len(q) \in Nat \ {0} /\ DOMAIN q = 1..Len(q)
      BY <2>1, <1>6, <1>3, <1>2
    <3>2. q[Len(q)] = IF n = Len(bars[i]) THEN b ELSE bars[i][Len(bars[i])]
      BY <1>2, <1>3
    <3> QED
      BY <2>1, <3>1, <3>2, <1>2, <1>3 DEF CurrentBar, Last
  <2>2. CASE j # i
    BY <2>2, <1>6, <1>1 DEF CurrentBar, Last
  <2> QED
    BY <2>1, <2>2
<1> QED
  BY <1>5, <1>7

\* An instance gets a new bar.
LEMMA ReloadEffect ==
    ASSUME TypeOK, NEW i \in Instances, Reload(i)
    PROVE  /\ bars' \in [Instances -> Seq(Bar)]
           /\ \A j \in Instances :
                 /\ bars'[j] # <<>>
                 /\ DOMAIN bars[j] \subseteq DOMAIN bars'[j]
                 /\ j # i => Len(bars'[j]) = Len(bars[j])
                 /\ CurrentBar(j)' = IF j = i THEN LoadedBar ELSE CurrentBar(j)
<1>1. \A j \in Instances : bars[j] \in Seq(Bar) /\ bars[j] # <<>>
  BY DEF TypeOK
<1>2. LoadedBar \in Bar
  BY DEF LoadedBar, Bar
<1> DEFINE q == Append(bars[i], LoadedBar)
<1>3. /\ q \in Seq(Bar) /\ q # <<>> /\ Len(q) = Len(bars[i]) + 1 /\ q[Len(q)] = LoadedBar
      /\ DOMAIN bars[i] \subseteq DOMAIN q
  BY <1>1, <1>2, AppendProperties
<1>4. bars' = [bars EXCEPT ![i] = q]
  BY DEF Reload
<1> HIDE DEF q
<1>5. \A j \in Instances : bars'[j] = IF j = i THEN q ELSE bars[j]
  BY <1>4 DEF TypeOK
<1>6. bars' \in [Instances -> Seq(Bar)]
  BY <1>3, <1>4 DEF TypeOK
<1> QED
  BY <1>1, <1>3, <1>5, <1>6 DEF CurrentBar, Last

\* A task goes on to another step.
LEMMA StepTypes ==
    ASSUME NEW x \in Task, NEW s \in Steps
    PROVE  /\ [x EXCEPT !.pc = s] \in Task
           /\ \A v \in BOOLEAN : [x EXCEPT !.pc = s, !.virtual = v] \in Task
           /\ \A v \in BOOLEAN : [x EXCEPT !.pc = s, !.failed = v] \in Task
           /\ \A n \in Nat : [x EXCEPT !.pc = s, !.bar = n] \in Task
<1>1. [x EXCEPT !.pc = s] \in Task
  BY DEF Task
<1>2. ASSUME NEW v \in BOOLEAN PROVE [x EXCEPT !.pc = s, !.virtual = v] \in Task
  BY DEF Task
<1>3. ASSUME NEW v \in BOOLEAN PROVE [x EXCEPT !.pc = s, !.failed = v] \in Task
  BY DEF Task
<1>4. ASSUME NEW n \in Nat PROVE [x EXCEPT !.pc = s, !.bar = n] \in Task
  BY DEF Task
<1> QED
  BY <1>1, <1>2, <1>3, <1>4

\* The lock is released and those who waited on an instance are called.
LEMMA UnlockEffect ==
    ASSUME TypeOK, StepsInOrder,
           NEW tasks \in [Tasks -> Task], NEW batches \in [Instances -> SUBSET Tasks],
           UnlockAnchorId(tasks, batches)
    PROVE  /\ lock' = None
           /\ task' \in [Tasks -> Task] /\ inProgress' \in [Instances -> SUBSET Tasks]
           /\ continuations' \in [Instances -> Seq(Continuation)] /\ order' \in Seq(Instances)
           /\ \A t \in Tasks :
                 /\ task'[t].inst = tasks[t].inst /\ task'[t].bar = tasks[t].bar
                 /\ task'[t].wrote = tasks[t].wrote
                 /\ \/ task'[t] = tasks[t]
                    \/ At(t, "waiting") /\ task'[t].pc \in {"refreshing", "checking", "open"}
           /\ \A i \in Instances : \A n \in DOMAIN continuations'[i] :
                 /\ n \in DOMAIN continuations[i]
                 /\ continuations'[i][n] = continuations[i][n]
                 /\ task'[continuations[i][n].task] = tasks[continuations[i][n].task]
           /\ order = <<>> => task' = tasks /\ inProgress' = batches /\ UNCHANGED waiting
<1>0. lock' = None
  BY DEF UnlockAnchorId
<1>a. order \in Seq(Instances) /\ continuations \in [Instances -> Seq(Continuation)]
  BY DEF TypeOK
<1>b. \A i \in Instances : \A n \in DOMAIN continuations[i] : continuations[i][n] \in Continuation
  BY <1>a, ElementOfSeq
<1>c. \A i \in Instances : \A n \in DOMAIN continuations[i] : continuations[i][n].task \in Tasks
  BY <1>b DEF Continuation
<1>1. CASE order = <<>>
  <2>1. task' = tasks /\ inProgress' = batches /\ UNCHANGED waiting
    BY <1>1 DEF UnlockAnchorId
  <2>2. continuations' = continuations /\ order' = order
    BY <2>1 DEF waiting
  <2> QED
    BY <1>0, <1>a, <1>c, <2>1, <2>2
<1>2. CASE order # <<>>
  <2> DEFINE j == Head(order)
             run == continuations[j]
             AtOnce(n) == \/ run[n].call = "init"
                          \/ batches[j] # {}
                          \/ \E m \in (n + 1)..(Len(run) - 1) : run[m].call = "init"
             Virtual(n) == n < Len(run) /\ AtOnce(n)
             step(n) == IF Virtual(n) THEN "open" ELSE IF AtOnce(n) THEN "checking" ELSE "refreshing"
             Turn(t) == {n \in DOMAIN run : run[n].task = t}
             called == {run[n].task : n \in {m \in DOMAIN run : Virtual(m)}}
  <2>1. /\ task' = [t \in Tasks |->
              IF Turn(t) = {} THEN tasks[t]
              ELSE LET n == CHOOSE n \in Turn(t) : TRUE IN
                   [tasks[t] EXCEPT !.pc = step(n), !.virtual = n < Len(run)]]
        /\ inProgress' = [batches EXCEPT ![j] = @ \cup called]
        /\ continuations' = [continuations EXCEPT ![j] = <<>>]
        /\ order' = Tail(order)
    BY ZenonT(40), <1>2 DEF UnlockAnchorId
  <2>2. j \in Instances /\ run \in Seq(Continuation) /\ order' \in Seq(Instances)
    BY <1>2, <1>a, <2>1, HeadTailProperties
  <2>3. /\ \A n \in DOMAIN run : run[n].task \in Tasks
        /\ Len(run) \in Nat
    BY <2>2, <1>c
  <2>4. \A n : step(n) \in {"refreshing", "checking", "open"}
    OBVIOUS
  <2>5. called \subseteq Tasks
    BY <2>3
  <2> HIDE DEF called, step, j
  <2>6. inProgress' \in [Instances -> SUBSET Tasks]
    BY <2>1, <2>2, <2>5
  <2>7. continuations' \in [Instances -> Seq(Continuation)]
    <3>1. <<>> \in Seq(Continuation)
      OBVIOUS
    <3> QED
      BY <2>1, <2>2, <1>a, <3>1
  <2>8. ASSUME NEW t \in Tasks
        PROVE  /\ task'[t] \in Task
               /\ task'[t].inst = tasks[t].inst /\ task'[t].bar = tasks[t].bar
               /\ task'[t].wrote = tasks[t].wrote
               /\ \/ task'[t] = tasks[t]
                  \/ At(t, "waiting") /\ task'[t].pc \in {"refreshing", "checking", "open"}
               /\ Turn(t) = {} => task'[t] = tasks[t]
    <3>1. CASE Turn(t) = {}
      BY <3>1, <2>1
    <3>2. CASE Turn(t) # {}
      <4> DEFINE n == CHOOSE n \in Turn(t) : TRUE
      <4>1. n \in Turn(t)
        BY <3>2
      <4>2. n \in DOMAIN run /\ run[n].task = t
        BY <4>1, Zenon
      <4>4. task'[t] = [tasks[t] EXCEPT !.pc = step(n), !.virtual = n < Len(run)]
        BY <3>2, <2>1
      <4> HIDE DEF n
      <4>3. At(t, "waiting")
        <5>1. \A m \in DOMAIN continuations[j] : At(continuations[j][m].task, "waiting")
          BY <2>2 DEF StepsInOrder
        <5> QED
          BY <4>2, <5>1
      <4>5. tasks[t] \in Task
        OBVIOUS
      <4>6. step(n) \in {"refreshing", "checking", "open"} /\ step(n) \in Steps
        BY <2>4 DEF Steps
      <4>7. task'[t] \in Task
        <5>1. (n < Len(run)) \in BOOLEAN
          OBVIOUS
        <5>2. \A v \in BOOLEAN : [tasks[t] EXCEPT !.pc = step(n), !.virtual = v] \in Task
          BY <4>5, <4>6, StepTypes
        <5> QED
          BY <4>4, <5>1, <5>2, Zenon
      <4>8. /\ task'[t].inst = tasks[t].inst /\ task'[t].bar = tasks[t].bar
            /\ task'[t].wrote = tasks[t].wrote /\ task'[t].pc = step(n)
        BY <4>4, <4>5 DEF Task
      <4> QED
        BY <3>2, <4>3, <4>6, <4>7, <4>8
    <3> QED
      BY <3>1, <3>2
  <2>9. task' \in [Tasks -> Task]
    <3>1. DOMAIN task' = Tasks /\ task' = [t \in Tasks |-> task'[t]]
      BY <2>1
    <3> QED
      BY <3>1, <2>8
  <2>10. ASSUME NEW i \in Instances, NEW n \in DOMAIN continuations'[i]
         PROVE  /\ n \in DOMAIN continuations[i]
                /\ continuations'[i][n] = continuations[i][n]
                /\ task'[continuations[i][n].task] = tasks[continuations[i][n].task]
    <3>1. i # j /\ continuations'[i] = continuations[i]
      <4>1. \A m : m \notin DOMAIN <<>>
        OBVIOUS
      <4>2. continuations'[j] = <<>> /\ \A k \in Instances \ {j} : continuations'[k] = continuations[k]
        BY <2>1, <2>2, <1>a
      <4> QED
        BY <4>1, <4>2, Zenon
    <3> DEFINE t == continuations[i][n].task
    <3>2. t \in Tasks /\ InstanceOf(t) = i
      BY <3>1, <1>c DEF StepsInOrder
    <3>3. \A m \in DOMAIN run : InstanceOf(run[m].task) = j
      BY <2>2 DEF StepsInOrder
    <3>4. Turn(t) = {}
      BY <3>1, <3>2, <3>3
    <3> QED
      BY <3>1, <3>2, <3>4, <2>8
  <2> QED
    BY SMTT(40), <1>0, <1>2, <2>2, <2>6, <2>7, <2>8, <2>9, <2>10
<1> QED
  BY <1>1, <1>2

\* A task goes on to another step and nothing else is changed in it.
Moves(t, step) ==
    /\ task' \in [Tasks -> Task]
    /\ \A u \in Tasks : /\ task'[u].inst = task[u].inst /\ task'[u].bar = task[u].bar
                        /\ task'[u].wrote = task[u].wrote /\ task'[u].virtual = task[u].virtual
                        /\ task'[u].pc = IF u = t THEN step ELSE task[u].pc

LEMMA GotoEffect ==
    ASSUME TypeOK, NEW t \in Tasks, NEW s \in Steps, Goto(t, s)
    PROVE  Moves(t, s)
<1>1. task \in [Tasks -> Task] /\ task[t] \in Task
  BY DEF TypeOK
<1>2. task' = [task EXCEPT ![t] = [task[t] EXCEPT !.pc = s]]
  BY DEF Goto
<1>3. [task[t] EXCEPT !.pc = s] \in Task
  BY <1>1, StepTypes
<1> QED
  BY <1>1, <1>2, <1>3 DEF Moves, Task

\* A task waits.
LEMMA WaitEffect ==
    ASSUME TypeOK, NEW t \in Tasks, NEW call \in {"safeBegin", "init"}, Wait(t, call)
    PROVE  /\ Goto(t, "waiting")
           /\ continuations' \in [Instances -> Seq(Continuation)] /\ order' \in Seq(Instances)
           /\ \A i \in Instances : \A n \in DOMAIN continuations'[i] :
                 \/ n \in DOMAIN continuations[i] /\ continuations'[i][n] = continuations[i][n]
                 \/ i = InstanceOf(t) /\ continuations'[i][n].task = t
<1> DEFINE i == InstanceOf(t)
           c == [task |-> t, call |-> call]
           q == Append(continuations[i], c)
<1>1. /\ i \in Instances /\ c \in Continuation /\ continuations \in [Instances -> Seq(Continuation)]
      /\ order \in Seq(Instances) /\ c.task = t
  BY DEF TypeOK, Task, Continuation, InstanceOf
<1>2. /\ continuations' = [continuations EXCEPT ![i] = q]
      /\ order' = IF continuations[i] = <<>> THEN Append(order, i) ELSE order
      /\ Goto(t, "waiting")
  BY DEF Wait
<1> HIDE DEF i, c
<1>3. /\ q \in Seq(Continuation)
      /\ \A n \in DOMAIN q : \/ n \in DOMAIN continuations[i] /\ q[n] = continuations[i][n]
                             \/ q[n] = c
  BY <1>1, AppendProperties
<1> HIDE DEF q
<1>4. order' \in Seq(Instances)
  BY <1>1, <1>2, AppendProperties
<1>5. continuations' \in [Instances -> Seq(Continuation)]
  BY <1>1, <1>2, <1>3
<1>6. ASSUME NEW k \in Instances, NEW n \in DOMAIN continuations'[k]
      PROVE  \/ n \in DOMAIN continuations[k] /\ continuations'[k][n] = continuations[k][n]
             \/ k = i /\ continuations'[k][n].task = t
  <2>1. continuations'[k] = IF k = i THEN q ELSE continuations[k]
    BY <1>1, <1>2
  <2> QED
    BY <2>1, <1>3, <1>1
<1> QED
  BY <1>2, <1>4, <1>5, <1>6 DEF i

\* A closing call is answered.
LEMMA EndedEffect ==
    ASSUME TypeOK, NEW t \in Tasks, NEW failed \in BOOLEAN
    PROVE  /\ Ended(t, failed) \in [Tasks -> Task]
           /\ \A u \in Tasks :
                 LET e == Ended(t, failed)[u] IN
                 /\ e.inst = task[u].inst /\ e.bar = task[u].bar /\ e.wrote = task[u].wrote
                 /\ e.virtual = task[u].virtual
                 /\ e.pc = IF u # t THEN task[u].pc ELSE IF failed THEN "failed" ELSE "done"
<1> DEFINE s == IF failed THEN "failed" ELSE "done"
<1>1. task \in [Tasks -> Task] /\ task[t] \in Task /\ s \in Steps
  BY DEF TypeOK, Steps
<1>2. Ended(t, failed) = [task EXCEPT ![t] = [task[t] EXCEPT !.pc = s]]
  BY DEF Ended
<1> HIDE DEF s
<1>3. [task[t] EXCEPT !.pc = s] \in Task
  BY <1>1, StepTypes
<1>4. /\ Ended(t, failed) \in [Tasks -> Task]
      /\ \A u \in Tasks :
            LET e == Ended(t, failed)[u] IN
            /\ e.inst = task[u].inst /\ e.bar = task[u].bar /\ e.wrote = task[u].wrote
            /\ e.virtual = task[u].virtual
            /\ e.pc = IF u # t THEN task[u].pc ELSE s
  BY <1>1, <1>2, <1>3 DEF Task
<1> QED
  BY <1>4 DEF s

LEMMA FailedEffect ==
    ASSUME TypeOK, NEW t \in Tasks
    PROVE  /\ Ended(t, TRUE) \in [Tasks -> Task]
           /\ \A u \in Tasks :
                 LET e == Ended(t, TRUE)[u] IN
                 /\ e.inst = task[u].inst /\ e.bar = task[u].bar /\ e.wrote = task[u].wrote
                 /\ e.virtual = task[u].virtual
                 /\ e.pc = IF u = t THEN "failed" ELSE task[u].pc
<1> DEFINE s == "failed"
           tasks == Ended(t, TRUE)
<1>1. task \in [Tasks -> Task] /\ task[t] \in Task /\ s \in Steps
  BY DEF TypeOK, Steps
<1>2. tasks = [task EXCEPT ![t] = [task[t] EXCEPT !.pc = s]]
  BY DEF Ended
<1> HIDE DEF s, tasks
<1>3. [task[t] EXCEPT !.pc = s] \in Task
  BY <1>1, StepTypes
<1>4. /\ tasks \in [Tasks -> Task]
      /\ \A u \in Tasks :
            /\ tasks[u].inst = task[u].inst /\ tasks[u].bar = task[u].bar
            /\ tasks[u].wrote = task[u].wrote /\ tasks[u].virtual = task[u].virtual
            /\ tasks[u].pc = IF u = t THEN s ELSE task[u].pc
  BY <1>1, <1>2, <1>3 DEF Task
<1> QED
  BY <1>4, Zenon DEF s, tasks

\* The other instances are told that a batch was closed.
LEMMA NotifyEffect ==
    ASSUME TypeOK, StepsInOrder,
           NEW t \in Tasks, NEW failed \in BOOLEAN, NEW batches \in [Instances -> SUBSET Tasks],
           ~At(t, "waiting"), Notify(t, failed, batches)
    PROVE  /\ lock' \in Tasks \cup {None}
           /\ task' \in [Tasks -> Task] /\ inProgress' \in [Instances -> SUBSET Tasks]
           /\ continuations' \in [Instances -> Seq(Continuation)] /\ order' \in Seq(Instances)
           /\ loading' \subseteq [task: Tasks, inst: Instances]
           /\ \A u \in Tasks : /\ task'[u].inst = task[u].inst /\ task'[u].bar = task[u].bar
                               /\ task'[u].wrote = task[u].wrote
           /\ \A u \in Tasks : u # t =>
                 \/ task'[u].pc = task[u].pc
                 \/ At(u, "waiting") /\ task'[u].pc \in {"refreshing", "checking", "open"}
           /\ \/ task'[t].pc = "notifying" /\ lock' = t
              \/ task'[t].pc \in {"done", "failed"} /\ lock' = None
           /\ failed => task'[t].pc # "done"
           /\ \A l \in loading' : l \in loading \/ (l.task = t /\ task'[t].pc = "notifying")
           /\ \A i \in Instances : \A n \in DOMAIN continuations'[i] :
                 /\ n \in DOMAIN continuations[i]
                 /\ continuations'[i][n] = continuations[i][n]
                 /\ task'[continuations[i][n].task].pc = "waiting"
           /\ order = <<>> => /\ \A u \in Tasks : u # t => task'[u].pc = task[u].pc
                              /\ \A u \in Tasks : task'[u].virtual = task[u].virtual
                              /\ inProgress' = batches /\ order' = <<>>
<1>0. \A i \in Instances : \A n \in DOMAIN continuations[i] :
         /\ continuations[i][n].task \in Tasks
         /\ At(continuations[i][n].task, "waiting")
  <2>1. continuations \in [Instances -> Seq(Continuation)]
    BY DEF TypeOK
  <2>2. \A i \in Instances : \A n \in DOMAIN continuations[i] : continuations[i][n] \in Continuation
    BY <2>1, ElementOfSeq
  <2> QED
    BY <2>2 DEF StepsInOrder, Continuation
<1> DEFINE idle == {i \in Instances : batches[i] = {}}
<1>1. CASE idle = {}
  <2>1. UnlockAnchorId(Ended(t, failed), batches) /\ loading' = loading
    BY <1>1 DEF Notify
  <2> DEFINE tasks == Ended(t, failed)
  <2>2. /\ tasks \in [Tasks -> Task]
        /\ \A u \in Tasks :
              /\ tasks[u].inst = task[u].inst /\ tasks[u].bar = task[u].bar
              /\ tasks[u].wrote = task[u].wrote /\ tasks[u].virtual = task[u].virtual
              /\ tasks[u].pc = IF u # t THEN task[u].pc ELSE IF failed THEN "failed" ELSE "done"
    BY EndedEffect
  <2> HIDE DEF tasks
  <2>3. /\ lock' = None
        /\ task' \in [Tasks -> Task] /\ inProgress' \in [Instances -> SUBSET Tasks]
        /\ continuations' \in [Instances -> Seq(Continuation)] /\ order' \in Seq(Instances)
        /\ \A u \in Tasks :
              /\ task'[u].inst = tasks[u].inst /\ task'[u].bar = tasks[u].bar
              /\ task'[u].wrote = tasks[u].wrote
              /\ \/ task'[u] = tasks[u]
                 \/ At(u, "waiting") /\ task'[u].pc \in {"refreshing", "checking", "open"}
        /\ \A i \in Instances : \A n \in DOMAIN continuations'[i] :
              /\ n \in DOMAIN continuations[i]
              /\ continuations'[i][n] = continuations[i][n]
              /\ task'[continuations[i][n].task] = tasks[continuations[i][n].task]
        /\ order = <<>> => task' = tasks /\ inProgress' = batches /\ UNCHANGED waiting
    BY <2>1, <2>2, UnlockEffect DEF tasks
  <2>4. \A u \in Tasks : u # t =>
           \/ task'[u].pc = task[u].pc
           \/ At(u, "waiting") /\ task'[u].pc \in {"refreshing", "checking", "open"}
    BY <2>2, <2>3
  <2>5. task'[t].pc = IF failed THEN "failed" ELSE "done"
    BY <2>2, <2>3
  <2>6. ASSUME NEW i \in Instances, NEW n \in DOMAIN continuations'[i]
        PROVE  /\ n \in DOMAIN continuations[i]
               /\ continuations'[i][n] = continuations[i][n]
               /\ task'[continuations[i][n].task].pc = "waiting"
    <3>1. n \in DOMAIN continuations[i] /\ continuations'[i][n] = continuations[i][n]
      BY <2>3
    <3> DEFINE u == continuations[i][n].task
    <3>2. u \in Tasks /\ task[u].pc = "waiting" /\ u # t
      BY <3>1, <1>0 DEF At
    <3>3. task'[u].pc = "waiting"
      BY <3>1, <3>2, <2>2, <2>3
    <3> QED
      BY <3>1, <3>3 DEF At
  <2>7. order = <<>> => /\ \A u \in Tasks : u # t => task'[u].pc = task[u].pc
                        /\ \A u \in Tasks : task'[u].virtual = task[u].virtual
                        /\ inProgress' = batches /\ order' = <<>>
    BY <2>2, <2>3 DEF waiting
  <2>8. /\ lock' \in Tasks \cup {None}
        /\ loading' \subseteq [task: Tasks, inst: Instances]
        /\ \A l \in loading' : l \in loading \/ (l.task = t /\ task'[t].pc = "notifying")
    BY <2>1, <2>3 DEF TypeOK
  <2>9. \A u \in Tasks : /\ task'[u].inst = task[u].inst /\ task'[u].bar = task[u].bar
                         /\ task'[u].wrote = task[u].wrote
    BY <2>2, <2>3
  <2>10. task'[t].pc \in {"done", "failed"} /\ lock' = None
    BY <2>3, <2>5
  <2>11. failed => task'[t].pc # "done"
    BY <2>5
  <2> QED
    BY <2>3, <2>4, <2>6, <2>7, <2>8, <2>9, <2>10, <2>11
<1>2. CASE idle # {}
  <2>1. /\ lock' = t
        /\ loading' = loading \cup {[task |-> t, inst |-> i] : i \in idle}
        /\ task' = [task EXCEPT ![t] = [task[t] EXCEPT !.pc = "notifying", !.failed = failed]]
        /\ inProgress' = batches
        /\ continuations' = continuations /\ order' = order
    BY <1>2 DEF Notify, waiting
  <2>2. task \in [Tasks -> Task] /\ task[t] \in Task /\ "notifying" \in Steps
    BY DEF TypeOK, Steps, Closing
  <2>3. [task[t] EXCEPT !.pc = "notifying", !.failed = failed] \in Task
    BY <2>2, StepTypes
  <2>4. /\ task' \in [Tasks -> Task]
        /\ \A u \in Tasks : /\ task'[u].inst = task[u].inst /\ task'[u].bar = task[u].bar
                            /\ task'[u].wrote = task[u].wrote
                            /\ task'[u].virtual = task[u].virtual
                            /\ task'[u].pc = IF u = t THEN "notifying" ELSE task[u].pc
    BY <2>1, <2>2, <2>3 DEF Task
  <2>5. loading' \subseteq [task: Tasks, inst: Instances]
    BY <2>1 DEF TypeOK
  <2>6. \A l \in loading' : l \in loading \/ l.task = t
    BY <2>1
  <2>7. ASSUME NEW i \in Instances, NEW n \in DOMAIN continuations'[i]
        PROVE  task'[continuations[i][n].task].pc = "waiting"
    BY <1>0, <2>1, <2>4 DEF At
  <2> QED
    BY <2>1, <2>4, <2>5, <2>6, <2>7 DEF TypeOK
<1> QED
  BY <1>1, <1>2

-----------------------------------------------------------------------------
(* The actions *)

LEMMA Typing ==
    ASSUME TypeOK
    PROVE  /\ \A t \in Tasks : /\ task[t] \in Task /\ InstanceOf(t) \in Instances
                               /\ task[t].bar \in DOMAIN bars[InstanceOf(t)]
                               /\ task[t].wrote \in BOOLEAN /\ task[t].failed \in BOOLEAN
           /\ \A i \in Instances :
                 /\ bars[i] \in Seq(Bar) /\ Len(bars[i]) \in DOMAIN bars[i]
                 /\ \A n \in DOMAIN bars[i] : bars[i][n] \in Bar
                 /\ CurrentBar(i) = bars[i][Len(bars[i])] /\ CurrentBar(i) \in Bar
           /\ \A i \in Instances : \A n \in DOMAIN continuations[i] :
                 continuations[i][n].task \in Tasks
<1>1. \A t \in Tasks : /\ task[t] \in Task /\ InstanceOf(t) \in Instances
                       /\ task[t].bar \in DOMAIN bars[InstanceOf(t)]
                       /\ task[t].wrote \in BOOLEAN /\ task[t].failed \in BOOLEAN
  BY DEF TypeOK, Task, InstanceOf
<1>2. \A i \in Instances : bars[i] \in Seq(Bar) /\ bars[i] # <<>>
  BY DEF TypeOK
<1>3. \A i \in Instances : Len(bars[i]) \in DOMAIN bars[i]
  BY <1>2
<1>4. \A i \in Instances : \A n \in DOMAIN bars[i] : bars[i][n] \in Bar
  BY <1>2, ElementOfSeq
<1>5. \A i \in Instances : \A n \in DOMAIN continuations[i] : continuations[i][n] \in Continuation
  BY ElementOfSeq DEF TypeOK
<1> QED
  BY <1>1, <1>2, <1>3, <1>4, <1>5 DEF CurrentBar, Last, Continuation

\* The order of steps is kept by a step of a task that neither waits nor notifies.
LEMMA StepsKept ==
    ASSUME TypeOK, StepsInOrder, NEW t \in Tasks,
           task[t].pc \notin {"waiting", "notifying"},
           \A u \in Tasks : task'[u].inst = task[u].inst,
           \A u \in Tasks : u # t =>
                 /\ task'[u].wrote = task[u].wrote
                 /\ \/ task'[u].pc = task[u].pc
                    \/ At(u, "waiting") /\ task'[u].pc \in {"refreshing", "checking", "open"},
           task'[t].pc \in {"idle", "waiting"} \cup Opening => ~task'[t].wrote,
           \A i \in Instances : \A n \in DOMAIN continuations'[i] :
              \/ /\ n \in DOMAIN continuations[i] /\ continuations'[i][n] = continuations[i][n]
                 /\ task'[continuations[i][n].task].pc = "waiting"
              \/ i = InstanceOf(t) /\ continuations'[i][n].task = t /\ task'[t].pc = "waiting",
           \A l \in loading' : l \in loading \/ (l.task = t /\ task'[t].pc = "notifying"),
           faults' = 0 => faults = 0
    PROVE  StepsInOrder'
<1>1. ASSUME NEW i \in Instances, NEW n \in DOMAIN continuations'[i]
      PROVE  LET u == continuations'[i][n].task IN task'[u].pc = "waiting" /\ task'[u].inst = i
  <2>1. CASE n \in DOMAIN continuations[i] /\ continuations'[i][n] = continuations[i][n]
             /\ task'[continuations[i][n].task].pc = "waiting"
    <3> DEFINE u == continuations[i][n].task
    <3>1. u \in Tasks
      BY <2>1, Typing
    <3>2. InstanceOf(u) = i
      BY <2>1 DEF StepsInOrder
    <3> QED
      BY <2>1, <3>1, <3>2 DEF InstanceOf
  <2>2. CASE i = InstanceOf(t) /\ continuations'[i][n].task = t /\ task'[t].pc = "waiting"
    BY <2>2 DEF InstanceOf
  <2> QED
    BY <2>1, <2>2
<1>2. ASSUME NEW u \in Tasks, task'[u].pc \in {"idle", "waiting"} \cup Opening
      PROVE  ~task'[u].wrote
  BY <1>2 DEF StepsInOrder, At, Opening
<1>3. ASSUME faults' = 0, NEW l \in loading'
      PROVE  At(l.task, "notifying")'
  <2>1. CASE l.task = t /\ task'[t].pc = "notifying"
    BY <2>1 DEF At
  <2>2. CASE l \in loading
    <3>1. l.task \in Tasks /\ task[l.task].pc = "notifying"
      BY <1>3, <2>2 DEF StepsInOrder, At, TypeOK
    <3> QED
      BY <3>1 DEF At
  <2> QED
    BY <1>3, <2>1, <2>2
<1> QED
  BY <1>1, <1>2, <1>3 DEF StepsInOrder, At, InstanceOf

\* What is so as long as callers are careful.
LEMMA CarefulNow ==
    ASSUME Inv, ~careless, faults <= 1
    PROVE  /\ order = <<>>
           /\ \A u \in Tasks : /\ task[u].pc \notin {"waiting", "cancelling"} /\ ~task[u].virtual
                               /\ task[u].pc \in Closing => lock = u
           /\ \A u, v \in Tasks : task[u].pc \in Opening /\ task[v].pc \in Opening => u = v
           /\ \A u \in Tasks : task[u].pc \in Opening => lock = None
           /\ \A u \in Tasks : task[u].pc \in Opening => \A i \in Instances : inProgress[i] = {}
           /\ lock # None => \A i \in Instances : inProgress[i] = {}
           /\ \A u \in Tasks, i \in Instances :
                 u \in inProgress[i] <=> task[u].pc = "open" /\ task[u].inst = i
           /\ \A i, j \in Instances : inProgress[i] # {} /\ inProgress[j] # {} => i = j
           /\ \A i \in Instances : CurrentBar(i).batch =>
                 \/ inProgress[i] # {}
                 \/ \E u \in Tasks : task[u].pc \in Committing /\ task[u].inst = i
                                  /\ task[u].bar = Len(bars[i])
<1>1. ~(faults > 1)
  BY DEF Inv, TypeOK
<1>2. /\ order = <<>>
      /\ \A u \in Tasks : ~At(u, "waiting") /\ ~At(u, "cancelling") /\ ~task[u].virtual
      /\ \A u, v \in Tasks : task[u].pc \in Opening /\ task[v].pc \in Opening => u = v
      /\ \A u \in Tasks : task[u].pc \in Opening => lock = None /\ ~BatchInProgress
      /\ lock # None => ~BatchInProgress
  BY <1>1 DEF Inv, OneAtATime
<1>3. /\ \A u \in Tasks, i \in Instances :
            u \in inProgress[i] <=> At(u, "open") /\ InstanceOf(u) = i
      /\ \A i, j \in Instances : inProgress[i] # {} /\ inProgress[j] # {} => i = j
      /\ \A i \in Instances : CurrentBar(i).batch =>
            \/ inProgress[i] # {}
            \/ \E u \in Tasks : task[u].pc \in Committing /\ InstanceOf(u) = i /\ task[u].bar = Len(bars[i])
  BY <1>1 DEF Inv, OneAtATime
<1>4. \A u \in Tasks : task[u].pc \in Closing => lock = u
  BY <1>1 DEF Inv, LockIsHeld
<1> QED
  BY <1>2, <1>3, <1>4 DEF At, InstanceOf, BatchInProgress

LEMMA CarefulNext ==
    ASSUME \/ careless'
           \/ faults' > 1
           \/ /\ order' = <<>>
              /\ \A u \in Tasks : /\ task'[u].pc \notin {"waiting", "cancelling"}
                                  /\ ~task'[u].virtual
              /\ \A u, v \in Tasks : task'[u].pc \in Opening /\ task'[v].pc \in Opening => u = v
              /\ \A u \in Tasks : task'[u].pc \in Opening => lock' = None
              /\ \A u \in Tasks : task'[u].pc \in Opening => \A i \in Instances : inProgress'[i] = {}
              /\ lock' # None => \A i \in Instances : inProgress'[i] = {}
              /\ \A u \in Tasks, i \in Instances :
                    u \in inProgress'[i] <=> task'[u].pc = "open" /\ task'[u].inst = i
              /\ \A i, j \in Instances : inProgress'[i] # {} /\ inProgress'[j] # {} => i = j
              /\ \A i \in Instances : CurrentBar(i).batch' =>
                    \/ inProgress'[i] # {}
                    \/ \E u \in Tasks : task'[u].pc \in Committing /\ task'[u].inst = i
                                                /\ task'[u].bar = Len(bars'[i])
    PROVE  OneAtATime'
<1>1. CASE careless' \/ faults' > 1
  BY <1>1 DEF OneAtATime
<1> SUFFICES ASSUME ~careless', ~(faults' > 1) PROVE OneAtATime'
  BY <1>1
<1>2. /\ order' = <<>>
      /\ \A u \in Tasks : ~(task'[u].pc = "waiting") /\ ~(task'[u].pc = "cancelling") /\ ~task'[u].virtual
      /\ \A u, v \in Tasks : task'[u].pc \in Opening /\ task'[v].pc \in Opening => u = v
      /\ \A u \in Tasks : task'[u].pc \in Opening => lock' = None /\ ~BatchInProgress'
      /\ lock' # None => ~BatchInProgress'
  BY DEF BatchInProgress
<1>3. /\ \A u \in Tasks, i \in Instances :
            u \in inProgress'[i] <=> task'[u].pc = "open" /\ task'[u].inst = i
      /\ \A i, j \in Instances : inProgress'[i] # {} /\ inProgress'[j] # {} => i = j
      /\ \A i \in Instances : CurrentBar(i).batch' =>
            \/ inProgress'[i] # {}
            \/ \E u \in Tasks : task'[u].pc \in Committing /\ task'[u].inst = i /\ task'[u].bar = Len(bars'[i])
  OBVIOUS
<1> QED
  BY <1>2, <1>3 DEF OneAtATime, At, InstanceOf

\* What is so as long as nothing has failed either.
LEMMA KeptNow ==
    ASSUME Inv, ~careless, faults = 0
    PROVE  /\ \A u \in Tasks : task[u].pc = "open" => CurrentBar(InstanceOf(u)).batch
           /\ \A u \in Tasks : task[u].pc \in Committing => task[u].bar = Len(bars[InstanceOf(u)])
           /\ \A u \in Tasks : task[u].pc = "anchored" => CurrentBar(InstanceOf(u)).writes = {}
           /\ \A u \in Tasks : /\ task[u].pc \in Committing \cup {"open", "notifying", "done"}
                               /\ task[u].wrote
                               => Kept(u)
  BY DEF Inv, BarsAreCommitted, At

LEMMA KeptNext ==
    ASSUME \A u \in Tasks : InstanceOf(u)' = InstanceOf(u),
           \/ careless'
           \/ faults' # 0
           \/ /\ \A u \in Tasks : task'[u].pc = "open" => CurrentBar(InstanceOf(u)).batch'
              /\ \A u \in Tasks : task'[u].pc \in Committing => task'[u].bar = Len(bars'[InstanceOf(u)])
              /\ \A u \in Tasks : task'[u].pc = "anchored" => CurrentBar(InstanceOf(u)).writes' = {}
              /\ \A u \in Tasks : /\ task'[u].pc \in Committing \cup {"open", "notifying", "done"}
                                  /\ task'[u].wrote
                                  => Kept(u)'
    PROVE  BarsAreCommitted'
  BY DEF BarsAreCommitted, At

LEMMA InitInv == Init => Inv
<1> SUFFICES ASSUME Init PROVE Inv
  OBVIOUS
<1>1. LoadedBar \in Bar /\ <<LoadedBar>> \in Seq(Bar) /\ <<LoadedBar>> # <<>> /\ 1 \in DOMAIN <<LoadedBar>>
      /\ Len(<<LoadedBar>>) = 1 /\ <<LoadedBar>>[1] = LoadedBar
  BY DEF LoadedBar, Bar
<1>2. PICK inst \in [Tasks -> Instances] :
         task = [t \in Tasks |->
                    [pc |-> "idle", inst |-> inst[t], virtual |-> FALSE, bar |-> 1,
                     failed |-> FALSE, wrote |-> FALSE]]
  BY DEF Init
<1>3. task \in [Tasks -> Task]
  BY <1>2 DEF Task, Steps
<1>4. TypeOK
  <2>1. \A i \in Instances : bars[i] = <<LoadedBar>>
    BY DEF Init
  <2>2. \A t \in Tasks : task[t].bar = 1 /\ task[t].inst \in Instances
    BY <1>2
  <2>3. bars \in [Instances -> Seq(Bar)]
    BY <1>1 DEF Init
  <2>4. continuations \in [Instances -> Seq(Continuation)] /\ order \in Seq(Instances)
    BY DEF Init
  <2>5. /\ \A t \in Tasks : task[t].bar \in DOMAIN bars[task[t].inst]
        /\ \A i \in Instances : bars[i] # <<>>
    BY <1>1, <2>1, <2>2
  <2>6. inProgress \in [Instances -> SUBSET Tasks] /\ lock \in Tasks \cup {None}
    BY DEF Init
  <2>7. /\ loading \subseteq [task: Tasks, inst: Instances] /\ anchored \subseteq Tasks
        /\ careless \in BOOLEAN
    BY DEF Init
  <2>8. faults \in 0..MaxFaults
    BY DEF Init
  <2> QED
    BY <1>3, <2>3, <2>4, <2>5, <2>6, <2>7, <2>8 DEF TypeOK
<1>5. \A i \in Instances : ~CurrentBar(i).batch
  BY <1>1 DEF Init, CurrentBar, Last, LoadedBar
<1>6. \A t \in Tasks : task[t].pc = "idle" /\ ~task[t].wrote
  BY <1>2
<1>7. StepsInOrder /\ LockIsHeld
  BY <1>6 DEF Init, StepsInOrder, LockIsHeld, Closing
<1>8. OneAtATime
  BY <1>5, <1>6 DEF Init, OneAtATime, At, Opening, BatchInProgress
<1>9. BarsAreCommitted
  BY <1>6 DEF BarsAreCommitted, At, Committing
<1> QED
  BY <1>4, <1>7, <1>8, <1>9 DEF Inv

\* The steps that leave the others where they are keep the order.
LEMMA MoveKeepsSteps ==
    ASSUME TypeOK, StepsInOrder, NEW t \in Tasks, NEW s, Moves(t, s),
           task[t].pc \notin {"waiting", "notifying"}, s # "notifying",
           s \in {"idle", "waiting"} \cup Opening => ~task[t].wrote,
           UNCHANGED <<waiting, loading>>, faults' = 0 => faults = 0
    PROVE  StepsInOrder'
<1>1. continuations' = continuations /\ loading' = loading
  BY DEF waiting
<1>2. \A i \in Instances : \A n \in DOMAIN continuations[i] :
         task'[continuations[i][n].task].pc = "waiting"
  BY Typing DEF StepsInOrder, At, Moves
<1> QED
  BY <1>1, <1>2, StepsKept DEF Moves

LEMMA WaitKeepsSteps ==
    ASSUME TypeOK, StepsInOrder, NEW t \in Tasks, NEW call \in {"safeBegin", "init"},
           Wait(t, call), task[t].pc \notin {"waiting", "notifying"}, ~task[t].wrote,
           UNCHANGED loading, faults' = 0 => faults = 0
    PROVE  /\ StepsInOrder' /\ Moves(t, "waiting")
           /\ continuations' \in [Instances -> Seq(Continuation)] /\ order' \in Seq(Instances)
<1>1. /\ Goto(t, "waiting")
      /\ continuations' \in [Instances -> Seq(Continuation)] /\ order' \in Seq(Instances)
      /\ \A j \in Instances : \A n \in DOMAIN continuations'[j] :
            \/ n \in DOMAIN continuations[j] /\ continuations'[j][n] = continuations[j][n]
            \/ j = InstanceOf(t) /\ continuations'[j][n].task = t
  BY WaitEffect
<1>2. Moves(t, "waiting")
  BY <1>1, GotoEffect DEF Steps
<1>3. ASSUME NEW j \in Instances, NEW n \in DOMAIN continuations'[j]
      PROVE  \/ /\ n \in DOMAIN continuations[j]
                /\ continuations'[j][n] = continuations[j][n]
                /\ task'[continuations[j][n].task].pc = "waiting"
             \/ j = InstanceOf(t) /\ continuations'[j][n].task = t /\ task'[t].pc = "waiting"
  <2>1. \A k \in Instances : \A m \in DOMAIN continuations[k] :
           task'[continuations[k][m].task].pc = "waiting"
    BY <1>2, Typing DEF StepsInOrder, At, Moves
  <2>2. task'[t].pc = "waiting"
    BY <1>2 DEF Moves
  <2> QED
    BY <1>1, <2>1, <2>2
<1>4. StepsInOrder'
  BY <1>2, <1>3, StepsKept DEF Moves
<1> QED
  BY <1>1, <1>2, <1>4

\* A task that goes to a step where it closes no batch leaves the lock to who closes one.
LEMMA MoveKeepsLock ==
    ASSUME LockIsHeld, NEW t \in Tasks, NEW s, Moves(t, s), s \notin Closing,
           UNCHANGED lock, faults' > 1 \/ ~(faults > 1)
    PROVE  LockIsHeld'
  BY DEF LockIsHeld, Moves

\* A batch is asked for.
LEMMA SafeBeginBatchInv ==
    ASSUME Inv, NEW t \in Tasks, SafeBeginBatch(t)
    PROVE  Inv'
<1> DEFINE i == InstanceOf(t)
<1>1. /\ task[t].pc = "idle" /\ i \in Instances /\ ~task[t].wrote /\ i = task[t].inst
      /\ UNCHANGED <<bars, lock, loading, anchored, faults>>
      /\ \A j \in Instances : CurrentBar(j)' = CurrentBar(j)
      /\ faults \in Nat
  BY Typing DEF SafeBeginBatch, At, Inv, StepsInOrder, CurrentBar, InstanceOf, TypeOK
<1>2. ~careless' => /\ ~careless /\ lock = None /\ task'[t].pc # "waiting"
                    /\ \A u \in Tasks : task[u].pc \notin Opening
  BY DEF SafeBeginBatch, At, Opening
<1>3. careless' \in BOOLEAN
  BY DEF SafeBeginBatch, Inv, TypeOK
<1>4. \/ /\ Goto(t, "open") /\ CurrentBar(i).batch /\ UNCHANGED waiting
         /\ inProgress' = [inProgress EXCEPT ![i] = @ \cup {t}]
      \/ Wait(t, "safeBegin") /\ UNCHANGED inProgress
      \/ Goto(t, "failed") /\ UNCHANGED <<inProgress, waiting>>
      \/ Goto(t, "refreshing") /\ ~BatchInProgress /\ UNCHANGED <<inProgress, waiting>>
  BY DEF SafeBeginBatch, StartVirtualBatch
<1>5. CASE Wait(t, "safeBegin") /\ UNCHANGED inProgress
  <2>1. /\ StepsInOrder' /\ Moves(t, "waiting")
        /\ continuations' \in [Instances -> Seq(Continuation)] /\ order' \in Seq(Instances)
    BY <1>1, <1>5, WaitKeepsSteps DEF Inv
  <2>2. TypeOK'
    BY <1>1, <1>3, <1>5, <2>1 DEF Inv, TypeOK, Moves
  <2>3. LockIsHeld'
    BY <1>1, <2>1, MoveKeepsLock DEF Inv, Closing
  <2>4. careless'
    BY <1>2, <2>1 DEF Moves
  <2> QED
    BY <2>1, <2>2, <2>3, <2>4 DEF Inv, OneAtATime, BarsAreCommitted
<1>6. ASSUME NEW s \in {"open", "failed", "refreshing"}, Goto(t, s), UNCHANGED waiting,
             s = "open" => CurrentBar(i).batch,
             s = "refreshing" => ~BatchInProgress,
             inProgress' = IF s = "open" THEN [inProgress EXCEPT ![i] = @ \cup {t}]
                           ELSE inProgress
      PROVE  Inv'
  <2>1. Moves(t, s)
    BY <1>6, GotoEffect DEF Inv, Steps
  <2>2. /\ inProgress' \in [Instances -> SUBSET Tasks]
        /\ \A j \in Instances :
              inProgress'[j] = IF j = i /\ s = "open" THEN inProgress[i] \cup {t} ELSE inProgress[j]
        /\ continuations' = continuations /\ order' = order
    BY <1>6, <1>1 DEF Inv, TypeOK, waiting
  <2> HIDE DEF i
  <2>3. TypeOK'
    BY <1>1, <1>3, <2>1, <2>2 DEF Inv, TypeOK, Moves
  <2>4. LockIsHeld'
    BY <1>1, <1>6, <2>1, MoveKeepsLock DEF Inv, Closing
  <2>5. StepsInOrder'
    BY <1>1, <1>6, <2>1, MoveKeepsSteps DEF Inv
  <2>6. OneAtATime'
    <3> SUFFICES ASSUME ~careless', ~(faults' > 1) PROVE OneAtATime'
      BY DEF OneAtATime
    <3>1. ~careless /\ faults <= 1 /\ lock = None /\ lock' = None
          /\ \A u \in Tasks : task[u].pc \notin Opening
      BY <1>1, <1>2
    <3>2. \A u \in Tasks : task'[u].pc \notin {"waiting", "cancelling"} /\ ~task'[u].virtual
      BY <1>6, <2>1, <3>1, CarefulNow DEF Moves
    <3>3. \A u, v \in Tasks : task'[u].pc \in Opening /\ task'[v].pc \in Opening => u = v
      BY <2>1, <3>1 DEF Moves
    <3>4. \A u \in Tasks : task'[u].pc \in Opening => \A j \in Instances : inProgress'[j] = {}
      BY <1>6, <2>1, <2>2, <3>1 DEF Moves, Opening, BatchInProgress
    <3>5. \A u \in Tasks, j \in Instances :
             u \in inProgress'[j] <=> task'[u].pc = "open" /\ task'[u].inst = j
      BY <1>1, <1>6, <2>1, <2>2, <3>1, CarefulNow DEF Moves
    <3>6. CurrentBar(i).batch => inProgress[i] # {}
      BY <1>1, <3>1, CarefulNow DEF Committing, Closing
    <3>7. \A j, k \in Instances : inProgress'[j] # {} /\ inProgress'[k] # {} => j = k
      BY <1>1, <1>6, <2>2, <3>1, <3>6, CarefulNow
    <3>8. \A j \in Instances : CurrentBar(j)'.batch => inProgress'[j] # {}
      BY <1>1, <1>6, <2>2, <3>1, CarefulNow DEF Committing, Closing
    <3>9. order' = <<>>
      BY <2>2, <3>1, CarefulNow
    <3> QED
      BY <3>1, <3>2, <3>3, <3>4, <3>5, <3>7, <3>8, <3>9, CarefulNext
  <2>7. BarsAreCommitted'
    <3> SUFFICES ASSUME ~careless', faults' = 0 PROVE BarsAreCommitted'
      BY DEF BarsAreCommitted
    <3>1. \A u \in Tasks : Kept(u) => Kept(u)'
      BY <1>1 DEF Kept
    <3>2. \A u \in Tasks : InstanceOf(u)' = InstanceOf(u) /\ InstanceOf(u) \in Instances
      BY <2>1, Typing DEF InstanceOf, Inv, Moves
    <3>3. ~careless /\ faults = 0
      BY <1>1, <1>2
    <3> QED
      BY <1>1, <1>6, <2>1, <3>1, <3>2, <3>3, KeptNow, KeptNext DEF Moves, Committing, i
  <2> QED
    BY <2>3, <2>4, <2>5, <2>6, <2>7 DEF Inv
<1> QED
  BY <1>4, <1>5, <1>6

\* What a careful task that opens its batch finds.
LEMMA Alone ==
    ASSUME Inv, ~careless, faults <= 1, NEW t \in Tasks, task[t].pc \in Opening
    PROVE  /\ lock = None /\ order = <<>>
           /\ \A i \in Instances : inProgress[i] = {} /\ ~CurrentBar(i).batch
           /\ \A u \in Tasks : /\ task[u].pc \notin Closing \cup {"open", "waiting"}
                               /\ task[u].pc \in Opening => u = t
                               /\ ~task[u].virtual
<1>1. /\ order = <<>> /\ lock = None
      /\ \A i \in Instances : inProgress[i] = {}
  BY CarefulNow
<1>2. \A u \in Tasks : /\ task[u].pc \notin Closing \cup {"waiting"} /\ ~task[u].virtual
                       /\ task[u].pc \in Opening => u = t
  BY <1>1, CarefulNow
<1>3. \A u \in Tasks : task[u].pc # "open"
  <2>1. \A u \in Tasks : task[u].inst \in Instances
    BY Typing DEF Inv, InstanceOf
  <2> QED
    BY <1>1, <2>1, CarefulNow
<1>4. \A i \in Instances : ~CurrentBar(i).batch
  BY <1>1, <1>2, CarefulNow DEF Committing, Closing
<1> QED
  BY <1>1, <1>2, <1>3, <1>4

\* A refresh ends.
LEMMA RefreshedInv ==
    ASSUME Inv, NEW t \in Tasks, Refreshed(t), UNCHANGED careless
    PROVE  Inv'
<1> DEFINE i == InstanceOf(t)
<1>1. /\ task[t].pc = "refreshing" /\ i \in Instances /\ ~task[t].wrote /\ i = task[t].inst
      /\ UNCHANGED <<lock, loading, anchored, careless>>
      /\ faults \in Nat /\ faults <= MaxFaults
  BY Typing DEF Refreshed, At, Inv, StepsInOrder, Opening, InstanceOf, TypeOK
<1>2. ASSUME ~careless, faults <= 1
      PROVE  /\ lock = None /\ order = <<>>
             /\ \A j \in Instances : inProgress[j] = {} /\ ~CurrentBar(j).batch
             /\ \A u \in Tasks : /\ task[u].pc \notin Closing \cup {"open", "waiting"}
                                 /\ task[u].pc \in Opening => u = t
                                 /\ ~task[u].virtual
  BY <1>1, <1>2, Alone DEF Opening
<1>3. \/ /\ Reload(i) /\ UNCHANGED faults
         /\ \/ lock # None /\ Wait(t, "init") /\ UNCHANGED inProgress
            \/ /\ Goto(t, "open") /\ task[t].virtual /\ UNCHANGED waiting
               /\ inProgress' = [inProgress EXCEPT ![i] = @ \cup {t}]
            \/ Goto(t, "checking") /\ UNCHANGED <<inProgress, waiting>>
      \/ /\ Goto(t, "failed") /\ UNCHANGED <<bars, inProgress, waiting>>
         /\ faults < MaxFaults /\ faults' = faults + 1
  BY DEF Refreshed, BeginBatch, StartVirtualBatch, Fault
<1>4. /\ bars' \in [Instances -> Seq(Bar)]
      /\ \A j \in Instances : bars'[j] # <<>> /\ DOMAIN bars[j] \subseteq DOMAIN bars'[j]
      /\ ~careless /\ faults <= 1 => \A j \in Instances : ~CurrentBar(j)'.batch
      /\ faults' \in 0..MaxFaults /\ faults <= faults'
  <2>1. CASE Reload(i) /\ UNCHANGED faults
    <3>1. /\ bars' \in [Instances -> Seq(Bar)]
          /\ \A j \in Instances :
                /\ bars'[j] # <<>>
                /\ DOMAIN bars[j] \subseteq DOMAIN bars'[j]
                /\ CurrentBar(j)' = IF j = i THEN LoadedBar ELSE CurrentBar(j)
      BY <1>1, <2>1, ReloadEffect DEF Inv
    <3> QED
      BY <2>1, <3>1, <1>1, <1>2 DEF LoadedBar
  <2>2. CASE UNCHANGED bars /\ faults < MaxFaults /\ faults' = faults + 1
    BY <1>1, <2>2, <1>2 DEF Inv, TypeOK, CurrentBar
  <2> QED
    BY <1>3, <2>1, <2>2
<1>5. CASE lock # None /\ Wait(t, "init") /\ UNCHANGED <<inProgress, faults>>
  <2>1. /\ StepsInOrder' /\ Moves(t, "waiting")
        /\ continuations' \in [Instances -> Seq(Continuation)] /\ order' \in Seq(Instances)
    BY <1>1, <1>5, WaitKeepsSteps DEF Inv
  <2>2. TypeOK'
    BY <1>1, <1>4, <1>5, <2>1, Typing DEF Inv, TypeOK, Moves, InstanceOf
  <2>3. LockIsHeld'
    BY <1>1, <1>5, <2>1, MoveKeepsLock DEF Inv, Closing
  <2>4. careless \/ faults > 1
    BY <1>1, <1>2, <1>5
  <2>5. OneAtATime'
    BY <1>1, <1>5, <2>4 DEF OneAtATime
  <2>6. BarsAreCommitted'
    BY <1>1, <1>5, <2>4 DEF BarsAreCommitted
  <2> QED
    BY <2>1, <2>2, <2>3, <2>5, <2>6 DEF Inv
<1>6. ASSUME NEW s \in {"open", "checking", "failed"}, Goto(t, s), UNCHANGED waiting,
             s = "open" => task[t].virtual,
             inProgress' = IF s = "open" THEN [inProgress EXCEPT ![i] = @ \cup {t}]
                           ELSE inProgress
      PROVE  Inv'
  <2>1. Moves(t, s)
    BY <1>6, GotoEffect DEF Inv, Steps
  <2>2. /\ inProgress' \in [Instances -> SUBSET Tasks]
        /\ s # "open" => inProgress' = inProgress
        /\ continuations' = continuations /\ order' = order
    BY <1>6, <1>1 DEF Inv, TypeOK, waiting
  <2> HIDE DEF i
  <2>3. TypeOK'
    BY <1>1, <1>4, <2>1, <2>2, Typing DEF Inv, TypeOK, Moves, InstanceOf
  <2>4. LockIsHeld'
    BY <1>1, <1>4, <1>6, <2>1, MoveKeepsLock DEF Inv, Closing
  <2>5. StepsInOrder'
    BY <1>1, <1>4, <1>6, <2>1, MoveKeepsSteps DEF Inv
  <2>6. OneAtATime'
    <3> SUFFICES ASSUME ~careless', ~(faults' > 1) PROVE OneAtATime'
      BY DEF OneAtATime
    <3>1. ~careless /\ faults <= 1
      BY <1>1, <1>4
    <3>2. s # "open" /\ inProgress' = inProgress /\ lock' = None /\ order' = <<>>
      BY <1>1, <1>2, <1>6, <2>2, <3>1
    <3>3. \A u \in Tasks : /\ task'[u].pc \notin {"waiting", "cancelling", "open"}
                           /\ ~task'[u].virtual
                           /\ task'[u].pc \in Opening => u = t
      BY <1>2, <1>6, <2>1, <3>1, <3>2 DEF Moves, Closing, Opening
    <3>4. \A j \in Instances : inProgress'[j] = {} /\ ~CurrentBar(j)'.batch
      BY <1>2, <1>4, <3>1, <3>2
    <3> QED
      BY <3>2, <3>3, <3>4, CarefulNext
  <2>7. BarsAreCommitted'
    <3> SUFFICES ASSUME ~careless', faults' = 0 PROVE BarsAreCommitted'
      BY DEF BarsAreCommitted
    <3>1. ~careless /\ faults = 0
      BY <1>1, <1>4
    <3>2. s # "open"
      BY <1>1, <1>2, <1>6, <3>1
    <3>3. \A u \in Tasks : task'[u].pc \notin Committing \cup {"open", "notifying"}
      BY <1>2, <1>6, <2>1, <3>1, <3>2 DEF Moves, Committing, Closing
    <3>4. \A u \in Tasks : Kept(u) => Kept(u)'
      BY <1>1, <1>2, <3>1 DEF Kept
    <3>5. \A u \in Tasks : InstanceOf(u)' = InstanceOf(u)
      BY <2>1 DEF Moves, InstanceOf
    <3> QED
      BY <1>6, <2>1, <3>1, <3>2, <3>3, <3>4, <3>5, KeptNow, KeptNext DEF Moves, Committing
  <2> QED
    BY <2>3, <2>4, <2>5, <2>6, <2>7 DEF Inv
<1> QED
  BY <1>3, <1>5, <1>6

\* A batch of the bar is begun.
LEMMA BeginBatchAsyncInv ==
    ASSUME Inv, NEW t \in Tasks, BeginBatchAsync(t), UNCHANGED careless
    PROVE  Inv'
<1> DEFINE i == InstanceOf(t)
           b == [CurrentBar(i) EXCEPT !.batch = TRUE]
<1>1. /\ task[t].pc = "checking" /\ i \in Instances /\ ~task[t].wrote /\ i = task[t].inst
      /\ UNCHANGED <<lock, waiting, loading, anchored, faults, careless>>
      /\ continuations' = continuations /\ order' = order
      /\ faults \in Nat
  BY Typing DEF BeginBatchAsync, At, Inv, StepsInOrder, Opening, InstanceOf, TypeOK, waiting
<1>2. ASSUME ~careless, faults <= 1
      PROVE  /\ lock = None /\ order = <<>>
             /\ \A j \in Instances : inProgress[j] = {} /\ ~CurrentBar(j).batch
             /\ \A u \in Tasks : /\ task[u].pc \notin Closing \cup {"open", "waiting"}
                                 /\ task[u].pc \in Opening => u = t
                                 /\ ~task[u].virtual
  BY <1>1, <1>2, Alone DEF Opening
<1>3. \/ CurrentBar(i).batch /\ Goto(t, "failed") /\ UNCHANGED <<bars, inProgress>>
      \/ /\ SetBar(i, Len(bars[i]), b)
         /\ inProgress' = [inProgress EXCEPT ![i] = @ \cup {t}] /\ Goto(t, "open")
  BY DEF BeginBatchAsync, BeginBatchOfBar
<1>4. CASE CurrentBar(i).batch /\ Goto(t, "failed") /\ UNCHANGED <<bars, inProgress>>
  <2>1. Moves(t, "failed")
    BY <1>4, GotoEffect DEF Inv, Steps
  <2>2. TypeOK'
    BY <1>1, <1>4, <2>1 DEF Inv, TypeOK, Moves
  <2>3. LockIsHeld'
    BY <1>1, <2>1, MoveKeepsLock DEF Inv, Closing
  <2>4. StepsInOrder'
    BY <1>1, <2>1, MoveKeepsSteps DEF Inv, Opening
  <2>5. careless' \/ faults' > 1
    BY <1>1, <1>2, <1>4
  <2>6. OneAtATime' /\ BarsAreCommitted'
    BY <2>5, <1>1 DEF OneAtATime, BarsAreCommitted
  <2> QED
    BY <2>2, <2>3, <2>4, <2>6 DEF Inv
<1>5. CASE SetBar(i, Len(bars[i]), b) /\ inProgress' = [inProgress EXCEPT ![i] = @ \cup {t}]
           /\ Goto(t, "open")
  <2>1. Moves(t, "open")
    BY <1>5, GotoEffect DEF Inv, Steps
  <2>2. b \in Bar /\ b.batch /\ Len(bars[i]) \in DOMAIN bars[i]
    BY <1>1, Typing DEF Inv, Bar
  <2> HIDE DEF b
  <2>3. /\ bars' \in [Instances -> Seq(Bar)]
        /\ \A j \in Instances :
              /\ bars'[j] # <<>>
              /\ DOMAIN bars'[j] = DOMAIN bars[j]
              /\ CurrentBar(j)' = IF j = i THEN b ELSE CurrentBar(j)
    BY <1>1, <1>5, <2>2, SetBarEffect DEF Inv
  <2>4. /\ inProgress' \in [Instances -> SUBSET Tasks]
        /\ \A j \in Instances : inProgress'[j] = IF j = i THEN inProgress[i] \cup {t} ELSE inProgress[j]
    BY <1>5, <1>1 DEF Inv, TypeOK
  <2> HIDE DEF i
  <2>5. TypeOK'
    <3>1. /\ task' \in [Tasks -> Task]
          /\ \A u \in Tasks : task'[u].bar \in DOMAIN bars'[task'[u].inst]
      BY <2>1, <2>3, Typing DEF Inv, Moves, InstanceOf
    <3>2. /\ lock' \in Tasks \cup {None}
          /\ continuations' \in [Instances -> Seq(Continuation)]
          /\ order' \in Seq(Instances)
          /\ loading' \subseteq [task: Tasks, inst: Instances]
          /\ anchored' \subseteq Tasks
          /\ faults' \in 0..MaxFaults
          /\ careless' \in BOOLEAN
      BY <1>1 DEF Inv, TypeOK
    <3> QED
      BY <2>3, <2>4, <3>1, <3>2 DEF TypeOK
  <2>6. LockIsHeld'
    BY <1>1, <2>1, MoveKeepsLock DEF Inv, Closing
  <2>7. StepsInOrder'
    BY <1>1, <2>1, MoveKeepsSteps DEF Inv, Opening
  <2>8. OneAtATime'
    <3> SUFFICES ASSUME ~careless', ~(faults' > 1) PROVE OneAtATime'
      BY DEF OneAtATime
    <3>1. ~careless /\ faults <= 1
      BY <1>1
    <3>2. \A u \in Tasks : /\ task'[u].pc \notin {"waiting", "cancelling"} \cup Opening
                           /\ ~task'[u].virtual
                           /\ task'[u].pc = "open" <=> u = t
      BY <1>2, <2>1, <3>1 DEF Moves, Closing, Opening
    <3>3. \A j \in Instances : inProgress'[j] = IF j = i THEN {t} ELSE {}
      BY <1>1, <1>2, <2>4, <3>1
    <3>4. \A j \in Instances : CurrentBar(j)'.batch => j = i
      BY <1>2, <2>3, <3>1
    <3>5. \A u \in Tasks, j \in Instances :
             u \in inProgress'[j] <=> task'[u].pc = "open" /\ task'[u].inst = j
      BY <1>1, <2>1, <3>2, <3>3 DEF Moves
    <3>6. lock' = None /\ order' = <<>>
      BY <1>1, <1>2, <3>1
    <3> QED
      BY <3>2, <3>3, <3>4, <3>5, <3>6, CarefulNext
  <2>9. BarsAreCommitted'
    <3> SUFFICES ASSUME ~careless', faults' = 0 PROVE BarsAreCommitted'
      BY DEF BarsAreCommitted
    <3>1. ~careless /\ faults = 0
      BY <1>1
    <3>2. \A u \in Tasks : /\ task'[u].pc \notin Committing \cup {"notifying"}
                           /\ task'[u].pc = "open" <=> u = t
      BY <1>2, <2>1, <3>1 DEF Moves, Closing, Opening, Committing
    <3>3. \A u \in Tasks : Kept(u) => Kept(u)'
      BY <1>1, <1>2, <3>1 DEF Kept
    <3>4. \A u \in Tasks : InstanceOf(u)' = InstanceOf(u)
      BY <2>1 DEF Moves, InstanceOf
    <3>5. CurrentBar(InstanceOf(t)).batch'
      BY <1>1, <2>2, <2>3, <3>4 DEF i
    <3> QED
      BY <1>1, <2>1, <3>1, <3>2, <3>3, <3>4, <3>5, KeptNow, KeptNext DEF Moves, Committing
  <2> QED
    BY <2>5, <2>6, <2>7, <2>8, <2>9 DEF Inv
<1> QED
  BY <1>3, <1>4, <1>5

\* A task writes.
LEMMA WriteInv ==
    ASSUME Inv, NEW t \in Tasks, Write(t), UNCHANGED careless
    PROVE  Inv'
<1> DEFINE i == InstanceOf(t)
           b == [CurrentBar(i) EXCEPT !.writes = @ \cup {t}]
<1>1. /\ task[t].pc = "open" /\ i \in Instances /\ i = task[t].inst
      /\ UNCHANGED <<inProgress, lock, waiting, loading, faults, careless>>
      /\ continuations' = continuations /\ order' = order
      /\ task' = [task EXCEPT ![t].wrote = TRUE]
      /\ faults \in Nat
  BY Typing DEF Write, At, Inv, InstanceOf, TypeOK, waiting
<1>2. \/ CurrentBar(i).batch /\ SetBar(i, Len(bars[i]), b) /\ UNCHANGED anchored
      \/ anchored' = anchored \cup {t} /\ UNCHANGED bars
  BY DEF Write
<1>3. /\ task' \in [Tasks -> Task]
      /\ \A u \in Tasks : /\ task'[u].inst = task[u].inst /\ task'[u].bar = task[u].bar
                          /\ task'[u].pc = task[u].pc /\ task'[u].virtual = task[u].virtual
                          /\ u # t => task'[u].wrote = task[u].wrote
  <2>1. task \in [Tasks -> Task] /\ task[t] \in Task
    BY DEF Inv, TypeOK
  <2>2. task' = [task EXCEPT ![t] = [task[t] EXCEPT !.wrote = TRUE]]
    BY <1>1
  <2>3. [task[t] EXCEPT !.wrote = TRUE] \in Task
    BY <2>1 DEF Task
  <2> QED
    BY <2>1, <2>2, <2>3 DEF Task
<1>4. b \in Bar /\ b.batch = CurrentBar(i).batch /\ b.writes = CurrentBar(i).writes \cup {t}
      /\ Len(bars[i]) \in DOMAIN bars[i]
  BY <1>1, Typing DEF Inv, Bar
<1> HIDE DEF b
<1>5. /\ bars' \in [Instances -> Seq(Bar)] /\ anchored' \subseteq Tasks
      /\ \A j \in Instances :
            /\ bars'[j] # <<>> /\ DOMAIN bars'[j] = DOMAIN bars[j] /\ Len(bars'[j]) = Len(bars[j])
            /\ CurrentBar(j)'.batch <=> CurrentBar(j).batch
            /\ CurrentBar(j).writes \subseteq CurrentBar(j)'.writes
      /\ \/ t \in anchored'
         \/ \A j \in Instances : j = i => CurrentBar(j)'.batch /\ t \in CurrentBar(j)'.writes
      /\ anchored \subseteq anchored'
  <2>1. CASE CurrentBar(i).batch /\ SetBar(i, Len(bars[i]), b) /\ UNCHANGED anchored
    <3>1. /\ bars' \in [Instances -> Seq(Bar)]
          /\ \A j \in Instances :
                /\ bars'[j] # <<>>
                /\ DOMAIN bars'[j] = DOMAIN bars[j] /\ Len(bars'[j]) = Len(bars[j])
                /\ CurrentBar(j)' = IF j = i THEN b ELSE CurrentBar(j)
      BY <1>1, <2>1, <1>4, SetBarEffect DEF Inv
    <3>2. anchored' = anchored /\ anchored \subseteq Tasks
      BY <2>1 DEF Inv, TypeOK
    <3>3. \A j \in Instances : /\ CurrentBar(j)'.batch <=> CurrentBar(j).batch
                              /\ CurrentBar(j).writes \subseteq CurrentBar(j)'.writes
      BY <1>4, <3>1
    <3>4. \A j \in Instances : j = i => CurrentBar(j)'.batch /\ t \in CurrentBar(j)'.writes
      BY <1>1, <1>4, <2>1, <3>1
    <3> QED
      BY <3>1, <3>2, <3>3, <3>4
  <2>2. CASE anchored' = anchored \cup {t} /\ UNCHANGED bars
    BY <2>2 DEF Inv, TypeOK, CurrentBar
  <2> QED
    BY <1>2, <2>1, <2>2
<1> HIDE DEF i
<1>6. TypeOK'
  <2>1. \A u \in Tasks : task'[u].bar \in DOMAIN bars'[task'[u].inst]
    BY <1>3, <1>5, Typing DEF Inv, InstanceOf
  <2>2. /\ inProgress' \in [Instances -> SUBSET Tasks]
        /\ lock' \in Tasks \cup {None}
        /\ continuations' \in [Instances -> Seq(Continuation)]
        /\ order' \in Seq(Instances)
        /\ loading' \subseteq [task: Tasks, inst: Instances]
        /\ faults' \in 0..MaxFaults
        /\ careless' \in BOOLEAN
    BY <1>1 DEF Inv, TypeOK
  <2> QED
    BY <1>3, <1>5, <2>1, <2>2 DEF TypeOK
<1>7. LockIsHeld'
  BY <1>1, <1>3 DEF Inv, LockIsHeld
<1>8. StepsInOrder'
  <2>1. \A j \in Instances : \A n \in DOMAIN continuations[j] :
           task'[continuations[j][n].task].pc = "waiting"
    BY <1>3, Typing DEF Inv, StepsInOrder, At
  <2>2. task[t].pc \notin {"waiting", "notifying"} /\ task'[t].pc \notin {"idle", "waiting"} \cup Opening
    BY <1>1, <1>3 DEF Opening
  <2>3. \A j \in Instances : \A n \in DOMAIN continuations'[j] :
           /\ n \in DOMAIN continuations[j] /\ continuations'[j][n] = continuations[j][n]
           /\ task'[continuations[j][n].task].pc = "waiting"
    BY <1>1, <2>1
  <2>4. \A u \in Tasks : /\ task'[u].inst = task[u].inst
                         /\ u # t => task'[u].wrote = task[u].wrote /\ task'[u].pc = task[u].pc
    BY <1>3
  <2>5. loading' = loading /\ faults' = faults
    BY <1>1
  <2> QED
    BY <2>2, <2>3, <2>4, <2>5, StepsKept DEF Inv
<1>9. OneAtATime'
  <2> SUFFICES ASSUME ~careless', ~(faults' > 1) PROVE OneAtATime'
    BY DEF OneAtATime
  <2>1. ~careless /\ faults <= 1
    BY <1>1
  <2>2. \A u \in Tasks : /\ task'[u].pc = task[u].pc /\ task'[u].inst = task[u].inst
                         /\ task'[u].virtual = task[u].virtual /\ task'[u].bar = task[u].bar
    BY <1>3
  <2>3. inProgress' = inProgress /\ lock' = lock /\ order' = order
    BY <1>1
  <2>4. \A j \in Instances : CurrentBar(j)'.batch =>
           \/ inProgress'[j] # {}
           \/ \E u \in Tasks : task'[u].pc \in Committing /\ task'[u].inst = j /\ task'[u].bar = Len(bars'[j])
    <3>1. \A j \in Instances : CurrentBar(j)'.batch => CurrentBar(j).batch
      BY <1>5
    <3>2. \A j \in Instances : CurrentBar(j).batch =>
             \/ inProgress[j] # {}
             \/ \E u \in Tasks : task[u].pc \in Committing /\ task[u].inst = j /\ task[u].bar = Len(bars[j])
      BY <2>1, CarefulNow
    <3>3. \A j \in Instances : Len(bars'[j]) = Len(bars[j])
      BY <1>5
    <3> QED
      BY <2>2, <2>3, <3>1, <3>2, <3>3
  <2>5. /\ \A u \in Tasks, j \in Instances :
              u \in inProgress'[j] <=> task'[u].pc = "open" /\ task'[u].inst = j
        /\ \A j, k \in Instances : inProgress'[j] # {} /\ inProgress'[k] # {} => j = k
        /\ lock' # None => \A j \in Instances : inProgress'[j] = {}
    BY <2>1, <2>2, <2>3, CarefulNow
  <2>6. /\ order' = <<>>
        /\ \A u \in Tasks : task'[u].pc \notin {"waiting", "cancelling"} /\ ~task'[u].virtual
        /\ \A u, v \in Tasks : task'[u].pc \in Opening /\ task'[v].pc \in Opening => u = v
        /\ \A u \in Tasks : task'[u].pc \in Opening => lock' = None
        /\ \A u \in Tasks : task'[u].pc \in Opening => \A j \in Instances : inProgress'[j] = {}
    BY <2>1, <2>2, <2>3, CarefulNow
  <2> QED
    BY <2>4, <2>5, <2>6, CarefulNext
<1>10. BarsAreCommitted'
  <2> SUFFICES ASSUME ~careless', faults' = 0 PROVE BarsAreCommitted'
    BY DEF BarsAreCommitted
  <2>1. ~careless /\ faults = 0
    BY <1>1
  <2>2. \A u \in Tasks : task'[u].pc \notin Committing
    <3>1. t \in inProgress[i]
      BY <1>1, <2>1, CarefulNow
    <3> QED
      BY <1>1, <1>3, <2>1, <3>1, CarefulNow DEF Committing, Closing
  <2>3. \A u \in Tasks : Kept(u) => Kept(u)'
    BY <1>5 DEF Kept
  <2>4. Kept(t)'
    <3>1. \/ t \in anchored'
          \/ \E j \in Instances : CurrentBar(j)'.batch /\ t \in CurrentBar(j)'.writes
      BY <1>1, <1>5
    <3> QED
      BY <1>1, <3>1 DEF Kept
  <2>5. \A u \in Tasks : InstanceOf(u)' = InstanceOf(u) /\ InstanceOf(u) \in Instances
    BY <1>3, Typing DEF InstanceOf, Inv
  <2>6. \A u \in Tasks : task'[u].pc = "open" => CurrentBar(InstanceOf(u)).batch'
    BY ZenonT(40), <1>3, <1>5, <2>1, <2>5, KeptNow
  <2>7. \A u \in Tasks : /\ task'[u].pc \in Committing \cup {"open", "notifying", "done"}
                         /\ task'[u].wrote
                         => Kept(u)'
    BY <1>3, <2>1, <2>3, <2>4, KeptNow
  <2> QED
    BY <2>2, <2>5, <2>6, <2>7, KeptNext DEF Committing
<1> QED
  BY <1>6, <1>7, <1>8, <1>9, <1>10 DEF Inv

\* The last one to leave goes on with the bar it finds.
LEMMA OnCurrentBarEffect ==
    ASSUME TypeOK, StepsInOrder, LockIsHeld, NEW t \in Tasks, NEW s \in {"committing", "cancelling"},
           task[t].pc = "open", lock = None, OnCurrentBar(t, s), UNCHANGED faults
    PROVE  /\ task' \in [Tasks -> Task] /\ inProgress' \in [Instances -> SUBSET Tasks]
           /\ lock' = t /\ continuations' = continuations /\ order' = order /\ loading' = loading
           /\ \A u \in Tasks :
                 /\ task'[u].inst = task[u].inst /\ task'[u].wrote = task[u].wrote
                 /\ task'[u].virtual = task[u].virtual
                 /\ task'[u].bar = IF u = t THEN Len(bars[task[t].inst]) ELSE task[u].bar
                 /\ task'[u].pc = IF u = t THEN s ELSE task[u].pc
           /\ \A j \in Instances :
                 inProgress'[j] = IF j = task[t].inst THEN inProgress[j] \ {t} ELSE inProgress[j]
           /\ StepsInOrder' /\ LockIsHeld'
<1> DEFINE n == Len(bars[InstanceOf(t)])
<1>1. /\ task \in [Tasks -> Task] /\ task[t] \in Task /\ n \in Nat /\ s \in Steps
      /\ InstanceOf(t) = task[t].inst /\ InstanceOf(t) \in Instances
  BY Typing DEF TypeOK, Steps, Closing, InstanceOf
<1>2. /\ task' = [task EXCEPT ![t] = [task[t] EXCEPT !.pc = s, !.bar = n]]
      /\ lock' = t /\ continuations' = continuations /\ order' = order /\ loading' = loading
      /\ inProgress' = [inProgress EXCEPT ![InstanceOf(t)] = @ \ {t}]
      /\ faults' = faults
  BY DEF OnCurrentBar, waiting, Left
<1> HIDE DEF n
<1>3. [task[t] EXCEPT !.pc = s, !.bar = n] \in Task
  BY <1>1, StepTypes
<1>4. /\ task' \in [Tasks -> Task]
      /\ \A u \in Tasks :
            /\ task'[u].inst = task[u].inst /\ task'[u].wrote = task[u].wrote
            /\ task'[u].virtual = task[u].virtual
            /\ task'[u].bar = IF u = t THEN n ELSE task[u].bar
            /\ task'[u].pc = IF u = t THEN s ELSE task[u].pc
  BY <1>1, <1>2, <1>3 DEF Task
<1>5. /\ inProgress' \in [Instances -> SUBSET Tasks]
      /\ \A j \in Instances :
            inProgress'[j] = IF j = task[t].inst THEN inProgress[j] \ {t} ELSE inProgress[j]
  BY <1>1, <1>2 DEF TypeOK
<1>6. LockIsHeld'
  BY <1>2, <1>4 DEF LockIsHeld
<1>7. StepsInOrder'
  <2>1. \A j \in Instances : \A k \in DOMAIN continuations[j] :
           task'[continuations[j][k].task].pc = "waiting"
    BY <1>4, Typing DEF StepsInOrder, At
  <2>2. task'[t].pc \notin {"idle", "waiting"} \cup Opening
    BY <1>4 DEF Opening
  <2>3. \A u \in Tasks : /\ task'[u].inst = task[u].inst
                         /\ u # t => task'[u].wrote = task[u].wrote /\ task'[u].pc = task[u].pc
    BY <1>4
  <2> QED
    BY <1>2, <2>1, <2>2, <2>3, StepsKept
<1> QED
  BY <1>1, <1>2, <1>4, <1>5, <1>6, <1>7 DEF n

\* Notifying the instances keeps the order of steps and the lock.
LEMMA NotifyKeeps ==
    ASSUME Inv, NEW t \in Tasks, NEW failed \in BOOLEAN,
           NEW batches \in [Instances -> SUBSET Tasks],
           task[t].pc \in {"open", "anchored", "cancelling"}, task[t].pc = "open" => lock = None,
           Notify(t, failed, batches),
           faults' > 1 \/ ~(faults > 1), faults' = 0 => faults = 0
    PROVE  StepsInOrder' /\ LockIsHeld'
<1> DEFINE Called(u) == /\ At(u, "waiting")
                       /\ task'[u].pc \in {"refreshing", "checking", "open"}
<1>1. task[t].pc \notin {"waiting", "notifying"} /\ ~At(t, "waiting")
  BY DEF At
<1>2. /\ \A u \in Tasks : task'[u].inst = task[u].inst /\ task'[u].wrote = task[u].wrote
      /\ \A u \in Tasks : u # t => task'[u].pc = task[u].pc \/ Called(u)
      /\ \/ task'[t].pc = "notifying" /\ lock' = t
         \/ task'[t].pc \in {"done", "failed"} /\ lock' = None
      /\ \A l \in loading' : l \in loading \/ (l.task = t /\ task'[t].pc = "notifying")
      /\ \A i \in Instances : \A n \in DOMAIN continuations'[i] :
            /\ n \in DOMAIN continuations[i]
            /\ continuations'[i][n] = continuations[i][n]
            /\ task'[continuations[i][n].task].pc = "waiting"
  BY <1>1, NotifyEffect DEF Inv
<1>3. task'[t].pc \notin {"idle", "waiting"} \cup Opening
  BY <1>2 DEF Opening
<1>4. StepsInOrder'
  BY <1>1, <1>2, <1>3, StepsKept DEF Inv
<1>5. LockIsHeld'
  <2> SUFFICES ASSUME ~(faults > 1), NEW u \in Tasks, task'[u].pc \in Closing
               PROVE  lock' = u
    BY DEF LockIsHeld
  <2>1. \A v \in Tasks : task[v].pc \in Closing => lock = v
    BY DEF Inv, LockIsHeld
  <2>2. CASE u # t
    <3>1. task[u].pc \in Closing
      BY <1>2, <2>2 DEF Closing
    <3>2. lock = u /\ task[t].pc \notin Closing
      BY <2>1, <2>2, <3>1
    <3>3. lock = None
      BY <3>2 DEF Closing
    <3> QED
      BY <3>2, <3>3
  <2>3. CASE u = t
    BY <1>2, <2>3 DEF Closing
  <2> QED
    BY <2>2, <2>3
<1> QED
  BY <1>4, <1>5

\* What a careful task in its batch finds.
LEMMA InBatch ==
    ASSUME Inv, ~careless, faults <= 1, NEW t \in Tasks, task[t].pc = "open"
    PROVE  /\ lock = None /\ order = <<>> /\ t \in inProgress[task[t].inst]
           /\ \A u \in Tasks : /\ task[u].pc \notin Closing \cup Opening \cup {"waiting"}
                               /\ ~task[u].virtual
                               /\ task[u].pc = "open" =>
                                     u \in inProgress[task[u].inst] /\ task[u].inst = task[t].inst
           /\ \A j \in Instances : /\ inProgress[j] # {} => j = task[t].inst
                                   /\ CurrentBar(j).batch => j = task[t].inst
<1> DEFINE i == task[t].inst
<1>1. \A u \in Tasks : task[u].inst \in Instances
  BY Typing DEF Inv, InstanceOf
<1>2. t \in inProgress[i] /\ order = <<>>
  BY <1>1, CarefulNow
<1>3. lock = None
  BY <1>1, <1>2, CarefulNow
<1>4. \A u \in Tasks : task[u].pc \notin Closing \cup Opening \cup {"waiting"} /\ ~task[u].virtual
  BY <1>1, <1>2, <1>3, CarefulNow
<1>5. \A j \in Instances : inProgress[j] # {} => j = i
  BY <1>1, <1>2, CarefulNow
<1>6. \A j \in Instances : CurrentBar(j).batch => j = i
  BY <1>4, <1>5, CarefulNow DEF Committing, Closing
<1>7. \A u \in Tasks : task[u].pc = "open" =>
          u \in inProgress[task[u].inst] /\ task[u].inst = i
  BY <1>1, <1>5, CarefulNow
<1> QED
  BY <1>2, <1>3, <1>4, <1>5, <1>6, <1>7

\* A batch is committed.
LEMMA CommitBatchInv ==
    ASSUME Inv, NEW t \in Tasks, CommitBatch(t), UNCHANGED careless
    PROVE  Inv'
<1> DEFINE i == InstanceOf(t)
<1>1. /\ task[t].pc = "open" /\ i \in Instances /\ i = task[t].inst
      /\ UNCHANGED <<bars, anchored, faults, careless>>
      /\ \A j \in Instances : CurrentBar(j)' = CurrentBar(j)
      /\ faults \in Nat
      /\ IsLast(t) <=> inProgress[i] = {t}
  BY Typing DEF CommitBatch, At, Inv, InstanceOf, TypeOK, IsLast, CurrentBar
<1>2. /\ Left(t) \in [Instances -> SUBSET Tasks]
      /\ \A j \in Instances :
            Left(t)[j] = IF j = task[t].inst THEN inProgress[j] \ {t} ELSE inProgress[j]
  BY <1>1 DEF Inv, TypeOK, Left
<1>3. ASSUME ~careless, faults <= 1
      PROVE  /\ lock = None /\ order = <<>> /\ t \in inProgress[task[t].inst]
             /\ \A u \in Tasks : /\ task[u].pc \notin Closing \cup Opening \cup {"waiting"}
                                 /\ ~task[u].virtual
                                 /\ task[u].pc = "open" =>
                                       u \in inProgress[task[u].inst] /\ task[u].inst = task[t].inst
             /\ \A j \in Instances : /\ inProgress[j] # {} => j = task[t].inst
                                     /\ CurrentBar(j).batch => j = task[t].inst
  BY <1>1, <1>3, InBatch
<1>4. \/ ~IsLast(t) /\ LeavesOnly(t, "done")
      \/ IsLast(t) /\ lock # None /\ LeavesOnly(t, "failed")
      \/ IsLast(t) /\ lock = None /\ CurrentBar(i).batch /\ OnCurrentBar(t, "committing")
      \/ IsLast(t) /\ lock = None /\ ~CurrentBar(i).batch /\ Notify(t, TRUE, Left(t))
  BY DEF CommitBatch
<1>5. \A u \in Tasks : Kept(u)' <=> Kept(u)
  BY <1>1 DEF Kept
<1>6. ASSUME NEW s \in {"done", "failed"}, LeavesOnly(t, s),
             s = "done" => ~IsLast(t), s = "failed" => lock # None
      PROVE  Inv'
  <2>1. Goto(t, s) /\ inProgress' = Left(t) /\ UNCHANGED <<lock, waiting, loading>>
        /\ continuations' = continuations /\ order' = order
    BY <1>6 DEF LeavesOnly, waiting
  <2>2. Moves(t, s)
    BY <2>1, GotoEffect DEF Inv, Steps
  <2>3. TypeOK'
    BY <1>1, <1>2, <2>1, <2>2 DEF Inv, TypeOK, Moves
  <2>4. LockIsHeld'
    BY <1>1, <2>1, <2>2, MoveKeepsLock DEF Inv, Closing
  <2>5. StepsInOrder'
    BY <1>1, <2>1, <2>2, MoveKeepsSteps DEF Inv, Opening
  <2>6. ASSUME ~careless', ~(faults' > 1)
        PROVE  /\ ~careless /\ faults <= 1 /\ s = "done" /\ inProgress[i] # {t}
               /\ lock' = None /\ order' = <<>>
               /\ \A u \in Tasks : /\ task'[u].pc \notin Closing \cup Opening \cup {"waiting"}
                                   /\ ~task'[u].virtual
               /\ \A j \in Instances : inProgress'[j] # {} => j = i
               /\ inProgress'[i] # {}
    <3>1. ~careless /\ faults <= 1
      BY <1>1, <2>6
    <3>2. s = "done" /\ inProgress[i] # {t}
      BY <1>1, <1>3, <1>6, <3>1
    <3>3. \A u \in Tasks : /\ task'[u].pc \notin Closing \cup Opening \cup {"waiting"}
                           /\ ~task'[u].virtual
      BY <1>3, <2>2, <3>1, <3>2 DEF Moves, Closing, Opening
    <3>4. \A j \in Instances : inProgress'[j] # {} => j = i
      BY <1>1, <1>2, <1>3, <2>1, <3>1
    <3>5. inProgress'[i] # {}
      BY <1>1, <1>2, <1>3, <2>1, <3>1, <3>2
    <3> QED
      BY <1>3, <2>1, <3>1, <3>2, <3>3, <3>4, <3>5
  <2>7. OneAtATime'
    <3> SUFFICES ASSUME ~careless', ~(faults' > 1) PROVE OneAtATime'
      BY DEF OneAtATime
    <3>1. \A u \in Tasks, j \in Instances :
             u \in inProgress'[j] <=> task'[u].pc = "open" /\ task'[u].inst = j
      BY <1>1, <1>2, <2>1, <2>2, <2>6, CarefulNow DEF Moves
    <3>2. \A j \in Instances : CurrentBar(j)'.batch => inProgress'[j] # {}
      BY <1>1, <1>3, <2>6
    <3>3. \A u \in Tasks : task'[u].pc \notin Opening \cup {"waiting", "cancelling"} /\ ~task'[u].virtual
      BY <2>6 DEF Closing
    <3>4. \A j, k \in Instances : inProgress'[j] # {} /\ inProgress'[k] # {} => j = k
      BY <2>6
    <3>5. lock' = None /\ order' = <<>>
      BY <2>6
    <3> HIDE DEF i
    <3> QED
      BY <3>1, <3>2, <3>3, <3>4, <3>5, CarefulNext
  <2>8. BarsAreCommitted'
    <3> SUFFICES ASSUME ~careless', faults' = 0 PROVE BarsAreCommitted'
      BY DEF BarsAreCommitted
    <3>1. ~careless /\ faults = 0
      BY <1>1
    <3>2. \A u \in Tasks : /\ task'[u].pc \notin Committing \cup {"notifying"}
                           /\ task'[u].wrote = task[u].wrote
                           /\ task'[u].pc \in {"open", "done"} =>
                                 task[u].pc \in {"open", "done"}
                           /\ task'[u].pc = "open" => task[u].pc = "open"
      BY <1>1, <2>2, <2>6, <3>1 DEF Moves, Closing, Committing
    <3>3. \A u \in Tasks : InstanceOf(u)' = InstanceOf(u) /\ InstanceOf(u) \in Instances
      BY <2>2, Typing DEF Moves, InstanceOf, Inv
    <3>4. \A u \in Tasks : task'[u].pc = "open" => CurrentBar(InstanceOf(u)).batch'
      BY <1>1, <3>1, <3>2, <3>3, KeptNow
    <3>5. \A u \in Tasks : /\ task'[u].pc \in Committing \cup {"open", "notifying", "done"}
                           /\ task'[u].wrote
                           => Kept(u)'
      BY <1>5, <3>1, <3>2, KeptNow
    <3> QED
      BY <3>2, <3>3, <3>4, <3>5, KeptNext DEF Committing
  <2> QED
    BY <2>3, <2>4, <2>5, <2>7, <2>8 DEF Inv
<1>7. CASE IsLast(t) /\ lock = None /\ CurrentBar(i).batch /\ OnCurrentBar(t, "committing")
  <2>1. /\ task' \in [Tasks -> Task] /\ inProgress' \in [Instances -> SUBSET Tasks]
        /\ lock' = t /\ continuations' = continuations /\ order' = order /\ loading' = loading
        /\ \A u \in Tasks :
              /\ task'[u].inst = task[u].inst /\ task'[u].wrote = task[u].wrote
              /\ task'[u].virtual = task[u].virtual
              /\ task'[u].bar = IF u = t THEN Len(bars[task[t].inst]) ELSE task[u].bar
              /\ task'[u].pc = IF u = t THEN "committing" ELSE task[u].pc
        /\ \A j \in Instances :
              inProgress'[j] = IF j = task[t].inst THEN inProgress[j] \ {t} ELSE inProgress[j]
        /\ StepsInOrder' /\ LockIsHeld'
    BY <1>1, <1>7, OnCurrentBarEffect DEF Inv
  <2>2. TypeOK'
    <3>1. \A u \in Tasks : task'[u].bar \in DOMAIN bars[task'[u].inst]
      BY <1>1, <2>1, Typing DEF Inv, InstanceOf
    <3> QED
      BY <1>1, <2>1, <3>1 DEF Inv, TypeOK
  <2>3. ASSUME ~careless', ~(faults' > 1)
        PROVE  /\ ~careless /\ faults <= 1 /\ order' = <<>>
               /\ \A u \in Tasks : /\ task'[u].pc = "committing" <=> u = t
                                   /\ task'[u].pc \notin Opening \cup
                                         {"waiting", "cancelling", "anchored", "notifying", "open"}
                                   /\ ~task'[u].virtual
               /\ \A j \in Instances : inProgress'[j] = {}
    <3>1. ~careless /\ faults <= 1
      BY <1>1, <2>3
    <3>2. \A j \in Instances : inProgress'[j] = {}
      BY <1>1, <1>3, <1>7, <2>1, <3>1
    <3>3. \A u \in Tasks : u # t => task[u].pc # "open"
      BY <1>1, <1>3, <1>7, <3>1
    <3>4. \A u \in Tasks : /\ task'[u].pc = "committing" <=> u = t
                           /\ task'[u].pc \notin Opening \cup
                                 {"waiting", "cancelling", "anchored", "notifying", "open"}
                           /\ ~task'[u].virtual
      BY <1>3, <2>1, <3>1, <3>3 DEF Closing, Opening
    <3> QED
      BY <1>3, <2>1, <3>1, <3>2, <3>4
  <2>4. OneAtATime'
    <3> SUFFICES ASSUME ~careless', ~(faults' > 1) PROVE OneAtATime'
      BY DEF OneAtATime
    <3>1. \A j \in Instances : CurrentBar(j)'.batch =>
             task'[t].pc \in Committing /\ task'[t].inst = j /\ task'[t].bar = Len(bars'[j])
      BY <1>1, <1>3, <2>1, <2>3 DEF Committing
    <3>2. \A u \in Tasks, j \in Instances :
             u \in inProgress'[j] <=> task'[u].pc = "open" /\ task'[u].inst = j
      BY <2>3
    <3> QED
      BY <2>3, <3>1, <3>2, CarefulNext
  <2>5. BarsAreCommitted'
    <3> SUFFICES ASSUME ~careless', faults' = 0 PROVE BarsAreCommitted'
      BY DEF BarsAreCommitted
    <3>1. ~careless /\ faults = 0
      BY <1>1
    <3>2. \A u \in Tasks : InstanceOf(u)' = InstanceOf(u) /\ InstanceOf(u) = task[u].inst
      BY <2>1 DEF InstanceOf
    <3>3. \A u \in Tasks : task'[u].pc \in Committing => task'[u].bar = Len(bars'[InstanceOf(u)])
      BY <1>1, <2>1, <2>3, <3>1, <3>2 DEF Committing
    <3>4. \A u \in Tasks : task'[u].pc \notin {"open", "anchored"}
      BY <1>1, <2>3, <3>1
    <3>5. \A u \in Tasks : /\ task'[u].pc \in Committing \cup {"open", "notifying", "done"}
                           /\ task'[u].wrote
                           => Kept(u)'
      BY <1>1, <1>5, <2>1, <3>1, KeptNow DEF Committing
    <3> QED
      BY <3>2, <3>3, <3>4, <3>5, KeptNext
  <2> QED
    BY <2>1, <2>2, <2>4, <2>5 DEF Inv
<1>8. CASE IsLast(t) /\ lock = None /\ ~CurrentBar(i).batch /\ Notify(t, TRUE, Left(t))
  <2>1. /\ task' \in [Tasks -> Task] /\ inProgress' \in [Instances -> SUBSET Tasks]
        /\ lock' \in Tasks \cup {None}
        /\ continuations' \in [Instances -> Seq(Continuation)] /\ order' \in Seq(Instances)
        /\ loading' \subseteq [task: Tasks, inst: Instances]
        /\ \A u \in Tasks : /\ task'[u].inst = task[u].inst /\ task'[u].bar = task[u].bar
                            /\ task'[u].wrote = task[u].wrote
        /\ task'[t].pc \in {"notifying", "failed"}
        /\ order = <<>> => /\ \A u \in Tasks : u # t => task'[u].pc = task[u].pc
                           /\ \A u \in Tasks : task'[u].virtual = task[u].virtual
                           /\ inProgress' = Left(t) /\ order' = <<>>
    BY <1>1, <1>2, <1>8, NotifyEffect DEF Inv, At
  <2>2. StepsInOrder' /\ LockIsHeld'
    BY <1>1, <1>2, <1>8, NotifyKeeps
  <2>3. TypeOK'
    BY <1>1, <2>1, Typing DEF Inv, TypeOK, InstanceOf
  <2>4. OneAtATime'
    <3> SUFFICES ASSUME ~careless', ~(faults' > 1) PROVE OneAtATime'
      BY DEF OneAtATime
    <3>1. ~careless /\ faults <= 1 /\ order = <<>>
      BY <1>1, <1>3
    <3>2. \A j \in Instances : inProgress'[j] = {} /\ ~CurrentBar(j)'.batch
      BY <1>1, <1>2, <1>3, <1>8, <2>1, <3>1
    <3>3. \A u \in Tasks : u # t => task[u].pc # "open"
      BY <1>1, <1>3, <1>8, <3>1
    <3>4. \A u \in Tasks : /\ task'[u].pc \notin Opening \cup {"waiting", "cancelling", "open"}
                           /\ ~task'[u].virtual
      BY <1>3, <2>1, <3>1, <3>3 DEF Closing, Opening
    <3> QED
      BY <2>1, <3>1, <3>2, <3>4, CarefulNext
  <2>5. BarsAreCommitted'
    <3>1. careless \/ faults # 0
      BY <1>1, <1>8, KeptNow
    <3> QED
      BY <1>1, <3>1 DEF BarsAreCommitted
  <2> QED
    BY <2>2, <2>3, <2>4, <2>5 DEF Inv
<1> QED
  BY <1>4, <1>6, <1>7, <1>8

\* While a careful task closes its batch no other is open or being opened.
LEMMA ClosesAlone ==
    ASSUME Inv, ~careless, faults <= 1, NEW t \in Tasks, task[t].pc \in Closing
    PROVE  /\ lock = t /\ order = <<>>
           /\ \A i \in Instances : inProgress[i] = {}
           /\ \A u \in Tasks : /\ task[u].pc \in Closing => u = t
                               /\ task[u].pc \notin Opening \cup {"open", "waiting", "cancelling"}
                               /\ ~task[u].virtual
           /\ \A i \in Instances : CurrentBar(i).batch =>
                 task[t].pc \in Committing /\ task[t].inst = i /\ task[t].bar = Len(bars[i])
<1>1. lock = t /\ lock # None /\ order = <<>>
  BY CarefulNow
<1>2. \A i \in Instances : inProgress[i] = {}
  BY <1>1, CarefulNow
<1>3. \A u \in Tasks : task[u].inst \in Instances
  BY Typing DEF Inv, InstanceOf
<1>4. \A u \in Tasks : /\ task[u].pc \in Closing => u = t
                       /\ task[u].pc \notin Opening \cup {"waiting", "cancelling"}
                       /\ ~task[u].virtual
  BY <1>1, CarefulNow
<1>5. \A u \in Tasks : task[u].pc # "open"
  BY <1>2, <1>3, CarefulNow
<1>6. \A i \in Instances : CurrentBar(i).batch =>
         task[t].pc \in Committing /\ task[t].inst = i /\ task[t].bar = Len(bars[i])
  BY <1>2, <1>4, CarefulNow DEF Committing, Closing
<1> QED
  BY <1>1, <1>2, <1>4, <1>5, <1>6

\* A commit anchors what its bar keeps.
LEMMA DoAnchoringInv ==
    ASSUME Inv, NEW t \in Tasks, DoAnchoring(t), UNCHANGED careless
    PROVE  Inv'
<1> DEFINE i == InstanceOf(t)
           n == task[t].bar
           b == [bars[i][n] EXCEPT !.writes = {}]
<1>1. /\ task[t].pc = "committing" /\ i \in Instances /\ i = task[t].inst
      /\ n \in DOMAIN bars[i] /\ bars[i][n] \in Bar
      /\ UNCHANGED <<inProgress, lock, waiting, loading, careless>>
      /\ continuations' = continuations /\ order' = order
      /\ faults \in Nat /\ faults <= MaxFaults /\ anchored \subseteq Tasks
  BY Typing DEF DoAnchoring, At, Inv, InstanceOf, TypeOK, waiting
<1>2. \/ /\ anchored' = anchored \cup bars[i][n].writes
         /\ SetBar(i, n, b) /\ Goto(t, "anchored") /\ faults' = faults
      \/ /\ faults < MaxFaults /\ faults' = faults + 1 /\ UNCHANGED <<bars, anchored>>
         /\ task' = [task EXCEPT ![t].pc = "anchored", ![t].failed = TRUE]
  BY DEF DoAnchoring, Fault
<1>3. b \in Bar /\ b.batch = bars[i][n].batch /\ b.writes = {} /\ bars[i][n].writes \subseteq Tasks
  BY <1>1 DEF Bar
<1>4. CurrentBar(i) = bars[i][Len(bars[i])]
  BY <1>1, Typing DEF Inv
<1> HIDE DEF b
<1>5. Moves(t, "anchored")
  <2>1. CASE Goto(t, "anchored")
    BY <2>1, GotoEffect DEF Inv, Steps, Closing
  <2>2. CASE task' = [task EXCEPT ![t].pc = "anchored", ![t].failed = TRUE]
    <3>1. task \in [Tasks -> Task] /\ task[t] \in Task
      BY DEF Inv, TypeOK
    <3>2. task' = [task EXCEPT ![t] = [task[t] EXCEPT !.pc = "anchored", !.failed = TRUE]]
      BY <2>2
    <3>3. [task[t] EXCEPT !.pc = "anchored", !.failed = TRUE] \in Task
      BY <3>1, StepTypes DEF Steps, Closing
    <3> QED
      BY <3>1, <3>2, <3>3 DEF Moves, Task
  <2> QED
    BY <1>2, <2>1, <2>2
<1>6. /\ bars' \in [Instances -> Seq(Bar)] /\ anchored' \subseteq Tasks /\ faults' \in 0..MaxFaults
      /\ faults <= faults' /\ anchored \subseteq anchored'
      /\ \A j \in Instances :
            /\ bars'[j] # <<>> /\ DOMAIN bars'[j] = DOMAIN bars[j] /\ Len(bars'[j]) = Len(bars[j])
            /\ CurrentBar(j)'.batch <=> CurrentBar(j).batch
            /\ j # i => CurrentBar(j)' = CurrentBar(j)
            /\ faults' = 0 /\ j = i /\ n = Len(bars[i]) =>
                  CurrentBar(j)'.writes = {} /\ CurrentBar(i).writes \subseteq anchored'
  <2>1. CASE /\ anchored' = anchored \cup bars[i][n].writes
             /\ SetBar(i, n, b) /\ faults' = faults
    <3>1. /\ bars' \in [Instances -> Seq(Bar)]
          /\ \A j \in Instances :
                /\ bars'[j] # <<>>
                /\ DOMAIN bars'[j] = DOMAIN bars[j] /\ Len(bars'[j]) = Len(bars[j])
                /\ CurrentBar(j)' = IF j = i /\ n = Len(bars[i]) THEN b ELSE CurrentBar(j)
      BY <1>1, <1>3, <2>1, SetBarEffect DEF Inv
    <3>2. anchored' \subseteq Tasks /\ faults' \in 0..MaxFaults /\ faults <= faults'
          /\ anchored \subseteq anchored'
      BY <1>1, <1>3, <2>1
    <3>3. \A j \in Instances : CurrentBar(j)'.batch <=> CurrentBar(j).batch
      BY <1>3, <1>4, <3>1
    <3>4. n = Len(bars[i]) => /\ CurrentBar(i).writes \subseteq anchored'
                              /\ \A j \in Instances : j = i => CurrentBar(j)'.writes = {}
      BY <1>3, <1>4, <2>1, <3>1
    <3> QED
      BY <3>1, <3>2, <3>3, <3>4
  <2>2. CASE faults < MaxFaults /\ faults' = faults + 1 /\ UNCHANGED <<bars, anchored>>
    <3>1. \A j \in Instances : CurrentBar(j)' = CurrentBar(j)
      BY <2>2 DEF CurrentBar
    <3>2. faults' # 0 /\ faults' \in 0..MaxFaults /\ faults <= faults'
      BY <1>1, <2>2
    <3> QED
      BY <1>1, <2>2, <3>1, <3>2 DEF Inv, TypeOK
  <2> QED
    BY <1>2, <2>1, <2>2
<1> HIDE DEF i
<1>7. TypeOK'
  <2>1. \A u \in Tasks : task'[u].bar \in DOMAIN bars'[task'[u].inst]
    BY <1>5, <1>6, Typing DEF Inv, InstanceOf, Moves
  <2>2. task' \in [Tasks -> Task]
    BY <1>5 DEF Moves
  <2> QED
    BY <1>1, <1>6, <2>1, <2>2 DEF Inv, TypeOK
<1>8. LockIsHeld'
  BY <1>1, <1>5, <1>6 DEF Inv, LockIsHeld, Moves, Closing
<1>9. StepsInOrder'
  BY <1>1, <1>5, <1>6, MoveKeepsSteps DEF Inv, Opening
<1>10. ASSUME ~careless', ~(faults' > 1)
       PROVE  /\ ~careless /\ faults <= 1 /\ lock' = t /\ order' = <<>>
              /\ \A j \in Instances : inProgress'[j] = {}
              /\ \A u \in Tasks : /\ task'[u].pc \in Closing => u = t
                                  /\ task'[u].pc \notin Opening \cup {"open", "waiting", "cancelling"}
                                  /\ ~task'[u].virtual
              /\ \A j \in Instances : CurrentBar(j)'.batch =>
                    task'[t].pc \in Committing /\ task'[t].inst = j /\ task'[t].bar = Len(bars'[j])
  <2>1. ~careless /\ faults <= 1 /\ task[t].pc \in Closing
    BY <1>1, <1>6, <1>10 DEF Closing
  <2>2. lock' = t /\ order' = <<>> /\ \A j \in Instances : inProgress'[j] = {}
    BY <1>1, <2>1, ClosesAlone
  <2>3. \A u \in Tasks : /\ task'[u].pc \in Closing => u = t
                         /\ task'[u].pc \notin Opening \cup {"open", "waiting", "cancelling"}
                         /\ ~task'[u].virtual
    BY <1>5, <2>1, ClosesAlone DEF Moves, Opening
  <2>4. \A j \in Instances : CurrentBar(j)'.batch =>
           task'[t].pc \in Committing /\ task'[t].inst = j /\ task'[t].bar = Len(bars'[j])
    BY <1>5, <1>6, <2>1, ClosesAlone DEF Moves, Committing
  <2> QED
    BY <2>1, <2>2, <2>3, <2>4
<1>11. OneAtATime'
  <2> SUFFICES ASSUME ~careless', ~(faults' > 1) PROVE OneAtATime'
    BY DEF OneAtATime
  <2> QED
    BY <1>10, CarefulNext
<1>12. BarsAreCommitted'
  <2> SUFFICES ASSUME ~careless', faults' = 0 PROVE BarsAreCommitted'
    BY DEF BarsAreCommitted
  <2>1. ~careless /\ faults = 0 /\ ~(faults' > 1) /\ faults' = 0
    BY <1>1, <1>6
  <2>2. \A u \in Tasks : InstanceOf(u)' = InstanceOf(u) /\ InstanceOf(u) = task[u].inst
    BY <1>5 DEF InstanceOf, Moves
  <2>3. n = Len(bars[i])
    BY <1>1, <2>1, KeptNow DEF Committing, i
  <2>4. \A u \in Tasks : task'[u].pc \notin {"open"} /\ (task'[u].pc \in Committing => u = t)
    BY <1>10, <2>1 DEF Committing, Closing
  <2>5. \A u \in Tasks : task'[u].pc \in Committing => task'[u].bar = Len(bars'[InstanceOf(u)])
    BY <1>1, <1>5, <1>6, <2>3, <2>4 DEF Moves, i
  <2>6. \A u \in Tasks : task'[u].pc = "anchored" => CurrentBar(InstanceOf(u)).writes' = {}
    <3>1. CurrentBar(InstanceOf(t)).writes' = {}
      <4>1. \A j \in Instances : j = i => CurrentBar(j)'.writes = {}
        BY <1>6, <2>1, <2>3
      <4>2. CurrentBar(InstanceOf(t))' = Last(bars'[i]) /\ \A j \in Instances : CurrentBar(j)' = Last(bars'[j])
        BY <2>2 DEF CurrentBar, i
      <4> QED
        BY <1>1, <4>1, <4>2
    <3> QED
      BY <2>4, <3>1 DEF Committing
  <2>7. \A u \in Tasks : Kept(u) => Kept(u)'
    <3> SUFFICES ASSUME NEW u \in Tasks, Kept(u) PROVE Kept(u)'
      OBVIOUS
    <3>1. CASE u \in anchored
      BY <1>6, <3>1 DEF Kept
    <3>2. ASSUME NEW j \in Instances, CurrentBar(j).batch, u \in CurrentBar(j).writes
          PROVE  Kept(u)'
      <4>1. CASE j = i
        BY <1>6, <2>1, <2>3, <3>2, <4>1 DEF Kept
      <4>2. CASE j # i
        BY <1>6, <3>2, <4>2 DEF Kept
      <4> QED
        BY <4>1, <4>2
    <3> QED
      BY <3>1, <3>2 DEF Kept
  <2>8. \A u \in Tasks : /\ task'[u].pc \in Committing \cup {"open", "notifying", "done"}
                         /\ task'[u].wrote
                         => Kept(u)'
    BY <1>1, <1>5, <2>1, <2>7, KeptNow DEF Moves, Committing
  <2> QED
    BY <2>2, <2>4, <2>5, <2>6, <2>8, KeptNext
<1> QED
  BY <1>7, <1>8, <1>9, <1>11, <1>12 DEF Inv

\* A batch is committed: its bar leaves the batch and the instances are notified.
LEMMA BatchCommittedInv ==
    ASSUME Inv, NEW t \in Tasks, BatchCommitted(t), UNCHANGED careless
    PROVE  Inv'
<1> DEFINE i == InstanceOf(t)
           n == task[t].bar
           b == [bars[i][n] EXCEPT !.batch = FALSE]
<1>1. /\ task[t].pc = "anchored" /\ i \in Instances /\ i = task[t].inst
      /\ n \in DOMAIN bars[i] /\ bars[i][n] \in Bar /\ task[t].failed \in BOOLEAN
      /\ inProgress \in [Instances -> SUBSET Tasks]
      /\ UNCHANGED <<anchored, faults, careless>>
      /\ faults \in Nat
      /\ SetBar(i, n, b) /\ Notify(t, task[t].failed, inProgress)
  BY Typing DEF BatchCommitted, At, Inv, InstanceOf, TypeOK
<1>2. b \in Bar /\ ~b.batch
  BY <1>1 DEF Bar
<1> HIDE DEF b
<1>3. /\ bars' \in [Instances -> Seq(Bar)]
      /\ \A j \in Instances :
            /\ bars'[j] # <<>>
            /\ DOMAIN bars'[j] = DOMAIN bars[j] /\ Len(bars'[j]) = Len(bars[j])
            /\ CurrentBar(j)' = IF j = i /\ n = Len(bars[i]) THEN b ELSE CurrentBar(j)
  BY <1>1, <1>2, SetBarEffect DEF Inv
<1>4. /\ task' \in [Tasks -> Task] /\ inProgress' \in [Instances -> SUBSET Tasks]
      /\ lock' \in Tasks \cup {None}
      /\ continuations' \in [Instances -> Seq(Continuation)] /\ order' \in Seq(Instances)
      /\ loading' \subseteq [task: Tasks, inst: Instances]
      /\ \A u \in Tasks : /\ task'[u].inst = task[u].inst /\ task'[u].bar = task[u].bar
                          /\ task'[u].wrote = task[u].wrote
      /\ task'[t].pc \in {"notifying", "failed", "done"}
      /\ order = <<>> => /\ \A u \in Tasks : u # t => task'[u].pc = task[u].pc
                         /\ \A u \in Tasks : task'[u].virtual = task[u].virtual
                         /\ inProgress' = inProgress /\ order' = <<>>
  BY <1>1, NotifyEffect DEF Inv, At
<1>5. StepsInOrder' /\ LockIsHeld'
  BY <1>1, NotifyKeeps
<1>6. TypeOK'
  <2>1. \A u \in Tasks : task'[u].bar \in DOMAIN bars'[task'[u].inst]
    BY <1>3, <1>4, Typing DEF Inv, InstanceOf
  <2>2. anchored' \subseteq Tasks /\ faults' \in 0..MaxFaults /\ careless' \in BOOLEAN
    BY <1>1 DEF Inv, TypeOK
  <2> QED
    BY <1>3, <1>4, <2>1, <2>2 DEF TypeOK
<1>7. ASSUME ~careless', ~(faults' > 1)
      PROVE  /\ ~careless /\ faults <= 1 /\ order = <<>> /\ order' = <<>>
             /\ \A j \in Instances : /\ inProgress'[j] = {} /\ ~CurrentBar(j)'.batch
                                     /\ CurrentBar(j).batch => j = i
             /\ \A u \in Tasks : /\ task'[u].pc \notin Opening \cup
                                       {"open", "waiting", "cancelling", "committing", "anchored"}
                                 /\ ~task'[u].virtual
  <2>1. ~careless /\ faults <= 1 /\ task[t].pc \in Closing
    BY <1>1, <1>7 DEF Closing
  <2>2. order = <<>> /\ order' = <<>> /\ \A j \in Instances : inProgress'[j] = {}
    BY <1>4, <2>1, ClosesAlone
  <2>3. \A j \in Instances : ~CurrentBar(j)'.batch /\ (CurrentBar(j).batch => j = i)
    BY <1>1, <1>2, <1>3, <2>1, ClosesAlone
  <2>4. \A u \in Tasks : /\ task'[u].pc \notin Opening \cup
                               {"open", "waiting", "cancelling", "committing", "anchored"}
                         /\ ~task'[u].virtual
    BY <1>4, <2>1, ClosesAlone DEF Closing, Opening
  <2> QED
    BY <2>1, <2>2, <2>3, <2>4
<1>8. OneAtATime'
  <2> SUFFICES ASSUME ~careless', ~(faults' > 1) PROVE OneAtATime'
    BY DEF OneAtATime
  <2> QED
    BY <1>7, CarefulNext
<1>9. BarsAreCommitted'
  <2> SUFFICES ASSUME ~careless', faults' = 0 PROVE BarsAreCommitted'
    BY DEF BarsAreCommitted
  <2>1. ~careless /\ faults = 0 /\ ~(faults' > 1) /\ order = <<>>
    BY <1>1, <1>7
  <2>2. CurrentBar(i).writes = {}
    BY <1>1, <2>1, KeptNow
  <2>3. \A u \in Tasks : Kept(u) => Kept(u)'
    BY <1>1, <1>7, <2>1, <2>2 DEF Kept
  <2>4. \A u \in Tasks : /\ task'[u].pc \in Committing \cup {"open", "notifying", "done"}
                         /\ task'[u].wrote
                         => Kept(u)'
    BY <1>1, <1>4, <2>1, <2>3, KeptNow DEF Committing
  <2>5. \A u \in Tasks : task'[u].pc \notin Committing \cup {"open"}
    BY <1>7, <2>1 DEF Committing
  <2>6. \A u \in Tasks : InstanceOf(u)' = InstanceOf(u)
    BY <1>4 DEF InstanceOf
  <2> QED
    BY <2>4, <2>5, <2>6, KeptNext DEF Committing
<1> QED
  BY <1>5, <1>6, <1>8, <1>9 DEF Inv

\* Releasing the lock keeps the order of steps, and leaves nobody who closes a batch.
LEMMA UnlockKeeps ==
    ASSUME Inv, NEW t \in Tasks, NEW tasks \in [Tasks -> Task],
           NEW batches \in [Instances -> SUBSET Tasks], UnlockAnchorId(tasks, batches),
           \A u \in Tasks : /\ tasks[u].inst = task[u].inst /\ tasks[u].bar = task[u].bar
                            /\ tasks[u].wrote = task[u].wrote,
           \A u \in Tasks : \/ tasks[u].pc = task[u].pc
                            \/ /\ u = t /\ task[t].pc # "waiting"
                               /\ tasks[t].pc \in {"done", "failed"},
           \A l \in loading' : l \in loading /\ (faults' = 0 => tasks[l.task].pc = task[l.task].pc),
           faults' = 0 => faults = 0,
           faults' > 1 \/ \A u \in Tasks : tasks[u].pc \notin Closing
    PROVE  /\ lock' = None
           /\ task' \in [Tasks -> Task] /\ inProgress' \in [Instances -> SUBSET Tasks]
           /\ continuations' \in [Instances -> Seq(Continuation)] /\ order' \in Seq(Instances)
           /\ \A u \in Tasks :
                 /\ task'[u].inst = task[u].inst /\ task'[u].bar = task[u].bar
                 /\ task'[u].wrote = task[u].wrote
           /\ order = <<>> => task' = tasks /\ inProgress' = batches /\ order' = <<>>
           /\ StepsInOrder' /\ LockIsHeld'
<1>1. /\ lock' = None
      /\ task' \in [Tasks -> Task] /\ inProgress' \in [Instances -> SUBSET Tasks]
      /\ continuations' \in [Instances -> Seq(Continuation)] /\ order' \in Seq(Instances)
      /\ \A u \in Tasks :
            /\ task'[u].inst = tasks[u].inst /\ task'[u].bar = tasks[u].bar
            /\ task'[u].wrote = tasks[u].wrote
            /\ \/ task'[u] = tasks[u]
               \/ At(u, "waiting") /\ task'[u].pc \in {"refreshing", "checking", "open"}
      /\ \A j \in Instances : \A n \in DOMAIN continuations'[j] :
            /\ n \in DOMAIN continuations[j]
            /\ continuations'[j][n] = continuations[j][n]
            /\ task'[continuations[j][n].task] = tasks[continuations[j][n].task]
      /\ order = <<>> => task' = tasks /\ inProgress' = batches /\ UNCHANGED waiting
  BY UnlockEffect DEF Inv
<1>2. \A u \in Tasks : /\ task'[u].inst = task[u].inst /\ task'[u].bar = task[u].bar
                       /\ task'[u].wrote = task[u].wrote
  BY <1>1
<1>3. order = <<>> => order' = <<>>
  BY <1>1 DEF waiting
<1>4. StepsInOrder'
  <2>1. ASSUME NEW j \in Instances, NEW n \in DOMAIN continuations'[j]
        PROVE  LET u == continuations'[j][n].task IN task'[u].pc = "waiting" /\ task'[u].inst = j
    <3> DEFINE u == continuations[j][n].task
    <3>1. n \in DOMAIN continuations[j] /\ continuations'[j][n].task = u /\ task'[u] = tasks[u]
      BY <1>1, <2>1
    <3>2. u \in Tasks /\ task[u].pc = "waiting" /\ InstanceOf(u) = j
      BY <3>1, Typing DEF Inv, StepsInOrder, At
    <3>3. tasks[u].pc = "waiting"
      BY <3>2
    <3> QED
      BY <3>1, <3>2, <3>3, <1>2 DEF InstanceOf
  <2>2. ASSUME NEW u \in Tasks, task'[u].pc \in {"idle", "waiting"} \cup Opening
        PROVE  ~task'[u].wrote
    <3>1. task[u].pc \in {"idle", "waiting"} \cup Opening
      <4>1. CASE task'[u] = tasks[u]
        BY <2>2, <4>1 DEF Opening
      <4>2. CASE At(u, "waiting")
        BY <4>2 DEF At
      <4> QED
        BY <1>1, <4>1, <4>2
    <3> QED
      BY <1>2, <3>1 DEF Inv, StepsInOrder
  <2>3. ASSUME faults' = 0, NEW l \in loading'
        PROVE  task'[l.task].pc = "notifying"
    <3>1. l.task \in Tasks /\ task[l.task].pc = "notifying" /\ tasks[l.task].pc = "notifying"
      BY <2>3 DEF Inv, StepsInOrder, At, TypeOK
    <3> QED
      BY <1>1, <3>1 DEF At
  <2> QED
    BY <2>1, <2>2, <2>3 DEF StepsInOrder, At, InstanceOf
<1>5. LockIsHeld'
  BY <1>1 DEF LockIsHeld, Closing
<1> QED
  BY <1>1, <1>2, <1>3, <1>4, <1>5

\* A batch is cancelled, which careful callers do not do.
LEMMA CancelBatchInv ==
    ASSUME Inv, NEW t \in Tasks, CancelBatch(t)
    PROVE  Inv'
<1> DEFINE i == InstanceOf(t)
           b == [CurrentBar(i) EXCEPT !.batch = FALSE]
<1>1. /\ task[t].pc = "open" /\ i \in Instances /\ i = task[t].inst /\ careless' = TRUE
      /\ UNCHANGED <<anchored, faults>> /\ faults \in Nat
  BY Typing DEF CancelBatch, At, Inv, InstanceOf, TypeOK
<1>2. /\ Left(t) \in [Instances -> SUBSET Tasks]
      /\ \A j \in Instances :
            Left(t)[j] = IF j = task[t].inst THEN inProgress[j] \ {t} ELSE inProgress[j]
  BY <1>1 DEF Inv, TypeOK, Left
<1>3. OneAtATime' /\ BarsAreCommitted'
  BY <1>1 DEF OneAtATime, BarsAreCommitted
<1>4. \/ LeavesOnly(t, "failed") /\ UNCHANGED bars
      \/ lock = None /\ OnCurrentBar(t, "cancelling") /\ SetBar(i, Len(bars[i]), b)
      \/ /\ lock = None /\ UnlockAnchorId(Ended(t, TRUE), Left(t)) /\ UNCHANGED <<bars, loading>>
  BY DEF CancelBatch
<1>5. CASE LeavesOnly(t, "failed") /\ UNCHANGED bars
  <2>1. Goto(t, "failed") /\ inProgress' = Left(t) /\ UNCHANGED <<lock, waiting, loading>>
        /\ continuations' = continuations /\ order' = order
    BY <1>5 DEF LeavesOnly, waiting
  <2>2. Moves(t, "failed")
    BY <2>1, GotoEffect DEF Inv, Steps
  <2>3. TypeOK'
    BY <1>1, <1>2, <1>5, <2>1, <2>2 DEF Inv, TypeOK, Moves
  <2>4. LockIsHeld'
    BY <1>1, <2>1, <2>2, MoveKeepsLock DEF Inv, Closing
  <2>5. StepsInOrder'
    BY <1>1, <2>1, <2>2, MoveKeepsSteps DEF Inv, Opening
  <2> QED
    BY <1>3, <2>3, <2>4, <2>5 DEF Inv
<1>6. CASE lock = None /\ OnCurrentBar(t, "cancelling") /\ SetBar(i, Len(bars[i]), b)
  <2>1. /\ task' \in [Tasks -> Task] /\ inProgress' \in [Instances -> SUBSET Tasks]
        /\ lock' = t /\ continuations' = continuations /\ order' = order /\ loading' = loading
        /\ \A u \in Tasks :
              /\ task'[u].inst = task[u].inst
              /\ task'[u].bar = IF u = t THEN Len(bars[task[t].inst]) ELSE task[u].bar
        /\ StepsInOrder' /\ LockIsHeld'
    BY <1>1, <1>6, OnCurrentBarEffect DEF Inv
  <2>2. b \in Bar /\ Len(bars[i]) \in DOMAIN bars[i]
    BY <1>1, Typing DEF Inv, Bar
  <2> HIDE DEF b
  <2>3. /\ bars' \in [Instances -> Seq(Bar)]
        /\ \A j \in Instances : bars'[j] # <<>> /\ DOMAIN bars'[j] = DOMAIN bars[j]
    BY <1>1, <1>6, <2>2, SetBarEffect DEF Inv
  <2>4. \A u \in Tasks : task'[u].bar \in DOMAIN bars'[task'[u].inst]
    BY <1>1, <2>1, <2>3, Typing DEF Inv, InstanceOf
  <2>5. TypeOK'
    BY <1>1, <2>1, <2>3, <2>4 DEF Inv, TypeOK
  <2> QED
    BY <1>3, <2>1, <2>5 DEF Inv
<1>7. CASE lock = None /\ UnlockAnchorId(Ended(t, TRUE), Left(t)) /\ UNCHANGED <<bars, loading>>
  <2> DEFINE tasks == Ended(t, TRUE)
  <2>1. /\ tasks \in [Tasks -> Task]
        /\ \A u \in Tasks :
              /\ tasks[u].inst = task[u].inst /\ tasks[u].bar = task[u].bar
              /\ tasks[u].wrote = task[u].wrote
              /\ tasks[u].pc = IF u # t THEN task[u].pc ELSE "failed"
    BY FailedEffect DEF Inv
  <2> HIDE DEF tasks
  <2>2. faults' > 1 \/ \A u \in Tasks : tasks[u].pc \notin Closing
    BY <1>1, <1>7, <2>1 DEF Inv, LockIsHeld, Closing
  <2>3. \A l \in loading' : l \in loading /\ (faults' = 0 => tasks[l.task].pc = task[l.task].pc)
    <3>1. ASSUME NEW l \in loading', faults' = 0 PROVE tasks[l.task].pc = task[l.task].pc
      <4>1. l.task \in Tasks /\ task[l.task].pc = "notifying"
        BY <1>1, <1>7, <3>1 DEF Inv, StepsInOrder, At, TypeOK
      <4> QED
        BY <1>1, <2>1, <4>1
    <3> QED
      BY <1>7, <3>1
  <2>4. \A u \in Tasks : \/ tasks[u].pc = task[u].pc
                         \/ u = t /\ task[t].pc # "waiting" /\ tasks[t].pc \in {"done", "failed"}
    BY <1>1, <2>1
  <2>5. UnlockAnchorId(tasks, Left(t))
    BY <1>7 DEF tasks
  <2>6. /\ lock' = None
        /\ task' \in [Tasks -> Task] /\ inProgress' \in [Instances -> SUBSET Tasks]
        /\ continuations' \in [Instances -> Seq(Continuation)] /\ order' \in Seq(Instances)
        /\ \A u \in Tasks :
              /\ task'[u].inst = task[u].inst /\ task'[u].bar = task[u].bar
              /\ task'[u].wrote = task[u].wrote
        /\ StepsInOrder' /\ LockIsHeld'
    BY <1>1, <1>2, <2>1, <2>2, <2>3, <2>4, <2>5, UnlockKeeps
  <2>7. TypeOK'
    BY <1>1, <1>7, <2>6 DEF Inv, TypeOK
  <2> QED
    BY <1>3, <2>6, <2>7 DEF Inv
<1> QED
  BY <1>4, <1>5, <1>6, <1>7

\* The bar of a cancelled batch is loaded again, or not.
LEMMA BatchCancelledInv ==
    ASSUME Inv, NEW t \in Tasks, BatchCancelled(t), UNCHANGED careless
    PROVE  Inv'
<1> DEFINE i == InstanceOf(t)
           n == task[t].bar
<1>1. /\ task[t].pc = "cancelling" /\ i \in Instances /\ i = task[t].inst
      /\ n \in DOMAIN bars[i] /\ inProgress \in [Instances -> SUBSET Tasks]
      /\ UNCHANGED <<anchored, careless>> /\ faults \in Nat /\ faults <= MaxFaults
  BY Typing DEF BatchCancelled, At, Inv, InstanceOf, TypeOK
<1>2. \/ SetBar(i, n, LoadedBar) /\ Notify(t, FALSE, inProgress) /\ UNCHANGED faults
      \/ /\ faults < MaxFaults /\ faults' = faults + 1
         /\ UnlockAnchorId(Ended(t, TRUE), inProgress) /\ UNCHANGED <<bars, loading>>
  BY DEF BatchCancelled, Fault
<1>3. careless' \/ faults' > 1
  <2>1. careless \/ faults > 1
    BY <1>1, CarefulNow
  <2>2. careless' = careless /\ (faults' = faults \/ faults' = faults + 1)
    BY <1>1, <1>2
  <2> QED
    BY <1>1, <2>1, <2>2
<1>4. OneAtATime' /\ BarsAreCommitted'
  BY <1>3 DEF OneAtATime, BarsAreCommitted
<1>5. CASE SetBar(i, n, LoadedBar) /\ Notify(t, FALSE, inProgress) /\ UNCHANGED faults
  <2>1. LoadedBar \in Bar
    BY DEF LoadedBar, Bar
  <2>2. /\ bars' \in [Instances -> Seq(Bar)]
        /\ \A j \in Instances : bars'[j] # <<>> /\ DOMAIN bars'[j] = DOMAIN bars[j]
    BY <1>1, <1>5, <2>1, SetBarEffect DEF Inv
  <2>3. /\ task' \in [Tasks -> Task] /\ inProgress' \in [Instances -> SUBSET Tasks]
        /\ lock' \in Tasks \cup {None}
        /\ continuations' \in [Instances -> Seq(Continuation)] /\ order' \in Seq(Instances)
        /\ loading' \subseteq [task: Tasks, inst: Instances]
        /\ \A u \in Tasks : task'[u].inst = task[u].inst /\ task'[u].bar = task[u].bar
    BY <1>1, <1>5, NotifyEffect DEF Inv, At
  <2>4. StepsInOrder' /\ LockIsHeld'
    BY <1>1, <1>5, NotifyKeeps
  <2>5. TypeOK'
    BY <1>1, <1>5, <2>2, <2>3, Typing DEF Inv, TypeOK, InstanceOf
  <2> QED
    BY <1>4, <2>4, <2>5 DEF Inv
<1>6. CASE /\ faults < MaxFaults /\ faults' = faults + 1
           /\ UnlockAnchorId(Ended(t, TRUE), inProgress) /\ UNCHANGED <<bars, loading>>
  <2> DEFINE tasks == Ended(t, TRUE)
  <2>1. /\ tasks \in [Tasks -> Task]
        /\ \A u \in Tasks :
              /\ tasks[u].inst = task[u].inst /\ tasks[u].bar = task[u].bar
              /\ tasks[u].wrote = task[u].wrote
              /\ tasks[u].pc = IF u # t THEN task[u].pc ELSE "failed"
    BY FailedEffect DEF Inv
  <2> HIDE DEF tasks
  <2>2. faults' # 0 /\ (faults' > 1 \/ ~(faults > 1))
    BY <1>1, <1>6
  <2>3. faults' > 1 \/ \A u \in Tasks : tasks[u].pc \notin Closing
    <3> SUFFICES ASSUME ~(faults > 1), NEW u \in Tasks PROVE tasks[u].pc \notin Closing
      BY <2>2
    <3>1. \A v \in Tasks : task[v].pc \in Closing => lock = v
      BY DEF Inv, LockIsHeld
    <3>2. lock = t
      BY <1>1, <3>1 DEF Closing
    <3> QED
      BY <2>1, <3>1, <3>2 DEF Closing
  <2>4. \A u \in Tasks : \/ tasks[u].pc = task[u].pc
                         \/ u = t /\ task[t].pc # "waiting" /\ tasks[t].pc \in {"done", "failed"}
    BY <1>1, <2>1
  <2>5. UnlockAnchorId(tasks, inProgress)
    BY <1>6 DEF tasks
  <2>6. \A l \in loading' : l \in loading /\ (faults' = 0 => tasks[l.task].pc = task[l.task].pc)
    BY <1>6, <2>2
  <2>7. /\ lock' = None
        /\ task' \in [Tasks -> Task] /\ inProgress' \in [Instances -> SUBSET Tasks]
        /\ continuations' \in [Instances -> Seq(Continuation)] /\ order' \in Seq(Instances)
        /\ \A u \in Tasks :
              /\ task'[u].inst = task[u].inst /\ task'[u].bar = task[u].bar
              /\ task'[u].wrote = task[u].wrote
        /\ StepsInOrder' /\ LockIsHeld'
    BY <1>1, <2>1, <2>2, <2>3, <2>4, <2>5, <2>6, UnlockKeeps
  <2>8. faults' \in 0..MaxFaults /\ bars' = bars /\ loading' = loading
    BY <1>1, <1>6
  <2>9. TypeOK'
    BY <1>1, <2>7, <2>8 DEF Inv, TypeOK
  <2> QED
    BY <1>4, <2>7, <2>9 DEF Inv
<1> QED
  BY <1>2, <1>5, <1>6

\* A refresh that a closing call asked for ends.
LEMMA NotifiedInstanceInv ==
    ASSUME Inv, NEW t \in Tasks, NEW i \in Instances, NotifiedInstance(t, i), UNCHANGED careless
    PROVE  Inv'
<1> DEFINE l == [task |-> t, inst |-> i]
<1>1. /\ l \in loading /\ loading' = loading \ {l} /\ l.task = t
      /\ UNCHANGED <<anchored, careless>> /\ faults \in Nat /\ faults <= MaxFaults
      /\ task \in [Tasks -> Task] /\ inProgress \in [Instances -> SUBSET Tasks]
      /\ task[t].failed \in BOOLEAN /\ loading \subseteq [task: Tasks, inst: Instances]
  BY Typing DEF NotifiedInstance, Inv, TypeOK
<1>2. faults = 0 => task[t].pc = "notifying"
  BY <1>1 DEF Inv, StepsInOrder, At
<1>3. \A m \in loading : m.task \in Tasks /\ (faults = 0 => task[m.task].pc = "notifying")
  BY <1>1 DEF Inv, StepsInOrder, At
<1>4. ASSUME ~careless, faults <= 1, task[t].pc = "notifying"
      PROVE  /\ lock = t /\ order = <<>>
             /\ \A j \in Instances : inProgress[j] = {} /\ ~CurrentBar(j).batch
             /\ \A u \in Tasks : /\ task[u].pc \in Closing => u = t
                                 /\ task[u].pc \notin Opening \cup {"open", "waiting", "cancelling"}
                                 /\ ~task[u].virtual
  BY <1>4, ClosesAlone DEF Closing, Committing
<1>5. \/ /\ Reload(i) /\ UNCHANGED faults
         /\ \/ /\ task[t].pc = "notifying" /\ \A m \in loading : m.task = t => m = l
               /\ UnlockAnchorId(Ended(t, task[t].failed), inProgress)
            \/ UNCHANGED <<task, inProgress, lock, waiting>>
      \/ /\ faults < MaxFaults /\ faults' = faults + 1 /\ UNCHANGED bars
         /\ \/ lock = None /\ UNCHANGED <<task, inProgress, lock, waiting>>
            \/ task[t].pc = "notifying" /\ UnlockAnchorId(Ended(t, TRUE), inProgress)
            \/ task[t].pc # "notifying" /\ UnlockAnchorId(task, inProgress)
  BY DEF NotifiedInstance, Fault, At
<1>6. /\ bars' \in [Instances -> Seq(Bar)] /\ faults' \in 0..MaxFaults /\ faults <= faults'
      /\ \A j \in Instances :
            /\ bars'[j] # <<>> /\ DOMAIN bars[j] \subseteq DOMAIN bars'[j]
            /\ CurrentBar(j)'.batch => CurrentBar(j).batch /\ Len(bars'[j]) = Len(bars[j])
  <2>1. CASE Reload(i) /\ UNCHANGED faults
    <3>1. /\ bars' \in [Instances -> Seq(Bar)]
          /\ \A j \in Instances :
                /\ bars'[j] # <<>>
                /\ DOMAIN bars[j] \subseteq DOMAIN bars'[j]
                /\ j # i => Len(bars'[j]) = Len(bars[j])
                /\ CurrentBar(j)' = IF j = i THEN LoadedBar ELSE CurrentBar(j)
      BY <2>1, ReloadEffect DEF Inv
    <3>2. ~LoadedBar.batch
      BY DEF LoadedBar
    <3> QED
      BY <1>1, <2>1, <3>1, <3>2
  <2>2. CASE faults < MaxFaults /\ faults' = faults + 1 /\ UNCHANGED bars
    <3>1. \A j \in Instances : CurrentBar(j)' = CurrentBar(j)
      BY <2>2 DEF CurrentBar
    <3> QED
      BY <1>1, <2>2, <3>1 DEF Inv, TypeOK
  <2> QED
    BY <1>5, <2>1, <2>2
<1>7. CASE UNCHANGED <<task, inProgress, lock, waiting>>
  <2>1. task' = task /\ inProgress' = inProgress /\ lock' = lock
        /\ continuations' = continuations /\ order' = order
    BY <1>7 DEF waiting
  <2>2. TypeOK'
    <3>1. \A u \in Tasks : task[u].bar \in DOMAIN bars'[task[u].inst]
      BY <1>6, Typing DEF Inv, InstanceOf
    <3> QED
      BY <1>1, <1>6, <2>1, <3>1 DEF Inv, TypeOK
  <2>3. LockIsHeld'
    BY <1>1, <1>6, <2>1 DEF Inv, LockIsHeld
  <2>4. StepsInOrder'
    <3>1. faults' = 0 => faults = 0
      BY <1>1, <1>6
    <3> QED
      BY <1>1, <2>1, <3>1 DEF Inv, StepsInOrder, At, InstanceOf
  <2>5. OneAtATime'
    <3> SUFFICES ASSUME ~careless', ~(faults' > 1) PROVE OneAtATime'
      BY DEF OneAtATime
    <3>1. ~careless /\ faults <= 1
      BY <1>1, <1>6
    <3>2. \A j \in Instances : CurrentBar(j)'.batch =>
             \/ inProgress'[j] # {}
             \/ \E u \in Tasks : task'[u].pc \in Committing /\ task'[u].inst = j /\ task'[u].bar = Len(bars'[j])
      <4>1. \A j \in Instances : CurrentBar(j).batch =>
               \/ inProgress[j] # {}
               \/ \E u \in Tasks : task[u].pc \in Committing /\ task[u].inst = j /\ task[u].bar = Len(bars[j])
        BY <3>1, CarefulNow
      <4> QED
        BY <1>6, <2>1, <4>1
    <3>3. /\ order = <<>>
          /\ \A u \in Tasks : task[u].pc \notin {"waiting", "cancelling"} /\ ~task[u].virtual
          /\ \A u, v \in Tasks : task[u].pc \in Opening /\ task[v].pc \in Opening => u = v
          /\ \A u \in Tasks : task[u].pc \in Opening => lock = None
          /\ \A u \in Tasks : task[u].pc \in Opening => \A j \in Instances : inProgress[j] = {}
          /\ lock # None => \A j \in Instances : inProgress[j] = {}
          /\ \A u \in Tasks, j \in Instances :
                u \in inProgress[j] <=> task[u].pc = "open" /\ task[u].inst = j
          /\ \A j, k \in Instances : inProgress[j] # {} /\ inProgress[k] # {} => j = k
      BY <3>1, CarefulNow
    <3> QED
      BY <2>1, <3>2, <3>3, CarefulNext
  <2>6. BarsAreCommitted'
    <3> SUFFICES ASSUME ~careless', faults' = 0 PROVE BarsAreCommitted'
      BY DEF BarsAreCommitted
    <3>1. ~careless /\ faults = 0 /\ task[t].pc = "notifying"
      BY <1>1, <1>2, <1>6
    <3>2. \A u \in Tasks : task'[u].pc \notin Committing \cup {"open"}
      BY <1>1, <1>4, <2>1, <3>1 DEF Closing, Committing
    <3>3. \A u \in Tasks : Kept(u) => Kept(u)'
      BY <1>1, <1>4, <3>1 DEF Kept
    <3>4. \A u \in Tasks : /\ task'[u].pc \in Committing \cup {"open", "notifying", "done"}
                           /\ task'[u].wrote
                           => Kept(u)'
      BY <2>1, <3>1, <3>3, KeptNow
    <3>5. \A u \in Tasks : InstanceOf(u)' = InstanceOf(u)
      BY <2>1 DEF InstanceOf
    <3> QED
      BY <3>2, <3>4, <3>5, KeptNext DEF Committing
  <2> QED
    BY <2>2, <2>3, <2>4, <2>5, <2>6 DEF Inv
<1>8. ASSUME NEW tasks \in [Tasks -> Task], UnlockAnchorId(tasks, inProgress),
             \A u \in Tasks : /\ tasks[u].inst = task[u].inst /\ tasks[u].bar = task[u].bar
                              /\ tasks[u].wrote = task[u].wrote /\ tasks[u].virtual = task[u].virtual
                              /\ u # t => tasks[u].pc = task[u].pc,
             \/ task[t].pc = "notifying" /\ tasks[t].pc \in {"done", "failed"}
             \/ task[t].pc # "notifying" /\ tasks[t].pc = task[t].pc /\ faults' = faults + 1,
             faults' # faults + 1 => faults' = faults /\ \A m \in loading : m.task = t => m = l
      PROVE  Inv'
  <2>1. \A u \in Tasks : \/ tasks[u].pc = task[u].pc
                         \/ u = t /\ task[t].pc # "waiting" /\ tasks[t].pc \in {"done", "failed"}
    BY <1>8
  <2>2. faults' = 0 => faults = 0
    BY <1>1, <1>6
  <2>3. \A m \in loading' : m \in loading /\ (faults' = 0 => tasks[m.task].pc = task[m.task].pc)
    <3>1. ASSUME NEW m \in loading', faults' = 0 PROVE tasks[m.task].pc = task[m.task].pc
      <4>1. m \in loading /\ m # l /\ m.task # t
        BY <1>1, <1>8, <3>1
      <4> QED
        BY <1>3, <1>8, <4>1
    <3> QED
      BY <1>1, <3>1
  <2>4. faults' > 1 \/ (faults <= 1 /\ task[t].pc = "notifying")
    BY <1>1, <1>2, <1>8
  <2>5. faults' > 1 \/ \A u \in Tasks : tasks[u].pc \notin Closing
    <3> SUFFICES ASSUME ~(faults' > 1), NEW u \in Tasks PROVE tasks[u].pc \notin Closing
      OBVIOUS
    <3>1. \A v \in Tasks : task[v].pc \in Closing => lock = v
      BY <1>1, <2>4 DEF Inv, LockIsHeld
    <3>2. lock = t /\ tasks[t].pc \notin Closing
      BY <1>8, <2>4, <3>1 DEF Closing
    <3> QED
      BY <1>8, <3>1, <3>2
  <2>6. /\ lock' = None
        /\ task' \in [Tasks -> Task] /\ inProgress' \in [Instances -> SUBSET Tasks]
        /\ continuations' \in [Instances -> Seq(Continuation)] /\ order' \in Seq(Instances)
        /\ \A u \in Tasks :
              /\ task'[u].inst = task[u].inst /\ task'[u].bar = task[u].bar
              /\ task'[u].wrote = task[u].wrote
        /\ order = <<>> => task' = tasks /\ inProgress' = inProgress /\ order' = <<>>
        /\ StepsInOrder' /\ LockIsHeld'
    BY <1>1, <1>8, <2>1, <2>2, <2>3, <2>5, UnlockKeeps
  <2>7. TypeOK'
    <3>1. \A u \in Tasks : task'[u].bar \in DOMAIN bars'[task'[u].inst]
      BY <1>6, <2>6, Typing DEF Inv, InstanceOf
    <3>2. loading' \subseteq [task: Tasks, inst: Instances]
      BY <1>1
    <3> QED
      BY <1>1, <1>6, <2>6, <3>1, <3>2 DEF Inv, TypeOK
  <2>8. ASSUME ~careless', ~(faults' > 1)
        PROVE  /\ ~careless /\ faults <= 1 /\ order' = <<>> /\ task' = tasks
               /\ \A j \in Instances : /\ inProgress'[j] = {}
                                       /\ ~CurrentBar(j)'.batch /\ ~CurrentBar(j).batch
               /\ \A u \in Tasks : /\ task'[u].pc \notin Opening \cup Closing \cup {"open", "waiting"}
                                   /\ ~task'[u].virtual
    <3>1. ~careless /\ faults <= 1 /\ task[t].pc = "notifying"
      BY <1>1, <2>4, <2>8
    <3>2. order' = <<>> /\ task' = tasks
      BY <1>4, <2>6, <3>1
    <3>3. \A j \in Instances : /\ inProgress'[j] = {}
                               /\ ~CurrentBar(j)'.batch /\ ~CurrentBar(j).batch
      BY <1>4, <1>6, <2>6, <3>1
    <3>4. \A u \in Tasks : /\ task'[u].pc \notin Opening \cup Closing \cup {"open", "waiting"}
                           /\ ~task'[u].virtual
      BY <1>4, <1>8, <2>5, <2>8, <3>1, <3>2 DEF Opening
    <3> QED
      BY <3>1, <3>2, <3>3, <3>4
  <2>9. OneAtATime'
    <3> SUFFICES ASSUME ~careless', ~(faults' > 1) PROVE OneAtATime'
      BY DEF OneAtATime
    <3>1. \A u \in Tasks : task'[u].pc \notin Opening \cup {"open", "waiting", "cancelling"}
      BY <2>8 DEF Closing
    <3> QED
      BY <2>6, <2>8, <3>1, CarefulNext
  <2>10. BarsAreCommitted'
    <3> SUFFICES ASSUME ~careless', faults' = 0 PROVE BarsAreCommitted'
      BY DEF BarsAreCommitted
    <3>1. ~careless /\ faults = 0 /\ task[t].pc = "notifying" /\ ~(faults' > 1)
      BY <1>1, <1>2, <1>6
    <3>2. \A u \in Tasks : task'[u].pc \notin Committing \cup {"open", "notifying"}
      BY <2>8, <3>1 DEF Closing, Committing
    <3>3. \A u \in Tasks : Kept(u) => Kept(u)'
      BY <1>1, <2>8, <3>1 DEF Kept
    <3>4. \A u \in Tasks : task'[u].pc = "done" => task[u].pc \in {"notifying", "done"}
      BY <1>8, <2>8, <3>1
    <3>5. \A u \in Tasks : /\ task'[u].pc \in Committing \cup {"open", "notifying", "done"}
                           /\ task'[u].wrote
                           => Kept(u)'
      BY <2>6, <3>1, <3>2, <3>3, <3>4, KeptNow
    <3>6. \A u \in Tasks : InstanceOf(u)' = InstanceOf(u)
      BY <2>6 DEF InstanceOf
    <3> QED
      BY <3>2, <3>5, <3>6, KeptNext DEF Committing
  <2> QED
    BY <2>6, <2>7, <2>9, <2>10 DEF Inv
<1>9. CASE /\ faults' = faults /\ task[t].pc = "notifying" /\ \A m \in loading : m.task = t => m = l
           /\ UnlockAnchorId(Ended(t, task[t].failed), inProgress)
  <2> DEFINE failed == task[t].failed
             tasks == Ended(t, failed)
  <2>1. /\ tasks \in [Tasks -> Task]
        /\ \A u \in Tasks :
              /\ tasks[u].inst = task[u].inst /\ tasks[u].bar = task[u].bar
              /\ tasks[u].wrote = task[u].wrote /\ tasks[u].virtual = task[u].virtual
              /\ tasks[u].pc = IF u # t THEN task[u].pc ELSE IF failed THEN "failed" ELSE "done"
    BY <1>1, EndedEffect DEF Inv
  <2>2. UnlockAnchorId(tasks, inProgress)
    BY <1>9
  <2> HIDE DEF tasks
  <2>3. \A u \in Tasks : u # t => tasks[u].pc = task[u].pc
    BY <2>1
  <2>4. tasks[t].pc \in {"done", "failed"}
    BY <2>1
  <2> HIDE DEF failed, l
  <2> QED
    BY <1>8, <1>9, <2>1, <2>2, <2>3, <2>4
<1>10. CASE /\ faults' = faults + 1 /\ task[t].pc = "notifying"
            /\ UnlockAnchorId(Ended(t, TRUE), inProgress)
  <2> DEFINE tasks == Ended(t, TRUE)
  <2>1. /\ tasks \in [Tasks -> Task]
        /\ \A u \in Tasks :
              /\ tasks[u].inst = task[u].inst /\ tasks[u].bar = task[u].bar
              /\ tasks[u].wrote = task[u].wrote /\ tasks[u].virtual = task[u].virtual
              /\ tasks[u].pc = IF u = t THEN "failed" ELSE task[u].pc
    BY FailedEffect DEF Inv
  <2>2. UnlockAnchorId(tasks, inProgress)
    BY <1>10
  <2> HIDE DEF tasks, l
  <2> QED
    BY <1>8, <1>10, <2>1, <2>2
<1>11. CASE faults' = faults + 1 /\ task[t].pc # "notifying" /\ UnlockAnchorId(task, inProgress)
  <2> HIDE DEF l
  <2> QED
    BY <1>1, <1>8, <1>11
<1> HIDE DEF l
<1> QED
  BY <1>5, <1>7, <1>9, <1>10, <1>11

-----------------------------------------------------------------------------
(* What follows *)

\* Nothing happens.
LEMMA StutterInv == ASSUME Inv, UNCHANGED vars PROVE Inv'
<1>1. /\ task' = task /\ bars' = bars /\ inProgress' = inProgress /\ lock' = lock
      /\ continuations' = continuations /\ order' = order /\ loading' = loading
      /\ anchored' = anchored /\ faults' = faults /\ careless' = careless
  BY DEF vars, waiting
<1>2. TypeOK' /\ LockIsHeld' /\ StepsInOrder'
  BY <1>1 DEF Inv, TypeOK, LockIsHeld, StepsInOrder, At, InstanceOf
<1>3. OneAtATime'
  BY <1>1 DEF Inv, OneAtATime, At, InstanceOf, CurrentBar, BatchInProgress
<1>4. BarsAreCommitted'
  BY <1>1 DEF Inv, BarsAreCommitted, Kept, At, InstanceOf, CurrentBar
<1> QED
  BY <1>2, <1>3, <1>4 DEF Inv

\* The inductive invariant: types, the lock of who closes, the order of the steps and,
\* for careful callers, one batch at a time on bars that its commit anchors.
THEOREM InductiveInvariant == Spec => []Inv
<1>1. ASSUME Inv, [Next]_vars PROVE Inv'
  <2>1. CASE UNCHANGED vars
    BY <1>1, <2>1, StutterInv
  <2>2. ASSUME NEW t \in Tasks, SafeBeginBatch(t) PROVE Inv'
    BY <1>1, <2>2, SafeBeginBatchInv
  <2>3. ASSUME NEW t \in Tasks, Write(t), UNCHANGED careless PROVE Inv'
    BY <1>1, <2>3, WriteInv
  <2>4. ASSUME NEW t \in Tasks, Close(t) PROVE Inv'
    BY <1>1, <2>4, CommitBatchInv, CancelBatchInv DEF Close
  <2>5. ASSUME NEW t \in Tasks, Callback(t) PROVE Inv'
    <3>1. UNCHANGED careless
      BY <2>5 DEF Callback
    <3>2. CASE Refreshed(t) \/ BeginBatchAsync(t) \/ DoAnchoring(t)
      BY <1>1, <3>1, <3>2, RefreshedInv, BeginBatchAsyncInv, DoAnchoringInv
    <3>3. CASE BatchCommitted(t) \/ BatchCancelled(t)
      BY <1>1, <3>1, <3>3, BatchCommittedInv, BatchCancelledInv
    <3>4. CASE \E i \in Instances : NotifiedInstance(t, i)
      BY <1>1, <3>1, <3>4, NotifiedInstanceInv
    <3> QED
      BY <2>5, <3>2, <3>3, <3>4 DEF Callback
  <2> QED
    BY <1>1, <2>1, <2>2, <2>3, <2>4, <2>5 DEF Next
<1> QED
  BY <1>1, InitInv, PTL DEF Spec

\* Careful callers never find two instances of the DSU in a real batch.
THEOREM OneInstanceBatches == Spec => []OneRealBatch
<1>1. Inv => OneRealBatch
  <2> SUFFICES ASSUME Inv, ~careless, ~(faults > 1), NEW i \in Instances, NEW j \in Instances,
                      CurrentBar(i).batch, CurrentBar(j).batch
               PROVE  i = j
    BY DEF OneRealBatch, OneInBatchMode
  <2>1. faults <= 1
    BY DEF Inv, TypeOK
  <2>2. CASE \E u \in Tasks : task[u].pc \in Committing
    BY <2>1, <2>2, ClosesAlone DEF Committing, Closing
  <2>3. CASE \A u \in Tasks : task[u].pc \notin Committing
    BY <2>1, <2>3, CarefulNow
  <2> QED
    BY <2>2, <2>3
<1> QED
  BY <1>1, InductiveInvariant, PTL

\* What careful callers wrote is anchored or waits in an open batch, as long as no call
\* fails.
THEOREM WritesStay == Spec => []WritesAreKept
<1>1. Inv => WritesAreKept
  <2> SUFFICES ASSUME Inv, ~careless, faults = 0, NEW t \in Tasks,
                      task[t].pc \in {"open", "done"}, task[t].wrote
               PROVE  Kept(t)
    BY DEF WritesAreKept, Kept
  <2> QED
    BY KeptNow
<1> QED
  BY <1>1, InductiveInvariant, PTL
=============================================================================
