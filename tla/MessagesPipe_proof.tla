-------------------------- MODULE MessagesPipe_proof --------------------------
(***************************************************************************)
(* Proofs about MessagesPipe, for any calls of addInQueue, messages, group *)
(* sizes and grouping functions, and any number of ticks and failures.     *)
(***************************************************************************)
EXTENDS MessagesPipe, SequenceTheorems, TLAPS

USE ChecksAssumption, SizeAssumption, NumbersAssumption

\* A group that was found at the front of a queue is a part of it, and with what is
\* left it is the queue.
LEMMA FrontOfQueue ==
    ASSUME NEW S, NEW q \in Seq(S), NEW n \in 1..Len(q)
    PROVE  /\ SubSeq(q, 1, n) \in Seq(S)
           /\ IsPrefix(SubSeq(q, 1, n), q)
<1>1. SubSeq(q, 1, n) \in Seq(S) /\ Len(SubSeq(q, 1, n)) = n
  BY SubSeqProperties
<1>2. SubSeq(SubSeq(q, 1, n), 1, n) = SubSeq(q, 1, n)
  BY SMTT(40), <1>1, SubSeqFull
<1> QED
  BY <1>1, <1>2 DEF IsPrefix

LEMMA FrontAndRest ==
    ASSUME NEW S, NEW q \in Seq(S), NEW g \in Seq(S), IsPrefix(g, q)
    PROVE  /\ SubSeq(q, 1 + Len(g), Len(q)) \in Seq(S)
           /\ g \o SubSeq(q, 1 + Len(g), Len(q)) = q
<1>1. /\ Len(g) \in Nat /\ Len(q) \in Nat /\ Len(g) <= Len(q)
      /\ g = SubSeq(q, 1, Len(g))
  BY SubSeqFull DEF IsPrefix
<1>2. SubSeq(q, 1, Len(g)) \o SubSeq(q, Len(g) + 1, Len(q)) = SubSeq(q, 1, Len(q))
  <2>1. /\ 1 \in 1..(Len(q) + 1) /\ Len(g) \in (1 - 1)..Len(q)
        /\ Len(q) \in Len(g)..Len(q)
    BY <1>1
  <2> QED
    BY <2>1, ConcatAdjacentSubSeq
<1>3. \A i \in 1 + Len(g)..Len(q) : q[i] \in S
  BY <1>1
<1>4. SubSeq(q, 1 + Len(g), Len(q)) \in Seq(S)
  BY <1>1, <1>3, SubSeqProperties
<1>5. SubSeq(q, 1, Len(q)) = q /\ Len(g) + 1 = 1 + Len(g)
  BY <1>1, SubSeqFull
<1> QED
  BY <1>1, <1>2, <1>4, <1>5

\* What is queued behind a group leaves it at the front.
LEMMA FrontStays ==
    ASSUME NEW S, NEW q \in Seq(S), NEW g \in Seq(S), NEW m \in Seq(S), IsPrefix(g, q)
    PROVE  IsPrefix(g, q \o m)
<1>1. /\ Len(g) \in Nat /\ Len(q) \in Nat /\ Len(m) \in Nat /\ Len(g) <= Len(q)
      /\ q \o m \in Seq(S) /\ Len(q \o m) = Len(q) + Len(m)
  BY ConcatProperties DEF IsPrefix
<1>2. SubSeq(q \o m, 1, Len(g)) = SubSeq(q, 1, Len(g))
  <2>1. CASE Len(g) = 0
    BY <1>1, <2>1, SubSeqEmpty
  <2>2. CASE Len(g) # 0
    BY <1>1, <2>2, SubSeqOfConcat1
  <2> QED
    BY <2>1, <2>2
<1> QED
  BY <1>1, <1>2 DEF IsPrefix

LEMMA EmptyFront ==
    ASSUME NEW S, NEW q \in Seq(S)
    PROVE  <<>> \in Seq(S) /\ IsPrefix(<<>>, q)
<1>1. SubSeq(q, 1, 0) = <<>> /\ SubSeq(<<>>, 1, 0) = <<>>
  BY SubSeqEmpty
<1> QED
  BY <1>1 DEF IsPrefix

\* A check that groups finds a sequence of messages at the front.
LEMMA GroupFinds ==
    ASSUME TypeOK, NEW c \in Checks, NEW q \in Seq(Messages), Group(c, q)
    PROVE  /\ check' \in [Checks -> {"idle", "grouping", "delivering", "done"}]
           /\ group' \in [Checks -> Seq(Messages)]
           /\ check'[c] = "grouping" /\ IsPrefix(group'[c], q)
           /\ \A d \in Checks \ {c} : check'[d] = check[d] /\ group'[d] = group[d]
<1>1. PICK n \in 1..Len(q) : group' = [group EXCEPT ![c] = SubSeq(q, 1, n)]
  BY DEF Group
<1>2. SubSeq(q, 1, n) \in Seq(Messages) /\ IsPrefix(SubSeq(q, 1, n), q)
  BY FrontOfQueue
<1> QED
  BY <1>1, <1>2 DEF Group, Goto, TypeOK

LEMMA MessagesOfACall ==
    ASSUME NEW c \in Calls
    PROVE  AddedBy(c) \in Seq(Messages)
<1>1. Size[c] \in Nat /\ \A i \in 1..Size[c] : <<c, i>> \in Messages
  BY DEF Messages
<1> QED
  BY <1>1 DEF AddedBy

-----------------------------------------------------------------------------
LEMMA InitInv == Init => Inv /\ PipeIsAQueue
<1> SUFFICES ASSUME Init PROVE Inv /\ PipeIsAQueue
  OBVIOUS
<1>1. <<>> \in Seq(Messages) /\ IsPrefix(<<>>, <<>>) /\ <<>> \o <<>> = <<>>
  <2>1. <<>> \in Seq(Messages)
    OBVIOUS
  <2> QED
    BY <2>1, EmptyFront, ConcatEmptySeq
<1>2. TypeOK
  <2>1. [c \in Checks |-> <<>>] \in [Checks -> Seq(Messages)]
    BY <1>1, Zenon
  <2>2. faults \in 0..MaxFaults
    BY DEF Init
  <2> QED
    BY <1>1, <2>1, <2>2, Zenon DEF Init, TypeOK
<1>3. \A c \in Checks : group[c] = <<>> /\ queue = <<>>
  BY DEF Init
<1>4. GroupsAreFront /\ PipeIsAQueue
  BY <1>1, <1>3 DEF Init, GroupsAreFront, PipeIsAQueue
<1> QED
  BY <1>2, <1>4 DEF Inv

\* Every step keeps groups at the front of the queue, and moves messages from there to
\* the callback, or adds them to both ends of the equation.
LEMMA StepInv == Inv /\ PipeIsAQueue /\ [Next]_vars => Inv' /\ PipeIsAQueue'
<1> SUFFICES ASSUME TypeOK, GroupsAreFront, PipeIsAQueue, [Next]_vars
             PROVE  TypeOK' /\ GroupsAreFront' /\ PipeIsAQueue'
  BY DEF Inv
<1>a. /\ queue \in Seq(Messages) /\ added \in Seq(Messages) /\ given \in Seq(Messages)
      /\ \A c \in Checks : group[c] \in Seq(Messages)
  BY DEF TypeOK
<1>1. ASSUME NEW c \in Checks, AddInQueue(c)
      PROVE  TypeOK' /\ GroupsAreFront' /\ PipeIsAQueue'
  <2> DEFINE m == AddedBy(c)
  <2>1. m \in Seq(Messages)
    BY <1>1, MessagesOfACall DEF AddInQueue
  <2>2. queue' = queue \o m /\ added' = added \o m /\ Group(c, queue')
    BY <1>1 DEF AddInQueue
  <2>3. UNCHANGED <<pipeIsWaiting, given, faults, crossed>>
    BY <1>1 DEF AddInQueue
  <2> HIDE DEF m
  <2>4. queue' \in Seq(Messages) /\ added' \in Seq(Messages)
    BY <1>a, <2>1, <2>2, ConcatProperties
  <2>5. TypeOK'
    BY <2>2, <2>3, <2>4, GroupFinds DEF TypeOK
  <2>6. GroupsAreFront'
    <3>1. \A d \in Checks \ {c} : ~crossed => IsPrefix(group[d], queue')
      BY <1>a, <2>1, <2>2, FrontStays DEF GroupsAreFront
    <3> QED
      BY <2>2, <2>3, <2>4, <3>1, GroupFinds DEF GroupsAreFront, At
  <2>7. PipeIsAQueue'
    <3>1. given \o (queue \o m) = (given \o queue) \o m
      BY <1>a, <2>1, ConcatAssociative
    <3> QED
      BY <2>2, <2>3, <3>1 DEF PipeIsAQueue
  <2> QED
    BY <2>5, <2>6, <2>7
<1>2. ASSUME NEW c \in Checks, Tick(c)
      PROVE  TypeOK' /\ GroupsAreFront' /\ PipeIsAQueue'
  <2>1. Group(c, queue) /\ UNCHANGED <<queue, pipeIsWaiting, added, given, faults, crossed>>
    BY <1>2 DEF Tick
  <2> QED
    BY <1>a, <2>1, GroupFinds DEF TypeOK, GroupsAreFront, PipeIsAQueue, At
<1>3. ASSUME NEW c \in Checks, TakeGroup(c)
      PROVE  TypeOK' /\ GroupsAreFront' /\ PipeIsAQueue'
  <2> DEFINE g == group[c]
  <2>1. /\ queue' = SubSeq(queue, 1 + Len(g), Len(queue)) /\ given' = given \o g
        /\ group' = [group EXCEPT ![c] = <<>>]
        /\ check' = [check EXCEPT ![c] = "delivering"]
        /\ crossed' = (crossed \/ \E d \in Checks \ {c} : At(d, "grouping"))
        /\ pipeIsWaiting' = FALSE /\ UNCHANGED <<added, faults>>
    BY <1>3 DEF TakeGroup, Splice, Goto, Forget
  <2>2. queue' \in Seq(Messages) /\ given' \in Seq(Messages)
    <3>1. given' \in Seq(Messages)
      BY <1>a, <2>1, ConcatProperties
    <3>2. /\ 1 + Len(g) \in Int /\ Len(queue) \in Int
          /\ \A i \in 1 + Len(g)..Len(queue) : queue[i] \in Messages
      BY <1>a
    <3> HIDE DEF g
    <3> QED
      BY <2>1, <3>1, <3>2, SubSeqProperties
  <2>3. TypeOK'
    BY <1>a, <2>1, <2>2, EmptyFront DEF TypeOK
  <2>4. CASE crossed'
    BY <2>3, <2>4 DEF GroupsAreFront, PipeIsAQueue
  <2>5. CASE ~crossed'
    <3>1. ~crossed /\ \A d \in Checks \ {c} : check[d] # "grouping"
      BY <2>1, <2>5 DEF At
    <3>2. \A d \in Checks : group'[d] = <<>>
      BY <2>1, <3>1 DEF GroupsAreFront, At, TypeOK
    <3>3. GroupsAreFront'
      BY <2>2, <3>2, EmptyFront DEF GroupsAreFront
    <3>4. IsPrefix(g, queue)
      BY <3>1 DEF GroupsAreFront
    <3> HIDE DEF g
    <3>5. g \in Seq(Messages)
      BY <1>a DEF g
    <3>6. g \o queue' = queue
      BY <1>a, <2>1, <3>4, <3>5, FrontAndRest
    <3>7. (given \o g) \o queue' = given \o (g \o queue')
      <4>1. given \in Seq(Messages) /\ queue' \in Seq(Messages)
        BY <1>a, <2>2
      <4>2. \A s, t, u \in Seq(Messages) : (s \o t) \o u = s \o (t \o u)
        BY ConcatAssociative
      <4> QED
        BY <3>5, <4>1, <4>2, Zenon
    <3> QED
      BY <2>1, <2>3, <3>1, <3>3, <3>6, <3>7 DEF PipeIsAQueue
  <2> QED
    BY <2>4, <2>5
<1>4. ASSUME NEW c \in Checks, LeaveGroup(c)
      PROVE  TypeOK' /\ GroupsAreFront' /\ PipeIsAQueue'
  <2>1. /\ UNCHANGED <<queue, added, given, faults, crossed>> /\ pipeIsWaiting' = TRUE
        /\ group' = [group EXCEPT ![c] = <<>>]
        /\ \E s \in {"idle", "done"} : check' = [check EXCEPT ![c] = s]
    BY <1>4 DEF LeaveGroup, Forget, End, Goto
  <2> QED
    BY <1>a, <2>1, EmptyFront DEF TypeOK, GroupsAreFront, PipeIsAQueue, At
<1>5. ASSUME NEW c \in Checks, Delivered(c) \/ CallbackFails(c)
      PROVE  TypeOK' /\ GroupsAreFront' /\ PipeIsAQueue'
  <2>1. /\ UNCHANGED <<queue, group, added, given, crossed>> /\ pipeIsWaiting' \in BOOLEAN
        /\ At(c, "delivering") /\ faults' \in 0..MaxFaults
        /\ \E s \in {"idle", "done"} : check' = [check EXCEPT ![c] = s]
    <3>1. \E s \in {"idle", "done"} : check' = [check EXCEPT ![c] = s]
      BY <1>5 DEF Delivered, CallbackFails, End, Goto
    <3>2. CASE Delivered(c)
      BY <3>1, <3>2 DEF Delivered, TypeOK
    <3>3. CASE CallbackFails(c)
      <4>1. faults \in 0..MaxFaults /\ pipeIsWaiting \in BOOLEAN
        BY DEF TypeOK
      <4>2. faults' \in 0..MaxFaults
        BY <3>3, <4>1 DEF CallbackFails
      <4> QED
        BY <3>1, <3>3, <4>1, <4>2, Zenon DEF CallbackFails
    <3> QED
      BY <1>5, <3>2, <3>3
  <2> QED
    BY <2>1 DEF TypeOK, GroupsAreFront, PipeIsAQueue, At
<1>6. ASSUME NEW c \in Checks, GroupingFails(c)
      PROVE  TypeOK' /\ GroupsAreFront' /\ PipeIsAQueue'
  <2>1. /\ UNCHANGED <<queue, pipeIsWaiting, added, given, crossed>>
        /\ group' = [group EXCEPT ![c] = <<>>] /\ faults' \in 0..MaxFaults
        /\ \E s \in {"idle", "done"} : check' = [check EXCEPT ![c] = s]
    <3>1. faults \in 0..MaxFaults /\ faults < MaxFaults /\ faults' = faults + 1
      BY <1>6 DEF GroupingFails, TypeOK
    <3>2. faults' \in 0..MaxFaults
      BY <3>1
    <3>3. \E s \in {"idle", "done"} : check' = [check EXCEPT ![c] = s]
      BY <1>6 DEF GroupingFails, End, Goto
    <3> QED
      BY <1>6, <3>2, <3>3, Zenon DEF GroupingFails, Forget
  <2> QED
    BY <1>a, <2>1, EmptyFront DEF TypeOK, GroupsAreFront, PipeIsAQueue, At
<1>7. CASE UNCHANGED vars
  BY <1>7 DEF vars, TypeOK, GroupsAreFront, PipeIsAQueue, At
<1> QED
  BY <1>1, <1>2, <1>3, <1>4, <1>5, <1>6, <1>7 DEF Next, Answered, Fails

-----------------------------------------------------------------------------
\* Groups stay at the front of the queue until they are taken.
THEOREM InductiveInvariant == Spec => []Inv
  BY InitInv, StepInv, PTL DEF Spec

\* The pipe is a queue, as long as checks do not cross: checkPipeMessages hands over every
\* message once and in order, whatever the grouping function, the ticks and the failures.
THEOREM MessagesKeepTheirOrder == Spec => []PipeIsAQueue
  BY InitInv, StepInv, PTL DEF Spec

\* Only a callback or a grouping function that fails stops the pipe: every other step of
\* checkPipeMessages leaves a queue that is not empty to the interval or to a check.
THEOREM PipeGoesOn == Spec => OnlyFailuresStopIt
<1>1. Inv /\ [Next]_vars =>
        [SomebodyLooks => SomebodyLooks' \/ \E c \in Checks : Fails(c)]_vars
  <2> SUFFICES ASSUME TypeOK, [Next]_vars, SomebodyLooks,
                      ~\E c \in Checks : Fails(c)
               PROVE  SomebodyLooks'
    BY DEF Inv
  <2>1. ASSUME NEW c \in Checks, AddInQueue(c) \/ Tick(c) PROVE SomebodyLooks'
    BY <2>1 DEF AddInQueue, Tick, Group, Goto, SomebodyLooks, At, TypeOK
  <2>2. ASSUME NEW c \in Checks, TakeGroup(c) PROVE SomebodyLooks'
    BY <2>2 DEF TakeGroup, Goto, SomebodyLooks, At, TypeOK
  <2>3. ASSUME NEW c \in Checks, LeaveGroup(c) \/ Delivered(c) PROVE SomebodyLooks'
    BY <2>3 DEF LeaveGroup, Delivered, SomebodyLooks
  <2>4. CASE UNCHANGED vars
    BY <2>4 DEF vars, SomebodyLooks, At
  <2> QED
    BY <2>1, <2>2, <2>3, <2>4 DEF Next, Answered
<1> QED
  BY InductiveInvariant, <1>1, PTL DEF Spec, OnlyFailuresStopIt
=============================================================================
