---------------------------- MODULE MessagesPipe -----------------------------
(***************************************************************************)
(* The pipe in front of an M2DSU engine (m2dsu/messagesPipe): messages are *)
(* queued, grouped by a function of the user, and handed over in groups,   *)
(* when more are queued than belong together, when enough are, or when the *)
(* pipe has waited long enough.                                            *)
(*                                                                         *)
(* A check of the queue is a call of checkPipeMessages: one for every call *)
(* of addInQueue, and one for every tick of the interval that finds        *)
(* messages.  A check reads the queue, waits for the grouping function and *)
(* then for the callback, and other checks run meanwhile.                  *)
(***************************************************************************)
EXTENDS Naturals, SequencesExt

CONSTANTS
    Calls,          \* calls of addInQueue
    Ticks,          \* names for the ticks that are at work at one time
    Size,           \* [Calls -> the number of messages a call adds]
    MaxGroupSize,
    MaxFaults       \* bound: grouping functions and callbacks that fail

ASSUME ChecksAssumption == Calls \cap Ticks = {}
ASSUME SizeAssumption == Size \in [Calls -> Nat \ {0}]
ASSUME NumbersAssumption == MaxGroupSize \in Nat \ {0} /\ MaxFaults \in Nat

VARIABLES
    queue,
    check,          \* [checks -> what they wait for]
    group,          \* [checks -> the group the grouping function found in the queue]
    pipeIsWaiting,  \* the flag, and the interval that is there as long as it is set
    added,          \* all messages that were ever queued, in order
    given,          \* all messages handed over, in order
    faults,
    crossed         \* ghost: a group was taken while another check had read the queue

vars == <<queue, check, group, pipeIsWaiting, added, given, faults, crossed>>

Checks == Calls \cup Ticks
Messages == UNION {{c} \X (1..Size[c]) : c \in Calls}

TypeOK ==
    /\ queue \in Seq(Messages) /\ added \in Seq(Messages) /\ given \in Seq(Messages)
    /\ check \in [Checks -> {"idle", "grouping", "delivering", "done"}]
    /\ group \in [Checks -> Seq(Messages)]
    /\ pipeIsWaiting \in BOOLEAN
    /\ faults \in 0..MaxFaults
    /\ crossed \in BOOLEAN

Init ==
    /\ queue = <<>> /\ added = <<>> /\ given = <<>>
    /\ check = [c \in Checks |-> "idle"]
    /\ group = [c \in Checks |-> <<>>]
    /\ pipeIsWaiting = TRUE
    /\ faults = 0
    /\ crossed = FALSE

-----------------------------------------------------------------------------
At(c, s) == check[c] = s
Goto(c, s) == check' = [check EXCEPT ![c] = s]

\* A call of addInQueue ends; another tick may come.
End(c) == Goto(c, IF c \in Ticks THEN "idle" ELSE "done")
Forget(c) == group' = [group EXCEPT ![c] = <<>>]

\* The grouping function is called with the queue.  It finds the messages at its front
\* that belong together.
Group(c, q) ==
    /\ Goto(c, "grouping")
    /\ \E n \in 1..Len(q) : group' = [group EXCEPT ![c] = SubSeq(q, 1, n)]

AddedBy(c) == [i \in 1..Size[c] |-> <<c, i>>]

\* Fault: the messages are put at the front.
AddInQueueFirst(c) ==
    /\ c \in Calls /\ At(c, "idle")
    /\ queue' = AddedBy(c) \o queue
    /\ added' = added \o AddedBy(c)
    /\ Group(c, queue')
    /\ UNCHANGED <<pipeIsWaiting, given, faults, crossed>>

AddInQueue(c) ==
    /\ c \in Calls /\ At(c, "idle")
    /\ queue' = queue \o AddedBy(c)
    /\ added' = added \o AddedBy(c)
    /\ Group(c, queue')
    /\ UNCHANGED <<pipeIsWaiting, given, faults, crossed>>

\* The interval of startWaitingMessages, when there are messages.
Tick(c) ==
    /\ c \in Ticks /\ At(c, "idle")
    /\ pipeIsWaiting
    /\ queue # <<>>
    /\ Group(c, queue)
    /\ UNCHANGED <<queue, pipeIsWaiting, added, given, faults, crossed>>

\* Fault: a tick takes no more messages than a call does.
FlushesUnforced(c) ==
    Len(group[c]) < Len(queue) \/ MaxGroupSize <= Len(queue)

\* The queue is looked at again, once the grouping function has answered.
Flushes(c) ==
    \/ Len(group[c]) < Len(queue)
    \/ MaxGroupSize <= Len(queue)
    \/ c \in Ticks

\* The grouping function gives an error, or throws: the check ends there, and what it
\* was called for is not done, nor does anybody start to wait again.
GroupingFails(c) ==
    /\ faults < MaxFaults /\ faults' = faults + 1
    /\ At(c, "grouping")
    /\ End(c) /\ Forget(c)
    /\ UNCHANGED <<queue, pipeIsWaiting, added, given, crossed>>

\* Fault: the group is as long as it may be.
SpliceToSize(c) == SubSeq(queue, 1 + MaxGroupSize, Len(queue))

\* As many messages are taken as were grouped, whichever they are by now.
Splice(c) == SubSeq(queue, 1 + Len(group[c]), Len(queue))

TakeGroup(c) ==
    /\ At(c, "grouping") /\ Flushes(c)
    /\ queue' = Splice(c)
    /\ given' = given \o group[c]
    /\ pipeIsWaiting' = FALSE
    /\ Goto(c, "delivering") /\ Forget(c)
    /\ crossed' = (crossed \/ \E d \in Checks \ {c} : At(d, "grouping"))
    /\ UNCHANGED <<added, faults>>

\* Fault: a check that takes nothing leaves the interval as it found it.
LeaveGroupStopped(c) ==
    /\ At(c, "grouping") /\ ~Flushes(c)
    /\ End(c) /\ Forget(c)
    /\ UNCHANGED <<queue, pipeIsWaiting, added, given, faults, crossed>>

LeaveGroup(c) ==
    /\ At(c, "grouping") /\ ~Flushes(c)
    /\ pipeIsWaiting' = TRUE
    /\ End(c) /\ Forget(c)
    /\ UNCHANGED <<queue, added, given, faults, crossed>>

\* The callback has dealt with the group.
Delivered(c) ==
    /\ At(c, "delivering")
    /\ pipeIsWaiting' = TRUE
    /\ End(c)
    /\ UNCHANGED <<queue, group, added, given, faults, crossed>>

\* It throws, or it never answers: nobody starts to wait again.
CallbackFails(c) ==
    /\ faults < MaxFaults /\ faults' = faults + 1
    /\ At(c, "delivering")
    /\ End(c)
    /\ UNCHANGED <<queue, group, pipeIsWaiting, added, given, crossed>>

-----------------------------------------------------------------------------
Answered(c) == TakeGroup(c) \/ LeaveGroup(c) \/ Delivered(c)

Fails(c) == GroupingFails(c) \/ CallbackFails(c)

Next == \E c \in Checks :
    AddInQueue(c) \/ Tick(c) \/ Answered(c) \/ Fails(c)

Spec == Init /\ [][Next]_vars

\* The grouping function and the callback answer, and the interval fires as long as
\* it is there.
FairSpec ==
    /\ Spec
    /\ \A c \in Checks : WF_vars(Answered(c))
    /\ WF_vars(\E c \in Ticks : Tick(c))

-----------------------------------------------------------------------------
\* What a check has grouped is at the front of the queue still, as long as nobody else
\* has taken a group since.
GroupsAreFront ==
    crossed \/ \A c \in Checks :
        /\ group[c] # <<>> => At(c, "grouping")
        /\ IsPrefix(group[c], queue)

\* The inductive invariant.
Inv == TypeOK /\ GroupsAreFront

\* As long as no two checks group at once when one of them takes its group, the pipe is
\* a queue: messages are handed over once, in the order they came, and none is lost.
PipeIsAQueue == crossed \/ given \o queue = added

\* The same however checks interleave.
NoneLostOrDoubled == given \o queue = added

\* Messages in the queue are looked at again: by the interval, or by a check that starts
\* it when it ends.
SomebodyLooks ==
    \/ queue = <<>>
    \/ pipeIsWaiting
    \/ \E c \in Checks : At(c, "grouping") \/ At(c, "delivering")

\* Only a callback or a grouping function that fails leaves messages to nobody (the
\* latter when a callback has stopped the interval before): every check that does not
\* fail, whatever it takes or leaves, has the pipe wait again.
OnlyFailuresStopIt ==
    [][SomebodyLooks => SomebodyLooks' \/ \E c \in Checks : Fails(c)]_vars

Given(m) == \E i \in DOMAIN given : given[i] = m
Added(m) == \E i \in DOMAIN added : added[i] = m

\* A message is handed over at last, whatever comes before or after it.
MessagesArrive ==
    \A m \in Messages : Added(m) ~> Given(m) \/ crossed \/ faults > 0

\* A group that cannot be digested delays the others only.
FailuresDelay ==
    \A m \in Messages : Added(m) ~> Given(m) \/ crossed
=============================================================================
