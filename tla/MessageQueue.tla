---------------------------- MODULE MessageQueue ----------------------------
(***************************************************************************)
(* One queue of mqHub: MQAdapterMixin over the local adapter, which keeps  *)
(* a queue as a folder and a message as a file named by the clock.         *)
(*                                                                         *)
(* A request is a process, and a step what runs between two file           *)
(* operations.  A put stands for its message: a file holds a put's message *)
(* or, until that is written, nothing.                                     *)
(***************************************************************************)
EXTENDS Naturals, FiniteSets

CONSTANTS
    Puts,    \* requests to put a message
    Takes,   \* requests to take one
    Gets,    \* requests to get one, which may delete it afterwards
    None,    \* no message
    Limit    \* mq_queueLength

ASSUME RequestsAssumption ==
    Puts \cap Takes = {} /\ Puts \cap Gets = {} /\ Takes \cap Gets = {}
ASSUME NoneAssumption == None \notin Puts
ASSUME LimitAssumption == Limit \in Nat

VARIABLES
    put,      \* [Puts -> what the put is doing]
    reader,   \* [Readers -> what the response of the get or take has come to]
    scan,     \* [Puts \cup Readers -> its reading of the queue]
    subs,     \* subscribers[queueName]
    files,    \* the queue's folder: from file names to what the files hold
    now       \* the clock, in milliseconds that matter

vars == <<put, reader, scan, subs, files, now>>

Readers == Takes \cup Gets

\* The time a file is created, and the number after the delimiter when that name
\* was taken.  UndefinedName is the first id of an empty queue.
Name == [stamp: Nat, n: Nat]
UndefinedName == [stamp |-> 0, n |-> 0]
Message == [messageId: Name, message: Puts \cup {None}]
Undefined == [messageId |-> UndefinedName, message |-> None]

Put == [pc      : {"idle", "mkdir", "open", "write", "deliver", "ok", "failed", "refused"},
        wasEmpty: BOOLEAN,      \* no message was in the queue when it was counted
        name    : Name,
        linked  : BOOLEAN,      \* what it has open is the file of that name
        earlier : SUBSET Puts]  \* ghost: the puts answered 200 before it arrived

\* "hung": the callback threw and will not be called again.  "removed": the unlink
\* of the message succeeded, which is when a take is answered 200.
Reader == [pc : {"waiting", "unlink", "ok", "removed", "failed", "timeout", "hung"},
           got: Message]

Scan == [step: {"none", "count", "list", "read"}, messageId: Name]

TypeOK ==
    /\ put \in [Puts -> Put]
    /\ reader \in [Readers -> Reader]
    /\ scan \in [Puts \cup Readers -> Scan]
    /\ subs \subseteq Readers
    /\ DOMAIN files \subseteq Name
    /\ \A name \in DOMAIN files : files[name] \in Puts \cup {None}
    /\ now \in Nat

ScanStep(step) == [step |-> step, messageId |-> UndefinedName]

Init ==
    /\ put = [m \in Puts |-> [pc |-> "idle", wasEmpty |-> FALSE, name |-> UndefinedName,
                              linked |-> FALSE, earlier |-> {}]]
    /\ reader = [r \in Readers |-> [pc |-> "waiting", got |-> Undefined]]
    /\ scan = [p \in Puts \cup Readers |-> ScanStep(IF p \in Puts THEN "none" ELSE "count")]
    /\ subs = {}
    /\ files = <<>>
    /\ now = 0

-----------------------------------------------------------------------------
At(m, step) == put[m].pc = step
Scanning(p, step) == scan[p].step = step
SetScan(p, step) == scan' = [scan EXCEPT ![p] = ScanStep(step)]
QueueIsEmpty == DOMAIN files = {}

\* Fault: the newest message comes first.
Newest == {name \in DOMAIN files : \A other \in DOMAIN files : name.stamp >= other.stamp}

\* loadQueue sorts by time only.
Oldest == {name \in DOMAIN files : \A other \in DOMAIN files : name.stamp <= other.stamp}

\* An empty file of that name, whatever was there.
Make(name) ==
    files' = [other \in DOMAIN files \cup {name} |->
                  IF other = name THEN None ELSE files[other]]

\* deleteMessage: who has the file open writes to a file without a name from now on.
Unlink(name) ==
    /\ files' = [other \in DOMAIN files \ {name} |-> files[other]]
    /\ put' = [m \in Puts |-> IF put[m].name = name
                              THEN [put[m] EXCEPT !.linked = FALSE] ELSE put[m]]

-----------------------------------------------------------------------------
(* Reading *)

\* The callback of a reader is called with a message: a get is answered with it, or
\* has been answered 204; a take reads messageId, which throws when it is undefined,
\* and unlinks the message.
Called(r, message) ==
    IF r \in Takes
    THEN [pc |-> IF message = Undefined THEN "hung" ELSE "unlink", got |-> message]
    ELSE IF reader[r].pc = "timeout" THEN reader[r]
    ELSE [pc |-> "ok", got |-> message]

\* deliverMessage: all that are subscribed are called and forgotten.
DeliverMessage(message) ==
    /\ reader' = [r \in Readers |-> IF r \in subs THEN Called(r, message) ELSE reader[r]]
    /\ subs' = {}

\* readMessage: the reader subscribes, and reads the queue unless it was empty.
ReadMessage(r) ==
    /\ Scanning(r, "count")
    /\ subs' = subs \cup {r}
    /\ SetScan(r, IF QueueIsEmpty THEN "none" ELSE "list")
    /\ UNCHANGED <<put, reader, files, now>>

\* _readMessage: the id of the oldest message, which is undefined when there is none.
LoadQueue(p) ==
    /\ Scanning(p, "list")
    /\ \E name \in IF QueueIsEmpty THEN {UndefinedName} ELSE Oldest :
          scan' = [scan EXCEPT ![p] = [step |-> "read", messageId |-> name]]
    /\ UNCHANGED <<put, reader, subs, files, now>>

\* getMessage, and what putMessage and readMessage do with it: a put whose message is
\* gone reports the error, a reader passes undefined on to all that are subscribed.
GetMessage(p) ==
    LET name == scan[p].messageId
        found == name \in DOMAIN files
        Answer(status) == put' = IF p \in Puts THEN [put EXCEPT ![p].pc = status] ELSE put
    IN  /\ Scanning(p, "read")
        /\ SetScan(p, "none")
        /\ IF found
           THEN /\ DeliverMessage([messageId |-> name, message |-> files[name]])
                /\ Answer("ok")
           ELSE /\ IF p \in Puts THEN UNCHANGED <<reader, subs>> ELSE DeliverMessage(Undefined)
                /\ Answer("failed")
        /\ UNCHANGED <<files, now>>

\* Fault: what is first in the queue is removed, whatever was delivered.
DeleteMessageFirst(r) ==
    /\ reader[r].pc = "unlink"
    /\ IF ~QueueIsEmpty
       THEN /\ Unlink(CHOOSE name \in Oldest : TRUE)
            /\ reader' = [reader EXCEPT ![r].pc = "removed"]
       ELSE /\ reader' = [reader EXCEPT ![r].pc = "failed"]
            /\ UNCHANGED <<files, put>>
    /\ UNCHANGED <<scan, subs, now>>

\* Fault: a message that is gone already is reported as taken.
DeleteMessageAnyway(r) ==
    /\ reader[r].pc = "unlink"
    /\ Unlink(reader[r].got.messageId)
    /\ reader' = [reader EXCEPT ![r].pc = "removed"]
    /\ UNCHANGED <<scan, subs, now>>

\* The unlink of takeMessageHandler and of deleteMessageHandler.
DeleteMessage(r) ==
    LET name == reader[r].got.messageId IN
    /\ reader[r].pc = "unlink"
    /\ IF name \in DOMAIN files
       THEN Unlink(name) /\ reader' = [reader EXCEPT ![r].pc = "removed"]
       ELSE reader' = [reader EXCEPT ![r].pc = "failed"] /\ UNCHANGED <<files, put>>
    /\ UNCHANGED <<scan, subs, now>>

\* A client that has got a message asks to delete it.
AskToDelete(r) ==
    /\ r \in Gets
    /\ reader[r].pc = "ok"
    /\ reader[r].got # Undefined
    /\ reader' = [reader EXCEPT ![r].pc = "unlink"]
    /\ UNCHANGED <<put, scan, subs, files, now>>

\* connectionTimeout: a get that was not called is answered 204, subscribed or not.
Timeout(r) ==
    /\ r \in Gets
    /\ reader[r].pc = "waiting"
    /\ reader' = [reader EXCEPT ![r].pc = "timeout"]
    /\ subs' = subs \ {r}
    /\ UNCHANGED <<put, scan, files, now>>

-----------------------------------------------------------------------------
(* Putting *)

\* putMessage: the queue is counted, and the put goes by that count from now on.
CheckQueueLoad(m) ==
    LET capacity == Cardinality(DOMAIN files) IN
    /\ At(m, "idle")
    /\ put' = [put EXCEPT ![m] =
                  [@ EXCEPT !.pc = IF capacity > Limit THEN "refused" ELSE "mkdir",
                            !.wasEmpty = capacity = 0,
                            !.earlier = {other \in Puts : At(other, "ok")}]]
    /\ UNCHANGED <<reader, scan, subs, files, now>>

\* constructFileName: the first name of this time that is not taken.
FreeName(stamp) ==
    CHOOSE name \in {[stamp |-> stamp, n |-> i] : i \in 0..Cardinality(DOMAIN files)} :
        /\ name \notin DOMAIN files
        /\ \A i \in 0..(name.n - 1) : [stamp |-> stamp, n |-> i] \in DOMAIN files

\* storeMessage once the folder is there: an empty file is made, in the millisecond
\* of the one before it or later.
ConstructFileName(m) ==
    /\ At(m, "mkdir")
    /\ now' \in {now, now + 1} \ {0}
    /\ LET name == FreeName(now') IN
       /\ Make(name)
       /\ put' = [put EXCEPT ![m].pc = "open", ![m].name = name]
    /\ UNCHANGED <<reader, scan, subs>>

\* writeFile opens the file, and makes it again when it was removed.
OpenFile(m) ==
    /\ At(m, "open")
    /\ Make(put[m].name)
    /\ put' = [put EXCEPT ![m].pc = "write", ![m].linked = TRUE]
    /\ UNCHANGED <<reader, scan, subs, now>>

\* writeFile writes it; the put is answered, or goes on to deliver what is first in
\* the queue when it had found that empty.
WriteFile(m) ==
    /\ At(m, "write")
    /\ files' = IF put[m].linked THEN [files EXCEPT ![put[m].name] = m] ELSE files
    /\ put' = [put EXCEPT ![m].pc = IF put[m].wasEmpty THEN "deliver" ELSE "ok",
                          ![m].linked = FALSE]
    /\ IF put[m].wasEmpty THEN SetScan(m, "list") ELSE UNCHANGED scan
    /\ UNCHANGED <<reader, subs, now>>

-----------------------------------------------------------------------------
Reading ==
    \/ \E r \in Readers :
          ReadMessage(r) \/ DeleteMessage(r) \/ AskToDelete(r) \/ Timeout(r)
    \/ \E p \in Puts \cup Readers : LoadQueue(p) \/ GetMessage(p)

Putting == \E m \in Puts :
    CheckQueueLoad(m) \/ ConstructFileName(m) \/ OpenFile(m) \/ WriteFile(m)

Next == Reading \/ Putting

Spec == Init /\ [][Next]_vars

\* No two messages are put in the same millisecond.
CarefulNext ==
    \/ Reading
    \/ \E m \in Puts :
          \/ CheckQueueLoad(m) \/ OpenFile(m) \/ WriteFile(m)
          \/ ConstructFileName(m) /\ now' # now

CarefulSpec == Init /\ [][CarefulNext]_vars

-----------------------------------------------------------------------------
(* Properties *)

\* A message that is delivered to several readers is taken, or deleted, by one: the
\* others fail to unlink it.  Who read it before it was written may have taken it empty.
TakenOnce ==
    \A r, s \in Readers :
        /\ reader[r].pc = "removed" /\ reader[s].pc = "removed"
        /\ reader[r].got.message = reader[s].got.message
        => r = s \/ reader[r].got.message = None

\* A message whose put was answered 200 is in the queue until somebody to whom it was
\* delivered removes it, with one exception: who read it before it was written.
NothingIsLost ==
    \A m \in Puts : At(m, "ok") =>
        \/ put[m].name \in DOMAIN files /\ files[put[m].name] = m
        \/ \E r \in Readers : /\ reader[r].pc = "removed"
                              /\ reader[r].got.messageId = put[m].name
                              /\ reader[r].got.message \in {m, None}

\* A message is handed out after those whose puts were answered before its own arrived
\* are gone from the queue.
OldestFirst ==
    \A r \in Readers, m \in Puts :
        reader[r].got.message = m =>
            \A earlier \in put[m].earlier : put[earlier].name \notin DOMAIN files

\* What the invariants above rest on, as long as no two messages are put in the same
\* millisecond.  A name belongs to one put, from the file it makes on.
Made(m) == put[m].pc \in {"open", "write", "deliver", "ok", "failed"}
Written(m) == put[m].pc \in {"deliver", "ok", "failed"}

NamesDiffer ==
    /\ \A m \in Puts : Made(m) => put[m].name.stamp \in 1..now
    /\ \A m, n \in Puts : Made(m) /\ Made(n) /\ put[m].name = put[n].name => m = n

\* A file is empty or holds the message of the put whose name it has.
FilesHoldTheirs ==
    /\ IsFiniteSet(DOMAIN files)
    /\ files = [name \in DOMAIN files |-> files[name]]
    /\ \A name \in DOMAIN files :
          /\ name.stamp \in 1..now
          /\ files[name] # None => Written(files[name]) /\ put[files[name]].name = name
    /\ \A m \in Puts : put[m].linked => At(m, "write") /\ put[m].name \in DOMAIN files

\* Who is called, or is to be called, was not called before, and what a reader got is
\* what the file of that name held.
ReadersGotOnce ==
    /\ \A r \in Readers :
          /\ r \in subs \/ Scanning(r, "count") => reader[r].pc \in {"waiting", "timeout"}
          /\ reader[r].pc = "timeout" => r \in Gets
          /\ Scanning(r, "count") => r \notin subs
          /\ reader[r].got.messageId.stamp <= now
          /\ reader[r].pc \in {"unlink", "removed"} => reader[r].got.messageId.stamp > 0
          /\ reader[r].got.messageId.stamp = 0 => reader[r].got = Undefined
    /\ \A r \in Readers : reader[r].got.message # None =>
          /\ Written(reader[r].got.message)
          /\ put[reader[r].got.message].name = reader[r].got.messageId
          /\ reader[r].pc = "removed" => reader[r].got.messageId \notin DOMAIN files

Removed(m) == \E r \in Readers :
    /\ reader[r].pc = "removed"
    /\ reader[r].got.messageId = put[m].name
    /\ reader[r].got.message \in {m, None}

\* A file that is open and was removed was removed by a reader who found it empty.
RemovedByReaders ==
    \A m \in Puts :
        /\ At(m, "write") => put[m].linked \/ Removed(m)
        /\ Written(m) =>
             (put[m].name \in DOMAIN files /\ files[put[m].name] = m) \/ Removed(m)

\* A put reads the queue to deliver, and who reads has listed it.
ScansAreOwn ==
    \A p \in Puts \cup Readers :
        /\ scan[p].messageId.stamp <= now
        /\ p \in Puts => ~Scanning(p, "count")
        /\ p \in Puts /\ (Scanning(p, "list") \/ Scanning(p, "read")) => At(p, "deliver")

\* The puts that were answered before have older names, and are gone once a message
\* was found to be the oldest.
EarlierGone(m) == \A earlier \in put[m].earlier : put[earlier].name \notin DOMAIN files
EarlierAreOlder ==
    /\ \A m \in Puts : \A earlier \in put[m].earlier :
          At(earlier, "ok") /\ (Made(m) => put[earlier].name.stamp < put[m].name.stamp)
    /\ \A p \in Puts \cup Readers, m \in Puts :
          Scanning(p, "read") /\ Made(m) /\ scan[p].messageId = put[m].name => EarlierGone(m)

\* The inductive invariant of CarefulSpec.
Inv ==
    /\ TypeOK /\ NamesDiffer /\ FilesHoldTheirs /\ ReadersGotOnce /\ RemovedByReaders
    /\ ScansAreOwn /\ EarlierAreOlder /\ TakenOnce /\ OldestFirst

\* When nothing is under way nobody waits while a message is there: putMessage "should
\* try to deliver the message to a potential subscriber that waits".
NobodyWaitsInVain ==
    /\ \A m \in Puts : put[m].pc \in {"idle", "ok", "failed", "refused"}
    /\ \A p \in Puts \cup Readers : Scanning(p, "none") \/ Scanning(p, "count")
    /\ \A r \in Readers : reader[r].pc # "unlink"
    => subs = {} \/ QueueIsEmpty

\* A message whose put was answered 200 reaches a reader: nobody removes it who got its
\* file empty.
NoneIsTakenEmpty ==
    \A m \in Puts, r \in Readers :
        At(m, "ok") /\ put[m].name \notin DOMAIN files
            /\ reader[r].pc = "removed" /\ reader[r].got.messageId = put[m].name =>
        \E s \in Readers : reader[s].pc = "removed" /\ reader[s].got.message = m

=============================================================================
