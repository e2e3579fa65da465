----------------------------- MODULE AnchoringFS -----------------------------
(***************************************************************************)
(* The file system anchoring strategy of the API hub, for one anchor.      *)
(*                                                                         *)
(* An anchor is a file with one signed hash link per line.  Every HTTP     *)
(* request that writes it builds its own strategy object and its own       *)
(* FSLock, so requests share nothing but the disk: the anchor file and the *)
(* directory "<anchor>.lock".  A request is a process here and a step is   *)
(* what runs between two asynchronous file operations.                     *)
(*                                                                         *)
(* A request that writes carries one signed hash link, which the request's *)
(* own name stands for.  req[r].base is the hash link its signature was    *)
(* computed over (None: over nothing, the first version of an anchor) and  *)
(* req[r].stamp the timestamp inside it.                                   *)
(***************************************************************************)
EXTENDS Naturals, SequencesExt

CONSTANTS
    Requests,    \* the requests that write the anchor
    Stamps,      \* the timestamps hash links carry
    None,        \* no hash link, no lock directory (its birth time reads 0)
    MaxCrashes   \* bound: how many requests die with the process serving them

ASSUME NoneAssumption == None \notin Requests
ASSUME StampsAssumption == Stamps \subseteq Nat
ASSUME CrashesAssumption == MaxCrashes \in Nat

VARIABLES
    pc,          \* [Requests -> step the request is about to make]
    req,         \* [Requests -> what the client sent]
    lock,        \* the request whose mkdir made the lock directory, or None
    expired,     \* the lock directory is older than maxTimeMilliSeconds
    created,     \* FSLock.lockCreationTime; a birth time is named by its maker
    exists,      \* the anchor file is on disk
    file,        \* its lines
    reply,       \* [Requests -> HTTP status sent back, or "none"]
    crashes,     \* requests lost so far
    stolen,      \* ghost: the lock of a request still at work was removed
    overwritten  \* ghost: a creation truncated an anchor that existed

disk == <<lock, expired, exists, file>>
ghosts == <<stolen, overwritten>>
vars == <<pc, req, lock, expired, created, exists, file, reply, crashes,
          stolen, overwritten>>

Kinds == {"create", "append"}
Inputs == [kind: Kinds, base: Requests \cup {None}, stamp: Stamps]

\* Steps of appendAnchor made with the lock directory of the request on disk.
Holding == {"ownStat", "history", "mine", "exist", "append", "mineAgain",
            "rmLock"}
CreateSteps == {"createStat", "truncate", "write"}
Steps == {"idle", "mkdir", "lockStat", "forced", "done", "crashed"}
            \cup Holding \cup CreateSteps
Replies == {"none", "201", "409", "428", "500"}

TypeOK ==
    /\ pc \in [Requests -> Steps]
    /\ req \in [Requests -> Inputs]
    /\ lock \in Requests \cup {None}
    /\ expired \in BOOLEAN
    /\ created \in [Requests -> Requests \cup {None}]
    /\ exists \in BOOLEAN
    /\ file \in Seq(Requests)
    /\ reply \in [Requests -> Replies]
    /\ crashes \in 0..MaxCrashes
    /\ stolen \in BOOLEAN
    /\ overwritten \in BOOLEAN

Init ==
    /\ pc = [r \in Requests |-> "idle"]
    /\ req \in [Requests -> [kind: Kinds, base: {None}, stamp: Stamps]]
    /\ lock = None
    /\ expired = FALSE
    /\ created = [r \in Requests |-> None]
    /\ exists = FALSE
    /\ file = <<>>
    /\ reply = [r \in Requests |-> "none"]
    /\ crashes = 0
    /\ stolen = FALSE
    /\ overwritten = FALSE

-----------------------------------------------------------------------------
Lines == ToSet(file)
LastLine == Last(file)
Working(r) == pc[r] \in Holding

At(r, step) == pc[r] = step
Goto(r, step) == pc' = [pc EXCEPT ![r] = step] /\ UNCHANGED reply
\* getWritingHandler: the request ends with this status.
Answer(r, status) ==
    /\ pc' = [pc EXCEPT ![r] = "done"]
    /\ reply' = [reply EXCEPT ![r] = status]

\* prepareAnchoring turns every lock error into {code: 428}, which the handler
\* that looks at err.statusCode does not recognise.
AnswerLockBusy(r) == Answer(r, "500")

-----------------------------------------------------------------------------
\* A client sends a hash link signed over the version it last saw.
Arrive(r) ==
    /\ At(r, "idle")
    /\ \E base \in Lines \cup {None} :
          req' = [req EXCEPT ![r].base = base]
    /\ Goto(r, IF req[r].kind = "create" THEN "createStat" ELSE "mkdir")
    /\ UNCHANGED <<disk, created, crashes, ghosts>>

\* Fault: a recursive mkdir, which succeeds on a directory that is there.
MkdirRecursive(r) ==
    /\ At(r, "mkdir")
    /\ lock' = r
    /\ expired' = FALSE
    /\ Goto(r, "ownStat")
    /\ UNCHANGED <<req, created, exists, file, crashes, ghosts>>

\* FSLock.acquireLock
Mkdir(r) ==
    /\ At(r, "mkdir")
    /\ IF lock = None
       THEN lock' = r /\ expired' = FALSE /\ Goto(r, "ownStat")
       ELSE Goto(r, "lockStat") /\ UNCHANGED <<lock, expired>>
    /\ UNCHANGED <<req, created, exists, file, crashes, ghosts>>

\* Fault: a waiter that finds a fresh lock tries again at once, for ever.
LockIsExpiredRetries(r) ==
    /\ At(r, "lockStat")
    /\ Goto(r, IF lock = None \/ expired THEN "forced" ELSE "mkdir")
    /\ UNCHANGED <<req, disk, created, crashes, ghosts>>

\* lockIsExpired: a directory that is gone counts as born at time 0.
LockIsExpired(r) ==
    /\ At(r, "lockStat")
    /\ IF lock = None \/ expired THEN Goto(r, "forced") ELSE AnswerLockBusy(r)
    /\ UNCHANGED <<req, disk, created, crashes, ghosts>>

\* releaseExpiredLock, once forcedLockDelay is over: whatever directory is
\* there by now goes; removing one that is not there is an error.
ReleaseExpiredLock(r) ==
    /\ At(r, "forced")
    /\ IF lock = None
       THEN AnswerLockBusy(r) /\ UNCHANGED <<lock, expired, stolen>>
       ELSE /\ stolen' = (stolen \/ Working(lock))
            /\ lock' = None
            /\ expired' = FALSE
            /\ Goto(r, "mkdir")
    /\ UNCHANGED <<req, created, exists, file, crashes, overwritten>>

\* Fault: the birth time of the new directory is not kept.
OwnStatForgets(r) ==
    /\ At(r, "ownStat")
    /\ Goto(r, "history")
    /\ UNCHANGED <<req, disk, created, crashes, ghosts>>

\* getLockCreationTime after a successful mkdir
OwnStat(r) ==
    /\ At(r, "ownStat")
    /\ created' = [created EXCEPT ![r] = lock]
    /\ Goto(r, "history")
    /\ UNCHANGED <<req, disk, crashes, ghosts>>

\* Fault: the signature is not checked against the last hash link.
VerifySignatureAnyBase(r) ==
    /\ At(r, "history")
    /\ IF file = <<>> THEN Answer(r, "500")
       ELSE IF req[r].stamp < req[LastLine].stamp THEN Answer(r, "409")
       ELSE Goto(r, "mine")
    /\ UNCHANGED <<req, disk, created, crashes, ghosts>>

\* Fault: the timestamp is not checked.
VerifySignatureAnyStamp(r) ==
    /\ At(r, "history")
    /\ IF file = <<>> THEN Answer(r, "500")
       ELSE IF req[r].base # LastLine THEN Answer(r, "428")
       ELSE Goto(r, "mine")
    /\ UNCHANGED <<req, disk, created, crashes, ghosts>>

\* getAllVersions and verifySignaturesAndAppend, up to the persistence call.
VerifySignature(r) ==
    /\ At(r, "history")
    /\ IF file = <<>> THEN Answer(r, "500")
       ELSE IF req[r].stamp < req[LastLine].stamp THEN Answer(r, "409")
       ELSE IF req[r].base # LastLine THEN Answer(r, "428")
       ELSE Goto(r, "mine")
    /\ UNCHANGED <<req, disk, created, crashes, ghosts>>

\* isMyLock compares birth times, and a missing directory has one: 0.
IsMyLock(r) == lock = created[r]

CheckLock(r) ==
    /\ At(r, "mine")
    /\ IF IsMyLock(r) THEN Goto(r, "exist") ELSE Answer(r, "500")
    /\ UNCHANGED <<req, disk, created, crashes, ghosts>>

FileExist(r) ==
    /\ At(r, "exist")
    /\ IF exists THEN Goto(r, "append") ELSE Answer(r, "500")
    /\ UNCHANGED <<req, disk, created, crashes, ghosts>>

\* Fault: writeFile in place of appendFile.
AppendAnchorRewrites(r) ==
    /\ At(r, "append")
    /\ file' = <<r>>
    /\ Goto(r, "mineAgain")
    /\ UNCHANGED <<req, lock, expired, created, exists, crashes, ghosts>>

AppendAnchor(r) ==
    /\ At(r, "append")
    /\ file' = Append(file, r)
    /\ Goto(r, "mineAgain")
    /\ UNCHANGED <<req, lock, expired, created, exists, crashes, ghosts>>

\* releaseLock: the lock is checked, then removed.
ReleaseLock(r) ==
    /\ At(r, "mineAgain")
    /\ IF IsMyLock(r) THEN Goto(r, "rmLock") ELSE Answer(r, "500")
    /\ UNCHANGED <<req, disk, created, crashes, ghosts>>

\* Fault: a lock that has expired by the time it is removed is reported.
RemoveLockReports(r) ==
    /\ At(r, "rmLock")
    /\ Answer(r, IF lock = None \/ expired THEN "500" ELSE "201")
    /\ lock' = None
    /\ expired' = FALSE
    /\ UNCHANGED <<req, created, exists, file, crashes, ghosts>>

RemoveLock(r) ==
    /\ At(r, "rmLock")
    /\ Answer(r, IF lock = None THEN "500" ELSE "201")
    /\ lock' = None
    /\ expired' = FALSE
    /\ UNCHANGED <<req, created, exists, file, crashes, ghosts>>

-----------------------------------------------------------------------------
\* createAnchor takes no lock: signature check and stat, then fs.writeFile,
\* which truncates the file and writes the line in a second step.
CreateStat(r) ==
    /\ At(r, "createStat")
    /\ IF req[r].base # None \/ exists
       THEN Answer(r, "500")
       ELSE Goto(r, "truncate")
    /\ UNCHANGED <<req, disk, created, crashes, ghosts>>

Truncate(r) ==
    /\ At(r, "truncate")
    /\ overwritten' = (overwritten \/ exists)
    /\ exists' = TRUE
    /\ file' = <<>>
    /\ Goto(r, "write")
    /\ UNCHANGED <<req, lock, expired, created, crashes, stolen>>

\* Fault: the answer does not wait for the line to be on disk.
WriteUnfinished(r) ==
    /\ At(r, "write")
    /\ Answer(r, "201")
    /\ UNCHANGED <<req, disk, created, crashes, ghosts>>

Write(r) ==
    /\ At(r, "write")
    /\ file' = IF file = <<>> THEN <<r>> ELSE [file EXCEPT ![1] = r]
    /\ Answer(r, "201")
    /\ UNCHANGED <<req, lock, expired, created, exists, crashes, ghosts>>

-----------------------------------------------------------------------------
\* Five seconds pass since the lock directory was made.
LockAges ==
    /\ lock # None
    /\ ~expired
    /\ expired' = TRUE
    /\ UNCHANGED <<pc, req, lock, created, exists, file, reply, crashes, ghosts>>

\* The process that serves the request dies; only the disk survives.
Crash(r) ==
    /\ pc[r] \notin {"idle", "done", "crashed"}
    /\ crashes < MaxCrashes
    /\ crashes' = crashes + 1
    /\ pc' = [pc EXCEPT ![r] = "crashed"]
    /\ UNCHANGED <<req, disk, created, reply, ghosts>>

AppendStep(r) ==
    \/ Mkdir(r)
    \/ LockIsExpired(r)
    \/ ReleaseExpiredLock(r)
    \/ OwnStat(r)
    \/ VerifySignature(r)
    \/ CheckLock(r)
    \/ FileExist(r)
    \/ AppendAnchor(r)
    \/ ReleaseLock(r)
    \/ RemoveLock(r)

CreateStep(r) == CreateStat(r) \/ Truncate(r) \/ Write(r)

Next ==
    \/ \E r \in Requests : Arrive(r) \/ AppendStep(r) \/ CreateStep(r) \/ Crash(r)
    \/ LockAges

Spec == Init /\ [][Next]_vars

\* Node runs every callback whose file operation has ended; clients, clocks and
\* crashes owe nothing.
FairSpec == Spec /\ \A r \in Requests : WF_vars(AppendStep(r) \/ CreateStep(r))

\* No request is slow: a lock directory that has expired is a leftover, of a request
\* that was refused or died.
Prompt == expired' => pc'[lock'] \notin Holding
PromptSpec == Init /\ [][Next /\ Prompt]_vars

-----------------------------------------------------------------------------
Refused(r) == reply[r] \in {"409", "428", "500"}

\* FSLock is a lock: two requests are between mkdir and release together only
\* after a waiter has removed the directory of a request still at work.
MutualExclusion ==
    stolen \/ \A r, q \in Requests : Working(r) /\ Working(q) => r = q

\* The check getAllVersions makes at trust level 0: every line is signed over
\* the one before it, the first one over nothing.
HistoryVerifies ==
    \A i \in 1..Len(file) :
        req[file[i]].base = IF i = 1 THEN None ELSE file[i - 1]

\* An anchor stays readable: whatever the interleaving of requests, crashes and
\* leftover locks, its history passes the check that every reader makes.
HistoryStaysReadable == stolen \/ overwritten \/ HistoryVerifies

\* The timestamps of the history never go back, although stamps are compared
\* with a history read several steps before the line is written.
StampsInOrder ==
    \/ stolen
    \/ overwritten
    \/ \A i, j \in 1..Len(file) : i <= j => req[file[i]].stamp <= req[file[j]].stamp

\* A hash link the hub acknowledged is in the history and stays there, even when
\* locks are stolen, as long as no creation truncates the anchor.
AcknowledgedIsStored ==
    \A r \in Requests : reply[r] = "201" => overwritten \/ r \in Lines

\* A request answered with an error has left no line behind, so that the client
\* may send the same hash link again.
RefusedLeavesNoTrace ==
    \A r \in Requests : Refused(r) => stolen \/ r \notin Lines

\* No step rewrites or drops a version once it is there.
HistoryOnlyGrows ==
    [][overwritten' \/ IsPrefix(file, file')]_vars

\* Every request is answered, however the lock changes hands, unless its process
\* dies.
EveryRequestAnswered ==
    \A r \in Requests : (pc[r] # "idle") ~> (pc[r] \in {"done", "crashed"})

\* "if anchor exist, return error": no creation replaces an anchor.
CreateNeverOverwrites == ~overwritten

\* "is locked by another process": only the process that holds the lock writes,
\* so no line is signed over anything but the line before it, also when waiters remove
\* a leftover lock directory.
LockedByAnotherProcess == overwritten \/ HistoryVerifies

\* prepareAnchoring reports a lock it cannot have as {code: 428, "Versions out of
\* sync"}, so that the client merges and tries again.
LockBusyIsOutOfSync ==
    [][\A r \in Requests :
          At(r, "lockStat") /\ At(r, "done")' => reply'[r] = "428"]_vars

-----------------------------------------------------------------------------
(* The inductive invariant behind the safety properties. *)

\* Steps made by a request that has not written its line yet.
Unwritten == {"idle", "mkdir", "lockStat", "forced", "ownStat", "history", "mine",
              "exist", "append"} \cup CreateSteps
Verified == {"mine", "exist", "append"}

\* A request at work owns the lock directory, and knows its birth time.
LockInv ==
    ~stolen => \A r \in Requests :
        /\ Working(r) => lock = r
        /\ Working(r) /\ pc[r] # "ownStat" => created[r] = r

\* Who has a line in the file, and who has been told so.
LineInv ==
    /\ ~exists => file = <<>>
    /\ \A i, j \in 1..Len(file) : file[i] = file[j] => i = j
    /\ \A r \in Requests :
        /\ pc[r] \in Verified \cup {"write"} => exists
        /\ pc[r] \in Unwritten => \A i \in 1..Len(file) : file[i] # r
        /\ pc[r] \in {"mineAgain", "rmLock"} =>
              overwritten \/ \E i \in 1..Len(file) : file[i] = r
        /\ reply[r] = "201" =>
              overwritten \/ \E i \in 1..Len(file) : file[i] = r
        /\ reply[r] # "none" => pc[r] = "done"
        /\ Refused(r) => stolen \/ \A i \in 1..Len(file) : file[i] # r

\* Creations that do not collide find the file as their own truncation left it.
CreateInv ==
    \A r \in Requests :
        /\ pc[r] \in {"truncate", "write"} => req[r].base = None
        /\ pc[r] = "write" /\ ~overwritten => file = <<>>
        /\ pc[r] \in Verified /\ ~overwritten => file # <<>>
        /\ \A q \in Requests :
              pc[r] = "write" /\ pc[q] = "write" /\ ~overwritten => r = q

\* What a request verified is still so when it appends, and so the chain holds.
ChainInv ==
    ~stolen /\ ~overwritten =>
        /\ \A r \in Requests : pc[r] \in Verified =>
              /\ req[r].base = file[Len(file)]
              /\ req[file[Len(file)]].stamp <= req[r].stamp
        /\ HistoryVerifies
        /\ \A i, j \in 1..Len(file) :
              i <= j => req[file[i]].stamp <= req[file[j]].stamp

Inv == TypeOK /\ LockInv /\ LineInv /\ CreateInv /\ ChainInv

-----------------------------------------------------------------------------
\* The lines of the file with the facts their signatures cover.
SignedLine(r) == [value |-> r, base |-> req[r].base, stamp |-> req[r].stamp]
SignedLines == [i \in DOMAIN file |-> SignedLine(file[i])]

\* The anchor as the hub promises it, until a request loses the lock it works
\* under or two creations collide.
Log == INSTANCE AnchorLog WITH
    Values <- Requests, log <- SignedLines, broken <- stolen \/ overwritten

\* Up to the first such step the file, with its lock directory, its crashes and its
\* half-done requests, is the append-only signed log; no other step of the code
\* (a late forced removal, a crash between check and write) makes it differ.
ImplementsAnchorLog == Log!Spec
=============================================================================
