----------------------------- MODULE SimpleLock ------------------------------
(***************************************************************************)
(* The lock service of the hub (apihub/middlewares/SimpleLock): /lock and  *)
(* /unlock for one id, whose lock is a file in a folder of its own.        *)
(*                                                                         *)
(* A secret stands for the client that made it up; it sends one request at *)
(* a time.  A step is what runs between two file operations, so requests   *)
(* of several secrets interleave as Node's callbacks do.                   *)
(***************************************************************************)
EXTENDS Naturals, FiniteSets

CONSTANTS
    Secrets,
    None,       \* no file
    Nobody,     \* a file that names no secret: empty, or not JSON
    MaxAsks     \* bound: requests of one secret for the lock

ASSUME NoneAssumption == None \notin Secrets /\ Nobody \notin Secrets /\ None # Nobody
ASSUME AsksAssumption == MaxAsks \in Nat

VARIABLES
    folder,     \* the folder of the lock exists
    file,       \* the secret in the lock file, Nobody or None
    call,       \* [Secrets -> the file operation its request waits for]
    fd,         \* [Secrets -> the file it has open is the lock file still]
    over,       \* secrets whose period, as they put it in the file, is over
    answer,     \* [Secrets -> the status of the last request]
    asks,       \* [Secrets -> its requests for the lock so far]
    holds,      \* secrets told that they have the lock that have not given it back
    raced       \* ghost: a request passed its check while another one, past its
                \* own, was at work on the files

disk == <<folder, file>>
vars == <<folder, file, call, fd, over, answer, asks, holds, raced>>

PutSteps == {"lockRead", "rm", "rmdir", "mkdir", "open", "write"}
RemoveSteps == {"unlockRead", "unlink"}
Answers == {"none", "200", "404", "409", "500"}

TypeOK ==
    /\ folder \in BOOLEAN
    /\ file \in Secrets \cup {None, Nobody}
    /\ call \in [Secrets -> {"idle"} \cup PutSteps \cup RemoveSteps]
    /\ fd \in [Secrets -> BOOLEAN]
    /\ over \subseteq Secrets
    /\ answer \in [Secrets -> Answers]
    /\ asks \in [Secrets -> 0..MaxAsks]
    /\ holds \subseteq Secrets
    /\ raced \in BOOLEAN

Init ==
    /\ folder = FALSE
    /\ file = None
    /\ call = [s \in Secrets |-> "idle"]
    /\ fd = [s \in Secrets |-> FALSE]
    /\ over = {}
    /\ answer = [s \in Secrets |-> "none"]
    /\ asks = [s \in Secrets |-> 0]
    /\ holds = {}
    /\ raced = FALSE

-----------------------------------------------------------------------------
At(s, step) == call[s] = step
Goto(s, step) == call' = [call EXCEPT ![s] = step] /\ UNCHANGED answer
Answer(s, status) ==
    /\ call' = [call EXCEPT ![s] = "idle"]
    /\ answer' = [answer EXCEPT ![s] = status]

\* Fault: the comparison of the end of the period with the clock is turned around.
LockedReversed == file \in Secrets \cap over

\* checkIfLockExists: there is a lock unless the file is missing, names no secret
\* or is out of date.
Locked == file \in Secrets \ over

\* The lock file is removed; who has it open writes to a file nobody finds.
FileRemoved ==
    /\ file' = None
    /\ fd' = [s \in Secrets |-> FALSE]

\* A request goes on to change files, by what it has read.
AtWork == {s \in Secrets : call[s] \in {"rm", "rmdir", "mkdir", "open", "write", "unlink"}}
Enters(s, step) == Goto(s, step) /\ raced' = (raced \/ AtWork \ {s} # {})

\* A client sends a request.
Begins(s, step) ==
    /\ At(s, "idle")
    /\ Goto(s, step)
    /\ UNCHANGED <<disk, fd, raced>>

-----------------------------------------------------------------------------
(* putLock *)

\* A client asks for a lock it has not got; a client that was told 409 asks again.
Lock(s) ==
    /\ s \notin holds
    /\ answer[s] \in {"none", "409"}
    /\ asks[s] < MaxAsks
    /\ asks' = [asks EXCEPT ![s] = @ + 1]
    /\ Begins(s, "lockRead")
    /\ UNCHANGED <<over, holds>>

\* Fault: what putLock passes to its callback is answered as it is.
CheckIfLockExistsRaw(s) ==
    /\ At(s, "lockRead")
    /\ IF Locked
       THEN /\ call' = [call EXCEPT ![s] = "idle"]
            /\ answer' = [answer EXCEPT ![s] = "refused"]
            /\ UNCHANGED raced
       ELSE Enters(s, "rm")
    /\ UNCHANGED <<disk, fd, over, asks, holds>>

\* checkIfLockExists, up to the call of cleanLockFiles
CheckIfLockExists(s) ==
    /\ At(s, "lockRead")
    /\ IF Locked THEN Answer(s, "409") /\ UNCHANGED raced ELSE Enters(s, "rm")
    /\ UNCHANGED <<disk, fd, over, asks, holds>>

\* fs.rm removes an empty folder, or else first what is in it.
CleanLockFiles(s) ==
    /\ At(s, "rm")
    /\ IF file = None
       THEN /\ folder' = FALSE
            /\ Goto(s, "mkdir")
            /\ UNCHANGED <<file, fd>>
       ELSE /\ FileRemoved
            /\ Goto(s, "rmdir")
            /\ UNCHANGED folder
    /\ UNCHANGED <<over, asks, holds, raced>>

\* Fault: the error of fs.rm is neither answered nor passed on.
RemoveFolderSilently(s) ==
    /\ At(s, "rmdir") /\ file = None
    /\ folder' = FALSE
    /\ Goto(s, "mkdir")
    /\ UNCHANGED <<file, fd, over, asks, holds, raced>>

\* It fails when the folder is not empty any more.
RemoveFolder(s) ==
    /\ At(s, "rmdir")
    /\ IF file = None
       THEN folder' = FALSE /\ Goto(s, "mkdir")
       ELSE UNCHANGED folder /\ Answer(s, "500")
    /\ UNCHANGED <<file, fd, over, asks, holds, raced>>

\* The folder is made and the end of the period is computed.
MakeFolder(s) ==
    /\ At(s, "mkdir")
    /\ folder' = TRUE
    /\ over' = over \ {s}
    /\ Goto(s, "open")
    /\ UNCHANGED <<file, fd, asks, holds, raced>>

\* fs.writeFile truncates the file or makes it.
OpenFile(s) ==
    /\ At(s, "open")
    /\ IF folder
       THEN /\ file' = Nobody
            /\ fd' = [fd EXCEPT ![s] = TRUE]
            /\ Goto(s, "write")
       ELSE /\ Answer(s, "500")
            /\ UNCHANGED <<file, fd>>
    /\ UNCHANGED <<folder, over, asks, holds, raced>>

\* It writes, to whatever file it has open; what it writes over another's data may
\* be shorter, and then what is there is no JSON.
WriteFile(s) ==
    /\ At(s, "write")
    /\ IF fd[s]
       THEN file' = s \/ (file \in Secrets /\ file' = Nobody)
       ELSE UNCHANGED file
    /\ fd' = [fd EXCEPT ![s] = FALSE]
    /\ holds' = holds \cup {s}
    /\ Answer(s, "200")
    /\ UNCHANGED <<folder, over, asks, raced>>

-----------------------------------------------------------------------------
(* removeLock *)

\* A client gives back the lock it was given.
Unlock(s) ==
    /\ s \in holds
    /\ holds' = holds \ {s}
    /\ Begins(s, "unlockRead")
    /\ UNCHANGED <<over, asks>>

\* Fault: whoever asks for it removes the lock that is there.
RemoveLockOfAnybody(s) ==
    /\ At(s, "unlockRead")
    /\ IF file \in Secrets THEN Enters(s, "unlink") ELSE Answer(s, "404") /\ UNCHANGED raced
    /\ UNCHANGED <<disk, fd, over, asks, holds>>

RemoveLock(s) ==
    /\ At(s, "unlockRead")
    /\ IF file = s THEN Enters(s, "unlink") ELSE Answer(s, "404") /\ UNCHANGED raced
    /\ UNCHANGED <<disk, fd, over, asks, holds>>

\* Fault: success is answered before the file is removed, and the error is lost.
UnlinkFileSilently(s) ==
    /\ At(s, "unlink")
    /\ Answer(s, "200")
    /\ UNCHANGED <<disk, fd, over, asks, holds, raced>>

\* The file that is there is removed, and an error answered when there is none.
UnlinkFile(s) ==
    /\ At(s, "unlink")
    /\ IF file = None
       THEN Answer(s, "500") /\ UNCHANGED <<file, fd>>
       ELSE Answer(s, "200") /\ FileRemoved
    /\ UNCHANGED <<folder, over, asks, holds, raced>>

-----------------------------------------------------------------------------
\* Time passes beyond the period a secret has put, or will put, in the file.
Expire(s) ==
    /\ s \notin over
    /\ At(s, "open") \/ At(s, "write") \/ file = s
    /\ over' = over \cup {s}
    /\ UNCHANGED <<disk, call, fd, answer, asks, holds, raced>>

Handle(s) ==
    \/ CheckIfLockExists(s) \/ CleanLockFiles(s) \/ RemoveFolder(s)
    \/ MakeFolder(s) \/ OpenFile(s) \/ WriteFile(s)
    \/ RemoveLock(s) \/ UnlinkFile(s)

Next == \E s \in Secrets : Lock(s) \/ Unlock(s) \/ Handle(s) \/ Expire(s)

Spec == Init /\ [][Next]_vars

\* Node runs the callback of every file operation that has ended.
FairSpec == Spec /\ \A s \in Secrets : WF_vars(Handle(s))

-----------------------------------------------------------------------------
\* A client sends nothing while it holds the lock, and asks for it until it is told
\* anything but 409.
ClientsWait ==
    \A s \in Secrets :
        /\ s \in holds => At(s, "idle")
        /\ call[s] \in PutSteps => answer[s] \in {"none", "409"}

\* What a request that is alone finds at each of its steps, and whose lock it is.
Alone ==
    \/ raced
    \/ /\ \A s, q \in AtWork : s = q
       /\ \A s \in Secrets :
            /\ s \in holds \/ At(s, "unlockRead") => s \in over \/ file = s
            /\ At(s, "rm") => ~Locked
            /\ call[s] \in {"rmdir", "mkdir", "open"} => file = None
            /\ At(s, "open") => folder
            /\ At(s, "write") => file = Nobody /\ fd[s]
            /\ At(s, "unlink") => file = s
            /\ answer[s] # "500"
            /\ answer[s] = "404" => s \in over

\* Whatever races there are, a secret that was refused, or that has given its lock
\* back, never has it: nobody waits for a lock without an owner.
OnlyWhoAskedHasIt ==
    \A s \in Secrets : file = s => s \in holds \/ call[s] \in RemoveSteps

\* The inductive invariant.
Inv == TypeOK /\ ClientsWait /\ Alone /\ OnlyWhoAskedHasIt

\* Who was told that it has the lock has it, until its period is over: the file
\* names it, so that no two clients are in at once.  Any number of clients may
\* ask meanwhile; only two that are past the check together spoil it.
HoldersHaveTheLock == raced \/ \A s \in holds \ over : file = s

\* The same without the exception, which races break.
HoldersExclude == Cardinality(holds \ over) <= 1

\* Requests that change the files one after the other never fail, and only a
\* client whose period is over finds its lock gone.
NoneFailsAlone ==
    raced \/ \A s \in Secrets : answer[s] # "500" /\ (answer[s] = "404" => s \in over)

\* Every request is answered, whatever the other requests do to its files.
EveryRequestIsAnswered == \A s \in Secrets : ~At(s, "idle") ~> At(s, "idle")

Service == INSTANCE Lease
             WITH holder <- IF file \in Secrets THEN file ELSE None,
                  leaving <- {s \in Secrets : call[s] \in RemoveSteps},
                  broken <- raced

\* The service is a lease until the first race: given to nobody but when it is
\* free, taken from its holder only by its own release or after its period.
ImplementsLease == Service!Spec
=============================================================================
