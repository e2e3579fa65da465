-------------------------- MODULE SimpleLock_proof ---------------------------
(***************************************************************************)
(* Proofs about SimpleLock, for any set of secrets and any bound on their  *)
(* requests.                                                               *)
(***************************************************************************)
EXTENDS SimpleLock, TLAPS

\* In the initial state nobody has asked.
LEMMA InitInv == Init => Inv
<1> SUFFICES ASSUME Init PROVE Inv
  OBVIOUS
<1> USE NoneAssumption DEF Init, At, PutSteps, RemoveSteps
<1>1. TypeOK
  <2>1. 0 \in 0..MaxAsks
    BY AsksAssumption
  <2>2. asks \in [Secrets -> 0..MaxAsks]
    BY <2>1
  <2> QED
    BY <2>2 DEF TypeOK, Answers
<1>2. ClientsWait /\ OnlyWhoAskedHasIt
  BY DEF ClientsWait, OnlyWhoAskedHasIt
<1>3. Alone
  BY DEF Alone, AtWork
<1> QED
  BY <1>1, <1>2, <1>3 DEF Inv

\* Every step of the service and of its clients keeps the types.
LEMMA StepType == TypeOK /\ [Next]_vars => TypeOK'
<1> SUFFICES ASSUME TypeOK, [Next]_vars PROVE TypeOK'
  OBVIOUS
<1> USE NoneAssumption, AsksAssumption DEF TypeOK, PutSteps, RemoveSteps, Answers, At,
        Goto, Answer, Enters, disk
<1>1. ASSUME NEW s \in Secrets, Lock(s) PROVE TypeOK'
  BY <1>1 DEF Lock, Begins
<1>2. ASSUME NEW s \in Secrets, Unlock(s) PROVE TypeOK'
  BY <1>2 DEF Unlock, Begins
<1>3. ASSUME NEW s \in Secrets, CheckIfLockExists(s) PROVE TypeOK'
  BY <1>3 DEF CheckIfLockExists
<1>4. ASSUME NEW s \in Secrets, CleanLockFiles(s) PROVE TypeOK'
  BY <1>4 DEF CleanLockFiles, FileRemoved
<1>5. ASSUME NEW s \in Secrets, RemoveFolder(s) PROVE TypeOK'
  BY <1>5 DEF RemoveFolder
<1>6. ASSUME NEW s \in Secrets, MakeFolder(s) PROVE TypeOK'
  BY <1>6 DEF MakeFolder
<1>7. ASSUME NEW s \in Secrets, OpenFile(s) PROVE TypeOK'
  BY <1>7 DEF OpenFile
<1>8. ASSUME NEW s \in Secrets, WriteFile(s) PROVE TypeOK'
  BY <1>8 DEF WriteFile
<1>9. ASSUME NEW s \in Secrets, RemoveLock(s) PROVE TypeOK'
  BY <1>9 DEF RemoveLock
<1>10. ASSUME NEW s \in Secrets, UnlinkFile(s) PROVE TypeOK'
  BY <1>10 DEF UnlinkFile, FileRemoved
<1>11. ASSUME NEW s \in Secrets, Expire(s) PROVE TypeOK'
  BY <1>11 DEF Expire
<1>12. CASE UNCHANGED vars
  BY <1>12 DEF vars
<1> QED
  BY <1>1, <1>2, <1>3, <1>4, <1>5, <1>6, <1>7, <1>8, <1>9, <1>10, <1>11, <1>12
  DEF Next, Handle

\* Clients do one thing at a time.
LEMMA StepClients == TypeOK /\ ClientsWait /\ [Next]_vars => ClientsWait'
<1> SUFFICES ASSUME TypeOK, ClientsWait, [Next]_vars PROVE ClientsWait'
  OBVIOUS
<1> USE DEF TypeOK, ClientsWait, PutSteps, RemoveSteps, At, Goto, Answer, Enters, disk
<1>1. ASSUME NEW s \in Secrets, Lock(s) PROVE ClientsWait'
  BY <1>1 DEF Lock, Begins
<1>2. ASSUME NEW s \in Secrets, Unlock(s) PROVE ClientsWait'
  BY <1>2 DEF Unlock, Begins
<1>3. ASSUME NEW s \in Secrets, CheckIfLockExists(s) PROVE ClientsWait'
  BY <1>3 DEF CheckIfLockExists
<1>4. ASSUME NEW s \in Secrets, CleanLockFiles(s) PROVE ClientsWait'
  BY <1>4 DEF CleanLockFiles
<1>5. ASSUME NEW s \in Secrets, RemoveFolder(s) PROVE ClientsWait'
  BY <1>5 DEF RemoveFolder
<1>6. ASSUME NEW s \in Secrets, MakeFolder(s) PROVE ClientsWait'
  BY <1>6 DEF MakeFolder
<1>7. ASSUME NEW s \in Secrets, OpenFile(s) PROVE ClientsWait'
  BY <1>7 DEF OpenFile
<1>8. ASSUME NEW s \in Secrets, WriteFile(s) PROVE ClientsWait'
  BY <1>8 DEF WriteFile
<1>9. ASSUME NEW s \in Secrets, RemoveLock(s) PROVE ClientsWait'
  BY <1>9 DEF RemoveLock
<1>10. ASSUME NEW s \in Secrets, UnlinkFile(s) PROVE ClientsWait'
  BY <1>10 DEF UnlinkFile
<1>11. ASSUME NEW s \in Secrets, Expire(s) PROVE ClientsWait'
  BY <1>11 DEF Expire
<1>12. CASE UNCHANGED vars
  BY <1>12 DEF vars
<1> QED
  BY <1>1, <1>2, <1>3, <1>4, <1>5, <1>6, <1>7, <1>8, <1>9, <1>10, <1>11, <1>12
  DEF Next, Handle

\* A lock has an owner, whatever races there are: only WriteFile names a secret in
\* the file, and its client then has it; only UnlinkFile forgets one.
LEMMA StepOwner ==
    TypeOK /\ OnlyWhoAskedHasIt /\ [Next]_vars => OnlyWhoAskedHasIt'
<1> SUFFICES ASSUME TypeOK, OnlyWhoAskedHasIt, [Next]_vars PROVE OnlyWhoAskedHasIt'
  OBVIOUS
<1> USE NoneAssumption
    DEF TypeOK, OnlyWhoAskedHasIt, RemoveSteps, At, Goto, Answer, Enters, disk
<1>1. ASSUME NEW s \in Secrets, Lock(s) PROVE OnlyWhoAskedHasIt'
  BY <1>1 DEF Lock, Begins
<1>2. ASSUME NEW s \in Secrets, Unlock(s) PROVE OnlyWhoAskedHasIt'
  BY <1>2 DEF Unlock, Begins
<1>3. ASSUME NEW s \in Secrets, CheckIfLockExists(s) PROVE OnlyWhoAskedHasIt'
  BY <1>3 DEF CheckIfLockExists
<1>4. ASSUME NEW s \in Secrets, CleanLockFiles(s) PROVE OnlyWhoAskedHasIt'
  BY <1>4 DEF CleanLockFiles, FileRemoved
<1>5. ASSUME NEW s \in Secrets, RemoveFolder(s) PROVE OnlyWhoAskedHasIt'
  BY <1>5 DEF RemoveFolder
<1>6. ASSUME NEW s \in Secrets, MakeFolder(s) PROVE OnlyWhoAskedHasIt'
  BY <1>6 DEF MakeFolder
<1>7. ASSUME NEW s \in Secrets, OpenFile(s) PROVE OnlyWhoAskedHasIt'
  BY <1>7 DEF OpenFile
<1>8. ASSUME NEW s \in Secrets, WriteFile(s) PROVE OnlyWhoAskedHasIt'
  BY <1>8 DEF WriteFile
<1>9. ASSUME NEW s \in Secrets, RemoveLock(s) PROVE OnlyWhoAskedHasIt'
  BY <1>9 DEF RemoveLock
<1>10. ASSUME NEW s \in Secrets, UnlinkFile(s) PROVE OnlyWhoAskedHasIt'
  BY <1>10 DEF UnlinkFile, FileRemoved
<1>11. ASSUME NEW s \in Secrets, Expire(s) PROVE OnlyWhoAskedHasIt'
  BY <1>11 DEF Expire
<1>12. CASE UNCHANGED vars
  BY <1>12 DEF vars
<1> QED
  BY <1>1, <1>2, <1>3, <1>4, <1>5, <1>6, <1>7, <1>8, <1>9, <1>10, <1>11, <1>12
  DEF Next, Handle

\* A race is never forgotten.
LEMMA RacesStay == TypeOK /\ [Next]_vars /\ ~raced' => ~raced
  BY DEF TypeOK, Next, Handle, vars, Lock, Unlock, CheckIfLockExists, CleanLockFiles,
         RemoveFolder, MakeFolder, OpenFile, WriteFile, RemoveLock, UnlinkFile, Expire,
         Begins, Enters

\* A request that is alone past its check finds the files as it left them, and the
\* lock that it takes away is nobody's, out of date or its own.
LEMMA StepAlone == TypeOK /\ ClientsWait /\ Alone /\ [Next]_vars => Alone'
<1> SUFFICES ASSUME TypeOK, ClientsWait, Alone, [Next]_vars, ~raced' PROVE Alone'
  BY DEF Alone
<1>0. ~raced
  BY RacesStay
<1> USE <1>0
<1> USE NoneAssumption
    DEF TypeOK, ClientsWait, Alone, AtWork, Locked, PutSteps, RemoveSteps, At, Goto,
        Answer, disk
<1>1. ASSUME NEW s \in Secrets, Lock(s) PROVE Alone'
  BY <1>1 DEF Lock, Begins
<1>2. ASSUME NEW s \in Secrets, Unlock(s) PROVE Alone'
  BY <1>2 DEF Unlock, Begins
<1>3. ASSUME NEW s \in Secrets, CheckIfLockExists(s) PROVE Alone'
  <2>1. CASE Locked
    BY <1>3, <2>1 DEF CheckIfLockExists
  <2>2. CASE ~Locked
    <3>1. AtWork = {}
      BY <1>3, <2>2 DEF CheckIfLockExists, Enters
    <3>2. /\ call' = [call EXCEPT ![s] = "rm"]
          /\ UNCHANGED <<folder, file, fd, over, answer, asks, holds>>
      BY <1>3, <2>2 DEF CheckIfLockExists, Enters
    <3>3. \A q \in Secrets : q # s => call'[q] = call[q] /\ q \notin AtWork
      BY <3>1, <3>2
    <3>4. \A p, q \in AtWork' : p = q
      BY <3>3
    <3>5. ~Locked' /\ call'[s] = "rm"
      BY <2>2, <3>2
    <3> HIDE DEF AtWork, Locked
    <3> QED
      BY <3>2, <3>3, <3>4, <3>5
  <2> QED
    BY <2>1, <2>2
<1>4. ASSUME NEW s \in Secrets, CleanLockFiles(s) PROVE Alone'
  BY <1>4 DEF CleanLockFiles, FileRemoved
<1>5. ASSUME NEW s \in Secrets, RemoveFolder(s) PROVE Alone'
  BY <1>5 DEF RemoveFolder
<1>6. ASSUME NEW s \in Secrets, MakeFolder(s) PROVE Alone'
  BY <1>6 DEF MakeFolder
<1>7. ASSUME NEW s \in Secrets, OpenFile(s) PROVE Alone'
  BY <1>7 DEF OpenFile
<1>8. ASSUME NEW s \in Secrets, WriteFile(s) PROVE Alone'
  BY <1>8 DEF WriteFile
<1>9. ASSUME NEW s \in Secrets, RemoveLock(s) PROVE Alone'
  <2>1. CASE file # s
    BY <1>9, <2>1 DEF RemoveLock
  <2>2. CASE file = s
    <3>1. AtWork = {}
      BY <1>9, <2>2 DEF RemoveLock, Enters
    <3>2. /\ call' = [call EXCEPT ![s] = "unlink"]
          /\ UNCHANGED <<folder, file, fd, over, answer, asks, holds>>
      BY <1>9, <2>2 DEF RemoveLock, Enters
    <3>3. \A q \in Secrets : q # s => call'[q] = call[q] /\ q \notin AtWork
      BY <3>1, <3>2
    <3>4. \A p, q \in AtWork' : p = q
      BY <3>3
    <3>5. Locked' = Locked
      BY <3>2
    <3> HIDE DEF AtWork, Locked
    <3> QED
      BY <2>2, <3>2, <3>3, <3>4, <3>5
  <2> QED
    BY <2>1, <2>2
<1>10. ASSUME NEW s \in Secrets, UnlinkFile(s) PROVE Alone'
  BY <1>10 DEF UnlinkFile, FileRemoved
<1>11. ASSUME NEW s \in Secrets, Expire(s) PROVE Alone'
  BY <1>11 DEF Expire
<1>12. CASE UNCHANGED vars
  BY <1>12 DEF vars
<1> QED
  BY <1>1, <1>2, <1>3, <1>4, <1>5, <1>6, <1>7, <1>8, <1>9, <1>10, <1>11, <1>12
  DEF Next, Handle

-----------------------------------------------------------------------------
\* The inductive invariant: types, clients that do one thing at a time, what a
\* request finds that is alone past its check, and an owner for every lock.
THEOREM InductiveInvariant == Spec => []Inv
<1>1. Inv /\ [Next]_vars => Inv'
  BY StepType, StepClients, StepOwner, StepAlone DEF Inv
<1> QED
  BY InitInv, <1>1, PTL DEF Spec

\* Until two requests race, whoever was told that it has the lock has it.
THEOREM TheLockIsHeld == Spec => []HoldersHaveTheLock
<1>1. Inv => HoldersHaveTheLock
  BY DEF Inv, Alone, HoldersHaveTheLock, TypeOK
<1> QED
  BY InductiveInvariant, <1>1, PTL

\* Until two requests race, none fails and a lock is gone only after its period.
THEOREM AloneNoneFails == Spec => []NoneFailsAlone
<1>1. Inv => NoneFailsAlone
  BY DEF Inv, Alone, NoneFailsAlone
<1> QED
  BY InductiveInvariant, <1>1, PTL

\* The lock that is in the file is always somebody's who still wants it.
THEOREM EveryLockHasAnOwner == Spec => []OnlyWhoAskedHasIt
<1>1. Inv => OnlyWhoAskedHasIt
  BY DEF Inv
<1> QED
  BY InductiveInvariant, <1>1, PTL

-----------------------------------------------------------------------------
\* A step without a race grants, ends or keeps the lease.
LEMMA StepOfLease == Inv /\ [Next]_vars => [Service!Next]_(Service!vars)
<1> DEFINE holder == IF file \in Secrets THEN file ELSE None
<1> SUFFICES ASSUME Inv, [Next]_vars, ~raced'
             PROVE  \/ holder' = holder
                    \/ \E s \in Secrets :
                          Service!Grant(s) \/ Service!Lapse(s) \/ Service!Release(s)
  BY DEF Service!Next, Service!Break
<1>0. ~raced
  BY RacesStay DEF Inv
<1> USE <1>0, NoneAssumption DEF Inv, TypeOK, Alone, Goto, Answer, At, disk
<1>1. ASSUME NEW s \in Secrets, Lock(s) PROVE holder' = holder
  BY <1>1 DEF Lock, Begins
<1>2. ASSUME NEW s \in Secrets, Unlock(s) PROVE holder' = holder
  BY <1>2 DEF Unlock, Begins
<1>3. ASSUME NEW s \in Secrets, CheckIfLockExists(s) PROVE holder' = holder
  BY <1>3 DEF CheckIfLockExists
<1>4. ASSUME NEW s \in Secrets, CleanLockFiles(s)
      PROVE  holder' = holder \/ \E q \in Secrets : Service!Lapse(q)
  BY <1>4 DEF CleanLockFiles, FileRemoved, Locked, Service!Lapse
<1>5. ASSUME NEW s \in Secrets, RemoveFolder(s) PROVE holder' = holder
  BY <1>5 DEF RemoveFolder
<1>6. ASSUME NEW s \in Secrets, MakeFolder(s) PROVE holder' = holder
  BY <1>6 DEF MakeFolder
<1>7. ASSUME NEW s \in Secrets, OpenFile(s) PROVE holder' = holder
  BY <1>7 DEF OpenFile
<1>8. ASSUME NEW s \in Secrets, WriteFile(s) PROVE Service!Grant(s)
  BY <1>8 DEF WriteFile, Service!Grant
<1>9. ASSUME NEW s \in Secrets, RemoveLock(s) PROVE holder' = holder
  BY <1>9 DEF RemoveLock
<1>10. ASSUME NEW s \in Secrets, UnlinkFile(s) PROVE Service!Release(s)
  BY <1>10 DEF UnlinkFile, FileRemoved, RemoveSteps, Service!Release
<1>11. ASSUME NEW s \in Secrets, Expire(s) PROVE holder' = holder
  BY <1>11 DEF Expire
<1>12. CASE UNCHANGED vars
  BY <1>12 DEF vars
<1> QED
  BY <1>1, <1>2, <1>3, <1>4, <1>5, <1>6, <1>7, <1>8, <1>9, <1>10, <1>11, <1>12
  DEF Next, Handle

\* The service is a lease until two requests race.
THEOREM ServiceIsALease == Spec => ImplementsLease
<1>1. Init => Service!Init
  BY NoneAssumption DEF Init, Service!Init, RemoveSteps
<1> QED
  BY <1>1, InductiveInvariant, StepOfLease, PTL DEF ImplementsLease, Service!Spec, Spec
=============================================================================
