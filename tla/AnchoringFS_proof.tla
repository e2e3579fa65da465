--------------------------- MODULE AnchoringFS_proof ---------------------------
(***************************************************************************)
(* Proofs about AnchoringFS, for every set of requests.                    *)
(***************************************************************************)
EXTENDS AnchoringFS, TLAPS

\* Writing one line at offset 0 leaves every other line as it was.
LEMMA WriteFirst ==
    ASSUME NEW S, NEW s \in Seq(S), NEW x \in S, NEW t,
           t = IF s = <<>> THEN <<x>> ELSE [s EXCEPT ![1] = x]
    PROVE  /\ t \in Seq(S)
           /\ Len(t) >= 1
           /\ t[1] = x
           /\ \A i \in 1..Len(t) : i = 1 \/ (i \in 1..Len(s) /\ t[i] = s[i])
  <1>1. CASE s = <<>>
    <2>1. t = <<x>>
      BY <1>1
    <2>2. Len(t) = 1 /\ t[1] = x /\ t \in Seq(S)
      BY <2>1
    <2>3. \A i \in 1..Len(t) : i = 1
      BY <2>2
    <2> QED
      BY <2>2, <2>3
  <1>2. CASE s # <<>>
    <2>1. Len(s) \in Nat /\ Len(s) >= 1 /\ s \in [1..Len(s) -> S]
      BY <1>2
    <2>2. t = [s EXCEPT ![1] = x]
      BY <1>2
    <2>3. t \in [1..Len(s) -> S] /\ t[1] = x
      BY <2>1, <2>2
    <2>4. \A i \in 1..Len(s) : i = 1 \/ t[i] = s[i]
      BY <2>1, <2>2
    <2>5. t \in Seq(S) /\ Len(t) = Len(s)
      BY <2>1, <2>3
    <2> QED
      BY <2>1, <2>3, <2>4, <2>5
  <1> QED
    BY <1>1, <1>2

\* A file with at most one valid line, and no request under way, meets every part
\* of the invariant.
LEMMA InitInv == Init => Inv
  <1> SUFFICES ASSUME Init PROVE Inv
    OBVIOUS
  <1> USE NoneAssumption, StampsAssumption, CrashesAssumption DEF Init
  <1>1. TypeOK
    <2>1. req \in [Requests -> Inputs]
      BY DEF Inputs
    <2>2. file \in Seq(Requests)
      OBVIOUS
    <2>3. crashes \in 0..MaxCrashes
      OBVIOUS
    <2>4. pc \in [Requests -> Steps] /\ reply \in [Requests -> Replies]
      BY DEF Steps, Replies
    <2>5. created \in [Requests -> Requests \cup {None}]
      OBVIOUS
    <2> QED
      BY <2>1, <2>2, <2>3, <2>4, <2>5 DEF TypeOK
  <1>2. LockInv
    BY DEF LockInv, Working, Holding
  <1>3. LineInv
    BY DEF LineInv, Refused, Verified
  <1>4. CreateInv
    BY DEF CreateInv, Verified
  <1>5. ChainInv
    BY DEF ChainInv, HistoryVerifies, Verified
  <1> QED
    BY <1>1, <1>2, <1>3, <1>4, <1>5 DEF Inv

\* Every step keeps every variable in its type.
LEMMA TypeStep == TypeOK /\ [Next]_vars => TypeOK'
  <1> SUFFICES ASSUME TypeOK, [Next]_vars PROVE TypeOK'
    OBVIOUS
  <1> USE NoneAssumption, CrashesAssumption
      DEF TypeOK, Steps, Holding, CreateSteps, Replies, disk, ghosts, At, Goto,
          Answer, AnswerLockBusy
  <1>1. ASSUME NEW r \in Requests, Arrive(r) PROVE TypeOK'
    BY <1>1 DEF Arrive, Inputs, Lines, ToSet
  <1>2. ASSUME NEW r \in Requests, AppendStep(r) PROVE TypeOK'
    <2>1. CASE Mkdir(r)
      BY <2>1 DEF Mkdir
    <2>2. CASE LockIsExpired(r)
      BY <2>2 DEF LockIsExpired
    <2>3. CASE ReleaseExpiredLock(r)
      BY <2>3 DEF ReleaseExpiredLock, Working
    <2>4. CASE OwnStat(r)
      BY <2>4 DEF OwnStat
    <2>5. CASE VerifySignature(r)
      BY <2>5 DEF VerifySignature
    <2>6. CASE CheckLock(r)
      BY <2>6 DEF CheckLock
    <2>7. CASE FileExist(r)
      BY <2>7 DEF FileExist
    <2>8. CASE AppendAnchor(r)
      BY <2>8 DEF AppendAnchor
    <2>9. CASE ReleaseLock(r)
      BY <2>9 DEF ReleaseLock
    <2>10. CASE RemoveLock(r)
      BY <2>10 DEF RemoveLock
    <2> QED
      BY <1>2, <2>1, <2>2, <2>3, <2>4, <2>5, <2>6, <2>7, <2>8, <2>9, <2>10
         DEF AppendStep
  <1>3. ASSUME NEW r \in Requests, CreateStep(r) PROVE TypeOK'
    <2>1. CASE CreateStat(r)
      BY <2>1 DEF CreateStat
    <2>2. CASE Truncate(r)
      BY <2>2 DEF Truncate
    <2>3. CASE Write(r)
      BY <2>3 DEF Write
    <2> QED
      BY <1>3, <2>1, <2>2, <2>3 DEF CreateStep
  <1>4. ASSUME NEW r \in Requests, Crash(r) PROVE TypeOK'
    BY <1>4 DEF Crash
  <1>5. CASE LockAges
    BY <1>5 DEF LockAges
  <1>6. CASE UNCHANGED vars
    BY <1>6 DEF vars
  <1> QED
    BY <1>1, <1>2, <1>3, <1>4, <1>5, <1>6 DEF Next

\* The lock passes from a request at work only by a theft.
LEMMA LockStep == Inv /\ [Next]_vars => LockInv'
  <1> SUFFICES ASSUME Inv, [Next]_vars PROVE LockInv'
    OBVIOUS
  <1> USE NoneAssumption
      DEF Inv, TypeOK, LockInv, Working, Steps, Holding,
          CreateSteps, disk, ghosts, At, Goto, Answer, AnswerLockBusy
  <1>1. ASSUME NEW p \in Requests, Arrive(p) PROVE LockInv'
    BY <1>1 DEF Arrive
  <1>2. ASSUME NEW p \in Requests, AppendStep(p) PROVE LockInv'
    <2>1. CASE Mkdir(p)
      BY <2>1 DEF Mkdir
    <2>2. CASE LockIsExpired(p)
      BY <2>2 DEF LockIsExpired
    <2>3. CASE ReleaseExpiredLock(p)
      BY ZenonT(40), <2>3 DEF ReleaseExpiredLock
    <2>4. CASE OwnStat(p)
      BY <2>4 DEF OwnStat
    <2>5. CASE VerifySignature(p)
      BY <2>5 DEF VerifySignature
    <2>6. CASE CheckLock(p)
      BY <2>6 DEF CheckLock, IsMyLock
    <2>7. CASE FileExist(p)
      BY <2>7 DEF FileExist
    <2>8. CASE AppendAnchor(p)
      BY <2>8 DEF AppendAnchor
    <2>9. CASE ReleaseLock(p)
      BY <2>9 DEF ReleaseLock, IsMyLock
    <2>10. CASE RemoveLock(p)
      BY <2>10 DEF RemoveLock
    <2> QED
      BY <1>2, <2>1, <2>2, <2>3, <2>4, <2>5, <2>6, <2>7, <2>8, <2>9, <2>10
         DEF AppendStep
  <1>3. ASSUME NEW p \in Requests, CreateStep(p) PROVE LockInv'
    <2>1. CASE CreateStat(p)
      BY <2>1 DEF CreateStat
    <2>2. CASE Truncate(p)
      BY <2>2 DEF Truncate
    <2>3. CASE Write(p)
      BY <2>3 DEF Write
    <2> QED
      BY <1>3, <2>1, <2>2, <2>3 DEF CreateStep
  <1>4. ASSUME NEW p \in Requests, Crash(p) PROVE LockInv'
    BY <1>4 DEF Crash
  <1>5. CASE LockAges
    BY <1>5 DEF LockAges
  <1>6. CASE UNCHANGED vars
    BY <1>6 DEF vars
  <1> QED
    BY <1>1, <1>2, <1>3, <1>4, <1>5, <1>6 DEF Next

\* A request's line is in the file once, and once written it stays.
LEMMA LineStep == Inv /\ [Next]_vars => LineInv'
  <1> SUFFICES ASSUME Inv, [Next]_vars PROVE LineInv'
    OBVIOUS
  <1> USE NoneAssumption
      DEF Inv, TypeOK, LockInv, LineInv, Unwritten, Verified, Working,
          Holding, CreateSteps, Refused, Replies, disk, ghosts, At, Goto, Answer, AnswerLockBusy
  <1>1. ASSUME NEW p \in Requests, Arrive(p) PROVE LineInv'
    BY <1>1 DEF Arrive
  <1>2. ASSUME NEW p \in Requests, AppendStep(p) PROVE LineInv'
    <2>1. CASE Mkdir(p)
      BY <2>1 DEF Mkdir
    <2>2. CASE LockIsExpired(p)
      BY <2>2 DEF LockIsExpired
    <2>3. CASE ReleaseExpiredLock(p)
      BY <2>3 DEF ReleaseExpiredLock
    <2>4. CASE OwnStat(p)
      BY <2>4 DEF OwnStat
    <2>5. CASE VerifySignature(p)
      BY <2>5 DEF VerifySignature
    <2>6. CASE CheckLock(p)
      BY <2>6 DEF CheckLock, IsMyLock
    <2>7. CASE FileExist(p)
      BY <2>7 DEF FileExist
    <2>8. CASE AppendAnchor(p)
      <3>1. /\ Len(file') = Len(file) + 1
            /\ file'[Len(file) + 1] = p
            /\ \A i \in 1..Len(file) : file'[i] = file[i]
        BY <2>8 DEF AppendAnchor
      <3>2. \A i \in 1..Len(file') : i \in 1..Len(file) \/ i = Len(file) + 1
        BY <3>1
      <3>3. \A i \in 1..Len(file) : file[i] # p
        BY <2>8 DEF AppendAnchor
      <3>4. \A r \in Requests \ {p} :
               (\A i \in 1..Len(file) : file[i] # r)
                  => \A i \in 1..Len(file') : file'[i] # r
        BY <3>1, <3>2
      <3>5. \A r \in Requests :
               (\E i \in 1..Len(file) : file[i] = r)
                  => \E i \in 1..Len(file') : file'[i] = r
        BY <3>1, <3>2
      <3>6. \A i, j \in 1..Len(file') : file'[i] = file'[j] => i = j
        BY <3>1, <3>2, <3>3
      <3>7. \E i \in 1..Len(file') : file'[i] = p
        BY <3>1
      <3>8. ~exists' => file' = <<>>
        BY <2>8 DEF AppendAnchor
      <3> QED
        BY <2>8, <3>3, <3>4, <3>5, <3>6, <3>7, <3>8 DEF AppendAnchor
    <2>9. CASE ReleaseLock(p)
      BY <2>9 DEF ReleaseLock, IsMyLock
    <2>10. CASE RemoveLock(p)
      BY <2>10 DEF RemoveLock
    <2> QED
      BY <1>2, <2>1, <2>2, <2>3, <2>4, <2>5, <2>6, <2>7, <2>8, <2>9, <2>10
         DEF AppendStep
  <1>3. ASSUME NEW p \in Requests, CreateStep(p) PROVE LineInv'
    <2>1. CASE CreateStat(p)
      BY <2>1 DEF CreateStat
    <2>2. CASE Truncate(p)
      BY <2>2 DEF Truncate
    <2>3. CASE Write(p)
      <3>1. /\ Len(file') >= 1
            /\ file'[1] = p
            /\ \A i \in 1..Len(file') : i = 1 \/ (i \in 1..Len(file) /\ file'[i] = file[i])
        BY <2>3, WriteFirst DEF Write
      <3>2. \A i \in 1..Len(file) : file[i] # p
        BY <2>3 DEF Write
      <3>3. \A i, j \in 1..Len(file') : file'[i] = file'[j] => i = j
        BY <3>1, <3>2
      <3>4. \A r \in Requests \ {p} :
               (\A i \in 1..Len(file) : file[i] # r)
                  => \A i \in 1..Len(file') : file'[i] # r
        BY <3>1
      <3>5. overwritten \/ file = <<>>
        BY <2>3 DEF Write, CreateInv
      <3>6. \A r \in Requests : overwritten \/ ~\E i \in 1..Len(file) : file[i] = r
        BY <3>5
      <3>7. \E i \in 1..Len(file') : file'[i] = p
        BY <3>1
      <3> QED
        BY <2>3, <3>2, <3>3, <3>4, <3>5, <3>6, <3>7 DEF Write
    <2> QED
      BY <1>3, <2>1, <2>2, <2>3 DEF CreateStep
  <1>4. ASSUME NEW p \in Requests, Crash(p) PROVE LineInv'
    BY <1>4 DEF Crash
  <1>5. CASE LockAges
    BY <1>5 DEF LockAges
  <1>6. CASE UNCHANGED vars
    BY <1>6 DEF vars
  <1> QED
    BY <1>1, <1>2, <1>3, <1>4, <1>5, <1>6 DEF Next

\* A creation that collides with nothing writes into an empty file.
LEMMA CreateInvStep == Inv /\ [Next]_vars => CreateInv'
  <1> SUFFICES ASSUME Inv, [Next]_vars PROVE CreateInv'
    OBVIOUS
  <1> USE NoneAssumption
      DEF Inv, TypeOK, LineInv, CreateInv, Verified,
          CreateSteps, disk, ghosts, At, Goto, Answer, AnswerLockBusy
  <1>1. ASSUME NEW p \in Requests, Arrive(p) PROVE CreateInv'
    BY <1>1 DEF Arrive
  <1>2. ASSUME NEW p \in Requests, AppendStep(p) PROVE CreateInv'
    <2>1. CASE Mkdir(p)
      BY <2>1 DEF Mkdir
    <2>2. CASE LockIsExpired(p)
      BY <2>2 DEF LockIsExpired
    <2>3. CASE ReleaseExpiredLock(p)
      BY <2>3 DEF ReleaseExpiredLock
    <2>4. CASE OwnStat(p)
      BY <2>4 DEF OwnStat
    <2>5. CASE VerifySignature(p)
      BY <2>5 DEF VerifySignature
    <2>6. CASE CheckLock(p)
      BY <2>6 DEF CheckLock, IsMyLock
    <2>7. CASE FileExist(p)
      BY <2>7 DEF FileExist
    <2>8. CASE AppendAnchor(p)
      BY <2>8 DEF AppendAnchor
    <2>9. CASE ReleaseLock(p)
      BY <2>9 DEF ReleaseLock, IsMyLock
    <2>10. CASE RemoveLock(p)
      BY <2>10 DEF RemoveLock
    <2> QED
      BY <1>2, <2>1, <2>2, <2>3, <2>4, <2>5, <2>6, <2>7, <2>8, <2>9, <2>10
         DEF AppendStep
  <1>3. ASSUME NEW p \in Requests, CreateStep(p) PROVE CreateInv'
    <2>1. CASE CreateStat(p)
      BY <2>1 DEF CreateStat
    <2>2. CASE Truncate(p)
      BY <2>2 DEF Truncate
    <2>3. CASE Write(p)
      BY <2>3 DEF Write
    <2> QED
      BY <1>3, <2>1, <2>2, <2>3 DEF CreateStep
  <1>4. ASSUME NEW p \in Requests, Crash(p) PROVE CreateInv'
    BY <1>4 DEF Crash
  <1>5. CASE LockAges
    BY <1>5 DEF LockAges
  <1>6. CASE UNCHANGED vars
    BY <1>6 DEF vars
  <1> QED
    BY <1>1, <1>2, <1>3, <1>4, <1>5, <1>6 DEF Next

\* Timestamps can be compared.
LEMMA StampNat == TypeOK => \A r \in Requests : req[r].stamp \in Nat
  BY StampsAssumption DEF TypeOK, Inputs

\* Between the check of the signature and the append nobody else writes.
LEMMA ChainStep == Inv /\ [Next]_vars => ChainInv'
  <1> SUFFICES ASSUME Inv, [Next]_vars PROVE ChainInv'
    OBVIOUS
  <1> USE NoneAssumption
      DEF Inv, TypeOK, LineInv, CreateInv, ChainInv, HistoryVerifies,
          Unwritten, Verified, Holding, CreateSteps, disk, ghosts, At, Goto,
          Answer, AnswerLockBusy
  <1>1. ASSUME NEW p \in Requests, Arrive(p) PROVE ChainInv'
    BY <1>1 DEF Arrive
  <1>2. ASSUME NEW p \in Requests, AppendStep(p) PROVE ChainInv'
    <2>1. CASE Mkdir(p)
      BY <2>1 DEF Mkdir
    <2>2. CASE LockIsExpired(p)
      BY <2>2 DEF LockIsExpired
    <2>3. CASE ReleaseExpiredLock(p)
      BY <2>3 DEF ReleaseExpiredLock
    <2>4. CASE OwnStat(p)
      BY <2>4 DEF OwnStat
    <2>5. CASE VerifySignature(p)
      <3>1. /\ UNCHANGED <<req, file, stolen, overwritten>>
            /\ \A r \in Requests \ {p} : pc'[r] = pc[r]
        BY <2>5 DEF VerifySignature
      <3>2. pc'[p] \in Verified =>
               /\ req[p].base = file[Len(file)]
               /\ ~(req[p].stamp < req[file[Len(file)]].stamp)
               /\ file # <<>>
        BY <2>5 DEF VerifySignature, LastLine, Last
      <3>3. file # <<>> => file[Len(file)] \in Requests
        OBVIOUS
      <3>4. pc'[p] \in Verified =>
               req[file[Len(file)]].stamp <= req[p].stamp
        BY <3>2, <3>3, StampNat
      <3> QED
        BY <3>1, <3>2, <3>4
    <2>6. CASE CheckLock(p)
      BY <2>6 DEF CheckLock, IsMyLock
    <2>7. CASE FileExist(p)
      BY <2>7 DEF FileExist
    <2>8. CASE AppendAnchor(p)
      <3> SUFFICES ASSUME ~stolen, ~overwritten PROVE ChainInv'
        BY <2>8 DEF AppendAnchor
      <3>1. /\ Len(file) \in Nat
            /\ Len(file') = Len(file) + 1
            /\ file'[Len(file) + 1] = p
            /\ \A i \in 1..Len(file) : file'[i] = file[i]
        BY <2>8 DEF AppendAnchor
      <3>2. \A i \in 1..Len(file') : i \in 1..Len(file) \/ i = Len(file) + 1
        BY <3>1
      <3>3. /\ Len(file) >= 1
            /\ req[p].base = file[Len(file)]
            /\ req[file[Len(file)]].stamp <= req[p].stamp
        BY <2>8 DEF AppendAnchor
      <3>4. \A r \in Requests : pc'[r] \notin Verified
        BY <2>8 DEF AppendAnchor, LockInv, Working
      <3>5. req' = req
        BY <2>8 DEF AppendAnchor
      <3>6. HistoryVerifies'
        <4>1. ASSUME NEW i \in 1..Len(file)
              PROVE  req[file'[i]].base = IF i = 1 THEN None ELSE file'[i - 1]
          <5>1. i # 1 => i - 1 \in 1..Len(file)
            BY <3>1
          <5>2. req[file[i]].base = IF i = 1 THEN None ELSE file[i - 1]
            OBVIOUS
          <5> QED
            BY <3>1, <5>1, <5>2
        <4>2. req[file'[Len(file) + 1]].base = file'[Len(file)]
          BY <3>1, <3>3
        <4>3. Len(file) + 1 # 1 /\ Len(file) + 1 - 1 = Len(file)
          BY <3>1, <3>3
        <4> QED
          BY <3>2, <3>5, <4>1, <4>2, <4>3
      <3>7. \A i \in 1..Len(file) : req[file[i]].stamp <= req[p].stamp
        <4>1. \A i \in 1..Len(file) : file[i] \in Requests
          OBVIOUS
        <4>2. \A r \in Requests : req[r].stamp \in Nat
          BY StampNat
        <4>3. \A i \in 1..Len(file) :
                 req[file[i]].stamp <= req[file[Len(file)]].stamp
          BY <3>3
        <4> QED
          BY <3>1, <3>3, <4>1, <4>2, <4>3
      <3>8. req[p].stamp <= req[p].stamp
        BY <2>8, StampNat DEF AppendAnchor
      <3>9. \A i, j \in 1..Len(file') :
               i <= j => req[file'[i]].stamp <= req[file'[j]].stamp
        BY <3>1, <3>2, <3>7, <3>8
      <3> QED
        BY <3>4, <3>5, <3>6, <3>9
    <2>9. CASE ReleaseLock(p)
      BY <2>9 DEF ReleaseLock, IsMyLock
    <2>10. CASE RemoveLock(p)
      BY <2>10 DEF RemoveLock
    <2> QED
      BY <1>2, <2>1, <2>2, <2>3, <2>4, <2>5, <2>6, <2>7, <2>8, <2>9, <2>10
         DEF AppendStep
  <1>3. ASSUME NEW p \in Requests, CreateStep(p) PROVE ChainInv'
    <2>1. CASE CreateStat(p)
      BY <2>1 DEF CreateStat
    <2>2. CASE Truncate(p)
      BY <2>2 DEF Truncate
    <2>3. CASE Write(p)
      <3> SUFFICES ASSUME ~stolen, ~overwritten PROVE ChainInv'
        BY <2>3 DEF Write
      <3>1. file' = <<p>> /\ req' = req
        BY <2>3 DEF Write
      <3>2. Len(file') = 1 /\ file'[1] = p
        BY <3>1
      <3>3. \A r \in Requests : pc'[r] \notin Verified
        BY <2>3 DEF Write
      <3>4. req[p].base = None /\ req[p].stamp <= req[p].stamp
        BY <2>3, StampNat DEF Write
      <3> QED
        BY <3>1, <3>2, <3>3, <3>4
    <2> QED
      BY <1>3, <2>1, <2>2, <2>3 DEF CreateStep
  <1>4. ASSUME NEW p \in Requests, Crash(p) PROVE ChainInv'
    BY <1>4 DEF Crash
  <1>5. CASE LockAges
    BY <1>5 DEF LockAges
  <1>6. CASE UNCHANGED vars
    BY <1>6 DEF vars
  <1> QED
    BY <1>1, <1>2, <1>3, <1>4, <1>5, <1>6 DEF Next

\* The conjunction of the five parts is inductive.
THEOREM InductiveInvariant == Spec => []Inv
  <1>1. Inv /\ [Next]_vars => Inv'
    <2>1. Inv /\ [Next]_vars => TypeOK'
      BY TypeStep DEF Inv
    <2> QED
      BY <2>1, LockStep, LineStep, CreateInvStep, ChainStep DEF Inv
  <1> QED
    BY InitInv, <1>1, PTL DEF Spec

\* FSLock is a lock for every number of requests: two of them are between mkdir
\* and release together only after a waiter removed a live directory.
THEOREM LockIsExclusive == Spec => []MutualExclusion
  <1>1. Inv => MutualExclusion
    BY DEF Inv, LockInv, MutualExclusion
  <1> QED
    BY InductiveInvariant, <1>1, PTL

\* Without a stolen lock or colliding creations every reader can verify the
\* history, whatever crashes and leftover locks there were.
THEOREM HistoryIsReadable == Spec => []HistoryStaysReadable
  <1>1. Inv => HistoryStaysReadable
    BY DEF Inv, ChainInv, HistoryStaysReadable
  <1> QED
    BY InductiveInvariant, <1>1, PTL

\* Neither do its timestamps go back, although a stamp is compared with a history
\* read several steps before the line is written.
THEOREM HistoryIsOrdered == Spec => []StampsInOrder
  <1>1. Inv => StampsInOrder
    BY DEF Inv, ChainInv, StampsInOrder
  <1> QED
    BY InductiveInvariant, <1>1, PTL

\* Who has a line, said with the set of lines.
LEMMA LineOf ==
    ASSUME Inv, NEW r \in Requests
    PROVE  r \in Lines <=> \E i \in 1..Len(file) : file[i] = r
  <1>1. DOMAIN file = 1..Len(file)
    BY DEF Inv, TypeOK
  <1> QED
    BY <1>1 DEF Lines, ToSet

\* What was acknowledged is stored and stays stored.
THEOREM AcknowledgementIsTrue == Spec => []AcknowledgedIsStored
  <1>1. Inv => AcknowledgedIsStored
    BY LineOf DEF Inv, LineInv, AcknowledgedIsStored
  <1> QED
    BY InductiveInvariant, <1>1, PTL

\* What was refused has left nothing behind and may be sent again.
THEOREM RefusalIsTrue == Spec => []RefusedLeavesNoTrace
  <1>1. Inv => RefusedLeavesNoTrace
    BY LineOf DEF Inv, LineInv, RefusedLeavesNoTrace
  <1> QED
    BY InductiveInvariant, <1>1, PTL

\* One step of the file: it stays, grows by one line, or is rewritten by a creation
\* that collides.
LEMMA FileStep ==
    ASSUME Inv, [Next]_vars
    PROVE  \/ overwritten'
           \/ file' = file
           \/ file = <<>>
           \/ \E p \in Requests : AppendAnchor(p)
  <1> USE DEF disk, Goto, Answer, AnswerLockBusy
  <1>1. ASSUME NEW p \in Requests, Arrive(p) PROVE file' = file
    BY <1>1 DEF Arrive
  <1>2. ASSUME NEW p \in Requests, AppendStep(p), ~AppendAnchor(p)
        PROVE  file' = file
    BY <1>2 DEF AppendStep, Mkdir, LockIsExpired, ReleaseExpiredLock, OwnStat,
         VerifySignature, CheckLock, FileExist, ReleaseLock, RemoveLock
  <1>3. ASSUME NEW p \in Requests, CreateStep(p), ~overwritten'
        PROVE  file' = file \/ file = <<>>
    <2>1. CASE CreateStat(p)
      BY <2>1 DEF CreateStat
    <2>2. CASE Truncate(p)
      BY <1>3, <2>2 DEF Truncate, Inv, LineInv, TypeOK
    <2>3. CASE Write(p)
      BY <1>3, <2>3 DEF Write, ghosts, At, Inv, CreateInv
    <2> QED
      BY <1>3, <2>1, <2>2, <2>3 DEF CreateStep
  <1>4. ASSUME NEW p \in Requests, Crash(p) PROVE file' = file
    BY <1>4 DEF Crash
  <1> QED
    BY <1>1, <1>2, <1>3, <1>4 DEF Next, LockAges, vars

\* Versions are only ever added, as long as creations do not collide, even when
\* locks are stolen.
THEOREM VersionsStay == Spec => HistoryOnlyGrows
  <1>1. Inv /\ [Next]_vars => [overwritten' \/ IsPrefix(file, file')]_vars
    <2> SUFFICES ASSUME Inv, [Next]_vars, ~overwritten'
                 PROVE  IsPrefix(file, file')
      OBVIOUS
    <2>1. file \in Seq(Requests) /\ file' \in Seq(Requests)
      <3>1. TypeOK /\ TypeOK'
        BY TypeStep DEF Inv
      <3> QED
        BY <3>1 DEF TypeOK
    <2>2. CASE file' = file
      BY <2>1, <2>2 DEF IsPrefix
    <2>3. CASE file = <<>>
      BY <2>1, <2>3 DEF IsPrefix
    <2>4. ASSUME NEW p \in Requests, AppendAnchor(p) PROVE IsPrefix(file, file')
      <3>1. file' = Append(file, p) /\ Len(file) \in Nat
        BY <2>1, <2>4 DEF AppendAnchor
      <3>2. Len(file') = Len(file) + 1
        BY <2>1, <3>1
      <3>3. \A i \in 1..Len(file) : file'[i] = file[i]
        BY <2>1, <3>1
      <3>4. SubSeq(file, 1, Len(file)) = SubSeq(file', 1, Len(file))
        BY <2>1, <3>1, <3>2, <3>3
      <3> QED
        BY <3>1, <3>2, <3>4 DEF IsPrefix
    <2> QED
      BY FileStep, <2>2, <2>3, <2>4
  <1> QED
    BY InductiveInvariant, <1>1, PTL DEF HistoryOnlyGrows, Spec

-----------------------------------------------------------------------------
\* How the abstract log reads off the file.
LEMMA LogOfFile ==
    ASSUME TypeOK
    PROVE  /\ SignedLines \in Seq(Log!Versions)
           /\ Len(SignedLines) = Len(file)
           /\ \A i \in 1..Len(file) : SignedLines[i] = SignedLine(file[i])
           /\ DOMAIN SignedLines = 1..Len(file)
           /\ file = <<>> <=> SignedLines = <<>>
  <1>1. DOMAIN file = 1..Len(file) /\ Len(file) \in Nat
    BY DEF TypeOK
  <1>2. \A i \in 1..Len(file) : SignedLine(file[i]) \in Log!Versions
    BY DEF TypeOK, Inputs, SignedLine, Log!Versions
  <1>3. SignedLines \in [1..Len(file) -> Log!Versions]
    BY <1>1, <1>2 DEF SignedLines
  <1>4. SignedLines \in Seq(Log!Versions) /\ Len(SignedLines) = Len(file)
    BY <1>1, <1>3
  <1>5. \A i \in 1..Len(file) : SignedLines[i] = SignedLine(file[i])
    BY <1>1 DEF SignedLines
  <1>6. file = <<>> <=> Len(file) = 0
    BY DEF TypeOK
  <1>7. SignedLines = <<>> <=> Len(SignedLines) = 0
    BY <1>4
  <1> QED
    BY <1>3, <1>4, <1>5, <1>6, <1>7

\* Two states with the same lines and the same requests behind them show the
\* same log.
LEMMA SameLog ==
    ASSUME TypeOK, file' = file, \A i \in 1..Len(file) : req'[file[i]] = req[file[i]]
    PROVE  SignedLines' = SignedLines
  <1>1. DOMAIN file = 1..Len(file)
    BY DEF TypeOK
  <1> QED
    BY <1>1 DEF SignedLines, SignedLine

\* A line that extends a verified history is a step of the abstract log.
LEMMA AppendIsAnchor ==
    ASSUME Inv, TypeOK', NEW p \in Requests, file' = Append(file, p), req' = req,
           ~stolen', ~overwritten',
           \A i \in 1..Len(file) : file[i] # p,
           req[p].base = IF file = <<>> THEN None ELSE file[Len(file)],
           file # <<>> => req[file[Len(file)]].stamp <= req[p].stamp
    PROVE  Log!Next
  <1> DEFINE line == SignedLine(p)
  <1>1. TypeOK /\ req[p].stamp \in Stamps
    BY DEF Inv, TypeOK, Inputs
  <1>2. Len(file) \in Nat /\ Len(file') = Len(file) + 1 /\ file'[Len(file) + 1] = p
    BY <1>1 DEF TypeOK
  <1>3. \A i \in 1..Len(file) : file'[i] = file[i]
    BY <1>1 DEF TypeOK
  <1>4. \A i \in 1..Len(file') : SignedLines'[i] = SignedLine(file'[i])
    <2>1. DOMAIN file' = 1..Len(file')
      BY DEF TypeOK
    <2> QED
      BY <2>1 DEF SignedLines, SignedLine
  <1>5. SignedLines' \in Seq(Log!Versions) /\ Len(SignedLines') = Len(file')
    <2>1. DOMAIN file' = 1..Len(file') /\ Len(file') \in Nat
      BY DEF TypeOK
    <2>2. \A i \in 1..Len(file') : SignedLine(file'[i]) \in Log!Versions
      BY <1>1 DEF TypeOK, Inputs, SignedLine, Log!Versions
    <2>3. SignedLines' \in [1..Len(file') -> Log!Versions]
      BY <2>1, <2>2 DEF SignedLines, SignedLine
    <2> QED
      BY <2>1, <2>3
  <1>6. SignedLines' = Append(SignedLines, line)
    <2>1. \A i \in 1..Len(SignedLines') : SignedLines'[i] = Append(SignedLines, line)[i]
      BY <1>1, <1>2, <1>3, <1>4, <1>5, LogOfFile
    <2>2. line \in Log!Versions
      BY <1>1 DEF TypeOK, Inputs, SignedLine, Log!Versions
    <2>3. Append(SignedLines, line) \in Seq(Log!Versions)
      BY <1>1, <2>2, LogOfFile
    <2>4. Len(Append(SignedLines, line)) = Len(SignedLines')
      BY <1>1, <1>2, <1>5, LogOfFile
    <2> HIDE DEF line
    <2> QED
      BY <1>5, <2>1, <2>3, <2>4
  <1>7. \A i \in DOMAIN SignedLines : SignedLines[i].value # p
    BY <1>1, LogOfFile DEF SignedLine
  <1>8. file # <<>> => SignedLines[Len(SignedLines)] = SignedLine(file[Len(file)])
    BY <1>1, <1>2, LogOfFile DEF TypeOK
  <1>9. line = [value |-> p, base |-> Log!LastValue, stamp |-> req[p].stamp]
    BY <1>1, <1>8, LogOfFile DEF Log!LastValue, Log!Last, SignedLine
  <1>10. SignedLines # <<>> => Log!Last(SignedLines).stamp <= req[p].stamp
    BY <1>1, <1>8, LogOfFile DEF Log!Last, SignedLine
  <1> HIDE DEF line
  <1>11. Log!Anchor(p, req[p].stamp)
    BY <1>6, <1>7, <1>9, <1>10 DEF Log!Anchor
  <1> QED
    BY <1>1, <1>11 DEF Log!Next

\* Every step that keeps the promise is a step of the abstract log or leaves it alone.
LEMMA StepOfLog ==
    ASSUME Inv, TypeOK', Next, ~stolen, ~overwritten, ~stolen', ~overwritten'
    PROVE  Log!Next \/ SignedLines' = SignedLines
  <1> USE DEF disk, Goto, Answer, AnswerLockBusy
  <1>1. ASSUME file' = file, req' = req PROVE SignedLines' = SignedLines
    BY <1>1 DEF SignedLines, SignedLine
  <1>2. ASSUME NEW p \in Requests, Arrive(p) PROVE SignedLines' = SignedLines
    <2>1. \A i \in 1..Len(file) : file[i] # p
      BY <1>2 DEF Arrive, At, Inv, LineInv, Unwritten
    <2>2. \A i \in 1..Len(file) : req'[file[i]] = req[file[i]]
      BY <1>2, <2>1 DEF Arrive, Inv, TypeOK
    <2> QED
      BY <1>2, <2>2, SameLog DEF Arrive, Inv
  <1>3. ASSUME NEW p \in Requests, AppendAnchor(p) PROVE Log!Next
    <2>1. pc[p] \in Verified /\ pc[p] \in Unwritten
      BY <1>3 DEF AppendAnchor, At, Verified, Unwritten
    <2>2. file # <<>>
      BY <2>1 DEF Inv, CreateInv
    <2>3. /\ req[p].base = file[Len(file)]
          /\ req[file[Len(file)]].stamp <= req[p].stamp
          /\ \A i \in 1..Len(file) : file[i] # p
      BY <2>1 DEF Inv, ChainInv, LineInv
    <2>4. file' = Append(file, p) /\ req' = req
      BY <1>3 DEF AppendAnchor
    <2> QED
      BY <2>2, <2>3, <2>4, AppendIsAnchor
  <1>4. ASSUME NEW p \in Requests, AppendStep(p), ~AppendAnchor(p)
        PROVE  file' = file /\ req' = req
    BY <1>4 DEF AppendStep, Mkdir, LockIsExpired, ReleaseExpiredLock, OwnStat,
         VerifySignature, CheckLock, FileExist, ReleaseLock, RemoveLock
  <1>5. ASSUME NEW p \in Requests, CreateStat(p) PROVE file' = file /\ req' = req
    BY <1>5 DEF CreateStat
  <1>6. ASSUME NEW p \in Requests, Truncate(p) PROVE file' = file /\ req' = req
    BY <1>6 DEF Truncate, Inv, LineInv, TypeOK
  <1>7. ASSUME NEW p \in Requests, Write(p) PROVE Log!Next
    <2>1. file = <<>> /\ req[p].base = None
      BY <1>7 DEF Write, At, Inv, CreateInv
    <2>2. file' = Append(file, p) /\ req' = req
      BY <1>7, <2>1 DEF Write
    <2>3. \A i \in 1..Len(file) : file[i] # p
      BY <1>7 DEF Write, At, Inv, LineInv, Unwritten, CreateSteps
    <2> QED
      BY <2>1, <2>2, <2>3, AppendIsAnchor
  <1>8. ASSUME NEW p \in Requests, Crash(p) PROVE file' = file /\ req' = req
    BY <1>8 DEF Crash
  <1>9. CASE LockAges
    BY <1>1, <1>9 DEF LockAges
  <1> QED
    BY <1>1, <1>2, <1>3, <1>4, <1>5, <1>6, <1>7, <1>8, <1>9 DEF Next, CreateStep

\* A promise that was broken stays broken.
LEMMA BrokenStays ==
    ASSUME TypeOK, [Next]_vars, stolen \/ overwritten
    PROVE  stolen' \/ overwritten'
  <1> USE DEF disk, ghosts, Goto, Answer, AnswerLockBusy
  <1>1. ASSUME NEW p \in Requests, Arrive(p) PROVE stolen' \/ overwritten'
    BY <1>1 DEF Arrive
  <1>2. ASSUME NEW p \in Requests, AppendStep(p) PROVE stolen' \/ overwritten'
    BY <1>2 DEF AppendStep, Mkdir, LockIsExpired, ReleaseExpiredLock, OwnStat,
         VerifySignature, CheckLock, FileExist, AppendAnchor, ReleaseLock, RemoveLock
  <1>3. ASSUME NEW p \in Requests, CreateStep(p) PROVE stolen' \/ overwritten'
    BY <1>3 DEF CreateStep, CreateStat, Truncate, Write
  <1>4. ASSUME NEW p \in Requests, Crash(p) PROVE stolen' \/ overwritten'
    BY <1>4 DEF Crash
  <1>5. CASE LockAges
    BY <1>5 DEF LockAges
  <1>6. CASE UNCHANGED vars
    BY <1>6 DEF vars
  <1> QED
    BY <1>1, <1>2, <1>3, <1>4, <1>5, <1>6 DEF Next

\* Until a lock is stolen or two creations collide, the file with its lock directory,
\* its crashes and its half-done requests is the atomic signed log.
THEOREM FileImplementsLog == Spec => ImplementsAnchorLog
  <1>1. Init => Log!Init
    BY DEF Init, Log!Init, SignedLines
  <1>2. Inv /\ TypeOK' /\ [Next]_vars => [Log!Next]_(Log!vars)
    <2> SUFFICES ASSUME Inv, TypeOK', [Next]_vars
                 PROVE  Log!Next \/ UNCHANGED Log!vars
      OBVIOUS
    <2>1. CASE stolen' \/ overwritten'
      BY <2>1 DEF Log!Next, Log!Break
    <2>2. CASE ~stolen' /\ ~overwritten'
      <3>1. ~stolen /\ ~overwritten
        BY <2>2, BrokenStays DEF Inv
      <3>2. CASE UNCHANGED vars
        BY <3>2 DEF vars, Log!vars, SignedLines, SignedLine
      <3>3. CASE Next
        BY <2>2, <3>1, <3>3, StepOfLog DEF Log!vars
      <3> QED
        BY <3>2, <3>3
    <2> QED
      BY <2>1, <2>2
  <1>3. Spec => [](Inv /\ TypeOK)
    BY InductiveInvariant, PTL DEF Inv
  <1> QED
    BY <1>1, <1>2, <1>3, PTL DEF Spec, ImplementsAnchorLog, Log!Spec

===============================================================================
