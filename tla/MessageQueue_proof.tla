-------------------------- MODULE MessageQueue_proof --------------------------
(***************************************************************************)
(* Proofs about MessageQueue, for any puts, takes and gets, any limit and  *)
(* any passing of time between two puts.                                   *)
(***************************************************************************)
EXTENDS MessageQueue, FiniteSetTheorems, TLAPS

USE RequestsAssumption, NoneAssumption, LimitAssumption

\* The records that the steps put together.
LEMMA Records ==
    /\ UndefinedName \in Name /\ UndefinedName.stamp = 0
    /\ Undefined \in Message /\ Undefined.messageId = UndefinedName
    /\ Undefined.message = None
  BY DEF UndefinedName, Name, Undefined, Message

LEMMA InitInv == Init => Inv
<1> SUFFICES ASSUME Init PROVE Inv
  OBVIOUS
<1>1. TypeOK
  BY Records DEF Init, TypeOK, Put, Reader, Scan, ScanStep, Readers
<1>2. FilesHoldTheirs
  <2>1. DOMAIN files = {} /\ files = [name \in DOMAIN files |-> files[name]]
    BY DEF Init
  <2> QED
    BY <2>1, FS_EmptySet DEF Init, FilesHoldTheirs
<1>3. NamesDiffer /\ RemovedByReaders
  BY DEF Init, NamesDiffer, RemovedByReaders, Made, Written, At
<1>4. ReadersGotOnce /\ TakenOnce /\ OldestFirst
  BY Records DEF Init, ReadersGotOnce, TakenOnce, OldestFirst, Scanning, Readers
<1>5. ScansAreOwn /\ EarlierAreOlder
  BY Records DEF Init, ScansAreOwn, EarlierAreOlder, EarlierGone, Scanning, ScanStep, Made, Readers
<1> QED
  BY <1>1, <1>2, <1>3, <1>4, <1>5 DEF Inv

\* A reader subscribes.
LEMMA ReadMessageInv ==
    ASSUME Inv, NEW r \in Readers, ReadMessage(r)
    PROVE  Inv'
<1>1. /\ Scanning(r, "count") /\ subs' = subs \cup {r}
      /\ \E step \in {"none", "list"} : scan' = [scan EXCEPT ![r] = ScanStep(step)]
      /\ UNCHANGED <<put, reader, files, now>>
  BY DEF ReadMessage, SetScan
<1>2. r \in Puts \cup Readers /\ r \notin Puts
  BY DEF Readers
<1>3. TypeOK'
  BY <1>1, <1>2, Records DEF Inv, TypeOK, Scan, ScanStep
<1>4. NamesDiffer' /\ FilesHoldTheirs' /\ RemovedByReaders' /\ TakenOnce' /\ OldestFirst'
  BY <1>1 DEF Inv, NamesDiffer, FilesHoldTheirs, RemovedByReaders, Removed, TakenOnce,
              OldestFirst, Made, Written, At
<1>5. ReadersGotOnce'
  BY <1>1, <1>2 DEF Inv, TypeOK, ReadersGotOnce, Scanning, ScanStep, Written
<1>6. ScansAreOwn' /\ EarlierAreOlder'
  BY <1>1, <1>2, Records DEF Inv, TypeOK, ScansAreOwn, EarlierAreOlder, EarlierGone, Scanning,
                    ScanStep, Made, At
<1> QED
  BY <1>3, <1>4, <1>5, <1>6 DEF Inv

\* The queue is listed: what comes before the message that is found is gone.
LEMMA LoadQueueInv ==
    ASSUME Inv, NEW p \in Puts \cup Readers, LoadQueue(p)
    PROVE  Inv'
<1>1. PICK name \in IF QueueIsEmpty THEN {UndefinedName} ELSE Oldest :
          scan' = [scan EXCEPT ![p] = [step |-> "read", messageId |-> name]]
  BY DEF LoadQueue
<1>2. Scanning(p, "list") /\ UNCHANGED <<put, reader, subs, files, now>>
  BY DEF LoadQueue
<1>3. \/ name = UndefinedName
      \/ name \in DOMAIN files /\ \A other \in DOMAIN files : name.stamp <= other.stamp
  BY DEF QueueIsEmpty, Oldest
<1>4. name \in Name /\ name.stamp <= now
  BY <1>3, Records DEF Inv, TypeOK, FilesHoldTheirs
<1>5. TypeOK'
  BY <1>1, <1>2, <1>4 DEF Inv, TypeOK, Scan
<1>6. NamesDiffer' /\ FilesHoldTheirs' /\ RemovedByReaders' /\ TakenOnce' /\ OldestFirst'
  BY <1>2 DEF Inv, NamesDiffer, FilesHoldTheirs, RemovedByReaders, Removed, TakenOnce,
              OldestFirst, Made, Written, At
<1>7. ReadersGotOnce'
  BY <1>1, <1>2 DEF Inv, TypeOK, ReadersGotOnce, Scanning, Written
<1>8. ScansAreOwn'
  BY <1>1, <1>2, <1>4 DEF Inv, TypeOK, ScansAreOwn, Scanning, At
<1>9. ASSUME NEW m \in Puts, Made(m), put[m].name = name
      PROVE  EarlierGone(m)
  <2>1. name.stamp \in 1..now
    BY <1>9 DEF Inv, NamesDiffer
  <2>2. \A other \in DOMAIN files : name.stamp <= other.stamp
    BY <1>3, <2>1, Records
  <2>3. \A earlier \in put[m].earlier :
           put[earlier].name.stamp < name.stamp /\ put[earlier].name.stamp \in Nat
    BY <1>9 DEF Inv, EarlierAreOlder, TypeOK, Put, Name
  <2> QED
    BY <2>1, <2>2, <2>3 DEF EarlierGone
<1>10. EarlierAreOlder'
  BY <1>1, <1>2, <1>9 DEF Inv, TypeOK, EarlierAreOlder, EarlierGone, Scanning, Made, At
<1> QED
  BY <1>5, <1>6, <1>7, <1>8, <1>10 DEF Inv

\* Whoever is called has what it is called with, and was not called before.
LEMMA DeliverGives ==
    ASSUME Inv, NEW message \in Message, DeliverMessage(message)
    PROVE  /\ reader' \in [Readers -> Reader] /\ subs' = {}
           /\ \A r \in Readers :
                 \/ reader'[r] = reader[r]
                 \/ /\ r \in subs /\ reader[r].pc \in {"waiting", "timeout"}
                    /\ reader'[r].pc \in {"hung", "unlink", "ok"}
                    /\ reader'[r].pc = "unlink" => message # Undefined
                    /\ reader'[r].got = message
<1>1. \A r \in subs : reader[r].pc \in {"waiting", "timeout"} /\ r \in Readers
  BY DEF Inv, TypeOK, ReadersGotOnce
<1>2. ASSUME NEW r \in subs
      PROVE  \/ Called(r, message) = reader[r]
             \/ /\ Called(r, message).pc \in {"hung", "unlink", "ok"}
                /\ Called(r, message).pc = "unlink" => message # Undefined
                /\ Called(r, message).got = message
                /\ Called(r, message) \in Reader
  BY <1>1, <1>2 DEF Called, Reader, Inv, ReadersGotOnce
<1>3. \A r \in Readers : reader[r] \in Reader
  BY DEF Inv, TypeOK
<1>4. /\ subs' = {}
      /\ reader' = [r \in Readers |-> IF r \in subs THEN Called(r, message) ELSE reader[r]]
  BY DEF DeliverMessage
<1>5. \A r \in subs : Called(r, message) \in Reader
  BY <1>1, <1>2, <1>3
<1> QED
  BY <1>1, <1>2, <1>3, <1>4, <1>5

\* A message that is delivered is the one of a file, or nothing.
LEMMA GetMessageReads ==
    ASSUME Inv, NEW p \in Puts \cup Readers, GetMessage(p)
    PROVE  \/ UNCHANGED <<reader, subs>>
           \/ \E message \in Message :
                 /\ DeliverMessage(message)
                 /\ \/ message = Undefined
                    \/ /\ message.messageId = scan[p].messageId
                       /\ message.messageId \in DOMAIN files
                       /\ message.message = files[message.messageId]
<1> DEFINE name == scan[p].messageId
           message == [messageId |-> name, message |-> files[name]]
<1>1. CASE name \in DOMAIN files
  <2>1. message \in Message
    BY <1>1 DEF Inv, TypeOK, Message
  <2>2. DeliverMessage(message)
    BY <1>1 DEF GetMessage
  <2> QED
    BY <1>1, <2>1, <2>2
<1>2. CASE name \notin DOMAIN files
  BY <1>2, Records DEF GetMessage
<1> QED
  BY <1>1, <1>2

LEMMA GetMessageAnswers ==
    ASSUME Inv, NEW p \in Puts \cup Readers, GetMessage(p)
    PROVE  /\ put' \in [Puts -> Put]
           /\ \A m \in Puts :
                 /\ put'[m].name = put[m].name /\ put'[m].linked = put[m].linked
                 /\ put'[m].earlier = put[m].earlier
                 /\ \/ put'[m].pc = put[m].pc
                    \/ m = p /\ put[m].pc = "deliver" /\ put'[m].pc \in {"ok", "failed"}
           /\ scan' = [scan EXCEPT ![p] = ScanStep("none")]
           /\ UNCHANGED <<files, now>>
<1>1. \/ p \notin Puts /\ put' = put
      \/ p \in Puts /\ \E status \in {"ok", "failed"} : put' = [put EXCEPT ![p].pc = status]
  BY DEF GetMessage
<1>2. p \in Puts => put[p].pc = "deliver"
  BY DEF GetMessage, Inv, ScansAreOwn, At
<1> QED
  BY <1>1, <1>2 DEF GetMessage, SetScan, Inv, TypeOK, Put

LEMMA GetMessageInv ==
    ASSUME Inv, NEW p \in Puts \cup Readers, GetMessage(p)
    PROVE  Inv'
<1>0. Scanning(p, "read")
  BY DEF GetMessage
<1>1. /\ put' \in [Puts -> Put]
      /\ scan' = [scan EXCEPT ![p] = ScanStep("none")] /\ UNCHANGED <<files, now>>
  BY GetMessageAnswers
<1>2. \A m \in Puts :
         /\ put'[m].name = put[m].name /\ put'[m].linked = put[m].linked
         /\ put'[m].earlier = put[m].earlier
         /\ Made(m)' = Made(m) /\ Written(m)' = Written(m)
         /\ At(m, "write")' = At(m, "write") /\ (At(m, "ok") => At(m, "ok")')
         /\ m # p => At(m, "deliver")' = At(m, "deliver")
  BY GetMessageAnswers DEF Made, Written, At
<1>3. /\ reader' \in [Readers -> Reader] /\ (subs' = {} \/ UNCHANGED <<reader, subs>>)
      /\ \A r \in Readers :
            \/ reader'[r] = reader[r]
            \/ /\ r \in subs /\ reader[r].pc \in {"waiting", "timeout"}
               /\ reader'[r].pc \in {"hung", "unlink", "ok"}
               /\ \/ reader'[r].got = Undefined /\ reader'[r].pc # "unlink"
                  \/ /\ reader'[r].got.messageId = scan[p].messageId
                     /\ reader'[r].got.messageId \in DOMAIN files
                     /\ reader'[r].got.message = files[reader'[r].got.messageId]
  <2>1. CASE UNCHANGED <<reader, subs>>
    BY <2>1 DEF Inv, TypeOK
  <2>2. CASE ~UNCHANGED <<reader, subs>>
    <3>1. PICK message \in Message :
             /\ DeliverMessage(message)
             /\ \/ message = Undefined
                \/ /\ message.messageId = scan[p].messageId
                   /\ message.messageId \in DOMAIN files
                   /\ message.message = files[message.messageId]
      BY <2>2, GetMessageReads
    <3> QED
      BY <3>1, DeliverGives
  <2> QED
    BY <2>1, <2>2
<1>4. TypeOK'
  BY <1>1, <1>3, Records DEF Inv, TypeOK, Scan, ScanStep
<1>5. NamesDiffer' /\ FilesHoldTheirs'
  <2>1. NamesDiffer'
    BY <1>1, <1>2 DEF Inv, NamesDiffer
  <2>2. /\ IsFiniteSet(DOMAIN files) /\ files = [name \in DOMAIN files |-> files[name]]
        /\ \A name \in DOMAIN files :
              /\ name.stamp \in 1..now
              /\ files[name] # None => /\ Written(files[name]) /\ files[name] \in Puts
                                      /\ put[files[name]].name = name
    BY DEF Inv, FilesHoldTheirs, TypeOK
  <2>3. \A m \in Puts : put[m].linked => At(m, "write") /\ put[m].name \in DOMAIN files
    BY DEF Inv, FilesHoldTheirs
  <2>4. \A m \in Puts : put'[m].linked => At(m, "write")' /\ put'[m].name \in DOMAIN files
    BY <1>2, <2>3
  <2>5. \A m \in Puts : Written(m) => put'[m].pc \in {"deliver", "ok", "failed"}
    BY <1>2 DEF Written
  <2>6. \A name \in DOMAIN files : files[name] # None =>
           /\ put'[files[name]].pc \in {"deliver", "ok", "failed"}
           /\ put'[files[name]].name = name
    BY <1>2, <2>2, <2>5
  <2> QED
    BY <1>1, <2>1, <2>2, <2>4, <2>6 DEF FilesHoldTheirs, Written
<1>6. ReadersGotOnce'
  <2>1. \A r \in Readers : Scanning(r, "count")' => Scanning(r, "count")
    BY <1>1 DEF Inv, TypeOK, Scanning, ScanStep
  <2>2. \A name \in DOMAIN files : name.stamp > 0 /\ name.stamp <= now
    BY DEF Inv, FilesHoldTheirs, TypeOK, Name
  <2>3. ASSUME NEW r \in Readers
        PROVE  /\ r \in subs' \/ Scanning(r, "count")' => reader'[r].pc \in {"waiting", "timeout"}
               /\ reader'[r].pc = "timeout" => r \in Gets
               /\ Scanning(r, "count")' => r \notin subs'
    <3>1. /\ r \in subs \/ Scanning(r, "count") => reader[r].pc \in {"waiting", "timeout"}
          /\ reader[r].pc = "timeout" => r \in Gets
          /\ Scanning(r, "count") => r \notin subs
      BY DEF Inv, ReadersGotOnce
    <3>2. r \in subs' \/ Scanning(r, "count")' => reader'[r] = reader[r]
      BY <1>3, <2>1, <3>1
    <3> QED
      BY <1>3, <2>1, <3>1, <3>2
  <2>4. ASSUME NEW r \in Readers
        PROVE  /\ reader'[r].got.messageId.stamp <= now
               /\ reader'[r].pc \in {"unlink", "removed"} => reader'[r].got.messageId.stamp > 0
               /\ reader'[r].got.messageId.stamp = 0 => reader'[r].got = Undefined
    BY <1>3, <2>2, Records DEF Inv, TypeOK, ReadersGotOnce
  <2>5. ASSUME NEW r \in Readers, NEW m \in Puts, reader'[r].got.message = m
        PROVE  /\ put'[m].pc \in {"deliver", "ok", "failed"}
               /\ put'[m].name = reader'[r].got.messageId
               /\ reader'[r].pc = "removed" => reader'[r].got.messageId \notin DOMAIN files
    <3>1. /\ Written(m) /\ put[m].name = reader'[r].got.messageId
          /\ reader'[r].pc = "removed" => reader'[r].got.messageId \notin DOMAIN files
      BY <1>3, <2>5, Records DEF Inv, FilesHoldTheirs, ReadersGotOnce
    <3> QED
      BY <1>2, <3>1 DEF Written
  <2>6. \A r \in Readers : reader'[r].got.message \in Puts \cup {None}
    BY <1>3 DEF Reader, Message
  <2> QED
    BY <1>1, <2>3, <2>4, <2>5, <2>6 DEF ReadersGotOnce, Written
<1>7. RemovedByReaders'
  BY <1>1, <1>2, <1>3 DEF Inv, RemovedByReaders, Removed
<1>8. ScansAreOwn'
  BY <1>1, <1>2, Records DEF Inv, TypeOK, ScansAreOwn, Scanning, ScanStep
<1>9. EarlierAreOlder'
  BY <1>1, <1>2 DEF Inv, TypeOK, Put, EarlierAreOlder, EarlierGone, Scanning, ScanStep
<1>10. TakenOnce'
  BY <1>3 DEF Inv, TakenOnce
<1>11. OldestFirst'
  <2>1. ASSUME NEW r \in Readers, NEW m \in Puts, reader'[r].got.message = m
        PROVE  EarlierGone(m)
    <3>1. CASE reader'[r] = reader[r]
      BY <2>1, <3>1 DEF Inv, OldestFirst, EarlierGone
    <3>2. CASE /\ reader'[r].got.messageId = scan[p].messageId
               /\ reader'[r].got.messageId \in DOMAIN files
               /\ reader'[r].got.message = files[reader'[r].got.messageId]
      <4>1. files[scan[p].messageId] = m /\ scan[p].messageId \in DOMAIN files
        BY <2>1, <3>2
      <4>2. Written(m) /\ put[m].name = scan[p].messageId
        BY <4>1 DEF Inv, FilesHoldTheirs
      <4> QED
        BY <1>0, <4>2 DEF Inv, EarlierAreOlder, Made, Written
    <3> QED
      BY <1>3, <2>1, <3>1, <3>2, Records
  <2>2. \A m \in Puts : put[m].earlier \subseteq Puts
    BY DEF Inv, TypeOK, Put
  <2> QED
    BY <1>1, <1>2, <2>1, <2>2 DEF OldestFirst, EarlierGone
<1> QED
  BY <1>4, <1>5, <1>6, <1>7, <1>8, <1>9, <1>10, <1>11 DEF Inv

\* A message is unlinked: who has it open has nothing any more, and it was not empty
\* unless the reader had found it so.
LEMMA DeleteMessageInv ==
    ASSUME Inv, NEW r \in Readers, DeleteMessage(r)
    PROVE  Inv'
<1> DEFINE name == reader[r].got.messageId
<1>1. /\ reader[r].pc = "unlink" /\ UNCHANGED <<scan, subs, now>>
      /\ \E pc \in {"removed", "failed"} : reader' = [reader EXCEPT ![r].pc = pc]
  BY DEF DeleteMessage
<1>2. \/ name \in DOMAIN files /\ Unlink(name) /\ reader'[r].pc = "removed"
      \/ reader'[r].pc = "failed" /\ UNCHANGED <<files, put>>
  <2>1. \A pc : [reader EXCEPT ![r].pc = pc][r].pc = pc
    BY DEF Inv, TypeOK, Reader
  <2>2. CASE name \in DOMAIN files
    BY <2>1, <2>2 DEF DeleteMessage
  <2>3. CASE name \notin DOMAIN files
    BY <2>1, <2>3 DEF DeleteMessage
  <2> QED
    BY <2>2, <2>3
<1>3. /\ DOMAIN files' \subseteq DOMAIN files
      /\ files' = [n \in DOMAIN files' |-> files'[n]]
      /\ \A n \in DOMAIN files' : files'[n] = files[n]
      /\ \A n \in DOMAIN files : n \notin DOMAIN files' => n = name /\ reader'[r].pc = "removed"
  BY <1>2 DEF Unlink, Inv, FilesHoldTheirs
<1>4. /\ reader' \in [Readers -> Reader]
      /\ reader'[r].got = reader[r].got /\ reader'[r].pc \in {"removed", "failed"}
      /\ \A s \in Readers : s # r => reader'[s] = reader[s]
      /\ \A s \in Readers : reader'[s].got = reader[s].got
  BY <1>1 DEF Inv, TypeOK, Reader
<1>5. /\ put' \in [Puts -> Put]
      /\ \A m \in Puts :
            /\ put'[m].pc = put[m].pc /\ put'[m].name = put[m].name
            /\ put'[m].earlier = put[m].earlier
            /\ put'[m].linked => put[m].linked
            /\ put[m].linked => put'[m].linked \/ (put[m].name = name /\ reader'[r].pc = "removed")
            /\ put'[m].linked /\ reader'[r].pc = "removed" => put[m].name # name
  <2>1. CASE Unlink(name) /\ reader'[r].pc = "removed"
    <3>1. /\ put \in [Puts -> Put]
          /\ put' = [m \in Puts |-> IF put[m].name = name
                                    THEN [put[m] EXCEPT !.linked = FALSE] ELSE put[m]]
      BY <2>1 DEF Unlink, Inv, TypeOK
    <3>2. ASSUME NEW x \in Put
          PROVE  LET y == [x EXCEPT !.linked = FALSE] IN
                 /\ y \in Put /\ y.pc = x.pc /\ y.name = x.name /\ y.earlier = x.earlier
                 /\ ~y.linked
      BY DEF Put
    <3> QED
      BY <2>1, <3>1, <3>2
  <2>2. CASE UNCHANGED put /\ reader'[r].pc = "failed"
    BY <2>2 DEF Inv, TypeOK
  <2> QED
    BY <1>2, <2>1, <2>2
<1>6. \A m \in Puts :
         /\ Made(m)' = Made(m) /\ Written(m)' = Written(m)
         /\ \A pc \in {"write", "deliver", "ok"} : At(m, pc)' = At(m, pc)
  BY <1>5 DEF Made, Written, At
<1> HIDE DEF name
<1>7. \A m \in Puts : Made(m) /\ put[m].name = name => reader[r].got.message \in {m, None}
  <2>1. reader[r].got.message \in Puts \cup {None}
    BY DEF Inv, TypeOK, Reader, Message
  <2> QED
    BY <2>1 DEF Inv, ReadersGotOnce, NamesDiffer, Made, Written, name
<1>8. TypeOK'
  BY <1>1, <1>3, <1>4, <1>5 DEF Inv, TypeOK
<1>9. NamesDiffer' /\ FilesHoldTheirs'
  <2>1. NamesDiffer'
    BY <1>1, <1>5, <1>6 DEF Inv, NamesDiffer
  <2>2. IsFiniteSet(DOMAIN files')
    BY <1>3, FS_Subset DEF Inv, FilesHoldTheirs
  <2>3. \A n \in DOMAIN files' : files'[n] # None =>
           put'[files'[n]].pc \in {"deliver", "ok", "failed"} /\ put'[files'[n]].name = n
    BY <1>3, <1>5 DEF Inv, FilesHoldTheirs, Written, TypeOK
  <2>4. \A m \in Puts : put'[m].linked => At(m, "write")' /\ put'[m].name \in DOMAIN files'
    BY <1>3, <1>5, <1>6 DEF Inv, FilesHoldTheirs
  <2>5. \A n \in DOMAIN files' : n.stamp \in 1..now'
    BY <1>1, <1>3 DEF Inv, FilesHoldTheirs
  <2> QED
    BY <1>3, <2>1, <2>2, <2>3, <2>4, <2>5 DEF FilesHoldTheirs, Written
<1>10. ReadersGotOnce'
  <2>1. ASSUME NEW s \in Readers
        PROVE  /\ s \in subs' \/ Scanning(s, "count")' => reader'[s].pc \in {"waiting", "timeout"}
               /\ reader'[s].pc = "timeout" => s \in Gets
               /\ Scanning(s, "count")' => s \notin subs'
               /\ reader'[s].got.messageId.stamp <= now'
               /\ reader'[s].pc \in {"unlink", "removed"} => reader'[s].got.messageId.stamp > 0
               /\ reader'[s].got.messageId.stamp = 0 => reader'[s].got = Undefined
    BY <1>1, <1>4 DEF Inv, ReadersGotOnce, Scanning
  <2>2. ASSUME NEW s \in Readers, NEW m \in Puts, reader'[s].got.message = m
        PROVE  /\ put'[m].pc \in {"deliver", "ok", "failed"}
               /\ put'[m].name = reader'[s].got.messageId
               /\ reader'[s].pc = "removed" => reader'[s].got.messageId \notin DOMAIN files'
    <3>1. Written(m) /\ put[m].name = reader[s].got.messageId
      BY <1>4, <2>2 DEF Inv, ReadersGotOnce
    <3>2. CASE s = r
      BY <1>2, <1>4, <1>5, <3>1, <3>2 DEF Unlink, Written, name
    <3>3. CASE s # r
      BY <1>3, <1>4, <1>5, <2>2, <3>1, <3>3 DEF Inv, ReadersGotOnce, Written
    <3> QED
      BY <3>2, <3>3
  <2>3. \A s \in Readers : reader'[s].got.message \in Puts \cup {None}
    BY <1>4 DEF Reader, Message
  <2> QED
    BY <2>1, <2>2, <2>3 DEF ReadersGotOnce, Written
<1>11. RemovedByReaders'
  <2>1. ASSUME NEW m \in Puts, Removed(m) PROVE Removed(m)'
    BY <1>1, <1>4, <1>5, <2>1 DEF Removed
  <2>2. ASSUME NEW m \in Puts, Made(m), put[m].name = name, reader'[r].pc = "removed"
        PROVE  Removed(m)'
    BY <1>4, <1>5, <1>7, <2>2 DEF Removed, name
  <2>3. ASSUME NEW m \in Puts, At(m, "write") PROVE put'[m].linked \/ Removed(m)'
    BY <1>5, <2>1, <2>2, <2>3 DEF Inv, RemovedByReaders, Made, At
  <2>4. ASSUME NEW m \in Puts, Written(m)
        PROVE  (put'[m].name \in DOMAIN files' /\ files'[put'[m].name] = m) \/ Removed(m)'
    BY <1>3, <1>5, <2>1, <2>2, <2>4 DEF Inv, RemovedByReaders, Made, Written
  <2> QED
    BY <1>6, <2>3, <2>4 DEF RemovedByReaders
<1>12. ScansAreOwn'
  BY <1>1, <1>6 DEF Inv, ScansAreOwn, Scanning
<1>13. EarlierAreOlder' /\ OldestFirst'
  <2>1. \A m \in Puts : put[m].earlier \subseteq Puts
    BY DEF Inv, TypeOK, Put
  <2>2. \A m \in Puts : EarlierGone(m) => EarlierGone(m)'
    BY <1>3, <1>5, <2>1 DEF EarlierGone
  <2>3. EarlierAreOlder'
    BY <1>1, <1>5, <1>6, <2>1, <2>2 DEF Inv, EarlierAreOlder, Scanning
  <2>4. OldestFirst'
    BY <1>4, <2>2 DEF Inv, OldestFirst, EarlierGone
  <2> QED
    BY <2>3, <2>4
<1>14. TakenOnce'
  <2>1. ASSUME NEW s \in Readers, s # r, reader'[s].pc = "removed", reader'[r].pc = "removed",
               reader'[s].got.message = reader'[r].got.message, reader'[r].got.message # None
        PROVE  FALSE
    <3>1. reader[r].got.message \in Puts
      BY <1>4, <2>1 DEF Inv, TypeOK, Reader, Message
    <3>2. reader[s].got.messageId = name /\ name \notin DOMAIN files
      BY <1>4, <2>1, <3>1 DEF Inv, ReadersGotOnce, name
    <3> QED
      BY <1>2, <2>1, <3>2
  <2> QED
    BY <1>4, <2>1 DEF Inv, TakenOnce
<1> QED
  BY <1>8, <1>9, <1>10, <1>11, <1>12, <1>13, <1>14 DEF Inv

\* A get whose client deletes what it got, or that is not called in time.
LEMMA ReaderInv ==
    ASSUME Inv, NEW r \in Readers, AskToDelete(r) \/ Timeout(r)
    PROVE  Inv'
<1>1. /\ \/ reader[r].pc = "ok" /\ reader'[r].pc = "unlink" /\ reader[r].got # Undefined
         \/ r \in Gets /\ reader[r].pc = "waiting" /\ reader'[r].pc = "timeout"
      /\ reader' \in [Readers -> Reader] /\ subs' \subseteq subs
      /\ \A s \in Readers : reader'[s].got = reader[s].got /\ (s # r => reader'[s] = reader[s])
      /\ UNCHANGED <<put, scan, files, now>>
  BY DEF AskToDelete, Timeout, Inv, TypeOK, Reader
<1>2. TypeOK'
  BY <1>1 DEF Inv, TypeOK
<1>3. NamesDiffer' /\ FilesHoldTheirs' /\ ScansAreOwn' /\ EarlierAreOlder'
  BY <1>1 DEF Inv, NamesDiffer, FilesHoldTheirs, ScansAreOwn, EarlierAreOlder, EarlierGone,
              Scanning, Made, Written, At
<1>4. ReadersGotOnce'
  <2>1. reader[r].got.messageId.stamp \in Nat
    BY DEF Inv, TypeOK, Reader, Message, Name
  <2>2. reader[r].pc = "ok" => r \notin subs /\ ~Scanning(r, "count")
    BY DEF Inv, ReadersGotOnce
  <2> QED
    BY <1>1, <2>1, <2>2 DEF Inv, ReadersGotOnce, Scanning, Written
<1>5. RemovedByReaders' /\ TakenOnce' /\ OldestFirst'
  <2>1. RemovedByReaders'
    BY <1>1 DEF Inv, RemovedByReaders, Removed, Written, At
  <2>2. TakenOnce'
    BY <1>1 DEF Inv, TakenOnce
  <2>3. OldestFirst'
    BY <1>1 DEF Inv, OldestFirst
  <2> QED
    BY <2>1, <2>2, <2>3
<1> QED
  BY <1>2, <1>3, <1>4, <1>5 DEF Inv

\* A put counts the queue: what was answered by now comes before it.
LEMMA CheckQueueLoadInv ==
    ASSUME Inv, NEW m \in Puts, CheckQueueLoad(m)
    PROVE  Inv'
<1>1. PICK pc \in {"refused", "mkdir"}, empty \in BOOLEAN :
         put' = [put EXCEPT ![m] =
                   [@ EXCEPT !.pc = pc, !.wasEmpty = empty,
                             !.earlier = {other \in Puts : At(other, "ok")}]]
  BY DEF CheckQueueLoad
<1>2. At(m, "idle") /\ UNCHANGED <<reader, scan, subs, files, now>>
  BY DEF CheckQueueLoad
<1>3. /\ put' \in [Puts -> Put] /\ put[m].pc = "idle" /\ put'[m].pc = pc
      /\ put'[m].name = put[m].name /\ put'[m].linked = put[m].linked
      /\ put'[m].earlier = {other \in Puts : At(other, "ok")}
      /\ \A n \in Puts \ {m} : put'[n] = put[n]
  BY ZenonT(40), <1>1, <1>2 DEF Inv, TypeOK, Put, At
<1>4. \A n \in Puts :
         /\ Made(n)' = Made(n) /\ Written(n)' = Written(n) /\ (Made(n) => n # m)
         /\ put'[n].name = put[n].name /\ put'[n].linked = put[n].linked
         /\ \A step \in {"write", "deliver", "ok"} : At(n, step)' = At(n, step)
  BY <1>3 DEF Made, Written, At
<1>5. TypeOK'
  BY <1>2, <1>3 DEF Inv, TypeOK
<1>6. NamesDiffer' /\ ScansAreOwn' /\ RemovedByReaders' /\ TakenOnce'
  BY <1>2, <1>4 DEF Inv, NamesDiffer, ScansAreOwn, RemovedByReaders, Removed, TakenOnce, Scanning
<1>7. FilesHoldTheirs' /\ ReadersGotOnce'
  <2>1. \A n \in Puts : Written(n) => put'[n].pc \in {"deliver", "ok", "failed"}
    BY <1>4 DEF Written
  <2>2. \A name \in DOMAIN files : files[name] \in Puts \cup {None}
    BY DEF Inv, TypeOK
  <2>3. \A r \in Readers : reader[r].got.message \in Puts \cup {None}
    BY DEF Inv, TypeOK, Reader, Message
  <2>4. FilesHoldTheirs'
    BY <1>2, <1>4, <2>1, <2>2 DEF Inv, FilesHoldTheirs, Written
  <2>5. ReadersGotOnce'
    BY <1>2, <1>4, <2>1, <2>3 DEF Inv, ReadersGotOnce, Scanning, Written
  <2> QED
    BY <2>4, <2>5
<1>8. EarlierAreOlder' /\ OldestFirst'
  <2>1. \A n \in Puts : put[n].earlier \subseteq Puts /\ put'[n].earlier \subseteq Puts
    BY <1>3 DEF Inv, TypeOK, Put
  <2>2. \A n \in Puts \ {m} : EarlierGone(n) => EarlierGone(n)'
    BY <1>2, <1>3, <1>4, <2>1 DEF EarlierGone
  <2>3. \A n \in Puts : \A earlier \in put'[n].earlier :
           /\ At(earlier, "ok")'
           /\ Made(n)' => put'[earlier].name.stamp < put'[n].name.stamp
    BY <1>3, <1>4, <2>1 DEF Inv, EarlierAreOlder
  <2>4. EarlierAreOlder'
    BY <1>2, <1>4, <2>2, <2>3 DEF Inv, EarlierAreOlder, Scanning
  <2>5. \A r \in Readers : reader[r].got.message # m
    BY <1>4 DEF Inv, ReadersGotOnce, Written, Made
  <2>6. OldestFirst'
    BY <1>2, <2>2, <2>5 DEF Inv, OldestFirst, EarlierGone
  <2> QED
    BY <2>4, <2>6
<1> QED
  BY <1>5, <1>6, <1>7, <1>8 DEF Inv

\* A new name is later than all there were.
LEMMA NewNameIsFree ==
    ASSUME Inv, NEW stamp \in Nat, stamp > now
    PROVE  LET name == FreeName(stamp) IN
           name \in Name /\ name.stamp = stamp /\ name \notin DOMAIN files
<1> DEFINE Candidates == {[stamp |-> stamp, n |-> i] : i \in 0..Cardinality(DOMAIN files)}
           Free(name) == /\ name \notin DOMAIN files
                         /\ \A i \in 0..(name.n - 1) : [stamp |-> stamp, n |-> i] \in DOMAIN files
<1>1. Cardinality(DOMAIN files) \in Nat
  BY FS_CardinalityType DEF Inv, FilesHoldTheirs
<1>2. [stamp |-> stamp, n |-> 0] \in Candidates
  BY <1>1
<1>3. Free([stamp |-> stamp, n |-> 0])
  BY DEF Inv, FilesHoldTheirs, TypeOK
<1>4. FreeName(stamp) \in Candidates /\ Free(FreeName(stamp))
  <2>1. FreeName(stamp) = CHOOSE name \in Candidates : Free(name)
    BY DEF FreeName
  <2> HIDE DEF Candidates, Free
  <2> QED
    BY <1>2, <1>3, <2>1
<1> QED
  BY <1>1, <1>4 DEF Name

\* A put makes an empty file, in a millisecond of its own.
LEMMA ConstructFileNameInv ==
    ASSUME Inv, NEW m \in Puts, ConstructFileName(m), now' # now
    PROVE  Inv'
<1> DEFINE name == FreeName(now')
<1>1. now \in Nat /\ now' = now + 1
  BY DEF ConstructFileName, Inv, TypeOK
<1>2. name \in Name /\ name.stamp = now + 1 /\ name \notin DOMAIN files
  BY <1>1, NewNameIsFree
<1>3. /\ Make(name) /\ put' = [put EXCEPT ![m].pc = "open", ![m].name = name]
      /\ At(m, "mkdir") /\ UNCHANGED <<reader, scan, subs>>
  BY DEF ConstructFileName
<1> HIDE DEF name
<1>4. /\ DOMAIN files' = DOMAIN files \cup {name} /\ files'[name] = None
      /\ files' = [n \in DOMAIN files' |-> files'[n]]
      /\ \A n \in DOMAIN files : files'[n] = files[n]
  BY <1>2, <1>3 DEF Make
<1>5. /\ put' \in [Puts -> Put] /\ put[m].pc = "mkdir"
      /\ put'[m].pc = "open" /\ put'[m].name = name /\ put'[m].linked = put[m].linked
      /\ \A n \in Puts : put'[n].earlier = put[n].earlier
      /\ \A n \in Puts \ {m} : put'[n] = put[n]
  BY ZenonT(40), <1>2, <1>3 DEF Inv, TypeOK, Put, At
<1>6. \A n \in Puts :
         /\ Written(n)' = Written(n) /\ (Written(n) => n # m)
         /\ (Made(n)' = (Made(n) \/ n = m)) /\ ~Made(m)
         /\ \A step \in {"write", "deliver", "ok"} :
               At(n, step)' = At(n, step) /\ (At(n, step) => n # m)
  BY <1>5 DEF Made, Written, At
<1>7. \A n \in Puts : Made(n) => put[n].name.stamp \in 1..now
  BY DEF Inv, NamesDiffer
<1>8. TypeOK'
  BY <1>1, <1>2, <1>3, <1>4, <1>5 DEF Inv, TypeOK
<1>9. NamesDiffer' /\ FilesHoldTheirs'
  <2>1. NamesDiffer'
    <3>1. \A n \in Puts : Made(n)' => put'[n].name.stamp \in 1..now'
      <4>1. ASSUME NEW n \in Puts, n # m, Made(n)' PROVE put'[n].name.stamp \in 1..now'
        <5>1. put[n].name.stamp \in 1..now /\ put'[n].name = put[n].name
          BY <1>5, <1>6, <1>7, <4>1
        <5> QED
          BY <1>1, <5>1
      <4>2. put'[m].name.stamp \in 1..now'
        BY <1>1, <1>2, <1>5
      <4> QED
        BY <4>1, <4>2
    <3>2. \A n \in Puts \ {m} : Made(n) => put'[n].name # put'[m].name
      BY <1>1, <1>2, <1>5, <1>7
    <3>3. ASSUME NEW n \in Puts, NEW o \in Puts, Made(n)', Made(o)', put'[n].name = put'[o].name
          PROVE  n = o
      <4>1. CASE n # m /\ o # m
        BY <1>5, <1>6, <3>3, <4>1 DEF Inv, NamesDiffer
      <4>2. CASE n = m \/ o = m
        BY <1>6, <3>2, <3>3, <4>2
      <4> QED
        BY <4>1, <4>2
    <3> QED
      BY <3>1, <3>3 DEF NamesDiffer
  <2>2. IsFiniteSet(DOMAIN files')
    BY <1>4, FS_AddElement DEF Inv, FilesHoldTheirs
  <2>3. \A n \in DOMAIN files' : files'[n] # None =>
           put'[files'[n]].pc \in {"deliver", "ok", "failed"} /\ put'[files'[n]].name = n
    <3>1. \A n \in DOMAIN files : files[n] # None =>
             files[n] \in Puts /\ Written(files[n]) /\ put[files[n]].name = n
      BY DEF Inv, FilesHoldTheirs, TypeOK
    <3> QED
      BY <1>4, <1>5, <1>6, <3>1 DEF Written
  <2>4. \A n \in Puts : put'[n].linked => At(n, "write")' /\ put'[n].name \in DOMAIN files'
    BY <1>4, <1>5, <1>6 DEF Inv, FilesHoldTheirs
  <2>5. \A n \in DOMAIN files' : n.stamp \in 1..now'
    <3>1. \A n \in DOMAIN files : n.stamp \in 1..now
      BY DEF Inv, FilesHoldTheirs
    <3> QED
      BY <1>1, <1>2, <1>4, <3>1
  <2> QED
    BY <1>4, <2>1, <2>2, <2>3, <2>4, <2>5 DEF FilesHoldTheirs, Written
<1>10. ReadersGotOnce'
  <2>1. ASSUME NEW r \in Readers
        PROVE  /\ r \in subs' \/ Scanning(r, "count")' => reader'[r].pc \in {"waiting", "timeout"}
               /\ reader'[r].pc = "timeout" => r \in Gets
               /\ Scanning(r, "count")' => r \notin subs'
               /\ reader'[r].got.messageId.stamp <= now'
               /\ reader'[r].pc \in {"unlink", "removed"} => reader'[r].got.messageId.stamp > 0
               /\ reader'[r].got.messageId.stamp = 0 => reader'[r].got = Undefined
    <3>1. reader[r].got.messageId.stamp \in Nat
      BY DEF Inv, TypeOK, Reader, Message, Name
    <3> QED
      BY <1>1, <1>3, <3>1 DEF Inv, ReadersGotOnce, Scanning
  <2>2. ASSUME NEW r \in Readers, NEW n \in Puts, reader'[r].got.message = n
        PROVE  /\ put'[n].pc \in {"deliver", "ok", "failed"}
               /\ put'[n].name = reader'[r].got.messageId
               /\ reader'[r].pc = "removed" => reader'[r].got.messageId \notin DOMAIN files'
    <3>1. /\ Written(n) /\ put[n].name = reader[r].got.messageId
          /\ reader[r].pc = "removed" => reader[r].got.messageId \notin DOMAIN files
      BY <1>3, <2>2 DEF Inv, ReadersGotOnce
    <3>2. put[n].name # name
      BY <1>1, <1>2, <1>7, <3>1 DEF Written, Made
    <3> QED
      BY <1>3, <1>4, <1>5, <1>6, <3>1, <3>2 DEF Written
  <2>3. \A r \in Readers : reader'[r].got.message \in Puts \cup {None}
    BY <1>3 DEF Inv, TypeOK, Reader, Message
  <2> QED
    BY <2>1, <2>2, <2>3 DEF ReadersGotOnce, Written
<1>11. RemovedByReaders'
  <2>1. \A n \in Puts : At(n, "write") \/ Written(n) =>
           put'[n].name = put[n].name /\ put'[n].linked = put[n].linked
    BY <1>5, <1>6
  <2>2. \A n \in Puts : At(n, "write") \/ Written(n) => (Removed(n) => Removed(n)')
    BY <1>3, <2>1 DEF Removed
  <2>3. \A n \in Puts : At(n, "write") => put[n].linked \/ Removed(n)
    BY DEF Inv, RemovedByReaders
  <2>4. \A n \in Puts : Written(n) =>
           (put[n].name \in DOMAIN files /\ files[put[n].name] = n) \/ Removed(n)
    BY DEF Inv, RemovedByReaders
  <2> QED
    BY <1>4, <1>6, <2>1, <2>2, <2>3, <2>4 DEF RemovedByReaders
<1>12. ScansAreOwn'
  <2>1. \A p \in Puts \cup Readers : scan[p].messageId.stamp \in Nat
    BY DEF Inv, TypeOK, Scan, Name
  <2> QED
    BY <1>1, <1>3, <1>6, <2>1 DEF Inv, ScansAreOwn, Scanning
<1>13. EarlierAreOlder' /\ OldestFirst'
  <2>1. \A n \in Puts : put[n].earlier \subseteq Puts
    BY DEF Inv, TypeOK, Put
  <2>2. \A n \in Puts : \A earlier \in put[n].earlier :
           /\ At(earlier, "ok") /\ Made(earlier) /\ earlier # m
           /\ Made(n) => put[earlier].name.stamp < put[n].name.stamp
    BY <1>6, <2>1 DEF Inv, EarlierAreOlder, At, Made
  <2>3. \A n \in Puts : \A earlier \in put'[n].earlier :
           /\ At(earlier, "ok")'
           /\ Made(n)' => put'[earlier].name.stamp < put'[n].name.stamp
    <3>1. \A n \in Puts : \A earlier \in put[n].earlier :
             put'[earlier].name = put[earlier].name /\ put[earlier].name.stamp \in 1..now
      BY <1>5, <1>7, <2>1, <2>2
    <3>2. \A earlier \in put[m].earlier : put'[earlier].name.stamp < put'[m].name.stamp
      BY <1>1, <1>2, <1>5, <3>1
    <3> QED
      BY ZenonT(40), <1>5, <1>6, <2>1, <2>2, <3>1, <3>2
  <2>4. \A n \in Puts : EarlierGone(n) => EarlierGone(n)'
    BY <1>1, <1>2, <1>4, <1>5, <1>7, <2>1, <2>2 DEF EarlierGone
  <2>5. \A p \in Puts \cup Readers : scan[p].messageId # name
    BY <1>1, <1>2 DEF Inv, ScansAreOwn
  <2>6. EarlierAreOlder'
    BY <1>3, <1>5, <1>6, <2>3, <2>4, <2>5 DEF Inv, EarlierAreOlder, Scanning
  <2>7. OldestFirst'
    BY <1>3, <2>4 DEF Inv, OldestFirst, EarlierGone
  <2> QED
    BY <2>6, <2>7
<1>14. TakenOnce'
  BY <1>3 DEF Inv, TakenOnce
<1> QED
  BY <1>8, <1>9, <1>10, <1>11, <1>12, <1>13, <1>14 DEF Inv

\* A put opens its file, which is empty, or makes it again when it was removed.
LEMMA OpenFileInv ==
    ASSUME Inv, NEW m \in Puts, OpenFile(m)
    PROVE  Inv'
<1> DEFINE name == put[m].name
<1>1. /\ Make(name) /\ put' = [put EXCEPT ![m].pc = "write", ![m].linked = TRUE]
      /\ put[m].pc = "open" /\ UNCHANGED <<reader, scan, subs, now>>
  BY DEF OpenFile, At
<1>2. name \in Name /\ name.stamp \in 1..now
  BY <1>1 DEF Inv, TypeOK, Put, NamesDiffer, Made
<1>3. \A n \in Puts \ {m} : Made(n) => put[n].name # name
  BY <1>1 DEF Inv, NamesDiffer, Made
<1> HIDE DEF name
<1>4. name \in DOMAIN files => files[name] = None
  <2>1. \A n \in Puts : Written(n) => Made(n) /\ n # m
    BY <1>1 DEF Written, Made
  <2> QED
    BY <1>3, <2>1 DEF Inv, TypeOK, FilesHoldTheirs
<1>5. /\ DOMAIN files' = DOMAIN files \cup {name} /\ files'[name] = None
      /\ files' = [n \in DOMAIN files' |-> files'[n]]
      /\ \A n \in DOMAIN files : files'[n] = files[n]
  BY <1>1, <1>4 DEF Make
<1>6. /\ put' \in [Puts -> Put] /\ put'[m].pc = "write" /\ put'[m].linked
      /\ \A n \in Puts : put'[n].name = put[n].name /\ put'[n].earlier = put[n].earlier
      /\ \A n \in Puts \ {m} : put'[n] = put[n]
  BY ZenonT(40), <1>1 DEF Inv, TypeOK, Put
<1>7. \A n \in Puts :
         /\ Written(n)' = Written(n) /\ (Written(n) => n # m /\ Made(n))
         /\ Made(n)' = Made(n)
         /\ \A step \in {"deliver", "ok"} :
               At(n, step)' = At(n, step) /\ (At(n, step) => n # m /\ Made(n))
         /\ n # m => At(n, "write")' = At(n, "write")
  BY <1>1, <1>6 DEF Made, Written, At
<1>8. TypeOK'
  BY <1>1, <1>2, <1>5, <1>6 DEF Inv, TypeOK
<1>9. NamesDiffer' /\ FilesHoldTheirs'
  <2>1. NamesDiffer'
    BY <1>1, <1>6, <1>7 DEF Inv, NamesDiffer
  <2>2. IsFiniteSet(DOMAIN files')
    BY <1>5, FS_AddElement DEF Inv, FilesHoldTheirs
  <2>3. \A n \in DOMAIN files' : files'[n] # None =>
           put'[files'[n]].pc \in {"deliver", "ok", "failed"} /\ put'[files'[n]].name = n
    <3>1. \A n \in DOMAIN files : files[n] # None =>
             files[n] \in Puts /\ Written(files[n]) /\ put[files[n]].name = n
      BY DEF Inv, FilesHoldTheirs, TypeOK
    <3> QED
      BY <1>5, <1>6, <1>7, <3>1 DEF Written
  <2>4. \A n \in Puts : put'[n].linked => At(n, "write")' /\ put'[n].name \in DOMAIN files'
    <3>1. At(m, "write")' /\ put'[m].name \in DOMAIN files'
      BY <1>5, <1>6 DEF At, name
    <3> QED
      BY <1>5, <1>6, <1>7, <3>1 DEF Inv, FilesHoldTheirs
  <2>5. \A n \in DOMAIN files' : n.stamp \in 1..now'
    BY <1>1, <1>2, <1>5 DEF Inv, FilesHoldTheirs
  <2> QED
    BY <1>5, <2>1, <2>2, <2>3, <2>4, <2>5 DEF FilesHoldTheirs, Written
<1>10. ReadersGotOnce'
  <2>1. ASSUME NEW r \in Readers
        PROVE  /\ r \in subs' \/ Scanning(r, "count")' => reader'[r].pc \in {"waiting", "timeout"}
               /\ reader'[r].pc = "timeout" => r \in Gets
               /\ Scanning(r, "count")' => r \notin subs'
               /\ reader'[r].got.messageId.stamp <= now'
               /\ reader'[r].pc \in {"unlink", "removed"} => reader'[r].got.messageId.stamp > 0
               /\ reader'[r].got.messageId.stamp = 0 => reader'[r].got = Undefined
    BY <1>1 DEF Inv, ReadersGotOnce, Scanning
  <2>2. ASSUME NEW r \in Readers, NEW n \in Puts, reader'[r].got.message = n
        PROVE  /\ put'[n].pc \in {"deliver", "ok", "failed"}
               /\ put'[n].name = reader'[r].got.messageId
               /\ reader'[r].pc = "removed" => reader'[r].got.messageId \notin DOMAIN files'
    <3>1. /\ Written(n) /\ put[n].name = reader[r].got.messageId
          /\ reader[r].pc = "removed" => reader[r].got.messageId \notin DOMAIN files
      BY <1>1, <2>2 DEF Inv, ReadersGotOnce
    <3>2. put[n].name # name
      BY <1>3, <1>7, <3>1
    <3> QED
      BY <1>1, <1>5, <1>6, <1>7, <3>1, <3>2 DEF Written
  <2>3. \A r \in Readers : reader'[r].got.message \in Puts \cup {None}
    BY <1>1 DEF Inv, TypeOK, Reader, Message
  <2> QED
    BY <2>1, <2>2, <2>3 DEF ReadersGotOnce, Written
<1>11. RemovedByReaders'
  <2>1. \A n \in Puts : Removed(n)' = Removed(n)
    BY <1>1, <1>6 DEF Removed
  <2>2. \A n \in Puts : At(n, "write") => put[n].linked \/ Removed(n)
    BY DEF Inv, RemovedByReaders
  <2>3. \A n \in Puts : Written(n) =>
           (put[n].name \in DOMAIN files /\ files[put[n].name] = n) \/ Removed(n)
    BY DEF Inv, RemovedByReaders
  <2> QED
    BY <1>5, <1>6, <1>7, <2>1, <2>2, <2>3 DEF RemovedByReaders
<1>12. ScansAreOwn'
  BY <1>1, <1>7 DEF Inv, ScansAreOwn, Scanning
<1>13. EarlierAreOlder' /\ OldestFirst'
  <2>1. \A n \in Puts : put[n].earlier \subseteq Puts
    BY DEF Inv, TypeOK, Put
  <2>2. \A n \in Puts : \A earlier \in put[n].earlier :
           /\ At(earlier, "ok") /\ put[earlier].name # name
           /\ Made(n) => put[earlier].name.stamp < put[n].name.stamp
    BY <1>3, <1>7, <2>1 DEF Inv, EarlierAreOlder
  <2>3. \A n \in Puts : EarlierGone(n) => EarlierGone(n)'
    BY <1>5, <1>6, <2>1, <2>2 DEF EarlierGone
  <2>4. EarlierAreOlder'
    BY <1>1, <1>6, <1>7, <2>1, <2>2, <2>3 DEF Inv, EarlierAreOlder, Scanning
  <2>5. OldestFirst'
    BY <1>1, <2>3 DEF Inv, OldestFirst, EarlierGone
  <2> QED
    BY <2>4, <2>5
<1>14. TakenOnce'
  BY <1>1 DEF Inv, TakenOnce
<1> QED
  BY <1>8, <1>9, <1>10, <1>11, <1>12, <1>13, <1>14 DEF Inv

\* A put writes its message, in the queue's folder unless the file was removed.
LEMMA WriteFileInv ==
    ASSUME Inv, NEW m \in Puts, WriteFile(m)
    PROVE  Inv'
<1>1. /\ put[m].pc = "write" /\ UNCHANGED <<reader, subs, now>>
      /\ files' = IF put[m].linked THEN [files EXCEPT ![put[m].name] = m] ELSE files
      /\ \E pc \in {"deliver", "ok"} :
            /\ put' = [put EXCEPT ![m].pc = pc, ![m].linked = FALSE]
            /\ scan' = IF pc = "deliver" THEN [scan EXCEPT ![m] = ScanStep("list")] ELSE scan
  BY DEF WriteFile, SetScan, At
<1>2. /\ put' \in [Puts -> Put] /\ put'[m].pc \in {"deliver", "ok"} /\ ~put'[m].linked
      /\ \A n \in Puts : put'[n].name = put[n].name /\ put'[n].earlier = put[n].earlier
      /\ \A n \in Puts \ {m} : put'[n] = put[n]
      /\ \/ scan' = scan
         \/ put'[m].pc = "deliver" /\ scan' = [scan EXCEPT ![m] = ScanStep("list")]
  <2>1. PICK pc \in {"deliver", "ok"} :
           /\ put' = [put EXCEPT ![m].pc = pc, ![m].linked = FALSE]
           /\ scan' = IF pc = "deliver" THEN [scan EXCEPT ![m] = ScanStep("list")] ELSE scan
    BY <1>1
  <2>2. put'[m].pc = pc
    BY <2>1 DEF Inv, TypeOK, Put
  <2>3. /\ put' \in [Puts -> Put] /\ ~put'[m].linked
        /\ \A n \in Puts : put'[n].name = put[n].name /\ put'[n].earlier = put[n].earlier
        /\ \A n \in Puts \ {m} : put'[n] = put[n]
    <3>1. put \in [Puts -> Put]
      BY DEF Inv, TypeOK
    <3>2. put'[m] = [put[m] EXCEPT !.pc = pc, !.linked = FALSE]
      BY <2>1, <3>1
    <3>3. ASSUME NEW x \in Put
          PROVE  LET y == [x EXCEPT !.pc = pc, !.linked = FALSE] IN
                 y \in Put /\ ~y.linked /\ y.name = x.name /\ y.earlier = x.earlier
      BY DEF Put
    <3>4. \A n \in Puts \ {m} : put'[n] = put[n]
      BY <2>1, <3>1
    <3>5. put' = [n \in Puts |-> put'[n]]
      BY <2>1, <3>1
    <3> QED
      BY ZenonT(40), <3>1, <3>2, <3>3, <3>4, <3>5
  <2> QED
    BY <2>1, <2>2, <2>3
<1>3. \A n \in Puts :
         /\ (Written(n)' = (Written(n) \/ n = m)) /\ (Written(n) => n # m)
         /\ Made(n)' = Made(n) /\ Made(m)
         /\ At(n, "ok") => At(n, "ok")'
         /\ At(n, "write")' = (At(n, "write") /\ n # m)
         /\ n # m => At(n, "deliver")' = At(n, "deliver")
  BY <1>1, <1>2 DEF Made, Written, At
<1>4. /\ DOMAIN files' = DOMAIN files
      /\ files' = [n \in DOMAIN files' |-> files'[n]]
      /\ \A n \in DOMAIN files : files'[n] = files[n] \/ (n = put[m].name /\ files'[n] = m)
      /\ put[m].linked => put[m].name \in DOMAIN files /\ files'[put[m].name] = m
  BY <1>1 DEF Inv, FilesHoldTheirs
<1>5. \A p \in Puts \cup Readers :
         \/ scan'[p] = scan[p]
         \/ p = m /\ scan'[p] = ScanStep("list") /\ put'[m].pc = "deliver"
  BY <1>2 DEF Inv, TypeOK
<1>6. TypeOK'
  <2>1. scan' \in [Puts \cup Readers -> Scan]
    BY <1>2, Records DEF Inv, TypeOK, Scan, ScanStep
  <2> QED
    BY <1>1, <1>2, <1>4, <2>1 DEF Inv, TypeOK
<1>7. NamesDiffer' /\ FilesHoldTheirs'
  <2>1. NamesDiffer'
    BY <1>1, <1>2, <1>3 DEF Inv, NamesDiffer
  <2>2. \A n \in DOMAIN files' : files'[n] # None =>
           put'[files'[n]].pc \in {"deliver", "ok", "failed"} /\ put'[files'[n]].name = n
    <3>1. \A n \in DOMAIN files : files[n] # None =>
             files[n] \in Puts /\ Written(files[n]) /\ put[files[n]].name = n
      BY DEF Inv, FilesHoldTheirs, TypeOK
    <3> QED
      BY <1>2, <1>3, <1>4, <3>1 DEF Written
  <2>3. \A n \in Puts : put'[n].linked => At(n, "write")' /\ put'[n].name \in DOMAIN files'
    BY <1>2, <1>3, <1>4 DEF Inv, FilesHoldTheirs
  <2> QED
    BY <1>1, <1>4, <2>1, <2>2, <2>3 DEF Inv, FilesHoldTheirs, Written
<1>8. ReadersGotOnce'
  <2>1. \A r \in Readers : Scanning(r, "count")' => Scanning(r, "count")
    BY <1>5 DEF Scanning, ScanStep
  <2>2. \A r \in Readers : reader[r].got.message \in Puts \cup {None}
    BY DEF Inv, TypeOK, Reader, Message
  <2>3. \A n \in Puts : Written(n) => put'[n].pc \in {"deliver", "ok", "failed"}
    BY <1>3 DEF Written
  <2> QED
    BY <1>1, <1>2, <1>4, <2>1, <2>2, <2>3 DEF Inv, ReadersGotOnce, Written
<1>9. RemovedByReaders'
  <2>1. \A n \in Puts : Removed(n)' = Removed(n)
    BY <1>1, <1>2 DEF Removed
  <2>2. put[m].linked \/ Removed(m)
    BY <1>1 DEF Inv, RemovedByReaders, At
  <2>3. ASSUME NEW n \in Puts, n # m, Written(n)
        PROVE  (put[n].name \in DOMAIN files' /\ files'[put[n].name] = n) \/ Removed(n)
    <3>1. put[n].name # put[m].name
      BY <1>1, <2>3 DEF Inv, NamesDiffer, Made, Written
    <3> QED
      BY <1>4, <2>3, <3>1 DEF Inv, RemovedByReaders
  <2>4. \A n \in Puts : At(n, "write")' => put'[n].linked \/ Removed(n)'
    BY <1>2, <1>3, <2>1 DEF Inv, RemovedByReaders
  <2>5. \A n \in Puts : Written(n)' =>
           (put'[n].name \in DOMAIN files' /\ files'[put'[n].name] = n) \/ Removed(n)'
    BY <1>2, <1>3, <1>4, <2>1, <2>2, <2>3
  <2> QED
    BY <2>4, <2>5 DEF RemovedByReaders
<1>10. ScansAreOwn'
  <2>1. ASSUME NEW p \in Puts \cup Readers, scan'[p] = scan[p]
        PROVE  /\ scan'[p].messageId.stamp <= now'
               /\ p \in Puts => ~Scanning(p, "count")'
               /\ p \in Puts /\ (Scanning(p, "list")' \/ Scanning(p, "read")') =>
                    At(p, "deliver")'
    <3>1. At(m, "write") /\ ~At(m, "deliver")
      BY <1>1 DEF At
    <3> QED
      BY <1>1, <1>3, <2>1, <3>1 DEF Inv, ScansAreOwn, Scanning
  <2>2. ASSUME scan'[m] = ScanStep("list"), put'[m].pc = "deliver"
        PROVE  /\ scan'[m].messageId.stamp <= now' /\ ~Scanning(m, "count")'
               /\ At(m, "deliver")'
    BY <1>1, <2>2, Records DEF Inv, TypeOK, ScanStep, Scanning, At
  <2> QED
    BY <1>5, <2>1, <2>2 DEF ScansAreOwn
<1>11. EarlierAreOlder' /\ OldestFirst'
  <2>1. \A n \in Puts : put[n].earlier \subseteq Puts
    BY DEF Inv, TypeOK, Put
  <2>2. \A n \in Puts : EarlierGone(n)' = EarlierGone(n)
    BY <1>2, <1>4, <2>1 DEF EarlierGone
  <2>3. \A p \in Puts \cup Readers : Scanning(p, "read")' =>
           Scanning(p, "read") /\ scan'[p].messageId = scan[p].messageId
    BY <1>5 DEF Scanning, ScanStep
  <2>4. EarlierAreOlder'
    BY <1>2, <1>3, <2>1, <2>2, <2>3 DEF Inv, EarlierAreOlder
  <2>5. OldestFirst'
    BY <1>1, <2>2 DEF Inv, OldestFirst, EarlierGone
  <2> QED
    BY <2>4, <2>5
<1>12. TakenOnce'
  BY <1>1 DEF Inv, TakenOnce
<1> QED
  BY <1>6, <1>7, <1>8, <1>9, <1>10, <1>11, <1>12 DEF Inv

-----------------------------------------------------------------------------
\* As long as no two messages are put in one millisecond, names, files and readers of a
\* queue stay consistent whatever puts, takes, gets and timeouts interleave.
THEOREM InductiveInvariant == CarefulSpec => []Inv
<1>1. Inv /\ [CarefulNext]_vars => Inv'
  <2> SUFFICES ASSUME Inv, [CarefulNext]_vars PROVE Inv'
    OBVIOUS
  <2>1. CASE UNCHANGED vars
    BY <2>1 DEF vars, Inv, TypeOK, NamesDiffer, FilesHoldTheirs, ReadersGotOnce, Removed,
       RemovedByReaders, ScansAreOwn, EarlierAreOlder, EarlierGone, TakenOnce, OldestFirst,
       Made, Written, At, Scanning
  <2>2. CASE Reading
    BY <2>2, ReadMessageInv, LoadQueueInv, GetMessageInv, DeleteMessageInv, ReaderInv
    DEF Reading
  <2>3. CASE CarefulNext /\ ~Reading
    BY <2>3, CheckQueueLoadInv, ConstructFileNameInv, OpenFileInv, WriteFileInv
    DEF CarefulNext
  <2> QED
    BY <2>1, <2>2, <2>3
<1> QED
  BY InitInv, <1>1, PTL DEF CarefulSpec

\* One reader at most removes a message that it got: deleteMessage fails for all others
\* that it was delivered to.
THEOREM MessagesAreTakenOnce == CarefulSpec => []TakenOnce
<1>1. Inv => TakenOnce
  BY DEF Inv
<1> QED
  BY InductiveInvariant, <1>1, PTL

\* What a put was answered 200 for leaves the queue by deleteMessage of a reader whose
\* callback _readMessage called with its file, and by no other: mostly with the message,
\* but a reader that had read the file while it was empty loses it.  A name that is used
\* again in its millisecond is the other way to lose a message, which CarefulSpec leaves
\* out.
THEOREM OnlyItsReadersRemoveIt == CarefulSpec => []NothingIsLost
<1>1. Inv => NothingIsLost
  BY DEF Inv, RemovedByReaders, NothingIsLost, Removed, Written, At
<1> QED
  BY InductiveInvariant, <1>1, PTL

\* A message is not handed out while one is in the queue that was answered before it came.
THEOREM QueueIsFair == CarefulSpec => []OldestFirst
<1>1. Inv => OldestFirst
  BY DEF Inv
<1> QED
  BY InductiveInvariant, <1>1, PTL
=============================================================================
