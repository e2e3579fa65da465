# OpenDSU SDK: a verification project

TLA+ models of the parts of this repository where several actors change shared
state between asynchronous steps, checked with TLC on small instances, and
theorems about all eight models checked with TLAPS for every instance.

- [The system](#the-system): components, state, operations, interactions
- [What is hard](#what-is-hard)
- [Modules](#modules): which module models which code, and how
- [Runs](#runs): what is checked, with which bounds and fairness
- [Where the code and its words differ](#where-the-code-and-its-words-differ)
- [Proofs](#proofs)
- [What is not modelled](#what-is-not-modelled)
- [Plan](#plan)

`PROJECT.json` has the same information for tools: the line range every
definition translates, the runs, one mutant per property (a plausible bug in one
definition that makes the property fail), the hazards and the theorems.

Run a model with `tlc -config MCAnchoringFS_safety.cfg MCAnchoringFS.tla`, a proof
with `tlapm AnchoringFS_proof.tla`. A module's proofs are in `<module>_proof.tla`, its
instances for TLC in `MC<module>.tla`.

## The system

A DSU (data sharing unit) is a small versioned file system. Its files are cut into
*bricks* stored by content hash; a *brick map* says which file consists of which
bricks and is itself a brick; the DSU's *anchor* is the append-only list of the
hash links of its brick maps, each signed over the one before. The API hub stores
bricks and anchors; clients (browsers, services) hold DSUs open and write them.

| Component | Code (under `src/modules`) | State | Operations | Talks to |
|---|---|---|---|---|
| FS anchoring | `apihub/components/anchoring`, `opendsu/anchoring/anchoringAbstractBehaviour.js` | anchor file, `.lock` directory | createAnchor, appendAnchor, getAllVersions, getLastVersion | clients over HTTP; the disk |
| OBA / Ethereum synchronisation | `apihub/components/anchoring/strategies/oba` | retry table, schedule | scheduleAnchors, retry, sync | FS anchoring, a blockchain adapter |
| Brick maps | `bar/lib/BrickMap*.js`, `BrickMapStrategy/` | dirty and anchored brick map, new / inAnchoring diffs, current hash link, `anchoringInProgress` | addFile, appendToFile, deleteFile, renameFile, anchorChanges, mergeUpstreamChanges | bricking, anchoring |
| Archive (bar) | `bar/lib/Archive.js` | batch flag, manifest, queue behind refresh | reads, writes, beginBatch, commitBatch, cancelBatch, refresh | BrickMapController, brick storage service |
| DSU instances | `key-ssi-resolver/lib/dsu/LegacyDSU.js`, `utils/RaceConditionPreventer.js` | current bar, batches in progress, registry of instances, locks and continuations per anchor | safeBeginBatch, beginBatch, commitBatch, cancelBatch, refresh | the other instances of the same DSU in the process |
| Versionless DSU | `key-ssi-resolver/lib/dsu/VersionlessDSU.js` | one JSON file | read, overwrite | hub controller |
| Brick storage | `bar/lib/BrickStorageService` | none | split, encrypt, put, get | bricking |
| Bricking | `apihub/components/bricking` | bricks by hash | putBrick, getBrick | disk |
| Message queues | `apihub/components/mqHub` | queue directory, subscribers | put, get, take, delete | waiting HTTP responses |
| Notifications | `apihub/http-wrapper/src/Notifications.js`, `apihub/components/keySsiNotifications` | waiting requests and undelivered messages | subscribe, publish | waiting HTTP responses |
| Lock service | `apihub/middlewares/SimpleLock`, `opendsu/lock` | one folder with a lock file per id | /lock, /unlock | the M2DSU engine |
| M2DSU engine | `opendsu/m2dsu` | `inProgress`, batches of touched DSUs | digestMessages | lock service, DSU instances |
| Messages pipe | `opendsu/m2dsu/messagesPipe` | a queue, an interval | addInQueue | a grouping function, a callback that digests a group |
| Secrets | `apihub/components/secrets` | encrypted containers, in-process lock | put, get, delete secret | disk / CouchDB |
| Worker pools | `syndicate` | workers, their number, task queue | addTask | workers (threads) |
| soundpubsub | `soundpubsub/lib/soundPubSub.js` | channels, delayed messages | publish, subscribe | callbacks |
| Enclaves, databases | `opendsu/enclave`, `loki-enclave-facade`, `lightDB-sql-adapter` | tables of records | insert, update, query | database drivers |
| Key SSIs, crypto, DIDs, credentials | `key-ssi-resolver`, `pskcrypto`, `opendsu/w3cdid`, ... | none of interest | pure functions | |
| Server, static files, middleware | `apihub/index.js`, ... | routing | | |

How they interact in what is modelled:

```
   callers --addInQueue--> MessagesPipe --a group--> digestMessages
                                                          |
                                                    MappingEngine --/lock, /unlock--> SimpleLock (Lease)
                                                          |
                                                    storage service
                                                          |
   tasks --safeBeginBatch/commitBatch--------------> LegacyDSU --(current bar)--> Archive
                                                          |                          |
                                            RaceConditionPreventer              doAnchoring
                                            (lock, continuations)                    |
                                                                           BrickMapController
                                                                                     |
                                                                     createAnchor / appendAnchor
                                                                                     | HTTP
                                                            anchoringAbstractBehaviour + FSLock
                                                                                     |
                                                               anchor file, <anchor>.lock (AnchorLog)

   clients --put, get, take, delete--> MessageQueue         callers --addTask--> WorkerPool
```

`AnchoringFS` is the bottom layer and `AnchorLog` what it promises.
`BrickMapController` uses that promise: its hub is an atomic log that takes a
version signed over its last one and answers 428 to any other append.
`LegacyDSU` abstracts a commit to one step that anchors what the bar holds or fails.
`MappingEngine` stands on two of them: the lock service answers as `Lease` promises,
in one step, and a storage service is what its engine sees of a `LegacyDSU`, one record:
who has a batch open, whether its bar is in one, whose edits wait or are being
committed, who listens. `MessagesPipe` stands in front of the engine and takes a call of
it for a callback that ends or fails. `MessageQueue` and `WorkerPool` stand beside
them: they share only the process and the disk with the rest.

## What is hard

Nothing here shares memory between threads; what races are the steps between two
asynchronous calls. `PROJECT.json` lists the hazards by line. In short:

- *anchoring*: every request builds its own strategy object (`strategies/fs/index.js`)
  and therefore its own lock object: only the disk is shared. The lock is a directory
  whose birth time identifies the holder; a waiter removes an expired one after a
  delay; creation takes no lock at all; a process can die at any file operation;
  removing the lock can fail after the line is written;
- *brick maps*: writes go on while a process saves, asks for the last version and
  appends; every one of these calls can fail, also after it took effect; another
  client's version turns an append into a conflict, which may be merged, refused, or
  meet the next conflict;
- *DSU instances*: whether a batch may begin is looked up before an asynchronous
  refresh; a refresh replaces the object that holds the batch; a commit wakes one
  instance's waiters and relies on them to wake the others;
- *message queues*: a message is a file that is made, opened and written in three steps
  while others list, read and remove files; whether anyone is told of it depends on a
  count made before it was stored; one message is given to all that wait;
- *lock service*: a lock is a file that is read, cleaned away, made again, opened and
  written in separate steps, and a release reads it, compares and then unlinks whatever
  is there; a period ends and nobody tells the holder;
- *M2DSU engine*: a flag in the engine, a lock at the hub and a batch of the storage
  service are taken one after the other and given back in another order; the lock is
  released by a listener that a timer calls at anybody's commit; what throws in the
  executor of the promise never settles it;
- *messages pipe*: a check reads the queue, waits for the grouping function, looks at
  the queue again and waits for the callback, and other checks run meanwhile;
- *worker pools*: creating a worker is asynchronous and counted before it is there;
  a worker that is free is announced by an event in a later callback, while new tasks
  look for one themselves; some exits are heard by nobody.

What makes them correct: the history of an anchor always verifies and only grows, and
a client is told the truth about it; no write is dropped, a client reads its own
writes and nobody's file is silently lost; at most one instance is in a real batch, a
batch that was committed is anchored, and whoever waits is let in; an acknowledged
message is removed once, by somebody it was given to, and the oldest goes first; who
was told that it has the lock has it until it gives it back or its period ends; nobody
edits a storage service over edits that are not anchored; messages are handed over once
and in order; a task that was added is run, and run once.

## Modules

### AnchorLog

The abstract anchor: a sequence of versions, each signed over the one before; a step
appends one whose timestamp does not go back. No locks, no requests, no files. The
promise can be broken, once and for ever (`broken`): a module that implements it says
which of its steps do that, and the log is bound up to there.

### AnchoringFS

The FS strategy for one anchor. A request is a process, a step what runs between two
file operations, so every interleaving Node can produce is a behaviour.

| State | Code |
|---|---|
| `pc[r]` | the callback the request waits for |
| `req[r]` | its signed hash link: what it creates or appends, `base`, the hash link its signature covers, and `stamp` |
| `lock`, `expired` | `<anchor>.lock`: which request's `mkdir` made it; older than `maxTimeMilliSeconds` |
| `created[r]` | `FSLock.lockCreationTime`; a birth time is named by the request that made the directory, and a missing directory has birth time 0 (`None`) |
| `exists`, `file` | the anchor file and its lines |
| `reply[r]` | the HTTP status sent |

Actions follow the handlers: `Arrive` (a client signs over a version it can have
read), `Mkdir`, `LockIsExpired`, `ReleaseExpiredLock`, `OwnStat` (acquireLock and the
forced removal after `forcedLockDelay`), `VerifySignature` (getAllVersions, the
timestamp and signature checks in their order), `CheckLock`, `FileExist`,
`AppendAnchor`, `ReleaseLock`, `RemoveLock` (appendAnchor and the release), and
`CreateStat`, `Truncate`, `Write` (createAnchor; `fs.writeFile` truncates and writes in
two steps). `LockAges` is time, `Crash` the death of the process. `AnswerLockBusy`
keeps what the handler does with `{code: 428}`: it looks for 428 in `statusCode` only
and answers 500.

`stolen` and `overwritten` are ghosts: a request still at work lost its directory, a
creation truncated an existing anchor. Both happen in the code (see below); the
properties say what holds until then, and what holds even after. `PromptSpec` is
`Spec` without slow holders: a lock expires only once its request has let go of it or
left it behind.

### BrickMapController

Several clients of one DSU, each with a `BrickMapController`, its `State` and the
`LatestVersionStrategy`. A brick map maps files to nodes (there, marked deleted,
bricks); a brick is the number of the write that made it; a diff is its log of
operations, including the `truncate` logged before an `add` to a file with bricks.

| State | Code |
|---|---|
| `dirty`, `anchored`, `cur` | `State`'s brick maps and `currentAnchoredHashLink` |
| `new`, `inAnch`, `merged` | `diffs.new`, `diffs.inAnchoring`, the diffs the process has taken |
| `flight`, `saved` | the brick map being anchored, and as `saveBrickMap` serialised it |
| `alias` | which other brick map `dirty` is the same object as |
| `pc` | `anchoringInProgress` and the call it waits for; `abandoned`: the listener was called and the process never ended |
| `history` | the anchored versions |

`AddFile`, `AppendToFile` and `DeleteFile` are those calls with their proxy handlers and
the strategy's choice to anchor at once; `AnchorChanges` is a commit or the delayed timer;
`Compact`, `SaveBrickMap`, `GetLastVersion`, `StoreAnchor`, `AfterBrickMapAnchoring`,
`HandleAnchoringConflict` (with `Reconciled`, what a merge leaves behind) are one
anchoring process with every error path; `Reopen` is a client that starts afresh (crash,
cancelBatch, refresh). `Merge`, `Diff`, `Conflicts`, `Apply`, `Replay` are BrickMap's
functions on nodes.

Replaying a diff may throw (`Throws`, `ReplayThrows`): emptyList on a path that is not
there, appendBrick on a brick the file has already. The second is what happens after a
merge. reconcile makes one object the dirty brick map and the one that becomes the
anchored one, so a later append is in the anchored map when its diff is replayed on a
clone of that. compactDiffs then gives its listener the error and anchoringInProgress
stays set; the diff was shifted off inAnchoring, and what was behind it is not read
again, so the model empties it (`Abandoned`). In reconcile the catch block calls
`rollback(undefined)`, a TypeError of its own, and nobody ends the process either. Every
write is taken to have content of its own, as the number that names its brick says.

Ghosts: who made a version, from which base, by which operations, whether it was merged,
what was last put in a file (`mine`), and what became of merges.

### LegacyDSU

Several instances of one DSU in a process, and tasks that batch on them.

| State | Code |
|---|---|
| `bars[i]` | the bars the instance has had; commitBatch and cancelBatch keep working on the one they were called on |
| `inProgress[i]` | `inProgressBatches`, with a task standing for its batch id |
| `lock` | RaceConditionPreventer's `locks[anchorId]`, and whose it is |
| `continuations[i]`, `order` | `continuations[anchorId]`: one list per instance, in the order in which the instances came |
| `loading` | refreshes begun by notifyBatchCommitted that have not answered |

Actions: `SafeBeginBatch`, `Refreshed`, `BeginBatchAsync` (opening), `Write`,
`CommitBatch`, `DoAnchoring`, `BatchCommitted`, `CancelBatch`, `BatchCancelled`,
`NotifiedInstance` (closing). `UnlockAnchorId` runs the continuations of the instance
that waited first, last one first, as the code's `pop` loop does, and tells all but
that one to start virtual batches. `careless` is a ghost: a batch was cancelled, asked to
wait, or was opened while another one was opening or closing.

### MessageQueue

One queue of mqHub with the local adapter. A put stands for its message.

| State | Code |
|---|---|
| `put[m]` | the callback the put waits for, or its answer; `wasEmpty` is `capacity > 0` negated; `name` the file it made |
| `reader[r]` | what the response of a get or take has come to, and the message its callback was called with |
| `scan[p]` | the readdir or readFile it waits for; a put that found the queue empty reads it as well |
| `subs` | `subscribers[queueName]` |
| `files` | the folder: a name is a millisecond and the number after the delimiter; a file holds a message or nothing yet |

`CheckQueueLoad`, `ConstructFileName`, `OpenFile`, `WriteFile` are putMessage and
storeMessage; `ReadMessage`, `LoadQueue`, `GetMessage` are readMessage and _readMessage
for gets, takes and puts alike; `DeleteMessage` is the unlink of a take and of a client
that has got a message (`AskToDelete`); `Timeout` is connectionTimeout. Reading a file
is one step, which gives no outcome that the steps of Node would not, and the clock
does not go back.

### Lease and SimpleLock

`Lease` is what a lock is for its users: given to nobody but when it is free (`Grant`),
taken from its holder only by its own release (`Release`) or when somebody asks after
its period (`Lapse`). `SimpleLock` is the service, for one id. A secret stands for the
client that made it up.

| State | Code |
|---|---|
| `folder`, `file` | the folder of the lock and the file in it: the secret it names, `Nobody` while it is empty, `None` |
| `call[s]` | the file operation the request waits for |
| `fd[s]` | the file it has open is the lock file still (somebody may have removed it) |
| `over` | secrets whose `expire` has passed |
| `answer[s]`, `holds` | the status sent; who was told 200 and has not unlocked |

`Lock`, `CheckIfLockExists`, `CleanLockFiles`, `RemoveFolder`, `MakeFolder`, `OpenFile`,
`WriteFile` are /lock up to the answer (`fs.rm` removes the file and then its folder,
`fs.writeFile` opens and then writes); `Unlock`, `RemoveLock`, `UnlinkFile` are /unlock;
`Expire` is time. `raced` is a ghost: a request passed its check while another, past
its own, was at work on the files.

### MappingEngine

Several calls of digestMessages, on engines whose storage services are instances of one
DSU, and somebody else (`Other`) who batches on some of them.

| State | Code |
|---|---|
| `step[c]`, `attempts[c]` | what the call awaits; the attempts acquireLock has left |
| `inProgress[e]` | the engine's flag |
| `storage[e]` | its storage service: batches in progress, whether the bar is in one, whose commit is under way, edits that wait and those in that commit, the timer of notifyOnCommitBatch and the listeners |
| `holder`, `over`, `releasing` | the lock at the hub, as `Lease` has it, and unlock requests on their way |

`DigestMessages`, `LockAnswered`, `Slept` (acquireLock, with the user's consent in a
browser), `Opened` (safeBeginBatch), `Mapped` (the mappings; finish or rollback),
`Committed` (with `Rollback` when the commit failed), `NotifyOnCommitBatch`,
`ReleaseLock`, `Expire`, and `OtherBegins`, `OtherCommits`. rollback calls cancelBatch
without a batch: that forgets the only batch in progress, whose it may be, or does
nothing when there are none or several. It undoes no edits, for after a failed commit
the bar is in no batch and its cancelBatch answers an error, which rollback logs: the
edits stay in the bar until the next refresh installs a new one (`Begun`). A batch begun
between a failed commit and its rollback is left out: the two are one step. `crowded` is
a ghost: a call came to its batch while `Other` opened one, or closed one and its
listeners were still to be called. Then a refresh may end beside a batch that began
meanwhile; the code installs the new bar and begins a second real batch on it, and
`Opened` and `OtherBegins` do the same.

### MessagesPipe

| State | Code |
|---|---|
| `queue` | `this.queue` |
| `check[c]`, `group[c]` | a call of checkPipeMessages, of addInQueue or of a tick of the interval: what it awaits, and the group it found |
| `pipeIsWaiting` | the flag and the interval |
| `added`, `given` | all messages queued and handed over so far |

`AddInQueue`, `Tick` (the interval), `TakeGroup` and `LeaveGroup` (what follows the
grouping function), `Delivered` and `CallbackFails` (what follows the callback), and
`GroupingFails`: a grouping function that fails ends its check without
startWaitingMessages, which strands messages when a callback has failed before. The
grouping function finds any number of messages at the front. `crossed` is a ghost: a
group was taken while another check had read the queue.

### WorkerPool

addTask over AbstractPool, with the threads of Pool-Threads.

| State | Code |
|---|---|
| `pool`, `working`, `undefd` | the workers, those marked `isWorking`, those whose `workerInstance` is undefined |
| `size`, `creating` | `currentPoolSize`; threads that are being made |
| `released` | RELEASED_WORKER events in `setImmediate` |
| `taskQueue`, `running[w]` | the queue; the task whose listeners a worker has |
| `dead` | workers in the pool whose thread ended while nobody listened |

`AddTask`, `Emit` (the event of a new worker), `Ready`, `ExitsEarly`, `CreationFails`
(createNewWorker), `ReturnWorker` (a result, with the event and the next task in the
same callback), `RemoveWorker` (an error or an exit), `QuietExit` (an exit of a resting
worker). `forgot` is a ghost: a worker was removed while another was being created,
which makes the pool forget that one in its count.

## Runs

Every listed run ends in a few seconds to about two minutes with two workers.

| Run | Bounds | Shows |
|---|---|---|
| fs_safety | 3 requests, 2 timestamps, 1 crash, fair | `Inv` (the inductive invariant, with the types), exclusion, readable history, ordered timestamps, truthful answers, no version ever dropped; the file refines `AnchorLog`; every request that arrives is answered or dies |
| fs_forced | 4 requests, none slow, no crash | violation: a refused request leaves its lock directory; two waiters see it expired, the second removes the live lock that the first has made since, and both append: a history that does not verify |
| bmc_faults | 2 clients, 2 files, 2 writes, 2 failing calls, 1 restart | `Inv`: rollback leaves exactly the unanchored writes pending, and a process replays what it took; a client reads its writes; none is dropped until a process is abandoned or a merge lost |
| bmc_careful | 2 clients that load the DSU again after a conflict, 2 files, 3 adds or deletes, 1 lost answer, 1 restart | no anchored file vanishes, no concurrent change is silently overwritten by an add, truncate or delete |
| bmc_abandoned | 1 write, 1 failing getLastVersion | violation: the diffs are lost and the process never ends |
| dsu_safety | 3 tasks, 2 instances, 2 failing calls | `Inv`: whoever closes a batch holds the anchor's lock until it answers, until a second call fails; careful callers have one real batch at a time, and what they committed is anchored |
| dsu_liveness | 3 tasks, 2 instances, no failure | whoever waits is let in |
| mq_safety | 3 puts, 1 take, 1 get, limit 1 | a message that was read is removed once, a message leaves the queue only by a reader that was called with its file (which may have been empty still), and the oldest goes first |
| lock_safety | 3 clients, 2 requests each | holders have the lock, nobody fails who does not race, no lock is left without an owner; the service refines `Lease`; every request is answered |
| engine_safety | 3 calls, 2 engines, another user, 1 failure and its rollback, expiry | calls edit under the lock; what was answered as digested is anchored or on its way; accepted calls end |
| pipe_safety | 2 calls of 2 messages, groups of 3, 2 failing callbacks or grouping functions | messages are handed over once and in order; only such a failure leaves them to nobody; they arrive |
| pool_safety | 4 tasks, 2 workers at most, 2 failures | no task is lost or run twice, no worker rests beside a queue, workers are counted; tasks are answered |

*Why the bounds are enough.* Stealing a live lock takes a creation for there to be an
anchor, a refused append that leaves its directory, and two waiters that see it expired:
four requests, which fs_forced has. (A holder that is slow needs one waiter less;
`PromptSpec` leaves it out, to show that it takes none.) What holds until then needs two
requests that compete and one that crashes. The theorems below lift the
safety results to any number. A brick-map race needs one client's process and one
version of another; a write after a merge needs two, for a client whose answer was lost
merges with what it put itself; a merge followed by a second conflict needs three; two
files are what it takes for a change to concern another file than the merge. In
LegacyDSU a virtual batch, the real one it follows and a batch of the other instance
are three tasks on two instances; a second failing call is what `LockIsHeld` needs to be
more than the absence of failures. In MessageQueue it takes three messages for a put to
be refused at limit 1 while others are stored, and two readers to compete for one: a get
whose client deletes what it got is the other taker. In SimpleLock three clients are a
holder whose period is over and two that find it so, and a second request of one of
them follows its own release. Two calls of one engine meet at its flag, a third of
another engine at the lock, and one engine shares its storage service. Four messages
fill a group of three and leave one, and it takes a callback and a grouping function that
fail to strand them; four tasks on two workers are two that run, one
that queues and one that comes later. `MaxWrites`, `MaxFaults`, `MaxReopens`,
`MaxCrashes`, `MaxAsks` and `MaxAttempts` cap counters that the code does not have, or,
for the attempts, has larger.

*What the guarantees are conditional on.* Some hold only as long as a race that the code
does not exclude has not happened. A ghost variable records that it has: `stolen` and
`overwritten` (AnchoringFS), `merges` and `abandoned` (BrickMapController), `careless`
(LegacyDSU), `raced` (SimpleLock), `crowded` (MappingEngine), `crossed` (MessagesPipe),
`forgot` (WorkerPool), and where a property promises nothing after a failure it reads
`faults`. The runs go through these races all the same: such a property says what holds
up to the race, and others what holds even after. That each race does happen, and breaks
the promise, is shown by a configuration of the next section. Two modules have a
`CarefulSpec` instead: in BrickMapController, a client that was told of a conflict loads
the DSU again before it anchors; in MessageQueue, no two messages are put in the same
millisecond.

*Deadlock* is not checked in any run: requests, writes, batches and tasks are bounded,
so the models come to an end. Whether somebody waits for ever is what the liveness
properties ask.

*Fairness.* Node runs the callback of a file operation or of a request that has ended,
so each request's step in AnchoringFS and SimpleLock, each anchoring process, each DSU
callback, each event and result of the pool, each answer of the pipe's functions and the
tick of its interval is weakly fair. In MappingEngine `Opened` is strongly fair: a call
that finds the storage service closing is a continuation in its registry, which the
release runs whatever comes later. Nothing is assumed of clients that might send or
write, of time (a lock may never expire) and of crashes and faults. dsu_liveness and
engine_safety also assume that who opened a batch commits or cancels it, and pool_safety
that a thread which is made and given a task answers or fails.
`MCBrickMapController_liveness.cfg`, kept beside the runs, checks that an
anchoring process ends; it leaves out the failing getLastVersion, for which the process
does hang (bmc_abandoned), and appends, whose replay after a merge throws. dsu_liveness fixes the instances of two of the three tasks,
which reduces by symmetry in a way that is sound for liveness; no run uses TLC's
symmetry together with a liveness property.

## Where the code and its words differ

Two of these are listed as findings, each with a run that must violate its property.
The others were met while modelling; each has a configuration that TLC refutes, kept
beside the runs (where one checks several properties, run TLC with `-continue`).

| Configuration, property | What the words say, or what a caller relies on | What the code does |
|---|---|---|
| `MCAnchoringFS_forced`, LockedByAnotherProcess | "File ... is locked by another process." (`filePersistence.js:91`) | releaseExpiredLock decides on one directory and removes whatever is there after its delay, also one that a live request has made since (`FSLock.js:56-76`) |
| `MCAnchoringFS_overwrite`, CreateNeverOverwrites | "if anchor exist, return error" (`filePersistence.js:77`) | stat, then writeFile, without a lock |
| `MCAnchoringFS_busy`, LockBusyIsOutOfSync | `{code: 428, message: "Versions out of sync"}` (`filePersistence.js:18`) | getWritingHandler reads `statusCode` and answers 500 (`controllers/index.js:57`) |
| `MCBrickMapController_abandoned`, ErrorsKeepChangesPending | "In case of any errors, the compacted BrickMapDiff objects are put back" (`BrickMapController.js:1061`) | when getLastVersion fails the listener is called without rollback and endAnchoring (1113-1127) |
| `MCBrickMapController_asked`, AskedIsServed | "Another anchoring was requested ... we start the process again" (1086) | only the diffs in inAnchoring are looked at, and the new ones are not there |
| `MCBrickMapController_twice`, TheirsHasOurChanges | "Their BrickMap now has our changes and becomes ours" (`LatestVersionStrategy.js:324`) | the second conflict finds no diffs to merge |
| `MCBrickMapController_conflicts`, MergeKeepsNewChanges | "in order to get the new changes and then try to merge our BrickMapDiff instances" (`BrickMapController.js:1180`) | whole brick maps are merged: files only others changed are taken back |
| `MCBrickMapController_conflicts`, ConflictIsResolvedFirst | "the conflict must be first resolved" (1067) | their hash link is stored before the conflict is reported (1192), so a retry is anchored over it |
| `MCBrickMapController_appended`, LocalOverwriteIsReported | "LOCAL_OVERWRITE - Our changes will overwrite a newly anchored file" (`LatestVersionStrategy.js:284`) | appends are not looked at (`BrickMap.js:347`), and the merge replaces the list of bricks |
| `MCBrickMapController_appended`, WritesGoToACopy | "BrickMap write operations are proxied to a copy of a valid BrickMap and to a BrickMapDiff used later for anchoring" (`BrickMapController.js:195`) | after a merge the copy and the anchored brick map are one object |
| `MCBrickMapController_appended`, AnyDiffsCanBeMerged | "compact/merge any BrickMapDiff objects into a single BrickMap instance" (1036) | an append after a merge is replayed over itself, and appendBrick throws "Trying to add the same brick" (`BrickMapMixin.js:83-91`): its diff is lost and the process never ends |
| `MCLegacyDSU_raced`, OneInBatchMode | "Another DSU instance is already in batch mode. Please wait for it to finish." (`LegacyDSU.js:527`) | the check is made before a refresh and not again |
| `MCLegacyDSU_raced`, NoRefreshInBatch | "DSU is in batch mode. Refresh was not possible" (812) | the loaded bar is installed whatever began meanwhile (833) |
| `MCLegacyDSU_raced`, NoBatchWhileLocked | beginBatch throws "AnchorId is locked" (595, 609) | safeBeginBatch attaches to a batch that is being committed (500) |
| `MCLegacyDSU_unlocked`, LockIsAlwaysHeld | unlockAnchorId throws "wasn't locked" (`RaceConditionPreventer.js:158`) | every failing refresh calls the callback that unlocks (112), so a second failure unlocks somebody else's lock |
| `MCLegacyDSU_forgotten`, Woken | "Please wait for it to finish." (`LegacyDSU.js:527`) | when the continuation that was woken fails, nobody wakes the others |
| `MCMessageQueue_vain`, NobodyWaitsInVain | "we should try to deliver the message to a potential subscriber that waits" (`MQAdapterMixin.js:103`) | only when the queue was empty when it was counted: the message that was there may have been taken meanwhile |
| `MCMessageQueue_vain`, NoneIsTakenEmpty | an answered message is delivered | a reader that has read the file while it was empty removes it after it was written (`localMQAdapter.js:83`) |
| `MCMessageQueue_reused`, TakenOnce | messages are named by the time of their put (`localMQAdapter.js:102`) | a name that was freed is used again in the same millisecond, and a late take removes the other message |
| `MCSimpleLock_race`, HoldersExclude | /lock answers 409 as long as the lock is held | two requests that both find an expired or missing file both make it and are both told 200 (`SimpleLock/index.js:114`) |
| `MCMappingEngine_refused`, EveryCallIsAnswered | "Mapping Engine is digesting messages for the moment" (`errorsMap.js:58`) | the error is thrown where nothing rejects the promise, and the caller waits for ever (`m2dsu/index.js:217`) |
| `MCMappingEngine_cancelled`, OthersKeepTheirBatch | a batch that was joined with safeBeginBatch stays until its owner closes it | rollback calls cancelBatch without one, and the only batch there is is forgotten, though it is somebody else's (`m2dsu/index.js:192`) |
| `MCMessagesPipe_crossed`, NoneLostOrDoubled | messages are queued and handed over in groups | the queue is spliced by the length of a group found before an await: others' messages are dropped and one group is given twice (`messagesPipe/index.js:46`) |
| `MCMessagesPipe_failed`, FailuresDelay | the interval flushes what waits too long | it is stopped before the callback and started after it: a callback that fails leaves it stopped until the next call, and so does that one's grouping function if it fails |
| `MCWorkerPool_never`, EventsRunATask | "This should never happen and it's most likely a bug" (`WorkerPool.js:67`) | a new task takes the worker that was announced before its event is handled |
| `MCWorkerPool_overflow`, AtMostMaximum | the maximum "of the number of workers allowed to be created" | removing a worker counts the pool anew, without those being created (`AbstractPool.js:60`) |
| `MCWorkerPool_starved`, OthersAreAnswered | tasks are queued until a worker is free | a worker that fails is removed without an event, and nothing looks at the queue (`WorkerPool.js:79`) |

## Proofs

All eight models have theorems, for any values of their constants. The assumptions are
named in the modules and say no more than that null values are no requests, numbers are
naturals and, for WorkerPool, that names for workers are finitely many; TLC evaluates
them on every run. Each proof module proves that `Inv` holds initially and is kept by
every action, as `InductiveInvariant`, and derives the others from it. In
BrickMapController the inductive invariants are `AllInv` and `CarefulInv` of its proof
module, which imply `Inv` and the other properties.

| Module | Theorem | Statement |
|---|---|---|
| AnchoringFS | LockIsExclusive, HistoryIsReadable, HistoryIsOrdered | `Spec => []MutualExclusion`, `[]HistoryStaysReadable`, `[]StampsInOrder` |
| | AcknowledgementIsTrue, RefusalIsTrue | `Spec => []AcknowledgedIsStored`, `[]RefusedLeavesNoTrace` |
| | VersionsStay | `Spec => HistoryOnlyGrows`, a property of steps |
| | FileImplementsLog | `Spec => ImplementsAnchorLog` |
| BrickMapController | InductiveInvariant, OwnWritesAreRead, WritesAreNotForgotten | `Spec => []Inv`, `[]ReadYourWrites`, `[]NoWriteForgotten` |
| | AnchoredFilesStay, ChangesAreReported | `CarefulSpec => []FilesNeverVanish`, `[]ConcurrentChangeIsReported` |
| LegacyDSU | OneInstanceBatches, WritesStay | `Spec => []OneRealBatch`, `[]WritesAreKept` |
| MessageQueue | MessagesAreTakenOnce, OnlyItsReadersRemoveIt, QueueIsFair | `CarefulSpec => []TakenOnce`, `[]NothingIsLost`, `[]OldestFirst` |
| SimpleLock | TheLockIsHeld, AloneNoneFails, EveryLockHasAnOwner | `Spec => []HoldersHaveTheLock`, `[]NoneFailsAlone`, `[]OnlyWhoAskedHasIt` |
| | ServiceIsALease | `Spec => ImplementsLease` |
| MappingEngine | LockCoversTheEdits, ResolvedEditsAreKept | `Spec => []EditorsHoldTheLock`, `[]ResolvedIsKept` |
| MessagesPipe | MessagesKeepTheirOrder, PipeGoesOn | `Spec => []PipeIsAQueue`, `Spec => OnlyFailuresStopIt` |
| WorkerPool | NoTaskIsLost, WorkersWork, PoolIsBounded | `Spec => []TasksAreKept`, `[]NoWorkerRestsBesideAQueue`, `[]CountIsRight` |

None of these properties is inductive alone. What each `Inv` adds:

*AnchoringFS.* `LockInv`: unless a lock was stolen, a request at work owns the directory
and has kept its birth time. `LineInv`: who has a line in the file, no line twice, and who
was told so. `CreateInv`: creations that have not collided find the file as they left it.
`ChainInv`: what a request verified (the last line is its base, its timestamp is not
older) still holds up to its append; hence the chain and the order of timestamps.
`LockInv` makes `ChainInv` inductive: nobody else can append between the check and the
append. The refinement maps the file to the sequence of its lines with the facts their
signatures cover; only `AppendAnchor` and `Write` change it, and until the promise is
broken each is one `Anchor` step (lemmas FileStep, LogOfFile, AppendIsAnchor, StepOfLog).

*BrickMapController.* `IndInv` says of each client apart: what it knows at its steps
(`InOrder`), that the diffs it owes, replayed on its anchored brick map, give its dirty
one (`Explained`), that what is under way is the diffs the process took, replayed
(`Replayed`), that whichever way the process ends a replay of what is pending restores
the brick last put in a file (`Kept`), and that maps are ones that can be reached
(`SoundClient`). `Kept` is what makes `ReadYourWrites` inductive: a rollback, a merge and
a refusal each turn one of its two replays into the other. A step changes one client,
so the proof has one lemma per action about a client and one that lifts them to all.
`AllInv` adds what the code promises of replays that may throw, in `Owes`: a client that
never merged can replay what it owes (`Unbroken`); a brick it last put is in a diff, in
the map being saved, or in the version it anchored (`Somewhere`), and a version that was
put holds what was saved (`Put`). Without a merge no replay meets a brick of its own, for
every brick anybody holds has the number of a write made before (`Holds`).

What `Replay` gives is a fact about a recursive function, and the library's induction
theorems cannot be instantiated here. The proof takes the induction from the
well-foundedness of `<` on Nat (`WFMin`, `NatLessThanWellFounded`): lemma `Induction`
says that a *set* with 0 in it and the successor of each of its naturals has all of Nat,
`DiffInduction` says the same of diffs, and each fact about logs is proved of the set of
the diffs for which it holds. Hence that replaying a concatenation is replaying its
halves, that a replay keeps the files that are there, brings in no bricks but those of
the log, and leaves the files it does not name.

`CarefulInv` adds what clients know of each other. `Owned`: a brick that two clients
hold was anchored. `BuiltOn`: the brick map a client has anchored, and the one it saves,
hold every file of the version they are built on; and the files in which they differ
from it have a brick nobody else knows, or were deleted and emptied. `GoodHistory` is
the two properties themselves, of the versions. So when a version is put, the files that
others changed since are those in which the last version and the client's base differ,
which is what the code compares, unless that version is one the client itself put and
whose answer was lost. `ConcurrentChangeIsReported` was first stated without that
exception; the attempt to prove it failed there, and TLC then found the lost answer:
after it, the client's own version is a conflict to it, and the next process overwrites
what it put.

*LegacyDSU.* The first part of the proof says what the operators that actions share do
(lemmas SetBarEffect to NotifyEffect: a bar is set or reloaded, the anchor unlocked, a
task goes on or waits), the second has one lemma per action. `LockIsHeld` rests on
`StepsInOrder`: who waits or opens has not been answered, and until a call has failed
every refresh under way is of a task that notifies. `OneAtATime` and `BarsAreCommitted`
are for careful callers: a task that opens is alone, a locked anchor has no batch in
progress, all batches are of one instance, and a bar is in a batch exactly as long as its
instance is or a commit works on that bar, which holds what the tasks of its batch wrote.

*MessageQueue.* `TakenOnce` needs that a name belongs to one put (`NamesDiffer`), that a
file holds the message it is named after or nothing yet (`FilesHoldTheirs`), and that a
reader is called once, with what that file held (`ReadersGotOnce`, `ScansAreOwn`); then
the unlink of one reader is the only one of that name that succeeds
(`RemovedByReaders`). `EarlierAreOlder` gives the order.

*SimpleLock.* `Alone` says, until requests race, what the one request at work finds at
each of its steps, and that a holder's file names it. `OnlyWhoAskedHasIt` is inductive
with the types whatever races there are. The lease's holder is the secret in the file:
`WriteFile` is a `Grant`, the removal of an expired file a `Lapse`, `UnlinkFile` a
`Release` (lemma StepOfLease).

*MappingEngine.* `OneAtATime` (the flag), `Order` (edits, listeners and unlock requests
are of calls past their mapping, a call that commits closes its own storage service) and
`Apart` (who has edited finds no listener called before its edits are anchored), one
lemma each. A lock is given back by a listener; `Apart` is why that listener is not
called by a commit that left the edits out. `Carried` follows the edits of a call without
failures: where they wait there is a batch left and the bar is in it, a commit under
way took all there were, and a commit that finds its bar in no batch is one of `Other`,
without edits. `Apart` makes it inductive: nobody edits beside a commit, so no commit can
fail with edits that came after it, and no call comes to roll back. A rollback itself
takes no edits; what it forgets is a batch, and only after a failure.

*MessagesPipe.* `GroupsAreFront`: until checks cross, what a check has grouped is at the
front of the queue still, also after others have added; so the splice takes it.

*WorkerPool.* The properties are inductive together, with the types and
`BusyWorkersAreMarked`; the sizes of sets of workers are handled by lemma SizeOf. The
proof goes through why no task is stranded: every step that frees a worker leaves an
event or takes a task, and every event that takes none leaves the queue empty or finds
no free worker.

Every invariant and every action property of the runs is proved. Only model-checked:
the liveness properties (fairness and ENABLED are beyond the prover), and the two
violations, which are counterexamples.

## What is not modelled

- *AnchoringFS*: recovery mode (fakeHistory), the backup server, trust levels other
  than the full check, disk errors other than those of the lock.
- *BrickMapController*: renameFile, cloneFolder, directories, embedded and big files,
  replaced first / last bricks, mergeUpstreamChanges, custom conflict resolution
  functions.
- *LegacyDSU*: startOrAttachBatch, the synchronous beginBatch, commitBatch without a
  batch id, mounted and parent DSUs, recovery mode.
- *MappingEngine*: the mappings and the default APIs, that is, what an edit writes; the
  DSUs a mapping touches besides the storage service.
- *WorkerPool*: pools of isolates and of web workers, which create workers otherwise.
- *SimpleLock*: locks of several ids, which share nothing but the folder they are in.
- *MessageQueue*: errors of the disk, the size limit of a message, the CouchDB, Loki and
  light database adapters, tokens.
- The components listed as `not_modelled` in `PROJECT.json`, with the reason there:
  pure data (key SSIs, crypto, credentials), plain I/O (server, static files), content
  addressed storage without conflicts (bricking), and those that are planned.

The map covers a small share of the repository's lines: most of them are vendored or
generated (cryptography, LokiJS, parsers), tests' tooling, wrappers around drivers, or
pure data, where a model checker has nothing to interleave.

## Plan

Done, in this order:

1. `AnchorLog`, `AnchoringFS`, its runs and proofs: the root of trust of a DSU.
2. `BrickMapController`: what clients do with an anchor.
3. `LegacyDSU`: who may change a DSU's bar, and when.
4. `MessageQueue`: messages between clients that know only a queue.
5. `Lease`, `SimpleLock`: the hub's lock, and the promise `MappingEngine` builds on.
6. `MappingEngine` and `MessagesPipe`: who edits a storage service, and what reaches it.
7. `WorkerPool`.
8. Proofs of the safety properties of all of these.

Left:

1. `Notifications`, which shares deliverMessage's structure, and soundpubsub.
2. `EthereumSync`: the retry table over AnchoringFS's log; crash and restart between
   sending and recording. It waits for an answer to which arguments its records reach the
   enclave with.
3. More operations: rename, clone, mergeUpstreamChanges and mounted DSUs, where the
   state stays checkable.
4. A composition of LegacyDSU with BrickMapController: a commit as the anchoring
   process it is.
