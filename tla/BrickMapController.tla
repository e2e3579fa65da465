------------------------- MODULE BrickMapController -------------------------
(***************************************************************************)
(* The clients of one DSU: the BrickMapController each of them writes and  *)
(* anchors with, its State, and the LatestVersionStrategy.                 *)
(*                                                                         *)
(* A brick map is a function from files to nodes, and a node keeps what    *)
(* merging looks at: whether it is there, whether it is marked deleted,    *)
(* and its bricks.  A brick is named by the number of the write that made  *)
(* it, 0 for those of the first version.  A BrickMapDiff is its log of     *)
(* operations, a list of diffs the concatenation of their logs.  A hash    *)
(* link is the position of its version in the anchor's history, 0 for none.*)
(***************************************************************************)
EXTENDS Naturals, SequencesExt

CONSTANTS
    Clients,     \* the processes that hold the DSU open
    Files,       \* the paths they write
    Kinds,       \* the writes they make, out of AllKinds
    Faults,      \* the remote calls that may fail, out of AllFaults
    Seeds,       \* sets of files the first version may hold, if there is one
    MaxWrites,   \* bound: writes made by all the clients together
    MaxFaults,   \* bound: remote calls that fail
    MaxReopens   \* bound: how often a client starts afresh

AllKinds == {"add", "append", "delete"}
AllFaults == {"save", "getLast", "store", "reply", "load"}

ASSUME KindsAssumption == Kinds \subseteq AllKinds
ASSUME FaultsAssumption == Faults \subseteq AllFaults
ASSUME SeedsAssumption == Seeds \subseteq SUBSET Files
ASSUME BoundsAssumption == MaxWrites \in Nat /\ MaxFaults \in Nat /\ MaxReopens \in Nat

VARIABLES
    client,      \* [Clients -> the state of the client's controller]
    history,     \* the versions of the anchor, oldest first
    writes,      \* writes made so far
    faults,      \* remote calls failed so far
    reopens      \* clients started afresh so far

vars == <<client, history, writes, faults, reopens>>
counters == <<writes, faults, reopens>>

Node == [there: BOOLEAN, deleted: BOOLEAN, bricks: Seq(0..MaxWrites)]
BrickMap == [Files -> Node]
Operation == [op: AllKinds \cup {"truncate"}, file: Files, brick: 0..MaxWrites]
\* An anchored brick map, with ghosts: who anchored it, the version its writer's
\* anchored brick map came from, the operations replayed and whether in a merge.
Version == [map: BrickMap, by: Clients, from: Nat, ops: Seq(Operation),
            merged: BOOLEAN]

\* Where the anchoring process is.  "abandoned": its listener was called and
\* anchoringInProgress was left set.
Steps == {"idle", "compact", "save", "getLast", "store", "stored", "conflict",
          "abandoned"}

Client == [
    pc       : Steps,
    dirty    : BrickMap,        \* what the client reads
    anchored : BrickMap,        \* State's anchored brick map
    from     : Nat,             \* ghost: the version anchored was taken from
    cur      : Nat,             \* currentAnchoredHashLink
    new      : Seq(Operation),  \* diffs.new
    inAnch   : Seq(Operation),  \* diffs.inAnchoring
    merged   : Seq(Operation),  \* mergedDiffs of the process under way
    flight   : BrickMap,        \* the brick map the process is about to anchor
    saved    : BrickMap,        \* flight as saveBrickMap serialised it
    alias    : {"none", "flight", "anchored"}, \* what dirty is the same object as
    asked    : BOOLEAN,         \* ghost: an anchoring was asked for meanwhile
    merges   : {"none", "open", "closed", "lost"}, \* ghost: what became of merges
    sent     : Seq(Operation),  \* ghost: the operations flight holds
    mine     : [Files -> 0..MaxWrites]] \* ghost: last brick put in a file, or 0

TypeOK ==
    /\ client \in [Clients -> Client]
    /\ history \in Seq(Version)
    /\ writes \in 0..MaxWrites
    /\ faults \in 0..MaxFaults
    /\ reopens \in 0..MaxReopens

-----------------------------------------------------------------------------
(* Brick maps *)

AbsentNode == [there |-> FALSE, deleted |-> FALSE, bricks |-> <<>>]
FileNode(bricks) == [there |-> TRUE, deleted |-> FALSE, bricks |-> bricks]
EmptyMap == [f \in Files |-> AbsentNode]
SeedMap(fs) == [f \in Files |-> IF f \in fs THEN FileNode(<<0>>) ELSE AbsentNode]

\* emptyList throws on a path that is not there, and appendBrick on a brick the file
\* has already; addFileEntry empties the file before it appends.
Throws(map, o) ==
    \/ o.op = "truncate" /\ ~map[o.file].there
    \/ o.op = "append" /\ o.brick \in ToSet(map[o.file].bricks)

\* replayOperation, of an operation that does not throw: a file that is added is
\* emptied first, one that is deleted already or is not there is not deleted again.
Apply(map, o) ==
    LET node == map[o.file] IN
    [map EXCEPT ![o.file] =
        CASE o.op = "add" -> FileNode(<<o.brick>>)
          [] o.op = "append" -> FileNode(Append(node.bricks, o.brick))
          [] o.op = "truncate" -> FileNode(<<>>)
          [] o.op = "delete" /\ node.there /\ ~node.deleted ->
                [there |-> TRUE, deleted |-> TRUE, bricks |-> <<>>]
          [] OTHER -> node]

\* applyDiff: map after the first i operations
Replay(map, ops) ==
    LET after[i \in 0..Len(ops)] ==
            IF i = 0 THEN map ELSE Apply(after[i - 1], ops[i])
    IN  after[Len(ops)]

\* applyDiff throws at the first operation that does.
ReplayThrows(map, ops) ==
    \E i \in 1..Len(ops) : Throws(Replay(map, SubSeq(ops, 1, i - 1)), ops[i])

\* diff: the files of dst that are new or have other bricks than in src.
Diff(src, dst) ==
    {f \in Files : /\ dst[f].there
                   /\ ~src[f].there \/ src[f].bricks # dst[f].bricks}

\* Fault: the list of bricks is not replaced when there is one.
MergeKeepsTheirs(theirs, ours) ==
    [f \in Files |-> IF theirs[f].there THEN theirs[f] ELSE ours[f]]

\* Fault: the changes are merged the other way around, and theirs are dropped.
MergeIsOurs(theirs, ours) == ours

\* merge overlays the changed nodes key by key: the list of bricks is replaced,
\* a deletion mark is added and never removed.
Merge(theirs, ours) ==
    [f \in Files |->
        IF f \notin Diff(theirs, ours) THEN theirs[f]
        ELSE [there |-> TRUE,
              deleted |-> theirs[f].deleted \/ ours[f].deleted,
              bricks |-> ours[f].bricks]]

\* Fault: deletions are not looked at.
ConflictsOfAdds(anchored, theirs, ops) ==
    \E i \in 1..Len(ops) :
        /\ ops[i].op \in {"add", "truncate"}
        /\ ops[i].file \in Diff(anchored, theirs)
        /\ ~theirs[ops[i].file].deleted

\* detectMergeConflicts: what we add, truncate or delete is a file they changed
\* and did not delete.  An append is never in conflict.
Conflicts(anchored, theirs, ops) ==
    \E i \in 1..Len(ops) :
        /\ ops[i].op \in {"add", "truncate", "delete"}
        /\ ops[i].file \in Diff(anchored, theirs)
        /\ ~theirs[ops[i].file].deleted

-----------------------------------------------------------------------------
(* The controller's state *)

\* What a controller holds once it has loaded version v, or, for v = 0, once it
\* has been initialised for a DSU that has no anchor.
Opened(v, map) ==
    [pc |-> "idle", dirty |-> map, anchored |-> map, from |-> v, cur |-> v,
     new |-> <<>>, inAnch |-> <<>>, merged |-> <<>>,
     flight |-> EmptyMap, saved |-> EmptyMap, alias |-> "none", asked |-> FALSE,
     merges |-> "none", sent |-> <<>>, mine |-> [f \in Files |-> 0]]

\* The DSU is new, or some client has anchored its first version.
Init ==
    /\ \E fs \in Seeds, c \in Clients :
          history \in {<<>>, <<[map |-> SeedMap(fs), by |-> c, from |-> 0, ops |-> <<>>,
                             merged |-> FALSE]>>}
    /\ client = [c \in Clients |->
                    IF history = <<>> THEN Opened(0, EmptyMap) ELSE Opened(1, history[1].map)]
    /\ writes = 0
    /\ faults = 0
    /\ reopens = 0

At(c, step) == client[c].pc = step
Pending(k) == k.inAnch \o k.new
HasPending(k) == Pending(k) # <<>>
LastVersion == Len(history)

\* Fault: the new diffs replace those that were put back.
PreparedReplaces(k) == [k EXCEPT !.inAnch = k.new, !.new = <<>>]

\* prepareNewChangesForAnchoring
Prepared(k) == [k EXCEPT !.inAnch = Pending(k), !.new = <<>>]

\* Fault: nothing goes back.
RolledBackEmpty(k) == [k EXCEPT !.merged = <<>>]

\* rollback: the diffs the process took go back in front of the others.
RolledBack(k) == [k EXCEPT !.inAnch = k.merged \o @, !.merged = <<>>]
\* endAnchoring releases anchoringInProgress; the brick map that was being
\* anchored is not used again.
Ended(k) == [k EXCEPT !.pc = "idle", !.flight = EmptyMap, !.saved = EmptyMap,
                      !.sent = <<>>, !.alias = IF @ = "flight" THEN "none" ELSE @]
Failed(k) == Ended([k EXCEPT !.merges = IF @ = "open" THEN "lost" ELSE @])
\* The listener is called and endAnchoring is not: anchoringInProgress stays set
\* and the diffs the process took are out of reach.
Abandoned(k) == [Failed(k) EXCEPT !.pc = "abandoned", !.merged = <<>>]

\* anchorChanges, up to the diffs' move into inAnchoring; one that is asked for
\* while another is in progress does nothing.
AnchoringAsked(k) ==
    IF k.pc # "idle" THEN [k EXCEPT !.asked = TRUE]
    ELSE IF ~HasPending(k) THEN k
    ELSE [Prepared(k) EXCEPT !.pc = "compact", !.asked = FALSE]

SetClient(c, k) == client' = [client EXCEPT ![c] = k]

\* A remote call fails.
Fails(call) == call \in Faults /\ faults < MaxFaults /\ faults' = faults + 1

-----------------------------------------------------------------------------
(* Writes *)

Op(op, f, brick) == [op |-> op, file |-> f, brick |-> brick]

\* addFileEntryProxyHandler logs that a file with bricks is emptied first.
AddFileEntry(k, f, brick) ==
    IF k.dirty[f].bricks = <<>> THEN <<Op("add", f, brick)>>
    ELSE <<Op("truncate", f, 0), Op("add", f, brick)>>

\* The operations go to the dirty brick map, which after a merge is also the one
\* being anchored or the anchored one, and to the current diff.
Logged(k, ops) ==
    LET dirty == Replay(k.dirty, ops)
    IN  [k EXCEPT !.dirty = dirty,
                  !.flight = IF k.alias = "flight" THEN dirty ELSE @,
                  !.anchored = IF k.alias = "anchored" THEN dirty ELSE @,
                  !.new = @ \o ops]

\* The strategy's decision function, or its delay, says whether to anchor now.
IfChangesShouldBeAnchored == BOOLEAN

AttemptAnchoring(c, k) ==
    \E shouldBeAnchored \in IfChangesShouldBeAnchored :
        SetClient(c, IF shouldBeAnchored THEN AnchoringAsked(k) ELSE k)

\* A write of file f with these operations; brick is the one f ends with, or 0.
Write(c, f, ops, brick) ==
    /\ writes < MaxWrites
    /\ writes' = writes + 1
    /\ AttemptAnchoring(c, [Logged(client[c], ops) EXCEPT !.mine[f] = brick])
    /\ UNCHANGED <<history, faults, reopens>>

AddFile(c) ==
    "add" \in Kinds /\ \E f \in Files :
        Write(c, f, AddFileEntry(client[c], f, writes + 1), writes + 1)

AppendToFile(c) ==
    "append" \in Kinds /\ \E f \in Files :
        Write(c, f, <<Op("append", f, writes + 1)>>, writes + 1)

DeleteFile(c) ==
    "delete" \in Kinds /\ \E f \in Files : Write(c, f, <<Op("delete", f, 0)>>, 0)

\* commitBatch, doAnchoring, or the strategy's delay is over.
AnchorChanges(c) ==
    /\ At(c, "idle")
    /\ HasPending(client[c])
    /\ SetClient(c, AnchoringAsked(client[c]))
    /\ UNCHANGED <<history, counters>>

-----------------------------------------------------------------------------
(* One anchoring process *)

\* compactDiffs: the diffs are replayed on a clone of the anchored brick map, which
\* after a merge holds the operations of the dirty one already.  When one throws, the
\* diffs that mergeDiffs has shifted are gone and the listener gets the error.
\* saveBrickMap serialises the result before anything else can run.
Compact(c) ==
    LET k == client[c]
        map == Replay(k.anchored, k.inAnch)
    IN  /\ At(c, "compact")
        /\ SetClient(c,
              IF ReplayThrows(k.anchored, k.inAnch)
              THEN Abandoned([k EXCEPT !.inAnch = <<>>])
              ELSE [k EXCEPT !.pc = "save", !.flight = map, !.saved = map,
                             !.sent = k.inAnch, !.merged = k.inAnch, !.inAnch = <<>>])
        /\ UNCHANGED <<history, counters>>

\* Fault: an error is reported and anchoringInProgress stays set.
SaveBrickMapAbandons(c) ==
    LET k == client[c] IN
    /\ At(c, "save")
    /\ \/ SetClient(c, [k EXCEPT !.pc = "getLast"]) /\ UNCHANGED faults
       \/ Fails("save") /\ SetClient(c, Abandoned(RolledBack(k)))
    /\ UNCHANGED <<history, writes, reopens>>

\* saveBrickMap's putBrick
SaveBrickMap(c) ==
    LET k == client[c] IN
    /\ At(c, "save")
    /\ \/ SetClient(c, [k EXCEPT !.pc = "getLast"]) /\ UNCHANGED faults
       \/ Fails("save") /\ SetClient(c, Failed(RolledBack(k)))
    /\ UNCHANGED <<history, writes, reopens>>

\* getLastVersion before the anchor is written: a DSU that never was anchored
\* must have no version, any other one the version it was loaded from.
GetLastVersion(c) ==
    LET k == client[c]
        Answer(last) ==
            IF (k.cur = 0) # (last = 0) THEN Abandoned(k)
            ELSE IF last # k.cur THEN [RolledBack(k) EXCEPT !.pc = "conflict"]
            ELSE [k EXCEPT !.pc = "store"]
    IN  /\ At(c, "getLast")
        /\ \/ SetClient(c, Answer(LastVersion)) /\ UNCHANGED faults
           \/ Fails("getLast") /\ SetClient(c, Answer(0))
        /\ UNCHANGED <<history, writes, reopens>>

NewVersion(c) ==
    [map |-> client[c].saved, by |-> c, from |-> client[c].from,
     ops |-> client[c].sent, merged |-> client[c].alias = "flight"]

\* createAnchor and appendAnchor at the hub, which takes a version signed over
\* its last one and answers 428 to an append over any other; updateAnchorCallback
\* tells that answer from every other error.
StoreAnchor(c) ==
    LET k == client[c] IN
    /\ At(c, "store")
    /\ \/ /\ k.cur = LastVersion
          /\ history' = Append(history, NewVersion(c))
          /\ \/ SetClient(c, [k EXCEPT !.pc = "stored"]) /\ UNCHANGED faults
             \/ Fails("reply") /\ SetClient(c, Failed(RolledBack(k)))
       \/ /\ k.cur # LastVersion
          /\ SetClient(c, IF k.cur = 0 THEN Failed(RolledBack(k))
                          ELSE [RolledBack(k) EXCEPT !.pc = "conflict"])
          /\ UNCHANGED <<history, faults>>
       \/ /\ Fails("store")
          /\ SetClient(c, Failed(RolledBack(k)))
          /\ UNCHANGED history
    /\ UNCHANGED <<writes, reopens>>

\* afterBrickMapAnchoring, endAnchoring, and the restart when diffs are left
\* among those for anchoring.
AfterBrickMapAnchoring(c) ==
    LET k == client[c]
        v == CHOOSE i \in 1..LastVersion :
                /\ history[i].by = c
                /\ \A j \in (i + 1)..LastVersion : history[j].by # c
        k2 == Ended([k EXCEPT
                  !.anchored = k.flight, !.from = v, !.cur = v, !.merged = <<>>,
                  !.alias = IF @ = "flight" THEN "anchored" ELSE "none",
                  !.merges = IF @ = "open" THEN "closed" ELSE @])
    IN  /\ At(c, "stored")
        /\ SetClient(c, IF k2.inAnch = <<>> THEN k2 ELSE AnchoringAsked(k2))
        /\ UNCHANGED <<history, counters>>

\* Without a function that resolves conflicts any of them is an error.
MergeConflictsHandled(k, theirs) == Conflicts(k.anchored, theirs, k.inAnch)

\* reconcile: what is pending is either found in conflict with the version loaded or
\* merged into it; the result is the new dirty brick map and what the next round of the
\* process anchors.  When a replay throws, so does the handler, for the diffs it would
\* put back are not set yet, and nobody ends the process.  merges records whether every
\* merge of this client has been anchored ("closed"), one is on its way ("open"), or one
\* never was ("lost").
Reconciled(k, theirs) ==
    LET ours == Replay(k.anchored, k.inAnch)
        result == IF k.inAnch = <<>> THEN theirs ELSE Merge(theirs, ours)
    IN  IF MergeConflictsHandled(k, theirs) THEN Failed(k)
        ELSE IF ReplayThrows(k.anchored, k.inAnch) THEN Abandoned([k EXCEPT !.inAnch = <<>>])
        ELSE [k EXCEPT !.pc = "save", !.inAnch = <<>>, !.merged = <<>>,
                       !.sent = k.inAnch, !.asked = FALSE,
                       !.dirty = result, !.flight = result, !.saved = result,
                       !.alias = "flight",
                       !.merges = IF @ \in {"none", "closed"} THEN "open" ELSE "lost"]

\* handleAnchoringConflict: the last version is loaded and becomes the current one
\* before what is pending is reconciled with it.
HandleAnchoringConflict(c) ==
    LET k == client[c] IN
    /\ At(c, "conflict")
    /\ \/ /\ SetClient(c, Reconciled([Prepared(k) EXCEPT !.cur = LastVersion],
                                     history[LastVersion].map))
          /\ UNCHANGED faults
       \/ Fails("load") /\ SetClient(c, Failed(k))
    /\ UNCHANGED <<history, writes, reopens>>

-----------------------------------------------------------------------------
\* A client drops its controller (a crash, cancelBatch, refresh) and loads the
\* last version into a new one, or initialises a DSU that still has none.
Reopen(c) ==
    /\ reopens < MaxReopens
    /\ reopens' = reopens + 1
    /\ SetClient(c, IF history = <<>> THEN Opened(0, EmptyMap)
                    ELSE Opened(LastVersion, history[LastVersion].map))
    /\ UNCHANGED <<history, writes, faults>>

Process(c) ==
    \/ Compact(c)
    \/ SaveBrickMap(c)
    \/ GetLastVersion(c)
    \/ StoreAnchor(c)
    \/ AfterBrickMapAnchoring(c)
    \/ HandleAnchoringConflict(c)

Next == \E c \in Clients :
    \/ AddFile(c) \/ AppendToFile(c) \/ DeleteFile(c)
    \/ AnchorChanges(c)
    \/ Process(c)
    \/ Reopen(c)

Spec == Init /\ [][Next]_vars

\* Callbacks of the process are run; users and clocks owe nothing.
FairSpec == Spec /\ \A c \in Clients : WF_vars(Process(c))

\* The behaviours of clients that load the DSU again when a process ended after
\* it had found a newer version, before they anchor anything else.
Careful ==
    \A c \in Clients :
        At(c, "idle") /\ ~At(c, "idle")' => client[c].from = client[c].cur
CarefulSpec == Init /\ [][Next /\ Careful]_vars

-----------------------------------------------------------------------------
Versions == 1..LastVersion
Bricks(ops) == {ops[i].brick : i \in DOMAIN ops}
Names(ops) == {ops[i].file : i \in DOMAIN ops}
Between(k) == k.pc = "idle" /\ Pending(k) = <<>>
\* A version is built on the brick map its writer had anchored before.
AnchoredMap(v) == IF v = 0 THEN EmptyMap ELSE history[v].map
Base(version) == AnchoredMap(version.from)

\* A client that never had to merge reads its anchored brick map with its pending
\* writes on top, in their order, whatever faults, refusals and reported conflicts
\* its processes met: the next process replays them without an error and anchors
\* what the client reads.
PendingExplainsDirty ==
    \A c \in Clients :
        LET k == client[c]
            owed == k.merged \o Pending(k)
        IN  k.merges = "none" /\ k.pc # "abandoned" =>
                /\ ~ReplayThrows(k.anchored, owed)
                /\ k.dirty = Replay(k.anchored, owed)

\* The steps at which a process has a brick map to anchor.
UnderWay(k) == k.pc \in {"save", "getLast", "store", "stored"}

\* What a client knows at a step of its process: a conflict is with a version that is
\* there, an answered anchoring has put one, diffs are taken only while a brick map is
\* under way and were not empty, and the dirty brick map is the object alias says.
StepsInOrder ==
    \A c \in Clients :
        LET k == client[c] IN
        /\ k.cur <= LastVersion /\ k.from <= LastVersion
        /\ k.pc = "conflict" => history # <<>>
        /\ k.pc = "stored" => \E i \in Versions : i > k.from /\ history[i].by = c
        /\ ~UnderWay(k) => k.merged = <<>>
        /\ k.pc = "compact" => k.inAnch # <<>>
        /\ UnderWay(k) /\ k.alias # "flight" => k.merged # <<>>
        /\ k.pc = "conflict" /\ k.alias # "flight" => k.inAnch # <<>>
        /\ k.alias = "flight" =>
              /\ UnderWay(k) \/ k.pc = "conflict"
              /\ k.merged = <<>> /\ k.dirty = k.flight /\ k.merges \in {"open", "lost"}
        /\ k.merges = "open" => k.alias = "flight"
        /\ k.alias = "anchored" => k.dirty = k.anchored /\ k.merges # "none"

\* Without a merge, what is about to be anchored is the diffs the process took,
\* replayed on the anchored brick map.
FlightIsReplay ==
    \A c \in Clients :
        LET k == client[c] IN
        UnderWay(k) /\ k.merges = "none" => k.flight = Replay(k.anchored, k.merged)

\* Replaying the operations on the map throws, or leaves the brick in the file.
Restores(map, ops, f, brick) ==
    ReplayThrows(map, ops) \/ brick \in ToSet(Replay(map, ops)[f].bricks)

\* Whichever way the process ends, replaying what is pending then throws (an append
\* after a merge does) or restores the brick last put in a file: on the anchored brick
\* map if the process fails, and on the one under way if it succeeds.
MineIsPending ==
    \A c \in Clients, f \in Files :
        LET k == client[c] IN
        k.mine[f] # 0 /\ k.merges # "lost" /\ k.pc # "abandoned" =>
            /\ k.alias # "flight" =>
                  Restores(k.anchored, k.merged \o Pending(k), f, k.mine[f])
            /\ UnderWay(k) \/ k.alias = "flight" =>
                  Restores(k.flight, Pending(k), f, k.mine[f])

\* A file that is not there has no bricks, and one without bricks is not there or is
\* deleted.
Sound(map) ==
    \A f \in Files :
        /\ ~map[f].there => map[f].bricks = <<>>
        /\ map[f].bricks = <<>> => ~map[f].there \/ map[f].deleted

\* A diff is never cut between the emptying of a file and its new bricks.
Whole(ops) ==
    \A i \in DOMAIN ops : ops[i].op = "truncate" =>
        i < Len(ops) /\ ops[i + 1].op = "add" /\ ops[i + 1].file = ops[i].file

MapsAreSound ==
    /\ \A c \in Clients :
          LET k == client[c] IN
          /\ Sound(k.dirty) /\ Sound(k.anchored) /\ Sound(k.flight) /\ Sound(k.saved)
          /\ Whole(k.new) /\ Whole(k.inAnch) /\ Whole(k.merged)
    /\ \A i \in Versions : Sound(history[i].map)

\* Types, what a process knows at its steps, and what replaying the pending diffs gives,
\* with a merge under way and without one: what the inductive invariant of
\* BrickMapController_proof says of every state.
Inv ==
    /\ TypeOK
    /\ StepsInOrder
    /\ PendingExplainsDirty
    /\ FlightIsReplay
    /\ MineIsPending
    /\ MapsAreSound

\* The brick last put in a file is in a diff that is pending or taken, in the brick map
\* as it is on its way to the hub, or in the version the client has anchored: as long
\* as no process was abandoned and no merge lost, no error path drops a write.
NoWriteForgotten ==
    \A c \in Clients, f \in Files :
        LET k == client[c]
            kept == Bricks(k.merged \o Pending(k)) \cup ToSet(k.saved[f].bricks)
                        \cup ToSet(AnchoredMap(k.from)[f].bricks)
        IN  k.mine[f] # 0 /\ k.merges # "lost" /\ k.pc # "abandoned" => k.mine[f] \in kept

\* A client reads its own writes, before, while and after they are merged with
\* versions of others that hold the same file.
ReadYourWrites ==
    \A c \in Clients, f \in Files :
        LET k == client[c] IN
        k.mine[f] # 0 /\ k.merges # "lost" => k.mine[f] \in ToSet(k.dirty[f].bricks)

\* A file that was anchored stays in every later version, deleted at most: no
\* client anchors a version that does not know of a file another one made.
FilesNeverVanish ==
    \A i, j \in Versions : i <= j =>
        \A f \in Files : history[i].map[f].there => history[j].map[f].there

\* detectMergeConflicts: no version adds, truncates or deletes a file that others
\* changed since its writer's anchored brick map; such a process ends with an error.
\* The writer was told of every version it has put: after an answer that was lost it
\* may overwrite what it put itself.
ConcurrentChangeIsReported ==
    \A i \in Versions \ {1} :
        (\A j \in Versions : history[i].from < j /\ j < i => history[j].by # history[i].by) =>
            \A n \in DOMAIN history[i].ops :
                LET o == history[i].ops[n]
                    last == history[i - 1].map
                IN  o.op # "append" =>
                        last[o.file].deleted \/ o.file \notin Diff(Base(history[i]), last)

\* An anchoring process of an anchored DSU comes to an end and lets the next one
\* start, however many conflicts it meets, as long as getLastVersion answers and no
\* client appends (AnyDiffsCanBeMerged).
AnchoringEnds ==
    \A c \in Clients : (~At(c, "idle") /\ client[c].cur # 0) ~> At(c, "idle")

-----------------------------------------------------------------------------
(* What the code's comments promise *)

\* "In case of any errors, the compacted BrickMapDiff objects are put back into the
\* pending anchoring state in case we need to retry the anchoring process."
ErrorsKeepChangesPending ==
    \A c \in Clients, f \in Files :
        LET k == client[c] IN
        k.pc \in {"idle", "abandoned"} /\ k.merges # "lost" /\ k.mine[f] # 0 =>
            k.mine[f] \in Bricks(Pending(k)) \cup ToSet(AnchoredMap(k.from)[f].bricks)

\* "Another anchoring was requested during the time this one was in progress, as
\* such, we start the process again."
AskedIsServed == \A c \in Clients : client[c].asked ~> ~client[c].asked

\* "Their BrickMap now has our changes and becomes ours."
TheirsHasOurChanges ==
    \A c \in Clients, f \in Files :
        LET k == client[c] IN
        At(c, "save") /\ k.alias = "flight" /\ k.mine[f] # 0 =>
            k.mine[f] \in ToSet(k.dirty[f].bricks)

\* "reload our anchored BrickMap in order to get the new changes and then try to
\* merge our BrickMapDiff instances": a merge leaves the files our diffs do not
\* name as the others anchored them.
MergeKeepsNewChanges ==
    \A i \in Versions \ {1}, f \in Files :
        history[i].merged /\ f \notin Names(history[i].ops) =>
            history[i].map[f].bricks = history[i - 1].map[f].bricks

\* "In order to finish the anchoring process the conflict must be first resolved":
\* a version is built on the one before it, or was merged into it.
ConflictIsResolvedFirst ==
    \A i \in Versions \ {1} : history[i].merged \/ history[i].from = i - 1

\* "LOCAL_OVERWRITE - Our changes will overwrite a newly anchored file/directory":
\* no merged version silently replaces the bricks others gave to a file it names.
LocalOverwriteIsReported ==
    \A i \in Versions \ {1} : \A f \in Names(history[i].ops) :
        LET last == history[i - 1].map IN
        history[i].merged /\ f \in Diff(Base(history[i]), last) =>
            ToSet(last[f].bricks) \subseteq ToSet(history[i].map[f].bricks)

\* "BrickMap write operations are proxied to a copy of a valid BrickMap and to a
\* BrickMapDiff used later for anchoring": the anchored brick map holds what was
\* anchored, and no write that was not.
WritesGoToACopy ==
    \A c \in Clients : client[c].anchored = AnchoredMap(client[c].from)

\* "Use the strategy to compact/merge any BrickMapDiff objects into a single BrickMap
\* instance": the diffs of a process can be replayed.
AnyDiffsCanBeMerged ==
    \A c \in Clients :
        At(c, "compact") => ~ReplayThrows(client[c].anchored, client[c].inAnch)
=============================================================================
