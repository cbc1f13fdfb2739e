-------------------------------- MODULE Store --------------------------------
(***************************************************************************)
(* hamane-storage/src/store.rs: the persistent store with its collections, *)
(* the write-ahead logs, the manifest and the segment directories, while   *)
(* clients write, the maintenance thread flushes and compacts, the process *)
(* may die at any point and the next open recovers.  SyncPolicy is Always: *)
(* a logged record is on disk when the lock is released.                   *)
(*                                                                         *)
(* A client step is one critical section of the state mutex.  A batch is   *)
(* the sequence of its records: one sync makes no difference to a crash,   *)
(* which may keep any prefix of it.  Each commit of the maintenance thread *)
(* is two steps under one lock, the manifest on disk and the rest, so that *)
(* a crash may fall between them.  Recovery replays one record per step.   *)
(* Calls to the file system that fail, and leave the store running, are    *)
(* outcomes of the steps that make them; FailureKinds says which ones an   *)
(* instance includes.                                                      *)
(***************************************************************************)
EXTENDS Lsm, Integers

CONSTANTS
    Name,                 \* collection names
    NoState,              \* no store is open
    NoPending,            \* pending_flush = None
    OpKinds,              \* the WAL records the clients of an instance write
    FailureKinds,         \* the failures of an instance
    FlushThreshold,       \* flush_threshold_bytes, in rows
    CompactionThreshold,  \* StoreOptions::compaction_threshold
    MaxCollections,       \* bound: collections ever created
    MaxRecords,           \* bound: records written to the logs
    MaxCrashes,           \* bound: process deaths
    MaxFailures           \* bound: failed file system calls

AllKinds == {"create", "drop", "upsert", "delete", "updateMeta", "rename", "swap"}

\* A write of a frame, the sync after it, the creation of a WAL file, opening
\* a segment that was just committed, deleting what a commit left over
AllFailures == {"append", "sync", "create", "open", "delete"}

ASSUME StoreAssumption ==
    /\ OpKinds \subseteq AllKinds
    /\ FailureKinds \subseteq AllFailures
    /\ FlushThreshold \in Nat \ {0}
    /\ CompactionThreshold \in Nat
    /\ MaxCollections \in Nat /\ MaxRecords \in Nat
    /\ MaxCrashes \in Nat /\ MaxFailures \in Nat

VARIABLES
    \* on disk
    manifest,   \* the manifest CURRENT points to
    wals,       \* WAL files: seq -> records
    segFiles,   \* segment directories: <<cid, seg_id>> -> layer
    \* in memory
    phase,      \* "down", "loading", "up" or "failed" (open returned Corrupted)
    state,      \* StoreState
    replay,     \* load_state: the WAL being replayed and the records done
    maint,      \* where the maintenance thread is and what it read
    \* bounds
    written, crashes, failures

disk == <<manifest, wals, segFiles>>
memory == <<state, replay, maint>>
vars == <<disk, phase, memory, written, crashes, failures>>

----------------------------------------------------------------------------
(* Maps *)

Put(f, k, v) == [x \in DOMAIN f \cup {k} |-> IF x = k THEN v ELSE f[x]]
Keep(f, S) == [x \in DOMAIN f \cap S |-> f[x]]
Without(f, k) == [x \in DOMAIN f \ {k} |-> f[x]]
Larger(m, n) == IF m < n THEN n ELSE m
Backwards(s) == [i \in 1..Len(s) |-> s[Len(s) - i + 1]]
NoEntries == [x \in {} |-> x]

----------------------------------------------------------------------------
(* StoreState *)

Cid == 0..(MaxCollections - 1)

\* PendingFlush; None is not one of them
Generation == [walSeq : Nat, memtables : UNION {[S -> Layer] : S \in SUBSET Cid}]

ASSUME NoPendingAssumption == NoPending \notin Generation

\* CollectionState::new
NewCollection(name) ==
    [name |-> name, memtable |-> EmptyLayer, segments |-> <<>>, liveLen |-> 0]

SegLayers(segments) == [i \in 1..Len(segments) |-> segments[i].layer]
SegIds(segments) == [i \in 1..Len(segments) |-> segments[i].id]

\* What a read of collection c goes through, newest first
Layers(st, c) ==
    <<st.cols[c].memtable>>
    \o (IF st.pending # NoPending /\ c \in DOMAIN st.pending.memtables
        THEN <<st.pending.memtables[c]>> ELSE <<>>)
    \o SegLayers(st.cols[c].segments)

LiveCount(layers) == Cardinality({id \in Id : IsIdLive(layers, id)})

\* Mutant: rows are counted in every layer.
RowTotal(layers) == Cardinality({row \in Id \X DOMAIN layers : HasRow(layers[row[2]], row[1])})

\* scan_segments: the live rows of the segments of a manifest
ScannedLen(layers) == Cardinality(LiveRows(layers))

\* Mutant: replay needs the collection of a drop to exist.
RefersDrop(r) ==
    CASE r.op = "swap" -> {r.a, r.b}
      [] r.op \in {"create", "torn", "blank"} -> {}
      [] OTHER -> {r.cid}

\* The collections a record refers to
Refers(r) ==
    CASE r.op = "swap" -> {r.a, r.b}
      [] r.op \in {"create", "drop", "torn", "blank"} -> {}
      [] OTHER -> {r.cid}

\* apply_record finds every collection it needs, or returns Corrupted, as
\* read_all does for a file without its magic
Known(st, r) == r.op # "blank" /\ Refers(r) \subseteq DOMAIN st.cols

----------------------------------------------------------------------------
(* apply_record: shared by the writers and by replay *)

ApplyCreate(st, r) ==
    [st EXCEPT !.names = Put(@, r.name, r.cid),
               !.cols = Put(@, r.cid, NewCollection(r.name)),
               !.manifest.nextCid = Larger(@, r.cid + 1)]

ApplyDrop(st, r) ==
    IF r.cid \in DOMAIN st.cols
    THEN [st EXCEPT !.names = Without(@, st.cols[r.cid].name),
                    !.cols = Without(@, r.cid)]
    ELSE st

\* One row of the memtable changes, and live_len with it
PutRow(st, c, id, rec) ==
    [st EXCEPT !.cols[c].memtable = Upsert(@, id, rec),
               !.cols[c].liveLen = IF IsIdLive(Layers(st, c), id) THEN @ ELSE @ + 1]

ApplyUpsert(st, r) == PutRow(st, r.cid, r.id, r.rec)

ApplyDelete(st, r) ==
    [st EXCEPT !.cols[r.cid].memtable = Delete(@, r.id),
               !.cols[r.cid].liveLen = IF IsIdLive(Layers(st, r.cid), r.id) THEN @ - 1 ELSE @]

\* The WAL has no vector: it is looked up.  An absent record stays absent.
ApplyUpdateMeta(st, r) ==
    LET current == Lookup(Layers(st, r.cid), r.id)
    IN  IF current = NoRecord THEN st
        ELSE PutRow(st, r.cid, r.id, [vector |-> current.vector, metadata |-> r.metadata])

\* Mutant: the old name stays in the name table.
ApplyRenameKeepsOld(st, r) ==
    [st EXCEPT !.names = Put(@, r.name, r.cid),
               !.cols[r.cid].name = r.name]

ApplyRename(st, r) ==
    [st EXCEPT !.names = Put(Without(@, st.cols[r.cid].name), r.name, r.cid),
               !.cols[r.cid].name = r.name]

ApplySwap(st, r) ==
    LET nameA == st.cols[r.a].name
        nameB == st.cols[r.b].name
    IN  [st EXCEPT !.names = Put(Put(@, nameB, r.a), nameA, r.b),
                   !.cols = Put(Put(@, r.a, [@[r.a] EXCEPT !.name = nameB]),
                                r.b, [@[r.b] EXCEPT !.name = nameA])]

Apply(st, r) ==
    CASE r.op = "create"     -> ApplyCreate(st, r)
      [] r.op = "drop"       -> ApplyDrop(st, r)
      [] r.op = "upsert"     -> ApplyUpsert(st, r)
      [] r.op = "delete"     -> ApplyDelete(st, r)
      [] r.op = "updateMeta" -> ApplyUpdateMeta(st, r)
      [] r.op = "rename"     -> ApplyRename(st, r)
      [] r.op = "swap"       -> ApplySwap(st, r)

----------------------------------------------------------------------------
(* Manifest::default, stored by the first open *)

EmptyManifest == [gen |-> 0, nextCid |-> 0, nextSeg |-> 0, walSeq |-> 0, cols |-> NoEntries]

Idle == [at |-> "idle"]
Failed == [at |-> "failed"]
NoReplay == [seq |-> 0, pos |-> 0]

Init ==
    /\ manifest = EmptyManifest
    /\ wals = NoEntries
    /\ segFiles = NoEntries
    /\ phase = "down"
    /\ state = NoState
    /\ replay = NoReplay
    /\ maint = Idle
    /\ written = 0
    /\ crashes = 0
    /\ failures = 0

----------------------------------------------------------------------------
(* Clients *)

\* The maintenance thread holds the lock between the two halves of a commit.
LockFree == maint.at \notin {"flushStored", "compactStored"}

Ready(op) ==
    /\ phase = "up" /\ LockFree
    /\ op \in OpKinds
    /\ written < MaxRecords
    /\ written' = written + 1
    /\ UNCHANGED <<manifest, segFiles, phase, replay, maint, crashes>>

Fails(kind) ==
    /\ kind \in FailureKinds
    /\ failures < MaxFailures
    /\ failures' = failures + 1

\* Part of a frame, left by an append that did not end
Torn == [op |-> "torn"]

\* A WAL file without its magic, left by a creation that did not end
Blank == <<[op |-> "blank"]>>

Logged(r) == [wals EXCEPT ![state.wal] = Append(@, r)]

\* append, sync, then apply: memory becomes st and the logs files.  A failed
\* append leaves part of the frame and a failed sync all of it; memory stays,
\* the caller gets an error and the store goes on.
LogThen(r, st, files) ==
    \/ state' = st /\ wals' = files /\ UNCHANGED failures
    \/ UNCHANGED state /\ wals' = Logged(Torn) /\ Fails("append")
    \/ UNCHANGED state /\ wals' = Logged(r) /\ Fails("sync")

\* log_and_apply: a record that apply_record rejects is in the log all the same
LogAndApply(r) == LogThen(r, IF Known(state, r) THEN Apply(state, r) ELSE state, Logged(r))

CanRotate(st) ==
    /\ st.pending = NoPending
    /\ \E c \in DOMAIN st.cols : ~IsEmpty(st.cols[c].memtable)

\* rotate: the memtables wait to be flushed, writes go to the next WAL
Rotated(st) ==
    [st EXCEPT !.cols = [c \in DOMAIN @ |-> [@[c] EXCEPT !.memtable = EmptyLayer]],
               !.pending = [walSeq |-> st.wal,
                            memtables |-> [c \in {d \in DOMAIN st.cols :
                                                     ~IsEmpty(st.cols[d].memtable)}
                                             |-> st.cols[c].memtable]],
               !.wal = @ + 1]

OverThreshold(st) == \E c \in DOMAIN st.cols : RowCount(st.cols[c].memtable) >= FlushThreshold

\* WalWriter::create makes the file first and then writes the magic; it never
\* opens a file that exists.  A rotation without its new WAL changes nothing.
FailedCreate(st, files) ==
    /\ state' = st
    /\ IF st.wal + 1 \in DOMAIN files
       THEN wals' = files /\ UNCHANGED failures
       ELSE wals' = Put(files, st.wal + 1, Blank) /\ Fails("create")

\* A data record: log, apply, maybe_flush
LogApplyFlush(r) ==
    LET st == Apply(state, r)
    IN  IF OverThreshold(st) /\ CanRotate(st)
        THEN \/ /\ st.wal + 1 \notin DOMAIN wals
                /\ LogThen(r, Rotated(st), Put(Logged(r), st.wal + 1, <<>>))
             \/ FailedCreate(st, Logged(r))
        ELSE LogThen(r, st, Logged(r))

CreateCollection(name) ==
    /\ Ready("create")
    /\ name \notin DOMAIN state.names
    /\ state.manifest.nextCid < MaxCollections
    /\ LogAndApply([op |-> "create", cid |-> state.manifest.nextCid, name |-> name])

\* The pending generation without one collection
NotWaiting(st, c) ==
    IF st.pending = NoPending THEN st
    ELSE [st EXCEPT !.pending.memtables = Without(@, c)]

\* The dropped collection also leaves the pending generation.
DropCollection(name) ==
    /\ Ready("drop")
    /\ name \in DOMAIN state.names
    /\ LET c == state.names[name]
           r == [op |-> "drop", cid |-> c]
           st == NotWaiting(Apply(state, r), c)
       IN  LogThen(r, st, Logged(r))

UpsertRecord(c, id, rec) ==
    /\ Ready("upsert")
    /\ LogApplyFlush([op |-> "upsert", cid |-> c, id |-> id, rec |-> rec])

DeleteRecord(c, id) ==
    /\ Ready("delete")
    /\ LogApplyFlush([op |-> "delete", cid |-> c, id |-> id])

\* update_metadata_batch logs nothing for an absent record
UpdateMetadata(c, id, metadata) ==
    /\ Ready("updateMeta")
    /\ IsIdLive(Layers(state, c), id)
    /\ LogApplyFlush([op |-> "updateMeta", cid |-> c, id |-> id, metadata |-> metadata])

RenameCollection(from, to) ==
    /\ Ready("rename")
    /\ from \in DOMAIN state.names
    /\ to \notin DOMAIN state.names
    /\ LogAndApply([op |-> "rename", cid |-> state.names[from], name |-> to])

SwapCollectionNames(a, b) ==
    /\ Ready("swap")
    /\ {a, b} \subseteq DOMAIN state.names
    /\ state.names[a] # state.names[b]
    /\ LogAndApply([op |-> "swap", a |-> state.names[a], b |-> state.names[b]])

\* rotate on behalf of flush(), of compact() and of a writer released from
\* backpressure
Rotate ==
    /\ phase = "up" /\ LockFree
    /\ CanRotate(state)
    /\ \/ /\ state.wal + 1 \notin DOMAIN wals
          /\ state' = Rotated(state)
          /\ wals' = Put(wals, state.wal + 1, <<>>)
          /\ UNCHANGED failures
       \/ FailedCreate(state, wals)
    /\ UNCHANGED <<manifest, segFiles, phase, replay, maint, written, crashes>>

Client ==
    \/ \E name \in Name :
         \/ CreateCollection(name)
         \/ DropCollection(name)
         \/ \E other \in Name : RenameCollection(name, other) \/ SwapCollectionNames(name, other)
    \/ phase = "up" /\ \E c \in DOMAIN state.cols, id \in Id :
         \/ \E rec \in Record : UpsertRecord(c, id, rec)
         \/ DeleteRecord(c, id)
         \/ \E metadata \in Metadata : UpdateMetadata(c, id, metadata)
    \/ Rotate

----------------------------------------------------------------------------
(* The maintenance thread: flush_pending *)

\* Step 1, under the lock: the memtables whose collection still exists, with
\* consecutive segment ids in the order of the collection ids
FlushRead ==
    /\ phase = "up" /\ maint \in {Idle, Failed}
    /\ state.pending # NoPending
    /\ LET cids == DOMAIN state.pending.memtables \cap DOMAIN state.cols
       IN  maint' = [at |-> "flushWrite",
                     walSeq |-> state.pending.walSeq,
                     work |-> [c \in cids |->
                                 [id |-> state.manifest.nextSeg + Cardinality({d \in cids : d < c}),
                                  layer |-> state.pending.memtables[c]]],
                     done |-> {}]
    /\ UNCHANGED <<disk, phase, state, replay, written, crashes, failures>>

\* Step 2, without the lock: one segment directory, in place of what an
\* earlier failed attempt may have left under its name
FlushWrite ==
    /\ maint.at = "flushWrite"
    /\ \E c \in DOMAIN maint.work \ maint.done :
         /\ \A d \in DOMAIN maint.work \ maint.done : c <= d
         /\ segFiles' = Put(segFiles, <<c, maint.work[c].id>>, maint.work[c].layer)
         /\ maint' = [maint EXCEPT !.done = @ \cup {c}]
    /\ UNCHANGED <<manifest, wals, phase, state, replay, written, crashes, failures>>

\* Mutant: the segment counter is not advanced.
FlushedManifestReusesIds ==
    [gen |-> state.manifest.gen + 1,
     nextCid |-> state.manifest.nextCid,
     nextSeg |-> state.manifest.nextSeg,
     walSeq |-> maint.walSeq,
     cols |-> [c \in DOMAIN state.cols |->
                 [name |-> state.cols[c].name,
                  segs |-> Backwards(SegIds(state.cols[c].segments))
                           \o (IF c \in DOMAIN maint.work THEN <<maint.work[c].id>> ELSE <<>>)]]]

\* Mutant: a collection the manifest knows keeps the name it has there.
FlushedManifestStaleNames ==
    [FlushedManifestReusesIds EXCEPT
        !.nextSeg = @ + Cardinality(DOMAIN maint.work),
        !.cols = [c \in DOMAIN @ |-> IF c \in DOMAIN state.manifest.cols
                                     THEN [@[c] EXCEPT !.name = state.manifest.cols[c].name]
                                     ELSE @[c]]]

\* Mutant: collections dropped since the last flush stay in the manifest.
FlushedManifestKeepsDropped ==
    [FlushedManifestReusesIds EXCEPT
        !.nextSeg = @ + Cardinality(DOMAIN maint.work),
        !.cols = [c \in DOMAIN @ \cup DOMAIN state.manifest.cols |->
                    IF c \in DOMAIN @ THEN @[c] ELSE state.manifest.cols[c]]]

\* The manifest of step 3: the collections and names as they are now, with
\* what was flushed at the end of each segment list (oldest first)
FlushedManifest ==
    [gen |-> state.manifest.gen + 1,
     nextCid |-> state.manifest.nextCid,
     nextSeg |-> state.manifest.nextSeg + Cardinality(DOMAIN maint.work),
     walSeq |-> maint.walSeq,
     cols |-> [c \in DOMAIN state.cols |->
                 [name |-> state.cols[c].name,
                  segs |-> Backwards(SegIds(state.cols[c].segments))
                           \o (IF c \in DOMAIN maint.work THEN <<maint.work[c].id>> ELSE <<>>)]]]

\* Step 3, first half: Manifest::store
FlushStore ==
    /\ maint.at = "flushWrite"
    /\ maint.done = DOMAIN maint.work
    /\ manifest' = FlushedManifest
    /\ maint' = [maint EXCEPT !.at = "flushStored"]
    /\ UNCHANGED <<wals, segFiles, phase, state, replay, written, crashes, failures>>

\* The segment directories cleanup_collection_dirs leaves
Referenced(man, files) ==
    Keep(files, {key \in DOMAIN files :
                   /\ key[1] \in DOMAIN man.cols
                   /\ \E i \in DOMAIN man.cols[key[1]].segs : man.cols[key[1]].segs[i] = key[2]})

\* Mutant: the log after seq goes too.
NewerWalsOffByOne(files, seq) == Keep(files, {s \in DOMAIN files : s > seq + 1})

\* The WAL files left when those up to seq are deleted
NewerWals(files, seq) == Keep(files, {s \in DOMAIN files : s > seq})

Flushed(c) == [id |-> maint.work[c].id, layer |-> maint.work[c].layer]

\* Mutant: the new segments go behind the older ones.
FlushedBehind(cids) ==
    [state EXCEPT !.manifest = manifest,
                  !.cols = [c \in DOMAIN @ |->
                              IF c \in cids THEN [@[c] EXCEPT !.segments = Append(@, Flushed(c))]
                              ELSE @[c]]]

\* col.segments.insert(0, seg)
InFront(col, seg) == [col EXCEPT !.segments = <<seg>> \o @]

\* The manifest just stored, and the new segments of cids opened, in front
WithFlushed(cids) ==
    [state EXCEPT !.manifest = manifest,
                  !.cols = [c \in DOMAIN @ |->
                              IF c \in cids THEN InFront(@[c], Flushed(c)) ELSE @[c]]]

\* Step 3, second half: the new segments in front, pending cleared, the
\* flushed WALs and unreferenced directories deleted
FlushFinish ==
    /\ maint.at = "flushStored"
    /\ state' = [WithFlushed(DOMAIN maint.work) EXCEPT !.pending = NoPending]
    /\ wals' = NewerWals(wals, maint.walSeq)
    /\ segFiles' = Referenced(manifest, segFiles)
    /\ maint' = Idle
    /\ UNCHANGED <<manifest, phase, replay, written, crashes, failures>>

\* ... a segment cannot be opened: those before it are in, pending stays
FlushOpenFails ==
    /\ maint.at = "flushStored"
    /\ Fails("open")
    /\ \E c \in DOMAIN maint.work \cap DOMAIN state.cols :
          state' = WithFlushed({d \in DOMAIN maint.work : d < c})
    /\ maint' = Failed
    /\ UNCHANGED <<disk, phase, replay, written, crashes>>

\* ... a deletion fails: some of what the manifest covers is still there
FlushDeleteFails ==
    /\ maint.at = "flushStored"
    /\ Fails("delete")
    /\ state' = [WithFlushed(DOMAIN maint.work) EXCEPT !.pending = NoPending]
    /\ \/ /\ \E seq \in 0..maint.walSeq : wals' = NewerWals(wals, seq)
          /\ UNCHANGED segFiles
       \/ /\ wals' = NewerWals(wals, maint.walSeq)
          /\ \E left \in SUBSET DOMAIN segFiles :
                segFiles' = Keep(segFiles, left \cup DOMAIN Referenced(manifest, segFiles))
    /\ maint' = Failed
    /\ UNCHANGED <<manifest, phase, replay, written, crashes>>

----------------------------------------------------------------------------
(* The maintenance thread: compact_collection *)

\* Step 1, under the lock: a run of the newest segments of one collection.
\* Which run the sizes call for is modelled in Collection; here any that is
\* long enough.  After a failure a cycle begins with the pending generation.
CompactRead ==
    /\ phase = "up"
    /\ maint = Idle \/ (maint = Failed /\ state.pending = NoPending)
    /\ \E c \in DOMAIN state.cols :
         LET segments == state.cols[c].segments
         IN  \E n \in 2..Len(segments) :
               /\ n = Len(segments) \/ n >= CompactionThreshold
               /\ maint' = [at |-> "compactWrite", cid |-> c,
                            run |-> SubSeq(segments, 1, n), older |-> n < Len(segments),
                            id |-> state.manifest.nextSeg]
    /\ UNCHANGED <<disk, phase, state, replay, written, crashes, failures>>

Merged == Merge(SegLayers(maint.run), maint.older)

\* Mutant: the directories of the run go before the manifest is stored.
CompactWriteDeletesRun ==
    /\ maint.at = "compactWrite"
    /\ segFiles' = Keep(IF IsEmpty(Merged) THEN segFiles
                        ELSE Put(segFiles, <<maint.cid, maint.id>>, Merged),
                        (DOMAIN segFiles \ {<<maint.cid, maint.run[i].id>> : i \in DOMAIN maint.run})
                        \cup {<<maint.cid, maint.id>>})
    /\ maint' = [maint EXCEPT !.at = "compactWritten"]
    /\ UNCHANGED <<manifest, wals, phase, state, replay, written, crashes, failures>>

\* Step 2, without the lock: the merged segment, if it has any content
CompactWrite ==
    /\ maint.at = "compactWrite"
    /\ segFiles' = IF IsEmpty(Merged) THEN segFiles
                   ELSE Put(segFiles, <<maint.cid, maint.id>>, Merged)
    /\ maint' = [maint EXCEPT !.at = "compactWritten"]
    /\ UNCHANGED <<manifest, wals, phase, state, replay, written, crashes, failures>>

NewSegment == IF IsEmpty(Merged) THEN <<>> ELSE <<[id |-> maint.id, layer |-> Merged]>>

\* The segments of collection c that are older than the run
OlderSegments(c) ==
    SubSeq(state.cols[c].segments, Len(maint.run) + 1, Len(state.cols[c].segments))

\* The manifest of step 3: the one in memory, which has the collections and
\* names of the last flush, with one segment list replaced
CompactedManifest ==
    [state.manifest EXCEPT
        !.gen = @ + 1,
        !.nextSeg = Larger(@, maint.id + 1),
        !.cols[maint.cid].segs = Backwards(SegIds(NewSegment \o OlderSegments(maint.cid)))]

\* Step 3, first half; nothing is done for a collection dropped meanwhile
CompactStore ==
    /\ maint.at = "compactWritten"
    /\ IF maint.cid \in DOMAIN state.cols
       THEN /\ manifest' = CompactedManifest
            /\ maint' = [maint EXCEPT !.at = "compactStored"]
       ELSE /\ maint' = Idle
            /\ UNCHANGED manifest
    /\ UNCHANGED <<wals, segFiles, phase, state, replay, written, crashes, failures>>

WithCompacted ==
    [state EXCEPT !.manifest = manifest,
                  !.cols[maint.cid].segments = NewSegment \o OlderSegments(maint.cid)]

RunFiles == {<<maint.cid, maint.run[i].id>> : i \in DOMAIN maint.run}

\* Step 3, second half: the run replaced in memory, its directories deleted
CompactFinish ==
    /\ maint.at = "compactStored"
    /\ state' = WithCompacted
    /\ segFiles' = Keep(segFiles, DOMAIN segFiles \ RunFiles)
    /\ maint' = Idle
    /\ UNCHANGED <<manifest, wals, phase, replay, written, crashes, failures>>

\* ... the merged segment cannot be opened: the run stays in memory
CompactOpenFails ==
    /\ maint.at = "compactStored"
    /\ NewSegment # <<>>
    /\ Fails("open")
    /\ state' = [state EXCEPT !.manifest = manifest]
    /\ maint' = Failed
    /\ UNCHANGED <<disk, phase, replay, written, crashes>>

\* ... a deletion fails: some directories of the run stay
CompactDeleteFails ==
    /\ maint.at = "compactStored"
    /\ Fails("delete")
    /\ state' = WithCompacted
    /\ \E gone \in SUBSET RunFiles : segFiles' = Keep(segFiles, DOMAIN segFiles \ gone)
    /\ maint' = Failed
    /\ UNCHANGED <<manifest, wals, phase, replay, written, crashes>>

\* An I/O error before the manifest is stored: pending and what was written
\* stay, and the next message starts over
MaintFail ==
    /\ maint.at \in {"flushWrite", "compactWrite", "compactWritten"}
    /\ maint' = Failed
    /\ UNCHANGED <<disk, phase, state, replay, written, crashes, failures>>

Maintenance ==
    \/ FlushRead \/ FlushWrite \/ FlushStore
    \/ FlushFinish \/ FlushOpenFails \/ FlushDeleteFails
    \/ CompactRead \/ CompactWrite \/ CompactStore
    \/ CompactFinish \/ CompactOpenFails \/ CompactDeleteFails
    \/ MaintFail

----------------------------------------------------------------------------
(* Process death and recovery *)

Down ==
    /\ phase' = "down"
    /\ state' = NoState
    /\ replay' = NoReplay
    /\ maint' = Idle

\* The process dies, or ends without flushing, at any point
Crash ==
    /\ phase \in {"up", "loading"}
    /\ crashes < MaxCrashes
    /\ crashes' = crashes + 1
    /\ Down
    /\ UNCHANGED <<disk, written, failures>>

\* ... in the middle of an append, which leaves part of a frame behind
CrashInAppend ==
    /\ phase = "up" /\ LockFree
    /\ crashes < MaxCrashes
    /\ crashes' = crashes + 1
    /\ wals' = Logged(Torn)
    /\ Down
    /\ UNCHANGED <<manifest, segFiles, written, failures>>

\* ... after a WAL file was made, before it has its magic
CrashInCreate ==
    /\ phase = "up" /\ LockFree /\ CanRotate(state)
    /\ state.wal + 1 \notin DOMAIN wals
    /\ crashes < MaxCrashes
    /\ crashes' = crashes + 1
    /\ Fails("create")
    /\ wals' = Put(wals, state.wal + 1, Blank)
    /\ Down
    /\ UNCHANGED <<manifest, segFiles, written>>

\* load_state 1-3: the manifest and its segments, in memory newest first; the
\* live records are counted by a scan over all of them
SegmentsOf(c) ==
    LET ids == Backwards(manifest.cols[c].segs)
    IN  [i \in 1..Len(ids) |-> [id |-> ids[i], layer |-> segFiles[<<c, ids[i]>>]]]

LoadedState ==
    [manifest |-> manifest,
     wal |-> 0,
     names |-> [name \in {manifest.cols[c].name : c \in DOMAIN manifest.cols} |->
                  CHOOSE c \in DOMAIN manifest.cols : manifest.cols[c].name = name],
     cols |-> [c \in DOMAIN manifest.cols |->
                 [NewCollection(manifest.cols[c].name) EXCEPT
                    !.segments = SegmentsOf(c),
                    !.liveLen = ScannedLen(SegLayers(SegmentsOf(c)))]],
     pending |-> NoPending]

\* Segment::open succeeds for every entry of the manifest
SegmentsReadable ==
    \A c \in DOMAIN manifest.cols : \A i \in DOMAIN manifest.cols[c].segs :
        <<c, manifest.cols[c].segs[i]>> \in DOMAIN segFiles

\* The WAL to replay after seq, in the order of list_wal_files, or 0
NextWal(seq) ==
    LET newer == {s \in DOMAIN wals : s > seq}
    IN  IF newer = {} THEN 0 ELSE CHOOSE s \in newer : \A t \in newer : s <= t

\* WalReader::read_all: the records before a partial frame
WholeFrames(records) ==
    LET whole == {n \in 0..Len(records) : \A i \in 1..n : records[i] # Torn}
    IN  SubSeq(records, 1, CHOOSE n \in whole : \A m \in whole : m <= n)

\* Go on with the log after seq, cut at a partial frame before it is applied
StartReplay(seq) ==
    LET next == NextWal(seq)
    IN  /\ replay' = [seq |-> next, pos |-> 0]
        /\ wals' = IF next = 0 THEN wals ELSE [wals EXCEPT ![next] = WholeFrames(@)]

OpenLoad ==
    /\ phase = "down"
    /\ IF SegmentsReadable
       THEN /\ phase' = "loading"
            /\ state' = LoadedState
            /\ StartReplay(manifest.walSeq)
       ELSE /\ phase' = "failed"
            /\ UNCHANGED <<wals, state, replay>>
    /\ UNCHANGED <<manifest, segFiles, maint, written, crashes, failures>>

\* The record the replay has reached
AtRecord == phase = "loading" /\ replay.seq # 0 /\ replay.pos < Len(wals[replay.seq])
NextRecord == wals[replay.seq][replay.pos + 1]

\* load_state 4: apply_record
ReplayRecord ==
    /\ AtRecord
    /\ IF Known(state, NextRecord)
       THEN /\ state' = Apply(state, NextRecord)
            /\ replay' = [replay EXCEPT !.pos = @ + 1]
            /\ UNCHANGED phase
       ELSE /\ phase' = "failed"
            /\ UNCHANGED <<state, replay>>
    /\ UNCHANGED <<disk, maint, written, crashes, failures>>

\* load_state 4: the end of a log
ReplayFileEnd ==
    /\ phase = "loading" /\ ~AtRecord
    /\ replay.seq # 0
    /\ StartReplay(replay.seq)
    /\ UNCHANGED <<manifest, segFiles, phase, state, maint, written, crashes, failures>>

\* The largest WAL seq seen by replay
MaxSeq ==
    LET seqs == DOMAIN wals \cup {manifest.walSeq}
    IN  CHOOSE s \in seqs : \A t \in seqs : t <= s

\* load_state 5 and open 6: delete what the manifest covers, create the WAL
OpenFinish ==
    /\ phase = "loading" /\ replay.seq = 0
    /\ wals' = Put(NewerWals(wals, manifest.walSeq), MaxSeq + 1, <<>>)
    /\ segFiles' = Referenced(manifest, segFiles)
    /\ state' = [state EXCEPT !.wal = MaxSeq + 1]
    /\ phase' = "up"
    /\ UNCHANGED <<manifest, replay, maint, written, crashes, failures>>

Process == Crash \/ CrashInAppend \/ CrashInCreate \/ OpenLoad \/ ReplayRecord \/ ReplayFileEnd \/ OpenFinish

Next == Client \/ Maintenance \/ Process

Spec == Init /\ [][Next]_vars

============================================================================
