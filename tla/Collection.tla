----------------------------- MODULE Collection -----------------------------
(***************************************************************************)
(* One collection of an open store (hamane-storage/src/store.rs): its      *)
(* active memtable, the memtable waiting to be flushed, its segments and   *)
(* the length kept by difference, while client threads write to it and the *)
(* maintenance thread flushes and compacts it.  Every step of a client is  *)
(* one critical section of the state mutex.  The maintenance thread works  *)
(* in two critical sections with the lock released in between: it reads    *)
(* the memtable or the segments, builds a segment from what it read, and   *)
(* comes back to install it.                                               *)
(*                                                                         *)
(* Left to module Store: the WAL, the manifest, crashes, other             *)
(* collections and drop.                                                   *)
(***************************************************************************)
EXTENDS Lsm, Integers

CONSTANTS
    FlushThreshold,       \* flush_threshold_bytes, in rows
    CompactionThreshold,  \* StoreOptions::compaction_threshold
    SizeRatio,            \* the literal 4 of the partial run selection
    MaxSegments,          \* bound of the model: no flush starts above it
    NoLayer               \* pending_flush = None

ASSUME CollectionAssumption ==
    /\ FlushThreshold \in Nat \ {0}
    /\ CompactionThreshold \in Nat
    /\ SizeRatio \in Nat
    /\ MaxSegments \in Nat
    /\ NoLayer \notin Layer

VARIABLES
    active,    \* CollectionState::memtable
    pending,   \* this collection's memtable in StoreState::pending_flush
    segments,  \* CollectionState::segments, newest first
    liveLen,   \* CollectionState::live_len
    maint      \* where the maintenance thread is and what it read

vars == <<active, pending, segments, liveLen, maint>>

Idle == [at |-> "idle"]
Flushing(layer) == [at |-> "flush", layer |-> layer]
Compacting(run, older) == [at |-> "compact", run |-> run, older |-> older]

Maint ==
    {Idle} \cup [at: {"flush"}, layer: Layer]
           \cup [at: {"compact"}, run: Seq(Layer), older: BOOLEAN]

TypeOK ==
    /\ active \in Layer
    /\ pending \in Layer \cup {NoLayer}
    /\ segments \in Seq(Layer)
    /\ liveLen \in Nat
    /\ maint \in Maint

\* The order of every read: active, pending, segments.
Layers(mt, waiting, segs) ==
    <<mt>> \o (IF waiting = NoLayer THEN <<>> ELSE <<waiting>>) \o segs

Current == Layers(active, pending, segments)

Init ==
    /\ active = EmptyLayer
    /\ pending = NoLayer
    /\ segments = <<>>
    /\ liveLen = 0
    /\ maint = Idle

----------------------------------------------------------------------------
(* Clients *)

\* Mutant: a memtable that is still being flushed is replaced.
InstallOverPending(mt) ==
    IF RowCount(mt) >= FlushThreshold
    THEN active' = EmptyLayer /\ pending' = mt
    ELSE active' = mt /\ UNCHANGED pending

\* The end of every write: maybe_flush.  Over the threshold the memtable
\* becomes the pending one, unless a pending one is still being flushed; the
\* writer that then waits for it (backpressure) comes back with Rotate.
Install(mt) ==
    IF RowCount(mt) >= FlushThreshold /\ pending = NoLayer
    THEN active' = EmptyLayer /\ pending' = mt
    ELSE active' = mt /\ UNCHANGED pending

\* upsert_batch with one record
UpsertRecord(id, rec) ==
    /\ liveLen' = IF IsIdLive(Current, id) THEN liveLen ELSE liveLen + 1
    /\ Install(Upsert(active, id, rec))
    /\ UNCHANGED <<segments, maint>>

\* Mutant: a delete is counted whether or not the id was live.
DeleteAlwaysCounts(id) ==
    /\ liveLen' = liveLen - 1
    /\ Install(Delete(active, id))
    /\ UNCHANGED <<segments, maint>>

\* delete; a marker is written even when nothing is there
DeleteRecord(id) ==
    /\ liveLen' = IF IsIdLive(Current, id) THEN liveLen - 1 ELSE liveLen
    /\ Install(Delete(active, id))
    /\ UNCHANGED <<segments, maint>>

\* update_metadata_batch with one update: the current vector, found in
\* whichever layer holds it, is written again with the new metadata
UpdateMetadata(id, metadata) ==
    /\ IsIdLive(Current, id)
    /\ Install(Upsert(active, id, [vector   |-> Lookup(Current, id).vector,
                                   metadata |-> metadata]))
    /\ UNCHANGED <<segments, liveLen, maint>>

\* rotate, called by flush(), by compact() and by a writer released from
\* backpressure
Rotate ==
    /\ pending = NoLayer
    /\ ~IsEmpty(active)
    /\ pending' = active
    /\ active' = EmptyLayer
    /\ UNCHANGED <<segments, liveLen, maint>>

----------------------------------------------------------------------------
(* The maintenance thread *)

\* flush_pending, first critical section: the Arc of the pending memtable
FlushRead ==
    /\ maint = Idle
    /\ pending # NoLayer
    /\ Len(segments) < MaxSegments
    /\ maint' = Flushing(pending)
    /\ UNCHANGED <<active, pending, segments, liveLen>>

\* flush_pending, second critical section
FlushInstall ==
    /\ maint.at = "flush"
    /\ segments' = <<maint.layer>> \o segments
    /\ pending' = NoLayer
    /\ maint' = Idle
    /\ UNCHANGED <<active, liveLen>>

\* The rows of the first n segments
RunRows(segs, n) ==
    LET rows[k \in 0..n] == IF k = 0 THEN 0 ELSE rows[k - 1] + RowCount(segs[k])
    IN  rows[n]

\* "the next (older) segment is at most SizeRatio times the run so far"
Fits(segs, n) ==
    \/ RowCount(segs[n + 1]) <= SizeRatio * RunRows(segs, n)
    \/ RowCount(segs[n + 1]) <= SizeRatio

\* CompactMode::Partial: extend the run from the newest segment while the next
\* one fits, then merge it only if it is long enough.
PartialRun(segs, n) ==
    /\ \A k \in 1..(n - 1) : Fits(segs, k)
    /\ n < Len(segs) => ~Fits(segs, n)
    /\ n >= CompactionThreshold /\ n >= 2

\* compact_collection, first critical section: Partial after a flush when
\* there are compaction_threshold segments, Full on compact()
CompactRead ==
    /\ maint = Idle
    /\ Len(segments) >= 2
    /\ \E n \in 1..Len(segments) :
         /\ \/ n = Len(segments)
            \/ Len(segments) >= CompactionThreshold /\ PartialRun(segments, n)
         /\ maint' = Compacting(SubSeq(segments, 1, n), n < Len(segments))
    /\ UNCHANGED <<active, pending, segments, liveLen>>

Merged == Merge(maint.run, maint.older)

\* The segments older than the run
Older(segs, run) == SubSeq(segs, Len(run) + 1, Len(segs))

\* Mutant: everything there is when the merge ends is replaced.
CompactInstallAll ==
    /\ maint.at = "compact"
    /\ segments' = IF IsEmpty(Merged) THEN <<>> ELSE <<Merged>>
    /\ maint' = Idle
    /\ UNCHANGED <<active, pending, liveLen>>

\* compact_collection, last critical section: an empty merge leaves no segment
CompactInstall ==
    /\ maint.at = "compact"
    /\ segments' = (IF IsEmpty(Merged) THEN <<>> ELSE <<Merged>>) \o Older(segments, maint.run)
    /\ maint' = Idle
    /\ UNCHANGED <<active, pending, liveLen>>

\* An I/O error in either: pending stays for the next message
MaintFail ==
    /\ maint # Idle
    /\ maint' = Idle
    /\ UNCHANGED <<active, pending, segments, liveLen>>

----------------------------------------------------------------------------

Client ==
    \/ \E id \in Id :
         \/ \E rec \in Record : UpsertRecord(id, rec)
         \/ DeleteRecord(id)
         \/ \E metadata \in Metadata : UpdateMetadata(id, metadata)
    \/ Rotate

Maintenance == FlushRead \/ FlushInstall \/ CompactRead \/ CompactInstall \/ MaintFail

Next == Client \/ Maintenance

Spec == Init /\ [][Next]_vars

----------------------------------------------------------------------------
(* Properties *)

\* The length kept by difference through writes, flushes and merges is the
\* number of live records (CollectionState::live_len, returned by count()).
LiveLenExact == liveLen = Cardinality({id \in Id : IsIdLive(Current, id)})

\* A scan that keeps a row when no newer layer mentions its id (LiveView::is_live,
\* what search does) reports exactly the records a point read (LiveView::get)
\* finds, each once, whatever flushes and merges did to the layers.
ScanAgreesWithGet ==
    \A id \in Id :
        /\ IsIdLive(Current, id) => \E row \in LiveRows(Current) : row[1] = id
        /\ \A row, other \in LiveRows(Current) :
              row[1] = id /\ other[1] = id =>
                 /\ row = other
                 /\ Current[row[2]].upserts[id] = Lookup(Current, id)

\* What the maintenance thread read before it released the lock is still what
\* it replaces when it takes the lock again: only it changes the segments, and
\* a pending memtable is never exchanged for another one.
MaintReadStillCurrent ==
    /\ maint.at = "flush" => pending = maint.layer
    /\ maint.at = "compact" =>
          /\ Len(maint.run) <= Len(segments)
          /\ maint.run = SubSeq(segments, 1, Len(maint.run))
          /\ ~maint.older => Len(maint.run) = Len(segments)

\* In every layer an id has a row or a marker and never both: reads look at the
\* marker first, a scan looks at the row only, and they agree because of this.
LayersExclusive ==
    /\ Exclusive(active)
    /\ pending # NoLayer => Exclusive(pending)
    /\ \A i \in DOMAIN segments : Exclusive(segments[i])

\* Clients of the collection see a plain map: flushes, merges and failed
\* maintenance are invisible to them.
Map == INSTANCE KVMap WITH map <- Contents(Current), len <- liveLen
ImplementsMap == Map!Spec
============================================================================
