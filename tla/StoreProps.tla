----------------------------- MODULE StoreProps -----------------------------
(***************************************************************************)
(* The properties of Store.  The history variable `seen` is what clients   *)
(* can tell of the store: it follows the state while the store is up and   *)
(* keeps its last value while the process is down or recovering, so that a *)
(* step that changes it is either an operation or something a recovery did *)
(* to the data.                                                            *)
(***************************************************************************)
EXTENDS Store

VARIABLE seen

View(st) ==
    [names   |-> st.names,
     catalog |-> [c \in DOMAIN st.cols |-> st.cols[c].name],
     data    |-> [c \in DOMAIN st.cols |-> Contents(Layers(st, c))],
     lengths |-> [c \in DOMAIN st.cols |-> st.cols[c].liveLen],
     next    |-> st.manifest.nextCid]

NothingSeen ==
    [names |-> NoEntries, catalog |-> NoEntries, data |-> NoEntries,
     lengths |-> NoEntries, next |-> 0]

InitV == Init /\ seen = NothingSeen
Observe == seen' = IF phase' = "up" THEN View(state') ELSE seen
NextV == (Client /\ Observe) \/ (Maintenance /\ Observe) \/ (Process /\ Observe)
varsV == <<vars, seen>>
SpecV == InitV /\ [][NextV]_varsV

Recovers == phase = "loading" /\ phase' = "up"

----------------------------------------------------------------------------
(* Recovery *)

\* The store can be opened again after a crash at any point: no segment of the
\* manifest is missing and replay knows every collection it meets.
Recoverable == phase # "failed"

\* Recovery loses no acknowledged write, brings back no deleted record and no
\* dropped collection, and gives the lengths and the next collection number the
\* store had: logging, flush, compaction and replay agree on the data.
DataRecovered ==
    [][Recovers => /\ seen'.data = seen.data
                   /\ seen'.lengths = seen.lengths
                   /\ seen'.next = seen.next]_varsV

\* Recovery gives every collection the name it had before.
NamesRecovered ==
    [][Recovers => seen'.names = seen.names /\ seen'.catalog = seen.catalog]_varsV

\* A record after position i of log s drops collection c.
DroppedAfter(c, s, i) ==
    \E t \in DOMAIN wals : \E j \in DOMAIN wals[t] :
        /\ s < t \/ (s = t /\ i < j)
        /\ wals[t][j].op = "drop" /\ wals[t][j].cid = c

\* A collection dropped while an earlier generation is being flushed is the
\* one case in which the store cannot be opened again: the manifest leaves the
\* collection out, and a log it does not cover has a record of the collection
\* before the one that drops it.  Dropped before it was ever flushed, or
\* after, it gives no trouble.
RecoverableUnlessRaced ==
    phase = "failed" =>
        /\ replay.seq # 0
        /\ \E c \in Refers(NextRecord) \ DOMAIN state.cols :
              c < manifest.nextCid /\ DroppedAfter(c, replay.seq, replay.pos + 1)

----------------------------------------------------------------------------
(* Memory and disk *)

\* The length kept by difference is the number of live records of every open
\* collection, after any number of recoveries, where it starts again from a
\* scan over the segments and follows the replay.
StoreLiveLenExact ==
    phase = "up" =>
        \A c \in DOMAIN state.cols : state.cols[c].liveLen = LiveCount(Layers(state, c))

\* The name table and the names kept in the collections are inverse to each other
\* whenever the store is open, whatever records, flushes and deaths lie behind it:
\* a manifest has the names of its commit, and replay puts renames of before and
\* after that on top of them.  It is so as long as clients do not swap names; a
\* swap that is replayed on top of its own result may leave two collections with
\* one name (NamesRecovered and NamesUnique are about that).
NamesBijective ==
    phase = "up" =>
        /\ \A n \in DOMAIN state.names :
              state.names[n] \in DOMAIN state.cols /\ state.cols[state.names[n]].name = n
        /\ \A c \in DOMAIN state.cols :
              state.cols[c].name \in DOMAIN state.names /\ state.names[state.cols[c].name] = c

\* No two open collections have the same name.
NamesUnique ==
    phase = "up" =>
        \A c, d \in DOMAIN state.cols : state.cols[c].name = state.cols[d].name => c = d

\* No deletion of directories, by a flush, a compaction or an open, takes a
\* segment that the manifest on disk names or a reader has open, and no later
\* segment is written over it.
SegmentsIntact ==
    /\ \A c \in DOMAIN manifest.cols : \A i \in DOMAIN manifest.cols[c].segs :
          <<c, manifest.cols[c].segs[i]>> \in DOMAIN segFiles
    /\ phase = "up" =>
          \A c \in DOMAIN state.cols : \A i \in DOMAIN state.cols[c].segments :
              LET seg == state.cols[c].segments[i]
              IN  <<c, seg.id>> \in DOMAIN segFiles /\ segFiles[<<c, seg.id>>] = seg.layer

\* Between two commits the manifest in memory is the one on disk, and a
\* collection it does not list has no segments: compact_collection relies on
\* this when it expects its collection in the manifest.  As long as no commit
\* failed half way the lists are those of memory in reverse.
ManifestFollowsMemory ==
    phase = "up" /\ LockFree =>
        /\ state.manifest.cols = manifest.cols
        /\ \A c \in DOMAIN state.cols :
              /\ c \notin DOMAIN manifest.cols => state.cols[c].segments = <<>>
              /\ c \in DOMAIN manifest.cols /\ failures = 0 =>
                    SegIds(state.cols[c].segments) = Backwards(manifest.cols[c].segs)

\* What is in memory only is in a log that the next open replays: the log of
\* the active memtables, and that of the pending ones until they are flushed,
\* are not older than what the manifest covers, and no log between them is
\* missing.
LogsKept ==
    phase = "up" =>
        /\ manifest.walSeq < state.wal
        /\ state.wal \in DOMAIN wals
        /\ state.pending # NoPending =>
              /\ manifest.walSeq <= state.pending.walSeq
              /\ state.pending.walSeq .. state.wal \subseteq DOMAIN wals

----------------------------------------------------------------------------
(* The store implements its abstract specification: whatever the           *)
(* maintenance thread does, and across crashes and recoveries, what clients *)
(* see changes only as one operation of the API would change it.           *)

Abs == INSTANCE StoreAbs WITH names <- seen.names, data <- seen.data, next <- seen.next,
                              ops <- written
ImplementsStoreAbs == Abs!Spec
============================================================================
