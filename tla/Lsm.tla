-------------------------------- MODULE Lsm --------------------------------
(***************************************************************************)
(* The layers of one collection and the pure algorithms over them: the     *)
(* memtable (hamane-storage/src/memtable.rs), the newest-wins resolution   *)
(* of an id (StoreState::current_record, LiveView::get, LiveView::is_live) *)
(* and the merge of a run of segments (Shared::compact_collection).        *)
(*                                                                         *)
(* A layer is what a memtable holds and what SegmentWriter writes out: a   *)
(* row (or nothing) per id and a set of tombstoned ids.  A collection is   *)
(* read through a sequence of layers, newest first.  Rows keep their       *)
(* vector and their metadata apart because an UpdateMeta replaces one and  *)
(* must keep the other.                                                    *)
(***************************************************************************)
EXTENDS Naturals, Sequences, FiniteSets

CONSTANTS
    Id,         \* record ids
    Vector,     \* vector payloads
    Metadata,   \* metadata payloads
    NoRecord    \* Option::None where the code returns Option<StoredRecord>

Record == [vector: Vector, metadata: Metadata]

ASSUME NoRecordAssumption == NoRecord \notin Record

\* ids are u64
ASSUME IdAssumption == IsFiniteSet(Id)

Layer == [upserts: [Id -> Record \cup {NoRecord}], deletes: SUBSET Id]

EmptyLayer == [upserts |-> [i \in Id |-> NoRecord], deletes |-> {}]

----------------------------------------------------------------------------
(* Memtable *)

\* Mutant: an upsert leaves the marker of an earlier delete.
UpsertKeepsMarker(mt, id, rec) == [mt EXCEPT !.upserts[id] = rec]

\* Memtable::upsert: a row replaces the older row and cancels the marker.
Upsert(mt, id, rec) ==
    [upserts |-> [mt.upserts EXCEPT ![id] = rec], deletes |-> mt.deletes \ {id}]

\* Memtable::delete: the row goes and a marker stays, whether or not an older
\* layer holds the id.
Delete(mt, id) ==
    [upserts |-> [mt.upserts EXCEPT ![id] = NoRecord], deletes |-> mt.deletes \cup {id}]

HasRow(layer, id) == layer.upserts[id] # NoRecord

IsEmpty(layer) == layer = EmptyLayer

\* Memtable::len and Segment::len: rows, markers not counted.
RowCount(layer) == Cardinality({id \in Id : HasRow(layer, id)})

\* A layer holds a row or a marker for an id, never both.
Exclusive(layer) == \A id \in Id : ~(HasRow(layer, id) /\ id \in layer.deletes)

----------------------------------------------------------------------------
(* Reading through layers, newest first *)

Mentions(layer, id) == HasRow(layer, id) \/ id \in layer.deletes

\* The newest layer that mentions id; meaningful when there is one.
Newest(layers, id) ==
    CHOOSE i \in DOMAIN layers :
        /\ Mentions(layers[i], id)
        /\ \A j \in DOMAIN layers : j < i => ~Mentions(layers[j], id)

\* What a layer that mentions id says of it: the marker is looked at first.
ValueIn(layer, id) == IF id \in layer.deletes THEN NoRecord ELSE layer.upserts[id]

\* LiveView::get and StoreState::current_record: the first layer that mentions
\* the id decides.
Lookup(layers, id) ==
    IF \E i \in DOMAIN layers : Mentions(layers[i], id)
    THEN ValueIn(layers[Newest(layers, id)], id)
    ELSE NoRecord

Contents(layers) == [id \in Id |-> Lookup(layers, id)]

\* StoreState::is_id_live
IsIdLive(layers, id) == Lookup(layers, id) # NoRecord

\* Mutant: the layer right in front is not asked.
IsLiveOffByOne(layers, id, rank) == \A j \in 1..(rank - 2) : ~Mentions(layers[j], id)

\* LiveView::is_live: no layer newer than `rank` mentions the id.  A scan asks
\* it of the rows it finds; the layer at `rank` itself is not looked at.
IsLive(layers, id, rank) == \A j \in 1..(rank - 1) : ~Mentions(layers[j], id)

\* The rows a scan over all layers keeps: what search reports as candidates
\* and what scan_segments counts.
LiveRows(layers) ==
    {row \in Id \X DOMAIN layers :
        HasRow(layers[row[2]], row[1]) /\ IsLive(layers, row[1], row[2])}

----------------------------------------------------------------------------
(* Compaction *)

\* Step 2 of compact_collection, from the newest segment of the run to the
\* oldest: the first row met for an id counts (`seen`), and only if no newer
\* segment of the run tombstones the id (`deleted`).  The tombstones are
\* carried over when older segments remain, except for ids with a row.
MergedRow(run, id) ==
    IF \E i \in DOMAIN run :
          /\ HasRow(run[i], id)
          /\ \A j \in DOMAIN run : j < i => ~Mentions(run[j], id)
    THEN run[Newest(run, id)].upserts[id]
    ELSE NoRecord

\* Mutant: tombstones are never carried over.
MergeDropsMarkers(run, olderRemains) ==
    [upserts |-> [id \in Id |-> MergedRow(run, id)], deletes |-> {}]

Merge(run, olderRemains) ==
    [upserts |-> [id \in Id |-> MergedRow(run, id)],
     deletes |-> IF olderRemains
                 THEN {id \in UNION {run[i].deletes : i \in DOMAIN run} :
                          MergedRow(run, id) = NoRecord}
                 ELSE {}]

============================================================================
