------------------------------- MODULE KVMap -------------------------------
(***************************************************************************)
(* What one collection promises its clients: a map from ids to records     *)
(* that changes only by upserts, deletes and metadata updates, and a       *)
(* length that always counts its records.  Nothing in it knows about       *)
(* memtables, segments, flushes or compactions.                            *)
(***************************************************************************)
EXTENDS Naturals, FiniteSets

CONSTANTS Id, Vector, Metadata, NoRecord

VARIABLES map, len

vars == <<map, len>>

Record == [vector: Vector, metadata: Metadata]

Init == map = [id \in Id |-> NoRecord] /\ len = 0

Upsert(id, rec) ==
    /\ map' = [map EXCEPT ![id] = rec]
    /\ len' = IF map[id] = NoRecord THEN len + 1 ELSE len

Delete(id) ==
    /\ map' = [map EXCEPT ![id] = NoRecord]
    /\ len' = IF map[id] = NoRecord THEN len ELSE len - 1

\* Metadata is replaced, the vector stays; an absent record is not revived.
UpdateMetadata(id, metadata) ==
    /\ map[id] # NoRecord
    /\ map' = [map EXCEPT ![id] = [vector |-> map[id].vector, metadata |-> metadata]]
    /\ UNCHANGED len

\* A batch of one kind of write is one change of the map.
Becomes(new) == map' = new /\ len' = Cardinality({id \in Id : new[id] # NoRecord})

UpsertBatch(rows) == Becomes([id \in Id |-> IF id \in DOMAIN rows THEN rows[id] ELSE map[id]])

DeleteBatch(ids) == Becomes([id \in Id |-> IF id \in ids THEN NoRecord ELSE map[id]])

UpdateBatch(recs) ==
    Becomes([id \in Id |->
        IF id \in DOMAIN recs /\ map[id] # NoRecord
        THEN [vector |-> map[id].vector, metadata |-> recs[id].metadata] ELSE map[id]])

Next ==
    \E id \in Id :
        \/ \E rec \in Record : Upsert(id, rec)
        \/ Delete(id)
        \/ \E metadata \in Metadata : UpdateMetadata(id, metadata)

Spec == Init /\ [][Next]_vars
============================================================================
