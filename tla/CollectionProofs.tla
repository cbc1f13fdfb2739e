-------------------------- MODULE CollectionProofs --------------------------
(***************************************************************************)
(* Collection implements KVMap: for any ids, vectors, metadata, thresholds *)
(* and number of segments, clients see a map while the maintenance thread  *)
(* flushes and merges what it read before it released the lock.            *)
(***************************************************************************)
EXTENDS Calls, LsmProofs, FiniteSetTheorems

IndInv == TypeOK /\ LayersExclusive /\ MaintReadStillCurrent /\ LiveLenExact

LEMMA LayersType ==
    ASSUME NEW mt \in Layer, NEW waiting \in Layer \cup {NoLayer}, NEW segs \in Seq(Layer)
    PROVE  Layers(mt, waiting, segs) \in Seq(Layer)
BY DEF Layers

\* A read of the collection, layer by layer.
LEMMA LookupLayers ==
    ASSUME NEW mt \in Layer, NEW waiting \in Layer \cup {NoLayer}, NEW segs \in Seq(Layer),
           NEW id \in Id
    PROVE  Lookup(Layers(mt, waiting, segs), id) =
              IF Mentions(mt, id) THEN ValueIn(mt, id)
              ELSE IF waiting # NoLayer /\ Mentions(waiting, id) THEN ValueIn(waiting, id)
              ELSE Lookup(segs, id)
<1>1. CASE waiting = NoLayer
  <2>1. Layers(mt, waiting, segs) = <<mt>> \o segs
    BY <1>1 DEF Layers
  <2> QED BY <1>1, <2>1, LookupCons
<1>2. CASE waiting # NoLayer
  <2>1. waiting \in Layer /\ <<waiting>> \o segs \in Seq(Layer)
    BY <1>2
  <2>2. Layers(mt, waiting, segs) = <<mt>> \o (<<waiting>> \o segs)
    BY <1>2, <2>1 DEF Layers
  <2>3. Lookup(<<waiting>> \o segs, id) =
          IF Mentions(waiting, id) THEN ValueIn(waiting, id) ELSE Lookup(segs, id)
    BY <2>1, LookupCons
  <2> QED BY <1>2, <2>1, <2>2, <2>3, LookupCons
<1> QED BY <1>1, <1>2

\* Rotation moves the memtable and changes no read.
LEMMA RotateLookup ==
    ASSUME NEW mt \in Layer, NEW segs \in Seq(Layer), NEW id \in Id
    PROVE  Lookup(Layers(EmptyLayer, mt, segs), id) = Lookup(Layers(mt, NoLayer, segs), id)
<1>1. mt # NoLayer
  BY CollectionAssumption
<1>2. EmptyLayer \in Layer /\ ~Mentions(EmptyLayer, id)
  BY LayerTypes
<1>3. Lookup(Layers(EmptyLayer, mt, segs), id) =
        IF Mentions(mt, id) THEN ValueIn(mt, id) ELSE Lookup(segs, id)
  BY <1>1, <1>2, LookupLayers
<1>4. Lookup(Layers(mt, NoLayer, segs), id) =
        IF Mentions(mt, id) THEN ValueIn(mt, id) ELSE Lookup(segs, id)
  BY LookupLayers
<1> QED BY <1>3, <1>4

\* A write to the memtable changes the read of its id only.
LEMMA UpsertLookup ==
    ASSUME NEW mt \in Layer, NEW waiting \in Layer \cup {NoLayer}, NEW segs \in Seq(Layer),
           NEW id \in Id, NEW rec \in Record, NEW other \in Id
    PROVE  Lookup(Layers(Upsert(mt, id, rec), waiting, segs), other) =
              IF other = id THEN rec ELSE Lookup(Layers(mt, waiting, segs), other)
<1>1. Upsert(mt, id, rec) \in Layer
  BY LayerTypes
<1> QED BY <1>1, LookupLayers, UpsertMentions

LEMMA DeleteLookup ==
    ASSUME NEW mt \in Layer, NEW waiting \in Layer \cup {NoLayer}, NEW segs \in Seq(Layer),
           NEW id \in Id, NEW other \in Id
    PROVE  Lookup(Layers(Delete(mt, id), waiting, segs), other) =
              IF other = id THEN NoRecord ELSE Lookup(Layers(mt, waiting, segs), other)
<1>1. Delete(mt, id) \in Layer
  BY LayerTypes
<1> QED BY <1>1, LookupLayers, DeleteMentions

\* The end of a write, with or without rotation.
LEMMA InstallEffect ==
    ASSUME TypeOK, LayersExclusive, NEW mt \in Layer, Exclusive(mt), Install(mt)
    PROVE  /\ active' \in Layer /\ Exclusive(active')
           /\ pending' \in Layer \cup {NoLayer}
           /\ pending' # NoLayer => Exclusive(pending')
           /\ pending # NoLayer => pending' = pending
           /\ \A id \in Id : Lookup(Layers(active', pending', segments), id)
                               = Lookup(Layers(mt, pending, segments), id)
<1>1. CASE RowCount(mt) >= FlushThreshold /\ pending = NoLayer
  BY <1>1, LayerTypes, RotateLookup DEF Install, TypeOK
<1>2. CASE ~(RowCount(mt) >= FlushThreshold /\ pending = NoLayer)
  BY <1>2 DEF Install, TypeOK, LayersExclusive
<1> QED BY <1>1, <1>2

----------------------------------------------------------------------------
(* The length *)

LEMMA LiveLenIs == LiveLenExact <=> liveLen = Cardinality(Live(Contents(Current)))
<1>1. Live(Contents(Current)) = {id \in Id : IsIdLive(Current, id)}
  BY DEF Live, Contents, IsIdLive
<1> QED BY <1>1 DEF LiveLenExact

LEMMA CurrentType ==
    ASSUME TypeOK
    PROVE  Current \in Seq(Layer) /\ Contents(Current) \in [Id -> Record \cup {NoRecord}]
<1>1. Current \in Seq(Layer)
  BY LayersType DEF TypeOK, Current
<1> QED BY <1>1, LookupType DEF Contents

\* What the maintenance thread read stays current when no client step touches
\* the segments or exchanges the pending memtable.
LEMMA MaintKept ==
    ASSUME IndInv, UNCHANGED <<segments, maint>>, pending # NoLayer => pending' = pending
    PROVE  MaintReadStillCurrent'
<1>1. CASE maint.at = "flush"
  <2>1. maint.layer \in Layer
    BY <1>1 DEF IndInv, TypeOK, Maint, Idle
  <2>2. pending # NoLayer
    BY <1>1, <2>1, CollectionAssumption DEF IndInv, MaintReadStillCurrent
  <2> QED BY <1>1, <2>2 DEF IndInv, MaintReadStillCurrent
<1>2. CASE maint.at # "flush"
  BY <1>2 DEF IndInv, MaintReadStillCurrent
<1> QED BY <1>1, <1>2

----------------------------------------------------------------------------
(* Clients *)

\* The common part of the three writes: the memtable becomes mt, which differs
\* from the active one in what it says of one id.
LEMMA WriteStep ==
    ASSUME IndInv, NEW id \in Id, NEW val \in Record \cup {NoRecord},
           NEW mt \in Layer, Exclusive(mt), Install(mt), UNCHANGED <<segments, maint>>,
           \A other \in Id : Lookup(Layers(mt, pending, segments), other)
                              = IF other = id THEN val ELSE Lookup(Current, other),
           liveLen' = IF Lookup(Current, id) = NoRecord <=> val = NoRecord THEN liveLen
                      ELSE IF val = NoRecord THEN liveLen - 1 ELSE liveLen + 1
    PROVE  IndInv' /\ Contents(Current)' = [Contents(Current) EXCEPT ![id] = val]
<1>1. /\ active' \in Layer /\ Exclusive(active')
      /\ pending' \in Layer \cup {NoLayer}
      /\ pending' # NoLayer => Exclusive(pending')
      /\ pending # NoLayer => pending' = pending
      /\ \A other \in Id : Lookup(Layers(active', pending', segments), other)
                              = Lookup(Layers(mt, pending, segments), other)
  BY InstallEffect DEF IndInv
<1>2. Contents(Current)' = [Contents(Current) EXCEPT ![id] = val]
  BY <1>1 DEF Contents, Current
<1>3. /\ Contents(Current) \in [Id -> Record \cup {NoRecord}]
      /\ Contents(Current)[id] = Lookup(Current, id)
  BY CurrentType DEF IndInv, Contents
<1>4. liveLen = Cardinality(Live(Contents(Current))) /\ liveLen \in Nat
  BY LiveLenIs DEF IndInv, TypeOK
<1>5. liveLen' = Cardinality(Live(Contents(Current)')) /\ liveLen' \in Nat
  <2> DEFINE map == Contents(Current)
             new == [map EXCEPT ![id] = val]
  <2>1. map \in [Id -> Record \cup {NoRecord}] /\ map[id] = Lookup(Current, id)
    BY <1>3
  <2>2. liveLen = Cardinality(Live(map)) /\ liveLen \in Nat
    BY <1>4
  <2> HIDE DEF map
  <2> SUFFICES liveLen' = Cardinality(Live(new)) /\ liveLen' \in Nat
    BY <1>2 DEF map
  <2>3. /\ map[id] # NoRecord => Cardinality(Live(map)) >= 1
        /\ map[id] = NoRecord /\ val # NoRecord
             => Cardinality(Live(new)) = Cardinality(Live(map)) + 1
        /\ map[id] # NoRecord /\ val = NoRecord
             => Cardinality(Live(new)) = Cardinality(Live(map)) - 1
        /\ (map[id] = NoRecord <=> val = NoRecord)
             => Cardinality(Live(new)) = Cardinality(Live(map))
    BY <2>1, LiveAfterWrite, Zenon
  <2>4. CASE map[id] = NoRecord <=> val = NoRecord
    BY <2>1, <2>2, <2>3, <2>4
  <2>5. CASE map[id] = NoRecord /\ val # NoRecord
    BY <2>1, <2>2, <2>3, <2>5
  <2>6. CASE map[id] # NoRecord /\ val = NoRecord
    BY <2>1, <2>2, <2>3, <2>6
  <2> QED BY <2>4, <2>5, <2>6
<1>6. LiveLenExact'
  BY <1>5, LiveLenIs DEF Live, Contents, IsIdLive, LiveLenExact
<1>7. MaintReadStillCurrent'
  BY <1>1, MaintKept
<1>8. TypeOK' /\ LayersExclusive'
  BY <1>1, <1>5 DEF IndInv, TypeOK, LayersExclusive
<1> QED BY <1>2, <1>6, <1>7, <1>8 DEF IndInv

LEMMA UpsertStep ==
    ASSUME IndInv, NEW id \in Id, NEW rec \in Record, UpsertRecord(id, rec)
    PROVE  IndInv' /\ Map!Upsert(id, rec)
<1>1. Upsert(active, id, rec) \in Layer /\ Exclusive(Upsert(active, id, rec))
  BY LayerTypes DEF IndInv, TypeOK, LayersExclusive
<1>2. \A other \in Id : Lookup(Layers(Upsert(active, id, rec), pending, segments), other)
                          = IF other = id THEN rec ELSE Lookup(Current, other)
  BY UpsertLookup DEF IndInv, TypeOK, Current
<1>3. rec # NoRecord
  BY NoRecordAssumption
<1>4. IndInv' /\ Contents(Current)' = [Contents(Current) EXCEPT ![id] = rec]
  BY <1>1, <1>2, <1>3, WriteStep DEF UpsertRecord, IsIdLive
<1> QED BY <1>4 DEF Map!Upsert, UpsertRecord, IsIdLive, Contents

LEMMA DeleteStep ==
    ASSUME IndInv, NEW id \in Id, DeleteRecord(id)
    PROVE  IndInv' /\ Map!Delete(id)
<1>1. Delete(active, id) \in Layer /\ Exclusive(Delete(active, id))
  BY LayerTypes DEF IndInv, TypeOK, LayersExclusive
<1>2. \A other \in Id : Lookup(Layers(Delete(active, id), pending, segments), other)
                          = IF other = id THEN NoRecord ELSE Lookup(Current, other)
  BY DeleteLookup DEF IndInv, TypeOK, Current
<1>3. IndInv' /\ Contents(Current)' = [Contents(Current) EXCEPT ![id] = NoRecord]
  BY <1>1, <1>2, WriteStep DEF DeleteRecord, IsIdLive
<1> QED BY <1>3 DEF Map!Delete, DeleteRecord, IsIdLive, Contents

LEMMA UpdateStep ==
    ASSUME IndInv, NEW id \in Id, NEW metadata \in Metadata, UpdateMetadata(id, metadata)
    PROVE  IndInv' /\ Map!UpdateMetadata(id, metadata)
<1> DEFINE rec == [vector |-> Lookup(Current, id).vector, metadata |-> metadata]
<1>1. rec \in Record
  <2>1. Lookup(Current, id) \in Record
    BY CurrentType, LookupType DEF IndInv, UpdateMetadata, IsIdLive
  <2> QED BY <2>1 DEF Record
<1>2. UNCHANGED <<segments, maint>> /\ liveLen' = liveLen /\ Install(Upsert(active, id, rec))
      /\ Lookup(Current, id) # NoRecord
  BY DEF UpdateMetadata, IsIdLive
<1> HIDE DEF rec
<1>3. Upsert(active, id, rec) \in Layer /\ Exclusive(Upsert(active, id, rec))
  BY <1>1, LayerTypes DEF IndInv, TypeOK, LayersExclusive
<1>4. \A other \in Id : Lookup(Layers(Upsert(active, id, rec), pending, segments), other)
                          = IF other = id THEN rec ELSE Lookup(Current, other)
  BY <1>1, UpsertLookup DEF IndInv, TypeOK, Current
<1>5. rec # NoRecord
  BY <1>1, NoRecordAssumption
<1>6. IndInv' /\ Contents(Current)' = [Contents(Current) EXCEPT ![id] = rec]
  BY <1>1, <1>2, <1>3, <1>4, <1>5, WriteStep
<1> QED BY <1>2, <1>6 DEF Map!UpdateMetadata, Contents, rec

----------------------------------------------------------------------------
(* Steps no client sees *)

LEMMA SilentStep ==
    ASSUME IndInv, TypeOK', LayersExclusive', MaintReadStillCurrent', liveLen' = liveLen,
           \A id \in Id : Lookup(Current, id)' = Lookup(Current, id)
    PROVE  IndInv' /\ UNCHANGED Map!vars
<1>1. LiveLenExact'
  <2>1. {id \in Id : IsIdLive(Current, id)}' = {id \in Id : IsIdLive(Current, id)}
    BY DEF IsIdLive
  <2> QED BY <2>1 DEF IndInv, LiveLenExact
<1>2. UNCHANGED Map!vars
  BY DEF Map!vars, Contents
<1> QED BY <1>1, <1>2 DEF IndInv

LEMMA RotateStep == ASSUME IndInv, Rotate PROVE IndInv' /\ UNCHANGED Map!vars
<1>1. \A id \in Id : Lookup(Current, id)' = Lookup(Current, id)
  BY RotateLookup DEF Rotate, IndInv, TypeOK, Current
<1>2. MaintReadStillCurrent'
  BY MaintKept DEF Rotate
<1>3. TypeOK' /\ LayersExclusive'
  BY LayerTypes DEF Rotate, IndInv, TypeOK, LayersExclusive
<1> QED BY <1>1, <1>2, <1>3, SilentStep DEF Rotate

LEMMA FlushReadStep == ASSUME IndInv, FlushRead PROVE IndInv' /\ UNCHANGED Map!vars
<1>1. \A id \in Id : Lookup(Current, id)' = Lookup(Current, id)
  BY DEF FlushRead, Current
<1>2. maint' \in Maint
  BY DEF FlushRead, Flushing, Maint, IndInv, TypeOK
<1>3. MaintReadStillCurrent'
  BY DEF FlushRead, Flushing, MaintReadStillCurrent
<1>4. TypeOK' /\ LayersExclusive'
  BY <1>2 DEF FlushRead, IndInv, TypeOK, LayersExclusive
<1> QED BY <1>1, <1>3, <1>4, SilentStep DEF FlushRead

LEMMA FlushInstallStep == ASSUME IndInv, FlushInstall PROVE IndInv' /\ UNCHANGED Map!vars
<1>1. /\ maint.layer \in Layer /\ pending = maint.layer
      /\ segments \in Seq(Layer) /\ active \in Layer
      /\ pending # NoLayer
      /\ Exclusive(maint.layer)
  BY CollectionAssumption
     DEF FlushInstall, IndInv, TypeOK, Maint, Idle, MaintReadStillCurrent, LayersExclusive
<1>2. segments' \in Seq(Layer)
  BY <1>1 DEF FlushInstall
<1>3. ASSUME NEW id \in Id PROVE Lookup(Current, id)' = Lookup(Current, id)
  <2>1. Lookup(segments', id) = IF Mentions(maint.layer, id) THEN ValueIn(maint.layer, id)
                                ELSE Lookup(segments, id)
    BY <1>1, LookupCons DEF FlushInstall
  <2>2. Lookup(Layers(active, NoLayer, segments'), id) =
          IF Mentions(active, id) THEN ValueIn(active, id) ELSE Lookup(segments', id)
    BY <1>1, <1>2, LookupLayers
  <2>3. Lookup(Layers(active, pending, segments), id) =
          IF Mentions(active, id) THEN ValueIn(active, id)
          ELSE IF Mentions(maint.layer, id) THEN ValueIn(maint.layer, id)
          ELSE Lookup(segments, id)
    BY <1>1, LookupLayers
  <2> QED BY <2>1, <2>2, <2>3 DEF FlushInstall, Current
<1>4. LayersExclusive'
  <2>1. ASSUME NEW i \in DOMAIN segments' PROVE Exclusive(segments'[i])
    <3>1. CASE i = 1
      BY <1>1, <3>1 DEF FlushInstall
    <3>2. CASE i # 1
      <4>1. i - 1 \in DOMAIN segments /\ segments'[i] = segments[i - 1]
        BY <1>1, <2>1, <3>2 DEF FlushInstall
      <4> QED BY <4>1 DEF IndInv, LayersExclusive
    <3> QED BY <3>1, <3>2
  <2> QED BY <2>1 DEF FlushInstall, IndInv, LayersExclusive
<1>5. TypeOK' /\ MaintReadStillCurrent'
  BY <1>2 DEF FlushInstall, IndInv, TypeOK, Maint, Idle, MaintReadStillCurrent
<1> QED BY <1>3, <1>4, <1>5, SilentStep DEF FlushInstall

LEMMA CompactReadStep == ASSUME IndInv, CompactRead PROVE IndInv' /\ UNCHANGED Map!vars
<1>1. \A id \in Id : Lookup(Current, id)' = Lookup(Current, id)
  BY DEF CompactRead, Current
<1>2. PICK n \in 1..Len(segments) :
        maint' = Compacting(SubSeq(segments, 1, n), n < Len(segments))
  BY DEF CompactRead
<1>3. segments \in Seq(Layer)
  BY DEF IndInv, TypeOK
<1>4. SubSeq(segments, 1, n) \in Seq(Layer) /\ Len(SubSeq(segments, 1, n)) = n
  BY <1>3
<1>5. maint' \in Maint
  BY <1>2, <1>4 DEF Compacting, Maint
<1>6. MaintReadStillCurrent'
  <2>1. /\ segments' = segments /\ maint'.at = "compact"
        /\ maint'.run = SubSeq(segments, 1, n) /\ (~maint'.older => ~(n < Len(segments)))
    BY <1>2 DEF CompactRead, Compacting
  <2>2. Len(maint'.run) = n /\ n <= Len(segments)
    BY <1>3, <1>4, <2>1
  <2>3. ~maint'.older => n = Len(segments)
    BY <1>3, <2>1
  <2> QED BY <2>1, <2>2, <2>3 DEF MaintReadStillCurrent
<1>7. TypeOK' /\ LayersExclusive'
  BY <1>5 DEF CompactRead, IndInv, TypeOK, LayersExclusive
<1> QED BY <1>1, <1>6, <1>7, SilentStep DEF CompactRead

LEMMA CompactInstallStep == ASSUME IndInv, CompactInstall PROVE IndInv' /\ UNCHANGED Map!vars
<1> DEFINE run == maint.run
           t == Older(segments, run)
           new == IF IsEmpty(Merged) THEN <<>> ELSE <<Merged>>
<1>1. /\ run \in Seq(Layer) /\ maint.older \in BOOLEAN
      /\ segments \in Seq(Layer) /\ active \in Layer /\ pending \in Layer \cup {NoLayer}
      /\ Len(run) <= Len(segments) /\ run = SubSeq(segments, 1, Len(run))
      /\ ~maint.older => Len(run) = Len(segments)
  BY DEF CompactInstall, IndInv, TypeOK, Maint, Idle, MaintReadStillCurrent
<1> HIDE DEF run
<1>2. /\ t \in Seq(Layer) /\ segments = run \o t
      /\ ~maint.older => t = <<>>
      /\ \A i \in DOMAIN run : i \in DOMAIN segments /\ run[i] = segments[i]
      /\ \A i \in DOMAIN t : i + Len(run) \in DOMAIN segments /\ t[i] = segments[i + Len(run)]
  BY <1>1 DEF Older
<1>3. \A i \in DOMAIN run : Exclusive(run[i])
  BY <1>2 DEF IndInv, LayersExclusive
<1>4. \A i \in DOMAIN t : Exclusive(t[i])
  BY <1>2 DEF IndInv, LayersExclusive
<1>5. Merged \in Layer /\ Exclusive(Merged) /\ Merged = Merge(run, maint.older)
  BY <1>1, MergeType DEF Merged, run
<1>6. segments' = new \o t
  BY DEF CompactInstall, run
<1>7. segments' \in Seq(Layer)
  BY <1>2, <1>5, <1>6
<1>8. ASSUME NEW id \in Id PROVE Lookup(segments', id) = Lookup(segments, id)
  <2> DEFINE older == maint.older
  <2>1. older \in BOOLEAN /\ (~older => t = <<>>)
    BY <1>1, <1>2
  <2>2. Merged = Merge(run, older)
    BY <1>5
  <2> HIDE DEF older, t
  <2>3. Lookup((IF IsEmpty(Merge(run, older)) THEN <<>> ELSE <<Merge(run, older)>>) \o t, id)
          = Lookup(run \o t, id)
    BY <1>1, <1>2, <1>3, <2>1, MergeKeepsLookup
  <2> QED BY <1>2, <1>6, <2>2, <2>3
<1>9. ASSUME NEW id \in Id PROVE Lookup(Current, id)' = Lookup(Current, id)
  <2>1. Lookup(Layers(active, pending, segments'), id) = Lookup(Layers(active, pending, segments), id)
    BY <1>1, <1>7, <1>8, LookupLayers
  <2> QED BY <2>1 DEF CompactInstall, Current
<1>10. \A i \in DOMAIN segments' : Exclusive(segments'[i])
  <2>1. CASE IsEmpty(Merged)
    <3>1. segments' = t
      BY <1>2, <1>6, <2>1
    <3> QED BY <1>4, <3>1
  <2>2. CASE ~IsEmpty(Merged)
    <3>1. segments' = <<Merged>> \o t
      BY <1>6, <2>2
    <3> HIDE DEF t
    <3>2. ASSUME NEW i \in DOMAIN segments' PROVE Exclusive(segments'[i])
      <4>1. CASE i = 1
        BY <1>2, <1>5, <3>1, <4>1
      <4>2. CASE i # 1
        <5>1. i - 1 \in DOMAIN t /\ segments'[i] = t[i - 1]
          BY <1>2, <3>1, <3>2, <4>2
        <5> QED BY <1>4, <5>1
      <4> QED BY <4>1, <4>2
    <3> QED BY <3>2
  <2> QED BY <2>1, <2>2
<1>11. TypeOK' /\ MaintReadStillCurrent' /\ LayersExclusive'
  BY <1>7, <1>10
     DEF CompactInstall, IndInv, TypeOK, Maint, Idle, MaintReadStillCurrent, LayersExclusive
<1> QED BY <1>9, <1>11, SilentStep DEF CompactInstall

LEMMA MaintFailStep == ASSUME IndInv, MaintFail PROVE IndInv' /\ UNCHANGED Map!vars
<1>1. \A id \in Id : Lookup(Current, id)' = Lookup(Current, id)
  BY DEF MaintFail, Current
<1>2. TypeOK' /\ LayersExclusive' /\ MaintReadStillCurrent'
  BY DEF MaintFail, IndInv, TypeOK, Maint, Idle, LayersExclusive, MaintReadStillCurrent
<1> QED BY <1>1, <1>2, SilentStep DEF MaintFail

----------------------------------------------------------------------------
(* Scans *)

LEMMA CurrentExclusive ==
    ASSUME IndInv
    PROVE  \A i \in DOMAIN Current : Exclusive(Current[i])
<1>1. active \in Layer /\ pending \in Layer \cup {NoLayer} /\ segments \in Seq(Layer)
  BY DEF IndInv, TypeOK
<1>2. CASE pending = NoLayer
  <2>1. Current = <<active>> \o segments
    BY <1>1, <1>2 DEF Current, Layers
  <2>2. ASSUME NEW i \in DOMAIN Current
        PROVE  \/ Current[i] = active
               \/ i - 1 \in DOMAIN segments /\ Current[i] = segments[i - 1]
    BY <1>1, <2>1
  <2> QED BY <2>2 DEF IndInv, LayersExclusive
<1>3. CASE pending # NoLayer
  <2>0. pending \in Layer
    BY <1>1, <1>3
  <2>1. Current = <<active>> \o (<<pending>> \o segments)
    BY <1>1, <1>3, <2>0 DEF Current, Layers
  <2>2. ASSUME NEW i \in DOMAIN Current
        PROVE  \/ Current[i] = active
               \/ Current[i] = pending
               \/ i - 2 \in DOMAIN segments /\ Current[i] = segments[i - 2]
    BY <1>1, <2>0, <2>1
  <2> QED BY <1>3, <2>2 DEF IndInv, LayersExclusive
<1> QED BY <1>2, <1>3

LEMMA ScanFromIndInv == ASSUME IndInv PROVE ScanAgreesWithGet
<1>1. Current \in Seq(Layer) /\ \A i \in DOMAIN Current : Exclusive(Current[i])
  BY CurrentType, CurrentExclusive DEF IndInv
<1> HIDE DEF Current
<1>2. ASSUME NEW id \in Id, IsIdLive(Current, id)
      PROVE  \E row \in LiveRows(Current) : row[1] = id
  BY <1>1, <1>2, LiveRowExists
<1>3. ASSUME NEW id \in Id, NEW row \in LiveRows(Current), NEW other \in LiveRows(Current),
             row[1] = id, other[1] = id
      PROVE  row = other /\ Current[row[2]].upserts[id] = Lookup(Current, id)
  BY <1>1, <1>3, LiveRowIs
<1> QED BY <1>2, <1>3 DEF ScanAgreesWithGet

----------------------------------------------------------------------------
(* Theorems *)

LEMMA InitIndInv == Init => IndInv /\ Map!Init
<1> SUFFICES ASSUME Init PROVE IndInv /\ Map!Init
  OBVIOUS
<1>1. \A id \in Id : Lookup(Current, id) = NoRecord
  <2>1. Current = <<EmptyLayer>> /\ Current \in Seq(Layer)
    BY LayerTypes DEF Init, Current, Layers
  <2>2. \A id \in Id, i \in DOMAIN Current : ~Mentions(Current[i], id)
    BY <2>1, LayerTypes
  <2> HIDE DEF Current
  <2> QED BY <2>1, <2>2, LookupNowhere
<1>2. {id \in Id : IsIdLive(Current, id)} = {}
  BY <1>1 DEF IsIdLive
<1>3. LiveLenExact
  BY <1>2, FS_EmptySet DEF Init, LiveLenExact
<1>4. TypeOK /\ LayersExclusive /\ MaintReadStillCurrent
  BY LayerTypes DEF Init, TypeOK, LayersExclusive, MaintReadStillCurrent, Maint, Idle
<1>5. Map!Init
  BY <1>1 DEF Init, Map!Init, Contents
<1> QED BY <1>3, <1>4, <1>5 DEF IndInv

LEMMA NextIndInv == IndInv /\ [Next]_vars => IndInv' /\ [Map!Next]_(Map!vars)
<1> SUFFICES ASSUME IndInv, [Next]_vars PROVE IndInv' /\ [Map!Next]_(Map!vars)
  OBVIOUS
<1>1. ASSUME NEW id \in Id, NEW rec \in Record, UpsertRecord(id, rec)
      PROVE  IndInv' /\ Map!Next
  <2>1. rec \in Map!Record
    BY DEF Record, Map!Record
  <2> QED BY <1>1, <2>1, UpsertStep DEF Map!Next
<1>2. ASSUME NEW id \in Id, DeleteRecord(id) PROVE IndInv' /\ Map!Next
  BY <1>2, DeleteStep DEF Map!Next
<1>3. ASSUME NEW id \in Id, NEW metadata \in Metadata, UpdateMetadata(id, metadata)
      PROVE  IndInv' /\ Map!Next
  BY <1>3, UpdateStep DEF Map!Next
<1>4. CASE Rotate
  BY <1>4, RotateStep
<1>5. CASE FlushRead
  BY <1>5, FlushReadStep
<1>6. CASE FlushInstall
  BY <1>6, FlushInstallStep
<1>7. CASE CompactRead
  BY <1>7, CompactReadStep
<1>8. CASE CompactInstall
  BY <1>8, CompactInstallStep
<1>9. CASE MaintFail
  BY <1>9, MaintFailStep
<1>10. CASE UNCHANGED vars
  <2>1. \A id \in Id : Lookup(Current, id)' = Lookup(Current, id)
    BY <1>10 DEF vars, Current
  <2>2. TypeOK' /\ LayersExclusive' /\ MaintReadStillCurrent'
    BY <1>10 DEF vars, IndInv, TypeOK, LayersExclusive, MaintReadStillCurrent
  <2> QED BY <1>10, <2>1, <2>2, SilentStep DEF vars
<1> QED BY <1>1, <1>2, <1>3, <1>4, <1>5, <1>6, <1>7, <1>8, <1>9, <1>10
        DEF Next, Client, Maintenance

\* Every reachable state satisfies the inductive invariant.
THEOREM Invariance == Spec => []IndInv
<1>1. Init => IndInv
  BY InitIndInv
<1>2. IndInv /\ [Next]_vars => IndInv'
  BY NextIndInv
<1> QED BY <1>1, <1>2, PTL DEF Spec

THEOREM TypeCorrect == Spec => []TypeOK
<1>1. IndInv => TypeOK
  BY DEF IndInv
<1> QED BY <1>1, Invariance, PTL

\* The length kept by difference is always the number of live records.
THEOREM LiveLenCorrect == Spec => []LiveLenExact
<1>1. IndInv => LiveLenExact
  BY DEF IndInv
<1> QED BY <1>1, Invariance, PTL

\* A scan filtered by is_live and a point read agree in every reachable state.
THEOREM ScanCorrect == Spec => []ScanAgreesWithGet
<1>1. IndInv => ScanAgreesWithGet
  BY ScanFromIndInv
<1> QED BY <1>1, Invariance, PTL

\* What the maintenance thread read without holding the lock is what it replaces.
THEOREM MaintReadCorrect == Spec => []MaintReadStillCurrent
<1>1. IndInv => MaintReadStillCurrent
  BY DEF IndInv
<1> QED BY <1>1, Invariance, PTL

\* No layer holds both a row and a marker of an id, so reads that look at the
\* marker first and scans that look at the rows agree.
THEOREM LayersCorrect == Spec => []LayersExclusive
<1>1. IndInv => LayersExclusive
  BY DEF IndInv
<1> QED BY <1>1, Invariance, PTL

\* Clients see a plain map: the layered collection with its background
\* maintenance implements KVMap.
THEOREM Refinement == Spec => ImplementsMap
<1>1. Init => Map!Init
  BY InitIndInv
<1>2. IndInv /\ [Next]_vars => [Map!Next]_(Map!vars)
  BY NextIndInv
<1> QED BY <1>1, <1>2, Invariance, PTL DEF Spec, ImplementsMap, Map!Spec


----------------------------------------------------------------------------
(* Batches *)

LEMMA SameCardinality == ASSUME NEW S PROVE Map!Cardinality(S) = Cardinality(S)
BY DEF Map!Cardinality, Cardinality

\* The common part of the batch writes: the memtable becomes mt, through which
\* clients see new.
LEMMA BatchStep ==
    ASSUME IndInv, NEW new \in [Id -> Record \cup {NoRecord}],
           NEW mt \in Layer, Exclusive(mt), Install(mt), UNCHANGED <<segments, maint>>,
           \A id \in Id : Lookup(Layers(mt, pending, segments), id) = new[id],
           liveLen' = Cardinality(Live(new))
    PROVE  IndInv' /\ Contents(Current)' = new /\ Map!Becomes(new)
<1>1. /\ active' \in Layer /\ Exclusive(active')
      /\ pending' \in Layer \cup {NoLayer}
      /\ pending' # NoLayer => Exclusive(pending')
      /\ pending # NoLayer => pending' = pending
      /\ \A id \in Id : Lookup(Layers(active', pending', segments), id)
                           = Lookup(Layers(mt, pending, segments), id)
  BY InstallEffect DEF IndInv
<1>2. \A id \in Id : Lookup(Current, id)' = new[id]
  BY <1>1 DEF Current
<1>3. Contents(Current)' = new
  BY <1>2 DEF Contents
<1>4. {id \in Id : IsIdLive(Current, id)}' = Live(new)
  BY <1>2 DEF Live, IsIdLive
<1>5. LiveLenExact'
  BY <1>4 DEF LiveLenExact
<1>6. liveLen' \in Nat
  <2>1. IsFiniteSet(Live(new))
    BY IdAssumption, FS_Subset DEF Live
  <2> QED BY <2>1, FS_CardinalityType
<1>7. MaintReadStillCurrent'
  BY <1>1, MaintKept
<1>8. TypeOK' /\ LayersExclusive'
  BY <1>1, <1>6 DEF IndInv, TypeOK, LayersExclusive
<1>9. IndInv'
  BY <1>5, <1>7, <1>8 DEF IndInv
<1>10. Map!Becomes(new)
  BY <1>3, SameCardinality DEF Map!Becomes, Live
<1> QED BY <1>3, <1>9, <1>10

\* The memtable of a batch of rows, and what is seen through it.
LEMMA WithRowsLookup ==
    ASSUME IndInv, NEW rows, DOMAIN rows \subseteq Id,
           \A id \in DOMAIN rows : rows[id] \in Record
    PROVE  /\ WithRows(rows) \in Layer /\ Exclusive(WithRows(rows))
           /\ \A id \in Id : Lookup(Layers(WithRows(rows), pending, segments), id)
                               = IF id \in DOMAIN rows THEN rows[id] ELSE Lookup(Current, id)
<1> DEFINE mt == WithRows(rows)
<1>1. /\ active \in Layer /\ Exclusive(active)
      /\ pending \in Layer \cup {NoLayer} /\ segments \in Seq(Layer)
  BY DEF IndInv, TypeOK, LayersExclusive
<1>2. mt \in Layer
  BY <1>1 DEF WithRows, Layer
<1>3. /\ \A id \in Id : mt.upserts[id] = IF id \in DOMAIN rows THEN rows[id] ELSE active.upserts[id]
      /\ mt.deletes = active.deletes \ DOMAIN rows
  BY DEF WithRows
<1> HIDE DEF mt
<1>4. \A id \in DOMAIN rows : rows[id] # NoRecord
  BY NoRecordAssumption
<1>5. Exclusive(mt)
  BY <1>1, <1>3 DEF Exclusive, HasRow
<1>6. \A id \in Id : Lookup(Layers(mt, pending, segments), id)
                       = IF id \in DOMAIN rows THEN rows[id] ELSE Lookup(Current, id)
  <2> TAKE id \in Id
  <2>1. Lookup(Layers(mt, pending, segments), id) =
          IF Mentions(mt, id) THEN ValueIn(mt, id)
          ELSE IF pending # NoLayer /\ Mentions(pending, id) THEN ValueIn(pending, id)
          ELSE Lookup(segments, id)
    BY <1>1, <1>2, LookupLayers
  <2>2. Lookup(Current, id) =
          IF Mentions(active, id) THEN ValueIn(active, id)
          ELSE IF pending # NoLayer /\ Mentions(pending, id) THEN ValueIn(pending, id)
          ELSE Lookup(segments, id)
    BY <1>1, LookupLayers DEF Current
  <2>3. CASE id \in DOMAIN rows
    BY <1>3, <1>4, <2>1, <2>3 DEF Mentions, HasRow, ValueIn
  <2>4. CASE id \notin DOMAIN rows
    <3>1. (Mentions(mt, id) <=> Mentions(active, id)) /\ ValueIn(mt, id) = ValueIn(active, id)
      BY <1>3, <2>4 DEF Mentions, HasRow, ValueIn
    <3> QED BY <2>1, <2>2, <2>4, <3>1
  <2> QED BY <2>3, <2>4
<1> QED BY <1>2, <1>5, <1>6 DEF mt

LEMMA LiveFinite ==
    ASSUME NEW map
    PROVE  IsFiniteSet(Live(map)) /\ Cardinality(Live(map)) \in Nat
<1>1. IsFiniteSet(Live(map))
  BY IdAssumption, FS_Subset DEF Live
<1> QED BY <1>1, FS_CardinalityType

\* The size of a union of disjoint sets of ids
LEMMA CountDisjoint ==
    ASSUME NEW S \in SUBSET Id, NEW T \in SUBSET Id, S \cap T = {}
    PROVE  /\ Cardinality(S \cup T) = Cardinality(S) + Cardinality(T)
           /\ Cardinality(S) \in Nat /\ Cardinality(T) \in Nat
<1>1. IsFiniteSet(S) /\ IsFiniteSet(T)
  BY IdAssumption, FS_Subset
<1>2. Cardinality(S) \in Nat /\ Cardinality(T) \in Nat
  BY <1>1, FS_CardinalityType
<1>3. Cardinality(S \cup T) = Cardinality(S) + Cardinality(T) - Cardinality({})
  BY <1>1, FS_Union
<1> QED BY <1>2, <1>3, FS_EmptySet

LEMMA UpsertBatchStep ==
    ASSUME IndInv, NEW rows, DOMAIN rows \subseteq Id,
           \A id \in DOMAIN rows : rows[id] \in Record, UpsertBatch(rows)
    PROVE  /\ IndInv' /\ Map!UpsertBatch(rows)
           /\ \A id \in Id : Lookup(Current, id)' =
                IF id \in DOMAIN rows THEN rows[id] ELSE Lookup(Current, id)
<1> DEFINE map == Contents(Current)
           new == [id \in Id |-> IF id \in DOMAIN rows THEN rows[id] ELSE map[id]]
           fresh == DOMAIN rows \ LiveAmong(DOMAIN rows)
<1>1. /\ WithRows(rows) \in Layer /\ Exclusive(WithRows(rows))
      /\ \A id \in Id : Lookup(Layers(WithRows(rows), pending, segments), id)
                          = IF id \in DOMAIN rows THEN rows[id] ELSE Lookup(Current, id)
  BY WithRowsLookup
<1>2. map \in [Id -> Record \cup {NoRecord}] /\ \A id \in Id : map[id] = Lookup(Current, id)
  BY CurrentType DEF IndInv, Contents
<1>3. liveLen = Cardinality(Live(map)) /\ liveLen \in Nat
  BY LiveLenIs DEF IndInv, TypeOK
<1>4. fresh = {id \in DOMAIN rows : map[id] = NoRecord}
  BY <1>2 DEF LiveAmong, IsIdLive
<1>5. /\ Install(WithRows(rows)) /\ UNCHANGED <<segments, maint>>
      /\ liveLen' = liveLen + Cardinality(fresh)
  BY DEF UpsertBatch
<1> HIDE DEF map, fresh
<1>6. new \in [Id -> Record \cup {NoRecord}]
  BY <1>2
<1>7. Live(new) = Live(map) \cup fresh /\ Live(map) \cap fresh = {}
  BY <1>4, NoRecordAssumption DEF Live
<1>8. Live(map) \in SUBSET Id /\ fresh \in SUBSET Id
  BY <1>4 DEF Live
<1>9. liveLen' = Cardinality(Live(new))
  BY <1>3, <1>5, <1>7, <1>8, CountDisjoint
<1>10. \A id \in Id : Lookup(Layers(WithRows(rows), pending, segments), id) = new[id]
  BY <1>1, <1>2
<1>11. PICK m : m = new
  OBVIOUS
<1>12. /\ m \in [Id -> Record \cup {NoRecord}] /\ liveLen' = Cardinality(Live(m))
       /\ \A id \in Id : Lookup(Layers(WithRows(rows), pending, segments), id) = m[id]
  BY <1>6, <1>9, <1>10, <1>11
<1>13. IndInv' /\ Contents(Current)' = m /\ Map!Becomes(m)
  BY <1>1, <1>5, <1>12, BatchStep
<1>14. Map!UpsertBatch(rows)
  BY <1>11, <1>13 DEF Map!UpsertBatch, map
<1>15. \A id \in Id : Lookup(Current, id)' = m[id]
  BY <1>13 DEF Contents
<1> QED BY <1>2, <1>11, <1>13, <1>14, <1>15

\* The memtable of a batch of deletes
WithoutRows(ids) ==
    [upserts |-> [id \in Id |-> IF id \in ids THEN NoRecord ELSE active.upserts[id]],
     deletes |-> active.deletes \cup ids]

LEMMA WithoutRowsLookup ==
    ASSUME IndInv, NEW ids \in SUBSET Id
    PROVE  /\ WithoutRows(ids) \in Layer /\ Exclusive(WithoutRows(ids))
           /\ \A id \in Id : Lookup(Layers(WithoutRows(ids), pending, segments), id)
                               = IF id \in ids THEN NoRecord ELSE Lookup(Current, id)
<1> DEFINE mt == WithoutRows(ids)
<1>1. /\ active \in Layer /\ Exclusive(active)
      /\ pending \in Layer \cup {NoLayer} /\ segments \in Seq(Layer)
  BY DEF IndInv, TypeOK, LayersExclusive
<1>2. mt \in Layer
  BY <1>1 DEF WithoutRows, Layer
<1>3. /\ \A id \in Id : mt.upserts[id] = IF id \in ids THEN NoRecord ELSE active.upserts[id]
      /\ mt.deletes = active.deletes \cup ids
  BY DEF WithoutRows
<1> HIDE DEF mt
<1>4. Exclusive(mt)
  BY <1>1, <1>3 DEF Exclusive, HasRow
<1>5. \A id \in Id : Lookup(Layers(mt, pending, segments), id)
                       = IF id \in ids THEN NoRecord ELSE Lookup(Current, id)
  <2> TAKE id \in Id
  <2>1. Lookup(Layers(mt, pending, segments), id) =
          IF Mentions(mt, id) THEN ValueIn(mt, id)
          ELSE IF pending # NoLayer /\ Mentions(pending, id) THEN ValueIn(pending, id)
          ELSE Lookup(segments, id)
    BY <1>1, <1>2, LookupLayers
  <2>2. Lookup(Current, id) =
          IF Mentions(active, id) THEN ValueIn(active, id)
          ELSE IF pending # NoLayer /\ Mentions(pending, id) THEN ValueIn(pending, id)
          ELSE Lookup(segments, id)
    BY <1>1, LookupLayers DEF Current
  <2>3. CASE id \in ids
    BY <1>3, <2>1, <2>3 DEF Mentions, HasRow, ValueIn
  <2>4. CASE id \notin ids
    <3>1. (Mentions(mt, id) <=> Mentions(active, id)) /\ ValueIn(mt, id) = ValueIn(active, id)
      BY <1>3, <2>4 DEF Mentions, HasRow, ValueIn
    <3> QED BY <2>1, <2>2, <2>4, <3>1
  <2> QED BY <2>3, <2>4
<1> QED BY <1>2, <1>4, <1>5 DEF mt

LEMMA DeleteBatchStep ==
    ASSUME IndInv, NEW ids \in SUBSET Id, DeleteBatch(ids), ids # {}
    PROVE  /\ IndInv' /\ Map!DeleteBatch(ids)
           /\ \A id \in Id : Lookup(Current, id)' =
                IF id \in ids THEN NoRecord ELSE Lookup(Current, id)
<1> DEFINE map == Contents(Current)
           new == [id \in Id |-> IF id \in ids THEN NoRecord ELSE map[id]]
           gone == LiveAmong(ids)
<1>1. /\ WithoutRows(ids) \in Layer /\ Exclusive(WithoutRows(ids))
      /\ \A id \in Id : Lookup(Layers(WithoutRows(ids), pending, segments), id)
                          = IF id \in ids THEN NoRecord ELSE Lookup(Current, id)
  BY WithoutRowsLookup
<1>2. map \in [Id -> Record \cup {NoRecord}] /\ \A id \in Id : map[id] = Lookup(Current, id)
  BY CurrentType DEF IndInv, Contents
<1>3. liveLen = Cardinality(Live(map)) /\ liveLen \in Nat
  BY LiveLenIs DEF IndInv, TypeOK
<1>4. gone = {id \in ids : map[id] # NoRecord}
  BY <1>2 DEF LiveAmong, IsIdLive
<1>5. /\ Install(WithoutRows(ids)) /\ UNCHANGED <<segments, maint>>
      /\ liveLen' = liveLen - Cardinality(gone)
  BY DEF DeleteBatch, WithoutRows
<1> HIDE DEF map, gone
<1>6. new \in [Id -> Record \cup {NoRecord}]
  BY <1>2
<1>7. Live(map) = Live(new) \cup gone /\ Live(new) \cap gone = {}
  BY <1>4 DEF Live
<1>8. Live(new) \in SUBSET Id /\ gone \in SUBSET Id
  BY <1>4 DEF Live
<1>9. liveLen' = Cardinality(Live(new))
  <2>1. /\ Cardinality(Live(map)) = Cardinality(Live(new)) + Cardinality(gone)
        /\ Cardinality(Live(new)) \in Nat /\ Cardinality(gone) \in Nat
    BY <1>7, <1>8, CountDisjoint
  <2> QED BY <1>3, <1>5, <2>1
<1>10. \A id \in Id : Lookup(Layers(WithoutRows(ids), pending, segments), id) = new[id]
  BY <1>1, <1>2
<1>11. PICK m : m = new
  OBVIOUS
<1>12. /\ m \in [Id -> Record \cup {NoRecord}] /\ liveLen' = Cardinality(Live(m))
       /\ \A id \in Id : Lookup(Layers(WithoutRows(ids), pending, segments), id) = m[id]
  BY <1>6, <1>9, <1>10, <1>11
<1>13. IndInv' /\ Contents(Current)' = m /\ Map!Becomes(m)
  BY <1>1, <1>5, <1>12, BatchStep
<1>14. Map!DeleteBatch(ids)
  BY <1>11, <1>13 DEF Map!DeleteBatch, map
<1>15. \A id \in Id : Lookup(Current, id)' = m[id]
  BY <1>13 DEF Contents
<1> QED BY <1>2, <1>11, <1>13, <1>14, <1>15

\* A batch of metadata updates: the records that are live keep their vector.
LEMMA UpdateBatchStep ==
    ASSUME IndInv, NEW recs, DOMAIN recs \subseteq Id,
           \A id \in DOMAIN recs : recs[id] \in Record, UpdateBatch(recs)
    PROVE  /\ IndInv'
           /\ Map!UpdateBatch(recs) \/ UNCHANGED vars
           /\ \A id \in Id : Lookup(Current, id)' =
                IF id \in DOMAIN recs /\ Lookup(Current, id) # NoRecord
                THEN [vector |-> Lookup(Current, id).vector, metadata |-> recs[id].metadata]
                ELSE Lookup(Current, id)
<1> DEFINE map == Contents(Current)
           targets == LiveAmong(DOMAIN recs)
           rows == [id \in targets |-> [vector |-> map[id].vector, metadata |-> recs[id].metadata]]
           new == [id \in Id |->
                     IF id \in DOMAIN recs /\ map[id] # NoRecord
                     THEN [vector |-> map[id].vector, metadata |-> recs[id].metadata] ELSE map[id]]
<1>1. map \in [Id -> Record \cup {NoRecord}] /\ \A id \in Id : map[id] = Lookup(Current, id)
  BY CurrentType DEF IndInv, Contents
<1>2. liveLen = Cardinality(Live(map)) /\ liveLen \in Nat
  BY LiveLenIs DEF IndInv, TypeOK
<1>3. targets = {id \in DOMAIN recs : map[id] # NoRecord}
  BY <1>1 DEF LiveAmong, IsIdLive
<1>4. rows = [id \in targets |-> [vector |-> Lookup(Current, id).vector, metadata |-> recs[id].metadata]]
  BY <1>1, <1>3
<1>5. CASE targets = {}
  <2>1. UNCHANGED vars
    BY <1>5 DEF UpdateBatch
  <2>2. \A id \in Id : ~(id \in DOMAIN recs /\ Lookup(Current, id) # NoRecord)
    BY <1>1, <1>3, <1>5
  <2>3. \A id \in Id : Lookup(Current, id)' = Lookup(Current, id)
    BY <2>1 DEF vars, Current
  <2>4. TypeOK' /\ LayersExclusive' /\ MaintReadStillCurrent'
    BY <2>1 DEF vars, IndInv, TypeOK, LayersExclusive, MaintReadStillCurrent
  <2>5. IndInv'
    BY <2>1, <2>3, <2>4, SilentStep DEF vars
  <2> QED BY <2>1, <2>2, <2>3, <2>5
<1>6. CASE targets # {}
  <2>1. Install(WithRows(rows)) /\ UNCHANGED <<segments, liveLen, maint>>
    BY <1>4, <1>6 DEF UpdateBatch
  <2> HIDE DEF map, targets
  <2>2. \A id \in targets : rows[id] \in Record
    <3> TAKE id \in targets
    <3>1. map[id] \in Record /\ recs[id] \in Record
      BY <1>1, <1>3
    <3> QED BY <3>1 DEF Record
  <2>3. PICK r : r = rows
    OBVIOUS
  <2>4. DOMAIN r = targets /\ targets \subseteq Id /\ \A id \in DOMAIN r : r[id] \in Record
    BY <1>3, <2>2, <2>3
  <2>5. /\ WithRows(r) \in Layer /\ Exclusive(WithRows(r))
        /\ \A id \in Id : Lookup(Layers(WithRows(r), pending, segments), id)
                            = IF id \in DOMAIN r THEN r[id] ELSE Lookup(Current, id)
    BY <2>4, WithRowsLookup
  <2>6. \A id \in Id : new[id] = IF id \in targets THEN rows[id] ELSE map[id]
    BY <1>1, <1>3
  <2>7. new \in [Id -> Record \cup {NoRecord}]
    BY <1>1, <2>2, <2>6
  <2>8. Live(new) = Live(map)
    <3>1. \A id \in targets : new[id] # NoRecord /\ map[id] # NoRecord
      BY <1>3, <2>2, <2>4, <2>6, NoRecordAssumption
    <3>2. \A id \in Id \ targets : new[id] = map[id]
      BY <2>6
    <3> HIDE DEF new
    <3> QED BY <3>1, <3>2 DEF Live
  <2>9. \A id \in Id : Lookup(Layers(WithRows(r), pending, segments), id) = new[id]
    BY <1>1, <2>3, <2>4, <2>5, <2>6
  <2>10. PICK m : m = new
    OBVIOUS
  <2>11. /\ m \in [Id -> Record \cup {NoRecord}] /\ liveLen' = Cardinality(Live(m))
         /\ \A id \in Id : Lookup(Layers(WithRows(r), pending, segments), id) = m[id]
    BY <1>2, <2>1, <2>7, <2>8, <2>9, <2>10
  <2>12. Install(WithRows(r))
    BY <2>1, <2>3
  <2>13. IndInv' /\ Contents(Current)' = m /\ Map!Becomes(m)
    BY <2>1, <2>5, <2>11, <2>12, BatchStep
  <2>14. Map!UpdateBatch(recs)
    BY <2>10, <2>13 DEF Map!UpdateBatch, map
  <2>15. \A id \in Id : Lookup(Current, id)' = m[id]
    BY <2>13 DEF Contents
  <2> QED BY <1>1, <2>10, <2>13, <2>14, <2>15
<1> QED BY <1>5, <1>6

----------------------------------------------------------------------------
(* Pages and places *)

\* The place of an element among the elements of a finite set of numbers:
\* every number below the size of the set is the place of one element.
LEMMA RankIs ==
    ASSUME NEW S, S \subseteq Int, IsFiniteSet(S)
    PROVE  /\ Cardinality(S) \in Nat
           /\ \A x \in S : Rank(S, x) \in Nat /\ Rank(S, x) < Cardinality(S)
           /\ \A x, y \in S : x < y => Rank(S, x) < Rank(S, y)
           /\ \A x, y \in S : Rank(S, x) = Rank(S, y) => x = y
           /\ \A k \in 0..(Cardinality(S) - 1) : \E x \in S : Rank(S, x) = k
<1> DEFINE below(x) == {y \in S : y < x}
<1>1. Cardinality(S) \in Nat
  BY FS_CardinalityType
<1>2. ASSUME NEW x \in S PROVE Rank(S, x) \in Nat /\ Rank(S, x) < Cardinality(S)
  <2>1. below(x) \in SUBSET S /\ below(x) # S
    BY <1>2
  <2>2. IsFiniteSet(below(x)) /\ Cardinality(below(x)) <= Cardinality(S)
        /\ Cardinality(S) # Cardinality(below(x))
    BY <2>1, FS_Subset
  <2>3. Cardinality(below(x)) \in Nat
    BY <2>2, FS_CardinalityType
  <2> QED BY <1>1, <2>2, <2>3 DEF Rank
<1>3. ASSUME NEW x \in S, NEW y \in S, x < y PROVE Rank(S, x) < Rank(S, y)
  <2>0. x \in Int /\ y \in Int /\ \A z \in S : z \in Int
    OBVIOUS
  <2>1. below(x) \in SUBSET below(y) /\ below(x) # below(y)
    <3>1. \A z \in below(x) : z \in below(y)
      BY <1>3, <2>0
    <3>2. x \in below(y) /\ x \notin below(x)
      BY <1>3, <2>0
    <3> HIDE DEF below
    <3> QED BY <3>1, <3>2
  <2>2. IsFiniteSet(below(y))
    BY FS_Subset
  <2>3. Cardinality(below(x)) <= Cardinality(below(y)) /\ Cardinality(below(x)) # Cardinality(below(y))
    BY <2>1, <2>2, FS_Subset
  <2> QED BY <1>2, <2>3 DEF Rank
<1>4. ASSUME NEW x \in S, NEW y \in S, Rank(S, x) = Rank(S, y) PROVE x = y
  <2>1. Rank(S, x) \in Nat /\ Rank(S, y) \in Nat /\ x \in Int /\ y \in Int
    BY <1>2
  <2> QED BY <1>3, <1>4, <2>1
<1>5. ASSUME NEW k \in 0..(Cardinality(S) - 1) PROVE \E x \in S : Rank(S, x) = k
  <2> DEFINE places == 0..(Cardinality(S) - 1)
             f == [x \in S |-> Rank(S, x)]
  <2>1. IsFiniteSet(places) /\ Cardinality(places) = Cardinality(S)
    BY <1>1, FS_Interval
  <2>2. \A x \in S : f[x] \in places
    BY <1>1, <1>2
  <2>3. f \in Injection(S, places)
    BY <1>4, <2>2, Fun_IsInj
  <2>4. f \in Surjection(S, places)
    BY <2>1, <2>3, FS_Injection
  <2>5. \E x \in S : f[x] = k
    BY <2>4 DEF Surjection
  <2> QED BY <2>5
<1> QED BY <1>1, <1>2, <1>3, <1>4, <1>5

\* A page has the first matching records, all of them when there are no more
\* than the limit, in order.
LEMMA PageIs ==
    ASSUME NEW M \in SUBSET Id, NEW limit \in Nat \ {0}
    PROVE  LET page == Page(M, limit)
               first == FirstOf(M, limit)
           IN  /\ page \in Seq(first) /\ first \subseteq M
               /\ ToSet(page) = first
               /\ page = <<>> <=> M = {}
               /\ page # <<>> => Last(page) \in first /\ \A x \in first : x <= Last(page)
               /\ \A x \in M \ first, y \in first : y < x
<1> DEFINE first == FirstOf(M, limit)
           n == Cardinality(first)
           page == Page(M, limit)
<1>1. M \subseteq Int /\ IsFiniteSet(M)
  <2>1. M \subseteq Int
    BY CallsAssumption
  <2> QED BY <2>1, IdAssumption, FS_Subset
<1>2. first \subseteq M /\ first \subseteq Int /\ IsFiniteSet(first)
  BY <1>1, FS_Subset DEF FirstOf
<1>3. first = {id \in M : Rank(M, id) < limit}
  BY DEF FirstOf
<1>4. page = [i \in 1..n |-> CHOOSE id \in first : Rank(first, id) = i - 1]
  BY DEF Page
<1> HIDE DEF first, page
<1>5. /\ n \in Nat
      /\ \A x \in first : Rank(first, x) \in Nat /\ Rank(first, x) < n
      /\ \A x, y \in first : x < y => Rank(first, x) < Rank(first, y)
      /\ \A x, y \in first : Rank(first, x) = Rank(first, y) => x = y
      /\ \A k \in 0..(n - 1) : \E x \in first : Rank(first, x) = k
  BY <1>2, RankIs
<1>6. /\ \A x \in M : Rank(M, x) \in Nat
      /\ \A x, y \in M : x < y => Rank(M, x) < Rank(M, y)
      /\ \A k \in 0..(Cardinality(M) - 1) : \E x \in M : Rank(M, x) = k
      /\ Cardinality(M) \in Nat
  BY <1>1, RankIs
<1> HIDE DEF n
<1>7. \A i \in 1..n : page[i] \in first /\ Rank(first, page[i]) = i - 1
  <2> TAKE i \in 1..n
  <2>1. i - 1 \in 0..(n - 1)
    BY <1>5
  <2>2. \E x \in first : Rank(first, x) = i - 1
    BY <1>5, <2>1
  <2> QED BY <1>4, <2>2
<1>8. page \in Seq(first) /\ Len(page) = n /\ DOMAIN page = 1..n
  BY <1>4, <1>5, <1>7
<1>9. ToSet(page) = first
  <2>1. ASSUME NEW x \in first PROVE \E i \in 1..n : page[i] = x
    <3>1. Rank(first, x) + 1 \in 1..n
      BY <1>5
    <3>2. page[Rank(first, x) + 1] \in first /\ Rank(first, page[Rank(first, x) + 1]) = Rank(first, x)
      BY <1>5, <1>7, <3>1
    <3>3. page[Rank(first, x) + 1] = x
      BY <1>5, <3>2
    <3> QED BY <3>1, <3>3
  <2> QED BY <1>7, <1>8, <2>1 DEF ToSet
<1>10. page = <<>> <=> M = {}
  <2>1. CASE M = {}
    <3>1. first = {} /\ n = 0
      BY <1>2, <2>1, FS_EmptySet DEF n
    <3> QED BY <1>8, <2>1, <3>1
  <2>2. CASE M # {}
    <3>1. Cardinality(M) # 0
      BY <1>1, <2>2, FS_EmptySet
    <3>2. 0 \in 0..(Cardinality(M) - 1)
      BY <1>6, <3>1
    <3>3. PICK x \in M : Rank(M, x) = 0
      BY <1>6, <3>2
    <3>4. x \in first
      BY <1>3, <3>3
    <3>5. n # 0
      BY <1>2, <3>4, FS_EmptySet DEF n
    <3> QED BY <1>5, <1>8, <2>2, <3>5
  <2> QED BY <2>1, <2>2
<1>11. page # <<>> => Last(page) \in first /\ \A x \in first : x <= Last(page)
  <2> SUFFICES ASSUME page # <<>> PROVE Last(page) \in first /\ \A x \in first : x <= Last(page)
    OBVIOUS
  <2>1. n >= 1 /\ n \in 1..n /\ Last(page) = page[n]
    BY <1>5, <1>8 DEF Last
  <2>2. Last(page) \in first /\ Rank(first, Last(page)) = n - 1
    BY <1>7, <2>1
  <2>3. ASSUME NEW x \in first PROVE x <= Last(page)
    <3>1. x \in Int /\ Last(page) \in Int /\ Rank(first, x) \in Nat /\ Rank(first, x) < n
      BY <1>2, <1>5, <2>2
    <3>2. ~(Last(page) < x)
      BY <1>5, <2>2, <3>1
    <3> QED BY <3>1, <3>2
  <2> QED BY <2>2, <2>3
<1>12. \A x \in M \ first, y \in first : y < x
  <2> TAKE x \in M \ first, y \in first
  <2>1. /\ x \in Int /\ y \in Int /\ y \in M /\ x \in M /\ x # y
        /\ Rank(M, x) \in Nat /\ Rank(M, y) \in Nat
        /\ Rank(M, y) < limit /\ ~(Rank(M, x) < limit)
    BY <1>1, <1>2, <1>3, <1>6
  <2>2. ~(x < y)
    BY <1>6, <2>1
  <2> QED BY <2>1, <2>2
<1> QED BY <1>2, <1>8, <1>9, <1>10, <1>11, <1>12 DEF first, page

----------------------------------------------------------------------------
(* The invariant of the calls *)

\* What a dictionary says of a record is true: a record of a string is where
\* the string is, another one has a number below ExtBase.
Fit(id, ext) == IF ext = NoExt THEN id < ExtBase ELSE ext \in DOMAIN extIds /\ extIds[ext] = id

Rows == UNION {[ids -> Record \cup {NoRecord}] : ids \in SUBSET Id}
Item == [rid : RecordId, rec : Record \cup {NoRecord}]
CallState ==
    [pc : {"idle", "begun", "view", "walk", "cursor", "resolve", "write", "ended"},
     at : RecordId \cup {Start}, left : Seq(Item), done : Rows,
     seen : SUBSET Id, again : SUBSET Id, kept : SUBSET Id]

CallsType ==
    /\ script \in Scripts
    /\ made \in [Thread -> Nat] /\ \A t \in Thread : made[t] <= Len(script.todo[t])
    /\ call \in [Thread -> CallState]
    /\ \A t \in Thread : call[t].pc # "idle" => made[t] >= 1
    /\ nextExt \in Nat /\ reopens \in Nat
    /\ script.free => \A t \in Thread : call[t] = Resting

\* The dictionary gives each string an id of its own, below the next one.
DictFits ==
    /\ extIds \in [DOMAIN extIds -> Id] /\ DOMAIN extIds \subseteq Ext
    /\ nextExt >= ExtBase
    /\ \A s, r \in DOMAIN extIds :
          extIds[s] >= ExtBase /\ extIds[s] < nextExt /\ (s # r => extIds[s] # extIds[r])

\* What the dictionary says is true of every live record.
LiveFit == \A id \in Id : IsIdLive(Current, id) => Fit(id, Lookup(Current, id).metadata.ext)

\* ... and will be of what a call has gathered to write.
RowFits(id, rec) == rec \in Record /\ Fit(id, rec.metadata.ext)
RowsFit(rows) == \A id \in DOMAIN rows : RowFits(id, rows[id])
ItemFits(item) == \E id \in Id : Resolved(item.rid) = {id} /\ RowFits(id, item.rec)

\* A call c of o: what it has resolved is what its string resolves to, what
\* it has gathered fits.
CallFits(c, o) ==
    /\ c.pc = "write" => RowsFit(c.done)
    /\ c.pc = "view" => \E id \in Id : c.at = Num(id) /\ Resolved(o.rid) = {id}
    /\ c.pc = "resolve" /\ o.kind \in {"update", "updateAll"} =>
          RowsFit(c.done) /\ \A i \in DOMAIN c.left : ItemFits(c.left[i])
    /\ c.pc = "ended" /\ o.kind = "get" /\ IsStr(o.rid) =>
          \A id \in DOMAIN c.done : c.done[id].metadata.ext = o.rid.str

\* A walk that has come to n has met all it has to meet up to n and none
\* after it.
Past(c, o, n) ==
    /\ \A id \in c.seen : id <= n
    /\ \A id \in c.kept \ c.seen : id > n /\ Passes(o.filter, id)

\* A walk c of o.  What it writes it has met; delete_by_filter leaves nothing
\* behind it at all.
WalkFits(c, o) ==
    /\ c.pc # "idle" /\ o.kind # "deleteAll" => c.again = {}
    /\ c.pc \in {"walk", "cursor", "resolve"} /\ o.kind \in {"pages", "updateAll"} =>
          \E n \in Int : Resolved(c.at) = {n} /\ Past(c, o, n)
    /\ c.pc = "walk" => \E n \in Int : c.at = Num(n)
    /\ c.pc = "cursor" => o.kind \in {"pages", "updateAll"}
    /\ c.pc \in {"walk", "cursor"} => c.done = NoRows
    /\ c.pc = "resolve" /\ o.kind = "updateAll" =>
          /\ DOMAIN c.done \subseteq c.seen
          /\ \A i \in DOMAIN c.left : Resolved(c.left[i].rid) \subseteq c.seen
    /\ o.kind = "deleteAll" =>
          /\ c.pc \in {"walk", "resolve"} => c.at = Start
          /\ c.pc \in {"walk", "resolve"} =>
                \A id \in c.kept : IsIdLive(Current, id) => Passes(o.filter, id)
          /\ c.pc = "ended" => \A id \in c.kept : ~IsIdLive(Current, id)
    /\ c.pc = "ended" /\ o.kind \in {"pages", "updateAll"} => c.kept \subseteq c.seen

\* The inductive invariant of the calls
CallsInv ==
    /\ IndInv /\ CallsType /\ DictFits /\ LiveFit
    /\ \A t \in Thread : CallFits(call[t], Op(t)) /\ WalkFits(call[t], Op(t))

----------------------------------------------------------------------------
(* Ids of strings *)

LEMMA RidIs ==
    ASSUME NEW rid \in RecordId \cup {Start}
    PROVE  \/ IsStr(rid) /\ rid.str \in Ext /\ rid = Str(rid.str)
           \/ ~IsStr(rid) /\ rid.num \in Int /\ rid = Num(rid.num) /\ (rid.num \in Id \/ rid = Start)
<1>1. CASE rid \in [num : Id]
  <2>1. DOMAIN rid = {"num"} /\ rid = [num |-> rid.num] /\ rid.num \in Id
    BY <1>1
  <2>2. "str" \notin DOMAIN rid
    BY <2>1
  <2>3. Id \subseteq Int
    BY CallsAssumption
  <2> QED BY <2>1, <2>2, <2>3 DEF IsStr, Num
<1>2. CASE rid \in [str : Ext]
  BY <1>2 DEF IsStr, Str
<1>3. CASE rid = Start
  BY <1>3 DEF IsStr, Num, Start
<1> QED BY <1>1, <1>2, <1>3 DEF RecordId

LEMMA Forms ==
    /\ \A n : ~IsStr(Num(n)) /\ Num(n).num = n /\ Resolved(Num(n)) = {n}
    /\ \A s : IsStr(Str(s)) /\ Str(s).str = s
    /\ \A n \in Id : Num(n) \in RecordId
    /\ \A s \in Ext : Str(s) \in RecordId
BY DEF IsStr, Num, Str, Resolved, RecordId

\* The rows of a batch that bring new strings: each string is brought by one.
LEMMA FreshIs ==
    ASSUME NEW batch, NEW n \in Nat, DOMAIN batch = 1..n,
           \A i \in 1..n : batch[i].rid \in RecordId
    PROVE  /\ Fresh(batch) \in SUBSET (1..n) /\ IsFiniteSet(Fresh(batch))
           /\ \A i \in Fresh(batch) :
                 /\ IsStr(batch[i].rid) /\ batch[i].rid.str \in Ext \ DOMAIN extIds
                 /\ \A j \in Fresh(batch) : batch[j].rid.str = batch[i].rid.str => i = j
           /\ \A i \in 1..n : IsStr(batch[i].rid) /\ batch[i].rid.str \notin DOMAIN extIds =>
                 \E j \in Fresh(batch) : batch[j].rid.str = batch[i].rid.str
<1> DEFINE F == Fresh(batch)
<1>1. F \in SUBSET (1..n) /\ IsFiniteSet(F)
  <2>1. F \in SUBSET (1..n)
    BY DEF Fresh
  <2>2. IsFiniteSet(1..n)
    BY FS_Interval
  <2> QED BY <2>1, <2>2, FS_Subset
<1>2. \A i \in 1..n : IsStr(batch[i].rid) => batch[i].rid.str \in Ext /\ batch[i].rid = Str(batch[i].rid.str)
  BY RidIs
<1>3. ASSUME NEW i \in F PROVE IsStr(batch[i].rid) /\ batch[i].rid.str \in Ext \ DOMAIN extIds
  BY <1>1, <1>2 DEF Fresh
<1>4. ASSUME NEW i \in F, NEW j \in F, batch[j].rid.str = batch[i].rid.str PROVE ~(j < i)
  <2>1. batch[i].rid = batch[j].rid
    BY <1>1, <1>2, <1>3, <1>4
  <2>2. \A k \in 1..(i - 1) : batch[k].rid # batch[i].rid
    BY DEF Fresh
  <2>3. i \in 1..n /\ j \in 1..n
    BY <1>1
  <2> QED BY <2>1, <2>2, <2>3
<1>5. ASSUME NEW i \in F, NEW j \in F, batch[j].rid.str = batch[i].rid.str PROVE i = j
  <2>1. i \in 1..n /\ j \in 1..n
    BY <1>1
  <2> QED BY <1>4, <1>5, <2>1
<1>6. ASSUME NEW i \in 1..n, IsStr(batch[i].rid), batch[i].rid.str \notin DOMAIN extIds
      PROVE  \E j \in F : batch[j].rid.str = batch[i].rid.str
  <2> DEFINE S == {j \in 1..n : batch[j].rid = batch[i].rid}
  <2>1. PICK j \in S : \A k \in S : ~(k < j)
    <3>1. S \subseteq Nat /\ i \in S
      OBVIOUS
    <3> HIDE DEF S
    <3> QED BY <3>1, LeastExists
  <2>2. j \in 1..n /\ batch[j].rid = batch[i].rid
    BY <2>1
  <2>3. \A k \in 1..(j - 1) : batch[k].rid # batch[j].rid
    <3> TAKE k \in 1..(j - 1)
    <3>1. k \in 1..n /\ k < j
      BY <2>2
    <3> QED BY <2>1, <2>2, <3>1
  <2>4. j \in F
    BY <1>6, <2>2, <2>3 DEF Fresh
  <2> QED BY <2>2, <2>4
<1> QED BY <1>1, <1>3, <1>5, <1>6

\* The dictionary of a batch: nothing is taken away, and each new string gets
\* an id that no string had.
LEMMA AllotIs ==
    ASSUME DictFits, nextExt \in Nat, NEW batch, NEW n \in Nat, DOMAIN batch = 1..n,
           \A i \in 1..n : batch[i].rid \in RecordId
    PROVE  LET known == Allot(batch)
               next == nextExt + Cardinality(Fresh(batch))
           IN  /\ next \in Nat /\ next >= ExtBase
               /\ known = [s \in DOMAIN known |-> known[s]] /\ DOMAIN known \subseteq Ext
               /\ \A s \in DOMAIN extIds : s \in DOMAIN known /\ known[s] = extIds[s]
               /\ \A s \in DOMAIN known \ DOMAIN extIds :
                     \E i \in 1..n : IsStr(batch[i].rid) /\ batch[i].rid.str = s
               /\ \A i \in 1..n : IsStr(batch[i].rid) => batch[i].rid.str \in DOMAIN known
               /\ \A s, r \in DOMAIN known :
                     /\ known[s] \in Nat /\ known[s] >= ExtBase /\ known[s] < next
                     /\ s # r => known[s] # known[r]
<1> DEFINE F == Fresh(batch)
           strings == {batch[i].rid.str : i \in F}
           row(s) == CHOOSE i \in F : batch[i].rid.str = s
           known == Allot(batch)
           next == nextExt + Cardinality(F)
<1>1. /\ F \in SUBSET (1..n) /\ IsFiniteSet(F)
      /\ \A i \in F :
            /\ IsStr(batch[i].rid) /\ batch[i].rid.str \in Ext \ DOMAIN extIds
            /\ \A j \in F : batch[j].rid.str = batch[i].rid.str => i = j
      /\ \A i \in 1..n : IsStr(batch[i].rid) /\ batch[i].rid.str \notin DOMAIN extIds =>
            \E j \in F : batch[j].rid.str = batch[i].rid.str
  BY FreshIs
<1>2. known = [s \in DOMAIN extIds \cup strings |->
                 IF s \in strings THEN nextExt + Rank(F, row(s)) ELSE extIds[s]]
  BY DEF Allot
<1>3. /\ \A s \in DOMAIN extIds : extIds[s] \in Nat /\ extIds[s] >= ExtBase /\ extIds[s] < nextExt
      /\ \A s, r \in DOMAIN extIds : s # r => extIds[s] # extIds[r]
      /\ DOMAIN extIds \subseteq Ext /\ nextExt >= ExtBase /\ ExtBase \in Nat
  BY CallsAssumption DEF DictFits
<1> HIDE DEF F, known
<1>4. /\ Cardinality(F) \in Nat
      /\ \A x \in F : Rank(F, x) \in Nat /\ Rank(F, x) < Cardinality(F)
      /\ \A x, y \in F : Rank(F, x) = Rank(F, y) => x = y
  <2>1. F \subseteq Int
    BY <1>1
  <2> QED BY <1>1, <2>1, RankIs
<1>5. \A s \in strings : row(s) \in F /\ batch[row(s)].rid.str = s
  OBVIOUS
<1> HIDE DEF row
<1>6. \A s \in strings : s \in Ext \ DOMAIN extIds
  BY <1>1
<1>7. \A i \in 1..n : IsStr(batch[i].rid) /\ batch[i].rid.str \notin DOMAIN extIds => batch[i].rid.str \in strings
  BY <1>1
<1> HIDE DEF strings
<1>8. /\ DOMAIN known = DOMAIN extIds \cup strings
      /\ \A s \in DOMAIN extIds : known[s] = extIds[s]
      /\ \A s \in strings : known[s] = nextExt + Rank(F, row(s))
  BY <1>2, <1>6
<1>9. \A s \in strings : known[s] \in Nat /\ known[s] >= nextExt /\ known[s] < next
  BY <1>4, <1>5, <1>8
<1>10. \A s, r \in strings : known[s] = known[r] => s = r
  <2> TAKE s, r \in strings
  <2> HAVE known[s] = known[r]
  <2>1. Rank(F, row(s)) = Rank(F, row(r))
    BY <1>4, <1>5, <1>8
  <2>2. row(s) = row(r)
    BY <1>4, <1>5, <2>1
  <2> QED BY <1>5, <2>2
<1>11. ASSUME NEW s \in DOMAIN known, NEW r \in DOMAIN known
       PROVE  /\ known[s] \in Nat /\ known[s] >= ExtBase /\ known[s] < next
              /\ s # r => known[s] # known[r]
  <2>1. CASE s \in strings /\ r \in strings
    BY <1>3, <1>9, <1>10, <2>1
  <2>2. CASE s \in strings /\ r \in DOMAIN extIds
    BY <1>3, <1>8, <1>9, <2>2
  <2>3. CASE s \in DOMAIN extIds /\ r \in strings
    BY <1>3, <1>4, <1>8, <1>9, <2>3
  <2>4. CASE s \in DOMAIN extIds /\ r \in DOMAIN extIds
    BY <1>3, <1>4, <1>8, <2>4
  <2> QED BY <1>8, <2>1, <2>2, <2>3, <2>4
<1>12. known = [s \in DOMAIN known |-> known[s]]
  BY <1>2
<1>13. \A s \in DOMAIN known \ DOMAIN extIds : \E i \in 1..n : IsStr(batch[i].rid) /\ batch[i].rid.str = s
  BY <1>1, <1>5, <1>8
<1>14. next \in Nat /\ next >= ExtBase
  BY <1>3, <1>4
<1>15. \A i \in 1..n : IsStr(batch[i].rid) => batch[i].rid.str \in DOMAIN known
  BY <1>7, <1>8
<1>16. DOMAIN known \subseteq Ext /\ \A s \in DOMAIN extIds : s \in DOMAIN known /\ known[s] = extIds[s]
  BY <1>3, <1>6, <1>8
<1> QED BY <1>11, <1>12, <1>13, <1>14, <1>15, <1>16 DEF known, F

----------------------------------------------------------------------------
(* What stays true of a call that takes no step *)

Grows == \A s \in DOMAIN extIds : s \in DOMAIN extIds' /\ extIds'[s] = extIds[s]

LEMMA ResolvedStays ==
    ASSUME Grows, NEW rid, NEW n, Resolved(rid) = {n}
    PROVE  Resolved(rid)' = {n}
BY DEF Grows, Resolved

LEMMA FitStays ==
    ASSUME Grows
    PROVE  /\ \A id, ext : Fit(id, ext) => Fit(id, ext)'
           /\ \A id, rec : RowFits(id, rec) => RowFits(id, rec)'
           /\ \A rows : RowsFit(rows) => RowsFit(rows)'
           /\ \A item : ItemFits(item) => ItemFits(item)'
<1>1. ASSUME NEW id, NEW ext, Fit(id, ext) PROVE Fit(id, ext)'
  BY <1>1 DEF Grows, Fit
<1>2. ASSUME NEW id, NEW rec, RowFits(id, rec) PROVE RowFits(id, rec)'
  BY <1>1, <1>2 DEF RowFits
<1>3. ASSUME NEW rows, RowsFit(rows) PROVE RowsFit(rows)'
  BY <1>2, <1>3 DEF RowsFit
<1>4. ASSUME NEW item, ItemFits(item) PROVE ItemFits(item)'
  BY <1>2, <1>4, ResolvedStays DEF ItemFits
<1> QED BY <1>1, <1>2, <1>3, <1>4

\* d is c but for the records that others have written meanwhile.
Leaves(c, d, written) ==
    /\ d.pc = c.pc /\ d.at = c.at /\ d.left = c.left /\ d.done = c.done
    /\ d.seen = c.seen /\ d.again = c.again /\ d.kept = c.kept \ written

LEMMA CallFitsStays ==
    ASSUME Grows, NEW c, NEW d, NEW o, NEW written, Leaves(c, d, written), CallFits(c, o)
    PROVE  CallFits(d, o)'
<1>1. d.pc = "write" => RowsFit(d.done)'
  BY FitStays DEF Leaves, CallFits
<1>2. d.pc = "view" => \E id \in Id : d.at = Num(id) /\ Resolved(o.rid)' = {id}
  BY ResolvedStays DEF Leaves, CallFits
<1>3. d.pc = "resolve" /\ o.kind \in {"update", "updateAll"} =>
        RowsFit(d.done)' /\ \A i \in DOMAIN d.left : ItemFits(d.left[i])'
  BY FitStays DEF Leaves, CallFits
<1>4. d.pc = "ended" /\ o.kind = "get" /\ IsStr(o.rid) =>
        \A id \in DOMAIN d.done : d.done[id].metadata.ext = o.rid.str
  BY DEF Leaves, CallFits
<1> QED BY <1>1, <1>2, <1>3, <1>4 DEF CallFits

LEMMA PassesStays ==
    ASSUME NEW id, Lookup(Current, id)' = Lookup(Current, id), NEW filter
    PROVE  /\ IsIdLive(Current, id)' <=> IsIdLive(Current, id)
           /\ Passes(filter, id)' <=> Passes(filter, id)
BY DEF Passes, IsIdLive

LEMMA WalkFitsStays ==
    ASSUME Grows, NEW c, NEW d, NEW o, NEW written, Leaves(c, d, written), WalkFits(c, o),
           CallFits(c, o), c.kept \subseteq Id,
           \A id \in Id \ written : Lookup(Current, id)' = Lookup(Current, id)
    PROVE  WalkFits(d, o)'
<1>1. \A id \in d.kept : id \in c.kept /\ id \in Id
        /\ (IsIdLive(Current, id)' <=> IsIdLive(Current, id))
        /\ (Passes(o.filter, id)' <=> Passes(o.filter, id))
  BY PassesStays DEF Leaves
<1>2. d.pc # "idle" /\ o.kind # "deleteAll" => d.again = {}
  BY DEF Leaves, WalkFits
<1>3. d.pc \in {"walk", "cursor", "resolve"} /\ o.kind \in {"pages", "updateAll"} =>
        \E n \in Int : Resolved(d.at)' = {n} /\ Past(d, o, n)'
  <2> SUFFICES ASSUME d.pc \in {"walk", "cursor", "resolve"}, o.kind \in {"pages", "updateAll"}
               PROVE  \E n \in Int : Resolved(d.at)' = {n} /\ Past(d, o, n)'
    OBVIOUS
  <2>1. PICK n \in Int : Resolved(c.at) = {n} /\ Past(c, o, n)
    BY DEF Leaves, WalkFits
  <2>2. Resolved(d.at)' = {n}
    BY <2>1, ResolvedStays DEF Leaves
  <2>3. Past(d, o, n)'
    BY <1>1, <2>1 DEF Past, Leaves
  <2> QED BY <2>2, <2>3
<1>4. (d.pc = "walk" => \E n \in Int : d.at = Num(n)) /\ (d.pc = "cursor" => o.kind \in {"pages", "updateAll"})
      /\ (d.pc \in {"walk", "cursor"} => d.done = NoRows)
  BY DEF Leaves, WalkFits
<1>5. d.pc = "resolve" /\ o.kind = "updateAll" =>
        /\ DOMAIN d.done \subseteq d.seen
        /\ \A i \in DOMAIN d.left : Resolved(d.left[i].rid)' \subseteq d.seen
  <2> SUFFICES ASSUME d.pc = "resolve", o.kind = "updateAll", NEW i \in DOMAIN d.left
               PROVE  Resolved(d.left[i].rid)' \subseteq d.seen
    BY DEF Leaves, WalkFits
  <2>1. Resolved(d.left[i].rid) \subseteq d.seen /\ ItemFits(d.left[i])
    BY DEF Leaves, WalkFits, CallFits
  <2>2. PICK n : Resolved(d.left[i].rid) = {n}
    BY <2>1 DEF ItemFits
  <2> QED BY <2>1, <2>2, ResolvedStays
<1>6. o.kind = "deleteAll" =>
        /\ d.pc \in {"walk", "resolve"} => d.at = Start
        /\ d.pc \in {"walk", "resolve"} =>
              \A id \in d.kept : IsIdLive(Current, id)' => Passes(o.filter, id)'
        /\ d.pc = "ended" => \A id \in d.kept : ~IsIdLive(Current, id)'
  BY <1>1 DEF Leaves, WalkFits
<1>7. d.pc = "ended" /\ o.kind \in {"pages", "updateAll"} => d.kept \subseteq d.seen
  BY DEF Leaves, WalkFits
<1> QED BY <1>2, <1>3, <1>4, <1>5, <1>6, <1>7 DEF WalkFits

\* The calls of the other threads when t takes a step.
LEMMA OthersFit ==
    ASSUME CallsInv, Grows, UNCHANGED script, NEW t, NEW written,
           \A id \in Id \ written : Lookup(Current, id)' = Lookup(Current, id),
           \A u \in Thread \ {t} : made'[u] = made[u] /\ Leaves(call[u], call'[u], written)
    PROVE  \A u \in Thread \ {t} : CallFits(call[u], Op(u))' /\ WalkFits(call[u], Op(u))'
<1> TAKE u \in Thread \ {t}
<1>1. PICK c, d, o : c = call[u] /\ d = call'[u] /\ o = Op(u)
  OBVIOUS
<1>2. Op(u)' = o
  BY <1>1 DEF Op
<1>3. CallFits(c, o) /\ WalkFits(c, o) /\ c.kept \subseteq Id /\ Leaves(c, d, written)
  BY <1>1 DEF CallsInv, CallsType, CallState
<1>4. CallFits(d, o)' /\ WalkFits(d, o)'
  BY <1>3, CallFitsStays, WalkFitsStays
<1>5. call[u]' = d
  BY <1>1
<1>6. CallFits(call[u], Op(u))' <=> CallFits(d, o)'
  BY <1>2, <1>5 DEF CallFits
<1>7. WalkFits(call[u], Op(u))' <=> WalkFits(d, o)'
  BY <1>2, <1>5 DEF WalkFits, Past
<1> QED BY <1>4, <1>6, <1>7

LEMMA NoRowsType == NoRows \in Rows /\ DOMAIN NoRows = {}
<1>1. NoRows \in [{} -> Record \cup {NoRecord}] /\ {} \in SUBSET Id
  BY DEF NoRows
<1>2. [{} -> Record \cup {NoRecord}] \in {[ids -> Record \cup {NoRecord}] : ids \in SUBSET Id}
  BY <1>1
<1>3. NoRows \in Rows
  BY <1>1, <1>2 DEF Rows
<1> QED BY <1>3 DEF NoRows

LEMMA RowsType ==
    ASSUME NEW rows
    PROVE  rows \in Rows <=> /\ rows = [id \in DOMAIN rows |-> rows[id]]
                             /\ DOMAIN rows \subseteq Id
                             /\ \A id \in DOMAIN rows : rows[id] \in Record \cup {NoRecord}
<1>1. ASSUME rows \in Rows
      PROVE  /\ rows = [id \in DOMAIN rows |-> rows[id]]
             /\ DOMAIN rows \subseteq Id
             /\ \A id \in DOMAIN rows : rows[id] \in Record \cup {NoRecord}
  <2>1. PICK ids \in SUBSET Id : rows \in [ids -> Record \cup {NoRecord}]
    BY <1>1 DEF Rows
  <2> QED BY <2>1
<1>2. ASSUME rows = [id \in DOMAIN rows |-> rows[id]], DOMAIN rows \in SUBSET Id,
             \A id \in DOMAIN rows : rows[id] \in Record \cup {NoRecord}
      PROVE  rows \in Rows
  <2>1. rows \in [DOMAIN rows -> Record \cup {NoRecord}]
    BY <1>2
  <2> QED BY <1>2, <2>1 DEF Rows
<1> QED BY <1>1, <1>2

LEMMA RestingType ==
    /\ Resting \in CallState /\ Ended \in CallState
    /\ Start \notin RecordId
    /\ Resting.pc = "idle" /\ Ended.pc = "ended"
    /\ \A c \in {Resting, Ended} :
          /\ c.at = Start /\ c.left = <<>> /\ c.done = NoRows
          /\ c.seen = {} /\ c.again = {} /\ c.kept = {}
<1>1. NoRows \in Rows
  BY NoRowsType
<1>2. Resting \in CallState
  BY <1>1 DEF Resting, CallState
<1>3. Ended \in CallState
  BY <1>1, <1>2 DEF Ended, Resting, CallState
<1>4. Start \notin RecordId
  <2>1. ASSUME Start \in RecordId PROVE FALSE
    <3>1. Start = [num |-> -1]
      BY DEF Start, Num
    <3>2. CASE Start \in [num : Id]
      <4>1. -1 \in Id
        BY <3>1, <3>2
      <4> QED BY <4>1, CallsAssumption
    <3>3. CASE Start \in [str : Ext]
      BY <3>1, <3>3
    <3> QED BY <2>1, <3>2, <3>3 DEF RecordId
  <2> QED BY <2>1
<1> QED BY <1>2, <1>3, <1>4 DEF Resting, Ended

\* The calls of a script
LEMMA RequestIs ==
    ASSUME NEW c \in Request
    PROVE  /\ c.kind \in {"upsert", "get", "delete", "update", "pages", "deleteAll", "updateAll"}
           /\ c.kind = "upsert" =>
                /\ c.rows \in Seq([rid : [num : UserId] \cup [str : Ext], rec : PlainRecord])
           /\ c.kind \in {"get", "delete", "update"} => c.rid \in RecordId
           /\ c.kind \in {"update", "updateAll"} => c.set \in Setting
BY DEF Request

LEMMA OpIs ==
    ASSUME CallsType, NEW t \in Thread
    PROVE  /\ script.todo[t] \in Seq(Request)
           /\ call[t] \in CallState
           /\ made[t] \in Nat /\ made[t] <= Len(script.todo[t])
           /\ call[t].pc # "idle" => ~script.free /\ Op(t) \in Request
           /\ made[t] < Len(script.todo[t]) =>
                 ~script.free /\ script.todo[t][made[t] + 1] \in Request
<1>1. script.todo \in [Thread -> Seq(Request)] /\ (script.free => \A u \in Thread : script.todo[u] = <<>>)
  BY ScriptsAssumption DEF CallsType
<1>2. script.todo[t] \in Seq(Request) /\ made[t] \in Nat /\ made[t] <= Len(script.todo[t]) /\ call[t] \in CallState
  BY <1>1 DEF CallsType
<1>3. call[t].pc # "idle" => ~script.free /\ Op(t) \in Request
  <2>1. call[t].pc # "idle" => made[t] >= 1 /\ ~script.free
    BY RestingType DEF CallsType
  <2>2. made[t] >= 1 => made[t] \in 1..Len(script.todo[t])
    BY <1>2
  <2> QED BY <1>2, <2>1, <2>2 DEF Op
<1>4. made[t] < Len(script.todo[t]) => ~script.free /\ script.todo[t][made[t] + 1] \in Request
  <2>1. Len(<<>>) = 0
    OBVIOUS
  <2>2. made[t] < Len(script.todo[t]) => made[t] + 1 \in 1..Len(script.todo[t])
    BY <1>2
  <2> QED BY <1>1, <1>2, <2>1, <2>2
<1> QED BY <1>2, <1>3, <1>4

----------------------------------------------------------------------------
(* Steps of a call that write nothing *)

LEMMA VarsStay ==
    ASSUME IndInv, UNCHANGED vars
    PROVE  IndInv' /\ UNCHANGED Map!vars /\ \A id \in Id : Lookup(Current, id)' = Lookup(Current, id)
<1>1. \A id \in Id : Lookup(Current, id)' = Lookup(Current, id)
  BY DEF vars, Current
<1>2. TypeOK' /\ LayersExclusive' /\ MaintReadStillCurrent'
  BY DEF vars, IndInv, TypeOK, LayersExclusive, MaintReadStillCurrent
<1> QED BY <1>1, <1>2, SilentStep DEF vars

LEMMA LiveFitStays ==
    ASSUME LiveFit, Grows, \A id \in Id : Lookup(Current, id)' = Lookup(Current, id)
    PROVE  LiveFit'
<1> SUFFICES ASSUME NEW id \in Id, IsIdLive(Current, id)'
             PROVE  Fit(id, Lookup(Current, id).metadata.ext)'
  BY DEF LiveFit
<1>1. PICK rec : rec = Lookup(Current, id)
  OBVIOUS
<1>2. Lookup(Current, id)' = rec
  BY <1>1
<1>3. IsIdLive(Current, id)
  BY <1>1, <1>2 DEF IsIdLive
<1>4. Fit(id, rec.metadata.ext)
  BY <1>1, <1>3 DEF LiveFit
<1>5. Fit(id, rec.metadata.ext)'
  BY <1>4, FitStays
<1> QED BY <1>2, <1>5 DEF Fit

LEMMA CallStep ==
    ASSUME CallsInv, UNCHANGED <<vars, script, reopens>>, NEW t \in Thread, ~script.free,
           NEW k \in Nat, k <= Len(script.todo[t]), made' = [made EXCEPT ![t] = k],
           NEW d \in CallState, d.pc # "idle", k >= 1, call' = [call EXCEPT ![t] = d],
           Grows, DictFits', nextExt' \in Nat,
           NEW o, o = script.todo[t][k], CallFits(d, o)', WalkFits(d, o)'
    PROVE  CallsInv'
<1>1. IndInv' /\ \A id \in Id : Lookup(Current, id)' = Lookup(Current, id)
  BY VarsStay DEF CallsInv
<1>2. LiveFit'
  BY <1>1, LiveFitStays DEF CallsInv
<1>3. made \in [Thread -> Nat] /\ call \in [Thread -> CallState]
  BY DEF CallsInv, CallsType
<1>4. call'[t] = d /\ made'[t] = k /\ \A u \in Thread \ {t} : call'[u] = call[u] /\ made'[u] = made[u]
  BY <1>3
<1>5. CallsType'
  <2>1. made' \in [Thread -> Nat] /\ call' \in [Thread -> CallState]
    BY <1>3
  <2>2. \A u \in Thread : made'[u] <= Len(script.todo[u]) /\ (call'[u].pc # "idle" => made'[u] >= 1)
    BY <1>4 DEF CallsInv, CallsType
  <2>3. script \in Scripts /\ reopens \in Nat
    BY DEF CallsInv, CallsType
  <2> QED BY <2>1, <2>2, <2>3 DEF CallsType
<1>6. \A u \in Thread \ {t} : Leaves(call[u], call'[u], {})
  BY <1>4 DEF Leaves
<1>7. \A u \in Thread \ {t} : CallFits(call[u], Op(u))' /\ WalkFits(call[u], Op(u))'
  <2>1. PICK w : w = {}
    OBVIOUS
  <2>2. \A u \in Thread \ {t} : made'[u] = made[u] /\ Leaves(call[u], call'[u], w)
    BY <1>4, <1>6, <2>1
  <2> QED BY <1>1, <2>2, OthersFit
<1>8. call[t]' = d /\ Op(t)' = o
  BY <1>4 DEF Op
<1>9. CallFits(call[t], Op(t))' <=> CallFits(d, o)'
  BY <1>8 DEF CallFits
<1>10. WalkFits(call[t], Op(t))' <=> WalkFits(d, o)'
  BY <1>8 DEF WalkFits, Past
<1> QED BY <1>1, <1>2, <1>5, <1>7, <1>9, <1>10 DEF CallsInv

\* The same for a step that leaves the dictionary alone.
LEMMA LocalStep ==
    ASSUME CallsInv, UNCHANGED <<vars, script, extIds, nextExt, reopens>>, NEW t \in Thread,
           ~script.free,
           NEW k \in Nat, k <= Len(script.todo[t]), made' = [made EXCEPT ![t] = k],
           NEW d \in CallState, d.pc # "idle", k >= 1, call' = [call EXCEPT ![t] = d],
           NEW o, o = script.todo[t][k], CallFits(d, o), WalkFits(d, o)
    PROVE  CallsInv'
<1>1. Grows
  BY DEF Grows
<1>2. DictFits' /\ nextExt' \in Nat
  BY DEF CallsInv, CallsType, DictFits
<1>3. CallFits(d, o)'
  BY DEF CallFits, RowsFit, RowFits, ItemFits, Fit, Resolved
<1>4. WalkFits(d, o)'
  <2>1. Current' = Current
    BY DEF vars, Current
  <2> QED BY <2>1 DEF WalkFits, Past, Passes, Resolved
<1> QED BY <1>1, <1>2, <1>3, <1>4, CallStep

LEMMA BeginStep == ASSUME CallsInv, NEW t \in Thread, Begin(t) PROVE CallsInv'
<1> DEFINE o == script.todo[t][made[t] + 1]
           d == CASE o.kind \in {"upsert", "get", "update"} -> [Resting EXCEPT !.pc = "begun"]
                  [] o.kind = "delete" ->
                       [Resting EXCEPT !.pc = "resolve", !.left = <<[rid |-> o.rid, rec |-> NoRecord]>>]
                  [] OTHER -> [Resting EXCEPT !.pc = "walk", !.kept = {id \in Id : Passes(o.filter, id)}]
<1>1. /\ made[t] \in Nat /\ made[t] + 1 <= Len(script.todo[t]) /\ made[t] + 1 \in Nat
      /\ ~script.free /\ o \in Request
  BY OpIs DEF CallsInv, Begin
<1>2. /\ made' = [made EXCEPT ![t] = made[t] + 1] /\ call' = [call EXCEPT ![t] = d]
      /\ UNCHANGED <<vars, script, extIds, nextExt, reopens>>
  BY DEF Begin
<1>3. PICK p, e, k : p = o /\ e = d /\ k = made[t] + 1
  OBVIOUS
<1>4. /\ k \in Nat /\ k <= Len(script.todo[t]) /\ k >= 1 /\ made' = [made EXCEPT ![t] = k]
      /\ call' = [call EXCEPT ![t] = e] /\ p = script.todo[t][k]
  BY <1>1, <1>2, <1>3
<1>5. /\ Resting \in CallState /\ Resting.at = Start /\ Resting.left = <<>> /\ Resting.done = NoRows
      /\ Resting.seen = {} /\ Resting.again = {} /\ Resting.kept = {}
  BY RestingType
<1>6. CASE p.kind \in {"upsert", "get", "update"}
  <2>1. e = [Resting EXCEPT !.pc = "begun"]
    BY <1>3, <1>6
  <2>2. e \in CallState /\ e.pc = "begun" /\ e.again = {}
    BY <1>5, <2>1 DEF CallState
  <2>3. CallFits(e, p) /\ WalkFits(e, p)
    BY <1>6, <2>2 DEF CallFits, WalkFits
  <2> QED BY <1>1, <1>2, <1>4, <2>2, <2>3, LocalStep
<1>7. CASE p.kind = "delete"
  <2>1. e = [Resting EXCEPT !.pc = "resolve", !.left = <<[rid |-> p.rid, rec |-> NoRecord]>>]
    BY <1>3, <1>7
  <2>2. [rid |-> p.rid, rec |-> NoRecord] \in Item
    BY <1>1, <1>3, <1>7, RequestIs DEF Item
  <2>3. <<[rid |-> p.rid, rec |-> NoRecord]>> \in Seq(Item)
    BY <2>2
  <2>4. e \in CallState /\ e.pc = "resolve" /\ e.again = {}
    BY <1>5, <2>1, <2>3 DEF CallState
  <2>5. CallFits(e, p) /\ WalkFits(e, p)
    BY <1>7, <2>4 DEF CallFits, WalkFits
  <2> QED BY <1>1, <1>2, <1>4, <2>4, <2>5, LocalStep
<1>8. CASE p.kind \in {"pages", "updateAll", "deleteAll"}
  <2> DEFINE kept == {id \in Id : Passes(p.filter, id)}
  <2>1. e = [Resting EXCEPT !.pc = "walk", !.kept = kept]
    BY <1>3, <1>8
  <2>2. kept \in SUBSET Id /\ (\A id \in kept : Passes(p.filter, id)) /\ \A id \in kept : id > -1
    BY CallsAssumption
  <2> HIDE DEF kept
  <2>3. e \in CallState
    BY <1>5, <2>1, <2>2 DEF CallState
  <2>4. e.pc = "walk" /\ e.at = Start /\ e.seen = {} /\ e.again = {} /\ e.kept = kept /\ e.done = NoRows
    BY <1>5, <2>1 DEF CallState
  <2>5. CallFits(e, p)
    BY <2>4 DEF CallFits
  <2>6. Start = Num(-1) /\ Resolved(Start) = {-1} /\ -1 \in Int
    BY Forms DEF Start
  <2>7. Past(e, p, -1)
    BY <2>2, <2>4 DEF Past
  <2>8. WalkFits(e, p)
    BY <1>8, <2>2, <2>4, <2>6, <2>7 DEF WalkFits
  <2> QED BY <1>1, <1>2, <1>4, <2>3, <2>4, <2>5, <2>8, LocalStep
<1> QED BY <1>1, <1>3, <1>6, <1>7, <1>8, RequestIs

\* The same for a step inside a call.
LEMMA InnerStep ==
    ASSUME CallsInv, UNCHANGED <<vars, script, made, extIds, nextExt, reopens>>, NEW t \in Thread,
           call[t].pc # "idle",
           NEW d \in CallState, d.pc # "idle", call' = [call EXCEPT ![t] = d],
           CallFits(d, Op(t)), WalkFits(d, Op(t))
    PROVE  CallsInv'
<1>1. PICK k, o : k = made[t] /\ o = Op(t)
  OBVIOUS
<1>2. ~script.free /\ k \in Nat /\ k <= Len(script.todo[t]) /\ k >= 1
  BY <1>1, OpIs DEF CallsInv, CallsType
<1>3. made' = [made EXCEPT ![t] = k] /\ o = script.todo[t][k]
  <2>1. made \in [Thread -> Nat]
    BY DEF CallsInv, CallsType
  <2> QED BY <1>1, <2>1 DEF Op
<1> QED BY <1>1, <1>2, <1>3, LocalStep

LEMMA ResolvedIs ==
    ASSUME DictFits, NEW rid \in RecordId
    PROVE  Resolved(rid) = {} \/ \E id \in Id : Resolved(rid) = {id}
<1>1. \/ IsStr(rid) /\ rid.str \in Ext /\ rid = Str(rid.str)
      \/ ~IsStr(rid) /\ rid.num \in Id
  BY RidIs, RestingType
<1> QED BY <1>1 DEF Resolved, DictFits

LEMMA PatchIs ==
    ASSUME NEW rec \in Record, NEW set \in Setting
    PROVE  LET new == [rec EXCEPT !.metadata = Patch(@, set)]
           IN  new \in Record /\ new.metadata.ext = rec.metadata.ext
<1>1. rec.metadata \in Metadata
  BY DEF Record
<1>2. PICK m : m = rec.metadata
  OBVIOUS
<1>3. Patch(m, set) \in Metadata /\ "ext" \in DOMAIN m /\ set.key # "ext"
  BY <1>1, <1>2, MetadataAssumption
<1>4. Patch(m, set).ext = m.ext
  BY <1>3 DEF Patch
<1> DEFINE new == [rec EXCEPT !.metadata = Patch(@, set)]
<1>5. new \in Record /\ new.metadata = Patch(m, set)
  BY <1>2, <1>3 DEF Record
<1> QED BY <1>2, <1>4, <1>5

LEMMA ResolveGetStep == ASSUME CallsInv, NEW t \in Thread, ResolveGet(t) PROVE CallsInv'
<1>1. /\ call[t].pc = "begun" /\ Op(t).kind \in {"get", "update"}
      /\ UNCHANGED <<vars, script, made, extIds, nextExt, reopens>>
  BY DEF ResolveGet, At
<1>2. PICK o : o = Op(t)
  OBVIOUS
<1>3. o \in Request /\ o.rid \in RecordId
  BY <1>1, <1>2, OpIs, RequestIs DEF CallsInv
<1>4. CASE call' = [call EXCEPT ![t] = Ended]
  <2>1. Ended \in CallState /\ Ended.pc = "ended" /\ Ended.done = NoRows /\ Ended.again = {} /\ DOMAIN NoRows = {}
    BY RestingType, NoRowsType
  <2>2. CallFits(Ended, o) /\ WalkFits(Ended, o)
    BY <1>1, <1>2, <2>1 DEF CallFits, WalkFits
  <2> QED BY <1>1, <1>2, <1>4, <2>1, <2>2, InnerStep
<1>5. ASSUME NEW id \in Resolved(o.rid), call' = [call EXCEPT ![t] = [Resting EXCEPT !.pc = "view", !.at = Num(id)]]
      PROVE  CallsInv'
  <2>1. id \in Id /\ Resolved(o.rid) = {id} /\ Num(id) \in RecordId
    BY <1>3, ResolvedIs, Forms DEF CallsInv
  <2>2. PICK d : d = [Resting EXCEPT !.pc = "view", !.at = Num(id)]
    OBVIOUS
  <2>3. d \in CallState /\ d.pc = "view" /\ d.at = Num(id) /\ d.again = {}
    BY <2>1, <2>2, RestingType DEF CallState
  <2>4. CallFits(d, o)
    BY <1>1, <1>2, <2>1, <2>3 DEF CallFits
  <2>5. WalkFits(d, o)
    BY <1>1, <1>2, <2>3 DEF WalkFits
  <2> QED BY <1>1, <1>2, <1>5, <2>2, <2>3, <2>4, <2>5, InnerStep
<1> QED BY <1>2, <1>4, <1>5 DEF ResolveGet

LEMMA ViewGetStep == ASSUME CallsInv, NEW t \in Thread, ViewGet(t) PROVE CallsInv'
<1> DEFINE n == call[t].at.num
           found == Lookup(Current, n)
<1>1. /\ call[t].pc = "view" /\ Op(t).kind \in {"get", "update"}
      /\ UNCHANGED <<vars, script, made, extIds, nextExt, reopens>>
  BY DEF ViewGet, At
<1>2. PICK o, id, rec : o = Op(t) /\ id = n /\ rec = found
  OBVIOUS
<1>3. o \in Request /\ o.rid \in RecordId /\ (o.kind = "update" => o.set \in Setting)
  BY <1>1, <1>2, OpIs, RequestIs DEF CallsInv
<1>4. id \in Id /\ Resolved(o.rid) = {id}
  <2>1. PICK i \in Id : call[t].at = Num(i) /\ Resolved(o.rid) = {i}
    BY <1>1, <1>2 DEF CallsInv, CallFits
  <2> QED BY <1>2, <2>1, Forms
<1>5. rec \in Record \cup {NoRecord} /\ rec = Lookup(Current, id)
  BY <1>2, <1>4, CurrentType, LookupType DEF CallsInv, IndInv
<1>6. rec # NoRecord => rec \in Record /\ Fit(id, rec.metadata.ext)
  BY <1>4, <1>5 DEF CallsInv, LiveFit, IsIdLive
<1>7. \/ rec = NoRecord /\ call' = [call EXCEPT ![t] = Ended]
      \/ /\ rec # NoRecord /\ o.kind = "get"
         /\ call' = [call EXCEPT ![t] = [Ended EXCEPT !.done = [x \in {id} |-> rec]]]
      \/ /\ rec # NoRecord /\ o.kind = "update"
         /\ call' = [call EXCEPT ![t] = [Resting EXCEPT !.pc = "resolve",
              !.left = <<[rid |-> o.rid, rec |-> [rec EXCEPT !.metadata = Patch(@, o.set)]]>>]]
  BY <1>2 DEF ViewGet
<1>8. Ended \in CallState /\ Ended.pc = "ended" /\ Ended.done = NoRows /\ Ended.again = {} /\ DOMAIN NoRows = {}
  BY RestingType, NoRowsType
<1>9. CASE call' = [call EXCEPT ![t] = Ended]
  <2>1. CallFits(Ended, o) /\ WalkFits(Ended, o)
    BY <1>1, <1>2, <1>8 DEF CallFits, WalkFits
  <2> QED BY <1>1, <1>2, <1>8, <1>9, <2>1, InnerStep
<1>10. CASE /\ rec # NoRecord /\ o.kind = "get"
            /\ call' = [call EXCEPT ![t] = [Ended EXCEPT !.done = [x \in {id} |-> rec]]]
  <2>1. PICK rows, d : rows = [x \in {id} |-> rec] /\ d = [Ended EXCEPT !.done = rows]
    OBVIOUS
  <2>2. rows \in Rows /\ DOMAIN rows = {id} /\ rows[id] = rec
    BY <1>4, <1>5, <2>1, RowsType
  <2>3. d \in CallState /\ d.pc = "ended" /\ d.done = rows /\ d.again = {}
    BY <1>8, <2>1, <2>2 DEF CallState
  <2>4. IsStr(o.rid) => rec.metadata.ext = o.rid.str
    <3> SUFFICES ASSUME IsStr(o.rid) PROVE rec.metadata.ext = o.rid.str
      OBVIOUS
    <3>1. o.rid.str \in DOMAIN extIds /\ extIds[o.rid.str] = id
      BY <1>4 DEF Resolved
    <3>2. id \in Nat /\ id >= ExtBase /\ ExtBase \in Nat
      BY <1>4, <3>1, CallsAssumption DEF CallsInv, DictFits
    <3>3. rec.metadata.ext \in DOMAIN extIds /\ extIds[rec.metadata.ext] = id
      BY <1>6, <1>10, <3>2 DEF Fit
    <3> QED BY <3>1, <3>3 DEF CallsInv, DictFits
  <2>5. CallFits(d, o)
    BY <1>10, <2>2, <2>3, <2>4 DEF CallFits
  <2>6. WalkFits(d, o)
    BY <1>10, <2>3 DEF WalkFits
  <2> QED BY <1>1, <1>2, <1>10, <2>1, <2>3, <2>5, <2>6, InnerStep
<1>11. CASE /\ rec # NoRecord /\ o.kind = "update"
            /\ call' = [call EXCEPT ![t] = [Resting EXCEPT !.pc = "resolve",
                 !.left = <<[rid |-> o.rid, rec |-> [rec EXCEPT !.metadata = Patch(@, o.set)]]>>]]
  <2>1. PICK new, item : new = [rec EXCEPT !.metadata = Patch(@, o.set)] /\ item = [rid |-> o.rid, rec |-> new]
    OBVIOUS
  <2>2. new \in Record /\ new.metadata.ext = rec.metadata.ext
    BY <1>3, <1>6, <1>11, <2>1, PatchIs
  <2>3. item \in Item /\ item.rid = o.rid /\ item.rec = new
    BY <1>3, <2>1, <2>2 DEF Item
  <2>4. ItemFits(item)
    BY <1>4, <1>6, <1>11, <2>2, <2>3 DEF ItemFits, RowFits
  <2>5. PICK d : d = [Resting EXCEPT !.pc = "resolve", !.left = <<item>>]
    OBVIOUS
  <2>6. <<item>> \in Seq(Item)
    BY <2>3
  <2>7. /\ d \in CallState /\ d.pc = "resolve" /\ d.left = <<item>> /\ d.done = NoRows
        /\ d.again = {} /\ DOMAIN NoRows = {}
    BY <2>5, <2>6, RestingType, NoRowsType DEF CallState
  <2>8. CallFits(d, o)
    BY <1>11, <2>4, <2>7 DEF CallFits, RowsFit
  <2>9. WalkFits(d, o)
    BY <1>11, <2>7 DEF WalkFits
  <2> QED BY <1>1, <1>2, <1>11, <2>1, <2>5, <2>7, <2>8, <2>9, InnerStep
<1> QED BY <1>7, <1>9, <1>10, <1>11

\* The record of a live id carries what leads back to it.
LEMMA RidOfIs ==
    ASSUME IndInv, LiveFit, NEW id \in Id, IsIdLive(Current, id)
    PROVE  /\ RidOf(id) \in RecordId /\ Resolved(RidOf(id)) = {id}
           /\ Lookup(Current, id) \in Record /\ RowFits(id, Lookup(Current, id))
<1>1. PICK rec : rec = Lookup(Current, id)
  OBVIOUS
<1>2. rec \in Record /\ rec.metadata \in Metadata
  <2>1. rec \in Record \cup {NoRecord} /\ rec # NoRecord
    BY <1>1, CurrentType, LookupType DEF IndInv, IsIdLive
  <2> QED BY <2>1 DEF Record
<1>3. Fit(id, rec.metadata.ext)
  BY <1>1 DEF LiveFit
<1>4. CASE rec.metadata.ext = NoExt
  <2>1. RidOf(id) = Num(id)
    BY <1>1, <1>4 DEF RidOf, RecordIdOf
  <2> QED BY <1>1, <1>2, <1>3, <2>1, Forms DEF RowFits
<1>5. CASE rec.metadata.ext # NoExt
  <2>1. PICK s : s = rec.metadata.ext
    OBVIOUS
  <2>2. RidOf(id) = Str(s)
    BY <1>1, <1>5, <2>1 DEF RidOf, RecordIdOf
  <2>3. s \in Ext /\ s \in DOMAIN extIds /\ extIds[s] = id
    BY <1>2, <1>3, <1>5, <2>1 DEF Ext, Fit
  <2>4. Resolved(Str(s)) = {id}
    BY <2>3, Forms DEF Resolved
  <2> QED BY <1>1, <1>2, <1>3, <2>2, <2>3, <2>4, Forms DEF RowFits
<1> QED BY <1>4, <1>5

\* The records of a page lead back to it, and what is to be written fits.
LEMMA ItemsIs ==
    ASSUME IndInv, LiveFit, NEW o \in Request, NEW page \in Seq(Id),
           \A i \in DOMAIN page : IsIdLive(Current, page[i])
    PROVE  /\ Items(o, page) \in Seq(Item) /\ DOMAIN Items(o, page) = DOMAIN page
           /\ \A i \in DOMAIN page :
                 /\ Resolved(Items(o, page)[i].rid) = {page[i]}
                 /\ o.kind = "updateAll" => ItemFits(Items(o, page)[i])
<1> DEFINE items == Items(o, page)
           rid(i) == RidOf(page[i])
           rec(i) == IF o.kind = "updateAll"
                     THEN [Lookup(Current, page[i]) EXCEPT !.metadata = Patch(@, o.set)]
                     ELSE Lookup(Current, page[i])
<1>1. items = [i \in DOMAIN page |-> [rid |-> rid(i), rec |-> rec(i)]]
  BY DEF Items
<1>2. ASSUME NEW i \in DOMAIN page
      PROVE  /\ page[i] \in Id /\ rid(i) \in RecordId /\ Resolved(rid(i)) = {page[i]}
             /\ rec(i) \in Record /\ (o.kind = "updateAll" => RowFits(page[i], rec(i)))
  <2>1. PICK id : id = page[i]
    OBVIOUS
  <2>2. id \in Id /\ IsIdLive(Current, id)
    BY <1>2, <2>1
  <2>3. PICK r : r = Lookup(Current, id)
    OBVIOUS
  <2>4. RidOf(id) \in RecordId /\ Resolved(RidOf(id)) = {id} /\ r \in Record /\ RowFits(id, r)
    BY <2>2, <2>3, RidOfIs
  <2>5. CASE o.kind = "updateAll"
    <3>1. PICK new : new = [r EXCEPT !.metadata = Patch(@, o.set)]
      OBVIOUS
    <3>2. new \in Record /\ new.metadata.ext = r.metadata.ext
      BY <2>4, <2>5, <3>1, RequestIs, PatchIs
    <3>3. RowFits(id, new)
      BY <2>4, <3>2 DEF RowFits
    <3>4. rec(i) = new
      BY <2>1, <2>3, <2>5, <3>1
    <3> QED BY <2>1, <2>2, <2>4, <3>2, <3>3, <3>4
  <2>6. CASE o.kind # "updateAll"
    <3>1. rec(i) = r
      BY <2>1, <2>3, <2>6
    <3> QED BY <2>1, <2>2, <2>4, <2>6, <3>1
  <2> QED BY <2>5, <2>6
<1> HIDE DEF items, rid, rec
<1>3. DOMAIN items = DOMAIN page /\ \A i \in DOMAIN page : items[i].rid = rid(i) /\ items[i].rec = rec(i)
  BY <1>1
<1>4. items \in Seq(Item)
  <2>1. \A i \in DOMAIN page : items[i] \in Item
    BY <1>1, <1>2 DEF Item
  <2>2. Len(page) \in Nat /\ DOMAIN page = 1..Len(page)
    OBVIOUS
  <2>3. items \in [1..Len(page) -> Item]
    BY <1>1, <2>1, <2>2
  <2> QED BY <2>2, <2>3
<1>5. ASSUME NEW i \in DOMAIN page PROVE Resolved(items[i].rid) = {page[i]}
  BY <1>2, <1>3
<1>6. ASSUME NEW i \in DOMAIN page, o.kind = "updateAll" PROVE ItemFits(items[i])
  <2>1. items[i].rid = rid(i) /\ items[i].rec = rec(i)
    BY <1>3
  <2>2. page[i] \in Id /\ Resolved(rid(i)) = {page[i]} /\ RowFits(page[i], rec(i))
    BY <1>2, <1>6
  <2> QED BY <2>1, <2>2 DEF ItemFits
<1> QED BY <1>3, <1>4, <1>5, <1>6 DEF items

LEMMA WalkStep == ASSUME CallsInv, NEW t \in Thread, Walk(t) PROVE CallsInv'
<1>1. /\ call[t].pc = "walk" /\ Op(t).kind \in {"pages", "updateAll", "deleteAll"}
      /\ UNCHANGED <<vars, script, made, extIds, nextExt, reopens>>
      /\ call' = [call EXCEPT ![t] =
           WalkTo(@, Op(t), Page(Matching(Op(t).filter, call[t].at.num), ChunkOf(Op(t))))]
  BY DEF Walk, At, Walks
<1>2. PICK c, o : c = call[t] /\ o = Op(t)
  OBVIOUS
<1>3. o \in Request /\ c \in CallState /\ CallFits(c, o) /\ WalkFits(c, o) /\ IndInv /\ LiveFit
      /\ c.pc = "walk" /\ o.kind \in {"pages", "updateAll", "deleteAll"}
  BY <1>1, <1>2, OpIs DEF CallsInv
<1>4. PICK n \in Int : c.at = Num(n) /\ c.at.num = n /\ Resolved(c.at) = {n}
  BY <1>3, Forms DEF WalkFits
<1>5. PICK M, limit : M = Matching(o.filter, n) /\ limit = ChunkOf(o)
  OBVIOUS
<1>6. M \in SUBSET Id /\ \A id \in Id : id \in M <=> id > n /\ Passes(o.filter, id)
  BY <1>5 DEF Matching
<1>7. limit \in Nat \ {0}
  BY <1>5, CallsAssumption DEF ChunkOf
<1>8. PICK page, first : page = Page(M, limit) /\ first = FirstOf(M, limit)
  OBVIOUS
<1>9. /\ page \in Seq(first) /\ first \subseteq M /\ ToSet(page) = first
      /\ page = <<>> <=> M = {}
      /\ page # <<>> => Last(page) \in first /\ \A x \in first : x <= Last(page)
      /\ \A x \in M \ first, y \in first : y < x
  BY <1>6, <1>7, <1>8, PageIs
<1>10. \A id \in Id : id \in Int
  BY CallsAssumption
<1>11. PICK d : d = WalkTo(c, o, page)
  OBVIOUS
<1>12. call' = [call EXCEPT ![t] = d]
  BY <1>1, <1>2, <1>4, <1>5, <1>8, <1>11
<1>13. \A id \in Id : Passes(o.filter, id) => IsIdLive(Current, id)
  BY DEF Passes
<1>14. /\ c.pc = "walk" /\ c.done = NoRows /\ (o.kind # "deleteAll" => c.again = {})
       /\ o.kind \in {"pages", "updateAll"} => Past(c, o, n)
       /\ o.kind = "deleteAll" =>
            c.at = Start /\ \A id \in c.kept : IsIdLive(Current, id) => Passes(o.filter, id)
  BY <1>3, <1>4 DEF WalkFits
<1>15. c.seen \in SUBSET Id /\ c.kept \in SUBSET Id /\ c.again \in SUBSET Id
  BY <1>3 DEF CallState
<1>16. CASE page = <<>>
  <2>1. d = [c EXCEPT !.pc = "ended", !.at = Start]
    BY <1>11, <1>16 DEF WalkTo, WalkEnds
  <2>2. /\ d \in CallState /\ d.pc = "ended" /\ d.done = NoRows /\ d.again = c.again
        /\ d.kept = c.kept /\ d.seen = c.seen
    BY <1>3, <1>14, <2>1 DEF CallState
  <2>3. CallFits(d, o)
    BY <1>3, <2>2 DEF CallFits
  <2>4. o.kind \in {"pages", "updateAll"} => d.kept \subseteq d.seen
    BY <1>6, <1>9, <1>14, <1>15, <1>16, <2>2 DEF Past
  <2>5. o.kind = "deleteAll" => \A id \in d.kept : ~IsIdLive(Current, id)
    <3>1. \A id \in Id : id > -1
      BY CallsAssumption
    <3>2. o.kind = "deleteAll" => n = -1
      BY <1>4, <1>14, Forms DEF Start
    <3> QED BY <1>6, <1>9, <1>14, <1>15, <1>16, <2>2, <3>1, <3>2
  <2>6. WalkFits(d, o)
    BY <1>3, <1>14, <2>2, <2>4, <2>5 DEF WalkFits
  <2> QED BY <1>1, <1>2, <1>12, <2>2, <2>3, <2>6, InnerStep
<1>17. CASE page # <<>>
  <2>1. PICK last : last = Last(page)
    OBVIOUS
  <2>2. last \in first /\ last \in Id /\ IsIdLive(Current, last) /\ (\A x \in first : x <= last)
        /\ last \in Int /\ last > n
    BY <1>6, <1>9, <1>10, <1>13, <1>17, <2>1
  <2>3. RidOf(last) \in RecordId /\ Resolved(RidOf(last)) = {last}
    BY <1>3, <2>2, RidOfIs
  <2>4. PICK items : items = Items(o, page)
    OBVIOUS
  <2>5. page \in Seq(Id) /\ \A i \in DOMAIN page : IsIdLive(Current, page[i]) /\ page[i] \in first
    BY <1>6, <1>9, <1>13
  <2>6. /\ items \in Seq(Item) /\ DOMAIN items = DOMAIN page
        /\ \A i \in DOMAIN items :
              /\ Resolved(items[i].rid) = {page[i]}
              /\ o.kind = "updateAll" => ItemFits(items[i])
    BY <1>3, <2>4, <2>5, ItemsIs
  <2>7. PICK at, left, seen, again :
           /\ at = IF o.kind = "deleteAll" THEN Start ELSE RidOf(last)
           /\ left = IF o.kind = "pages" THEN <<>> ELSE items
           /\ seen = c.seen \cup first /\ again = c.again \cup (c.seen \cap first)
    OBVIOUS
  <2>8. d = [c EXCEPT !.pc = IF o.kind = "pages" THEN "cursor" ELSE "resolve",
                      !.left = left, !.at = at, !.seen = seen, !.again = again]
    BY <1>9, <1>11, <1>17, <2>1, <2>4, <2>7 DEF WalkTo
  <2>9. at \in RecordId \cup {Start} /\ left \in Seq(Item) /\ seen \in SUBSET Id /\ again \in SUBSET Id
    BY <1>6, <1>9, <1>15, <2>3, <2>6, <2>7
  <2>10. /\ d \in CallState /\ d.pc = (IF o.kind = "pages" THEN "cursor" ELSE "resolve")
         /\ d.left = left /\ d.at = at /\ d.seen = seen /\ d.again = again
         /\ d.kept = c.kept /\ d.done = NoRows
    BY <1>3, <1>14, <2>8, <2>9 DEF CallState
  <2>11. DOMAIN NoRows = {}
    BY NoRowsType
  <2>12. CallFits(d, o)
    BY <1>3, <2>6, <2>7, <2>10, <2>11 DEF CallFits, RowsFit
  <2>13. o.kind \in {"pages", "updateAll"} => Past(d, o, last) /\ again = {}
    <3> SUFFICES ASSUME o.kind \in {"pages", "updateAll"} PROVE Past(d, o, last) /\ again = {}
      OBVIOUS
    <3>1. Past(c, o, n) /\ c.again = {}
      BY <1>14
    <3>2. again = {}
      <4>1. c.seen \cap first = {}
        BY <1>6, <1>9, <1>10, <1>15, <3>1 DEF Past
      <4> QED BY <2>7, <3>1, <4>1
    <3>3. \A id \in seen : id <= last
      <4> TAKE id \in seen
      <4>1. CASE id \in first
        BY <2>2, <4>1
      <4>2. CASE id \in c.seen
        <5>1. id <= n /\ id \in Int
          BY <1>10, <1>15, <3>1, <4>2 DEF Past
        <5> QED BY <2>2, <5>1
      <4> QED BY <2>7, <4>1, <4>2
    <3>4. ASSUME NEW id \in c.kept \ seen PROVE id > last /\ Passes(o.filter, id)
      <4>1. id > n /\ Passes(o.filter, id) /\ id \in Id /\ id \notin first
        BY <1>15, <2>7, <3>1, <3>4 DEF Past
      <4>2. id \in M \ first
        BY <1>6, <4>1
      <4> QED BY <1>9, <1>10, <2>2, <4>1, <4>2
    <3> QED BY <2>10, <3>2, <3>3, <3>4 DEF Past
  <2>14. o.kind = "updateAll" => \A i \in DOMAIN d.left : Resolved(d.left[i].rid) \subseteq d.seen
    <3> SUFFICES ASSUME o.kind = "updateAll", NEW i \in DOMAIN items
                 PROVE  Resolved(items[i].rid) \subseteq seen
      BY <2>7, <2>10
    <3>1. Resolved(items[i].rid) = {page[i]} /\ page[i] \in first
      BY <2>5, <2>6
    <3> QED BY <2>7, <3>1
  <2>15. WalkFits(d, o)
    BY <1>3, <1>14, <2>2, <2>3, <2>7, <2>10, <2>11, <2>13, <2>14 DEF WalkFits
  <2>16. d.pc # "idle"
    BY <2>10
  <2> QED BY <1>1, <1>2, <1>12, <2>10, <2>12, <2>15, <2>16, InnerStep
<1> QED BY <1>16, <1>17

LEMMA CursorStep == ASSUME CallsInv, NEW t \in Thread, Cursor(t) PROVE CallsInv'
<1>1. /\ call[t].pc = "cursor" /\ UNCHANGED <<vars, script, made, extIds, nextExt, reopens>>
      /\ Resolved(call[t].at) # {} =>
           call' = [call EXCEPT ![t] =
             [@ EXCEPT !.pc = "walk", !.at = Num(CHOOSE id \in Resolved(call[t].at) : TRUE)]]
  BY DEF Cursor, At
<1>2. PICK c, o : c = call[t] /\ o = Op(t)
  OBVIOUS
<1>3. c \in CallState /\ CallFits(c, o) /\ WalkFits(c, o) /\ c.pc = "cursor"
  BY <1>1, <1>2, OpIs DEF CallsInv
<1>4. PICK n \in Int : Resolved(c.at) = {n} /\ Past(c, o, n)
  BY <1>3 DEF WalkFits
<1>5. o.kind \in {"pages", "updateAll"} /\ c.again = {} /\ c.done = NoRows
  BY <1>3 DEF WalkFits
<1>6. PICK d : d = [c EXCEPT !.pc = "walk", !.at = Num(n)]
  OBVIOUS
<1>7. call' = [call EXCEPT ![t] = d]
  <2>1. (CHOOSE id \in Resolved(c.at) : TRUE) = n
    BY <1>4
  <2> QED BY <1>1, <1>2, <1>4, <1>6, <2>1
<1>8. Num(n) \in RecordId \cup {Start}
  <2>1. c.at \in RecordId \cup {Start}
    BY <1>3 DEF CallState
  <2>2. CASE IsStr(c.at)
    <3>1. n \in Id
      BY <1>4, <2>2 DEF Resolved, CallsInv, DictFits
    <3> QED BY <3>1, Forms
  <2>3. CASE ~IsStr(c.at)
    <3>1. c.at.num = n
      BY <1>4, <2>3 DEF Resolved
    <3> QED BY <2>1, <2>3, <3>1, RidIs
  <2> QED BY <2>2, <2>3
<1>9. /\ d \in CallState /\ d.pc = "walk" /\ d.at = Num(n) /\ d.done = c.done /\ d.seen = c.seen
      /\ d.again = c.again /\ d.kept = c.kept
  BY <1>3, <1>6, <1>8 DEF CallState
<1>10. CallFits(d, o)
  BY <1>9 DEF CallFits
<1>11. Past(d, o, n) /\ Resolved(d.at) = {n}
  BY <1>4, <1>9, Forms DEF Past
<1>12. WalkFits(d, o)
  BY <1>5, <1>9, <1>11 DEF WalkFits
<1> QED BY <1>1, <1>2, <1>3, <1>7, <1>9, <1>10, <1>12, InnerStep

LEMMA ResolveNextStep == ASSUME CallsInv, NEW t \in Thread, ResolveNext(t) PROVE CallsInv'
<1> DEFINE next == Head(call[t].left)
           resolved == Resolved(next.rid)
           gathered == [x \in DOMAIN call[t].done \cup resolved |->
                          IF x \in resolved THEN next.rec ELSE call[t].done[x]]
<1>1. /\ call[t].pc = "resolve" /\ call[t].left # <<>>
      /\ UNCHANGED <<vars, script, made, extIds, nextExt, reopens>>
      /\ call' = [call EXCEPT ![t] = [call[t] EXCEPT !.left = Tail(call[t].left), !.done = gathered]]
  BY DEF ResolveNext
<1>2. PICK c, o, item, ids, rows :
         c = call[t] /\ o = Op(t) /\ item = next /\ ids = resolved /\ rows = gathered
  OBVIOUS
<1>3. /\ item = Head(c.left) /\ ids = Resolved(item.rid)
      /\ rows = [x \in DOMAIN c.done \cup ids |-> IF x \in ids THEN item.rec ELSE c.done[x]]
  BY <1>2
<1> HIDE DEF next, resolved, gathered
<1>4. c \in CallState /\ CallFits(c, o) /\ WalkFits(c, o) /\ c.pc = "resolve" /\ c.left # <<>> /\ DictFits
  BY <1>1, <1>2, OpIs DEF CallsInv
<1>5. /\ c.left \in Seq(Item) /\ Tail(c.left) \in Seq(Item) /\ item \in Item /\ 1 \in DOMAIN c.left
      /\ item = c.left[1] /\ Len(c.left) \in Nat
      /\ \A i \in DOMAIN Tail(c.left) : i + 1 \in DOMAIN c.left /\ Tail(c.left)[i] = c.left[i + 1]
  BY <1>3, <1>4 DEF CallState
<1>6. item.rid \in RecordId /\ item.rec \in Record \cup {NoRecord}
  BY <1>5 DEF Item
<1>7. ids = {} \/ \E id \in Id : ids = {id}
  BY <1>3, <1>4, <1>6, ResolvedIs
<1>8. c.done \in Rows
  BY <1>4 DEF CallState
<1>9. DOMAIN rows = DOMAIN c.done \cup ids
      /\ \A x \in DOMAIN rows : rows[x] = IF x \in ids THEN item.rec ELSE c.done[x]
  BY <1>3
<1>10. rows \in Rows
  <2>1. DOMAIN c.done \subseteq Id /\ \A x \in DOMAIN c.done : c.done[x] \in Record \cup {NoRecord}
    BY <1>8, RowsType
  <2>2. DOMAIN rows \subseteq Id
    BY <1>7, <1>9, <2>1
  <2>3. \A x \in DOMAIN rows : rows[x] \in Record \cup {NoRecord}
    BY <1>6, <1>9, <2>1
  <2>4. rows = [x \in DOMAIN rows |-> rows[x]]
    BY <1>3
  <2> QED BY <2>2, <2>3, <2>4, RowsType
<1>11. PICK d : d = [c EXCEPT !.left = Tail(c.left), !.done = rows]
  OBVIOUS
<1>12. call' = [call EXCEPT ![t] = d]
  BY <1>1, <1>2, <1>11
<1>13. /\ d \in CallState /\ d.pc = "resolve" /\ d.left = Tail(c.left) /\ d.done = rows /\ d.at = c.at
       /\ d.seen = c.seen /\ d.again = c.again /\ d.kept = c.kept
  BY <1>4, <1>5, <1>10, <1>11 DEF CallState
<1>14. CallFits(d, o)
  <2>1. CASE o.kind \in {"update", "updateAll"}
    <3>1. RowsFit(c.done) /\ \A i \in DOMAIN c.left : ItemFits(c.left[i])
      BY <1>4, <2>1 DEF CallFits
    <3>2. \A x \in ids : RowFits(x, item.rec)
      BY <1>3, <1>5, <3>1 DEF ItemFits
    <3>3. RowsFit(rows)
      BY <1>9, <3>1, <3>2 DEF RowsFit
    <3>4. \A i \in DOMAIN d.left : ItemFits(d.left[i])
      BY <1>5, <1>13, <3>1
    <3> QED BY <1>13, <3>3, <3>4 DEF CallFits
  <2>2. CASE o.kind \notin {"update", "updateAll"}
    BY <1>13, <2>2 DEF CallFits
  <2> QED BY <2>1, <2>2
<1>15. WalkFits(d, o)
  <2>1. o.kind = "updateAll" => DOMAIN d.done \subseteq d.seen
                                /\ \A i \in DOMAIN d.left : Resolved(d.left[i].rid) \subseteq d.seen
    <3> SUFFICES ASSUME o.kind = "updateAll"
                 PROVE  DOMAIN d.done \subseteq d.seen
                        /\ \A i \in DOMAIN d.left : Resolved(d.left[i].rid) \subseteq d.seen
      OBVIOUS
    <3>1. DOMAIN c.done \subseteq c.seen /\ \A i \in DOMAIN c.left : Resolved(c.left[i].rid) \subseteq c.seen
      BY <1>4 DEF WalkFits
    <3>2. ids \subseteq c.seen
      BY <1>3, <1>5, <3>1
    <3>3. \A i \in DOMAIN d.left : Resolved(d.left[i].rid) \subseteq d.seen
      BY <1>5, <1>13, <3>1
    <3> QED BY <1>9, <1>13, <3>1, <3>2, <3>3
  <2>2. o.kind \in {"pages", "updateAll"} => \E n \in Int : Resolved(d.at) = {n} /\ Past(d, o, n)
    <3> SUFFICES ASSUME o.kind \in {"pages", "updateAll"}
                 PROVE  \E n \in Int : Resolved(d.at) = {n} /\ Past(d, o, n)
      OBVIOUS
    <3>1. PICK n \in Int : Resolved(c.at) = {n} /\ Past(c, o, n)
      BY <1>4 DEF WalkFits
    <3>2. Past(d, o, n)
      BY <1>13, <3>1 DEF Past
    <3> QED BY <1>13, <3>1, <3>2
  <2>3. /\ o.kind # "deleteAll" => d.again = {}
        /\ o.kind = "deleteAll" =>
              d.at = Start /\ \A id \in d.kept : IsIdLive(Current, id) => Passes(o.filter, id)
    BY <1>4, <1>13 DEF WalkFits
  <2> QED BY <1>13, <2>1, <2>2, <2>3 DEF WalkFits
<1>16. d.pc # "idle" /\ call[t].pc # "idle"
  BY <1>1, <1>13
<1> QED BY <1>1, <1>2, <1>12, <1>13, <1>14, <1>15, <1>16, InnerStep

\* A row of a batch, as it is written: it carries its string as _ext_id.
LEMMA RowIs ==
    ASSUME NEW r \in [rid : [num : UserId] \cup [str : Ext], rec : PlainRecord]
    PROVE  LET rec == IF IsStr(r.rid) THEN [r.rec EXCEPT !.metadata.ext = r.rid.str] ELSE r.rec
           IN  /\ r.rid \in RecordId /\ rec \in Record
               /\ IsStr(r.rid) => r.rid.str \in Ext /\ r.rid.str # NoExt /\ rec.metadata.ext = r.rid.str
               /\ ~IsStr(r.rid) => r.rid.num \in Id /\ r.rid.num < ExtBase /\ rec.metadata.ext = NoExt
<1>1. r.rid \in [num : UserId] \cup [str : Ext] /\ r.rec \in PlainRecord
  OBVIOUS
<1>2. r.rec \in Record /\ r.rec.metadata.ext = NoExt /\ r.rec.metadata \in Metadata
  BY <1>1 DEF PlainRecord, Record
<1>3. CASE r.rid \in [num : UserId]
  <2>1. ~IsStr(r.rid)
    BY <1>3 DEF IsStr
  <2>2. r.rid \in [num : Id] /\ r.rid.num \in Id /\ r.rid.num < ExtBase
    BY <1>3 DEF UserId
  <2> QED BY <1>2, <2>1, <2>2 DEF RecordId
<1>4. CASE r.rid \in [str : Ext]
  <2>1. IsStr(r.rid) /\ r.rid.str \in Ext /\ r.rid.str # NoExt /\ r.rid \in RecordId
    BY <1>4 DEF IsStr, Ext, RecordId
  <2>2. PICK m, s : m = r.rec.metadata /\ s = r.rid.str
    OBVIOUS
  <2>3. [m EXCEPT !.ext = s] \in Metadata /\ "ext" \in DOMAIN m
    BY <1>2, <2>1, <2>2, MetadataAssumption
  <2>4. PICK m2 : m2 = [m EXCEPT !.ext = s]
    OBVIOUS
  <2>5. m2 \in Metadata /\ m2.ext = s
    BY <2>3, <2>4
  <2>6. PICK new : new = [r.rec EXCEPT !.metadata.ext = r.rid.str]
    OBVIOUS
  <2>7. new = [r.rec EXCEPT !.metadata = m2]
    BY <2>2, <2>4, <2>6
  <2>8. new \in Record /\ new.metadata = m2
    BY <1>2, <2>5, <2>7 DEF Record
  <2> QED BY <2>1, <2>2, <2>5, <2>6, <2>8
<1> QED BY <1>1, <1>3, <1>4

LEMMA GreatestExists ==
    ASSUME NEW n \in Nat, NEW S \in SUBSET (0..n), S # {}
    PROVE  \E i \in S : \A j \in S : j <= i
<1> DEFINE T == {k \in 0..n : n - k \in S}
<1>1. PICK k \in T : \A j \in T : ~(j < k)
  <2>1. T \subseteq Nat
    OBVIOUS
  <2>2. T # {}
    <3>1. PICK i \in S : TRUE
      OBVIOUS
    <3>2. n - i \in 0..n /\ n - (n - i) = i
      BY <3>1
    <3>3. n - i \in T
      BY <3>2
    <3> QED BY <3>3
  <2> HIDE DEF T
  <2> QED BY <2>1, <2>2, LeastExists
<1>2. n - k \in S
  OBVIOUS
<1>3. ASSUME NEW j \in S PROVE j <= n - k
  <2>1. j \in Nat /\ n - j \in 0..n /\ n - (n - j) = j
    OBVIOUS
  <2>2. n - j \in T
    BY <2>1
  <2>3. ~(n - j < k)
    BY <1>1, <2>2
  <2> QED BY <2>1, <2>3
<1> QED BY <1>2, <1>3

LEMMA UpsertResolveStep == ASSUME CallsInv, NEW t \in Thread, UpsertResolve(t) PROVE CallsInv'
<1>1. PICK o : o = Op(t)
  OBVIOUS
<1> DEFINE batch == Op(t).rows
           n == Len(batch)
           known == Allot(batch)
           next == nextExt + Cardinality(Fresh(batch))
           idOf(r) == IF IsStr(r.rid) THEN known[r.rid.str] ELSE r.rid.num
           row(r) == IF IsStr(r.rid) THEN [r.rec EXCEPT !.metadata.ext = r.rid.str] ELSE r.rec
           last(id) == CHOOSE i \in DOMAIN batch :
                         /\ idOf(batch[i]) = id
                         /\ \A j \in DOMAIN batch : idOf(batch[j]) = id => j <= i
           ids == {idOf(batch[i]) : i \in DOMAIN batch}
<1>2. /\ call[t].pc = "begun" /\ o.kind = "upsert" /\ ids \subseteq Id
      /\ extIds' = known /\ nextExt' = next
      /\ call' = [call EXCEPT ![t] =
           [Resting EXCEPT !.pc = "write", !.done = [id \in ids |-> row(batch[last(id)])]]]
      /\ UNCHANGED <<vars, script, made, reopens>>
  BY <1>1 DEF UpsertResolve, At
<1>3. PICK rows : rows = [id \in ids |-> row(batch[last(id)])]
  OBVIOUS
<1>4. PICK d : d = [Resting EXCEPT !.pc = "write", !.done = rows]
  OBVIOUS
<1>5. call' = [call EXCEPT ![t] = d]
  BY <1>2, <1>3, <1>4
<1>6. o \in Request /\ DictFits /\ nextExt \in Nat /\ ~script.free
  BY <1>1, <1>2, OpIs DEF CallsInv, CallsType
<1>7. /\ n \in Nat /\ DOMAIN batch = 1..n
      /\ \A i \in 1..n : batch[i] \in [rid : [num : UserId] \cup [str : Ext], rec : PlainRecord]
  <2>1. batch \in Seq([rid : [num : UserId] \cup [str : Ext], rec : PlainRecord])
    BY <1>1, <1>2, <1>6, RequestIs
  <2> HIDE DEF batch
  <2>2. n \in Nat /\ DOMAIN batch = 1..n
    BY <2>1
  <2>3. ASSUME NEW R, batch \in Seq(R), NEW i \in 1..n PROVE batch[i] \in R
    BY <2>2, <2>3
  <2> QED BY <2>1, <2>2, <2>3
<1> HIDE DEF batch, n
<1>8. \A i \in 1..n :
        /\ batch[i].rid \in RecordId /\ row(batch[i]) \in Record
        /\ IsStr(batch[i].rid) =>
              /\ batch[i].rid.str \in Ext /\ batch[i].rid.str # NoExt
              /\ row(batch[i]).metadata.ext = batch[i].rid.str
        /\ ~IsStr(batch[i].rid) =>
              batch[i].rid.num < ExtBase /\ row(batch[i]).metadata.ext = NoExt
  BY <1>7, RowIs
<1> HIDE DEF row
<1>9. /\ nextExt' \in Nat /\ nextExt' >= ExtBase
      /\ known = [s \in DOMAIN known |-> known[s]] /\ DOMAIN known \subseteq Ext
      /\ \A s \in DOMAIN extIds : s \in DOMAIN known /\ known[s] = extIds[s]
      /\ \A s \in DOMAIN known \ DOMAIN extIds :
            \E i \in 1..n : IsStr(batch[i].rid) /\ batch[i].rid.str = s
      /\ \A i \in 1..n : IsStr(batch[i].rid) => batch[i].rid.str \in DOMAIN known
      /\ \A s, r \in DOMAIN known :
            /\ known[s] \in Nat /\ known[s] >= ExtBase /\ known[s] < nextExt'
            /\ s # r => known[s] # known[r]
  <2>1. \A i \in 1..n : batch[i].rid \in RecordId
    BY <1>8
  <2>2. /\ next \in Nat /\ next >= ExtBase
        /\ known = [s \in DOMAIN known |-> known[s]] /\ DOMAIN known \subseteq Ext
        /\ \A s \in DOMAIN extIds : s \in DOMAIN known /\ known[s] = extIds[s]
        /\ \A s \in DOMAIN known \ DOMAIN extIds :
              \E i \in 1..n : IsStr(batch[i].rid) /\ batch[i].rid.str = s
        /\ \A i \in 1..n : IsStr(batch[i].rid) => batch[i].rid.str \in DOMAIN known
        /\ \A s, r \in DOMAIN known :
              /\ known[s] \in Nat /\ known[s] >= ExtBase /\ known[s] < next
              /\ s # r => known[s] # known[r]
    BY <1>6, <1>7, <2>1, AllotIs
  <2> HIDE DEF next, known
  <2> QED BY <1>2, <2>2
<1> HIDE DEF next, known
<1>10. \A s \in DOMAIN known : known[s] \in Id
  <2> TAKE s \in DOMAIN known
  <2>1. CASE s \in DOMAIN extIds
    BY <1>6, <1>9, <2>1 DEF DictFits
  <2>2. CASE s \notin DOMAIN extIds
    <3>1. PICK i \in 1..n : IsStr(batch[i].rid) /\ batch[i].rid.str = s
      BY <1>9, <2>2
    <3>2. idOf(batch[i]) = known[s] /\ idOf(batch[i]) \in ids
      BY <1>7, <3>1
    <3> QED BY <1>2, <3>2
  <2> QED BY <2>1, <2>2
<1>11. DictFits'
  <2>1. known \in [DOMAIN known -> Id]
    BY <1>9, <1>10
  <2>2. DOMAIN known \subseteq Ext /\ nextExt' >= ExtBase
    BY <1>9
  <2>3. \A s, r \in DOMAIN known : known[s] >= ExtBase /\ known[s] < nextExt' /\ (s # r => known[s] # known[r])
    BY <1>9
  <2> QED BY <1>2, <2>1, <2>2, <2>3 DEF DictFits
<1>12. Grows
  BY <1>2, <1>9 DEF Grows
<1>13. ASSUME NEW id \in ids PROVE last(id) \in 1..n /\ idOf(batch[last(id)]) = id
  <2> DEFINE S == {i \in 1..n : idOf(batch[i]) = id}
  <2>1. S \in SUBSET (1..n) /\ S # {}
    BY <1>7
  <2> HIDE DEF idOf
  <2>2. PICK i \in S : \A j \in S : j <= i
    <3>1. S \in SUBSET (0..n)
      BY <1>7, <2>1
    <3> HIDE DEF S
    <3> QED BY <1>7, <2>1, <3>1, GreatestExists
  <2>3. i \in DOMAIN batch /\ idOf(batch[i]) = id /\ \A j \in DOMAIN batch : idOf(batch[j]) = id => j <= i
    BY <1>7, <2>2
  <2>4. last(id) \in DOMAIN batch /\ idOf(batch[last(id)]) = id
    BY <2>3
  <2> QED BY <1>7, <2>4
<1> HIDE DEF last
<1>14. DOMAIN rows = ids /\ \A id \in ids : rows[id] = row(batch[last(id)])
  BY <1>3
<1>15. ASSUME NEW id \in ids PROVE rows[id] \in Record /\ Fit(id, rows[id].metadata.ext)'
  <2>1. PICK i : i = last(id)
    OBVIOUS
  <2>2. i \in 1..n /\ idOf(batch[i]) = id /\ rows[id] = row(batch[i])
    BY <1>13, <1>14, <2>1
  <2>3. CASE IsStr(batch[i].rid)
    <3>1. PICK s : s = batch[i].rid.str
      OBVIOUS
    <3>2. s # NoExt /\ s \in DOMAIN known /\ known[s] = id /\ rows[id].metadata.ext = s
      BY <1>8, <1>9, <2>2, <2>3, <3>1
    <3> QED BY <1>2, <1>8, <2>2, <3>2 DEF Fit
  <2>4. CASE ~IsStr(batch[i].rid)
    <3>1. id < ExtBase /\ rows[id].metadata.ext = NoExt
      BY <1>8, <2>2, <2>4
    <3> QED BY <1>8, <2>2, <3>1 DEF Fit
  <2> QED BY <2>3, <2>4
<1>16. rows \in Rows
  <2>1. rows = [id \in DOMAIN rows |-> rows[id]]
    BY <1>3
  <2>2. DOMAIN rows \subseteq Id
    BY <1>2, <1>14
  <2> HIDE DEF ids
  <2>3. \A id \in DOMAIN rows : rows[id] \in Record \cup {NoRecord}
    BY <1>14, <1>15
  <2> QED BY <2>1, <2>2, <2>3, RowsType
<1>17. d \in CallState /\ d.pc = "write" /\ d.done = rows /\ d.again = {} /\ d.pc # "idle"
  BY <1>4, <1>16, RestingType DEF CallState
<1>18. CallFits(d, o)'
  BY <1>14, <1>15, <1>17 DEF CallFits, RowsFit, RowFits
<1>19. WalkFits(d, o)'
  BY <1>2, <1>17 DEF WalkFits
<1>20. PICK k : k = made[t]
  OBVIOUS
<1>21. k \in Nat /\ k <= Len(script.todo[t]) /\ k >= 1 /\ made' = [made EXCEPT ![t] = k] /\ o = script.todo[t][k]
  <2>1. k \in Nat /\ k <= Len(script.todo[t]) /\ k >= 1 /\ made \in [Thread -> Nat]
    BY <1>2, <1>20 DEF CallsInv, CallsType
  <2> QED BY <1>1, <1>2, <1>20, <2>1 DEF Op
<1> HIDE DEF ids
<1> QED BY <1>2, <1>5, <1>6, <1>9, <1>11, <1>12, <1>17, <1>18, <1>19, <1>21, CallStep

----------------------------------------------------------------------------
(* Writes *)

\* The common part of the writes of a call: the records that are not written
\* stay, and the dictionary already says what the written ones need.
LEMMA WriteCallStep ==
    ASSUME CallsInv, UNCHANGED <<script, made, extIds, nextExt, reopens>>,
           NEW t \in Thread, call[t].pc # "idle",
           NEW d \in CallState, d.pc # "idle", NEW written, Goto(t, d, written),
           IndInv', LiveFit', \A id \in Id \ written : Lookup(Current, id)' = Lookup(Current, id),
           NEW o, o = Op(t), CallFits(d, o)', WalkFits(d, o)'
    PROVE  CallsInv'
<1>1. ~script.free /\ made[t] >= 1
  BY OpIs DEF CallsInv, CallsType
<1>2. call \in [Thread -> CallState]
  BY DEF CallsInv, CallsType
<1>3. call' = [u \in Thread |-> IF u = t THEN d ELSE [call[u] EXCEPT !.kept = call[u].kept \ written]]
  BY DEF Goto
<1>4. call'[t] = d /\ \A u \in Thread \ {t} : call'[u] = [call[u] EXCEPT !.kept = call[u].kept \ written]
  BY <1>3
<1>5. \A u \in Thread \ {t} : call'[u] \in CallState /\ Leaves(call[u], call'[u], written)
  <2> TAKE u \in Thread \ {t}
  <2>1. PICK c, e : c = call[u] /\ e = [c EXCEPT !.kept = c.kept \ written] /\ e = call'[u]
    BY <1>4
  <2>2. c \in CallState
    BY <1>2, <2>1
  <2>3. e \in CallState /\ Leaves(c, e, written)
    BY <2>1, <2>2 DEF CallState, Leaves
  <2> QED BY <2>1, <2>3
<1>6. CallsType'
  <2>1. call' \in [Thread -> CallState]
    BY <1>3, <1>4, <1>5
  <2>2. \A u \in Thread : call'[u].pc # "idle" => made'[u] >= 1
    BY <1>1, <1>4, <1>5 DEF Leaves, CallsInv, CallsType
  <2> QED BY <1>1, <2>1, <2>2 DEF CallsInv, CallsType
<1>7. Grows
  BY DEF Grows
<1>8. DictFits'
  BY DEF CallsInv, DictFits
<1>9. \A u \in Thread \ {t} : CallFits(call[u], Op(u))' /\ WalkFits(call[u], Op(u))'
  BY <1>5, <1>7, OthersFit
<1>10. call[t]' = d /\ Op(t)' = o
  BY <1>4 DEF Op
<1>11. CallFits(call[t], Op(t))' <=> CallFits(d, o)'
  BY <1>10 DEF CallFits
<1>12. WalkFits(call[t], Op(t))' <=> WalkFits(d, o)'
  BY <1>10 DEF WalkFits, Past
<1> QED BY <1>6, <1>8, <1>9, <1>11, <1>12 DEF CallsInv

LEMMA MaxIs ==
    ASSUME NEW S, S \subseteq Int, NEW m \in S, \A x \in S : x <= m
    PROVE  Max(S) = m
<1>1. PICK n : n = Max(S)
  OBVIOUS
<1>2. n \in S /\ n >= m
  BY <1>1 DEF Max
<1>3. n \in Int /\ m \in Int /\ n <= m
  BY <1>2
<1> QED BY <1>1, <1>2, <1>3

\* track_ext_id learns nothing that upsert_batch_records did not resolve.
LEMMA UpsertWriteStep ==
    ASSUME CallsInv, NEW t \in Thread, UpsertWrite(t)
    PROVE  CallsInv' /\ Map!UpsertBatch(call[t].done)
<1> DEFINE named == {id \in DOMAIN call[t].done : call[t].done[id].metadata.ext # NoExt}
           exts == {call[t].done[id].metadata.ext : id \in named}
           idOf(s) == CHOOSE id \in named : call[t].done[id].metadata.ext = s
<1>1. /\ call[t].pc = "write" /\ Op(t).kind = "upsert" /\ UpsertBatch(call[t].done)
      /\ extIds' = [s \in DOMAIN extIds \cup exts |-> IF s \in exts THEN idOf(s) ELSE extIds[s]]
      /\ nextExt' = Max({nextExt} \cup {id + 1 : id \in named})
      /\ Goto(t, Ended, DOMAIN call[t].done)
      /\ UNCHANGED <<script, made, reopens>>
  BY DEF UpsertWrite, At
<1>2. PICK rows, o : rows = call[t].done /\ o = Op(t)
  OBVIOUS
<1>3. /\ rows \in Rows /\ RowsFit(rows) /\ DictFits /\ IndInv /\ LiveFit /\ nextExt \in Nat
      /\ extIds = [s \in DOMAIN extIds |-> extIds[s]]
  BY <1>1, <1>2, OpIs DEF CallsInv, CallsType, CallFits, CallState, DictFits
<1>4. DOMAIN rows \subseteq Id /\ \A id \in DOMAIN rows : rows[id] \in Record
  BY <1>3, RowsType DEF RowsFit, RowFits
<1>5. \A id \in named :
        /\ id \in Id /\ rows[id].metadata.ext \in DOMAIN extIds
        /\ extIds[rows[id].metadata.ext] = id /\ id < nextExt
  <2> TAKE id \in named
  <2>1. id \in DOMAIN rows /\ rows[id].metadata.ext # NoExt
    BY <1>2
  <2>2. Fit(id, rows[id].metadata.ext)
    BY <1>3, <2>1 DEF RowsFit, RowFits
  <2> QED BY <1>3, <1>4, <2>1, <2>2 DEF Fit, DictFits
<1>6. \A s \in exts : s \in DOMAIN extIds /\ idOf(s) = extIds[s]
  <2> TAKE s \in exts
  <2>1. PICK id \in named : rows[id].metadata.ext = s
    BY <1>2
  <2>2. idOf(s) \in named /\ rows[idOf(s)].metadata.ext = s
    BY <1>2, <2>1
  <2> QED BY <1>5, <2>1, <2>2
<1> HIDE DEF idOf, exts
<1>7. extIds' = extIds
  <2>1. DOMAIN extIds \cup exts = DOMAIN extIds
    BY <1>6
  <2>2. \A s \in DOMAIN extIds : extIds'[s] = extIds[s]
    BY <1>1, <1>6, <2>1
  <2>3. extIds' = [s \in DOMAIN extIds |-> extIds'[s]]
    BY <1>1, <2>1
  <2> QED BY <1>3, <2>2, <2>3
<1>8. nextExt' = nextExt
  <2> DEFINE S == {nextExt} \cup {id + 1 : id \in named}
  <2>1. \A id \in named : id \in Int /\ id + 1 <= nextExt
    BY <1>3, <1>5, CallsAssumption
  <2> HIDE DEF named
  <2>2. S \subseteq Int /\ nextExt \in S /\ \A x \in S : x <= nextExt
    BY <1>3, <2>1
  <2> HIDE DEF S
  <2>3. Max(S) = nextExt
    BY <2>2, MaxIs
  <2> QED BY <1>1, <2>3 DEF S
<1>9. /\ IndInv' /\ Map!UpsertBatch(rows)
      /\ \A id \in Id : Lookup(Current, id)' = IF id \in DOMAIN rows THEN rows[id] ELSE Lookup(Current, id)
  BY <1>1, <1>2, <1>3, <1>4, UpsertBatchStep
<1>10. LiveFit'
  <2> SUFFICES ASSUME NEW id \in Id, IsIdLive(Current, id)'
               PROVE  Fit(id, Lookup(Current, id).metadata.ext)'
    BY DEF LiveFit
  <2>1. PICK rec, new : rec = Lookup(Current, id) /\ new = Lookup(Current, id)'
    OBVIOUS
  <2>2. new # NoRecord
    BY <2>1 DEF IsIdLive
  <2>3. Fit(id, new.metadata.ext)
    <3>1. CASE id \in DOMAIN rows
      BY <1>3, <1>9, <2>1, <3>1 DEF RowsFit, RowFits
    <3>2. CASE id \notin DOMAIN rows
      BY <1>3, <1>9, <2>1, <2>2, <3>2 DEF LiveFit, IsIdLive
    <3> QED BY <3>1, <3>2
  <2> QED BY <1>7, <2>1, <2>3 DEF Fit
<1>11. Ended \in CallState /\ Ended.pc = "ended" /\ Ended.again = {}
  BY RestingType
<1>12. CallFits(Ended, o)' /\ WalkFits(Ended, o)'
  BY <1>1, <1>2, <1>11 DEF CallFits, WalkFits
<1>13. \A id \in Id \ DOMAIN rows : Lookup(Current, id)' = Lookup(Current, id)
  BY <1>9
<1>14. CallsInv'
  BY <1>1, <1>2, <1>7, <1>8, <1>9, <1>10, <1>11, <1>12, <1>13, WriteCallStep
<1> QED BY <1>2, <1>9, <1>14

LEMMA DeleteWriteStep ==
    ASSUME CallsInv, NEW t \in Thread, DeleteWrite(t)
    PROVE  /\ CallsInv'
           /\ Map!DeleteBatch(DOMAIN call[t].done) \/ UNCHANGED Map!vars
<1>1. PICK c, o, ids, d :
        /\ c = call[t] /\ o = Op(t) /\ ids = DOMAIN c.done
        /\ d = IF o.kind = "delete" THEN Ended ELSE Resume(c, "walk")
  OBVIOUS
<1>2. /\ c.pc = "resolve" /\ o.kind \in {"delete", "deleteAll"} /\ DeleteBatch(ids)
      /\ Goto(t, d, ids) /\ UNCHANGED <<script, made, extIds, nextExt, reopens>>
  BY <1>1 DEF DeleteWrite, At
<1>3. c \in CallState /\ WalkFits(c, o) /\ IndInv /\ LiveFit
  BY <1>1, OpIs DEF CallsInv
<1>4. ids \in SUBSET Id
  BY <1>1, <1>3, RowsType DEF CallState
<1>5. /\ IndInv' /\ (Map!DeleteBatch(ids) \/ UNCHANGED Map!vars)
      /\ \A id \in Id : Lookup(Current, id)' = IF id \in ids THEN NoRecord ELSE Lookup(Current, id)
  <2>1. CASE ids = {}
    <3>1. UNCHANGED vars
      BY <1>2, <2>1 DEF DeleteBatch
    <3> QED BY <1>3, <2>1, <3>1, VarsStay
  <2>2. CASE ids # {}
    BY <1>2, <1>3, <1>4, <2>2, DeleteBatchStep
  <2> QED BY <2>1, <2>2
<1>6. \A id \in Id : IsIdLive(Current, id)' =>
        id \notin ids /\ IsIdLive(Current, id) /\ Lookup(Current, id)' = Lookup(Current, id)
  BY <1>5 DEF IsIdLive
<1>7. LiveFit'
  <2> SUFFICES ASSUME NEW id \in Id, IsIdLive(Current, id)'
               PROVE  Fit(id, Lookup(Current, id).metadata.ext)'
    BY DEF LiveFit
  <2>1. PICK rec : rec = Lookup(Current, id) /\ rec = Lookup(Current, id)'
    BY <1>6
  <2>2. Fit(id, rec.metadata.ext)
    BY <1>3, <1>6, <2>1 DEF LiveFit
  <2> QED BY <1>2, <2>1, <2>2 DEF Fit
<1>8. \A id \in Id \ ids : Lookup(Current, id)' = Lookup(Current, id)
  BY <1>5
<1>9. CASE o.kind = "delete"
  <2>1. d \in CallState /\ d.pc = "ended" /\ d.again = {}
    BY <1>1, <1>9, RestingType
  <2>2. CallFits(d, o)' /\ WalkFits(d, o)'
    BY <1>9, <2>1 DEF CallFits, WalkFits
  <2>3. d.pc # "idle" /\ call[t].pc # "idle"
    BY <1>1, <1>2, <2>1
  <2>4. CallsInv'
    BY <1>1, <1>2, <1>5, <1>7, <1>8, <2>1, <2>2, <2>3, WriteCallStep
  <2> QED BY <1>1, <1>5, <2>4
<1>10. CASE o.kind = "deleteAll"
  <2>1. d = [c EXCEPT !.pc = "walk", !.done = NoRows]
    BY <1>1, <1>10 DEF Resume
  <2>2. d \in CallState /\ d.pc = "walk" /\ d.done = NoRows /\ d.at = c.at /\ d.kept = c.kept
    BY <1>3, <2>1, NoRowsType DEF CallState
  <2>3. c.at = Start /\ \A id \in c.kept : IsIdLive(Current, id) => Passes(o.filter, id)
    BY <1>2, <1>3, <1>10 DEF WalkFits
  <2>4. c.kept \subseteq Id
    BY <1>3 DEF CallState
  <2>5. \A id \in d.kept : IsIdLive(Current, id)' => Passes(o.filter, id)'
    BY <1>6, <2>2, <2>3, <2>4, PassesStays
  <2>6. \E n \in Int : d.at = Num(n)
    BY <2>2, <2>3 DEF Start
  <2>7. WalkFits(d, o)'
    BY <1>10, <2>2, <2>3, <2>5, <2>6 DEF WalkFits
  <2>8. CallFits(d, o)'
    BY <2>2 DEF CallFits
  <2>9. d.pc # "idle" /\ call[t].pc # "idle"
    BY <1>1, <1>2, <2>2
  <2>10. CallsInv'
    BY <1>1, <1>2, <1>5, <1>7, <1>8, <2>2, <2>7, <2>8, <2>9, WriteCallStep
  <2> QED BY <1>1, <1>5, <2>10
<1> QED BY <1>2, <1>9, <1>10

LEMMA UpdateWriteStep ==
    ASSUME CallsInv, NEW t \in Thread, UpdateWrite(t)
    PROVE  /\ CallsInv'
           /\ Map!UpdateBatch(call[t].done) \/ UNCHANGED Map!vars
           /\ \A id \in Id :
                 \/ Lookup(Current, id)' = Lookup(Current, id)
                 \/ /\ Lookup(Current, id) # NoRecord /\ Lookup(Current, id)' # NoRecord
                    /\ Lookup(Current, id)'.vector = Lookup(Current, id).vector
<1>1. PICK c, o, recs, ids, d :
        /\ c = call[t] /\ o = Op(t) /\ recs = c.done /\ ids = DOMAIN recs
        /\ d = IF o.kind = "update" THEN Ended ELSE Resume(c, "cursor")
  OBVIOUS
<1>2. /\ c.pc = "resolve" /\ o.kind \in {"update", "updateAll"} /\ UpdateBatch(recs)
      /\ Goto(t, d, ids) /\ UNCHANGED <<script, made, extIds, nextExt, reopens>>
  BY <1>1 DEF UpdateWrite, At
<1>3. c \in CallState /\ WalkFits(c, o) /\ CallFits(c, o) /\ IndInv /\ LiveFit
  BY <1>1, OpIs DEF CallsInv
<1>4. ids \subseteq Id /\ \A id \in ids : recs[id] \in Record /\ Fit(id, recs[id].metadata.ext)
  <2>1. recs \in Rows /\ RowsFit(recs)
    BY <1>1, <1>2, <1>3 DEF CallState, CallFits
  <2> QED BY <1>1, <2>1, RowsType DEF RowsFit, RowFits
<1>5. /\ IndInv' /\ (Map!UpdateBatch(recs) \/ UNCHANGED vars)
      /\ \A id \in Id : Lookup(Current, id)' =
           IF id \in ids /\ Lookup(Current, id) # NoRecord
           THEN [vector |-> Lookup(Current, id).vector, metadata |-> recs[id].metadata]
           ELSE Lookup(Current, id)
  BY <1>1, <1>2, <1>3, <1>4, UpdateBatchStep
<1>6. \A id \in Id : Lookup(Current, id) # NoRecord => Lookup(Current, id) \in Record
  BY <1>3, CurrentType, LookupType DEF IndInv
<1>7. ASSUME NEW id \in Id
      PROVE  \/ Lookup(Current, id)' = Lookup(Current, id)
             \/ /\ id \in ids /\ Lookup(Current, id) # NoRecord /\ Lookup(Current, id)' # NoRecord
                /\ Lookup(Current, id)'.vector = Lookup(Current, id).vector
                /\ Lookup(Current, id)'.metadata = recs[id].metadata
  <2>1. PICK rec, new : rec = Lookup(Current, id) /\ new = Lookup(Current, id)'
    OBVIOUS
  <2>2. CASE id \in ids /\ rec # NoRecord
    <3>1. new = [vector |-> rec.vector, metadata |-> recs[id].metadata]
      BY <1>5, <2>1, <2>2
    <3>2. rec \in Record /\ recs[id] \in Record
      BY <1>4, <1>6, <2>1, <2>2
    <3>3. new \in Record
      BY <3>1, <3>2 DEF Record
    <3> QED BY <2>1, <2>2, <3>1, <3>3, NoRecordAssumption
  <2>3. CASE ~(id \in ids /\ rec # NoRecord)
    BY <1>5, <2>1, <2>3
  <2> QED BY <2>2, <2>3
<1>8. LiveFit'
  <2> SUFFICES ASSUME NEW id \in Id, IsIdLive(Current, id)'
               PROVE  Fit(id, Lookup(Current, id).metadata.ext)'
    BY DEF LiveFit
  <2>1. PICK rec, new : rec = Lookup(Current, id) /\ new = Lookup(Current, id)'
    OBVIOUS
  <2>2. new # NoRecord
    BY <2>1 DEF IsIdLive
  <2>3. \/ new = rec
        \/ id \in ids /\ new.metadata = recs[id].metadata
    BY <1>7, <2>1
  <2>4. Fit(id, new.metadata.ext)
    BY <1>3, <1>4, <2>1, <2>2, <2>3 DEF LiveFit, IsIdLive
  <2> QED BY <1>2, <2>1, <2>4 DEF Fit
<1>9. \A id \in Id \ ids : Lookup(Current, id)' = Lookup(Current, id)
  BY <1>5
<1>10. UNCHANGED vars => UNCHANGED Map!vars
  BY <1>3, VarsStay
<1>11. CASE o.kind = "update"
  <2>1. d \in CallState /\ d.pc = "ended" /\ d.again = {}
    BY <1>1, <1>11, RestingType
  <2>2. CallFits(d, o)' /\ WalkFits(d, o)'
    BY <1>11, <2>1 DEF CallFits, WalkFits
  <2>3. d.pc # "idle" /\ call[t].pc # "idle"
    BY <1>1, <1>2, <2>1
  <2>4. CallsInv'
    BY <1>1, <1>2, <1>5, <1>8, <1>9, <2>1, <2>2, <2>3, WriteCallStep
  <2> QED BY <1>1, <1>5, <1>7, <1>10, <2>4
<1>12. CASE o.kind = "updateAll"
  <2>1. d = [c EXCEPT !.pc = "cursor", !.done = NoRows]
    BY <1>1, <1>12 DEF Resume
  <2>2. /\ d \in CallState /\ d.pc = "cursor" /\ d.done = NoRows /\ d.at = c.at /\ d.kept = c.kept
        /\ d.seen = c.seen /\ d.again = c.again
    BY <1>3, <2>1, NoRowsType DEF CallState
  <2>3. c.again = {} /\ ids \subseteq c.seen
    BY <1>1, <1>2, <1>3, <1>12 DEF WalkFits
  <2>4. PICK n \in Int : Resolved(c.at) = {n} /\ Past(c, o, n)
    BY <1>2, <1>3, <1>12 DEF WalkFits
  <2>5. Resolved(d.at)' = {n}
    BY <1>2, <2>2, <2>4 DEF Resolved
  <2>6. c.kept \subseteq Id
    BY <1>3 DEF CallState
  <2>7. ASSUME NEW id \in d.kept \ d.seen PROVE id > n /\ Passes(o.filter, id)'
    <3>1. id \in Id \ ids /\ id > n /\ Passes(o.filter, id)
      BY <2>2, <2>3, <2>4, <2>6, <2>7 DEF Past
    <3> QED BY <1>9, <3>1, PassesStays
  <2>8. Past(d, o, n)'
    BY <2>2, <2>4, <2>7 DEF Past
  <2>9. WalkFits(d, o)'
    BY <1>12, <2>2, <2>3, <2>5, <2>8 DEF WalkFits
  <2>10. CallFits(d, o)'
    BY <2>2 DEF CallFits
  <2>11. d.pc # "idle" /\ call[t].pc # "idle"
    BY <1>1, <1>2, <2>2
  <2>12. CallsInv'
    BY <1>1, <1>2, <1>5, <1>8, <1>9, <2>2, <2>9, <2>10, <2>11, WriteCallStep
  <2> QED BY <1>1, <1>5, <1>7, <1>10, <2>12
<1> QED BY <1>2, <1>11, <1>12

----------------------------------------------------------------------------
(* Steps of no call *)

\* A step that leaves the calls and the records alone
LEMMA QuietStep ==
    ASSUME CallsInv, UNCHANGED callVars, IndInv', UNCHANGED Map!vars
    PROVE  CallsInv'
<1>1. \A id \in Id : Lookup(Current, id)' = Lookup(Current, id)
  <2>1. Contents(Current)' = Contents(Current)
    BY DEF Map!vars
  <2>2. \A id \in Id : Contents(Current)[id] = Lookup(Current, id) /\ Contents(Current)'[id] = Lookup(Current, id)'
    BY DEF Contents
  <2> QED BY <2>1, <2>2
<1>2. Grows
  BY DEF Grows, callVars
<1>3. LiveFit'
  BY <1>1, <1>2, LiveFitStays DEF CallsInv
<1>4. CallsType' /\ DictFits'
  BY DEF CallsInv, callVars, CallsType, DictFits
<1>5. ASSUME NEW u \in Thread PROVE CallFits(call[u], Op(u))' /\ WalkFits(call[u], Op(u))'
  <2>1. PICK c, o : c = call[u] /\ o = Op(u)
    OBVIOUS
  <2>2. call[u]' = c /\ Op(u)' = o
    BY <2>1 DEF callVars, Op
  <2>3. c \in CallState /\ CallFits(c, o) /\ WalkFits(c, o)
    BY <2>1, OpIs DEF CallsInv
  <2>4. PICK w : w = {}
    OBVIOUS
  <2>5. Leaves(c, c, w) /\ c.kept \subseteq Id
    BY <2>3, <2>4 DEF Leaves, CallState
  <2>6. CallFits(c, o)' /\ WalkFits(c, o)'
    BY <1>1, <1>2, <2>3, <2>5, CallFitsStays, WalkFitsStays
  <2>7. CallFits(call[u], Op(u))' <=> CallFits(c, o)'
    BY <2>2 DEF CallFits
  <2>8. WalkFits(call[u], Op(u))' <=> WalkFits(c, o)'
    BY <2>2 DEF WalkFits, Past
  <2> QED BY <2>6, <2>7, <2>8
<1> QED BY <1>3, <1>4, <1>5 DEF CallsInv

\* A thread that makes no call has nothing to keep.
LEMMA RestingFits ==
    ASSUME NEW t, call[t].pc = "idle"
    PROVE  CallFits(call[t], Op(t)) /\ WalkFits(call[t], Op(t))
BY DEF CallFits, WalkFits

\* The clients that write at will write plain records under numbers below
\* ExtBase, and no call is there to be disturbed.
LEMMA FreeWriteStep ==
    ASSUME CallsInv, UNCHANGED callVars, IndInv', script.free, NEW id \in FreeIds,
           NEW val, Contents(Current)' = [Contents(Current) EXCEPT ![id] = val],
           val = NoRecord \/ val.metadata.ext = NoExt
    PROVE  CallsInv'
<1>1. id \in Id /\ id < ExtBase
  BY MetadataAssumption DEF UserId
<1>2. \A other \in Id : Lookup(Current, other)' = IF other = id THEN val ELSE Lookup(Current, other)
  <2>1. PICK map, new : map = Contents(Current) /\ new = Contents(Current)'
    OBVIOUS
  <2>2. /\ map = [other \in Id |-> Lookup(Current, other)]
        /\ \A other \in Id : new[other] = Lookup(Current, other)'
    BY <2>1 DEF Contents
  <2>3. new = [map EXCEPT ![id] = val]
    BY <2>1
  <2> QED BY <1>1, <2>2, <2>3
<1>3. LiveFit'
  <2> SUFFICES ASSUME NEW other \in Id, IsIdLive(Current, other)'
               PROVE  Fit(other, Lookup(Current, other).metadata.ext)'
    BY DEF LiveFit
  <2>1. PICK rec : rec = Lookup(Current, other)'
    OBVIOUS
  <2>2. rec # NoRecord
    BY <2>1 DEF IsIdLive
  <2>3. Fit(other, rec.metadata.ext)
    <3>1. CASE other = id
      BY <1>1, <1>2, <2>1, <2>2, <3>1 DEF Fit
    <3>2. CASE other # id
      BY <1>2, <2>1, <2>2, <3>2 DEF CallsInv, LiveFit, IsIdLive
    <3> QED BY <3>1, <3>2
  <2> QED BY <2>1, <2>3 DEF Fit, callVars
<1>4. CallsType' /\ DictFits'
  BY DEF CallsInv, callVars, CallsType, DictFits
<1>5. \A t \in Thread : call[t]'.pc = "idle"
  BY RestingType DEF CallsInv, CallsType, callVars
<1>6. \A t \in Thread : CallFits(call[t], Op(t))' /\ WalkFits(call[t], Op(t))'
  BY <1>5 DEF CallFits, WalkFits
<1> QED BY <1>3, <1>4, <1>6 DEF CallsInv

LEMMA FreeClientStep ==
    ASSUME CallsInv, UNCHANGED callVars, script.free, FreeClient
    PROVE  CallsInv' /\ FreeWrite
<1>1. PICK id \in FreeIds :
        \/ \E rec \in FreeRecords : UpsertRecord(id, rec) \/ UpdateMetadata(id, rec.metadata)
        \/ DeleteRecord(id)
  BY DEF FreeClient
<1>2. id \in Id /\ IndInv
  BY MetadataAssumption DEF UserId, CallsInv
<1>3. \A rec \in FreeRecords : rec \in Record /\ rec.metadata.ext = NoExt /\ rec.metadata \in Metadata
  BY MetadataAssumption DEF PlainRecord, Record
<1>4. ASSUME NEW rec \in FreeRecords, UpsertRecord(id, rec) PROVE CallsInv' /\ FreeWrite
  <2>1. IndInv' /\ Map!Upsert(id, rec)
    BY <1>2, <1>3, <1>4, UpsertStep
  <2>2. Contents(Current)' = [Contents(Current) EXCEPT ![id] = rec]
    BY <2>1 DEF Map!Upsert
  <2> QED BY <1>3, <2>1, <2>2, FreeWriteStep DEF FreeWrite
<1>5. ASSUME NEW rec \in FreeRecords, UpdateMetadata(id, rec.metadata) PROVE CallsInv' /\ FreeWrite
  <2>1. PICK m : m = rec.metadata
    OBVIOUS
  <2>2. m \in Metadata /\ m.ext = NoExt /\ UpdateMetadata(id, m)
    BY <1>3, <1>5, <2>1
  <2>3. IndInv' /\ Map!UpdateMetadata(id, m)
    BY <1>2, <2>2, UpdateStep
  <2>4. PICK val : val = [vector |-> Contents(Current)[id].vector, metadata |-> m]
    OBVIOUS
  <2>5. Contents(Current)' = [Contents(Current) EXCEPT ![id] = val] /\ val.metadata.ext = NoExt
    BY <2>2, <2>3, <2>4 DEF Map!UpdateMetadata
  <2>6. CallsInv'
    BY <2>3, <2>5, FreeWriteStep
  <2> QED BY <2>1, <2>3, <2>6 DEF FreeWrite
<1>6. CASE DeleteRecord(id)
  <2>1. IndInv' /\ Map!Delete(id)
    BY <1>2, <1>6, DeleteStep
  <2>2. Contents(Current)' = [Contents(Current) EXCEPT ![id] = NoRecord]
    BY <2>1 DEF Map!Delete
  <2> QED BY <2>1, <2>2, FreeWriteStep DEF FreeWrite
<1> QED BY <1>1, <1>4, <1>5, <1>6

LEMMA BackgroundStep ==
    ASSUME CallsInv, UNCHANGED callVars, Rotate \/ Maintenance \/ UNCHANGED vars
    PROVE  CallsInv' /\ UNCHANGED Map!vars
<1>1. IndInv
  BY DEF CallsInv
<1>2. IndInv' /\ UNCHANGED Map!vars
  <2>1. CASE Rotate
    BY <1>1, <2>1, RotateStep
  <2>2. CASE Maintenance
    BY <1>1, <2>2, FlushReadStep, FlushInstallStep, CompactReadStep, CompactInstallStep, MaintFailStep
       DEF Maintenance
  <2>3. CASE UNCHANGED vars
    BY <1>1, <2>3, VarsStay
  <2> QED BY <2>1, <2>2, <2>3
<1> QED BY <1>2, QuietStep

\* A reopen forgets strings that no live record has, and moves none.
LEMMA ReopenStep == ASSUME CallsInv, Reopen PROVE CallsInv' /\ UNCHANGED Map!vars
<1> DEFINE named == {id \in Id : IsIdLive(Current, id)}
           live == {Lookup(Current, id).metadata.ext : id \in named} \ {NoExt}
           idOf(s) == IF s \in live
                      THEN CHOOSE id \in named : Lookup(Current, id).metadata.ext = s
                      ELSE extIds[s]
<1>1. /\ ~script.free /\ reopens' = reopens + 1 /\ call' = [t \in Thread |-> Resting] /\ maint' = Idle
      /\ UNCHANGED <<active, pending, segments, liveLen, script, made>>
      /\ \E logged \in SUBSET (DOMAIN extIds \ live) :
            /\ extIds' = [s \in live \cup logged |-> idOf(s)]
            /\ nextExt' = Max({ExtBase} \cup {idOf(s) + 1 : s \in live \cup logged})
  BY DEF Reopen
<1>2. PICK known :
        /\ live \subseteq known /\ known \subseteq live \cup DOMAIN extIds
        /\ extIds' = [s \in known |-> idOf(s)]
        /\ nextExt' = Max({ExtBase} \cup {idOf(s) + 1 : s \in known})
  <2>1. PICK logged \in SUBSET (DOMAIN extIds \ live) :
          /\ extIds' = [s \in live \cup logged |-> idOf(s)]
          /\ nextExt' = Max({ExtBase} \cup {idOf(s) + 1 : s \in live \cup logged})
    BY <1>1
  <2>2. PICK known : known = live \cup logged
    OBVIOUS
  <2> HIDE DEF live, idOf
  <2> QED BY <2>1, <2>2
<1>3. DictFits /\ LiveFit /\ IndInv /\ nextExt \in Nat
  BY DEF CallsInv, CallsType
<1>4. \A s \in live : s \in DOMAIN extIds /\ idOf(s) = extIds[s]
  <2> TAKE s \in live
  <2>1. \A id \in named : Lookup(Current, id).metadata.ext = s => s \in DOMAIN extIds /\ extIds[s] = id
    BY <1>3 DEF LiveFit, Fit
  <2>2. PICK id \in named : Lookup(Current, id).metadata.ext = s
    OBVIOUS
  <2>3. idOf(s) \in named /\ Lookup(Current, idOf(s)).metadata.ext = s
    BY <2>2
  <2> QED BY <2>1, <2>3
<1>5. \A s \in known : s \in DOMAIN extIds /\ idOf(s) = extIds[s]
  BY <1>2, <1>4
<1>6. \A id \in Id : IsIdLive(Current, id) /\ Lookup(Current, id).metadata.ext # NoExt =>
        Lookup(Current, id).metadata.ext \in known
  BY <1>2
<1> HIDE DEF live, idOf
<1>7. DOMAIN extIds' = known /\ extIds' = [s \in known |-> extIds[s]]
  BY <1>2, <1>5
<1>8. /\ ExtBase \in Nat
      /\ \A s \in known : extIds[s] \in Id /\ extIds[s] \in Nat /\ extIds[s] >= ExtBase /\ extIds[s] < nextExt
      /\ \A s, r \in known : s # r => extIds[s] # extIds[r]
      /\ nextExt >= ExtBase
  BY <1>3, <1>5, CallsAssumption DEF DictFits
<1>9. nextExt' \in Nat /\ nextExt' >= ExtBase /\ \A s \in known : extIds[s] < nextExt'
  <2> DEFINE S == {ExtBase} \cup {idOf(s) + 1 : s \in known}
  <2>1. \A s \in known : idOf(s) + 1 \in 0..nextExt
    BY <1>3, <1>5, <1>8
  <2>2. S \in SUBSET (0..nextExt) /\ ExtBase \in S
    BY <1>3, <1>8, <2>1
  <2>3. \A s \in known : extIds[s] + 1 \in S
    BY <1>5
  <2>4. nextExt' = Max(S)
    BY <1>2
  <2> HIDE DEF S
  <2>5. PICK m \in S : \A x \in S : x <= m
    BY <1>3, <2>2, GreatestExists
  <2>6. Max(S) = m /\ m \in Nat
    <3>1. S \subseteq Int /\ m \in Nat
      BY <2>2
    <3> QED BY <2>5, <3>1, MaxIs
  <2>7. ExtBase <= m /\ \A s \in known : extIds[s] + 1 <= m
    BY <2>2, <2>3, <2>5
  <2> QED BY <1>8, <2>4, <2>6, <2>7
<1>10. DictFits'
  <2>1. extIds' \in [known -> Id] /\ \A s \in known : extIds'[s] = extIds[s]
    BY <1>7, <1>8
  <2>2. known \subseteq Ext
    BY <1>3, <1>5 DEF DictFits
  <2> QED BY <1>7, <1>8, <1>9, <2>1, <2>2 DEF DictFits
<1>11. IndInv' /\ UNCHANGED Map!vars /\ \A id \in Id : Lookup(Current, id)' = Lookup(Current, id)
  <2>1. \A id \in Id : Lookup(Current, id)' = Lookup(Current, id)
    BY <1>1 DEF Current
  <2>2. TypeOK' /\ LayersExclusive' /\ MaintReadStillCurrent'
    BY <1>1, <1>3 DEF IndInv, TypeOK, Maint, Idle, LayersExclusive, MaintReadStillCurrent
  <2> QED BY <1>1, <1>3, <2>1, <2>2, SilentStep
<1>12. LiveFit'
  <2> SUFFICES ASSUME NEW id \in Id, IsIdLive(Current, id)'
               PROVE  Fit(id, Lookup(Current, id).metadata.ext)'
    BY DEF LiveFit
  <2>1. PICK rec : rec = Lookup(Current, id) /\ rec = Lookup(Current, id)'
    BY <1>11
  <2>2. IsIdLive(Current, id)
    BY <2>1 DEF IsIdLive
  <2>3. Fit(id, rec.metadata.ext)
    BY <1>3, <2>1, <2>2 DEF LiveFit
  <2>4. rec.metadata.ext # NoExt => rec.metadata.ext \in known
    BY <1>6, <2>1, <2>2
  <2> QED BY <1>7, <2>1, <2>3, <2>4 DEF Fit
<1>13. CallsType'
  <2>1. call' \in [Thread -> CallState] /\ \A t \in Thread : call'[t] = Resting /\ call'[t].pc = "idle"
    BY <1>1, RestingType
  <2>2. reopens' \in Nat
    BY <1>1 DEF CallsInv, CallsType
  <2> QED BY <1>1, <1>9, <2>1, <2>2 DEF CallsInv, CallsType
<1>14. \A t \in Thread : CallFits(call[t], Op(t))' /\ WalkFits(call[t], Op(t))'
  <2>1. \A t \in Thread : call[t]'.pc = "idle"
    BY <1>1, RestingType
  <2> QED BY <2>1 DEF CallFits, WalkFits
<1> QED BY <1>10, <1>11, <1>12, <1>13, <1>14 DEF CallsInv

LEMMA CallsInitInv == CallsInit => CallsInv /\ Map!Init
<1> SUFFICES ASSUME CallsInit PROVE CallsInv /\ Map!Init
  OBVIOUS
<1>1. IndInv /\ Map!Init
  BY InitIndInv DEF CallsInit
<1>2. DOMAIN extIds = {} /\ extIds = [s \in {} |-> NoRecord] /\ nextExt = ExtBase /\ ExtBase \in Nat
  BY CallsAssumption DEF CallsInit, NoRows
<1>3. DictFits
  BY <1>2 DEF DictFits
<1>4. LiveFit
  <2>1. \A id \in Id : Contents(Current)[id] = Lookup(Current, id) /\ Contents(Current)[id] = NoRecord
    BY <1>1 DEF Contents, Map!Init
  <2> QED BY <2>1 DEF LiveFit, IsIdLive
<1>5. CallsType
  <2>1. /\ script \in Scripts /\ made = [t \in Thread |-> 0] /\ call = [t \in Thread |-> Resting] /\ reopens = 0
    BY DEF CallsInit
  <2>2. \A t \in Thread : 0 <= Len(script.todo[t])
    BY <2>1, ScriptsAssumption
  <2> QED BY <1>2, <2>1, <2>2, RestingType DEF CallsType
<1>6. \A t \in Thread : call[t].pc = "idle"
  BY RestingType DEF CallsInit
<1> QED BY <1>1, <1>3, <1>4, <1>5, <1>6, RestingFits DEF CallsInv

----------------------------------------------------------------------------
(* Every step *)

\* What a step of the calls is for the clients of the map
MapStep ==
    \/ UNCHANGED Map!vars
    \/ script.free /\ FreeWrite
    \/ \E t \in Thread : call'[t] # call[t] /\ BatchOf(t)

LEMMA GotoMoves ==
    ASSUME NEW t \in Thread, NEW d, NEW written, Goto(t, d, written), d.pc # call[t].pc
    PROVE  call'[t] # call[t]
BY DEF Goto

LEMMA ThreadStepInv ==
    ASSUME CallsInv, NEW t \in Thread, Begin(t) \/ ThreadStep(t)
    PROVE  CallsInv' /\ MapStep
<1>1. UNCHANGED vars => MapStep
  BY VarsStay DEF CallsInv, MapStep
<1>2. Ended.pc = "ended"
  BY RestingType
<1>3. CASE Begin(t)
  BY <1>1, <1>3, BeginStep DEF Begin
<1>4. CASE UpsertResolve(t)
  BY <1>1, <1>4, UpsertResolveStep DEF UpsertResolve
<1>5. CASE ResolveGet(t)
  BY <1>1, <1>5, ResolveGetStep DEF ResolveGet
<1>6. CASE ViewGet(t)
  BY <1>1, <1>6, ViewGetStep DEF ViewGet
<1>7. CASE Walk(t)
  BY <1>1, <1>7, WalkStep DEF Walk
<1>8. CASE Cursor(t)
  BY <1>1, <1>8, CursorStep DEF Cursor
<1>9. CASE ResolveNext(t)
  BY <1>1, <1>9, ResolveNextStep DEF ResolveNext
<1>10. CASE UpsertWrite(t)
  <2>1. CallsInv' /\ Map!UpsertBatch(call[t].done)
    BY <1>10, UpsertWriteStep
  <2>2. At(t, "write", {"upsert"}) /\ Goto(t, Ended, DOMAIN call[t].done)
    BY <1>10 DEF UpsertWrite
  <2>3. call'[t] # call[t]
    BY <1>2, <2>2, GotoMoves DEF At
  <2> QED BY <2>1, <2>2, <2>3 DEF MapStep, BatchOf
<1>11. CASE DeleteWrite(t)
  <2>1. CallsInv' /\ (Map!DeleteBatch(DOMAIN call[t].done) \/ UNCHANGED Map!vars)
    BY <1>11, DeleteWriteStep
  <2>2. PICK d : d = IF Op(t).kind = "delete" THEN Ended ELSE Resume(call[t], "walk")
    OBVIOUS
  <2>3. /\ At(t, "resolve", {"delete", "deleteAll"}) /\ call[t].left = <<>>
        /\ Goto(t, d, DOMAIN call[t].done)
    BY <1>11, <2>2 DEF DeleteWrite
  <2>4. d.pc # call[t].pc
    <3>1. call[t] \in CallState /\ call[t].pc = "resolve"
      BY <2>3, OpIs DEF CallsInv, At
    <3>2. Resume(call[t], "walk").pc = "walk"
      BY <3>1 DEF Resume, CallState
    <3> QED BY <1>2, <2>2, <3>1, <3>2
  <2>5. call'[t] # call[t]
    BY <2>3, <2>4, GotoMoves
  <2> QED BY <2>1, <2>3, <2>5 DEF MapStep, BatchOf
<1>12. CASE UpdateWrite(t)
  <2>1. CallsInv' /\ (Map!UpdateBatch(call[t].done) \/ UNCHANGED Map!vars)
    BY <1>12, UpdateWriteStep
  <2>2. PICK d : d = IF Op(t).kind = "update" THEN Ended ELSE Resume(call[t], "cursor")
    OBVIOUS
  <2>3. /\ At(t, "resolve", {"update", "updateAll"}) /\ call[t].left = <<>>
        /\ Goto(t, d, DOMAIN call[t].done)
    BY <1>12, <2>2 DEF UpdateWrite
  <2>4. d.pc # call[t].pc
    <3>1. call[t] \in CallState /\ call[t].pc = "resolve"
      BY <2>3, OpIs DEF CallsInv, At
    <3>2. Resume(call[t], "cursor").pc = "cursor"
      BY <3>1 DEF Resume, CallState
    <3> QED BY <1>2, <2>2, <3>1, <3>2
  <2>5. call'[t] # call[t]
    BY <2>3, <2>4, GotoMoves
  <2> QED BY <2>1, <2>3, <2>5 DEF MapStep, BatchOf
<1> QED BY <1>3, <1>4, <1>5, <1>6, <1>7, <1>8, <1>9, <1>10, <1>11, <1>12 DEF ThreadStep

LEMMA CallsNextInv == CallsInv /\ [CallsNext]_allVars => CallsInv' /\ MapStep
<1> SUFFICES ASSUME CallsInv, [CallsNext]_allVars PROVE CallsInv' /\ MapStep
  OBVIOUS
<1>1. CASE script.free /\ FreeClient /\ UNCHANGED callVars
  BY <1>1, FreeClientStep DEF MapStep
<1>2. CASE (Rotate \/ Maintenance) /\ UNCHANGED callVars
  BY <1>2, BackgroundStep DEF MapStep
<1>3. ASSUME NEW t \in Thread, Begin(t) \/ ThreadStep(t) PROVE CallsInv' /\ MapStep
  BY <1>3, ThreadStepInv
<1>4. CASE Reopen
  BY <1>4, ReopenStep DEF MapStep
<1>5. CASE UNCHANGED allVars
  BY <1>5, BackgroundStep DEF MapStep, allVars
<1> QED BY <1>1, <1>2, <1>3, <1>4, <1>5 DEF CallsNext

\* Every state the calls of any number of threads can reach satisfies the
\* inductive invariant of the calls.
THEOREM CallsInvariance == CallsSpec => []CallsInv
<1>1. CallsInit => CallsInv
  BY CallsInitInv
<1>2. CallsInv /\ [CallsNext]_allVars => CallsInv'
  BY CallsNextInv
<1> QED BY <1>1, <1>2, PTL DEF CallsSpec

\* The dictionary of strings and the records agree at every moment: ids are
\* given in one critical section (resolve_ext_ids), used in a later one
\* (track_ext_id) and given anew after a reopen, and still no two strings share
\* one, and a get by string never answers with the record of another.
THEOREM ExtIdsAgreeAlways == CallsSpec => []ExtIdsAgree
<1>1. CallsInv => ExtIdsAgree
  <2> SUFFICES ASSUME CallsInv PROVE ExtIdsAgree
    OBVIOUS
  <2>1. \A s, r \in DOMAIN extIds :
           extIds[s] \in ExtBase..(nextExt - 1) /\ (s # r => extIds[s] # extIds[r])
    <3> TAKE s, r \in DOMAIN extIds
    <3>1. extIds[s] \in Int /\ extIds[s] >= ExtBase /\ extIds[s] < nextExt /\ ExtBase \in Int /\ nextExt \in Int
      BY CallsAssumption DEF CallsInv, CallsType, DictFits
    <3> QED BY <3>1 DEF CallsInv, DictFits
  <2>2. \A id \in LiveAmong(Id) : Fit(id, Lookup(Current, id).metadata.ext)
    BY DEF CallsInv, LiveFit, LiveAmong
  <2>3. \A t \in Thread :
           At(t, "ended", {"get"}) /\ IsStr(Op(t).rid) =>
              \A id \in DOMAIN call[t].done : call[t].done[id].metadata.ext = Op(t).rid.str
    BY DEF CallsInv, CallFits, At
  <2> QED BY <2>1, <2>2, <2>3 DEF ExtIdsAgree, Fit
<1> QED BY <1>1, CallsInvariance, PTL

\* A walk by pages meets every record that passed its filter at the begin and
\* that nobody else wrote, and none twice, also while update_meta_by_filter
\* writes behind it and others delete its cursor; delete_by_filter leaves none.
THEOREM WalksAreCompleteAlways == CallsSpec => []WalksAreComplete
<1>1. CallsInv => WalksAreComplete
  <2> SUFFICES ASSUME CallsInv, NEW t \in Thread
               PROVE  /\ At(t, "ended", {"pages", "updateAll"}) => call[t].kept \subseteq call[t].seen
                      /\ call[t].pc # "idle" /\ Op(t).kind # "deleteAll" => call[t].again = {}
                      /\ At(t, "ended", {"deleteAll"}) => LiveAmong(call[t].kept) = {}
    BY DEF WalksAreComplete
  <2>1. WalkFits(call[t], Op(t))
    BY DEF CallsInv
  <2> QED BY <2>1 DEF WalkFits, At, LiveAmong
<1> QED BY <1>1, CallsInvariance, PTL

\* The clients see a map that changes by whole batches: what a call gathers
\* over its critical sections is written at one moment, and flushes, merges,
\* walks and reopens are invisible.
THEOREM CallsRefinement == CallsSpec => CallsImplementMap
<1>1. CallsInit => Map!Init
  BY CallsInitInv
<1>2. CallsInv /\ [CallsNext]_allVars =>
        [\/ UNCHANGED Map!vars
         \/ script.free /\ FreeWrite
         \/ \E t \in Thread : call'[t] # call[t] /\ BatchOf(t)]_allVars
  BY CallsNextInv DEF MapStep
<1> QED BY <1>1, <1>2, CallsInvariance, PTL DEF CallsSpec, CallsImplementMap

\* update_metadata_batch neither brings a deleted record back nor undoes the
\* vector of an upsert that came after the record was read.
THEOREM UpdatesKeepVectorsAlways == CallsSpec => UpdatesKeepVectors
<1>1. CallsInv /\ [CallsNext]_allVars =>
        [\A t \in Thread : UpdateWrite(t) =>
           \A id \in Id :
              LET rec == Lookup(Current, id)
                  new == Lookup(Current', id)
              IN  (rec = NoRecord <=> new = NoRecord) /\ (rec # NoRecord => new.vector = rec.vector)]_allVars
  <2> SUFFICES ASSUME CallsInv, NEW t \in Thread, UpdateWrite(t), NEW id \in Id
               PROVE  /\ Lookup(Current, id) = NoRecord <=> Lookup(Current', id) = NoRecord
                      /\ Lookup(Current, id) # NoRecord =>
                           Lookup(Current', id).vector = Lookup(Current, id).vector
    OBVIOUS
  <2> QED BY UpdateWriteStep
<1> QED BY <1>1, CallsInvariance, PTL DEF CallsSpec, UpdatesKeepVectors

\* What holds of the collection under single writes at will holds under the
\* calls, their batches and reopens as well.
THEOREM CallsKeepCollection ==
    CallsSpec => [](TypeOK /\ LiveLenExact /\ ScanAgreesWithGet /\ MaintReadStillCurrent /\ LayersExclusive)
<1>1. CallsInv => TypeOK /\ LiveLenExact /\ ScanAgreesWithGet /\ MaintReadStillCurrent /\ LayersExclusive
  BY ScanFromIndInv DEF CallsInv, IndInv
<1> QED BY <1>1, CallsInvariance, PTL

============================================================================
