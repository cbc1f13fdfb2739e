----------------------------- MODULE LsmProofs -----------------------------
(***************************************************************************)
(* Facts about reading through layers, for sequences of layers of any      *)
(* length.  The one that matters is MergeKeepsLookup: replacing the newest *)
(* segments of a collection by their merge changes no read.                *)
(***************************************************************************)
EXTENDS Lsm, WellFoundedInduction, NaturalsInduction, FunctionTheorems,
        FiniteSetTheorems, TLAPS

\* A non-empty set of naturals has a least element.
LEMMA LeastExists ==
    ASSUME NEW S, S \subseteq Nat, S # {}
    PROVE  \E m \in S : \A n \in S : ~(n < m)
<1>1. \E m \in S : \A n \in S : ~(<<n, m>> \in OpToRel(<, Nat))
  BY NatLessThanWellFounded, WFMin
<1>2. PICK m \in S : \A n \in S : ~(<<n, m>> \in OpToRel(<, Nat))
  BY <1>1
<1>3. ASSUME NEW n \in S, n < m PROVE FALSE
  <2>1. <<n, m>> \in OpToRel(<, Nat)
    BY <1>3 DEF OpToRel
  <2> QED BY <2>1, <1>2
<1> QED BY <1>2, <1>3

\* When some layer mentions an id there is a newest one that does.
LEMMA NewestExists ==
    ASSUME NEW layers \in Seq(Layer), NEW id \in Id,
           \E i \in DOMAIN layers : Mentions(layers[i], id)
    PROVE  /\ Newest(layers, id) \in DOMAIN layers
           /\ Mentions(layers[Newest(layers, id)], id)
           /\ \A j \in DOMAIN layers : j < Newest(layers, id) => ~Mentions(layers[j], id)
<1> DEFINE S == {i \in DOMAIN layers : Mentions(layers[i], id)}
<1>1. S \subseteq Nat /\ S # {}
  OBVIOUS
<1>2. PICK m \in S : \A n \in S : ~(n < m)
  BY <1>1, LeastExists
<1>3. /\ m \in DOMAIN layers
      /\ Mentions(layers[m], id)
      /\ \A j \in DOMAIN layers : j < m => ~Mentions(layers[j], id)
  BY <1>2
<1> HIDE DEF S
<1> QED BY <1>3 DEF Newest

\* A read is decided by any layer that mentions the id and has no newer layer
\* that does.
LEMMA LookupAt ==
    ASSUME NEW layers \in Seq(Layer), NEW id \in Id, NEW i \in DOMAIN layers,
           Mentions(layers[i], id),
           \A j \in DOMAIN layers : j < i => ~Mentions(layers[j], id)
    PROVE  Newest(layers, id) = i /\ Lookup(layers, id) = ValueIn(layers[i], id)
<1> DEFINE n == Newest(layers, id)
<1>1. /\ n \in DOMAIN layers
      /\ Mentions(layers[n], id)
      /\ \A j \in DOMAIN layers : j < n => ~Mentions(layers[j], id)
  BY NewestExists
<1>2. n \in Nat /\ i \in Nat
  BY <1>1
<1>3. ~(n < i) /\ ~(i < n)
  BY <1>1
<1>4. n = i
  BY <1>2, <1>3
<1> QED BY <1>4 DEF Lookup

\* An id no layer mentions is absent.
LEMMA LookupNowhere ==
    ASSUME NEW layers \in Seq(Layer), NEW id \in Id,
           \A i \in DOMAIN layers : ~Mentions(layers[i], id)
    PROVE  Lookup(layers, id) = NoRecord
BY DEF Lookup

LEMMA LookupType ==
    ASSUME NEW layers \in Seq(Layer), NEW id \in Id
    PROVE  Lookup(layers, id) \in Record \cup {NoRecord}
<1>1. CASE \E i \in DOMAIN layers : Mentions(layers[i], id)
  <2>1. layers[Newest(layers, id)] \in Layer
    BY <1>1, NewestExists
  <2> QED BY <1>1, <2>1 DEF Lookup, ValueIn, Layer
<1>2. CASE ~(\E i \in DOMAIN layers : Mentions(layers[i], id))
  BY <1>2 DEF Lookup
<1> QED BY <1>1, <1>2

\* Reading through two stretches of layers: the newer one decides if it
\* mentions the id at all.
LEMMA LookupConcat ==
    ASSUME NEW s \in Seq(Layer), NEW t \in Seq(Layer), NEW id \in Id
    PROVE  Lookup(s \o t, id) =
               IF \E i \in DOMAIN s : Mentions(s[i], id) THEN Lookup(s, id) ELSE Lookup(t, id)
<1> DEFINE st == s \o t
<1>0. /\ st \in Seq(Layer)
      /\ DOMAIN st = 1..(Len(s) + Len(t)) /\ DOMAIN s = 1..Len(s) /\ DOMAIN t = 1..Len(t)
      /\ Len(s) \in Nat /\ Len(t) \in Nat
      /\ \A i \in DOMAIN s : st[i] = s[i]
      /\ \A i \in DOMAIN t : st[Len(s) + i] = t[i]
      /\ \A i \in DOMAIN st : i > Len(s) => i - Len(s) \in DOMAIN t /\ st[i] = t[i - Len(s)]
  OBVIOUS
<1> HIDE DEF st
<1>1. CASE \E i \in DOMAIN s : Mentions(s[i], id)
  <2> DEFINE n == Newest(s, id)
  <2>1. /\ n \in DOMAIN s
        /\ Mentions(s[n], id)
        /\ \A j \in DOMAIN s : j < n => ~Mentions(s[j], id)
    BY <1>1, NewestExists
  <2> HIDE DEF n
  <2>2. n \in DOMAIN st /\ st[n] = s[n]
    BY <1>0, <2>1
  <2>3. \A j \in DOMAIN st : j < n => ~Mentions(st[j], id)
    BY <1>0, <2>1
  <2>4. Lookup(st, id) = ValueIn(s[n], id)
    BY <1>0, <2>1, <2>2, <2>3, LookupAt
  <2>5. Lookup(s, id) = ValueIn(s[n], id)
    BY <2>1, LookupAt
  <2> QED BY <1>1, <2>4, <2>5 DEF st
<1>2. CASE /\ ~(\E i \in DOMAIN s : Mentions(s[i], id))
           /\ \E i \in DOMAIN t : Mentions(t[i], id)
  <2> DEFINE n == Newest(t, id)
  <2>1. /\ n \in DOMAIN t
        /\ Mentions(t[n], id)
        /\ \A j \in DOMAIN t : j < n => ~Mentions(t[j], id)
    BY <1>2, NewestExists
  <2> HIDE DEF n
  <2>2. Len(s) + n \in DOMAIN st /\ st[Len(s) + n] = t[n]
    BY <1>0, <2>1
  <2>3. ASSUME NEW j \in DOMAIN st, j < Len(s) + n
        PROVE  ~Mentions(st[j], id)
    <3>1. CASE j \in DOMAIN s
      BY <1>0, <1>2, <3>1
    <3>2. CASE j > Len(s)
      BY <1>0, <2>1, <2>3, <3>2
    <3> QED BY <1>0, <3>1, <3>2
  <2>4. Lookup(st, id) = ValueIn(t[n], id)
    <3> DEFINE m == Len(s) + n
    <3>1. /\ m \in DOMAIN st /\ st[m] = t[n] /\ Mentions(st[m], id)
          /\ \A j \in DOMAIN st : j < m => ~Mentions(st[j], id)
      BY <2>1, <2>2, <2>3
    <3> HIDE DEF m
    <3>2. Lookup(st, id) = ValueIn(st[m], id)
      BY <1>0, <3>1, LookupAt
    <3> QED BY <3>1, <3>2
  <2>5. Lookup(t, id) = ValueIn(t[n], id)
    BY <2>1, LookupAt
  <2> QED BY <1>2, <2>4, <2>5 DEF st
<1>3. CASE /\ ~(\E i \in DOMAIN s : Mentions(s[i], id))
           /\ ~(\E i \in DOMAIN t : Mentions(t[i], id))
  <2>1. ASSUME NEW j \in DOMAIN st PROVE ~Mentions(st[j], id)
    <3>1. CASE j \in DOMAIN s
      BY <1>0, <1>3, <3>1
    <3>2. CASE j > Len(s)
      BY <1>0, <1>3, <3>2
    <3> QED BY <1>0, <3>1, <3>2
  <2>2. Lookup(st, id) = NoRecord
    BY <1>0, <2>1, LookupNowhere
  <2>3. Lookup(t, id) = NoRecord
    BY <1>3, LookupNowhere
  <2> QED BY <1>3, <2>2, <2>3 DEF st
<1> QED BY <1>1, <1>2, <1>3

\* Reading through a newest layer and the rest.
LEMMA LookupCons ==
    ASSUME NEW layer \in Layer, NEW t \in Seq(Layer), NEW id \in Id
    PROVE  Lookup(<<layer>> \o t, id) =
               IF Mentions(layer, id) THEN ValueIn(layer, id) ELSE Lookup(t, id)
<1> DEFINE s == <<layer>>
<1>1. s \in Seq(Layer) /\ DOMAIN s = {1} /\ s[1] = layer
  OBVIOUS
<1> HIDE DEF s
<1>2. Lookup(s \o t, id) =
        IF \E i \in DOMAIN s : Mentions(s[i], id) THEN Lookup(s, id) ELSE Lookup(t, id)
  BY <1>1, LookupConcat
<1>3. CASE Mentions(layer, id)
  <2>1. Lookup(s, id) = ValueIn(layer, id)
    BY <1>1, <1>3, LookupAt
  <2> QED BY <1>1, <1>2, <1>3, <2>1 DEF s
<1>4. CASE ~Mentions(layer, id)
  BY <1>1, <1>2, <1>4 DEF s
<1> QED BY <1>3, <1>4

----------------------------------------------------------------------------
(* Memtable operations *)

LEMMA LayerTypes ==
    /\ EmptyLayer \in Layer /\ Exclusive(EmptyLayer)
    /\ \A id \in Id : ~Mentions(EmptyLayer, id)
    /\ \A mt \in Layer, id \in Id, rec \in Record :
          /\ Upsert(mt, id, rec) \in Layer
          /\ Exclusive(mt) => Exclusive(Upsert(mt, id, rec))
    /\ \A mt \in Layer, id \in Id :
          /\ Delete(mt, id) \in Layer
          /\ Exclusive(mt) => Exclusive(Delete(mt, id))
BY NoRecordAssumption
   DEF Layer, EmptyLayer, Exclusive, Mentions, HasRow, Upsert, Delete

\* An upsert decides its own id and leaves what the memtable says of the others.
LEMMA UpsertMentions ==
    ASSUME NEW mt \in Layer, NEW id \in Id, NEW rec \in Record, NEW other \in Id
    PROVE  /\ other = id => /\ Mentions(Upsert(mt, id, rec), other)
                           /\ ValueIn(Upsert(mt, id, rec), other) = rec
           /\ other # id => /\ Mentions(Upsert(mt, id, rec), other) <=> Mentions(mt, other)
                           /\ ValueIn(Upsert(mt, id, rec), other) = ValueIn(mt, other)
BY NoRecordAssumption DEF Layer, Mentions, HasRow, Upsert, ValueIn

LEMMA DeleteMentions ==
    ASSUME NEW mt \in Layer, NEW id \in Id, NEW other \in Id
    PROVE  /\ other = id => /\ Mentions(Delete(mt, id), other)
                           /\ ValueIn(Delete(mt, id), other) = NoRecord
           /\ other # id => /\ Mentions(Delete(mt, id), other) <=> Mentions(mt, other)
                           /\ ValueIn(Delete(mt, id), other) = ValueIn(mt, other)
BY NoRecordAssumption DEF Layer, Mentions, HasRow, Delete, ValueIn

----------------------------------------------------------------------------
(* Compaction *)

\* What a merge says of an id that some segment of the run mentions, and of an
\* id that none mentions.
LEMMA MergedRowIs ==
    ASSUME NEW run \in Seq(Layer), NEW id \in Id
    PROVE  /\ \A n \in DOMAIN run :
                 /\ Mentions(run[n], id)
                 /\ \A j \in DOMAIN run : j < n => ~Mentions(run[j], id)
                 => MergedRow(run, id) = run[n].upserts[id]
           /\ (\A i \in DOMAIN run : ~Mentions(run[i], id)) => MergedRow(run, id) = NoRecord
<1>1. ASSUME NEW n \in DOMAIN run, Mentions(run[n], id),
             \A j \in DOMAIN run : j < n => ~Mentions(run[j], id)
      PROVE  MergedRow(run, id) = run[n].upserts[id]
  <2>1. CASE HasRow(run[n], id)
    BY <1>1, <2>1, LookupAt DEF MergedRow
  <2>2. CASE ~HasRow(run[n], id)
    <3>1. ASSUME NEW i \in DOMAIN run, HasRow(run[i], id),
                 \A j \in DOMAIN run : j < i => ~Mentions(run[j], id)
          PROVE  FALSE
      <4>1. Mentions(run[i], id)
        BY <3>1 DEF Mentions
      <4>2. i = n
        BY <1>1, <3>1, <4>1, LookupAt
      <4> QED BY <3>1, <4>2, <2>2
    <3> QED BY <2>2, <3>1 DEF MergedRow, HasRow
  <2> QED BY <2>1, <2>2
<1>2. ASSUME \A i \in DOMAIN run : ~Mentions(run[i], id)
      PROVE  MergedRow(run, id) = NoRecord
  BY <1>2 DEF MergedRow, Mentions
<1> QED BY <1>1, <1>2

LEMMA MergedRowType ==
    ASSUME NEW run \in Seq(Layer), NEW id \in Id
    PROVE  MergedRow(run, id) \in Record \cup {NoRecord}
<1>1. CASE \E i \in DOMAIN run : Mentions(run[i], id)
  <2>1. PICK n \in DOMAIN run : /\ Mentions(run[n], id)
                               /\ \A j \in DOMAIN run : j < n => ~Mentions(run[j], id)
    BY <1>1, NewestExists
  <2>2. MergedRow(run, id) = run[n].upserts[id]
    BY <2>1, MergedRowIs
  <2>3. run[n] \in Layer
    OBVIOUS
  <2> QED BY <2>2, <2>3 DEF Layer
<1>2. CASE ~(\E i \in DOMAIN run : Mentions(run[i], id))
  BY <1>2, MergedRowIs
<1> QED BY <1>1, <1>2

LEMMA MergeType ==
    ASSUME NEW run \in Seq(Layer), NEW older \in BOOLEAN
    PROVE  Merge(run, older) \in Layer /\ Exclusive(Merge(run, older))
<1>1. ASSUME NEW i \in DOMAIN run PROVE run[i].deletes \subseteq Id
  <2>1. run[i] \in Layer
    OBVIOUS
  <2> QED BY <2>1 DEF Layer
<1>2. UNION {run[i].deletes : i \in DOMAIN run} \subseteq Id
  BY <1>1
<1>3. \A id \in Id : MergedRow(run, id) \in Record \cup {NoRecord}
  BY MergedRowType
<1> QED BY <1>2, <1>3 DEF Merge, Layer, Exclusive, HasRow

\* Compacting a run of the newest segments changes no read of the collection,
\* whether older segments t remain (their rows must stay shadowed by the
\* tombstones carried over) or not (the tombstones are dropped), and also when
\* nothing is left and no segment is written.  This is the safety argument of
\* Shared::compact_collection.
THEOREM MergeKeepsLookup ==
    ASSUME NEW run \in Seq(Layer), NEW t \in Seq(Layer), NEW older \in BOOLEAN,
           \A i \in DOMAIN run : Exclusive(run[i]),
           ~older => t = <<>>,
           NEW id \in Id
    PROVE  Lookup((IF IsEmpty(Merge(run, older)) THEN <<>> ELSE <<Merge(run, older)>>) \o t, id)
             = Lookup(run \o t, id)
<1> DEFINE m == Merge(run, older)
           new == IF IsEmpty(m) THEN <<>> ELSE <<m>>
<1> SUFFICES Lookup(new \o t, id) = Lookup(run \o t, id)
  OBVIOUS
<1>1. m \in Layer /\ Exclusive(m)
  BY MergeType
<1>2. m.upserts[id] = MergedRow(run, id)
  BY DEF Merge
<1>3. id \in m.deletes <=> /\ older /\ MergedRow(run, id) = NoRecord
                          /\ \E i \in DOMAIN run : id \in run[i].deletes
  BY DEF Merge
<1> HIDE DEF m
<1>4. Lookup(new \o t, id) = IF Mentions(m, id) THEN ValueIn(m, id) ELSE Lookup(t, id)
  <2>1. CASE IsEmpty(m)
    <3>1. ~Mentions(m, id)
      BY <2>1, LayerTypes DEF IsEmpty
    <3>2. new \o t = t
      BY <2>1
    <3> QED BY <3>1, <3>2
  <2>2. CASE ~IsEmpty(m)
    BY <1>1, <2>2, LookupCons
  <2> QED BY <2>1, <2>2
<1>5. Lookup(run \o t, id) =
        IF \E i \in DOMAIN run : Mentions(run[i], id) THEN Lookup(run, id) ELSE Lookup(t, id)
  BY LookupConcat
<1>6. CASE \E i \in DOMAIN run : Mentions(run[i], id)
  <2>1. PICK n \in DOMAIN run : /\ Mentions(run[n], id)
                               /\ \A j \in DOMAIN run : j < n => ~Mentions(run[j], id)
    BY <1>6, NewestExists
  <2>2. Lookup(run, id) = ValueIn(run[n], id)
    BY <2>1, LookupAt
  <2>3. MergedRow(run, id) = run[n].upserts[id]
    BY <2>1, MergedRowIs
  <2>4. CASE HasRow(run[n], id)
    <3>1. id \notin run[n].deletes
      BY <2>4 DEF Exclusive
    <3>2. Mentions(m, id) /\ ValueIn(m, id) = run[n].upserts[id]
      BY <1>2, <1>3, <2>3, <2>4 DEF Mentions, HasRow, ValueIn
    <3> QED BY <1>4, <1>5, <1>6, <2>2, <3>1, <3>2 DEF ValueIn
  <2>5. CASE ~HasRow(run[n], id)
    <3>1. id \in run[n].deletes /\ MergedRow(run, id) = NoRecord
      BY <2>1, <2>3, <2>5 DEF Mentions, HasRow
    <3>2. Lookup(run \o t, id) = NoRecord
      BY <1>5, <1>6, <2>2, <3>1 DEF ValueIn
    <3>3. CASE older
      <4>1. id \in m.deletes
        BY <1>3, <3>1, <3>3
      <4> QED BY <1>4, <3>2, <4>1 DEF Mentions, ValueIn
    <3>4. CASE ~older
      <4>1. ~Mentions(m, id)
        BY <1>2, <1>3, <3>1, <3>4 DEF Mentions, HasRow
      <4>2. Lookup(t, id) = NoRecord
        BY <3>4 DEF Lookup
      <4> QED BY <1>4, <3>2, <4>1, <4>2
    <3> QED BY <3>3, <3>4
  <2> QED BY <2>4, <2>5
<1>7. CASE ~(\E i \in DOMAIN run : Mentions(run[i], id))
  <2>1. MergedRow(run, id) = NoRecord
    BY <1>7, MergedRowIs
  <2>2. ~Mentions(m, id)
    BY <1>2, <1>3, <1>7, <2>1 DEF Mentions, HasRow
  <2> QED BY <1>4, <1>5, <1>7, <2>2
<1> QED BY <1>6, <1>7

----------------------------------------------------------------------------
(* Counting *)

Live(map) == {id \in Id : map[id] # NoRecord}

\* Writing one id changes the number of live ids as the code counts it.
LEMMA LiveAfterWrite ==
    ASSUME NEW map \in [Id -> Record \cup {NoRecord}], NEW id \in Id,
           NEW val \in Record \cup {NoRecord}
    PROVE  /\ Cardinality(Live(map)) \in Nat
           /\ map[id] # NoRecord => Cardinality(Live(map)) >= 1
           /\ map[id] = NoRecord /\ val # NoRecord
                => Cardinality(Live([map EXCEPT ![id] = val])) = Cardinality(Live(map)) + 1
           /\ map[id] # NoRecord /\ val = NoRecord
                => Cardinality(Live([map EXCEPT ![id] = val])) = Cardinality(Live(map)) - 1
           /\ (map[id] = NoRecord <=> val = NoRecord)
                => Cardinality(Live([map EXCEPT ![id] = val])) = Cardinality(Live(map))
<1> DEFINE new == [map EXCEPT ![id] = val]
<1>1. IsFiniteSet(Live(map))
  BY IdAssumption, FS_Subset DEF Live
<1>2. Cardinality(Live(map)) \in Nat
  BY <1>1, FS_CardinalityType
<1>3. map[id] # NoRecord => Cardinality(Live(map)) >= 1
  <2>1. map[id] # NoRecord => Live(map) # {}
    BY DEF Live
  <2>2. Live(map) # {} => Cardinality(Live(map)) # 0
    BY <1>1, FS_EmptySet
  <2> QED BY <1>2, <2>1, <2>2
<1>4. CASE map[id] = NoRecord /\ val # NoRecord
  <2>1. Live(new) = Live(map) \cup {id} /\ id \notin Live(map)
    BY <1>4 DEF Live
  <2> QED BY <1>1, <1>2, <1>3, <1>4, <2>1, FS_AddElement
<1>5. CASE map[id] # NoRecord /\ val = NoRecord
  <2>1. Live(new) = Live(map) \ {id} /\ id \in Live(map)
    BY <1>5 DEF Live
  <2> QED BY <1>1, <1>2, <1>3, <1>5, <2>1, FS_RemoveElement
<1>6. CASE map[id] = NoRecord <=> val = NoRecord
  <2>1. Live(new) = Live(map)
    BY <1>6 DEF Live
  <2> QED BY <1>2, <1>3, <1>6, <2>1
<1> QED BY <1>4, <1>5, <1>6

\* A row a scan keeps is the one a point read finds.
LEMMA LiveRowIs ==
    ASSUME NEW layers \in Seq(Layer), \A i \in DOMAIN layers : Exclusive(layers[i]),
           NEW id \in Id, NEW row \in LiveRows(layers), row[1] = id
    PROVE  /\ row = <<id, Newest(layers, id)>>
           /\ layers[row[2]].upserts[id] = Lookup(layers, id)
<1>1. /\ row = <<id, row[2]>> /\ row[2] \in DOMAIN layers
      /\ HasRow(layers[row[2]], id) /\ IsLive(layers, id, row[2])
  BY DEF LiveRows
<1> DEFINE r == row[2]
<1>2. Mentions(layers[r], id)
  BY <1>1 DEF Mentions
<1>3. \A j \in DOMAIN layers : j < r => ~Mentions(layers[j], id)
  <2>1. r \in Nat /\ \A j \in DOMAIN layers : j \in Nat /\ (j < r => j \in 1..(r - 1))
    BY <1>1
  <2> QED BY <1>1, <2>1 DEF IsLive
<1>4. r = Newest(layers, id) /\ Lookup(layers, id) = ValueIn(layers[r], id)
  BY <1>1, <1>2, <1>3, LookupAt
<1>5. id \notin layers[r].deletes
  BY <1>1 DEF Exclusive
<1> QED BY <1>1, <1>4, <1>5 DEF ValueIn

LEMMA LiveRowExists ==
    ASSUME NEW layers \in Seq(Layer), NEW id \in Id, IsIdLive(layers, id)
    PROVE  \E row \in LiveRows(layers) : row[1] = id
<1> DEFINE n == Newest(layers, id)
<1>1. \E i \in DOMAIN layers : Mentions(layers[i], id)
  BY DEF IsIdLive, Lookup
<1>2. /\ n \in DOMAIN layers /\ Mentions(layers[n], id)
      /\ \A j \in DOMAIN layers : j < n => ~Mentions(layers[j], id)
  BY <1>1, NewestExists
<1>3. HasRow(layers[n], id)
  BY <1>1, <1>2 DEF IsIdLive, Lookup, ValueIn, Mentions
<1> HIDE DEF n
<1>4. IsLive(layers, id, n)
  <2>1. \A j \in 1..(n - 1) : j \in DOMAIN layers /\ j < n
    BY <1>2
  <2> QED BY <1>2, <2>1 DEF IsLive
<1>5. <<id, n>> \in LiveRows(layers)
  BY <1>2, <1>3, <1>4 DEF LiveRows
<1> QED BY <1>5

\* A scan over layers without a row and a marker for one id counts the ids a
\* point read finds: what scan_segments returns is the length.
LEMMA ScanCounts ==
    ASSUME NEW layers \in Seq(Layer), \A i \in DOMAIN layers : Exclusive(layers[i])
    PROVE  Cardinality(LiveRows(layers)) = Cardinality({id \in Id : IsIdLive(layers, id)})
<1> DEFINE ids == {id \in Id : IsIdLive(layers, id)}
           rows == LiveRows(layers)
           rowOf == [id \in ids |-> <<id, Newest(layers, id)>>]
<1>1. IsFiniteSet(ids)
  BY IdAssumption, FS_Subset
<1>2. ASSUME NEW row \in rows
      PROVE  row[1] \in ids /\ row = <<row[1], Newest(layers, row[1])>>
  <2>1. row[1] \in Id /\ row[2] \in DOMAIN layers /\ HasRow(layers[row[2]], row[1])
    BY DEF LiveRows
  <2>2. /\ row = <<row[1], Newest(layers, row[1])>>
        /\ layers[row[2]].upserts[row[1]] = Lookup(layers, row[1])
    BY <2>1, LiveRowIs
  <2> QED BY <2>1, <2>2 DEF HasRow, IsIdLive
<1>3. ASSUME NEW id \in ids PROVE rowOf[id] \in rows /\ rowOf[id] = <<id, Newest(layers, id)>>
  <2>1. PICK row \in rows : row[1] = id
    BY LiveRowExists
  <2> QED BY <1>2, <2>1
<1> HIDE DEF ids, rows
<1>4. rowOf \in [ids -> rows]
  BY <1>3
<1>5. \A i, j \in ids : rowOf[i] = rowOf[j] => i = j
  BY <1>3
<1>6. \A row \in rows : \E id \in ids : rowOf[id] = row
  BY <1>2
<1>7. rowOf \in Bijection(ids, rows)
  BY <1>4, <1>5, <1>6, Fun_IsBij
<1> QED BY <1>1, <1>7, FS_Bijection DEF ids, rows, ExistsBijection

============================================================================
