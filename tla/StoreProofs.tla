---------------------------- MODULE StoreProofs ----------------------------
(***************************************************************************)
(* Store keeps memory, manifest, logs and segment directories consistent,  *)
(* for any number of collections, segments, logs, crashes and failed file  *)
(* system calls, whatever kinds of records the clients write.              *)
(*                                                                         *)
(* First the states: the types of what the store keeps, what a good state  *)
(* is, and what applying a record and rotating do to one.  Then the        *)
(* inductive invariant and the steps.                                      *)
(***************************************************************************)
EXTENDS StoreProps, LsmProofs, FiniteSetTheorems

----------------------------------------------------------------------------
(* Types *)

Maps(D, R) == UNION {[S -> R] : S \in SUBSET D}

GoodLayer == {layer \in Layer : Exclusive(layer)}
Segment == [id : Nat, layer : GoodLayer]
Col == [name : Name, memtable : GoodLayer, segments : Seq(Segment), liveLen : Int]
ListedCol == [name : Name, segs : Seq(Nat)]
Manifest == [gen : Nat, nextCid : Nat, nextSeg : Nat, walSeq : Nat, cols : Maps(Cid, ListedCol)]
Waiting == [walSeq : Nat, memtables : Maps(Cid, GoodLayer)]
StoreState ==
    [manifest : Manifest, wal : Nat, names : Maps(Name, Cid), cols : Maps(Cid, Col),
     pending : Waiting \cup {NoPending}]

WalRecord ==
    [op : {"create", "rename"}, cid : Cid, name : Name]
    \cup [op : {"drop"}, cid : Cid]
    \cup [op : {"upsert"}, cid : Cid, id : Id, rec : Record]
    \cup [op : {"delete"}, cid : Cid, id : Id]
    \cup [op : {"updateMeta"}, cid : Cid, id : Id, metadata : Metadata]
    \cup [op : {"swap"}, a : Cid, b : Cid]
    \cup [op : {"torn", "blank"}]
Logs == Maps(Nat, Seq(WalRecord))

----------------------------------------------------------------------------
(* Good states *)

Below(S, n) == \A c \in S : c < n
Distinct(s) == \A i, j \in DOMAIN s : s[i] = s[j] => i = j

\* Segment ids that the counter has given out, each once
GoodIds(ids, next) == Distinct(ids) /\ \A i \in DOMAIN ids : ids[i] < next

Waits(st, c) == st.pending # NoPending /\ c \in DOMAIN st.pending.memtables

\* One collection of a state
GoodCol(st, c) ==
    /\ c < st.manifest.nextCid
    /\ st.cols[c].liveLen = LiveCount(Layers(st, c))
    /\ GoodIds(SegIds(st.cols[c].segments), st.manifest.nextSeg)
    /\ c \notin DOMAIN st.manifest.cols => st.cols[c].segments = <<>>

Good(st) ==
    /\ st \in StoreState
    /\ Below(DOMAIN st.manifest.cols, st.manifest.nextCid)
    /\ st.pending # NoPending => Below(DOMAIN st.pending.memtables, st.manifest.nextCid)
    /\ \A c \in DOMAIN st.cols : GoodCol(st, c)

----------------------------------------------------------------------------
(* Maps *)

LEMMA MapsIs ==
    ASSUME NEW D, NEW R, NEW f
    PROVE  f \in Maps(D, R) <=> DOMAIN f \subseteq D /\ f \in [DOMAIN f -> R]
BY DEF Maps

LEMMA PutType ==
    ASSUME NEW D, NEW R, NEW f \in Maps(D, R), NEW k \in D, NEW v \in R
    PROVE  Put(f, k, v) \in Maps(D, R)
<1>1. DOMAIN f \subseteq D /\ f \in [DOMAIN f -> R]
  BY MapsIs
<1>2. Put(f, k, v) \in [DOMAIN f \cup {k} -> R]
  BY <1>1 DEF Put
<1> QED BY <1>1, <1>2, MapsIs

LEMMA KeepType ==
    ASSUME NEW D, NEW R, NEW f \in Maps(D, R), NEW S
    PROVE  Keep(f, S) \in Maps(D, R)
<1>1. DOMAIN f \subseteq D /\ f \in [DOMAIN f -> R]
  BY MapsIs
<1>2. Keep(f, S) \in [DOMAIN f \cap S -> R]
  BY <1>1 DEF Keep
<1> QED BY <1>1, <1>2, MapsIs

LEMMA WithoutType ==
    ASSUME NEW D, NEW R, NEW f \in Maps(D, R), NEW k
    PROVE  Without(f, k) \in Maps(D, R)
<1>1. DOMAIN f \subseteq D /\ f \in [DOMAIN f -> R]
  BY MapsIs
<1>2. Without(f, k) \in [DOMAIN f \ {k} -> R]
  BY <1>1 DEF Without
<1> QED BY <1>1, <1>2, MapsIs

LEMMA MapAt ==
    ASSUME NEW D, NEW R, NEW f \in Maps(D, R), NEW k \in DOMAIN f
    PROVE  k \in D /\ f[k] \in R
BY MapsIs

----------------------------------------------------------------------------
(* One collection of a state *)

LEMMA CidIs == Cid \subseteq Nat
BY StoreAssumption DEF Cid

LEMMA StateIs ==
    ASSUME NEW st \in StoreState
    PROVE  /\ st.manifest \in Manifest /\ st.wal \in Nat
           /\ st.names \in Maps(Name, Cid) /\ st.cols \in Maps(Cid, Col)
           /\ st.pending # NoPending => st.pending \in Waiting
BY DEF StoreState

LEMMA SegmentsAre ==
    ASSUME NEW segments \in Seq(Segment)
    PROVE  /\ SegLayers(segments) \in Seq(Layer) /\ SegIds(segments) \in Seq(Nat)
           /\ Len(SegLayers(segments)) = Len(segments) /\ Len(SegIds(segments)) = Len(segments)
           /\ \A i \in 1..Len(segments) :
                /\ segments[i] \in Segment
                /\ SegIds(segments)[i] = segments[i].id
                /\ SegLayers(segments)[i] = segments[i].layer
                /\ Exclusive(SegLayers(segments)[i])
<1>1. ASSUME NEW i \in 1..Len(segments)
      PROVE  /\ segments[i] \in Segment /\ segments[i].id \in Nat
             /\ segments[i].layer \in Layer /\ Exclusive(segments[i].layer)
  <2>1. segments[i] \in Segment
    OBVIOUS
  <2> QED BY <2>1 DEF Segment, GoodLayer
<1>2. Len(segments) \in Nat
  OBVIOUS
<1>3. SegLayers(segments) \in [1..Len(segments) -> Layer]
  BY <1>1 DEF SegLayers
<1>4. SegIds(segments) \in [1..Len(segments) -> Nat]
  BY <1>1 DEF SegIds
<1>5. SegLayers(segments) \in Seq(Layer) /\ Len(SegLayers(segments)) = Len(segments)
  BY <1>2, <1>3
<1>6. SegIds(segments) \in Seq(Nat) /\ Len(SegIds(segments)) = Len(segments)
  BY <1>2, <1>4
<1> QED BY <1>1, <1>5, <1>6 DEF SegLayers, SegIds

LEMMA ColIs ==
    ASSUME NEW st \in StoreState, NEW c \in DOMAIN st.cols
    PROVE  /\ c \in Cid
           /\ st.cols[c] \in Col
           /\ st.cols[c].memtable \in Layer /\ Exclusive(st.cols[c].memtable)
           /\ st.cols[c].segments \in Seq(Segment)
           /\ SegLayers(st.cols[c].segments) \in Seq(Layer)
           /\ Waits(st, c) => /\ st.pending \in Waiting
                              /\ st.pending.memtables[c] \in Layer
                              /\ Exclusive(st.pending.memtables[c])
           /\ Layers(st, c) \in Seq(Layer)
<1>1. c \in Cid /\ st.cols[c] \in Col
  BY StateIs, MapAt
<1>2. /\ st.cols[c].memtable \in GoodLayer
      /\ st.cols[c].segments \in Seq(Segment)
  BY <1>1 DEF Col
<1>3. SegLayers(st.cols[c].segments) \in Seq(Layer)
  BY <1>2, SegmentsAre
<1>4. ASSUME Waits(st, c)
      PROVE  st.pending \in Waiting /\ st.pending.memtables[c] \in GoodLayer
  <2>1. st.pending \in Waiting
    BY <1>4, StateIs DEF Waits
  <2>2. st.pending.memtables \in Maps(Cid, GoodLayer)
    BY <2>1 DEF Waiting
  <2> QED BY <1>4, <2>1, <2>2, MapAt DEF Waits
<1>5. Layers(st, c) \in Seq(Layer)
  <2> DEFINE mid == IF st.pending # NoPending /\ c \in DOMAIN st.pending.memtables
                    THEN <<st.pending.memtables[c]>> ELSE <<>>
  <2>1. mid \in Seq(Layer)
    BY <1>4 DEF Waits, GoodLayer
  <2>2. <<st.cols[c].memtable>> \in Seq(Layer)
    BY <1>2 DEF GoodLayer
  <2> HIDE DEF mid
  <2>3. (<<st.cols[c].memtable>> \o mid) \o SegLayers(st.cols[c].segments) \in Seq(Layer)
    BY <2>1, <2>2, <1>3
  <2> QED BY <2>3 DEF Layers, mid
<1> QED BY <1>1, <1>2, <1>3, <1>4, <1>5 DEF GoodLayer

\* A read of a collection, layer by layer
LEMMA LookupLayers ==
    ASSUME NEW st \in StoreState, NEW c \in DOMAIN st.cols, NEW id \in Id
    PROVE  Lookup(Layers(st, c), id) =
              IF Mentions(st.cols[c].memtable, id) THEN ValueIn(st.cols[c].memtable, id)
              ELSE IF Waits(st, c) /\ Mentions(st.pending.memtables[c], id)
              THEN ValueIn(st.pending.memtables[c], id)
              ELSE Lookup(SegLayers(st.cols[c].segments), id)
<1> DEFINE mt == st.cols[c].memtable
           pend == st.pending.memtables[c]
           segs == SegLayers(st.cols[c].segments)
<1>1. mt \in Layer /\ segs \in Seq(Layer) /\ (Waits(st, c) => pend \in Layer)
  BY ColIs
<1>2. CASE ~Waits(st, c)
  <2>1. Layers(st, c) = <<mt>> \o segs
    BY <1>1, <1>2 DEF Layers, Waits
  <2> HIDE DEF mt, segs
  <2>2. Lookup(<<mt>> \o segs, id)
          = IF Mentions(mt, id) THEN ValueIn(mt, id) ELSE Lookup(segs, id)
    BY <1>1, LookupCons
  <2> QED BY <1>2, <2>1, <2>2 DEF mt, segs
<1>3. CASE Waits(st, c)
  <2>1. Layers(st, c) = (<<mt>> \o <<pend>>) \o segs
    BY <1>1, <1>3 DEF Layers, Waits
  <2> HIDE DEF mt, segs, pend
  <2>2. pend \in Layer
    BY <1>1, <1>3
  <2>3. (<<mt>> \o <<pend>>) \o segs = <<mt>> \o (<<pend>> \o segs) /\ <<pend>> \o segs \in Seq(Layer)
    BY <1>1, <2>2
  <2>4. Lookup(<<pend>> \o segs, id)
          = IF Mentions(pend, id) THEN ValueIn(pend, id) ELSE Lookup(segs, id)
    BY <1>1, <2>2, LookupCons
  <2>5. Lookup(<<mt>> \o (<<pend>> \o segs), id)
          = IF Mentions(mt, id) THEN ValueIn(mt, id) ELSE Lookup(<<pend>> \o segs, id)
    BY <1>1, <2>3, LookupCons
  <2> QED BY <1>3, <2>1, <2>3, <2>4, <2>5 DEF mt, segs, pend
<1> QED BY <1>2, <1>3

\* The parts of the manifest that a client step or replay leaves alone
SameManifest(st, st2) ==
    /\ st2.manifest = [st.manifest EXCEPT !.nextCid = st2.manifest.nextCid]
    /\ st.manifest.nextCid <= st2.manifest.nextCid

LEMMA SameManifestIs ==
    ASSUME NEW st \in StoreState, NEW st2 \in StoreState, SameManifest(st, st2)
    PROVE  /\ st2.manifest.nextSeg = st.manifest.nextSeg
           /\ st2.manifest.cols = st.manifest.cols
           /\ st2.manifest.gen = st.manifest.gen
           /\ st2.manifest.walSeq = st.manifest.walSeq
           /\ st.manifest.nextCid \in Nat /\ st2.manifest.nextCid \in Nat
           /\ st.manifest.nextSeg \in Nat
BY StateIs DEF SameManifest, Manifest

\* A collection whose layers and length stay is as good as before.
LEMMA GoodColKept ==
    ASSUME NEW st \in StoreState, NEW st2 \in StoreState, SameManifest(st, st2),
           NEW c \in DOMAIN st.cols, c \in DOMAIN st2.cols, GoodCol(st, c),
           st2.cols[c].memtable = st.cols[c].memtable,
           st2.cols[c].segments = st.cols[c].segments,
           st2.cols[c].liveLen = st.cols[c].liveLen,
           Waits(st2, c) <=> Waits(st, c),
           Waits(st, c) => st2.pending.memtables[c] = st.pending.memtables[c]
    PROVE  GoodCol(st2, c)
<1>1. Layers(st2, c) = Layers(st, c)
  BY DEF Layers, Waits
<1>2. c \in Nat
  BY ColIs, CidIs
<1> QED BY <1>1, <1>2, SameManifestIs DEF GoodCol, SameManifest

----------------------------------------------------------------------------
(* apply_record *)

\* What one record does to a state that is good
Applied(st, st2) ==
    /\ Good(st2) /\ SameManifest(st, st2)
    /\ st2.wal = st.wal /\ st2.pending = st.pending

OldSegments(st, st2, c) == c \in DOMAIN st.cols /\ st2.cols[c].segments = st.cols[c].segments

LEMMA NoSegments == SegIds(<<>>) = <<>> /\ SegLayers(<<>>) = <<>> /\ Backwards(<<>>) = <<>>
BY DEF SegIds, SegLayers, Backwards

LEMMA BelowMore ==
    ASSUME NEW S, S \subseteq Cid, NEW m \in Nat, NEW n \in Nat, m <= n, Below(S, m)
    PROVE  Below(S, n)
BY CidIs DEF Below

\* A state whose manifest and pending generation stay
LEMMA GoodWithCols ==
    ASSUME NEW st, Good(st), NEW st2 \in StoreState, SameManifest(st, st2),
           st2.wal = st.wal, st2.pending = st.pending,
           \A c \in DOMAIN st2.cols : GoodCol(st2, c)
    PROVE  Applied(st, st2)
<1>1. st \in StoreState
  BY DEF Good
<1>2. /\ st2.manifest.cols = st.manifest.cols
      /\ st.manifest.nextCid \in Nat /\ st2.manifest.nextCid \in Nat
      /\ st.manifest.nextCid <= st2.manifest.nextCid
  BY <1>1, SameManifestIs DEF SameManifest
<1>3. DOMAIN st.manifest.cols \subseteq Cid
  <2>1. st.manifest.cols \in Maps(Cid, ListedCol)
    BY <1>1, StateIs DEF Manifest
  <2> QED BY <2>1, MapsIs
<1>4. st.pending # NoPending => DOMAIN st.pending.memtables \subseteq Cid
  <2>1. st.pending # NoPending => st.pending.memtables \in Maps(Cid, GoodLayer)
    BY <1>1, StateIs DEF Waiting
  <2> QED BY <2>1, MapsIs
<1>5. Below(DOMAIN st2.manifest.cols, st2.manifest.nextCid)
  BY <1>2, <1>3, BelowMore DEF Good
<1>6. st2.pending # NoPending => Below(DOMAIN st2.pending.memtables, st2.manifest.nextCid)
  BY <1>2, <1>4, BelowMore DEF Good
<1> QED BY <1>5, <1>6 DEF Applied, Good

LEMMA GoodIs ==
    ASSUME NEW st, Good(st)
    PROVE  /\ st \in StoreState
           /\ \A c \in DOMAIN st.cols : GoodCol(st, c) /\ c \in Cid /\ st.cols[c] \in Col
BY ColIs DEF Good

\* create: the collection starts without segments and without a waiting memtable.
LEMMA CreateApplied ==
    ASSUME NEW st, Good(st), NEW r \in WalRecord, r.op = "create", ~Waits(st, r.cid)
    PROVE  /\ Applied(st, Apply(st, r))
           /\ DOMAIN Apply(st, r).cols = DOMAIN st.cols \cup {r.cid}
           /\ Apply(st, r).cols[r.cid].segments = <<>>
           /\ Apply(st, r).manifest.nextCid > r.cid
           /\ \A c \in DOMAIN st.cols : c # r.cid => OldSegments(st, Apply(st, r), c)
<1> DEFINE st2 == Apply(st, r)
           cols == Put(st.cols, r.cid, NewCollection(r.name))
           names == Put(st.names, r.name, r.cid)
           next == Larger(st.manifest.nextCid, r.cid + 1)
<1>1. st \in StoreState /\ r.cid \in Cid /\ r.name \in Name /\ r.cid \in Nat
  BY CidIs DEF Good, WalRecord
<1>2. st2 = [st EXCEPT !.names = names, !.cols = cols, !.manifest.nextCid = next]
  BY DEF Apply, ApplyCreate
<1>3. NewCollection(r.name) \in Col
  <2>1. EmptyLayer \in GoodLayer
    BY LayerTypes DEF GoodLayer
  <2>2. <<>> \in Seq(Segment)
    OBVIOUS
  <2> QED BY <1>1, <2>1, <2>2 DEF NewCollection, Col
<1>0. st.cols \in Maps(Cid, Col) /\ st.names \in Maps(Name, Cid)
  BY <1>1, StateIs
<1>4. /\ cols \in Maps(Cid, Col) /\ DOMAIN cols = DOMAIN st.cols \cup {r.cid}
      /\ cols[r.cid] = NewCollection(r.name)
      /\ \A c \in DOMAIN st.cols : c # r.cid => cols[c] = st.cols[c]
  <2>1. cols \in Maps(Cid, Col)
    BY <1>0, <1>1, <1>3, PutType
  <2> QED BY <2>1 DEF Put
<1>5. names \in Maps(Name, Cid)
  BY <1>0, <1>1, PutType
<1>6. next \in Nat /\ st.manifest.nextCid <= next /\ next > r.cid
  <2>1. st.manifest.nextCid \in Nat
    BY <1>1, StateIs DEF Manifest
  <2> QED BY <1>1, <2>1 DEF Larger
<1> HIDE DEF cols, names, next
<1>7. /\ st2.cols = cols /\ st2.names = names /\ st2.wal = st.wal /\ st2.pending = st.pending
      /\ st2.manifest = [st.manifest EXCEPT !.nextCid = next]
  BY <1>1, <1>2 DEF StoreState
<1>8. st2.manifest \in Manifest /\ st2.manifest.nextCid = next
  BY <1>1, <1>6, <1>7, StateIs DEF Manifest
<1>9. st2 \in StoreState
  BY <1>1, <1>2, <1>4, <1>5, <1>7, <1>8 DEF StoreState
<1>10. SameManifest(st, st2)
  BY <1>6, <1>7, <1>8 DEF SameManifest
<1> HIDE DEF st2
<1>11. ASSUME NEW c \in DOMAIN st2.cols PROVE GoodCol(st2, c)
  <2>1. CASE c = r.cid
    <3>1. st2.cols[c] = NewCollection(r.name)
      BY <1>4, <1>7, <2>1
    <3>2. Layers(st2, c) = <<EmptyLayer>> \o SegLayers(<<>>)
      BY <1>7, <2>1, <3>1 DEF Layers, Waits, NewCollection
    <3>3. SegLayers(<<>>) = <<>> /\ SegIds(<<>>) = <<>>
      BY DEF SegLayers, SegIds
    <3>4. LiveCount(Layers(st2, c)) = 0
      <4>1. ASSUME NEW id \in Id PROVE ~IsIdLive(<<EmptyLayer>> \o <<>>, id)
        BY LookupCons, LayerTypes DEF IsIdLive, Lookup
      <4>2. {id \in Id : IsIdLive(<<EmptyLayer>> \o <<>>, id)} = {}
        BY <4>1
      <4> QED BY <3>2, <3>3, <4>2, FS_EmptySet DEF LiveCount
    <3>5. GoodIds(SegIds(<<>>), st2.manifest.nextSeg)
      BY <3>3 DEF GoodIds, Distinct
    <3> QED BY <1>6, <1>8, <2>1, <3>1, <3>4, <3>5 DEF GoodCol, NewCollection
  <2>2. CASE c # r.cid
    <3>1. c \in DOMAIN st.cols /\ st2.cols[c] = st.cols[c]
      BY <1>4, <1>7, <2>2
    <3>2. GoodCol(st, c)
      BY <3>1 DEF Good
    <3> QED BY <1>1, <1>7, <1>9, <1>10, <3>1, <3>2, GoodColKept DEF Waits
  <2> QED BY <2>1, <2>2
<1>12. Applied(st, st2)
  BY <1>7, <1>9, <1>10, <1>11, GoodWithCols
<1> QED BY <1>4, <1>6, <1>7, <1>8, <1>12 DEF st2, OldSegments, NewCollection

\* drop: the other collections stay.
LEMMA DropApplied ==
    ASSUME NEW st, Good(st), NEW r \in WalRecord, r.op = "drop"
    PROVE  /\ Applied(st, Apply(st, r))
           /\ Apply(st, r).manifest = st.manifest
           /\ DOMAIN Apply(st, r).cols = DOMAIN st.cols \ {r.cid}
           /\ \A c \in DOMAIN st.cols : c # r.cid => Apply(st, r).cols[c] = st.cols[c]
<1> DEFINE st2 == Apply(st, r)
           cols == Without(st.cols, r.cid)
           names == Without(st.names, st.cols[r.cid].name)
<1>1. st \in StoreState /\ r.cid \in Cid
  BY DEF Good, WalRecord
<1>2. CASE r.cid \in DOMAIN st.cols
  <2>1. st2 = [st EXCEPT !.names = names, !.cols = cols]
    BY <1>2 DEF Apply, ApplyDrop
  <2>2. /\ cols \in Maps(Cid, Col) /\ DOMAIN cols = DOMAIN st.cols \ {r.cid}
        /\ \A c \in DOMAIN st.cols : c # r.cid => cols[c] = st.cols[c]
    <3>1. st.cols \in Maps(Cid, Col)
      BY <1>1, StateIs
    <3>2. cols \in Maps(Cid, Col)
      BY <3>1, WithoutType
    <3> QED BY <3>2 DEF Without
  <2>8. names \in Maps(Name, Cid)
    <3>1. st.names \in Maps(Name, Cid)
      BY <1>1, StateIs
    <3> QED BY <3>1, WithoutType
  <2> HIDE DEF cols, names
  <2>3. /\ st2.cols = cols /\ st2.names = names /\ st2.wal = st.wal /\ st2.pending = st.pending
        /\ st2.manifest = st.manifest
    BY <1>1, <2>1 DEF StoreState
  <2>4. st2 \in StoreState
    BY <1>1, <2>1, <2>2, <2>3, <2>8 DEF StoreState
  <2>5. SameManifest(st, st2)
    BY <1>1, <2>3, StateIs DEF SameManifest, Manifest
  <2> HIDE DEF st2
  <2>6. ASSUME NEW c \in DOMAIN st2.cols PROVE GoodCol(st2, c)
    <3>1. c \in DOMAIN st.cols /\ st2.cols[c] = st.cols[c]
      BY <2>2, <2>3
    <3>2. GoodCol(st, c)
      BY <3>1 DEF Good
    <3> QED BY <1>1, <2>3, <2>4, <2>5, <3>1, <3>2, GoodColKept DEF Waits
  <2>7. Applied(st, st2)
    BY <2>3, <2>4, <2>5, <2>6, GoodWithCols
  <2> QED BY <2>2, <2>3, <2>7 DEF st2
<1>3. CASE r.cid \notin DOMAIN st.cols
  <2>1. st2 = st
    BY <1>3 DEF Apply, ApplyDrop
  <2>2. SameManifest(st, st)
    BY <1>1, StateIs DEF SameManifest, Manifest
  <2> QED BY <1>3, <2>1, <2>2 DEF Applied
<1> QED BY <1>2, <1>3

LEMMA LiveCountIs ==
    ASSUME NEW layers \in Seq(Layer)
    PROVE  /\ Contents(layers) \in [Id -> Record \cup {NoRecord}]
           /\ LiveCount(layers) = Cardinality(Live(Contents(layers)))
<1>1. Contents(layers) \in [Id -> Record \cup {NoRecord}]
  BY LookupType DEF Contents
<1>2. Live(Contents(layers)) = {id \in Id : IsIdLive(layers, id)}
  BY DEF Live, Contents, IsIdLive
<1> QED BY <1>1, <1>2 DEF LiveCount

\* mt says val of id and what old says of the other ids.
Rewrites(old, mt, id, val) ==
    \A other \in Id :
        /\ other = id => Mentions(mt, other) /\ ValueIn(mt, other) = val
        /\ other # id => /\ Mentions(mt, other) <=> Mentions(old, other)
                         /\ ValueIn(mt, other) = ValueIn(old, other)

\* The length after a write
NewLen(st, c, id, val) ==
    IF IsIdLive(Layers(st, c), id) <=> val # NoRecord THEN st.cols[c].liveLen
    ELSE IF val = NoRecord THEN st.cols[c].liveLen - 1 ELSE st.cols[c].liveLen + 1

WithRow(st, c, mt, n) == [st EXCEPT !.cols[c].memtable = mt, !.cols[c].liveLen = n]

SameCols(st, st2) ==
    DOMAIN st2.cols = DOMAIN st.cols /\ \A c \in DOMAIN st.cols : OldSegments(st, st2, c)

\* The catalog stays.
SameCatalog(st, st2) ==
    /\ st2.names = st.names
    /\ \A c \in DOMAIN st.cols : st2.cols[c].name = st.cols[c].name

\* What a read finds under an id of a collection
Read(st, c, id) == Lookup(Layers(st, c), id)

\* A read of id in c finds val, every other read what it found before.
OneWritten(st, st2, c, id, val) ==
    \A d \in DOMAIN st.cols, x \in Id :
        Read(st2, d, x) = IF d = c /\ x = id THEN val ELSE Read(st, d, x)

\* A write of one id: the memtable of c becomes mt, which differs from the old
\* one in what it says of id, and the length follows.
LEMMA RowApplied ==
    ASSUME NEW st, Good(st), NEW c \in DOMAIN st.cols, NEW id \in Id,
           NEW val \in Record \cup {NoRecord}, NEW mt \in GoodLayer,
           Rewrites(st.cols[c].memtable, mt, id, val)
    PROVE  /\ Applied(st, WithRow(st, c, mt, NewLen(st, c, id, val)))
           /\ SameCols(st, WithRow(st, c, mt, NewLen(st, c, id, val)))
           /\ SameCatalog(st, WithRow(st, c, mt, NewLen(st, c, id, val)))
           /\ OneWritten(st, WithRow(st, c, mt, NewLen(st, c, id, val)), c, id, val)
<1> DEFINE n == NewLen(st, c, id, val)
           st2 == WithRow(st, c, mt, n)
           new == [st.cols[c] EXCEPT !.memtable = mt, !.liveLen = n]
           cols == [st.cols EXCEPT ![c] = new]
<1>1. /\ st \in StoreState /\ c \in Cid /\ st.cols[c] \in Col /\ GoodCol(st, c)
      /\ st.cols \in Maps(Cid, Col) /\ Layers(st, c) \in Seq(Layer)
  BY GoodIs, ColIs, StateIs
<1>2. st2 = [st EXCEPT !.cols = cols]
  BY <1>1 DEF StoreState, Col, WithRow
<1>3. n \in Int
  BY <1>1 DEF Col, NewLen
<1> HIDE DEF n, st2
<1>4. /\ new \in Col /\ new.segments = st.cols[c].segments /\ new.name = st.cols[c].name
      /\ new.memtable = mt /\ new.liveLen = n
  BY <1>1, <1>3 DEF Col
<1>5. /\ cols \in Maps(Cid, Col) /\ DOMAIN cols = DOMAIN st.cols /\ cols[c] = new
      /\ \A d \in DOMAIN st.cols : d # c => cols[d] = st.cols[d]
  <2>1. st.cols \in [DOMAIN st.cols -> Col] /\ DOMAIN st.cols \subseteq Cid
    BY <1>1, MapsIs
  <2> HIDE DEF new
  <2>2. cols \in [DOMAIN st.cols -> Col]
    BY <1>4, <2>1
  <2>3. cols \in Maps(Cid, Col)
    BY <2>1, <2>2, MapsIs
  <2> QED BY <2>1, <2>2, <2>3
<1> HIDE DEF cols
<1>6. /\ st2.cols = cols /\ st2.names = st.names /\ st2.wal = st.wal
      /\ st2.pending = st.pending /\ st2.manifest = st.manifest
  BY <1>1, <1>2 DEF StoreState
<1>7. st2 \in StoreState
  BY <1>1, <1>2, <1>5, <1>6 DEF StoreState
<1>8. SameManifest(st, st2)
  BY <1>1, <1>6, StateIs DEF SameManifest, Manifest
<1>13. ASSUME NEW other \in Id
      PROVE  Lookup(Layers(st2, c), other)
               = IF other = id THEN val ELSE Lookup(Layers(st, c), other)
  <2>1. Lookup(Layers(st2, c), other) =
            IF Mentions(mt, other) THEN ValueIn(mt, other)
            ELSE IF Waits(st, c) /\ Mentions(st.pending.memtables[c], other)
            THEN ValueIn(st.pending.memtables[c], other)
            ELSE Lookup(SegLayers(st.cols[c].segments), other)
    <3>1. /\ c \in DOMAIN st2.cols /\ st2.cols[c].memtable = mt
          /\ st2.cols[c].segments = st.cols[c].segments
          /\ Waits(st2, c) <=> Waits(st, c)
      BY <1>4, <1>5, <1>6 DEF Waits
    <3>2. Lookup(Layers(st2, c), other) =
            IF Mentions(st2.cols[c].memtable, other) THEN ValueIn(st2.cols[c].memtable, other)
            ELSE IF Waits(st2, c) /\ Mentions(st2.pending.memtables[c], other)
            THEN ValueIn(st2.pending.memtables[c], other)
            ELSE Lookup(SegLayers(st2.cols[c].segments), other)
      BY <1>7, <3>1, LookupLayers
    <3> QED BY <1>6, <3>1, <3>2
  <2>2. Lookup(Layers(st, c), other) =
            IF Mentions(st.cols[c].memtable, other) THEN ValueIn(st.cols[c].memtable, other)
            ELSE IF Waits(st, c) /\ Mentions(st.pending.memtables[c], other)
            THEN ValueIn(st.pending.memtables[c], other)
            ELSE Lookup(SegLayers(st.cols[c].segments), other)
    BY <1>1, LookupLayers
  <2> QED BY <2>1, <2>2 DEF Rewrites
<1>9. GoodCol(st2, c)
  <2> DEFINE map == Contents(Layers(st, c))
  <2>1. Layers(st2, c) \in Seq(Layer)
    BY <1>5, <1>6, <1>7, ColIs
  <2>3. Contents(Layers(st2, c)) = [map EXCEPT ![id] = val]
    BY <1>13 DEF Contents
  <2>4. map \in [Id -> Record \cup {NoRecord}] /\ map[id] = Lookup(Layers(st, c), id)
    BY <1>1, LiveCountIs DEF Contents
  <2>5. LiveCount(Layers(st, c)) = Cardinality(Live(map))
    BY <1>1, LiveCountIs
  <2>6. LiveCount(Layers(st2, c)) = Cardinality(Live([map EXCEPT ![id] = val]))
    BY <2>1, <2>3, LiveCountIs
  <2> HIDE DEF map
  <2>7. /\ Cardinality(Live(map)) \in Nat
        /\ map[id] = NoRecord /\ val # NoRecord
             => Cardinality(Live([map EXCEPT ![id] = val])) = Cardinality(Live(map)) + 1
        /\ map[id] # NoRecord /\ val = NoRecord
             => Cardinality(Live([map EXCEPT ![id] = val])) = Cardinality(Live(map)) - 1
        /\ (map[id] = NoRecord <=> val = NoRecord)
             => Cardinality(Live([map EXCEPT ![id] = val])) = Cardinality(Live(map))
    BY <2>4, LiveAfterWrite, Zenon
  <2>8. st.cols[c].liveLen = Cardinality(Live(map))
    BY <1>1, <2>5 DEF GoodCol
  <2>9. n = Cardinality(Live([map EXCEPT ![id] = val]))
    <3>1. IsIdLive(Layers(st, c), id) <=> map[id] # NoRecord
      BY <2>4 DEF IsIdLive
    <3> QED BY <2>7, <2>8, <3>1 DEF n, NewLen
  <2>10. st2.cols[c].liveLen = LiveCount(Layers(st2, c))
    BY <1>4, <1>5, <1>6, <2>6, <2>9
  <2> QED BY <1>1, <1>4, <1>5, <1>6, <2>10 DEF GoodCol
<1>10. ASSUME NEW d \in DOMAIN st2.cols PROVE GoodCol(st2, d)
  <2>1. CASE d = c
    BY <1>9, <2>1
  <2>2. CASE d # c
    <3>1. d \in DOMAIN st.cols /\ st2.cols[d] = st.cols[d]
      BY <1>5, <1>6, <2>2
    <3>2. GoodCol(st, d)
      BY <3>1 DEF Good
    <3> QED BY <1>1, <1>6, <1>7, <1>8, <3>1, <3>2, GoodColKept DEF Waits
  <2> QED BY <2>1, <2>2
<1>11. Applied(st, st2)
  BY <1>6, <1>7, <1>8, <1>10, GoodWithCols
<1>12. SameCols(st, st2)
  BY <1>4, <1>5, <1>6 DEF OldSegments, SameCols
<1>14. SameCatalog(st, st2)
  BY <1>4, <1>5, <1>6 DEF SameCatalog
<1>15. OneWritten(st, st2, c, id, val)
  <2> SUFFICES ASSUME NEW d \in DOMAIN st.cols, NEW x \in Id
               PROVE  Lookup(Layers(st2, d), x)
                        = IF d = c /\ x = id THEN val ELSE Lookup(Layers(st, d), x)
    BY DEF OneWritten, Read
  <2>1. CASE d = c
    BY <1>13, <2>1
  <2>2. CASE d # c
    <3>1. st2.cols[d] = st.cols[d] /\ st2.pending = st.pending
      BY <1>5, <1>6, <2>2
    <3>2. Layers(st2, d) = Layers(st, d)
      BY <3>1 DEF Layers
    <3> QED BY <2>2, <3>2
  <2> QED BY <2>1, <2>2
<1> QED BY <1>11, <1>12, <1>14, <1>15 DEF st2, n

LEMMA PutRowApplied ==
    ASSUME NEW st, Good(st), NEW c \in DOMAIN st.cols, NEW id \in Id, NEW rec \in Record
    PROVE  /\ Applied(st, PutRow(st, c, id, rec))
           /\ SameCols(st, PutRow(st, c, id, rec))
           /\ SameCatalog(st, PutRow(st, c, id, rec))
           /\ OneWritten(st, PutRow(st, c, id, rec), c, id, rec)
<1> DEFINE old == st.cols[c].memtable
           mt == Upsert(old, id, rec)
<1>1. old \in Layer /\ Exclusive(old)
  BY ColIs, GoodIs
<1>2. mt \in GoodLayer
  BY <1>1, LayerTypes DEF GoodLayer
<1>3. Rewrites(old, mt, id, rec)
  BY <1>1, UpsertMentions DEF Rewrites
<1>4. rec # NoRecord
  BY NoRecordAssumption
<1>5. PutRow(st, c, id, rec) = WithRow(st, c, mt, NewLen(st, c, id, rec))
  BY <1>4, GoodIs DEF PutRow, WithRow, NewLen, StoreState, Col
<1> HIDE DEF mt
<1> QED BY <1>2, <1>3, <1>5, RowApplied

LEMMA DeleteApplied ==
    ASSUME NEW st, Good(st), NEW c \in DOMAIN st.cols, NEW id \in Id,
           NEW r, r.op = "delete", r.cid = c, r.id = id
    PROVE  /\ Applied(st, Apply(st, r)) /\ SameCols(st, Apply(st, r))
           /\ SameCatalog(st, Apply(st, r)) /\ OneWritten(st, Apply(st, r), c, id, NoRecord)
<1> DEFINE old == st.cols[c].memtable
           mt == Delete(old, id)
<1>1. old \in Layer /\ Exclusive(old)
  BY ColIs, GoodIs
<1>2. mt \in GoodLayer
  BY <1>1, LayerTypes DEF GoodLayer
<1>3. Rewrites(old, mt, id, NoRecord)
  BY <1>1, DeleteMentions DEF Rewrites
<1>4. Apply(st, r) = WithRow(st, c, mt, NewLen(st, c, id, NoRecord))
  BY GoodIs DEF Apply, ApplyDelete, WithRow, NewLen, StoreState, Col
<1> HIDE DEF mt
<1> QED BY <1>2, <1>3, <1>4, RowApplied

\* What a record makes of the value it finds
NewValue(r, old) ==
    IF r.op = "upsert" THEN r.rec
    ELSE IF r.op = "updateMeta" /\ old # NoRecord
    THEN [vector |-> old.vector, metadata |-> r.metadata]
    ELSE NoRecord

LEMMA UpdateMetaApplied ==
    ASSUME NEW st, Good(st), NEW r \in WalRecord, r.op = "updateMeta", r.cid \in DOMAIN st.cols
    PROVE  /\ Applied(st, Apply(st, r)) /\ SameCols(st, Apply(st, r))
           /\ SameCatalog(st, Apply(st, r))
           /\ OneWritten(st, Apply(st, r), r.cid, r.id, NewValue(r, Read(st, r.cid, r.id)))
<1> DEFINE current == Lookup(Layers(st, r.cid), r.id)
<1>1. r.id \in Id /\ r.metadata \in Metadata
  BY DEF WalRecord
<1>2. current \in Record \cup {NoRecord}
  BY <1>1, GoodIs, ColIs, LookupType
<1>3. CASE current = NoRecord
  <2>1. Apply(st, r) = st
    BY <1>3 DEF Apply, ApplyUpdateMeta
  <2>2. SameManifest(st, st)
    BY GoodIs, StateIs DEF SameManifest, Manifest
  <2>3. NewValue(r, Read(st, r.cid, r.id)) = Read(st, r.cid, r.id)
    BY <1>3 DEF NewValue, Read
  <2> QED BY <2>1, <2>2, <2>3 DEF Applied, SameCols, OldSegments, SameCatalog, OneWritten
<1>4. CASE current # NoRecord
  <2> DEFINE rec == [vector |-> current.vector, metadata |-> r.metadata]
  <2>1. rec \in Record
    BY <1>1, <1>2, <1>4 DEF Record
  <2>2. Apply(st, r) = PutRow(st, r.cid, r.id, rec)
    BY <1>4 DEF Apply, ApplyUpdateMeta
  <2>3. NewValue(r, Read(st, r.cid, r.id)) = rec
    BY <1>4 DEF NewValue, Read
  <2> HIDE DEF rec
  <2> QED BY <1>1, <2>1, <2>2, <2>3, PutRowApplied
<1> QED BY <1>3, <1>4

Renamed(st, names, cols) == [st EXCEPT !.names = names, !.cols = cols]

\* The two tables are the same but for the names in them.
SameButNames(cols, cols2) ==
    /\ DOMAIN cols2 = DOMAIN cols
    /\ \A c \in DOMAIN cols : /\ cols2[c].memtable = cols[c].memtable
                              /\ cols2[c].segments = cols[c].segments
                              /\ cols2[c].liveLen = cols[c].liveLen

LEMMA RenamedApplied ==
    ASSUME NEW st, Good(st), NEW names \in Maps(Name, Cid), NEW cols \in Maps(Cid, Col),
           SameButNames(st.cols, cols)
    PROVE  Applied(st, Renamed(st, names, cols)) /\ SameCols(st, Renamed(st, names, cols))
<1> DEFINE st2 == Renamed(st, names, cols)
<1>1. st \in StoreState
  BY GoodIs
<1>2. /\ st2.cols = cols /\ st2.names = names /\ st2.wal = st.wal
      /\ st2.pending = st.pending /\ st2.manifest = st.manifest
  BY <1>1 DEF StoreState, Renamed
<1>3. st2 \in StoreState
  BY <1>1 DEF StoreState, Renamed
<1> HIDE DEF st2
<1>4. SameManifest(st, st2)
  BY <1>1, <1>2, StateIs DEF SameManifest, Manifest
<1>5. ASSUME NEW c \in DOMAIN st2.cols PROVE GoodCol(st2, c)
  <2>1. /\ c \in DOMAIN st.cols /\ GoodCol(st, c)
        /\ st2.cols[c].memtable = st.cols[c].memtable
        /\ st2.cols[c].segments = st.cols[c].segments
        /\ st2.cols[c].liveLen = st.cols[c].liveLen
    BY <1>2, GoodIs DEF SameButNames
  <2> QED BY <1>1, <1>2, <1>3, <1>4, <2>1, GoodColKept DEF Waits
<1>6. Applied(st, st2)
  BY <1>2, <1>3, <1>4, <1>5, GoodWithCols
<1>7. SameCols(st, st2)
  BY <1>2 DEF SameButNames, SameCols, OldSegments
<1> QED BY <1>6, <1>7 DEF st2

LEMMA RenameApplied ==
    ASSUME NEW st, Good(st), NEW r \in WalRecord, r.op = "rename", r.cid \in DOMAIN st.cols
    PROVE  Applied(st, Apply(st, r)) /\ SameCols(st, Apply(st, r))
<1> DEFINE col == [st.cols[r.cid] EXCEPT !.name = r.name]
           cols == [st.cols EXCEPT ![r.cid] = col]
           names == Put(Without(st.names, st.cols[r.cid].name), r.name, r.cid)
<1>1. /\ st \in StoreState /\ r.cid \in Cid /\ r.name \in Name /\ st.cols[r.cid] \in Col
      /\ st.names \in Maps(Name, Cid) /\ st.cols \in Maps(Cid, Col)
  BY GoodIs, StateIs DEF WalRecord
<1>2. Apply(st, r) = Renamed(st, names, cols)
  BY <1>1 DEF Apply, ApplyRename, Renamed, StoreState, Col
<1>3. names \in Maps(Name, Cid)
  BY <1>1, WithoutType, PutType
<1>4. /\ col \in Col /\ col.memtable = st.cols[r.cid].memtable
      /\ col.segments = st.cols[r.cid].segments /\ col.liveLen = st.cols[r.cid].liveLen
  BY <1>1 DEF Col
<1> HIDE DEF col, names
<1>5. st.cols \in [DOMAIN st.cols -> Col] /\ DOMAIN st.cols \subseteq Cid
  BY <1>1, MapsIs
<1>6. cols \in [DOMAIN st.cols -> Col]
  BY <1>4, <1>5
<1>7. cols \in Maps(Cid, Col)
  BY <1>5, <1>6, MapsIs
<1>8. SameButNames(st.cols, cols)
  BY <1>4, <1>5 DEF SameButNames
<1> HIDE DEF cols
<1> QED BY <1>2, <1>3, <1>7, <1>8, RenamedApplied

LEMMA SwapApplied ==
    ASSUME NEW st, Good(st), NEW r \in WalRecord, r.op = "swap", {r.a, r.b} \subseteq DOMAIN st.cols
    PROVE  Applied(st, Apply(st, r)) /\ SameCols(st, Apply(st, r))
<1> DEFINE nameA == st.cols[r.a].name
           nameB == st.cols[r.b].name
           colA == [st.cols[r.a] EXCEPT !.name = nameB]
           one == Put(st.cols, r.a, colA)
           colB == [st.cols[r.b] EXCEPT !.name = nameA]
           cols == Put(one, r.b, colB)
           names == Put(Put(st.names, nameB, r.a), nameA, r.b)
<1>1. /\ st \in StoreState /\ r.a \in Cid /\ r.b \in Cid
      /\ r.a \in DOMAIN st.cols /\ r.b \in DOMAIN st.cols
      /\ st.cols[r.a] \in Col /\ st.cols[r.b] \in Col
      /\ st.names \in Maps(Name, Cid) /\ st.cols \in Maps(Cid, Col)
  BY GoodIs, StateIs
<1>2. nameA \in Name /\ nameB \in Name
  BY <1>1 DEF Col
<1>3. Apply(st, r) = Renamed(st, names, cols)
  BY <1>1 DEF Apply, ApplySwap, Renamed, StoreState
<1>4. names \in Maps(Name, Cid)
  BY <1>1, <1>2, PutType
<1>5. /\ colA \in Col /\ colA.memtable = st.cols[r.a].memtable
      /\ colA.segments = st.cols[r.a].segments /\ colA.liveLen = st.cols[r.a].liveLen
  BY <1>1, <1>2 DEF Col
<1> HIDE DEF nameA, nameB
<1>9. /\ colB \in Col /\ colB.memtable = st.cols[r.b].memtable
      /\ colB.segments = st.cols[r.b].segments /\ colB.liveLen = st.cols[r.b].liveLen
  BY <1>1, <1>2 DEF Col
<1> HIDE DEF names, colA, colB
<1>6. one \in Maps(Cid, Col)
  BY <1>1, <1>5, PutType
<1>7. SameButNames(st.cols, one)
  BY <1>1, <1>5 DEF SameButNames, Put
<1> HIDE DEF one
<1>10. cols \in Maps(Cid, Col)
  BY <1>1, <1>6, <1>9, PutType
<1>11. SameButNames(one, cols)
  BY <1>1, <1>7, <1>9 DEF SameButNames, Put
<1> HIDE DEF cols
<1>12. SameButNames(st.cols, cols)
  BY <1>7, <1>11 DEF SameButNames
<1> QED BY <1>3, <1>4, <1>10, <1>12, RenamedApplied

\* Every record that apply_record accepts
LEMMA RecordApplied ==
    ASSUME NEW st, Good(st), NEW r \in WalRecord, r.op \notin {"torn", "blank"}, Known(st, r),
           r.op = "create" => ~Waits(st, r.cid)
    PROVE  /\ Applied(st, Apply(st, r))
           /\ \A c \in DOMAIN Apply(st, r).cols :
                 \/ OldSegments(st, Apply(st, r), c)
                 \/ /\ r.op = "create" /\ c = r.cid
                    /\ Apply(st, r).cols[c].segments = <<>>
<1>1. CASE r.op = "create"
  BY <1>1, CreateApplied
<1>2. CASE r.op = "drop"
  BY <1>2, DropApplied DEF OldSegments
<1>3. CASE r.op \in {"upsert", "delete", "updateMeta", "rename", "swap"}
  <2> SUFFICES Applied(st, Apply(st, r)) /\ SameCols(st, Apply(st, r))
    BY DEF SameCols
  <2>1. CASE r.op = "upsert"
    <3>1. r.cid \in DOMAIN st.cols /\ r.id \in Id /\ r.rec \in Record
      BY <2>1 DEF Known, Refers, WalRecord
    <3>2. Apply(st, r) = PutRow(st, r.cid, r.id, r.rec)
      BY <2>1 DEF Apply, ApplyUpsert
    <3> QED BY <3>1, <3>2, PutRowApplied
  <2>2. CASE r.op = "delete"
    <3>1. r.cid \in DOMAIN st.cols /\ r.id \in Id
      BY <2>2 DEF Known, Refers, WalRecord
    <3> QED BY <2>2, <3>1, DeleteApplied
  <2>3. CASE r.op = "updateMeta"
    BY <2>3, UpdateMetaApplied DEF Known, Refers
  <2>4. CASE r.op = "rename"
    BY <2>4, RenameApplied DEF Known, Refers
  <2>5. CASE r.op = "swap"
    BY <2>5, SwapApplied DEF Known, Refers
  <2> QED BY <1>3, <2>1, <2>2, <2>3, <2>4, <2>5
<1> QED BY <1>1, <1>2, <1>3 DEF WalRecord

----------------------------------------------------------------------------
(* What a record does to the answers *)

Names(r, c) == r.op \in {"create", "rename"} /\ r.cid = c
Writes(r, c, id) == r.op \in {"upsert", "delete", "updateMeta"} /\ r.cid = c /\ r.id = id

CidsAfter(r, cids) ==
    IF r.op = "create" THEN cids \cup {r.cid}
    ELSE IF r.op = "drop" THEN cids \ {r.cid} ELSE cids

ValueAfter(r, c, id, old) ==
    IF r.op = "create" /\ r.cid = c THEN NoRecord
    ELSE IF Writes(r, c, id) THEN NewValue(r, old) ELSE old

Does(st, r, st2) ==
    /\ DOMAIN st2.cols = CidsAfter(r, DOMAIN st.cols)
    /\ \A c \in DOMAIN st2.cols, id \in Id :
          Read(st2, c, id) = ValueAfter(r, c, id, Read(st, c, id))
    /\ st2.manifest.nextCid = IF r.op = "create" THEN Larger(st.manifest.nextCid, r.cid + 1)
                              ELSE st.manifest.nextCid

NamesTable(st, r) ==
    IF r.op = "create" THEN Put(st.names, r.name, r.cid)
    ELSE IF r.op = "drop" /\ r.cid \in DOMAIN st.cols
    THEN Without(st.names, st.cols[r.cid].name)
    ELSE IF r.op = "rename" THEN Put(Without(st.names, st.cols[r.cid].name), r.name, r.cid)
    ELSE st.names

\* The catalog after any record but a swap
DoesNames(st, r, st2) ==
    /\ st2.names = NamesTable(st, r)
    /\ \A c \in DOMAIN st2.cols :
          st2.cols[c].name = IF Names(r, c) THEN r.name ELSE st.cols[c].name

\* The layers of c are the same.
SameLayers(st, st2, c) ==
    /\ st2.cols[c].memtable = st.cols[c].memtable
    /\ st2.cols[c].segments = st.cols[c].segments
    /\ Waits(st2, c) <=> Waits(st, c)
    /\ Waits(st, c) => st2.pending.memtables[c] = st.pending.memtables[c]

LEMMA SameLayersRead ==
    ASSUME NEW st, NEW st2, NEW c, SameLayers(st, st2, c), NEW id \in Id
    PROVE  Read(st2, c, id) = Read(st, c, id)
<1>1. Layers(st2, c) = Layers(st, c)
  BY DEF SameLayers, Layers, Waits
<1> QED BY <1>1 DEF Read

LEMMA CreateDoes ==
    ASSUME NEW st, Good(st), NEW r \in WalRecord, r.op = "create", ~Waits(st, r.cid)
    PROVE  Does(st, r, Apply(st, r)) /\ DoesNames(st, r, Apply(st, r))
<1> DEFINE st2 == Apply(st, r)
           cols == Put(st.cols, r.cid, NewCollection(r.name))
           names == Put(st.names, r.name, r.cid)
           next == Larger(st.manifest.nextCid, r.cid + 1)
<1>1. st \in StoreState /\ st.manifest \in Manifest
  BY GoodIs, StateIs
<1>2. st2 = [st EXCEPT !.names = names, !.cols = cols, !.manifest.nextCid = next]
  BY DEF Apply, ApplyCreate
<1>3. /\ DOMAIN cols = DOMAIN st.cols \cup {r.cid}
      /\ cols[r.cid] = NewCollection(r.name)
      /\ \A c \in DOMAIN st.cols : c # r.cid => cols[c] = st.cols[c]
  BY DEF Put
<1> HIDE DEF cols, names, next
<1>4. /\ st2.cols = cols /\ st2.names = names /\ st2.pending = st.pending
      /\ st2.manifest.nextCid = next
  BY <1>1, <1>2 DEF StoreState, Manifest
<1> HIDE DEF st2
<1>5. ASSUME NEW c \in DOMAIN st2.cols, NEW id \in Id
      PROVE  Read(st2, c, id) = ValueAfter(r, c, id, Read(st, c, id))
  <2>1. CASE c = r.cid
    <3>1. Layers(st2, c) = <<EmptyLayer>> \o SegLayers(<<>>)
      BY <1>3, <1>4, <2>1 DEF Layers, Waits, NewCollection
    <3>2. Lookup(<<EmptyLayer>> \o <<>>, id) = NoRecord
      BY LookupCons, LayerTypes DEF Lookup
    <3> QED BY <2>1, <3>1, <3>2, NoSegments DEF Read, ValueAfter
  <2>2. CASE c # r.cid
    <3>1. st2.cols[c] = st.cols[c]
      BY <1>3, <1>4, <2>2
    <3>2. SameLayers(st, st2, c)
      BY <1>4, <3>1 DEF SameLayers, Waits
    <3> QED BY <2>2, <3>2, SameLayersRead DEF ValueAfter, Writes
  <2> QED BY <2>1, <2>2
<1>6. ASSUME NEW c \in DOMAIN st2.cols
      PROVE  st2.cols[c].name = IF Names(r, c) THEN r.name ELSE st.cols[c].name
  BY <1>3, <1>4 DEF Names, NewCollection
<1>7. Does(st, r, st2)
  BY <1>3, <1>4, <1>5 DEF Does, CidsAfter, next
<1>8. DoesNames(st, r, st2)
  BY <1>4, <1>6 DEF DoesNames, NamesTable, names
<1> QED BY <1>7, <1>8 DEF st2

LEMMA DropDoes ==
    ASSUME NEW st, Good(st), NEW r \in WalRecord, r.op = "drop"
    PROVE  Does(st, r, Apply(st, r)) /\ DoesNames(st, r, Apply(st, r))
<1> DEFINE st2 == Apply(st, r)
<1>1. /\ Applied(st, st2) /\ st2.manifest = st.manifest
      /\ DOMAIN st2.cols = DOMAIN st.cols \ {r.cid}
      /\ \A c \in DOMAIN st.cols : c # r.cid => st2.cols[c] = st.cols[c]
  BY DropApplied
<1>2. st2.names = NamesTable(st, r)
  <2>1. st \in StoreState
    BY GoodIs
  <2> QED BY <2>1 DEF Apply, ApplyDrop, NamesTable, StoreState
<1> HIDE DEF st2
<1>3. ASSUME NEW c \in DOMAIN st2.cols, NEW id \in Id
      PROVE  Read(st2, c, id) = ValueAfter(r, c, id, Read(st, c, id))
  <2>1. st2.cols[c] = st.cols[c] /\ st2.pending = st.pending
    BY <1>1 DEF Applied
  <2>2. SameLayers(st, st2, c)
    BY <2>1 DEF SameLayers, Waits
  <2> QED BY <2>2, SameLayersRead DEF ValueAfter, Writes
<1>4. Does(st, r, st2)
  BY <1>1, <1>3 DEF Does, CidsAfter
<1>5. DoesNames(st, r, st2)
  BY <1>1, <1>2 DEF DoesNames, Names
<1> QED BY <1>4, <1>5 DEF st2

\* A record that writes one row
LEMMA WriteDoes ==
    ASSUME NEW st, NEW r, NEW st2, r.op \in {"upsert", "delete", "updateMeta"},
           Applied(st, st2), SameCols(st, st2), SameCatalog(st, st2),
           OneWritten(st, st2, r.cid, r.id, NewValue(r, Read(st, r.cid, r.id))),
           st2.manifest.nextCid = st.manifest.nextCid
    PROVE  Does(st, r, st2) /\ DoesNames(st, r, st2)
<1>1. DOMAIN st2.cols = DOMAIN st.cols
  BY DEF SameCols
<1>2. ASSUME NEW c \in DOMAIN st2.cols, NEW id \in Id
      PROVE  Read(st2, c, id) = ValueAfter(r, c, id, Read(st, c, id))
  BY <1>1 DEF OneWritten, ValueAfter, Writes
<1>3. Does(st, r, st2)
  BY <1>1, <1>2 DEF Does, CidsAfter
<1>4. DoesNames(st, r, st2)
  BY <1>1 DEF SameCatalog, DoesNames, NamesTable, Names
<1> QED BY <1>3, <1>4

\* Other names, the same layers
LEMMA RenamedDoes ==
    ASSUME NEW st, st \in StoreState, NEW names, NEW cols, SameButNames(st.cols, cols)
    PROVE  /\ Renamed(st, names, cols).cols = cols /\ Renamed(st, names, cols).names = names
           /\ Renamed(st, names, cols).manifest = st.manifest
           /\ \A c \in DOMAIN st.cols, id \in Id :
                 Read(Renamed(st, names, cols), c, id) = Read(st, c, id)
<1> DEFINE st2 == Renamed(st, names, cols)
<1>1. /\ st2.cols = cols /\ st2.names = names /\ st2.pending = st.pending
      /\ st2.manifest = st.manifest
  BY DEF StoreState, Renamed
<1> HIDE DEF st2
<1>2. ASSUME NEW c \in DOMAIN st.cols, NEW id \in Id
      PROVE  Read(st2, c, id) = Read(st, c, id)
  <2>1. SameLayers(st, st2, c)
    BY <1>1 DEF SameButNames, SameLayers, Waits
  <2> QED BY <2>1, SameLayersRead
<1> QED BY <1>1, <1>2 DEF st2

LEMMA RenameDoes ==
    ASSUME NEW st, Good(st), NEW r \in WalRecord, r.op = "rename", r.cid \in DOMAIN st.cols
    PROVE  Does(st, r, Apply(st, r)) /\ DoesNames(st, r, Apply(st, r))
<1> DEFINE col == [st.cols[r.cid] EXCEPT !.name = r.name]
           cols == [st.cols EXCEPT ![r.cid] = col]
           names == Put(Without(st.names, st.cols[r.cid].name), r.name, r.cid)
           st2 == Apply(st, r)
<1>1. st \in StoreState /\ st.cols[r.cid] \in Col /\ st.cols \in Maps(Cid, Col)
  BY GoodIs, StateIs
<1>2. st2 = Renamed(st, names, cols)
  BY <1>1 DEF Apply, ApplyRename, Renamed, StoreState, Col
<1>3. /\ col.memtable = st.cols[r.cid].memtable /\ col.name = r.name
      /\ col.segments = st.cols[r.cid].segments /\ col.liveLen = st.cols[r.cid].liveLen
  BY <1>1 DEF Col
<1> HIDE DEF col
<1>4. /\ DOMAIN cols = DOMAIN st.cols /\ cols[r.cid] = col
      /\ \A c \in DOMAIN st.cols : c # r.cid => cols[c] = st.cols[c]
  BY <1>1, MapsIs
<1>5. SameButNames(st.cols, cols)
  BY <1>3, <1>4 DEF SameButNames
<1> HIDE DEF cols, names, st2
<1>6. /\ st2.cols = cols /\ st2.names = names /\ st2.manifest = st.manifest
      /\ \A c \in DOMAIN st.cols, id \in Id : Read(st2, c, id) = Read(st, c, id)
  BY <1>1, <1>2, <1>5, RenamedDoes
<1>7. Does(st, r, st2)
  BY <1>4, <1>6 DEF Does, CidsAfter, ValueAfter, Writes
<1>8. DoesNames(st, r, st2)
  BY <1>3, <1>4, <1>6 DEF DoesNames, NamesTable, Names, names
<1> QED BY <1>7, <1>8 DEF st2

LEMMA SwapDoes ==
    ASSUME NEW st, Good(st), NEW r \in WalRecord, r.op = "swap", {r.a, r.b} \subseteq DOMAIN st.cols
    PROVE  Does(st, r, Apply(st, r))
<1> DEFINE nameA == st.cols[r.a].name
           nameB == st.cols[r.b].name
           colA == [st.cols[r.a] EXCEPT !.name = nameB]
           one == Put(st.cols, r.a, colA)
           colB == [st.cols[r.b] EXCEPT !.name = nameA]
           cols == Put(one, r.b, colB)
           names == Put(Put(st.names, nameB, r.a), nameA, r.b)
           st2 == Apply(st, r)
<1>1. /\ st \in StoreState /\ r.a \in DOMAIN st.cols /\ r.b \in DOMAIN st.cols
      /\ st.cols[r.a] \in Col /\ st.cols[r.b] \in Col
  BY GoodIs
<1>3. st2 = Renamed(st, names, cols)
  BY <1>1 DEF Apply, ApplySwap, Renamed, StoreState
<1>5. /\ colA.memtable = st.cols[r.a].memtable
      /\ colA.segments = st.cols[r.a].segments /\ colA.liveLen = st.cols[r.a].liveLen
  BY <1>1 DEF Col
<1>9. /\ colB.memtable = st.cols[r.b].memtable
      /\ colB.segments = st.cols[r.b].segments /\ colB.liveLen = st.cols[r.b].liveLen
  BY <1>1 DEF Col
<1> HIDE DEF names, colA, colB
<1>7. SameButNames(st.cols, one)
  BY <1>1, <1>5 DEF SameButNames, Put
<1> HIDE DEF one
<1>11. SameButNames(one, cols)
  BY <1>1, <1>7, <1>9 DEF SameButNames, Put
<1> HIDE DEF cols
<1>12. SameButNames(st.cols, cols)
  BY <1>7, <1>11 DEF SameButNames
<1> HIDE DEF st2
<1>13. /\ st2.cols = cols /\ st2.manifest = st.manifest
       /\ \A c \in DOMAIN st.cols, id \in Id : Read(st2, c, id) = Read(st, c, id)
  BY <1>1, <1>3, <1>12, RenamedDoes
<1>14. Does(st, r, st2)
  BY <1>12, <1>13 DEF Does, CidsAfter, ValueAfter, Writes, SameButNames
<1> QED BY <1>14 DEF st2

LEMMA RecordDoes ==
    ASSUME NEW st, Good(st), NEW r \in WalRecord, r.op \notin {"torn", "blank"}, Known(st, r),
           r.op = "create" => ~Waits(st, r.cid)
    PROVE  /\ Does(st, r, Apply(st, r))
           /\ r.op # "swap" => DoesNames(st, r, Apply(st, r))
<1> DEFINE st2 == Apply(st, r)
<1>0. st \in StoreState
  BY GoodIs
<1>1. CASE r.op = "create"
  BY <1>1, CreateDoes
<1>2. CASE r.op = "drop"
  BY <1>2, DropDoes
<1>3. CASE r.op = "upsert"
  <2>1. r.cid \in DOMAIN st.cols /\ r.id \in Id /\ r.rec \in Record
    BY <1>3 DEF Known, Refers, WalRecord
  <2>2. st2 = PutRow(st, r.cid, r.id, r.rec)
    BY <1>3 DEF Apply, ApplyUpsert
  <2>3. st2.manifest.nextCid = st.manifest.nextCid
    BY <1>0, <2>2 DEF PutRow, StoreState
  <2>4. NewValue(r, Read(st, r.cid, r.id)) = r.rec
    BY <1>3 DEF NewValue
  <2> HIDE DEF st2
  <2>5. /\ Applied(st, st2) /\ SameCols(st, st2) /\ SameCatalog(st, st2)
        /\ OneWritten(st, st2, r.cid, r.id, r.rec)
    BY <2>1, <2>2, PutRowApplied
  <2>6. Does(st, r, st2) /\ DoesNames(st, r, st2)
    BY <1>3, <2>3, <2>4, <2>5, WriteDoes
  <2> QED BY <2>6 DEF st2
<1>4. CASE r.op = "delete"
  <2>1. r.cid \in DOMAIN st.cols /\ r.id \in Id
    BY <1>4 DEF Known, Refers, WalRecord
  <2>3. st2.manifest.nextCid = st.manifest.nextCid
    BY <1>0, <1>4 DEF Apply, ApplyDelete, StoreState
  <2>4. NewValue(r, Read(st, r.cid, r.id)) = NoRecord
    BY <1>4 DEF NewValue
  <2>5. /\ Applied(st, st2) /\ SameCols(st, st2) /\ SameCatalog(st, st2)
        /\ OneWritten(st, st2, r.cid, r.id, NoRecord)
    BY <1>4, <2>1, DeleteApplied
  <2> HIDE DEF st2
  <2>6. Does(st, r, st2) /\ DoesNames(st, r, st2)
    BY <1>4, <2>3, <2>4, <2>5, WriteDoes
  <2> QED BY <2>6 DEF st2
<1>5. CASE r.op = "updateMeta"
  <2>1. r.cid \in DOMAIN st.cols
    BY <1>5 DEF Known, Refers
  <2>3. st2.manifest.nextCid = st.manifest.nextCid
    BY <1>0, <1>5 DEF Apply, ApplyUpdateMeta, PutRow, StoreState
  <2>5. /\ Applied(st, st2) /\ SameCols(st, st2) /\ SameCatalog(st, st2)
        /\ OneWritten(st, st2, r.cid, r.id, NewValue(r, Read(st, r.cid, r.id)))
    BY <1>5, <2>1, UpdateMetaApplied
  <2> HIDE DEF st2
  <2>6. Does(st, r, st2) /\ DoesNames(st, r, st2)
    BY <1>5, <2>3, <2>5, WriteDoes
  <2> QED BY <2>6 DEF st2
<1>6. CASE r.op = "rename"
  BY <1>6, RenameDoes DEF Known, Refers
<1>7. CASE r.op = "swap"
  BY <1>7, SwapDoes DEF Known, Refers
<1> QED BY <1>1, <1>2, <1>3, <1>4, <1>5, <1>6, <1>7 DEF WalRecord

----------------------------------------------------------------------------
(* rotate, and the pending generation *)

LEMMA WaitingIs == NoPending \notin Waiting
<1>1. ASSUME NEW w \in Waiting PROVE w \in Generation
  <2>1. w.walSeq \in Nat /\ w.memtables \in Maps(Cid, GoodLayer)
    BY DEF Waiting
  <2>2. w.memtables \in [DOMAIN w.memtables -> Layer] /\ DOMAIN w.memtables \in SUBSET Cid
    BY <2>1, MapsIs DEF GoodLayer
  <2>3. w.memtables \in UNION {[S -> Layer] : S \in SUBSET Cid}
    BY <2>2
  <2> QED BY <2>1, <2>3 DEF Waiting, Generation
<1> QED BY <1>1, NoPendingAssumption

\* What is found behind the active memtable
Behind(st, c, id) ==
    IF Waits(st, c) /\ Mentions(st.pending.memtables[c], id)
    THEN ValueIn(st.pending.memtables[c], id)
    ELSE Lookup(SegLayers(st.cols[c].segments), id)

LEMMA ReadIs ==
    ASSUME NEW st \in StoreState, NEW c \in DOMAIN st.cols, NEW id \in Id
    PROVE  Read(st, c, id) = IF Mentions(st.cols[c].memtable, id)
                             THEN ValueIn(st.cols[c].memtable, id) ELSE Behind(st, c, id)
BY LookupLayers DEF Read, Behind

\* The memtables wait under the log they are in.
RotatedFrom(st, st2) ==
    /\ st.pending = NoPending /\ st2.pending # NoPending
    /\ st2.pending.walSeq = st.wal /\ st2.wal = st.wal + 1
    /\ DOMAIN st2.pending.memtables \subseteq DOMAIN st.cols

LEMMA RotatedGood ==
    ASSUME NEW st, Good(st), CanRotate(st)
    PROVE  /\ Good(Rotated(st)) /\ Rotated(st).manifest = st.manifest
           /\ SameCols(st, Rotated(st)) /\ RotatedFrom(st, Rotated(st))
           /\ SameCatalog(st, Rotated(st))
           /\ \A c \in DOMAIN st.cols, id \in Id :
                 /\ Read(Rotated(st), c, id) = Read(st, c, id)
                 /\ Behind(Rotated(st), c, id) = Read(st, c, id)
<1> DEFINE cols == [c \in DOMAIN st.cols |-> [st.cols[c] EXCEPT !.memtable = EmptyLayer]]
           full == {d \in DOMAIN st.cols : ~IsEmpty(st.cols[d].memtable)}
           mts == [c \in full |-> st.cols[c].memtable]
           pend == [walSeq |-> st.wal, memtables |-> mts]
           st2 == Rotated(st)
<1>1. /\ st \in StoreState /\ st.pending = NoPending /\ st.wal \in Nat
      /\ st.cols \in Maps(Cid, Col) /\ st.manifest \in Manifest
  BY GoodIs, StateIs DEF CanRotate
<1>2. st2 = [st EXCEPT !.cols = cols, !.pending = pend, !.wal = st.wal + 1]
  BY <1>1 DEF Rotated, StoreState
<1>3. ASSUME NEW c \in DOMAIN st.cols
      PROVE  /\ c \in Cid /\ st.cols[c] \in Col /\ st.cols[c].memtable \in GoodLayer
             /\ cols[c] \in Col /\ cols[c].memtable = EmptyLayer
             /\ cols[c].segments = st.cols[c].segments /\ cols[c].liveLen = st.cols[c].liveLen
             /\ cols[c].name = st.cols[c].name
  <2>1. c \in Cid /\ st.cols[c] \in Col
    BY <1>1, MapAt
  <2>2. EmptyLayer \in GoodLayer
    BY LayerTypes DEF GoodLayer
  <2>3. cols[c] = [st.cols[c] EXCEPT !.memtable = EmptyLayer]
    OBVIOUS
  <2> QED BY <2>1, <2>2, <2>3 DEF Col
<1>4. mts \in Maps(Cid, GoodLayer)
  <2>1. full \subseteq Cid /\ mts \in [full -> GoodLayer]
    BY <1>3
  <2> HIDE DEF mts, full
  <2> QED BY <2>1, MapsIs
<1>5. pend \in Waiting /\ pend # NoPending
  <2>1. pend \in Waiting
    BY <1>1, <1>4 DEF Waiting
  <2> QED BY <2>1, WaitingIs
<1>6. cols \in Maps(Cid, Col) /\ DOMAIN cols = DOMAIN st.cols
  <2>1. DOMAIN st.cols \subseteq Cid /\ cols \in [DOMAIN st.cols -> Col]
    BY <1>3
  <2> HIDE DEF cols
  <2> QED BY <2>1, MapsIs
<1>13. st.wal + 1 \in Nat
  BY <1>1
<1> HIDE DEF cols, pend
<1>7. /\ st2.cols = cols /\ st2.pending = pend /\ st2.wal = st.wal + 1
      /\ st2.manifest = st.manifest /\ st2.names = st.names
  BY <1>1, <1>2 DEF StoreState
<1>8. st2 \in StoreState
  BY <1>1, <1>2, <1>5, <1>6, <1>13 DEF StoreState
<1> HIDE DEF st2
<1>14. pend.walSeq = st.wal /\ pend.memtables = mts
  BY DEF pend
<1>15. ASSUME NEW c \in DOMAIN st.cols, NEW id \in Id
       PROVE  Behind(st2, c, id) = Read(st, c, id) /\ Read(st2, c, id) = Read(st, c, id)
  <2>1. ~Waits(st, c)
    BY <1>1 DEF Waits
  <2>2. Read(st, c, id) =
            IF Mentions(st.cols[c].memtable, id) THEN ValueIn(st.cols[c].memtable, id)
            ELSE Lookup(SegLayers(st.cols[c].segments), id)
    BY <1>1, <2>1, ReadIs DEF Behind
  <2>3. /\ c \in DOMAIN st2.cols
        /\ st2.cols[c].memtable = EmptyLayer /\ ~Mentions(st2.cols[c].memtable, id)
        /\ st2.cols[c].segments = st.cols[c].segments
    BY <1>3, <1>6, <1>7, LayerTypes
  <2>4. Read(st2, c, id) = Behind(st2, c, id)
    BY <1>8, <2>3, ReadIs
  <2>5. CASE c \in full
    <3>1. Waits(st2, c) /\ st2.pending.memtables[c] = st.cols[c].memtable
      BY <1>5, <1>7, <1>14, <2>5 DEF Waits
    <3> QED BY <2>2, <2>3, <2>4, <3>1 DEF Behind
  <2>6. CASE c \notin full
    <3>1. ~Waits(st2, c)
      BY <1>7, <1>14, <2>6 DEF Waits
    <3>2. ~Mentions(st.cols[c].memtable, id)
      BY <2>6, LayerTypes DEF IsEmpty
    <3> QED BY <2>2, <2>3, <2>4, <3>1, <3>2 DEF Behind
  <2> QED BY <2>5, <2>6
<1>9. ASSUME NEW c \in DOMAIN st2.cols PROVE GoodCol(st2, c)
  <2>1. c \in DOMAIN st.cols /\ GoodCol(st, c)
    BY <1>6, <1>7, GoodIs
  <2>3. LiveCount(Layers(st2, c)) = LiveCount(Layers(st, c))
    <3>1. {id \in Id : IsIdLive(Layers(st2, c), id)} = {id \in Id : IsIdLive(Layers(st, c), id)}
      BY <1>15, <2>1 DEF IsIdLive, Read
    <3> QED BY <3>1 DEF LiveCount
  <2> QED BY <1>3, <1>7, <2>1, <2>3 DEF GoodCol
<1>10. SameCols(st, st2)
  BY <1>3, <1>6, <1>7 DEF SameCols, OldSegments
<1>11. RotatedFrom(st, st2)
  BY <1>1, <1>5, <1>7, <1>14 DEF RotatedFrom
<1>12. Below(DOMAIN st2.pending.memtables, st2.manifest.nextCid)
  <2>1. \A c \in full : c < st.manifest.nextCid
    BY GoodIs DEF GoodCol
  <2> QED BY <1>7, <1>14, <2>1 DEF Below
<1>16. SameCatalog(st, st2)
  BY <1>3, <1>7 DEF SameCatalog
<1>17. Good(st2)
  BY <1>7, <1>8, <1>9, <1>12 DEF Good
<1> QED BY <1>7, <1>10, <1>11, <1>15, <1>16, <1>17 DEF st2

\* A dropped collection leaves the pending generation.
LEMMA NotWaitingGood ==
    ASSUME NEW st, Good(st), NEW c, c \notin DOMAIN st.cols
    PROVE  /\ Good(NotWaiting(st, c)) /\ NotWaiting(st, c).wal = st.wal
           /\ NotWaiting(st, c).manifest = st.manifest /\ NotWaiting(st, c).cols = st.cols
           /\ NotWaiting(st, c).pending = NoPending <=> st.pending = NoPending
           /\ st.pending # NoPending =>
                /\ NotWaiting(st, c).pending.walSeq = st.pending.walSeq
                /\ NotWaiting(st, c).pending.memtables = Without(st.pending.memtables, c)
           /\ NotWaiting(st, c).names = st.names
           /\ \A d \in DOMAIN st.cols : SameLayers(st, NotWaiting(st, c), d)
<1> DEFINE st2 == NotWaiting(st, c)
<1>1. st \in StoreState
  BY GoodIs
<1>2. CASE st.pending = NoPending
  <2>1. st2 = st
    BY <1>1, <1>2 DEF NotWaiting, StoreState
  <2> QED BY <1>2, <2>1 DEF SameLayers, Waits
<1>3. CASE st.pending # NoPending
  <2> DEFINE left == Without(st.pending.memtables, c)
             pend == [st.pending EXCEPT !.memtables = left]
  <2>1. st.pending \in Waiting
    BY <1>1, <1>3, StateIs
  <2>2. left \in Maps(Cid, GoodLayer)
    <3>1. st.pending.memtables \in Maps(Cid, GoodLayer)
      BY <2>1 DEF Waiting
    <3> QED BY <3>1, WithoutType
  <2>3. /\ DOMAIN left = DOMAIN st.pending.memtables \ {c}
        /\ \A d \in DOMAIN left : left[d] = st.pending.memtables[d]
    BY DEF Without
  <2> HIDE DEF left
  <2>4. /\ pend \in Waiting /\ pend.walSeq = st.pending.walSeq /\ pend.memtables = left
    BY <2>1, <2>2 DEF Waiting
  <2>5. pend # NoPending
    BY <2>4, WaitingIs
  <2>6. st2 = [st EXCEPT !.pending = pend]
    BY <1>1, <1>3, <2>1 DEF NotWaiting, StoreState, Waiting, left
  <2> HIDE DEF pend
  <2>7. /\ st2.pending = pend /\ st2.wal = st.wal /\ st2.cols = st.cols
        /\ st2.manifest = st.manifest /\ st2.names = st.names
    BY <1>1, <2>6 DEF StoreState
  <2>8. st2 \in StoreState
    BY <1>1, <2>4, <2>6 DEF StoreState
  <2> HIDE DEF st2
  <2>9. SameManifest(st, st2)
    BY <1>1, <2>7, StateIs DEF SameManifest, Manifest
  <2>10. ASSUME NEW d \in DOMAIN st2.cols PROVE GoodCol(st2, d)
    <3>1. d \in DOMAIN st.cols /\ GoodCol(st, d) /\ d # c
      BY <2>7, GoodIs
    <3>2. Waits(st2, d) <=> Waits(st, d)
      BY <1>3, <2>3, <2>4, <2>5, <2>7, <3>1 DEF Waits
    <3>3. Waits(st, d) => st2.pending.memtables[d] = st.pending.memtables[d]
      BY <2>3, <2>4, <2>7, <3>1 DEF Waits
    <3> QED BY <1>1, <2>7, <2>8, <2>9, <3>1, <3>2, <3>3, GoodColKept
  <2>13. ASSUME NEW d \in DOMAIN st.cols PROVE SameLayers(st, st2, d)
    <3>1. d # c
      OBVIOUS
    <3>2. Waits(st2, d) <=> Waits(st, d)
      BY <1>3, <2>3, <2>4, <2>5, <2>7, <3>1 DEF Waits
    <3>3. Waits(st, d) => st2.pending.memtables[d] = st.pending.memtables[d]
      BY <2>3, <2>4, <2>7, <3>1 DEF Waits
    <3> QED BY <2>7, <3>2, <3>3 DEF SameLayers
  <2>11. Below(DOMAIN st2.pending.memtables, st2.manifest.nextCid)
    BY <1>3, <2>3, <2>4, <2>7 DEF Good, Below
  <2>12. Good(st2)
    BY <2>7, <2>8, <2>10, <2>11 DEF Good
  <2> QED BY <1>3, <2>4, <2>5, <2>7, <2>12, <2>13 DEF st2, left
<1> QED BY <1>2, <1>3

----------------------------------------------------------------------------
(* Segment lists *)

LEMMA BackwardsIs ==
    ASSUME NEW S, NEW s \in Seq(S)
    PROVE  /\ Backwards(s) \in Seq(S) /\ Len(Backwards(s)) = Len(s)
           /\ \A i \in 1..Len(s) : Backwards(s)[i] = s[Len(s) - i + 1] /\ Len(s) - i + 1 \in 1..Len(s)
           /\ Backwards(Backwards(s)) = s
<1>1. Len(s) \in Nat /\ \A i \in 1..Len(s) : s[i] \in S /\ Len(s) - i + 1 \in 1..Len(s)
  OBVIOUS
<1>2. Backwards(s) \in [1..Len(s) -> S]
  BY <1>1 DEF Backwards
<1>3. Backwards(s) \in Seq(S) /\ Len(Backwards(s)) = Len(s)
  BY <1>1, <1>2
<1>4. \A i \in 1..Len(s) : Backwards(s)[i] = s[Len(s) - i + 1]
  BY DEF Backwards
<1> DEFINE b == Backwards(s)
           bb == Backwards(b)
<1>5. bb = [i \in 1..Len(s) |-> b[Len(s) - i + 1]]
  BY <1>3 DEF Backwards
<1>6. ASSUME NEW i \in 1..Len(s) PROVE bb[i] = s[i]
  <2>1. bb[i] = b[Len(s) - i + 1]
    BY <1>5
  <2>2. b[Len(s) - i + 1] = s[Len(s) - (Len(s) - i + 1) + 1]
    BY <1>1, <1>4
  <2>3. Len(s) - (Len(s) - i + 1) + 1 = i
    BY <1>1
  <2> QED BY <2>1, <2>2, <2>3
<1>7. bb = s
  <2>1. s = [i \in 1..Len(s) |-> s[i]]
    OBVIOUS
  <2>2. bb = [i \in 1..Len(s) |-> bb[i]]
    BY <1>5
  <2> HIDE DEF bb
  <2> QED BY <1>6, <2>1, <2>2
<1> QED BY <1>1, <1>3, <1>4, <1>7

\* The reversed list has the same entries.
LEMMA BackwardsEntries ==
    ASSUME NEW S, NEW s \in Seq(S)
    PROVE  /\ \A i \in DOMAIN Backwards(s) : \E j \in DOMAIN s : Backwards(s)[i] = s[j]
           /\ \A j \in DOMAIN s : \E i \in DOMAIN Backwards(s) : Backwards(s)[i] = s[j]
<1>1. /\ DOMAIN Backwards(s) = 1..Len(s) /\ DOMAIN s = 1..Len(s) /\ Len(s) \in Nat
      /\ \A i \in 1..Len(s) : Backwards(s)[i] = s[Len(s) - i + 1] /\ Len(s) - i + 1 \in 1..Len(s)
  BY BackwardsIs
<1>2. ASSUME NEW j \in DOMAIN s
      PROVE  \E i \in DOMAIN Backwards(s) : Backwards(s)[i] = s[j]
  <2>1. Len(s) - j + 1 \in 1..Len(s) /\ Len(s) - (Len(s) - j + 1) + 1 = j
    BY <1>1
  <2> QED BY <1>1, <2>1
<1> QED BY <1>1, <1>2

LEMMA GoodIdsBackwards ==
    ASSUME NEW s \in Seq(Nat), NEW n, GoodIds(s, n)
    PROVE  GoodIds(Backwards(s), n)
<1>1. /\ DOMAIN Backwards(s) = 1..Len(s) /\ DOMAIN s = 1..Len(s) /\ Len(s) \in Nat
      /\ \A i \in 1..Len(s) : Backwards(s)[i] = s[Len(s) - i + 1] /\ Len(s) - i + 1 \in 1..Len(s)
  BY BackwardsIs
<1>2. ASSUME NEW i \in 1..Len(s), NEW j \in 1..Len(s), Backwards(s)[i] = Backwards(s)[j]
      PROVE  i = j
  <2>1. Len(s) - i + 1 = Len(s) - j + 1
    BY <1>1, <1>2 DEF GoodIds, Distinct
  <2> QED BY <1>1, <2>1
<1> QED BY <1>1, <1>2 DEF GoodIds, Distinct

\* A new segment in front: the list ends with it.
LEMMA InFrontIds ==
    ASSUME NEW segs \in Seq(Segment), NEW seg \in Segment
    PROVE  /\ <<seg>> \o segs \in Seq(Segment)
           /\ SegIds(<<seg>> \o segs) = <<seg.id>> \o SegIds(segs)
           /\ SegLayers(<<seg>> \o segs) = <<seg.layer>> \o SegLayers(segs)
           /\ Backwards(SegIds(segs)) \o <<seg.id>> = Backwards(SegIds(<<seg>> \o segs))
           /\ \A i \in DOMAIN (<<seg>> \o segs) :
                 \/ (<<seg>> \o segs)[i] = seg
                 \/ \E j \in DOMAIN segs : (<<seg>> \o segs)[i] = segs[j]
<1> DEFINE all == <<seg>> \o segs
           n == Len(segs)
           ids == SegIds(segs)
<1>1. /\ all \in Seq(Segment) /\ Len(all) = n + 1 /\ all[1] = seg /\ n \in Nat
      /\ \A i \in 1..n : all[i + 1] = segs[i]
      /\ DOMAIN all = 1..(n + 1) /\ DOMAIN segs = 1..n
      /\ \A i \in 1..(n + 1) : i # 1 => all[i] = segs[i - 1] /\ i - 1 \in 1..n
  OBVIOUS
<1>2. /\ ids \in Seq(Nat) /\ Len(ids) = n /\ \A i \in 1..n : ids[i] = segs[i].id
      /\ SegLayers(segs) \in Seq(Layer) /\ Len(SegLayers(segs)) = n
      /\ \A i \in 1..n : SegLayers(segs)[i] = segs[i].layer
  BY SegmentsAre
<1>3. seg.id \in Nat /\ seg.layer \in Layer
  BY DEF Segment, GoodLayer
<1> HIDE DEF all, ids, n
<1>4. /\ SegIds(all) = [i \in 1..(n + 1) |-> all[i].id]
      /\ SegLayers(all) = [i \in 1..(n + 1) |-> all[i].layer]
  BY <1>1 DEF SegIds, SegLayers
<1>5. SegIds(all) = <<seg.id>> \o ids
  <2> DEFINE new == <<seg.id>> \o ids
  <2>1. /\ new \in Seq(Nat) /\ Len(new) = n + 1 /\ new[1] = seg.id
        /\ \A i \in 1..(n + 1) : i # 1 => new[i] = ids[i - 1]
    BY <1>1, <1>2, <1>3
  <2>2. new = [i \in 1..(n + 1) |-> new[i]]
    BY <2>1
  <2> HIDE DEF new
  <2>3. ASSUME NEW i \in 1..(n + 1) PROVE all[i].id = new[i]
    <3>1. CASE i = 1
      BY <1>1, <2>1, <3>1
    <3>2. CASE i # 1
      <4>1. all[i] = segs[i - 1] /\ i - 1 \in 1..n /\ new[i] = ids[i - 1]
        BY <1>1, <2>1, <3>2
      <4> QED BY <1>2, <4>1
    <3> QED BY <3>1, <3>2
  <2> QED BY <1>4, <2>2, <2>3 DEF new
<1>6. SegLayers(all) = <<seg.layer>> \o SegLayers(segs)
  <2> DEFINE new == <<seg.layer>> \o SegLayers(segs)
  <2>1. /\ new \in Seq(Layer) /\ Len(new) = n + 1 /\ new[1] = seg.layer
        /\ \A i \in 1..(n + 1) : i # 1 => new[i] = SegLayers(segs)[i - 1]
    BY <1>1, <1>2, <1>3
  <2>2. new = [i \in 1..(n + 1) |-> new[i]]
    BY <2>1
  <2> HIDE DEF new
  <2>3. ASSUME NEW i \in 1..(n + 1) PROVE all[i].layer = new[i]
    <3>1. CASE i = 1
      BY <1>1, <2>1, <3>1
    <3>2. CASE i # 1
      <4>1. all[i] = segs[i - 1] /\ i - 1 \in 1..n /\ new[i] = SegLayers(segs)[i - 1]
        BY <1>1, <2>1, <3>2
      <4> QED BY <1>2, <4>1
    <3> QED BY <3>1, <3>2
  <2> QED BY <1>4, <2>2, <2>3 DEF new
<1>7. Backwards(ids) \o <<seg.id>> = Backwards(SegIds(all))
  <2> DEFINE new == Backwards(ids) \o <<seg.id>>
             old == SegIds(all)
             back == Backwards(old)
  <2>1. /\ Backwards(ids) \in Seq(Nat) /\ Len(Backwards(ids)) = n
        /\ \A i \in 1..n : Backwards(ids)[i] = ids[n - i + 1] /\ n - i + 1 \in 1..n
    <3>1. /\ Backwards(ids) \in Seq(Nat) /\ Len(Backwards(ids)) = Len(ids)
          /\ \A i \in 1..Len(ids) : Backwards(ids)[i] = ids[Len(ids) - i + 1]
                                    /\ Len(ids) - i + 1 \in 1..Len(ids)
      BY <1>2, BackwardsIs
    <3> QED BY <1>2, <3>1
  <2>2. /\ new \in Seq(Nat) /\ Len(new) = n + 1 /\ new[n + 1] = seg.id
        /\ \A i \in 1..n : new[i] = Backwards(ids)[i]
    BY <1>1, <1>3, <2>1
  <2>3. /\ old \in Seq(Nat) /\ Len(old) = n + 1 /\ old[1] = seg.id
        /\ \A i \in 1..(n + 1) : i # 1 => old[i] = ids[i - 1]
    BY <1>1, <1>2, <1>3, <1>5
  <2> HIDE DEF new, old
  <2>4. /\ back \in Seq(Nat) /\ Len(back) = n + 1
        /\ \A i \in 1..(n + 1) : back[i] = old[n + 1 - i + 1]
    <3>1. /\ back \in Seq(Nat) /\ Len(back) = Len(old)
          /\ \A i \in 1..Len(old) : back[i] = old[Len(old) - i + 1]
                                    /\ Len(old) - i + 1 \in 1..Len(old)
      <4>1. old \in Seq(Nat)
        BY <2>3
      <4> QED BY SMTT(30), <4>1, BackwardsIs
    <3> QED BY SMTT(30), <1>1, <2>3, <3>1
  <2> HIDE DEF back
  <2>5. ASSUME NEW i \in 1..(n + 1) PROVE new[i] = back[i]
    <3>1. CASE i = n + 1
      <4>1. n + 1 - i + 1 = 1
        BY <1>1, <3>1
      <4> QED BY <2>2, <2>3, <2>4, <3>1, <4>1
    <3>2. CASE i # n + 1
      <4>1. i \in 1..n /\ n + 1 - i + 1 \in 1..(n + 1) /\ n + 1 - i + 1 # 1
           /\ (n + 1 - i + 1) - 1 = n - i + 1
        BY <1>1, <3>2
      <4>2. new[i] = ids[n - i + 1]
        BY <2>1, <2>2, <4>1
      <4>3. back[i] = ids[n - i + 1]
        BY <2>3, <2>4, <4>1
      <4> QED BY <4>2, <4>3
    <3> QED BY <3>1, <3>2
  <2>6. new = [i \in 1..(n + 1) |-> new[i]] /\ back = [i \in 1..(n + 1) |-> back[i]]
    BY <2>2, <2>4
  <2> QED BY <2>5, <2>6 DEF new, old, back
<1>8. ASSUME NEW i \in DOMAIN all
      PROVE  all[i] = seg \/ \E j \in DOMAIN segs : all[i] = segs[j]
  BY <1>1
<1> QED BY <1>1, <1>5, <1>6, <1>7, <1>8 DEF all, ids

LEMMA GoodIdsMore ==
    ASSUME NEW s \in Seq(Nat), NEW n \in Nat, NEW m \in Nat, n <= m, GoodIds(s, n)
    PROVE  GoodIds(s, m)
<1>1. \A i \in DOMAIN s : s[i] \in Nat
  OBVIOUS
<1> QED BY <1>1 DEF GoodIds

LEMMA GoodIdsInFront ==
    ASSUME NEW s \in Seq(Nat), NEW id \in Nat, NEW n \in Nat, NEW m \in Nat, GoodIds(s, n),
           n <= id, id < m
    PROVE  GoodIds(<<id>> \o s, m)
<1> DEFINE all == <<id>> \o s
<1>1. /\ all \in Seq(Nat) /\ Len(all) = Len(s) + 1 /\ Len(s) \in Nat /\ all[1] = id
      /\ \A i \in 1..(Len(s) + 1) : i # 1 => all[i] = s[i - 1] /\ i - 1 \in 1..Len(s)
      /\ DOMAIN all = 1..(Len(s) + 1)
  OBVIOUS
<1>2. \A i \in 1..Len(s) : s[i] \in Nat /\ s[i] < n /\ i \in DOMAIN s
  BY DEF GoodIds
<1> HIDE DEF all
<1>3. ASSUME NEW i \in DOMAIN all
      PROVE  /\ i = 1 => all[i] = id
             /\ i # 1 => all[i] = s[i - 1] /\ i - 1 \in DOMAIN s /\ all[i] \in Nat /\ all[i] < n
  <2>1. CASE i = 1
    BY <1>1, <2>1
  <2>2. CASE i # 1
    <3>1. all[i] = s[i - 1] /\ i - 1 \in 1..Len(s)
      BY <1>1, <2>2
    <3> QED BY <1>2, <2>2, <3>1
  <2> QED BY <2>1, <2>2
<1>5. \A i \in DOMAIN all : all[i] < m
  BY <1>3
<1>4. ASSUME NEW i \in DOMAIN all, NEW j \in DOMAIN all, all[i] = all[j] PROVE i = j
  <2>1. CASE i = 1 \/ j = 1
    BY <1>3, <1>4, <2>1
  <2>2. CASE i # 1 /\ j # 1
    <3>1. /\ s[i - 1] = s[j - 1] /\ i - 1 \in DOMAIN s /\ j - 1 \in DOMAIN s
      BY <1>3, <1>4, <2>2
    <3>2. i - 1 = j - 1
      BY <3>1 DEF GoodIds, Distinct
    <3> QED BY <1>1, <3>2
  <2> QED BY <2>1, <2>2
<1> QED BY <1>4, <1>5 DEF GoodIds, Distinct, all

\* The segments behind the first n
OlderIs(segs, n, next, older) ==
    /\ older \in Seq(Segment)
    /\ GoodIds(SegIds(older), next)
    /\ segs = SubSeq(segs, 1, n) \o older
    /\ n = Len(segs) => older = <<>>
    /\ \A i \in DOMAIN older : /\ \E j \in DOMAIN segs : older[i] = segs[j]
                               /\ \A k \in 1..n : segs[k].id # older[i].id

LEMMA OlderAre ==
    ASSUME NEW segs \in Seq(Segment), NEW n \in Nat, n <= Len(segs), NEW next,
           GoodIds(SegIds(segs), next)
    PROVE  OlderIs(segs, n, next, SubSeq(segs, n + 1, Len(segs)))
<1> DEFINE older == SubSeq(segs, n + 1, Len(segs))
           m == Len(segs) - n
<1>1. /\ older \in Seq(Segment) /\ Len(older) = m /\ m \in Nat /\ Len(segs) \in Nat
      /\ \A i \in 1..m : older[i] = segs[n + i] /\ n + i \in 1..Len(segs)
      /\ DOMAIN older = 1..m
  OBVIOUS
<1>2. segs = SubSeq(segs, 1, n) \o older
  <2> DEFINE first == SubSeq(segs, 1, n)
             all == first \o older
  <2>1. first \in Seq(Segment) /\ Len(first) = n /\ \A i \in 1..n : first[i] = segs[i]
    OBVIOUS
  <2> HIDE DEF older, first
  <2>2. /\ all \in Seq(Segment) /\ Len(all) = Len(segs)
        /\ \A i \in 1..Len(segs) : all[i] = IF i <= n THEN first[i] ELSE older[i - n]
    BY <1>1, <2>1
  <2> HIDE DEF all
  <2>3. ASSUME NEW i \in 1..Len(segs) PROVE all[i] = segs[i]
    <3>1. CASE i <= n
      BY <2>1, <2>2, <3>1
    <3>2. CASE n < i
      <4>1. i - n \in 1..m /\ n + (i - n) = i
        BY <1>1, <3>2
      <4>2. older[i - n] = segs[n + (i - n)]
        BY <1>1, <4>1
      <4>3. all[i] = older[i - n]
        BY <2>2, <3>2
      <4> QED BY <4>1, <4>2, <4>3
    <3>3. i <= n \/ n < i
      BY <1>1
    <3> QED BY <3>1, <3>2, <3>3
  <2>4. all = segs
    BY <2>2, <2>3
  <2> QED BY <2>4 DEF all, first
<1>3. n = Len(segs) => older = <<>>
  OBVIOUS
<1> HIDE DEF older
<1>4. /\ Len(SegIds(segs)) = Len(segs) /\ DOMAIN SegIds(segs) = 1..Len(segs)
      /\ \A i \in 1..Len(segs) : SegIds(segs)[i] = segs[i].id
  BY SegmentsAre
<1>5. DOMAIN SegIds(older) = 1..m /\ \A i \in 1..m : SegIds(older)[i] = older[i].id
  <2>1. /\ DOMAIN SegIds(older) = 1..Len(older)
        /\ \A i \in 1..Len(older) : SegIds(older)[i] = older[i].id
    BY DEF SegIds
  <2> QED BY <1>1, <2>1
<1>6. \A i, j \in 1..Len(segs) : segs[i].id = segs[j].id => i = j
  BY <1>4 DEF GoodIds, Distinct
<1>7. ASSUME NEW i \in 1..m
      PROVE  /\ SegIds(older)[i] < next /\ \E j \in DOMAIN segs : older[i] = segs[j]
             /\ \A k \in 1..n : segs[k].id # older[i].id
  <2>1. older[i] = segs[n + i] /\ n + i \in 1..Len(segs)
    BY <1>1
  <2>2. SegIds(segs)[n + i] < next
    BY <1>4, <2>1 DEF GoodIds
  <2>3. \A k \in 1..n : k \in 1..Len(segs) /\ k # n + i
    BY <1>1
  <2> QED BY <1>4, <1>5, <1>6, <2>1, <2>2, <2>3
<1>8. ASSUME NEW i \in 1..m, NEW j \in 1..m, SegIds(older)[i] = SegIds(older)[j]
      PROVE  i = j
  <2>1. n + i = n + j
    BY <1>1, <1>5, <1>6, <1>8
  <2> QED BY <1>1, <2>1
<1>9. GoodIds(SegIds(older), next)
  BY <1>5, <1>7, <1>8 DEF GoodIds, Distinct
<1> QED BY <1>1, <1>2, <1>3, <1>7, <1>9 DEF older, OlderIs

----------------------------------------------------------------------------
(* Commits: another manifest, other segments, the same answers *)

Committed(st, man, cols, pend) == [st EXCEPT !.manifest = man, !.cols = cols, !.pending = pend]

SameReads(st, st2) ==
    \A c \in DOMAIN st.cols, id \in Id : Lookup(Layers(st2, c), id) = Lookup(Layers(st, c), id)

\* The tables agree but for the segments, which fit the manifest.
FitsManifest(st, man, cols) ==
    /\ DOMAIN cols = DOMAIN st.cols
    /\ \A c \in DOMAIN st.cols :
          /\ cols[c].memtable = st.cols[c].memtable
          /\ cols[c].liveLen = st.cols[c].liveLen
          /\ GoodIds(SegIds(cols[c].segments), man.nextSeg)
          /\ c \notin DOMAIN man.cols => cols[c].segments = <<>>

LEMMA CommittedIs ==
    ASSUME NEW st \in StoreState, NEW man \in Manifest, NEW cols \in Maps(Cid, Col),
           NEW pend \in {st.pending, NoPending}
    PROVE  /\ Committed(st, man, cols, pend) \in StoreState
           /\ Committed(st, man, cols, pend).manifest = man
           /\ Committed(st, man, cols, pend).cols = cols
           /\ Committed(st, man, cols, pend).pending = pend
           /\ Committed(st, man, cols, pend).wal = st.wal
           /\ Committed(st, man, cols, pend).names = st.names
<1>1. pend \in Waiting \cup {NoPending}
  BY StateIs
<1> QED BY <1>1 DEF Committed, StoreState

LEMMA CommittedGood ==
    ASSUME NEW st, Good(st), NEW man \in Manifest, NEW cols \in Maps(Cid, Col),
           NEW pend \in {st.pending, NoPending},
           man.nextCid = st.manifest.nextCid, Below(DOMAIN man.cols, man.nextCid),
           FitsManifest(st, man, cols), SameReads(st, Committed(st, man, cols, pend))
    PROVE  Good(Committed(st, man, cols, pend))
<1> DEFINE st2 == Committed(st, man, cols, pend)
<1>1. st \in StoreState
  BY GoodIs
<1>2. /\ st2 \in StoreState /\ st2.manifest = man /\ st2.cols = cols /\ st2.pending = pend
  BY <1>1, CommittedIs
<1> HIDE DEF st2
<1>3. ASSUME NEW c \in DOMAIN st2.cols PROVE GoodCol(st2, c)
  <2>1. /\ c \in DOMAIN st.cols /\ GoodCol(st, c)
        /\ cols[c].liveLen = st.cols[c].liveLen
        /\ GoodIds(SegIds(cols[c].segments), man.nextSeg)
        /\ c \notin DOMAIN man.cols => cols[c].segments = <<>>
    BY <1>2, GoodIs DEF FitsManifest
  <2>2. \A id \in Id : IsIdLive(Layers(st2, c), id) <=> IsIdLive(Layers(st, c), id)
    BY <2>1 DEF SameReads, IsIdLive, st2
  <2>3. {id \in Id : IsIdLive(Layers(st2, c), id)} = {id \in Id : IsIdLive(Layers(st, c), id)}
    BY <2>2
  <2>4. LiveCount(Layers(st2, c)) = LiveCount(Layers(st, c))
    BY <2>3 DEF LiveCount
  <2> QED BY <1>2, <2>1, <2>4 DEF GoodCol
<1>4. st2.pending # NoPending => Below(DOMAIN st2.pending.memtables, st2.manifest.nextCid)
  BY <1>2 DEF Good
<1> QED BY <1>2, <1>3, <1>4 DEF Good, st2

\* The waiting memtable of c is now its newest segment.
FlushedInto(st, cols, c) ==
    /\ Waits(st, c)
    /\ \E seg \in Segment : /\ seg.layer = st.pending.memtables[c]
                            /\ cols[c].segments = <<seg>> \o st.cols[c].segments

\* A flush changes no answer, whether or not the pending generation is still
\* asked, as long as it is where a collection was not flushed.
LEMMA FlushReads ==
    ASSUME NEW st \in StoreState, NEW man \in Manifest, NEW cols \in Maps(Cid, Col),
           NEW pend \in {st.pending, NoPending}, FitsManifest(st, man, cols),
           \A c \in DOMAIN st.cols :
              \/ FlushedInto(st, cols, c)
              \/ /\ cols[c].segments = st.cols[c].segments
                 /\ Waits(st, c) => pend = st.pending
    PROVE  SameReads(st, Committed(st, man, cols, pend))
<1> DEFINE st2 == Committed(st, man, cols, pend)
<1>1. /\ st2 \in StoreState /\ st2.cols = cols /\ st2.pending = pend
  BY CommittedIs
<1> HIDE DEF st2
<1> SUFFICES ASSUME NEW c \in DOMAIN st.cols, NEW id \in Id
             PROVE  Lookup(Layers(st2, c), id) = Lookup(Layers(st, c), id)
  BY DEF SameReads, st2
<1>2. /\ c \in DOMAIN cols /\ cols[c].memtable = st.cols[c].memtable
      /\ st.cols[c].segments \in Seq(Segment)
  BY ColIs DEF FitsManifest
<1> DEFINE mt == st.cols[c].memtable
           segs == st.cols[c].segments
           old == Lookup(SegLayers(segs), id)
           new == Lookup(SegLayers(cols[c].segments), id)
<1>3. Lookup(Layers(st, c), id) =
              IF Mentions(mt, id) THEN ValueIn(mt, id)
              ELSE IF Waits(st, c) /\ Mentions(st.pending.memtables[c], id)
              THEN ValueIn(st.pending.memtables[c], id)
              ELSE old
  BY LookupLayers
<1>4. Lookup(Layers(st2, c), id) =
              IF Mentions(mt, id) THEN ValueIn(mt, id)
              ELSE IF Waits(st2, c) /\ Mentions(st2.pending.memtables[c], id)
              THEN ValueIn(st2.pending.memtables[c], id)
              ELSE new
  <2>1. Lookup(Layers(st2, c), id) =
              IF Mentions(st2.cols[c].memtable, id) THEN ValueIn(st2.cols[c].memtable, id)
              ELSE IF Waits(st2, c) /\ Mentions(st2.pending.memtables[c], id)
              THEN ValueIn(st2.pending.memtables[c], id)
              ELSE Lookup(SegLayers(st2.cols[c].segments), id)
    BY <1>1, <1>2, LookupLayers
  <2> QED BY <1>1, <1>2, <2>1
<1>5. CASE FlushedInto(st, cols, c)
  <2>1. PICK seg \in Segment : /\ seg.layer = st.pending.memtables[c]
                               /\ cols[c].segments = <<seg>> \o segs
    BY <1>5 DEF FlushedInto
  <2>2. seg.layer \in Layer /\ SegLayers(segs) \in Seq(Layer)
    BY <1>2, SegmentsAre DEF Segment, GoodLayer
  <2>3. SegLayers(<<seg>> \o segs) = <<seg.layer>> \o SegLayers(segs)
    BY <1>2, InFrontIds
  <2>4. new = IF Mentions(seg.layer, id) THEN ValueIn(seg.layer, id) ELSE old
    BY <2>1, <2>2, <2>3, LookupCons
  <2>5. Waits(st, c)
    BY <1>5 DEF FlushedInto
  <2>6. Waits(st2, c) => st2.pending = st.pending
    BY <1>1 DEF Waits
  <2> HIDE DEF mt, segs, old, new
  <2> QED BY <1>3, <1>4, <2>1, <2>4, <2>5, <2>6
<1>6. CASE cols[c].segments = st.cols[c].segments /\ (Waits(st, c) => pend = st.pending)
  <2>1. new = old
    BY <1>6
  <2>2. (Waits(st2, c) <=> Waits(st, c)) /\ (Waits(st, c) => st2.pending = st.pending)
    BY <1>1, <1>6 DEF Waits
  <2> HIDE DEF mt, segs, old, new
  <2> QED BY <1>3, <1>4, <2>1, <2>2
<1> QED BY <1>5, <1>6

\* A change of the segments of one collection that answers the same
LEMMA SegmentReads ==
    ASSUME NEW st \in StoreState, NEW man \in Manifest, NEW cols \in Maps(Cid, Col),
           FitsManifest(st, man, cols),
           \A c \in DOMAIN st.cols, id \in Id :
              Lookup(SegLayers(cols[c].segments), id) = Lookup(SegLayers(st.cols[c].segments), id)
    PROVE  SameReads(st, Committed(st, man, cols, st.pending))
<1> DEFINE st2 == Committed(st, man, cols, st.pending)
<1>1. /\ st2 \in StoreState /\ st2.cols = cols /\ st2.pending = st.pending
  BY CommittedIs
<1> HIDE DEF st2
<1> SUFFICES ASSUME NEW c \in DOMAIN st.cols, NEW id \in Id
             PROVE  Lookup(Layers(st2, c), id) = Lookup(Layers(st, c), id)
  BY DEF SameReads, st2
<1>2. /\ c \in DOMAIN st2.cols /\ st2.cols[c].memtable = st.cols[c].memtable
      /\ Waits(st2, c) <=> Waits(st, c)
      /\ Lookup(SegLayers(st2.cols[c].segments), id) = Lookup(SegLayers(st.cols[c].segments), id)
  BY <1>1 DEF FitsManifest, Waits
<1>3. Lookup(Layers(st, c), id) =
              IF Mentions(st.cols[c].memtable, id) THEN ValueIn(st.cols[c].memtable, id)
              ELSE IF Waits(st, c) /\ Mentions(st.pending.memtables[c], id)
              THEN ValueIn(st.pending.memtables[c], id)
              ELSE Lookup(SegLayers(st.cols[c].segments), id)
  BY LookupLayers
<1>4. Lookup(Layers(st2, c), id) =
              IF Mentions(st2.cols[c].memtable, id) THEN ValueIn(st2.cols[c].memtable, id)
              ELSE IF Waits(st2, c) /\ Mentions(st2.pending.memtables[c], id)
              THEN ValueIn(st2.pending.memtables[c], id)
              ELSE Lookup(SegLayers(st2.cols[c].segments), id)
  BY <1>1, <1>2, LookupLayers
<1> QED BY <1>1, <1>2, <1>3, <1>4

----------------------------------------------------------------------------
(* A compaction: a run of the newest segments gives way to one *)

LEMMA LayersConcat ==
    ASSUME NEW s \in Seq(Segment), NEW t \in Seq(Segment)
    PROVE  SegLayers(s \o t) = SegLayers(s) \o SegLayers(t)
<1> DEFINE m == Len(s)
           n == Len(t)
           all == s \o t
<1>1. /\ m \in Nat /\ n \in Nat /\ all \in Seq(Segment) /\ Len(all) = m + n
      /\ \A i \in 1..m : all[i] = s[i]
      /\ \A i \in 1..(m + n) : i \notin 1..m => all[i] = t[i - m] /\ i - m \in 1..n
  OBVIOUS
<1>2. /\ SegLayers(s) \in Seq(Layer) /\ Len(SegLayers(s)) = m
      /\ \A i \in 1..m : SegLayers(s)[i] = s[i].layer
      /\ SegLayers(t) \in Seq(Layer) /\ Len(SegLayers(t)) = n
      /\ \A i \in 1..n : SegLayers(t)[i] = t[i].layer
  BY SegmentsAre
<1> HIDE DEF m, n, all
<1> DEFINE old == SegLayers(s) \o SegLayers(t)
<1>3. /\ old \in Seq(Layer) /\ Len(old) = m + n
      /\ \A i \in 1..m : old[i] = s[i].layer
      /\ \A i \in 1..(m + n) : i \notin 1..m => old[i] = SegLayers(t)[i - m]
  <2> DEFINE a == SegLayers(s)
             b == SegLayers(t)
  <2>1. a \in Seq(Layer) /\ b \in Seq(Layer) /\ Len(a) = m /\ Len(b) = n
    BY <1>2
  <2>2. \A i \in 1..m : a[i] = s[i].layer
    BY <1>2
  <2> HIDE DEF a, b
  <2>3. a \o b \in Seq(Layer) /\ Len(a \o b) = m + n
    <3>1. a \o b \in Seq(Layer)
      BY <2>1
    <3>2. Len(a \o b) = Len(a) + Len(b)
      BY <2>1
    <3> QED BY <2>1, <3>1, <3>2
  <2>4. /\ \A i \in 1..m : (a \o b)[i] = a[i]
        /\ \A i \in 1..(m + n) : i \notin 1..m => (a \o b)[i] = b[i - m]
    BY <1>1, <2>1
  <2> QED BY <2>2, <2>3, <2>4 DEF a, b
<1>4. SegLayers(all) = [i \in 1..(m + n) |-> all[i].layer]
  BY <1>1 DEF SegLayers
<1> HIDE DEF old
<1>5. old = [i \in 1..(m + n) |-> old[i]]
  BY <1>1, <1>3
<1>6. ASSUME NEW i \in 1..(m + n) PROVE all[i].layer = old[i]
  <2>1. CASE i \in 1..m
    BY <1>1, <1>3, <2>1
  <2>2. CASE i \notin 1..m
    BY <1>1, <1>2, <1>3, <2>2
  <2> QED BY <2>1, <2>2
<1>7. SegLayers(all) = old
  BY <1>4, <1>5, <1>6
<1> QED BY <1>7 DEF all, old

FirstMerged(segs, n) == Merge(SegLayers(SubSeq(segs, 1, n)), n < Len(segs))
NewAlone(layer, id) == IF IsEmpty(layer) THEN <<>> ELSE <<[id |-> id, layer |-> layer]>>
Replaced(segs, n, id) == NewAlone(FirstMerged(segs, n), id) \o SubSeq(segs, n + 1, Len(segs))

\* What the new list of a collection is made of: the merged segment, unless it
\* is empty, and older segments that are not of the run
ReplacedIs(segs, n, id, new) ==
    /\ new \in Seq(Segment) /\ SegIds(new) \in Seq(Nat)
    /\ GoodIds(SegIds(new), id + 1)
    /\ \A x \in Id : Lookup(SegLayers(new), x) = Lookup(SegLayers(segs), x)
    /\ \A i \in DOMAIN new :
          \/ /\ ~IsEmpty(FirstMerged(segs, n))
             /\ new[i] = [id |-> id, layer |-> FirstMerged(segs, n)]
          \/ /\ \E j \in DOMAIN segs : new[i] = segs[j]
             /\ \A k \in 1..n : segs[k].id # new[i].id

LEMMA RunReplaced ==
    ASSUME NEW segs \in Seq(Segment), NEW n \in Nat, n <= Len(segs), NEW id \in Nat,
           GoodIds(SegIds(segs), id)
    PROVE  ReplacedIs(segs, n, id, Replaced(segs, n, id))
<1> DEFINE older == SubSeq(segs, n + 1, Len(segs))
           run == SubSeq(segs, 1, n)
           more == n < Len(segs)
           m == FirstMerged(segs, n)
           seg == [id |-> id, layer |-> m]
           new == Replaced(segs, n, id)
<1>1. /\ older \in Seq(Segment) /\ run \in Seq(Segment)
      /\ GoodIds(SegIds(older), id) /\ segs = run \o older
      /\ n = Len(segs) => older = <<>>
      /\ \A i \in DOMAIN older : /\ \E j \in DOMAIN segs : older[i] = segs[j]
                                 /\ \A k \in 1..n : segs[k].id # older[i].id
  <2>1. OlderIs(segs, n, id, older)
    BY OlderAre
  <2>2. run \in Seq(Segment)
    OBVIOUS
  <2> QED BY <2>1, <2>2 DEF OlderIs
<1>2. Len(segs) \in Nat /\ more \in BOOLEAN /\ (~more => older = <<>>)
  BY <1>1
<1>3. /\ SegLayers(run) \in Seq(Layer) /\ SegLayers(older) \in Seq(Layer)
      /\ \A i \in DOMAIN SegLayers(run) : Exclusive(SegLayers(run)[i])
      /\ SegIds(older) \in Seq(Nat)
  <2> HIDE DEF run, older
  <2>1. /\ SegLayers(run) \in Seq(Layer) /\ Len(SegLayers(run)) = Len(run)
        /\ \A i \in 1..Len(run) : Exclusive(SegLayers(run)[i])
    BY <1>1, SegmentsAre
  <2>2. SegLayers(older) \in Seq(Layer) /\ SegIds(older) \in Seq(Nat)
    BY <1>1, SegmentsAre
  <2>3. DOMAIN SegLayers(run) = 1..Len(run)
    BY <2>1
  <2> QED BY <2>1, <2>2, <2>3
<1>4. m = Merge(SegLayers(run), more) /\ new = NewAlone(m, id) \o older
  BY DEF FirstMerged, Replaced
<1>5. m \in Layer /\ Exclusive(m)
  <2> HIDE DEF m, run, more
  <2> QED BY <1>2, <1>3, <1>4, MergeType
<1>6. seg \in Segment
  BY <1>5 DEF Segment, GoodLayer
<1>7. SegLayers(segs) = SegLayers(run) \o SegLayers(older)
  <2> HIDE DEF run, older
  <2> QED BY <1>1, LayersConcat
<1>8. ~more => SegLayers(older) = <<>>
  BY <1>2, NoSegments
<1>9. ASSUME NEW x \in Id
      PROVE  Lookup((IF IsEmpty(m) THEN <<>> ELSE <<m>>) \o SegLayers(older), x)
               = Lookup(SegLayers(segs), x)
  <2> DEFINE r == SegLayers(run)
             t == SegLayers(older)
  <2> HIDE DEF m, more, r, t
  <2>1. r \in Seq(Layer) /\ t \in Seq(Layer) /\ \A i \in DOMAIN r : Exclusive(r[i])
    BY <1>3 DEF r, t
  <2>2. ~more => t = <<>>
    BY <1>8 DEF t
  <2>3. m = Merge(r, more)
    BY <1>4 DEF r
  <2>4. Lookup((IF IsEmpty(Merge(r, more)) THEN <<>> ELSE <<Merge(r, more)>>) \o t, x) = Lookup(r \o t, x)
    BY <1>2, <2>1, <2>2, MergeKeepsLookup
  <2> QED BY <1>7, <2>3, <2>4 DEF r, t
<1>10. CASE IsEmpty(m)
  <2>1. new = older
    <3> HIDE DEF new, m, older
    <3>1. <<>> \o older = older
      BY <1>1
    <3> QED BY <1>4, <1>10, <3>1 DEF NewAlone
  <2>2. GoodIds(SegIds(older), id + 1)
    <3> DEFINE ids == SegIds(older)
    <3>1. ids \in Seq(Nat) /\ GoodIds(ids, id)
      BY <1>1, <1>3
    <3> HIDE DEF ids
    <3>2. id + 1 \in Nat /\ id <= id + 1
      OBVIOUS
    <3>3. GoodIds(ids, id + 1)
      BY <3>1, <3>2, GoodIdsMore
    <3> QED BY <3>3 DEF ids
  <2>3. <<>> \o SegLayers(older) = SegLayers(older)
    BY <1>3
  <2> HIDE DEF older, new, m
  <2>4. \A x \in Id : Lookup(SegLayers(older), x) = Lookup(SegLayers(segs), x)
    BY <1>9, <1>10, <2>3
  <2>5. ReplacedIs(segs, n, id, older)
    BY <1>1, <1>3, <2>2, <2>4 DEF ReplacedIs
  <2> QED BY <2>1, <2>5 DEF new
<1>11. CASE ~IsEmpty(m)
  <2>1. new = <<seg>> \o older
    BY <1>4, <1>11 DEF NewAlone
  <2>2. /\ new \in Seq(Segment)
        /\ SegIds(new) = <<seg.id>> \o SegIds(older)
        /\ SegLayers(new) = <<seg.layer>> \o SegLayers(older)
        /\ \A i \in DOMAIN new : new[i] = seg \/ \E j \in DOMAIN older : new[i] = older[j]
    <3> HIDE DEF seg, older, new
    <3>1. /\ <<seg>> \o older \in Seq(Segment)
          /\ SegIds(<<seg>> \o older) = <<seg.id>> \o SegIds(older)
          /\ SegLayers(<<seg>> \o older) = <<seg.layer>> \o SegLayers(older)
          /\ \A i \in DOMAIN (<<seg>> \o older) :
                \/ (<<seg>> \o older)[i] = seg
                \/ \E j \in DOMAIN older : (<<seg>> \o older)[i] = older[j]
      BY <1>1, <1>6, InFrontIds
    <3> QED BY <2>1, <3>1
  <2>3. seg.id = id /\ seg.layer = m
    OBVIOUS
  <2>4. GoodIds(<<id>> \o SegIds(older), id + 1)
    BY <1>1, <1>3, GoodIdsInFront
  <2>5. SegIds(new) \in Seq(Nat)
    <3> HIDE DEF new
    <3> QED BY <2>2, SegmentsAre
  <2>6. \A x \in Id : Lookup(SegLayers(new), x) = Lookup(SegLayers(segs), x)
    <3> HIDE DEF new, m, seg, older
    <3> QED BY <1>9, <1>11, <2>2, <2>3
  <2>7. ASSUME NEW i \in DOMAIN new
        PROVE  \/ new[i] = seg
               \/ /\ \E j \in DOMAIN segs : new[i] = segs[j]
                  /\ \A k \in 1..n : segs[k].id # new[i].id
    <3> HIDE DEF new, seg, older
    <3> QED BY <1>1, <2>2
  <2> HIDE DEF new
  <2> QED BY <1>11, <2>2, <2>3, <2>4, <2>5, <2>6, <2>7 DEF ReplacedIs, new
<1> QED BY <1>10, <1>11

----------------------------------------------------------------------------
(* The inductive invariant *)

FlushState ==
    [at : {"flushWrite", "flushStored"}, walSeq : Nat, work : Maps(Cid, Segment),
     done : SUBSET Cid]
CompactState ==
    [at : {"compactWrite", "compactWritten", "compactStored"}, cid : Cid, run : Seq(Segment),
     older : BOOLEAN, id : Nat]

Running == phase \in {"loading", "up"}

TypeOK ==
    /\ manifest \in Manifest
    /\ wals \in Logs
    /\ segFiles \in Maps(Cid \X Nat, GoodLayer)
    /\ phase \in {"down", "loading", "up", "failed"}
    /\ Running => state \in StoreState
    /\ replay \in [seq : Nat, pos : Nat]
    /\ maint \in {Idle, Failed} \cup FlushState \cup CompactState
    /\ failures \in Nat

StateInv == Running => Good(state)

ManifestInv ==
    /\ Below(DOMAIN manifest.cols, manifest.nextCid)
    /\ \A c \in DOMAIN manifest.cols : GoodIds(manifest.cols[c].segs, manifest.nextSeg)

Holds(files, c, seg) == <<c, seg.id>> \in DOMAIN files /\ files[<<c, seg.id>>] = seg.layer

\* The directories of the segments on the lists and in memory are there.
FilesInv ==
    /\ \A c \in DOMAIN manifest.cols : \A i \in DOMAIN manifest.cols[c].segs :
          <<c, manifest.cols[c].segs[i]>> \in DOMAIN segFiles
    /\ Running => \A c \in DOMAIN state.cols : \A i \in DOMAIN state.cols[c].segments :
          Holds(segFiles, c, state.cols[c].segments[i])

\* The manifest in memory is the one on disk, but for the collections created
\* since; between the halves of a commit the one on disk is the next one.
FollowInv ==
    /\ Running /\ LockFree =>
          /\ state.manifest = [manifest EXCEPT !.nextCid = state.manifest.nextCid]
          /\ manifest.nextCid <= state.manifest.nextCid
    /\ phase # "up" => maint = Idle
    /\ maint.at = "flushStored" => manifest = FlushedManifest
    /\ maint.at = "compactStored" => maint.cid \in DOMAIN state.cols /\ manifest = CompactedManifest

\* As long as no commit failed half way, memory has the segments of the lists.
ListInv ==
    phase = "loading" \/ (phase = "up" /\ failures = 0) =>
        \A c \in DOMAIN state.cols \cap DOMAIN state.manifest.cols :
            SegIds(state.cols[c].segments) = Backwards(state.manifest.cols[c].segs)

\* Which logs there are
LogInv ==
    /\ \E n \in Nat : DOMAIN wals \subseteq 0..n
    /\ phase = "up" =>
        /\ manifest.walSeq < state.wal /\ state.wal \in DOMAIN wals
        /\ state.pending # NoPending =>
              /\ manifest.walSeq <= state.pending.walSeq
              /\ state.wal = state.pending.walSeq + 1
              /\ state.pending.walSeq \in DOMAIN wals

\* A log after seq has the record that created collection c.
Creates(logs, s, c) == \E i \in DOMAIN logs[s] : logs[s][i].op = "create" /\ logs[s][i].cid = c
Created(logs, seq, c) == \E s \in DOMAIN logs : s > seq /\ Creates(logs, s, c)

\* A collection has no segment as long as the record that created it is in a
\* log to be replayed: replay, which creates it again, drops nothing.
CreateInv ==
    /\ \A c \in DOMAIN manifest.cols :
          Created(wals, manifest.walSeq, c) => manifest.cols[c].segs = <<>>
    /\ Running => \A c \in DOMAIN state.cols :
          Created(wals, manifest.walSeq, c) => state.cols[c].segments = <<>>
    /\ phase = "up" => \A c \in Cid : ~Created(wals, state.wal, c)
    /\ phase = "up" /\ state.pending # NoPending =>
          \A c \in DOMAIN state.pending.memtables : ~Created(wals, state.pending.walSeq, c)

\* What replay has in front of it
ReplayInv ==
    phase = "loading" =>
        /\ state.pending = NoPending
        /\ replay.seq # 0 =>
              /\ replay.seq \in DOMAIN wals /\ replay.seq > manifest.walSeq
              /\ \A i \in DOMAIN wals[replay.seq] : wals[replay.seq][i] # Torn

\* What the maintenance thread read before it released the lock is still true
\* of the state, and what it wrote is on disk.
FlushInv ==
    maint.at \in {"flushWrite", "flushStored"} =>
        /\ state.pending # NoPending
        /\ maint.walSeq = state.pending.walSeq
        /\ Below(DOMAIN maint.work, state.manifest.nextCid)
        /\ \A c \in DOMAIN state.cols :
              /\ c \in DOMAIN maint.work <=> c \in DOMAIN state.pending.memtables
              /\ c \in DOMAIN maint.work => maint.work[c].layer = state.pending.memtables[c]
        /\ \A c \in DOMAIN maint.work :
              /\ state.manifest.nextSeg <= maint.work[c].id
              /\ maint.work[c].id < state.manifest.nextSeg + Cardinality(DOMAIN maint.work)
              /\ ~Created(wals, maint.walSeq, c)
        /\ maint.done \subseteq DOMAIN maint.work
        /\ \A c \in maint.done : Holds(segFiles, c, maint.work[c])
        /\ maint.at = "flushStored" => maint.done = DOMAIN maint.work

RunIsNewest(segments) ==
    /\ Len(maint.run) <= Len(segments)
    /\ maint.run = SubSeq(segments, 1, Len(maint.run))
    /\ maint.older <=> Len(maint.run) < Len(segments)

CompactInv ==
    maint.at \in {"compactWrite", "compactWritten", "compactStored"} =>
        /\ maint.id = state.manifest.nextSeg
        /\ maint.cid < state.manifest.nextCid
        /\ Len(maint.run) >= 2
        /\ maint.cid \in DOMAIN state.cols => RunIsNewest(state.cols[maint.cid].segments)
        /\ maint.at # "compactWrite" /\ ~IsEmpty(Merged) =>
             Holds(segFiles, maint.cid, [id |-> maint.id, layer |-> Merged])

Inv ==
    /\ TypeOK /\ StateInv /\ ManifestInv /\ FilesInv /\ FollowInv /\ ListInv
    /\ LogInv /\ CreateInv /\ ReplayInv /\ FlushInv /\ CompactInv

----------------------------------------------------------------------------
(* Steps that change memory *)

\* Collections keep their segments, new ones have none; only the number of the
\* next collection moves in the manifest.
Moves(st, st2) ==
    /\ Good(st2) /\ SameManifest(st, st2)
    /\ \A c \in DOMAIN st2.cols :
          \/ OldSegments(st, st2, c)
          \/ st.manifest.nextCid <= c /\ st2.cols[c].segments = <<>>

SamePending(st, st2) ==
    /\ st2.wal = st.wal
    /\ st2.pending = NoPending <=> st.pending = NoPending
    /\ st.pending # NoPending =>
          /\ st2.pending.walSeq = st.pending.walSeq
          /\ DOMAIN st2.pending.memtables \subseteq DOMAIN st.pending.memtables
          /\ \A c \in DOMAIN st2.cols :
                /\ Waits(st2, c) <=> Waits(st, c)
                /\ Waits(st, c) => st2.pending.memtables[c] = st.pending.memtables[c]

NewPending(st, st2) ==
    /\ st.pending = NoPending /\ st2.pending # NoPending
    /\ st2.pending.walSeq = st.wal /\ st2.wal = st.wal + 1

LEMMA StaysMoves ==
    ASSUME NEW st, Good(st)
    PROVE  Moves(st, st) /\ SamePending(st, st)
<1>1. SameManifest(st, st)
  BY GoodIs, StateIs DEF SameManifest, Manifest
<1> QED BY <1>1 DEF Moves, SamePending, OldSegments

\* A record a client writes
ClientRecord(st, r) ==
    /\ r \in WalRecord /\ r.op \notin {"torn", "blank"}
    /\ r.op = "create" => r.cid = st.manifest.nextCid

LEMMA ApplyMoves ==
    ASSUME NEW st, Good(st), NEW r, ClientRecord(st, r), Known(st, r)
    PROVE  Moves(st, Apply(st, r)) /\ SamePending(st, Apply(st, r))
<1>1. r.op = "create" => ~Waits(st, r.cid)
  <2> SUFFICES ASSUME r.op = "create", Waits(st, r.cid) PROVE FALSE
    OBVIOUS
  <2>1. r.cid < st.manifest.nextCid
    BY DEF Good, Below, Waits
  <2>2. st.manifest.nextCid \in Nat
    BY GoodIs, StateIs DEF Manifest
  <2> QED BY <2>1, <2>2 DEF ClientRecord
<1>2. /\ Applied(st, Apply(st, r))
      /\ \A c \in DOMAIN Apply(st, r).cols :
            \/ OldSegments(st, Apply(st, r), c)
            \/ /\ r.op = "create" /\ c = r.cid
               /\ Apply(st, r).cols[c].segments = <<>>
  BY <1>1, RecordApplied DEF ClientRecord
<1>3. SamePending(st, Apply(st, r))
  BY <1>2 DEF Applied, SamePending, Waits
<1>4. st.manifest.nextCid \in Nat
  BY GoodIs, StateIs DEF Manifest
<1> QED BY <1>2, <1>3, <1>4 DEF Moves, Applied, ClientRecord

LEMMA RotateMoves ==
    ASSUME NEW st, Good(st), NEW st2, Moves(st, st2), SamePending(st, st2), CanRotate(st2)
    PROVE  Moves(st, Rotated(st2)) /\ NewPending(st, Rotated(st2))
<1>1. /\ Good(Rotated(st2)) /\ Rotated(st2).manifest = st2.manifest
      /\ SameCols(st2, Rotated(st2)) /\ RotatedFrom(st2, Rotated(st2))
  BY RotatedGood DEF Moves
<1>2. NewPending(st, Rotated(st2))
  BY <1>1 DEF NewPending, RotatedFrom, SamePending
<1>3. SameManifest(st, Rotated(st2))
  BY <1>1 DEF Moves, SameManifest
<1> QED BY <1>1, <1>2, <1>3 DEF Moves, SameCols, OldSegments

\* dropping a collection, also from the pending generation
LEMMA DropMoves ==
    ASSUME NEW st, Good(st), NEW r \in WalRecord, r.op = "drop"
    PROVE  /\ Moves(st, NotWaiting(Apply(st, r), r.cid))
           /\ SamePending(st, NotWaiting(Apply(st, r), r.cid))
<1> DEFINE st1 == Apply(st, r)
           st2 == NotWaiting(st1, r.cid)
<1>1. /\ Applied(st, st1) /\ st1.manifest = st.manifest
      /\ DOMAIN st1.cols = DOMAIN st.cols \ {r.cid}
      /\ \A c \in DOMAIN st.cols : c # r.cid => st1.cols[c] = st.cols[c]
  BY DropApplied
<1> HIDE DEF st1
<1>2. /\ Good(st2) /\ st2.wal = st1.wal /\ st2.manifest = st1.manifest /\ st2.cols = st1.cols
      /\ st2.pending = NoPending <=> st1.pending = NoPending
      /\ st1.pending # NoPending =>
           /\ st2.pending.walSeq = st1.pending.walSeq
           /\ st2.pending.memtables = Without(st1.pending.memtables, r.cid)
  BY <1>1, NotWaitingGood DEF Applied
<1> HIDE DEF st2
<1>3. Moves(st, st2)
  BY <1>1, <1>2 DEF Moves, Applied, SameManifest, OldSegments
<1>4. SamePending(st, st2)
  BY <1>1, <1>2 DEF SamePending, Applied, Waits, Without
<1> QED BY <1>3, <1>4 DEF st1, st2

----------------------------------------------------------------------------
(* The logs *)

\* At most one log is new, and only the active one has new records, which
\* create no collection but the next.
LogsMove(files) ==
    /\ files \in Logs
    /\ DOMAIN wals \subseteq DOMAIN files /\ DOMAIN files \subseteq DOMAIN wals \cup {state.wal + 1}
    /\ \A s \in DOMAIN files, c \in Cid : Creates(files, s, c) =>
          \/ s \in DOMAIN wals /\ Creates(wals, s, c)
          \/ s = state.wal /\ state.manifest.nextCid <= c

LEMMA MovedLogs ==
    ASSUME NEW files, LogsMove(files), NEW seq, NEW c \in Cid, Created(files, seq, c)
    PROVE  Created(wals, seq, c) \/ (seq < state.wal /\ state.manifest.nextCid <= c)
BY DEF LogsMove, Created

LEMMA BoundedLogs ==
    ASSUME NEW S, NEW n \in Nat, S \subseteq 0..n, NEW m \in Nat
    PROVE  \E k \in Nat : S \cup {m} \subseteq 0..k
<1>1. CASE m <= n
  BY <1>1
<1>2. CASE n < m
  BY <1>2
<1> QED BY <1>1, <1>2

\* What the invariant says of the manifests
LEMMA ManifestsAre ==
    ASSUME Inv
    PROVE  /\ manifest \in Manifest /\ manifest.nextCid \in Nat /\ manifest.nextSeg \in Nat
           /\ manifest.walSeq \in Nat /\ manifest.gen \in Nat
           /\ manifest.cols \in Maps(Cid, ListedCol)
           /\ Running => /\ Good(state) /\ state \in StoreState /\ state.manifest \in Manifest
                         /\ state.manifest.nextCid \in Nat /\ state.manifest.nextSeg \in Nat
                         /\ state.wal \in Nat
           /\ Running /\ LockFree =>
                /\ state.manifest.cols = manifest.cols
                /\ state.manifest.nextSeg = manifest.nextSeg
                /\ state.manifest.walSeq = manifest.walSeq
                /\ state.manifest.gen = manifest.gen
                /\ manifest.nextCid <= state.manifest.nextCid
<1>1. /\ manifest \in Manifest /\ manifest.nextCid \in Nat /\ manifest.nextSeg \in Nat
      /\ manifest.walSeq \in Nat /\ manifest.gen \in Nat
      /\ manifest.cols \in Maps(Cid, ListedCol)
  BY DEF Inv, TypeOK, Manifest
<1>2. Running => /\ Good(state) /\ state \in StoreState /\ state.manifest \in Manifest
                 /\ state.manifest.nextCid \in Nat /\ state.manifest.nextSeg \in Nat
                 /\ state.wal \in Nat
  BY GoodIs, StateIs DEF Inv, StateInv, Manifest
<1>3. Running /\ LockFree =>
        /\ state.manifest.cols = manifest.cols
        /\ state.manifest.nextSeg = manifest.nextSeg
        /\ state.manifest.walSeq = manifest.walSeq
        /\ state.manifest.gen = manifest.gen
        /\ manifest.nextCid <= state.manifest.nextCid
  BY <1>1 DEF Inv, FollowInv, Manifest
<1> QED BY <1>1, <1>2, <1>3

----------------------------------------------------------------------------
(* Clients *)

\* Every step of a client is one of these.
ClientMoves ==
    /\ UNCHANGED <<manifest, segFiles, phase, replay, maint>>
    /\ Moves(state, state')
    /\ SamePending(state, state') \/ (NewPending(state, state') /\ state.wal + 1 \in DOMAIN wals')
    /\ LogsMove(wals')
    /\ failures' \in Nat /\ failures <= failures'

LEMMA ClientStep ==
    ASSUME Inv, phase = "up", LockFree, ClientMoves
    PROVE  Inv'
<1> USE DEF ClientMoves
<1>1. /\ Good(state) /\ state \in StoreState /\ Good(state') /\ state' \in StoreState
      /\ SameManifest(state, state')
  BY ManifestsAre, GoodIs DEF Running, Moves
<1>2. /\ manifest \in Manifest /\ manifest.nextCid \in Nat /\ manifest.nextSeg \in Nat
      /\ manifest.walSeq \in Nat /\ state.wal \in Nat
      /\ state.manifest.nextCid \in Nat /\ state'.manifest.nextCid \in Nat
      /\ manifest.nextCid <= state.manifest.nextCid
      /\ state.manifest.nextCid <= state'.manifest.nextCid
      /\ state.manifest.cols = manifest.cols /\ state'.manifest.cols = manifest.cols
      /\ state.manifest.nextSeg = manifest.nextSeg /\ state'.manifest.nextSeg = manifest.nextSeg
  BY <1>1, ManifestsAre, SameManifestIs DEF Running, SameManifest
<1>3. \A c \in DOMAIN state'.cols : c \in Cid /\ c \in Nat
  BY <1>1, GoodIs, CidIs
<1>4. \A c \in DOMAIN state'.cols :
         \/ c \in DOMAIN state.cols /\ state'.cols[c].segments = state.cols[c].segments
         \/ state.manifest.nextCid <= c /\ state'.cols[c].segments = <<>>
  BY DEF Moves, OldSegments
<1>5. \A c \in DOMAIN manifest.cols : c \in Cid /\ c < manifest.nextCid
  <2>1. manifest.cols \in Maps(Cid, ListedCol)
    BY ManifestsAre
  <2> QED BY <2>1, MapsIs DEF Inv, ManifestInv, Below
<1>6. \A c \in DOMAIN state.cols : c \in Cid /\ c < state.manifest.nextCid
  BY <1>1, GoodIs DEF GoodCol
<1>7. TypeOK'
  BY <1>1 DEF Inv, TypeOK, LogsMove, Running
<1>8. StateInv'
  BY <1>1 DEF StateInv
<1>9. ManifestInv'
  BY DEF Inv, ManifestInv
<1>10. FilesInv'
  <2>1. ASSUME NEW c \in DOMAIN state'.cols, NEW i \in DOMAIN state'.cols[c].segments
        PROVE  Holds(segFiles, c, state'.cols[c].segments[i])
    BY <1>4 DEF Inv, FilesInv, Running
  <2> QED BY <2>1 DEF Inv, FilesInv, Holds
<1>11. FollowInv'
  <2>1. state'.manifest = [manifest EXCEPT !.nextCid = state'.manifest.nextCid]
    BY <1>1, <1>2 DEF Inv, FollowInv, Running, SameManifest, Manifest
  <2> QED BY <1>2, <2>1 DEF Inv, FollowInv, LockFree
<1>12. ListInv'
  <2> SUFFICES ASSUME failures' = 0, NEW c \in DOMAIN state'.cols \cap DOMAIN state'.manifest.cols
               PROVE  SegIds(state'.cols[c].segments) = Backwards(state'.manifest.cols[c].segs)
    BY DEF ListInv
  <2>1. failures = 0
    BY DEF Inv, TypeOK
  <2>2. c \in DOMAIN state.cols /\ state'.cols[c].segments = state.cols[c].segments
    BY <1>2, <1>3, <1>4, <1>5
  <2> QED BY <1>2, <2>1, <2>2 DEF Inv, ListInv
<1>13. LogInv'
  <2>1. PICK n \in Nat : DOMAIN wals \subseteq 0..n
    BY DEF Inv, LogInv
  <2>2. \E k \in Nat : DOMAIN wals \cup {state.wal + 1} \subseteq 0..k
    <3> DEFINE m == state.wal + 1
               S == DOMAIN wals
    <3>1. m \in Nat /\ S \subseteq 0..n
      BY <1>2, <2>1
    <3> HIDE DEF m, S
    <3>2. \E k \in Nat : S \cup {m} \subseteq 0..k
      BY <3>1, BoundedLogs
    <3> QED BY <3>2 DEF m, S
  <2>3. \E k \in Nat : DOMAIN wals' \subseteq 0..k
    BY <2>2 DEF LogsMove
  <2>4. DOMAIN wals \subseteq DOMAIN wals'
    BY DEF LogsMove
  <2>5. /\ manifest.walSeq < state.wal /\ state.wal \in DOMAIN wals
        /\ state.pending # NoPending =>
              /\ manifest.walSeq <= state.pending.walSeq
              /\ state.wal = state.pending.walSeq + 1
              /\ state.pending.walSeq \in DOMAIN wals
    BY DEF Inv, LogInv
  <2>6. CASE SamePending(state, state')
    BY <2>3, <2>4, <2>5, <2>6 DEF SamePending, LogInv
  <2>7. CASE NewPending(state, state') /\ state.wal + 1 \in DOMAIN wals'
    BY <1>2, <2>3, <2>4, <2>5, <2>7 DEF NewPending, LogInv
  <2> QED BY <2>6, <2>7
<1>14. CreateInv'
  <2>1. ASSUME NEW seq, NEW c \in Cid, Created(wals', seq, c)
        PROVE  Created(wals, seq, c) \/ (seq < state.wal /\ state.manifest.nextCid <= c)
    BY <2>1, MovedLogs
  <2>2. \A c \in DOMAIN manifest.cols :
           Created(wals', manifest.walSeq, c) => manifest.cols[c].segs = <<>>
    <3> SUFFICES ASSUME NEW c \in DOMAIN manifest.cols, Created(wals', manifest.walSeq, c)
                 PROVE  manifest.cols[c].segs = <<>>
      OBVIOUS
    <3>1. c \in Cid /\ c \in Nat /\ c < manifest.nextCid
      BY <1>5, CidIs
    <3>2. Created(wals, manifest.walSeq, c)
      BY <1>2, <2>1, <3>1
    <3> QED BY <3>2 DEF Inv, CreateInv
  <2>3. \A c \in DOMAIN state'.cols :
           Created(wals', manifest.walSeq, c) => state'.cols[c].segments = <<>>
    BY <1>2, <1>3, <1>4, <1>6, <2>1 DEF Inv, CreateInv, Running
  <2>4. \A c \in Cid : ~Created(wals', state.wal, c)
    BY <1>2, <2>1 DEF Inv, CreateInv
  <2>5. \A c \in Cid : ~Created(wals', state'.wal, c)
    <3>1. CASE SamePending(state, state')
      BY <2>4, <3>1 DEF SamePending
    <3>2. CASE NewPending(state, state')
      <4> SUFFICES ASSUME NEW c \in Cid, Created(wals', state.wal + 1, c) PROVE FALSE
        BY <3>2 DEF NewPending
      <4>1. Created(wals', state.wal, c)
        <5>1. DOMAIN wals' \subseteq Nat
          BY MapsIs DEF LogsMove, Logs
        <5> QED BY <1>2, <5>1 DEF Created
      <4> QED BY <2>4, <4>1
    <3> QED BY <3>1, <3>2
  <2>6. state'.pending # NoPending =>
           \A c \in DOMAIN state'.pending.memtables : ~Created(wals', state'.pending.walSeq, c)
    <3> SUFFICES ASSUME state'.pending # NoPending, NEW c \in DOMAIN state'.pending.memtables
                 PROVE  ~Created(wals', state'.pending.walSeq, c)
      OBVIOUS
    <3>1. c \in Cid
      <4>1. state'.pending \in Waiting
        BY <1>1, StateIs
      <4>2. state'.pending.memtables \in Maps(Cid, GoodLayer)
        BY <4>1 DEF Waiting
      <4> QED BY <4>2, MapsIs
    <3>2. CASE SamePending(state, state')
      <4>1. /\ state.pending # NoPending /\ state'.pending.walSeq = state.pending.walSeq
            /\ c \in DOMAIN state.pending.memtables
        BY <3>2 DEF SamePending
      <4>2. c < state.manifest.nextCid /\ c \in Nat
        BY <1>1, <3>1, <4>1, CidIs DEF Good, Below
      <4>3. ~Created(wals, state.pending.walSeq, c)
        BY <4>1 DEF Inv, CreateInv
      <4> QED BY <1>2, <2>1, <3>1, <4>1, <4>2, <4>3
    <3>3. CASE NewPending(state, state')
      BY <2>4, <3>1, <3>3 DEF NewPending
    <3> QED BY <3>2, <3>3
  <2> QED BY <2>2, <2>3, <2>5, <2>6 DEF CreateInv
<1>15. ReplayInv'
  BY DEF ReplayInv
<1>16. FlushInv'
  <2> SUFFICES ASSUME maint.at \in {"flushWrite", "flushStored"}
               PROVE  FlushInv'
    BY DEF FlushInv
  <2>1. /\ state.pending # NoPending
        /\ maint.walSeq = state.pending.walSeq
        /\ Below(DOMAIN maint.work, state.manifest.nextCid)
        /\ \A c \in DOMAIN state.cols :
              /\ c \in DOMAIN maint.work <=> c \in DOMAIN state.pending.memtables
              /\ c \in DOMAIN maint.work => maint.work[c].layer = state.pending.memtables[c]
        /\ \A c \in DOMAIN maint.work :
              /\ state.manifest.nextSeg <= maint.work[c].id
              /\ maint.work[c].id < state.manifest.nextSeg + Cardinality(DOMAIN maint.work)
              /\ ~Created(wals, maint.walSeq, c)
    BY DEF Inv, FlushInv
  <2>2. /\ maint.done \subseteq DOMAIN maint.work
        /\ \A c \in maint.done : Holds(segFiles, c, maint.work[c])
        /\ maint.at = "flushStored" => maint.done = DOMAIN maint.work
    BY DEF Inv, FlushInv
  <2>3. SamePending(state, state')
    BY <2>1 DEF NewPending
  <2>4. DOMAIN maint.work \subseteq Cid
    <3>1. maint \in FlushState
      BY DEF Inv, TypeOK, Idle, Failed, CompactState
    <3>2. maint.work \in Maps(Cid, Segment)
      BY <3>1 DEF FlushState
    <3> QED BY <3>2, MapsIs
  <2>5. Below(DOMAIN maint.work, state'.manifest.nextCid)
    BY <1>2, <2>1, <2>4, BelowMore
  <2>6. ASSUME NEW c \in DOMAIN state'.cols
        PROVE  /\ c \in DOMAIN maint.work <=> c \in DOMAIN state'.pending.memtables
               /\ c \in DOMAIN maint.work => maint.work[c].layer = state'.pending.memtables[c]
    <3>1. CASE c \in DOMAIN state.cols
      BY <2>1, <2>3, <3>1 DEF SamePending, Waits
    <3>2. CASE state.manifest.nextCid <= c
      <4>1. ~(c < state.manifest.nextCid)
        BY <1>2, <1>3, <3>2
      <4>2. c \notin DOMAIN maint.work
        BY <2>1, <4>1 DEF Below
      <4>3. c \notin DOMAIN state.pending.memtables
        BY <1>1, <2>1, <4>1 DEF Good, Below
      <4> QED BY <2>1, <2>3, <4>2, <4>3 DEF SamePending
    <3> QED BY <1>4, <3>1, <3>2
  <2>7. ASSUME NEW c \in DOMAIN maint.work
        PROVE  /\ state'.manifest.nextSeg <= maint.work[c].id
               /\ maint.work[c].id < state'.manifest.nextSeg + Cardinality(DOMAIN maint.work)
               /\ ~Created(wals', maint.walSeq, c)
    <3>1. c \in Cid /\ c \in Nat /\ c < state.manifest.nextCid
      BY <2>1, <2>4, CidIs DEF Below
    <3>2. Created(wals', maint.walSeq, c) => Created(wals, maint.walSeq, c)
      BY <1>2, <3>1, MovedLogs
    <3> QED BY <1>2, <2>1, <3>2
  <2>8. state'.pending # NoPending /\ maint.walSeq = state'.pending.walSeq
    BY <2>1, <2>3 DEF SamePending
  <2> QED BY <2>2, <2>5, <2>6, <2>7, <2>8 DEF FlushInv, Holds
<1>17. CompactInv'
  <2> SUFFICES ASSUME maint.at \in {"compactWrite", "compactWritten", "compactStored"}
               PROVE  CompactInv'
    BY DEF CompactInv
  <2>1. /\ maint.id = state.manifest.nextSeg
        /\ maint.cid < state.manifest.nextCid
        /\ Len(maint.run) >= 2
        /\ maint.cid \in DOMAIN state.cols => RunIsNewest(state.cols[maint.cid].segments)
        /\ maint.at # "compactWrite" /\ ~IsEmpty(Merged) =>
             Holds(segFiles, maint.cid, [id |-> maint.id, layer |-> Merged])
    BY DEF Inv, CompactInv
  <2>2. maint.cid \in Nat
    <3>1. maint \in CompactState
      BY DEF Inv, TypeOK, Idle, Failed, FlushState
    <3> QED BY <3>1, CidIs DEF CompactState
  <2>3. maint.cid < state'.manifest.nextCid
    BY <1>2, <2>1, <2>2
  <2>4. maint.cid \in DOMAIN state'.cols => RunIsNewest(state'.cols[maint.cid].segments)
    BY <1>2, <1>4, <2>1, <2>2
  <2>5. RunIsNewest(state'.cols[maint.cid].segments) => RunIsNewest(state.cols[maint.cid].segments)'
    BY DEF RunIsNewest
  <2>6. Merged' = Merged
    BY DEF Merged, SegLayers
  <2> QED BY <1>2, <2>1, <2>3, <2>4, <2>5, <2>6 DEF CompactInv, Holds
<1> QED
  BY <1>7, <1>8, <1>9, <1>10, <1>11, <1>12, <1>13, <1>14, <1>15, <1>16, <1>17 DEF Inv

\* What is known where a client step begins
UpIs == Inv /\ phase = "up" /\ LockFree

LEMMA UpGood ==
    ASSUME UpIs
    PROVE  /\ Good(state) /\ state \in StoreState /\ state.manifest.nextCid \in Nat
           /\ state.wal \in Nat /\ state.wal \in DOMAIN wals /\ wals \in Logs /\ failures \in Nat
BY ManifestsAre DEF UpIs, Running, Inv, TypeOK, LogInv

LEMMA SameLogs ==
    ASSUME UpIs
    PROVE  LogsMove(wals)
BY UpGood DEF LogsMove

LEMMA LoggedMoves ==
    ASSUME UpIs, NEW r \in WalRecord, r.op = "create" => r.cid = state.manifest.nextCid
    PROVE  LogsMove(Logged(r))
<1>1. /\ wals \in Logs /\ state.wal \in DOMAIN wals /\ state.wal \in Nat
      /\ state.manifest.nextCid \in Nat
  BY UpGood
<1>2. wals \in [DOMAIN wals -> Seq(WalRecord)] /\ DOMAIN wals \subseteq Nat
  BY <1>1, MapsIs DEF Logs
<1>3. wals[state.wal] \in Seq(WalRecord)
  BY <1>1, <1>2
<1> DEFINE old == wals[state.wal]
           new == Append(old, r)
<1>4. /\ new \in Seq(WalRecord)
      /\ \A i \in DOMAIN new : (i \in DOMAIN old /\ new[i] = old[i]) \/ new[i] = r
  BY <1>3
<1>5. Logged(r) = [wals EXCEPT ![state.wal] = new]
  BY DEF Logged
<1> HIDE DEF new
<1>6. Logged(r) \in [DOMAIN wals -> Seq(WalRecord)]
  BY <1>2, <1>4, <1>5
<1>7. Logged(r) \in Logs /\ DOMAIN Logged(r) = DOMAIN wals
  BY <1>2, <1>6, MapsIs DEF Logs
<1>8. ASSUME NEW s \in DOMAIN Logged(r), NEW c \in Cid, Creates(Logged(r), s, c)
      PROVE  Creates(wals, s, c) \/ (s = state.wal /\ state.manifest.nextCid <= c)
  <2>1. CASE s = state.wal
    <3>1. Logged(r)[s] = new
      BY <1>1, <1>5, <2>1
    <3>2. PICK i \in DOMAIN new : new[i].op = "create" /\ new[i].cid = c
      BY <1>8, <3>1 DEF Creates
    <3> QED BY <1>1, <1>4, <2>1, <3>2 DEF Creates
  <2>2. CASE s # state.wal
    <3>1. Logged(r)[s] = wals[s]
      BY <1>2, <1>5, <1>7, <2>2
    <3> QED BY <1>8, <3>1 DEF Creates
  <2> QED BY <2>1, <2>2
<1> QED BY <1>7, <1>8 DEF LogsMove

\* A torn frame is a record of no collection.
LEMMA TornMoves ==
    ASSUME UpIs
    PROVE  LogsMove(Logged(Torn))
<1>1. Torn \in WalRecord /\ Torn.op # "create"
  BY DEF Torn, WalRecord
<1> HIDE DEF Torn
<1> QED BY <1>1, LoggedMoves

\* The next log is made.
LEMMA PutLogMoves ==
    ASSUME UpIs, NEW files, LogsMove(files), NEW new \in {<<>>, Blank}
    PROVE  /\ LogsMove(Put(files, state.wal + 1, new))
           /\ state.wal + 1 \in DOMAIN Put(files, state.wal + 1, new)
<1> DEFINE next == state.wal + 1
           files2 == Put(files, next, new)
<1>1. next \in Nat
  BY UpGood
<1>2. /\ new \in Seq(WalRecord) /\ \A i \in DOMAIN new : new[i].op # "create"
  <2> DEFINE r == [op |-> "blank"]
  <2>1. r \in WalRecord /\ r.op # "create"
    BY DEF WalRecord
  <2> HIDE DEF r
  <2>2. <<r>> \in Seq(WalRecord) /\ \A i \in DOMAIN <<r>> : <<r>>[i] = r
    BY <2>1
  <2>3. CASE new = <<>>
    BY <2>3
  <2>4. CASE new = <<r>>
    BY <2>1, <2>2, <2>4
  <2> QED BY <2>3, <2>4 DEF Blank, r
<1>3. files \in Maps(Nat, Seq(WalRecord))
  BY DEF LogsMove, Logs
<1>4. files2 \in Logs
  BY <1>1, <1>2, <1>3, PutType DEF Logs
<1>5. /\ DOMAIN files2 = DOMAIN files \cup {next} /\ files2[next] = new
      /\ \A s \in DOMAIN files : s # next => files2[s] = files[s]
  BY DEF Put
<1> HIDE DEF files2, next
<1>6. ASSUME NEW s \in DOMAIN files2, NEW c \in Cid, Creates(files2, s, c)
      PROVE  s \in DOMAIN files /\ Creates(files, s, c)
  BY <1>2, <1>5, <1>6 DEF Creates
<1>7. LogsMove(files2)
  <2>1. DOMAIN wals \subseteq DOMAIN files2
    BY <1>5 DEF LogsMove
  <2>2. DOMAIN files2 \subseteq DOMAIN wals \cup {state.wal + 1}
    BY <1>5 DEF LogsMove, next
  <2> QED BY <1>4, <1>6, <2>1, <2>2 DEF LogsMove
<1> QED BY <1>5, <1>7 DEF files2, next

\* The state and the logs a client step would leave
Planned(st, files) ==
    /\ Moves(state, st) /\ LogsMove(files)
    /\ SamePending(state, st) \/ (NewPending(state, st) /\ state.wal + 1 \in DOMAIN files)

StaysOnDisk == UNCHANGED <<manifest, segFiles, phase, replay, maint>>

LEMMA LogThenMoves ==
    ASSUME UpIs, StaysOnDisk, NEW r, ClientRecord(state, r), NEW st, NEW files,
           Planned(st, files), LogThen(r, st, files)
    PROVE  ClientMoves
<1>1. failures \in Nat /\ Good(state)
  BY UpGood
<1>2. CASE state' = st /\ wals' = files /\ UNCHANGED failures
  BY <1>1, <1>2 DEF Planned, ClientMoves, StaysOnDisk
<1>3. CASE UNCHANGED state /\ wals' = Logged(Torn) /\ Fails("append")
  <2>1. LogsMove(wals')
    BY <1>3, TornMoves
  <2>2. Moves(state, state') /\ SamePending(state, state')
    BY <1>1, <1>3, StaysMoves
  <2> QED BY <1>1, <1>3, <2>1, <2>2 DEF ClientMoves, Fails, StaysOnDisk
<1>4. CASE UNCHANGED state /\ wals' = Logged(r) /\ Fails("sync")
  <2>1. LogsMove(wals')
    BY <1>4, LoggedMoves DEF ClientRecord
  <2>2. Moves(state, state') /\ SamePending(state, state')
    BY <1>1, <1>4, StaysMoves
  <2> QED BY <1>1, <1>4, <2>1, <2>2 DEF ClientMoves, Fails, StaysOnDisk
<1> QED BY <1>2, <1>3, <1>4 DEF LogThen

LEMMA FailedCreateMoves ==
    ASSUME UpIs, StaysOnDisk, NEW st, Moves(state, st), SamePending(state, st),
           NEW files, LogsMove(files), FailedCreate(st, files)
    PROVE  ClientMoves
<1>1. failures \in Nat /\ st.wal = state.wal /\ state' = st
  BY UpGood DEF SamePending, FailedCreate
<1>2. CASE wals' = files /\ UNCHANGED failures
  BY <1>1, <1>2 DEF ClientMoves, StaysOnDisk
<1>3. CASE wals' = Put(files, st.wal + 1, Blank) /\ Fails("create")
  <2>1. LogsMove(wals')
    BY <1>1, <1>3, PutLogMoves
  <2> QED BY <1>1, <1>3, <2>1 DEF ClientMoves, Fails, StaysOnDisk
<1> QED BY <1>2, <1>3 DEF FailedCreate

\* log_and_apply
LEMMA LogAndApplyMoves ==
    ASSUME UpIs, StaysOnDisk, NEW r, ClientRecord(state, r), LogAndApply(r)
    PROVE  ClientMoves
<1> DEFINE st == IF Known(state, r) THEN Apply(state, r) ELSE state
<1>1. Moves(state, st) /\ SamePending(state, st)
  BY UpGood, ApplyMoves, StaysMoves
<1>2. LogsMove(Logged(r))
  BY LoggedMoves DEF ClientRecord
<1>3. Planned(st, Logged(r))
  BY <1>1, <1>2 DEF Planned
<1>4. LogThen(r, st, Logged(r))
  BY DEF LogAndApply
<1> HIDE DEF st
<1> QED BY <1>3, <1>4, LogThenMoves

\* a data record, with the rotation it may bring about
LEMMA LogApplyFlushMoves ==
    ASSUME UpIs, StaysOnDisk, NEW r, ClientRecord(state, r), Known(state, r), LogApplyFlush(r)
    PROVE  ClientMoves
<1> DEFINE st == Apply(state, r)
<1>1. Moves(state, st) /\ SamePending(state, st) /\ Good(state)
  BY UpGood, ApplyMoves
<1>2. LogsMove(Logged(r))
  BY LoggedMoves DEF ClientRecord
<1>3. CASE OverThreshold(st) /\ CanRotate(st)
  <2>1. CASE LogThen(r, Rotated(st), Put(Logged(r), st.wal + 1, <<>>))
    <3> HIDE DEF st
    <3>1. Moves(state, Rotated(st)) /\ NewPending(state, Rotated(st))
      BY <1>1, <1>3, RotateMoves
    <3>2. st.wal = state.wal
      BY <1>1 DEF SamePending
    <3>3. LogsMove(Put(Logged(r), st.wal + 1, <<>>)) /\ state.wal + 1 \in DOMAIN Put(Logged(r), st.wal + 1, <<>>)
      BY <1>2, <3>2, PutLogMoves
    <3>4. Planned(Rotated(st), Put(Logged(r), st.wal + 1, <<>>))
      BY <3>1, <3>3 DEF Planned
    <3> QED BY <2>1, <3>4, LogThenMoves
  <2>2. CASE FailedCreate(st, Logged(r))
    <3> HIDE DEF st
    <3> QED BY <1>1, <1>2, <2>2, FailedCreateMoves
  <2> QED BY <1>3, <2>1, <2>2 DEF LogApplyFlush
<1>4. CASE ~(OverThreshold(st) /\ CanRotate(st))
  <2>1. LogThen(r, st, Logged(r))
    BY <1>4 DEF LogApplyFlush
  <2>2. Planned(st, Logged(r))
    BY <1>1, <1>2 DEF Planned
  <2> HIDE DEF st
  <2> QED BY <2>1, <2>2, LogThenMoves
<1> QED BY <1>3, <1>4

LEMMA RotateActionMoves ==
    ASSUME UpIs, Rotate
    PROVE  ClientMoves
<1>1. StaysOnDisk /\ CanRotate(state) /\ failures \in Nat
  BY UpGood DEF Rotate, StaysOnDisk
<1>2. Moves(state, state) /\ SamePending(state, state)
  BY UpGood, StaysMoves
<1>3. CASE state' = Rotated(state) /\ wals' = Put(wals, state.wal + 1, <<>>) /\ UNCHANGED failures
  <2>1. Moves(state, state') /\ NewPending(state, state')
    BY <1>1, <1>2, <1>3, UpGood, RotateMoves
  <2>2. LogsMove(wals') /\ state.wal + 1 \in DOMAIN wals'
    BY <1>3, SameLogs, PutLogMoves
  <2> QED BY <1>1, <1>3, <2>1, <2>2 DEF ClientMoves, StaysOnDisk
<1>4. CASE FailedCreate(state, wals)
  BY <1>1, <1>2, <1>4, SameLogs, FailedCreateMoves
<1> QED BY <1>3, <1>4 DEF Rotate

LEMMA ReadyStays ==
    ASSUME Inv, NEW op, Ready(op)
    PROVE  UpIs /\ StaysOnDisk
BY DEF Ready, UpIs, StaysOnDisk

LEMMA CreateCollectionMoves ==
    ASSUME Inv, NEW name \in Name, CreateCollection(name)
    PROVE  UpIs /\ ClientMoves
<1> DEFINE r == [op |-> "create", cid |-> state.manifest.nextCid, name |-> name]
<1>1. UpIs /\ StaysOnDisk /\ state.manifest.nextCid < MaxCollections /\ LogAndApply(r)
  BY ReadyStays DEF CreateCollection
<1>2. state.manifest.nextCid \in Cid
  BY <1>1, UpGood, StoreAssumption DEF Cid
<1>3. r \in WalRecord
  BY <1>2 DEF WalRecord
<1>4. ClientRecord(state, r)
  BY <1>3 DEF ClientRecord
<1> HIDE DEF r
<1> QED BY <1>1, <1>4, LogAndApplyMoves

LEMMA DropCollectionMoves ==
    ASSUME Inv, NEW name \in Name, DropCollection(name)
    PROVE  UpIs /\ ClientMoves
<1> DEFINE c == state.names[name]
           r == [op |-> "drop", cid |-> c]
           st == NotWaiting(Apply(state, r), c)
<1>1. /\ UpIs /\ StaysOnDisk /\ name \in DOMAIN state.names /\ LogThen(r, st, Logged(r))
  BY ReadyStays DEF DropCollection
<1>2. c \in Cid
  BY <1>1, UpGood, StateIs, MapAt
<1>3. r \in WalRecord /\ r.op = "drop" /\ r.cid = c
  BY <1>2 DEF WalRecord
<1>4. ClientRecord(state, r)
  BY <1>3 DEF ClientRecord
<1> HIDE DEF r, c
<1>5. Moves(state, st) /\ SamePending(state, st)
  BY <1>1, <1>3, UpGood, DropMoves
<1>6. LogsMove(Logged(r))
  BY <1>1, <1>3, LoggedMoves
<1>7. Planned(st, Logged(r))
  BY <1>5, <1>6 DEF Planned
<1> HIDE DEF st
<1> QED BY <1>1, <1>4, <1>7, LogThenMoves

LEMMA RenameCollectionMoves ==
    ASSUME Inv, NEW from \in Name, NEW to \in Name, RenameCollection(from, to)
    PROVE  UpIs /\ ClientMoves
<1> DEFINE r == [op |-> "rename", cid |-> state.names[from], name |-> to]
<1>1. UpIs /\ StaysOnDisk /\ from \in DOMAIN state.names /\ LogAndApply(r)
  BY ReadyStays DEF RenameCollection
<1>2. state.names[from] \in Cid
  BY <1>1, UpGood, StateIs, MapAt
<1>3. r \in WalRecord
  BY <1>2 DEF WalRecord
<1>4. ClientRecord(state, r)
  BY <1>3 DEF ClientRecord
<1> HIDE DEF r
<1> QED BY <1>1, <1>4, LogAndApplyMoves

LEMMA SwapCollectionNamesMoves ==
    ASSUME Inv, NEW a \in Name, NEW b \in Name, SwapCollectionNames(a, b)
    PROVE  UpIs /\ ClientMoves
<1> DEFINE r == [op |-> "swap", a |-> state.names[a], b |-> state.names[b]]
<1>1. UpIs /\ StaysOnDisk /\ {a, b} \subseteq DOMAIN state.names /\ LogAndApply(r)
  BY ReadyStays DEF SwapCollectionNames
<1>2. state.names[a] \in Cid /\ state.names[b] \in Cid
  BY <1>1, UpGood, StateIs, MapAt
<1>3. r \in WalRecord
  BY <1>2 DEF WalRecord
<1>4. ClientRecord(state, r)
  BY <1>3 DEF ClientRecord
<1> HIDE DEF r
<1> QED BY <1>1, <1>4, LogAndApplyMoves

LEMMA DataRecordMoves ==
    ASSUME Inv, NEW op, Ready(op), NEW c \in DOMAIN state.cols, NEW r \in WalRecord,
           r.op \in {"upsert", "delete", "updateMeta"}, r.cid = c, LogApplyFlush(r)
    PROVE  UpIs /\ ClientMoves
<1>1. UpIs /\ StaysOnDisk
  BY ReadyStays
<1>2. ClientRecord(state, r)
  BY DEF ClientRecord
<1>3. Known(state, r)
  BY DEF Known, Refers
<1> QED BY <1>1, <1>2, <1>3, LogApplyFlushMoves

LEMMA UpsertRecordMoves ==
    ASSUME Inv, NEW c \in DOMAIN state.cols, NEW id \in Id, NEW rec \in Record,
           UpsertRecord(c, id, rec)
    PROVE  UpIs /\ ClientMoves
<1> DEFINE r == [op |-> "upsert", cid |-> c, id |-> id, rec |-> rec]
<1>1. Ready("upsert") /\ LogApplyFlush(r)
  BY DEF UpsertRecord
<1>2. c \in Cid
  BY <1>1, ReadyStays, UpGood, ColIs
<1>3. r \in WalRecord /\ r.op = "upsert" /\ r.cid = c
  BY <1>2 DEF WalRecord
<1> HIDE DEF r
<1> QED BY <1>1, <1>3, DataRecordMoves

LEMMA DeleteRecordMoves ==
    ASSUME Inv, NEW c \in DOMAIN state.cols, NEW id \in Id, DeleteRecord(c, id)
    PROVE  UpIs /\ ClientMoves
<1> DEFINE r == [op |-> "delete", cid |-> c, id |-> id]
<1>1. Ready("delete") /\ LogApplyFlush(r)
  BY DEF DeleteRecord
<1>2. c \in Cid
  BY <1>1, ReadyStays, UpGood, ColIs
<1>3. r \in WalRecord /\ r.op = "delete" /\ r.cid = c
  BY <1>2 DEF WalRecord
<1> HIDE DEF r
<1> QED BY <1>1, <1>3, DataRecordMoves

LEMMA UpdateMetadataMoves ==
    ASSUME Inv, NEW c \in DOMAIN state.cols, NEW id \in Id, NEW metadata \in Metadata,
           UpdateMetadata(c, id, metadata)
    PROVE  UpIs /\ ClientMoves
<1> DEFINE r == [op |-> "updateMeta", cid |-> c, id |-> id, metadata |-> metadata]
<1>1. Ready("updateMeta") /\ LogApplyFlush(r)
  BY DEF UpdateMetadata
<1>2. c \in Cid
  BY <1>1, ReadyStays, UpGood, ColIs
<1>3. r \in WalRecord /\ r.op = "updateMeta" /\ r.cid = c
  BY <1>2 DEF WalRecord
<1> HIDE DEF r
<1> QED BY <1>1, <1>3, DataRecordMoves

LEMMA ClientKeeps ==
    ASSUME Inv, Client
    PROVE  Inv'
<1> SUFFICES UpIs /\ ClientMoves
  BY ClientStep DEF UpIs
<1>1. ASSUME NEW name \in Name, CreateCollection(name) PROVE UpIs /\ ClientMoves
  BY <1>1, CreateCollectionMoves
<1>2. ASSUME NEW name \in Name, DropCollection(name) PROVE UpIs /\ ClientMoves
  BY <1>2, DropCollectionMoves
<1>3. ASSUME NEW name \in Name, NEW other \in Name, RenameCollection(name, other)
      PROVE  UpIs /\ ClientMoves
  BY <1>3, RenameCollectionMoves
<1>4. ASSUME NEW name \in Name, NEW other \in Name, SwapCollectionNames(name, other)
      PROVE  UpIs /\ ClientMoves
  BY <1>4, SwapCollectionNamesMoves
<1>5. ASSUME NEW c \in DOMAIN state.cols, NEW id \in Id, NEW rec \in Record,
             UpsertRecord(c, id, rec)
      PROVE  UpIs /\ ClientMoves
  BY <1>5, UpsertRecordMoves
<1>6. ASSUME NEW c \in DOMAIN state.cols, NEW id \in Id, DeleteRecord(c, id)
      PROVE  UpIs /\ ClientMoves
  BY <1>6, DeleteRecordMoves
<1>7. ASSUME NEW c \in DOMAIN state.cols, NEW id \in Id, NEW metadata \in Metadata,
             UpdateMetadata(c, id, metadata)
      PROVE  UpIs /\ ClientMoves
  BY <1>7, UpdateMetadataMoves
<1>8. ASSUME Rotate PROVE UpIs /\ ClientMoves
  <2>1. UpIs
    BY <1>8 DEF Rotate, UpIs
  <2> QED BY <1>8, <2>1, RotateActionMoves
<1> QED BY <1>1, <1>2, <1>3, <1>4, <1>5, <1>6, <1>7, <1>8 DEF Client

----------------------------------------------------------------------------
(* The maintenance thread, without its commits *)

LEMMA CidsFinite ==
    ASSUME NEW S, S \subseteq Cid
    PROVE  IsFiniteSet(S) /\ Cardinality(S) \in Nat
<1>1. 0 \in Int /\ MaxCollections - 1 \in Int
  BY StoreAssumption
<1>2. IsFiniteSet(Cid)
  BY <1>1, FS_Interval DEF Cid
<1>3. IsFiniteSet(S)
  BY <1>2, FS_Subset
<1> QED BY <1>3, FS_CardinalityType

\* The rank of a member of a finite set is below its size.
LEMMA RankBelow ==
    ASSUME NEW S, S \subseteq Cid, NEW c \in S
    PROVE  /\ Cardinality({d \in S : d < c}) \in Nat
           /\ Cardinality({d \in S : d < c}) < Cardinality(S)
<1> DEFINE T == {d \in S : d < c}
<1>1. IsFiniteSet(S) /\ Cardinality(S) \in Nat
  BY CidsFinite
<1>2. T \subseteq Cid /\ T \in SUBSET S
  OBVIOUS
<1>3. Cardinality(T) \in Nat
  BY <1>2, CidsFinite
<1>4. c \notin T /\ c \in Nat
  BY CidIs
<1>5. T # S
  BY <1>4
<1> HIDE DEF T
<1>6. Cardinality(T) <= Cardinality(S)
  BY <1>1, <1>2, FS_Subset
<1>7. Cardinality(S) # Cardinality(T)
  BY <1>1, <1>2, <1>5, FS_Subset
<1> QED BY <1>1, <1>3, <1>6, <1>7 DEF T

LEMMA FlushIs ==
    ASSUME Inv, maint.at \in {"flushWrite", "flushStored"}
    PROVE  /\ maint \in FlushState /\ phase = "up"
           /\ maint.work \in Maps(Cid, Segment) /\ maint.walSeq \in Nat
           /\ DOMAIN maint.work \subseteq Cid
           /\ \A c \in DOMAIN maint.work : /\ maint.work[c] \in Segment /\ maint.work[c].id \in Nat
                                           /\ maint.work[c].layer \in GoodLayer
           /\ Cardinality(DOMAIN maint.work) \in Nat
           /\ state.pending # NoPending /\ state.pending \in Waiting
<1>1. maint \in FlushState
  BY DEF Inv, TypeOK, Idle, Failed, CompactState
<1>2. maint.work \in Maps(Cid, Segment) /\ maint.walSeq \in Nat
  BY <1>1 DEF FlushState
<1>3. phase = "up"
  BY DEF Inv, FollowInv, Idle
<1>4. /\ DOMAIN maint.work \subseteq Cid
      /\ \A c \in DOMAIN maint.work : maint.work[c] \in Segment
  BY <1>2, MapsIs
<1>5. Cardinality(DOMAIN maint.work) \in Nat
  BY <1>4, CidsFinite
<1>6. \A c \in DOMAIN maint.work : maint.work[c].id \in Nat /\ maint.work[c].layer \in GoodLayer
  BY <1>4 DEF Segment
<1>7. state.pending # NoPending
  BY DEF Inv, FlushInv
<1>8. state.pending \in Waiting
  BY <1>3, <1>7, ManifestsAre, StateIs DEF Running
<1> QED BY <1>1, <1>2, <1>3, <1>4, <1>5, <1>6, <1>7, <1>8

LEMMA CompactIs ==
    ASSUME Inv, maint.at \in {"compactWrite", "compactWritten", "compactStored"}
    PROVE  /\ maint \in CompactState /\ phase = "up"
           /\ maint.cid \in Cid /\ maint.run \in Seq(Segment) /\ maint.older \in BOOLEAN
           /\ maint.id \in Nat /\ Merged \in GoodLayer
<1>1. maint \in CompactState
  BY DEF Inv, TypeOK, Idle, Failed, FlushState
<1>2. /\ maint.cid \in Cid /\ maint.run \in Seq(Segment) /\ maint.older \in BOOLEAN
      /\ maint.id \in Nat
  BY <1>1 DEF CompactState
<1>3. phase = "up"
  BY DEF Inv, FollowInv, Idle
<1>4. SegLayers(maint.run) \in Seq(Layer)
  BY <1>2, SegmentsAre
<1>5. Merged \in GoodLayer
  BY <1>2, <1>4, MergeType DEF Merged, GoodLayer
<1> QED BY <1>1, <1>2, <1>3, <1>5

\* A step of the thread that commits nothing
LEMMA MaintStep ==
    ASSUME Inv, phase = "up", LockFree,
           UNCHANGED <<manifest, wals, phase, state, replay, failures>>,
           maint' \in {Idle, Failed} \cup FlushState \cup CompactState, LockFree',
           segFiles' \in Maps(Cid \X Nat, GoodLayer),
           FilesInv', FlushInv', CompactInv'
    PROVE  Inv'
<1>1. TypeOK'
  BY DEF Inv, TypeOK, Running
<1>2. StateInv' /\ ManifestInv'
  BY DEF Inv, StateInv, ManifestInv, Running
<1>3. FollowInv'
  BY DEF Inv, FollowInv, Running, LockFree
<1>4. ListInv' /\ LogInv' /\ ReplayInv'
  BY DEF Inv, ListInv, LogInv, ReplayInv
<1>5. CreateInv'
  BY DEF Inv, CreateInv, Running, Created, Creates
<1> QED BY <1>1, <1>2, <1>3, <1>4, <1>5 DEF Inv

\* A segment written under a number that is not given out yet is nobody's.
LEMMA NewFile ==
    ASSUME Inv, phase = "up", LockFree, UNCHANGED <<manifest, phase, state>>,
           NEW c \in Cid, NEW n \in Nat, state.manifest.nextSeg <= n, NEW layer \in GoodLayer,
           segFiles' = Put(segFiles, <<c, n>>, layer)
    PROVE  segFiles' \in Maps(Cid \X Nat, GoodLayer) /\ FilesInv'
<1>1. segFiles' \in Maps(Cid \X Nat, GoodLayer)
  <2>1. segFiles \in Maps(Cid \X Nat, GoodLayer) /\ <<c, n>> \in Cid \X Nat
    BY DEF Inv, TypeOK
  <2> QED BY <2>1, PutType
<1>2. /\ DOMAIN segFiles' = DOMAIN segFiles \cup {<<c, n>>}
      /\ \A key \in DOMAIN segFiles : key # <<c, n>> => segFiles'[key] = segFiles[key]
  BY DEF Put
<1>3. ASSUME NEW d \in DOMAIN state.cols, NEW i \in DOMAIN state.cols[d].segments
      PROVE  Holds(segFiles', d, state.cols[d].segments[i])
  <2>1. Holds(segFiles, d, state.cols[d].segments[i])
    BY DEF Inv, FilesInv, Running
  <2>2. state.cols[d].segments \in Seq(Segment) /\ GoodCol(state, d)
    BY ManifestsAre, ColIs, GoodIs DEF Running
  <2> DEFINE segs == state.cols[d].segments
  <2>6. /\ segs \in Seq(Segment) /\ i \in DOMAIN segs
        /\ GoodIds(SegIds(segs), state.manifest.nextSeg)
    BY <2>2 DEF GoodCol
  <2> HIDE DEF segs
  <2>7. i \in DOMAIN SegIds(segs) /\ SegIds(segs)[i] = segs[i].id /\ segs[i] \in Segment
    BY SMTT(30), <2>6, SegmentsAre
  <2>3. segs[i].id < state.manifest.nextSeg
    BY <2>6, <2>7 DEF GoodIds
  <2>4. segs[i].id \in Nat /\ state.manifest.nextSeg \in Nat
    BY <2>7, ManifestsAre DEF Running, Segment
  <2>5. <<d, state.cols[d].segments[i].id>> # <<c, n>>
    BY <2>3, <2>4 DEF segs
  <2> QED BY <1>2, <2>1, <2>5 DEF Holds
<1>4. \A d \in DOMAIN manifest.cols : \A i \in DOMAIN manifest.cols[d].segs :
          <<d, manifest.cols[d].segs[i]>> \in DOMAIN segFiles'
  BY <1>2 DEF Inv, FilesInv
<1> QED BY <1>1, <1>3, <1>4 DEF FilesInv, Holds

LEMMA FlushReadKeeps ==
    ASSUME Inv, FlushRead
    PROVE  Inv'
<1> DEFINE cids == DOMAIN state.pending.memtables \cap DOMAIN state.cols
           work == [c \in cids |-> [id |-> state.manifest.nextSeg + Cardinality({d \in cids : d < c}),
                                    layer |-> state.pending.memtables[c]]]
<1>1. /\ phase = "up" /\ LockFree /\ state.pending # NoPending
      /\ UNCHANGED <<manifest, wals, segFiles, phase, state, replay, failures>>
      /\ maint' = [at |-> "flushWrite", walSeq |-> state.pending.walSeq, work |-> work, done |-> {}]
  BY DEF FlushRead, disk, LockFree, Idle, Failed
<1>2. /\ Good(state) /\ state \in StoreState /\ state.pending \in Waiting
      /\ state.manifest.nextSeg \in Nat /\ state.manifest.nextCid \in Nat
  BY <1>1, ManifestsAre, StateIs DEF Running
<1>3. /\ state.pending.walSeq \in Nat /\ state.pending.memtables \in Maps(Cid, GoodLayer)
  BY <1>2 DEF Waiting
<1>4. cids \subseteq Cid /\ \A c \in cids : state.pending.memtables[c] \in GoodLayer
  BY <1>3, MapsIs
<1>5. DOMAIN work = cids
  OBVIOUS
<1>6. ASSUME NEW c \in cids
      PROVE  /\ work[c] \in Segment /\ work[c].layer = state.pending.memtables[c]
             /\ state.manifest.nextSeg <= work[c].id
             /\ work[c].id < state.manifest.nextSeg + Cardinality(cids)
  <2> DEFINE rank == Cardinality({d \in cids : d < c})
  <2>1. rank \in Nat /\ rank < Cardinality(cids) /\ Cardinality(cids) \in Nat
    BY <1>4, RankBelow, CidsFinite
  <2>2. work[c] = [id |-> state.manifest.nextSeg + rank, layer |-> state.pending.memtables[c]]
    OBVIOUS
  <2> HIDE DEF rank, work, cids
  <2> QED BY <1>2, <1>4, <2>1, <2>2 DEF Segment
<1> HIDE DEF work
<1>7. work \in Maps(Cid, Segment)
  <2>1. work \in [cids -> Segment]
    BY <1>5, <1>6 DEF work
  <2> QED BY <1>4, <1>5, <2>1, MapsIs
<1>8. maint' \in FlushState /\ LockFree'
  BY <1>1, <1>3, <1>7 DEF FlushState, LockFree
<1>9. FilesInv'
  BY <1>1 DEF Inv, FilesInv, Running
<1>10. FlushInv'
  <2>1. Below(cids, state.manifest.nextCid)
    BY <1>1, <1>2 DEF Good, Below
  <2>2. \A c \in cids : ~Created(wals, state.pending.walSeq, c)
    BY <1>1 DEF Inv, CreateInv
  <2>3. \A c \in cids : ~Created(wals', state.pending.walSeq, c)
    BY <1>1, <2>2 DEF Created, Creates
  <2>4. /\ maint'.walSeq = state.pending.walSeq /\ maint'.work = work /\ maint'.done = {}
        /\ maint'.at = "flushWrite"
    BY <1>1
  <2> QED BY <1>1, <1>5, <1>6, <2>1, <2>3, <2>4 DEF FlushInv
<1>11. CompactInv'
  BY <1>1 DEF CompactInv
<1>12. segFiles' \in Maps(Cid \X Nat, GoodLayer)
  BY <1>1 DEF Inv, TypeOK
<1> QED BY <1>1, <1>8, <1>9, <1>10, <1>11, <1>12, MaintStep

LEMMA FlushWriteKeeps ==
    ASSUME Inv, FlushWrite
    PROVE  Inv'
<1>1. PICK c \in DOMAIN maint.work \ maint.done :
         /\ segFiles' = Put(segFiles, <<c, maint.work[c].id>>, maint.work[c].layer)
         /\ maint' = [maint EXCEPT !.done = @ \cup {c}]
  BY DEF FlushWrite
<1>2. /\ maint.at = "flushWrite" /\ LockFree
      /\ UNCHANGED <<manifest, wals, phase, state, replay, failures>>
  BY DEF FlushWrite, LockFree
<1>3. /\ maint \in FlushState /\ phase = "up" /\ DOMAIN maint.work \subseteq Cid
      /\ maint.work[c].id \in Nat /\ maint.work[c].layer \in GoodLayer
  BY <1>2, FlushIs
<1>4. /\ maint.done \in SUBSET Cid /\ c \in Cid
      /\ maint' \in FlushState /\ maint'.at = "flushWrite" /\ maint'.work = maint.work
      /\ maint'.walSeq = maint.walSeq /\ maint'.done = maint.done \cup {c}
  BY <1>1, <1>2, <1>3 DEF FlushState
<1>5. LockFree'
  BY <1>4 DEF LockFree
<1>6. state.manifest.nextSeg <= maint.work[c].id
  BY <1>2 DEF Inv, FlushInv
<1>7. segFiles' \in Maps(Cid \X Nat, GoodLayer) /\ FilesInv'
  BY <1>1, <1>2, <1>3, <1>4, <1>6, NewFile
<1>8. FlushInv'
  <2>1. \A d \in maint'.done : Holds(segFiles', d, maint'.work[d])
    <3>1. ASSUME NEW d \in maint.done PROVE Holds(segFiles', d, maint.work[d])
      <4>1. Holds(segFiles, d, maint.work[d]) /\ d # c
        BY <1>2 DEF Inv, FlushInv
      <4>2. <<d, maint.work[d].id>> # <<c, maint.work[c].id>>
        BY <4>1
      <4> QED BY <1>1, <4>1, <4>2 DEF Holds, Put
    <3>2. Holds(segFiles', c, maint.work[c])
      BY <1>1 DEF Holds, Put
    <3> QED BY <1>4, <3>1, <3>2
  <2>2. \A d \in DOMAIN maint.work : ~Created(wals', maint.walSeq, d)
    BY <1>2 DEF Inv, FlushInv, Created, Creates
  <2>3. /\ state.pending # NoPending
        /\ maint.walSeq = state.pending.walSeq
        /\ Below(DOMAIN maint.work, state.manifest.nextCid)
        /\ \A d \in DOMAIN state.cols :
              /\ d \in DOMAIN maint.work <=> d \in DOMAIN state.pending.memtables
              /\ d \in DOMAIN maint.work => maint.work[d].layer = state.pending.memtables[d]
        /\ \A d \in DOMAIN maint.work :
              /\ state.manifest.nextSeg <= maint.work[d].id
              /\ maint.work[d].id < state.manifest.nextSeg + Cardinality(DOMAIN maint.work)
        /\ maint.done \subseteq DOMAIN maint.work
    BY <1>2 DEF Inv, FlushInv
  <2> QED BY <1>2, <1>4, <2>1, <2>2, <2>3 DEF FlushInv
<1>9. CompactInv'
  BY <1>4 DEF CompactInv
<1> QED BY <1>2, <1>3, <1>4, <1>5, <1>7, <1>8, <1>9, MaintStep

LEMMA CompactReadKeeps ==
    ASSUME Inv, CompactRead
    PROVE  Inv'
<1>1. /\ phase = "up" /\ LockFree
      /\ UNCHANGED <<manifest, wals, segFiles, phase, state, replay, failures>>
  BY DEF CompactRead, disk, LockFree, Idle, Failed
<1>12. PICK c \in DOMAIN state.cols : \E n \in 2..Len(state.cols[c].segments) :
         maint' = [at |-> "compactWrite", cid |-> c,
                   run |-> SubSeq(state.cols[c].segments, 1, n),
                   older |-> n < Len(state.cols[c].segments),
                   id |-> state.manifest.nextSeg]
  BY DEF CompactRead
<1>2. PICK n \in 2..Len(state.cols[c].segments) :
         maint' = [at |-> "compactWrite", cid |-> c,
                   run |-> SubSeq(state.cols[c].segments, 1, n),
                   older |-> n < Len(state.cols[c].segments),
                   id |-> state.manifest.nextSeg]
  BY <1>12
<1>3. /\ state.cols[c].segments \in Seq(Segment) /\ c \in Cid /\ GoodCol(state, c)
      /\ state.manifest.nextSeg \in Nat
  BY <1>1, ManifestsAre, ColIs, GoodIs DEF Running
<1> DEFINE segments == state.cols[c].segments
           run == SubSeq(segments, 1, n)
<1>4. /\ segments \in Seq(Segment) /\ Len(segments) \in Nat /\ n \in Nat /\ 2 <= n /\ n <= Len(segments)
      /\ c < state.manifest.nextCid
  BY <1>3 DEF GoodCol
<1> HIDE DEF segments
<1>5. run \in Seq(Segment) /\ Len(run) = n
  BY <1>4
<1> HIDE DEF run
<1>6. /\ maint'.at = "compactWrite" /\ maint'.cid = c /\ maint'.run = run
      /\ maint'.older = (n < Len(segments)) /\ maint'.id = state.manifest.nextSeg
  BY <1>2 DEF segments, run
<1>7. maint' \in CompactState /\ LockFree'
  <2>1. (n < Len(segments)) \in BOOLEAN
    OBVIOUS
  <2>2. maint' = [at |-> "compactWrite", cid |-> c, run |-> run, older |-> n < Len(segments),
                  id |-> state.manifest.nextSeg]
    BY <1>2 DEF segments, run
  <2> QED BY <1>3, <1>5, <1>6, <2>1, <2>2 DEF CompactState, LockFree
<1>8. FilesInv'
  BY <1>1 DEF Inv, FilesInv, Running
<1>9. FlushInv'
  BY <1>6 DEF FlushInv
<1>10. CompactInv'
  <2>1. /\ Len(run) <= Len(segments) /\ run = SubSeq(segments, 1, Len(run))
        /\ (n < Len(segments)) <=> Len(run) < Len(segments)
    BY <1>4, <1>5 DEF run
  <2>2. RunIsNewest(state.cols[c].segments)'
    BY <1>1, <1>6, <2>1 DEF RunIsNewest, segments
  <2> QED BY <1>1, <1>4, <1>5, <1>6, <2>2 DEF CompactInv
<1>11. segFiles' \in Maps(Cid \X Nat, GoodLayer)
  BY <1>1 DEF Inv, TypeOK
<1> QED BY <1>1, <1>7, <1>8, <1>9, <1>10, <1>11, MaintStep

LEMMA CompactWriteKeeps ==
    ASSUME Inv, CompactWrite
    PROVE  Inv'
<1>1. /\ maint.at = "compactWrite" /\ LockFree
      /\ UNCHANGED <<manifest, wals, phase, state, replay, failures>>
      /\ segFiles' = IF IsEmpty(Merged) THEN segFiles ELSE Put(segFiles, <<maint.cid, maint.id>>, Merged)
      /\ maint' = [maint EXCEPT !.at = "compactWritten"]
  BY DEF CompactWrite, LockFree
<1>2. /\ maint \in CompactState /\ phase = "up" /\ maint.cid \in Cid /\ maint.id \in Nat
      /\ Merged \in GoodLayer
  BY <1>1, CompactIs
<1>3. /\ maint' \in CompactState /\ maint'.at = "compactWritten" /\ maint'.cid = maint.cid
      /\ maint'.run = maint.run /\ maint'.older = maint.older /\ maint'.id = maint.id
  BY <1>1, <1>2 DEF CompactState
<1>4. LockFree'
  BY <1>3 DEF LockFree
<1>5. /\ maint.id = state.manifest.nextSeg
      /\ maint.cid < state.manifest.nextCid
      /\ Len(maint.run) >= 2
      /\ maint.cid \in DOMAIN state.cols => RunIsNewest(state.cols[maint.cid].segments)
  BY <1>1 DEF Inv, CompactInv
<1>6. segFiles' \in Maps(Cid \X Nat, GoodLayer) /\ FilesInv'
  <2>1. CASE IsEmpty(Merged)
    <3>1. segFiles' = segFiles
      BY <1>1, <2>1
    <3> QED BY <1>1, <3>1 DEF Inv, TypeOK, FilesInv, Running
  <2>2. CASE ~IsEmpty(Merged)
    <3>1. segFiles' = Put(segFiles, <<maint.cid, maint.id>>, Merged)
      BY <1>1, <2>2
    <3>2. state.manifest.nextSeg <= maint.id
      BY <1>2, <1>5
    <3> QED BY <1>1, <1>2, <3>1, <3>2, NewFile
  <2> QED BY <2>1, <2>2
<1>7. FlushInv'
  BY <1>3 DEF FlushInv
<1>8. Merged' = Merged
  BY <1>3 DEF Merged, SegLayers
<1>9. CompactInv'
  <2>1. ~IsEmpty(Merged) => Holds(segFiles', maint.cid, [id |-> maint.id, layer |-> Merged])
    <3>1. ~IsEmpty(Merged) => segFiles' = Put(segFiles, <<maint.cid, maint.id>>, Merged)
      BY <1>1
    <3> QED BY <3>1 DEF Holds, Put
  <2>2. maint.cid \in DOMAIN state.cols => RunIsNewest(state.cols[maint.cid].segments)'
    BY <1>1, <1>3, <1>5 DEF RunIsNewest
  <2> QED BY <1>1, <1>3, <1>5, <1>8, <2>1, <2>2 DEF CompactInv
<1> QED BY <1>1, <1>2, <1>3, <1>4, <1>6, <1>7, <1>9, MaintStep

\* A thread that gives up, or finds nothing to do, leaves everything as it is.
LEMMA GivesUp ==
    ASSUME Inv, LockFree, maint.at \in {"flushWrite", "compactWrite", "compactWritten"},
           UNCHANGED <<manifest, wals, segFiles, phase, state, replay, failures>>,
           maint' \in {Idle, Failed}
    PROVE  Inv'
<1>1. phase = "up"
  BY FlushIs, CompactIs
<1>2. maint'.at \in {"idle", "failed"} /\ LockFree'
  BY DEF Idle, Failed, LockFree
<1>3. FilesInv' /\ segFiles' \in Maps(Cid \X Nat, GoodLayer)
  BY DEF Inv, FilesInv, Running, TypeOK
<1>4. FlushInv' /\ CompactInv'
  BY <1>2 DEF FlushInv, CompactInv
<1> QED BY <1>1, <1>2, <1>3, <1>4, MaintStep

LEMMA MaintFailKeeps ==
    ASSUME Inv, MaintFail
    PROVE  Inv'
BY GivesUp DEF MaintFail, disk, LockFree

----------------------------------------------------------------------------
(* The commit of a flush *)

\* The segments of a collection once the flush is done
After(c) ==
    IF c \in DOMAIN maint.work THEN <<Flushed(c)>> \o state.cols[c].segments
    ELSE state.cols[c].segments

NextSegs == state.manifest.nextSeg + Cardinality(DOMAIN maint.work)

LEMMA AfterIs ==
    ASSUME Inv, maint.at \in {"flushWrite", "flushStored"}, NEW c \in DOMAIN state.cols
    PROVE  /\ After(c) \in Seq(Segment) /\ SegIds(After(c)) \in Seq(Nat)
           /\ GoodIds(SegIds(After(c)), NextSegs)
           /\ Backwards(SegIds(state.cols[c].segments))
              \o (IF c \in DOMAIN maint.work THEN <<maint.work[c].id>> ELSE <<>>)
                = Backwards(SegIds(After(c)))
           /\ \A i \in DOMAIN After(c) :
                 \/ c \in DOMAIN maint.work /\ After(c)[i] = Flushed(c)
                 \/ \E j \in DOMAIN state.cols[c].segments : After(c)[i] = state.cols[c].segments[j]
<1> DEFINE segs == state.cols[c].segments
           seg == Flushed(c)
           next == state.manifest.nextSeg
           next2 == NextSegs
<1>1. /\ phase = "up" /\ Cardinality(DOMAIN maint.work) \in Nat
      /\ \A d \in DOMAIN maint.work : /\ maint.work[d] \in Segment /\ maint.work[d].id \in Nat
                                      /\ maint.work[d].layer \in GoodLayer
  BY FlushIs
<1>2. /\ segs \in Seq(Segment) /\ GoodCol(state, c) /\ next \in Nat
  BY <1>1, ManifestsAre, GoodIs, ColIs DEF Running
<1>3. next2 \in Nat /\ next <= next2
  BY <1>1, <1>2 DEF NextSegs
<1>4. SegIds(segs) \in Seq(Nat) /\ GoodIds(SegIds(segs), next)
  BY <1>2, SegmentsAre DEF GoodCol
<1>5. CASE c \in DOMAIN maint.work
  <2>1. /\ seg \in Segment /\ seg.id = maint.work[c].id /\ seg.id \in Nat
    BY <1>1, <1>5 DEF Flushed, Segment
  <2>2. next <= seg.id /\ seg.id < next2
    BY <1>5, <2>1 DEF Inv, FlushInv, NextSegs
  <2>3. After(c) = <<seg>> \o segs
    BY <1>5 DEF After
  <2> HIDE DEF segs, seg, next, next2
  <2>4. /\ <<seg>> \o segs \in Seq(Segment)
        /\ SegIds(<<seg>> \o segs) = <<seg.id>> \o SegIds(segs)
        /\ Backwards(SegIds(segs)) \o <<seg.id>> = Backwards(SegIds(<<seg>> \o segs))
        /\ \A i \in DOMAIN (<<seg>> \o segs) :
              \/ (<<seg>> \o segs)[i] = seg
              \/ \E j \in DOMAIN segs : (<<seg>> \o segs)[i] = segs[j]
    BY <1>2, <2>1, InFrontIds
  <2>5. GoodIds(<<seg.id>> \o SegIds(segs), next2)
    BY <1>2, <1>3, <1>4, <2>1, <2>2, GoodIdsInFront
  <2>6. SegIds(<<seg>> \o segs) \in Seq(Nat)
    BY <2>4, SegmentsAre
  <2> QED BY <1>5, <2>1, <2>3, <2>4, <2>5, <2>6 DEF segs, seg, next2
<1>6. CASE c \notin DOMAIN maint.work
  <2>1. After(c) = segs
    BY <1>6 DEF After
  <2> HIDE DEF segs, seg, next, next2
  <2>2. GoodIds(SegIds(segs), next2)
    BY <1>2, <1>3, <1>4, GoodIdsMore
  <2>3. Backwards(SegIds(segs)) \in Seq(Nat)
    BY <1>4, BackwardsIs
  <2>4. Backwards(SegIds(segs)) \o <<>> = Backwards(SegIds(segs))
    BY <2>3
  <2> QED BY <1>2, <1>4, <1>6, <2>1, <2>2, <2>4 DEF segs, next2
<1> QED BY <1>5, <1>6

LEMMA FlushedManifestIs ==
    ASSUME Inv, maint.at \in {"flushWrite", "flushStored"}
    PROVE  /\ FlushedManifest \in Manifest
           /\ FlushedManifest.nextCid = state.manifest.nextCid
           /\ FlushedManifest.nextSeg = NextSegs
           /\ FlushedManifest.walSeq = maint.walSeq
           /\ DOMAIN FlushedManifest.cols = DOMAIN state.cols
           /\ \A c \in DOMAIN state.cols :
                 FlushedManifest.cols[c].segs = Backwards(SegIds(After(c)))
<1>1. /\ phase = "up" /\ Cardinality(DOMAIN maint.work) \in Nat /\ maint.walSeq \in Nat
  BY FlushIs
<1>2. /\ state.manifest.nextSeg \in Nat /\ state.manifest.nextCid \in Nat
      /\ state.manifest.gen \in Nat /\ state \in StoreState
  BY <1>1, ManifestsAre DEF Running, Manifest
<1> DEFINE segsOf(c) == Backwards(SegIds(state.cols[c].segments))
                        \o (IF c \in DOMAIN maint.work THEN <<maint.work[c].id>> ELSE <<>>)
           cols == [c \in DOMAIN state.cols |-> [name |-> state.cols[c].name, segs |-> segsOf(c)]]
<1>3. ASSUME NEW c \in DOMAIN state.cols
      PROVE  /\ segsOf(c) = Backwards(SegIds(After(c))) /\ segsOf(c) \in Seq(Nat)
             /\ state.cols[c].name \in Name /\ c \in Cid
  <2>1. segsOf(c) = Backwards(SegIds(After(c))) /\ SegIds(After(c)) \in Seq(Nat)
    BY AfterIs
  <2>2. segsOf(c) \in Seq(Nat)
    BY <2>1, BackwardsIs
  <2>3. state.cols[c] \in Col /\ c \in Cid
    BY <1>2, ColIs
  <2> QED BY <2>1, <2>2, <2>3 DEF Col
<1> HIDE DEF segsOf
<1>4. cols \in Maps(Cid, ListedCol) /\ DOMAIN cols = DOMAIN state.cols
  <2>1. DOMAIN state.cols \subseteq Cid
    BY <1>3
  <2>2. cols \in [DOMAIN state.cols -> ListedCol]
    BY <1>3 DEF ListedCol
  <2> HIDE DEF cols
  <2> QED BY <2>1, <2>2, MapsIs
<1>5. \A c \in DOMAIN state.cols : cols[c].segs = Backwards(SegIds(After(c)))
  BY <1>3
<1>6. FlushedManifest = [gen |-> state.manifest.gen + 1, nextCid |-> state.manifest.nextCid,
                         nextSeg |-> NextSegs, walSeq |-> maint.walSeq, cols |-> cols]
  BY DEF FlushedManifest, NextSegs, segsOf
<1> HIDE DEF cols
<1>7. NextSegs \in Nat /\ state.manifest.gen + 1 \in Nat
  BY <1>1, <1>2 DEF NextSegs
<1>8. FlushedManifest \in Manifest
  BY <1>1, <1>2, <1>4, <1>6, <1>7 DEF Manifest
<1> QED BY <1>4, <1>5, <1>6, <1>8

\* A directory whose number is on one of the lists a flush writes is there.
LEMMA AfterOnDisk ==
    ASSUME Inv, maint.at \in {"flushWrite", "flushStored"}, maint.done = DOMAIN maint.work,
           NEW c \in DOMAIN state.cols, NEW i \in DOMAIN After(c)
    PROVE  Holds(segFiles, c, After(c)[i])
<1>1. CASE c \in DOMAIN maint.work /\ After(c)[i] = Flushed(c)
  <2>1. Holds(segFiles, c, maint.work[c])
    BY <1>1 DEF Inv, FlushInv
  <2> QED BY <1>1, <2>1 DEF Holds, Flushed
<1>2. CASE \E j \in DOMAIN state.cols[c].segments : After(c)[i] = state.cols[c].segments[j]
  <2>1. phase = "up"
    BY FlushIs
  <2> QED BY <1>2, <2>1 DEF Inv, FilesInv, Running
<1> QED BY <1>1, <1>2, AfterIs

LEMMA FlushStoreKeeps ==
    ASSUME Inv, FlushStore
    PROVE  Inv'
<1>1. /\ maint.at = "flushWrite" /\ maint.done = DOMAIN maint.work
      /\ manifest' = FlushedManifest
      /\ maint' = [maint EXCEPT !.at = "flushStored"]
      /\ UNCHANGED <<wals, segFiles, phase, state, replay, failures>>
  BY DEF FlushStore
<1>2. /\ maint \in FlushState /\ phase = "up" /\ state.pending # NoPending
  BY <1>1, FlushIs
<1>3. /\ maint' \in FlushState /\ maint'.at = "flushStored" /\ maint'.work = maint.work
      /\ maint'.walSeq = maint.walSeq /\ maint'.done = maint.done
  BY <1>1, <1>2 DEF FlushState
<1>4. /\ manifest' \in Manifest
      /\ manifest'.nextCid = state.manifest.nextCid
      /\ manifest'.nextSeg = NextSegs
      /\ manifest'.walSeq = maint.walSeq
      /\ DOMAIN manifest'.cols = DOMAIN state.cols
      /\ \A c \in DOMAIN state.cols : manifest'.cols[c].segs = Backwards(SegIds(After(c)))
  BY <1>1, FlushedManifestIs
<1>5. /\ Good(state) /\ manifest.walSeq \in Nat /\ state.wal \in Nat /\ maint.walSeq \in Nat
  BY <1>1, <1>2, ManifestsAre, FlushIs DEF Running
<1>6. /\ maint.walSeq = state.pending.walSeq /\ state.wal = state.pending.walSeq + 1
      /\ manifest.walSeq <= state.pending.walSeq
      /\ state.wal \in DOMAIN wals /\ state.pending.walSeq \in DOMAIN wals
  BY <1>1, <1>2 DEF Inv, FlushInv, LogInv
<1>7. TypeOK'
  BY <1>1, <1>3, <1>4 DEF Inv, TypeOK, Running
<1>8. StateInv'
  BY <1>1 DEF Inv, StateInv, Running
<1>9. ManifestInv'
  <2>1. Below(DOMAIN manifest'.cols, manifest'.nextCid)
    BY <1>4, <1>5, GoodIs DEF Below, GoodCol
  <2>2. ASSUME NEW c \in DOMAIN state.cols PROVE GoodIds(manifest'.cols[c].segs, manifest'.nextSeg)
    <3>1. SegIds(After(c)) \in Seq(Nat) /\ GoodIds(SegIds(After(c)), NextSegs)
      BY <1>1, AfterIs
    <3> QED BY <1>4, <3>1, GoodIdsBackwards
  <2> QED BY <1>4, <2>1, <2>2 DEF ManifestInv
<1>10. FilesInv'
  <2>1. ASSUME NEW c \in DOMAIN state.cols, NEW i \in DOMAIN manifest'.cols[c].segs
        PROVE  <<c, manifest'.cols[c].segs[i]>> \in DOMAIN segFiles
    <3>1. After(c) \in Seq(Segment) /\ SegIds(After(c)) \in Seq(Nat)
      BY <1>1, AfterIs
    <3>2. PICK j \in DOMAIN SegIds(After(c)) : manifest'.cols[c].segs[i] = SegIds(After(c))[j]
      BY <1>4, <3>1, BackwardsEntries
    <3>3. j \in DOMAIN After(c) /\ SegIds(After(c))[j] = After(c)[j].id
      BY <3>1, <3>2, SegmentsAre
    <3>4. Holds(segFiles, c, After(c)[j])
      BY <1>1, <3>3, AfterOnDisk
    <3> QED BY <3>2, <3>3, <3>4 DEF Holds
  <2> QED BY <1>1, <1>4, <2>1 DEF Inv, FilesInv, Running, Holds
<1>11. FollowInv'
  <2>1. FlushedManifest' = FlushedManifest
    BY <1>1, <1>3 DEF FlushedManifest
  <2> QED BY <1>1, <1>2, <1>3, <2>1 DEF FollowInv, LockFree
<1>12. ListInv'
  BY <1>1 DEF Inv, ListInv
<1>13. LogInv'
  BY <1>1, <1>4, <1>5, <1>6 DEF Inv, LogInv
<1>14. CreateInv'
  <2>0. \A c : Created(wals', maint.walSeq, c) <=> Created(wals, maint.walSeq, c)
    BY <1>1
  <2>1. ASSUME NEW c \in DOMAIN state.cols, Created(wals, maint.walSeq, c)
        PROVE  state.cols[c].segments = <<>> /\ c \notin DOMAIN maint.work
    <3>1. Created(wals, manifest.walSeq, c)
      <4>1. DOMAIN wals \subseteq Nat
        BY MapsIs DEF Inv, TypeOK, Logs
      <4> QED BY <1>5, <1>6, <2>1, <4>1 DEF Created
    <3> QED BY <1>1, <1>2, <2>1, <3>1 DEF Inv, CreateInv, FlushInv, Running
  <2>2. ASSUME NEW c \in DOMAIN state.cols, Created(wals, maint.walSeq, c)
        PROVE  manifest'.cols[c].segs = <<>>
    <3>1. After(c) = <<>>
      BY <2>1, <2>2 DEF After
    <3> QED BY <1>4, <3>1, NoSegments
  <2>3. \A c \in Cid : ~Created(wals, state.wal, c)
    BY <1>2 DEF Inv, CreateInv
  <2>4. \A c \in DOMAIN state.pending.memtables : ~Created(wals, state.pending.walSeq, c)
    BY <1>2 DEF Inv, CreateInv
  <2> QED BY <1>1, <1>4, <2>1, <2>2, <2>3, <2>4 DEF CreateInv, Running
<1>15. ReplayInv'
  BY <1>1, <1>2 DEF ReplayInv
<1>16. FlushInv'
  <2>1. /\ state.pending # NoPending
        /\ maint.walSeq = state.pending.walSeq
        /\ Below(DOMAIN maint.work, state.manifest.nextCid)
        /\ \A d \in DOMAIN state.cols :
              /\ d \in DOMAIN maint.work <=> d \in DOMAIN state.pending.memtables
              /\ d \in DOMAIN maint.work => maint.work[d].layer = state.pending.memtables[d]
        /\ \A d \in DOMAIN maint.work :
              /\ state.manifest.nextSeg <= maint.work[d].id
              /\ maint.work[d].id < state.manifest.nextSeg + Cardinality(DOMAIN maint.work)
              /\ ~Created(wals, maint.walSeq, d)
        /\ maint.done \subseteq DOMAIN maint.work
        /\ \A d \in maint.done : Holds(segFiles, d, maint.work[d])
    BY <1>1 DEF Inv, FlushInv
  <2> QED BY <1>1, <1>3, <2>1 DEF FlushInv, Holds
<1>17. CompactInv'
  BY <1>3 DEF CompactInv
<1> QED
  BY <1>7, <1>8, <1>9, <1>10, <1>11, <1>12, <1>13, <1>14, <1>15, <1>16, <1>17 DEF Inv

\* The second half of a commit: memory takes the manifest on disk over.  Logs
\* that it covers may go, once nothing is pending.
FewerLogs(files) ==
    \E S : /\ files = Keep(wals, S)
           /\ \A s \in DOMAIN wals : s > manifest.walSeq => s \in S

LEMMA FewerLogsAre ==
    ASSUME Inv, NEW files, FewerLogs(files)
    PROVE  /\ files \in Logs /\ DOMAIN files \subseteq DOMAIN wals
           /\ \A s \in DOMAIN wals : s > manifest.walSeq => s \in DOMAIN files
           /\ \A s \in DOMAIN files : files[s] = wals[s]
           /\ \A seq, c : Created(files, seq, c) => Created(wals, seq, c)
<1>1. PICK S : /\ files = Keep(wals, S)
               /\ \A s \in DOMAIN wals : s > manifest.walSeq => s \in S
  BY DEF FewerLogs
<1>2. /\ DOMAIN files = DOMAIN wals \cap S
      /\ \A s \in DOMAIN files : files[s] = wals[s]
  BY <1>1 DEF Keep
<1>3. files \in Logs
  <2>1. wals \in Maps(Nat, Seq(WalRecord))
    BY DEF Inv, TypeOK, Logs
  <2> QED BY <1>1, <2>1, KeepType DEF Logs
<1>4. \A seq, c : Created(files, seq, c) => Created(wals, seq, c)
  BY <1>2 DEF Created, Creates
<1> QED BY <1>1, <1>2, <1>3, <1>4

LEMMA CommitStep ==
    ASSUME Inv, maint.at \in {"flushStored", "compactStored"},
           UNCHANGED <<manifest, phase, replay>>,
           maint' \in {Idle, Failed},
           Good(state'), state'.manifest = manifest, state'.wal = state.wal,
           DOMAIN state'.cols = DOMAIN state.cols,
           state'.pending = state.pending \/ state'.pending = NoPending,
           FewerLogs(wals'), state'.pending # NoPending => wals' = wals,
           failures' \in Nat, segFiles' \in Maps(Cid \X Nat, GoodLayer),
           FilesInv', ListInv',
           \A c \in DOMAIN state.cols :
              Created(wals, manifest.walSeq, c) => state'.cols[c].segments = <<>>
    PROVE  Inv'
<1>1. phase = "up" /\ manifest.walSeq \in Nat /\ state.wal \in Nat
  <2>1. phase = "up"
    BY FlushIs, CompactIs
  <2> QED BY <2>1, ManifestsAre DEF Running
<1>2. /\ wals' \in Logs /\ DOMAIN wals' \subseteq DOMAIN wals
      /\ \A s \in DOMAIN wals : s > manifest.walSeq => s \in DOMAIN wals'
      /\ \A seq, c : Created(wals', seq, c) => Created(wals, seq, c)
  BY FewerLogsAre
<1>3. maint'.at \in {"idle", "failed"}
  BY DEF Idle, Failed
<1>4. TypeOK'
  BY <1>2, GoodIs DEF Inv, TypeOK, Running
<1>5. StateInv'
  BY DEF StateInv
<1>6. ManifestInv'
  BY DEF Inv, ManifestInv
<1>7. FollowInv'
  <2>1. /\ manifest = [manifest EXCEPT !.nextCid = manifest.nextCid]
        /\ manifest.nextCid <= manifest.nextCid
    BY ManifestsAre DEF Manifest
  <2> QED BY <1>1, <1>3, <2>1 DEF FollowInv
<1>8. LogInv'
  <2>1. /\ manifest.walSeq < state.wal /\ state.wal \in DOMAIN wals
        /\ state.pending # NoPending =>
              /\ manifest.walSeq <= state.pending.walSeq
              /\ state.wal = state.pending.walSeq + 1
              /\ state.pending.walSeq \in DOMAIN wals
    BY <1>1 DEF Inv, LogInv
  <2>2. \E n \in Nat : DOMAIN wals' \subseteq 0..n
    BY <1>2 DEF Inv, LogInv
  <2>3. state.wal \in DOMAIN wals'
    BY <1>1, <1>2, <2>1
  <2> QED BY <2>1, <2>2, <2>3 DEF LogInv
<1>9. CreateInv'
  <2>1. \A c \in DOMAIN manifest.cols :
           Created(wals', manifest.walSeq, c) => manifest.cols[c].segs = <<>>
    BY <1>2 DEF Inv, CreateInv
  <2>2. \A c \in DOMAIN state'.cols :
           Created(wals', manifest.walSeq, c) => state'.cols[c].segments = <<>>
    BY <1>2
  <2>3. \A c \in Cid : ~Created(wals', state'.wal, c)
    BY <1>1, <1>2 DEF Inv, CreateInv
  <2>4. state'.pending # NoPending =>
          \A c \in DOMAIN state'.pending.memtables : ~Created(wals', state'.pending.walSeq, c)
    BY <1>1 DEF Inv, CreateInv
  <2> QED BY <2>1, <2>2, <2>3, <2>4 DEF CreateInv
<1>10. ReplayInv'
  BY <1>1 DEF ReplayInv
<1>11. FlushInv' /\ CompactInv'
  BY <1>3 DEF FlushInv, CompactInv
<1> QED BY <1>4, <1>5, <1>6, <1>7, <1>8, <1>9, <1>10, <1>11 DEF Inv

\* Memory after the segments of cids were opened
IsFlushed(st, cids, pend) ==
    /\ Good(st) /\ st.manifest = manifest /\ st.wal = state.wal /\ st.pending = pend
    /\ DOMAIN st.cols = DOMAIN state.cols
    /\ \A c \in DOMAIN state.cols :
          st.cols[c].segments = IF c \in cids THEN After(c) ELSE state.cols[c].segments
    /\ SameReads(state, st) /\ SameCatalog(state, st)

LEMMA WithFlushedIs ==
    ASSUME Inv, maint.at = "flushStored", NEW cids, cids \subseteq DOMAIN maint.work,
           NEW pend \in {state.pending, NoPending},
           pend = NoPending => cids = DOMAIN maint.work
    PROVE  IsFlushed([WithFlushed(cids) EXCEPT !.pending = pend], cids, pend)
<1> DEFINE cols == [c \in DOMAIN state.cols |->
                      IF c \in cids THEN InFront(state.cols[c], Flushed(c)) ELSE state.cols[c]]
           st == [WithFlushed(cids) EXCEPT !.pending = pend]
<1>1. /\ phase = "up" /\ Good(state) /\ state \in StoreState /\ manifest \in Manifest
      /\ \A c \in DOMAIN maint.work : /\ maint.work[c] \in Segment /\ maint.work[c].id \in Nat
                                      /\ maint.work[c].layer \in GoodLayer
      /\ state.pending # NoPending
  BY FlushIs, ManifestsAre DEF Running
<1>2. /\ manifest = FlushedManifest /\ manifest.nextCid = state.manifest.nextCid
      /\ manifest.nextSeg = NextSegs /\ DOMAIN manifest.cols = DOMAIN state.cols
      /\ NextSegs \in Nat /\ state.manifest.nextSeg <= NextSegs
  <2>1. manifest = FlushedManifest
    BY DEF Inv, FollowInv
  <2>2. /\ FlushedManifest.nextCid = state.manifest.nextCid
        /\ FlushedManifest.nextSeg = NextSegs /\ DOMAIN FlushedManifest.cols = DOMAIN state.cols
    BY FlushedManifestIs
  <2>3. NextSegs \in Nat /\ state.manifest.nextSeg <= NextSegs
    BY <1>1, FlushIs, ManifestsAre DEF NextSegs, Running
  <2> QED BY <2>1, <2>2, <2>3
<1>3. ASSUME NEW c \in DOMAIN state.cols
      PROVE  /\ c \in Cid /\ cols[c] \in Col /\ cols[c].memtable = state.cols[c].memtable
             /\ cols[c].liveLen = state.cols[c].liveLen /\ cols[c].name = state.cols[c].name
             /\ cols[c].segments = IF c \in cids THEN After(c) ELSE state.cols[c].segments
             /\ GoodIds(SegIds(cols[c].segments), NextSegs)
  <2>1. /\ state.cols[c] \in Col /\ c \in Cid /\ state.cols[c].segments \in Seq(Segment)
        /\ GoodIds(SegIds(state.cols[c].segments), state.manifest.nextSeg)
        /\ state.manifest.nextSeg \in Nat
    BY <1>1, ColIs, GoodIs, ManifestsAre DEF GoodCol, Running
  <2>2. After(c) \in Seq(Segment) /\ GoodIds(SegIds(After(c)), NextSegs)
    BY AfterIs
  <2>3. CASE c \in cids
    <3>1. cols[c] = [state.cols[c] EXCEPT !.segments = After(c)]
      BY <2>3 DEF After, InFront
    <3> QED BY <2>1, <2>2, <2>3, <3>1 DEF Col
  <2>4. CASE c \notin cids
    <3>1. cols[c] = state.cols[c]
      BY <2>4
    <3>2. SegIds(state.cols[c].segments) \in Seq(Nat)
      BY <2>1, SegmentsAre
    <3>3. GoodIds(SegIds(state.cols[c].segments), NextSegs)
      BY <1>2, <2>1, <3>2, GoodIdsMore
    <3> QED BY <2>1, <2>4, <3>1, <3>3
  <2> QED BY <2>3, <2>4
<1>4. cols \in Maps(Cid, Col) /\ DOMAIN cols = DOMAIN state.cols
  <2>1. DOMAIN state.cols \subseteq Cid /\ cols \in [DOMAIN state.cols -> Col]
    BY <1>3
  <2> HIDE DEF cols
  <2> QED BY <2>1, MapsIs
<1>5. st = Committed(state, manifest, cols, pend)
  BY <1>1 DEF WithFlushed, Committed, StoreState
<1> HIDE DEF cols, st
<1>6. FitsManifest(state, manifest, cols)
  BY <1>2, <1>3, <1>4 DEF FitsManifest
<1>7. ASSUME NEW c \in DOMAIN state.cols
      PROVE  \/ FlushedInto(state, cols, c)
             \/ /\ cols[c].segments = state.cols[c].segments
                /\ Waits(state, c) => pend = state.pending
  <2>1. CASE c \in cids
    <3>1. c \in DOMAIN maint.work /\ maint.work[c].layer = state.pending.memtables[c]
          /\ c \in DOMAIN state.pending.memtables
      BY <2>1 DEF Inv, FlushInv
    <3>2. Flushed(c) \in Segment /\ Flushed(c).layer = state.pending.memtables[c]
      BY <1>1, <3>1 DEF Flushed, Segment
    <3>3. cols[c].segments = <<Flushed(c)>> \o state.cols[c].segments
      BY <1>3, <2>1, <3>1 DEF After
    <3> QED BY <1>1, <3>1, <3>2, <3>3 DEF FlushedInto, Waits
  <2>2. CASE c \notin cids
    <3>1. Waits(state, c) => c \in DOMAIN maint.work
      BY DEF Inv, FlushInv, Waits
    <3> QED BY <1>3, <2>2, <3>1
  <2> QED BY <2>1, <2>2
<1>8. SameReads(state, Committed(state, manifest, cols, pend))
  BY <1>1, <1>4, <1>6, <1>7, FlushReads
<1>9. Below(DOMAIN manifest.cols, manifest.nextCid)
  BY DEF Inv, ManifestInv
<1>10. Good(Committed(state, manifest, cols, pend))
  BY <1>1, <1>2, <1>4, <1>6, <1>8, <1>9, CommittedGood
<1>11. /\ st.manifest = manifest /\ st.wal = state.wal /\ st.pending = pend /\ st.cols = cols
       /\ st.names = state.names
  BY <1>1, <1>4, <1>5, CommittedIs
<1>13. SameReads(state, st) /\ SameCatalog(state, st)
  BY <1>3, <1>5, <1>8, <1>11 DEF SameCatalog
<1>12. IsFlushed(st, cids, pend)
  BY <1>3, <1>4, <1>5, <1>10, <1>11, <1>13 DEF IsFlushed
<1> QED BY <1>12 DEF st

\* The directories on the lists survive every clean-up that spares them.
LEMMA ListedStay ==
    ASSUME Inv, NEW S, DOMAIN Referenced(manifest, segFiles) \subseteq S
    PROVE  /\ Keep(segFiles, S) \in Maps(Cid \X Nat, GoodLayer)
           /\ \A c \in DOMAIN manifest.cols : \A i \in DOMAIN manifest.cols[c].segs :
                 /\ <<c, manifest.cols[c].segs[i]>> \in DOMAIN Keep(segFiles, S)
                 /\ Keep(segFiles, S)[<<c, manifest.cols[c].segs[i]>>]
                      = segFiles[<<c, manifest.cols[c].segs[i]>>]
<1> DEFINE files == Keep(segFiles, S)
<1>1. files \in Maps(Cid \X Nat, GoodLayer)
  <2>1. segFiles \in Maps(Cid \X Nat, GoodLayer)
    BY DEF Inv, TypeOK
  <2> QED BY <2>1, KeepType
<1>2. ASSUME NEW key \in DOMAIN segFiles, key[1] \in DOMAIN manifest.cols,
             \E i \in DOMAIN manifest.cols[key[1]].segs : manifest.cols[key[1]].segs[i] = key[2]
      PROVE  key \in DOMAIN files /\ files[key] = segFiles[key]
  <2>1. key \in DOMAIN Referenced(manifest, segFiles)
    BY <1>2 DEF Referenced, Keep
  <2> QED BY <2>1 DEF Keep
<1>3. ASSUME NEW c \in DOMAIN manifest.cols, NEW i \in DOMAIN manifest.cols[c].segs
      PROVE  /\ <<c, manifest.cols[c].segs[i]>> \in DOMAIN files
             /\ files[<<c, manifest.cols[c].segs[i]>>] = segFiles[<<c, manifest.cols[c].segs[i]>>]
  <2> DEFINE key == <<c, manifest.cols[c].segs[i]>>
  <2>1. key \in DOMAIN segFiles
    BY DEF Inv, FilesInv
  <2>2. key[1] = c /\ key[2] = manifest.cols[c].segs[i]
    OBVIOUS
  <2> HIDE DEF key
  <2>3. key \in DOMAIN files /\ files[key] = segFiles[key]
    BY <1>2, <2>1, <2>2
  <2> QED BY <2>3 DEF key
<1> QED BY <1>1, <1>3

LEMMA ReferencedStay ==
    ASSUME Inv, maint.at = "flushStored", NEW S, DOMAIN Referenced(manifest, segFiles) \subseteq S
    PROVE  /\ Keep(segFiles, S) \in Maps(Cid \X Nat, GoodLayer)
           /\ \A c \in DOMAIN manifest.cols : \A i \in DOMAIN manifest.cols[c].segs :
                 <<c, manifest.cols[c].segs[i]>> \in DOMAIN Keep(segFiles, S)
           /\ \A c \in DOMAIN state.cols : \A i \in DOMAIN After(c) :
                 Holds(Keep(segFiles, S), c, After(c)[i])
<1> DEFINE files == Keep(segFiles, S)
<1>1. files \in Maps(Cid \X Nat, GoodLayer)
  BY ListedStay
<1>3. ASSUME NEW c \in DOMAIN manifest.cols, NEW i \in DOMAIN manifest.cols[c].segs
      PROVE  /\ <<c, manifest.cols[c].segs[i]>> \in DOMAIN files
             /\ files[<<c, manifest.cols[c].segs[i]>>] = segFiles[<<c, manifest.cols[c].segs[i]>>]
  BY ListedStay
<1>4. ASSUME NEW c \in DOMAIN state.cols, NEW i \in DOMAIN After(c)
      PROVE  Holds(files, c, After(c)[i])
  <2>1. /\ c \in DOMAIN manifest.cols
        /\ manifest.cols[c].segs = Backwards(SegIds(After(c)))
    BY FlushedManifestIs DEF Inv, FollowInv
  <2>2. After(c) \in Seq(Segment) /\ SegIds(After(c)) \in Seq(Nat)
    BY AfterIs
  <2>3. i \in DOMAIN SegIds(After(c)) /\ SegIds(After(c))[i] = After(c)[i].id
    BY <2>2, SegmentsAre
  <2>4. PICK j \in DOMAIN manifest.cols[c].segs : manifest.cols[c].segs[j] = SegIds(After(c))[i]
    BY <2>1, <2>2, <2>3, BackwardsEntries
  <2>5. Holds(segFiles, c, After(c)[i])
    <3>1. maint.done = DOMAIN maint.work
      BY DEF Inv, FlushInv
    <3> QED BY <3>1, AfterOnDisk
  <2> HIDE DEF files
  <2> QED BY <1>3, <2>1, <2>3, <2>4, <2>5 DEF Holds
<1> QED BY <1>1, <1>3, <1>4

LEMMA FlushCommits ==
    ASSUME Inv, maint.at = "flushStored", NEW cids, cids \subseteq DOMAIN maint.work,
           NEW pend \in {state.pending, NoPending},
           pend = NoPending => cids = DOMAIN maint.work,
           state' = [WithFlushed(cids) EXCEPT !.pending = pend],
           NEW S, DOMAIN Referenced(manifest, segFiles) \subseteq S, segFiles' = Keep(segFiles, S),
           cids = DOMAIN maint.work \/ segFiles' = segFiles,
           FewerLogs(wals'), pend # NoPending => wals' = wals,
           maint' \in {Idle, Failed}, failures' \in Nat,
           failures' = 0 => cids = DOMAIN maint.work,
           UNCHANGED <<manifest, phase, replay>>
    PROVE  Inv'
<1>1. /\ Good(state') /\ state'.manifest = manifest /\ state'.wal = state.wal
      /\ state'.pending = pend /\ DOMAIN state'.cols = DOMAIN state.cols
      /\ \A c \in DOMAIN state.cols :
            state'.cols[c].segments = IF c \in cids THEN After(c) ELSE state.cols[c].segments
  <2>1. IsFlushed([WithFlushed(cids) EXCEPT !.pending = pend], cids, pend)
    BY WithFlushedIs
  <2> QED BY <2>1 DEF IsFlushed
<1>2. /\ segFiles' \in Maps(Cid \X Nat, GoodLayer)
      /\ \A c \in DOMAIN manifest.cols : \A i \in DOMAIN manifest.cols[c].segs :
            <<c, manifest.cols[c].segs[i]>> \in DOMAIN segFiles'
      /\ \A c \in DOMAIN state.cols : \A i \in DOMAIN After(c) : Holds(segFiles', c, After(c)[i])
  BY ReferencedStay
<1>3. phase = "up"
  BY FlushIs
<1>4. \A c \in DOMAIN state.cols : c \notin DOMAIN maint.work => After(c) = state.cols[c].segments
  BY DEF After
<1>5. FilesInv'
  <2>1. ASSUME NEW c \in DOMAIN state'.cols, NEW i \in DOMAIN state'.cols[c].segments
        PROVE  Holds(segFiles', c, state'.cols[c].segments[i])
    <3>1. CASE state'.cols[c].segments = After(c)
      BY <1>1, <1>2, <3>1
    <3>2. CASE state'.cols[c].segments # After(c)
      <4>1. state'.cols[c].segments = state.cols[c].segments /\ segFiles' = segFiles
        BY <1>1, <1>4, <3>2
      <4>2. i \in DOMAIN state.cols[c].segments /\ c \in DOMAIN state.cols
        BY <1>1, <4>1
      <4>3. Holds(segFiles, c, state.cols[c].segments[i])
        BY <1>3, <4>2 DEF Inv, FilesInv, Running
      <4> QED BY <4>1, <4>3
    <3> QED BY <3>1, <3>2
  <2> QED BY <1>2, <2>1 DEF FilesInv, Holds
<1>6. ListInv'
  <2> SUFFICES ASSUME failures' = 0, NEW c \in DOMAIN state'.cols
               PROVE  SegIds(state'.cols[c].segments) = Backwards(state'.manifest.cols[c].segs)
    BY <1>3 DEF ListInv
  <2>1. state'.cols[c].segments = After(c) /\ c \in DOMAIN state.cols
    BY <1>1, <1>4
  <2>2. manifest.cols[c].segs = Backwards(SegIds(After(c)))
    BY <2>1, FlushedManifestIs DEF Inv, FollowInv
  <2>3. SegIds(After(c)) \in Seq(Nat)
    BY <2>1, AfterIs
  <2>4. Backwards(Backwards(SegIds(After(c)))) = SegIds(After(c))
    BY <2>3, BackwardsIs
  <2> QED BY <1>1, <2>1, <2>2, <2>4
<1>7. ASSUME NEW c \in DOMAIN state.cols, Created(wals, manifest.walSeq, c)
      PROVE  state'.cols[c].segments = <<>>
  <2>1. state.cols[c].segments = <<>>
    BY <1>3, <1>7 DEF Inv, CreateInv, Running
  <2>2. manifest.walSeq = maint.walSeq
    BY FlushedManifestIs DEF Inv, FollowInv
  <2>3. c \notin DOMAIN maint.work
    BY <1>7, <2>2 DEF Inv, FlushInv
  <2> QED BY <1>1, <1>4, <2>1, <2>3
<1> QED BY <1>1, <1>2, <1>5, <1>6, <1>7, CommitStep

\* Deleting logs that the manifest covers
LEMMA NewerWalsFewer ==
    ASSUME Inv, NEW seq \in Nat, seq <= manifest.walSeq
    PROVE  FewerLogs(NewerWals(wals, seq))
<1>1. DOMAIN wals \subseteq Nat
  BY MapsIs DEF Inv, TypeOK, Logs
<1>2. manifest.walSeq \in Nat
  BY ManifestsAre
<1>3. \A s \in DOMAIN wals : s > manifest.walSeq => s \in {t \in DOMAIN wals : t > seq}
  BY <1>1, <1>2
<1> QED BY <1>3 DEF FewerLogs, NewerWals

LEMMA KeepAll ==
    ASSUME NEW D, NEW R, NEW f \in Maps(D, R)
    PROVE  Keep(f, DOMAIN f) = f
<1>1. f \in [DOMAIN f -> R]
  BY MapsIs
<1> QED BY <1>1 DEF Keep

LEMMA FlushFinishKeeps ==
    ASSUME Inv, FlushFinish
    PROVE  Inv'
<1>1. /\ maint.at = "flushStored"
      /\ state' = [WithFlushed(DOMAIN maint.work) EXCEPT !.pending = NoPending]
      /\ wals' = NewerWals(wals, maint.walSeq)
      /\ segFiles' = Referenced(manifest, segFiles)
      /\ maint' = Idle
      /\ UNCHANGED <<manifest, phase, replay, failures>>
  BY DEF FlushFinish
<1>2. maint.walSeq = manifest.walSeq /\ maint.walSeq \in Nat
  BY <1>1, FlushIs, FlushedManifestIs DEF Inv, FollowInv
<1>3. FewerLogs(wals')
  BY <1>1, <1>2, NewerWalsFewer
<1>4. segFiles' = Keep(segFiles, DOMAIN Referenced(manifest, segFiles))
  BY <1>1 DEF Referenced, Keep
<1>5. failures' \in Nat
  BY <1>1 DEF Inv, TypeOK
<1> QED BY <1>1, <1>3, <1>4, <1>5, FlushCommits

LEMMA FlushDeleteFailsKeeps ==
    ASSUME Inv, FlushDeleteFails
    PROVE  Inv'
<1>1. /\ maint.at = "flushStored"
      /\ state' = [WithFlushed(DOMAIN maint.work) EXCEPT !.pending = NoPending]
      /\ maint' = Failed /\ failures' = failures + 1
      /\ UNCHANGED <<manifest, phase, replay>>
  BY DEF FlushDeleteFails, Fails
<1>2. maint.walSeq = manifest.walSeq /\ maint.walSeq \in Nat
  BY <1>1, FlushIs, FlushedManifestIs DEF Inv, FollowInv
<1>3. FewerLogs(wals')
  <2>1. \E seq \in 0..maint.walSeq : wals' = NewerWals(wals, seq)
    BY <1>2 DEF FlushDeleteFails
  <2> QED BY <1>2, <2>1, NewerWalsFewer
<1>4. \E S : /\ DOMAIN Referenced(manifest, segFiles) \subseteq S
             /\ segFiles' = Keep(segFiles, S)
  <2>1. CASE UNCHANGED segFiles
    <3>1. segFiles \in Maps(Cid \X Nat, GoodLayer)
      BY DEF Inv, TypeOK
    <3>2. segFiles' = Keep(segFiles, DOMAIN segFiles)
      BY <2>1, <3>1, KeepAll
    <3>3. DOMAIN Referenced(manifest, segFiles) \subseteq DOMAIN segFiles
      BY DEF Referenced, Keep
    <3> QED BY <3>2, <3>3
  <2>2. CASE \E left \in SUBSET DOMAIN segFiles :
                segFiles' = Keep(segFiles, left \cup DOMAIN Referenced(manifest, segFiles))
    BY <2>2
  <2> QED BY <2>1, <2>2 DEF FlushDeleteFails
<1>5. failures' \in Nat
  BY <1>1 DEF Inv, TypeOK
<1> QED BY <1>1, <1>3, <1>4, <1>5, FlushCommits

LEMMA FlushOpenFailsKeeps ==
    ASSUME Inv, FlushOpenFails
    PROVE  Inv'
<1>1. /\ maint.at = "flushStored" /\ maint' = Failed /\ failures' = failures + 1
      /\ UNCHANGED <<manifest, wals, segFiles, phase, replay>>
  BY DEF FlushOpenFails, Fails, disk
<1>2. PICK c : state' = WithFlushed({d \in DOMAIN maint.work : d < c})
  BY DEF FlushOpenFails
<1> DEFINE cids == {d \in DOMAIN maint.work : d < c}
<1>3. phase = "up" /\ state.pending # NoPending /\ state \in StoreState
  BY <1>1, FlushIs, ManifestsAre DEF Running
<1>4. state' = [WithFlushed(cids) EXCEPT !.pending = state.pending]
  BY <1>2, <1>3 DEF WithFlushed, StoreState
<1>5. /\ segFiles' = Keep(segFiles, DOMAIN segFiles) /\ wals' = Keep(wals, DOMAIN wals)
      /\ DOMAIN Referenced(manifest, segFiles) \subseteq DOMAIN segFiles
  <2>1. segFiles \in Maps(Cid \X Nat, GoodLayer) /\ wals \in Maps(Nat, Seq(WalRecord))
    BY DEF Inv, TypeOK, Logs
  <2>2. DOMAIN Referenced(manifest, segFiles) \subseteq DOMAIN segFiles
    BY DEF Referenced, Keep
  <2> QED BY <1>1, <2>1, <2>2, KeepAll
<1>6. FewerLogs(wals')
  BY <1>5 DEF FewerLogs
<1>7. failures' \in Nat /\ failures' # 0
  BY <1>1 DEF Inv, TypeOK
<1>8. cids \subseteq DOMAIN maint.work
  OBVIOUS
<1> HIDE DEF cids
<1> QED BY <1>1, <1>3, <1>4, <1>5, <1>6, <1>7, <1>8, FlushCommits

----------------------------------------------------------------------------
(* The commit of a compaction *)

Compacting == maint.at \in {"compactWrite", "compactWritten", "compactStored"}

\* The segments of the collection once the compaction is done
CompactedSegs == NewSegment \o OlderSegments(maint.cid)

LEMMA CompactedIs ==
    ASSUME Inv, Compacting, maint.cid \in DOMAIN state.cols
    PROVE  /\ ReplacedIs(state.cols[maint.cid].segments, Len(maint.run), maint.id, CompactedSegs)
           /\ Merged = FirstMerged(state.cols[maint.cid].segments, Len(maint.run))
           /\ \A k \in DOMAIN maint.run :
                 /\ k \in DOMAIN state.cols[maint.cid].segments /\ k \in 1..Len(maint.run)
                 /\ maint.run[k] = state.cols[maint.cid].segments[k]
                 /\ maint.run[k].id \in Nat /\ maint.run[k].id < maint.id
           /\ state.cols[maint.cid].segments # <<>>
           /\ maint.cid \in DOMAIN state.manifest.cols
<1> DEFINE segs == state.cols[maint.cid].segments
           n == Len(maint.run)
<1>1. /\ phase = "up" /\ maint.run \in Seq(Segment) /\ maint.older \in BOOLEAN /\ maint.id \in Nat
  BY CompactIs DEF Compacting
<1>2. /\ Good(state) /\ state \in StoreState /\ state.manifest.nextSeg \in Nat
  BY <1>1, ManifestsAre DEF Running
<1>3. segs \in Seq(Segment) /\ GoodCol(state, maint.cid)
  BY <1>2, ColIs, GoodIs
<1>4. /\ maint.id = state.manifest.nextSeg /\ n >= 2 /\ RunIsNewest(segs)
  BY DEF Inv, CompactInv, Compacting
<1>5. /\ n \in Nat /\ n <= Len(segs) /\ Len(segs) \in Nat /\ maint.run = SubSeq(segs, 1, n)
      /\ maint.older = (n < Len(segs))
  BY <1>1, <1>3, <1>4 DEF RunIsNewest
<1>6. GoodIds(SegIds(segs), maint.id)
  BY <1>3, <1>4 DEF GoodCol
<1>7. Merged = FirstMerged(segs, n)
  BY <1>5 DEF Merged, FirstMerged
<1>8. CompactedSegs = Replaced(segs, n, maint.id)
  BY <1>7 DEF CompactedSegs, NewSegment, OlderSegments, Replaced, NewAlone
<1>9. ReplacedIs(segs, n, maint.id, CompactedSegs)
  <2> HIDE DEF segs, n
  <2>1. ReplacedIs(segs, n, maint.id, Replaced(segs, n, maint.id))
    BY <1>1, <1>3, <1>5, <1>6, RunReplaced
  <2> QED BY <1>8, <2>1
<1>10. ASSUME NEW k \in DOMAIN maint.run
       PROVE  /\ k \in DOMAIN segs /\ k \in 1..n /\ maint.run[k] = segs[k]
              /\ maint.run[k].id \in Nat /\ maint.run[k].id < maint.id
  <2> HIDE DEF segs
  <2>1. k \in DOMAIN segs /\ k \in 1..n /\ maint.run[k] = segs[k]
    BY <1>1, <1>3, <1>5
  <2>2. /\ k \in DOMAIN SegIds(segs) /\ SegIds(segs)[k] = segs[k].id
        /\ segs[k] \in Segment
    BY <1>3, <2>1, SegmentsAre
  <2>3. segs[k].id \in Nat /\ segs[k].id < maint.id
    BY <1>6, <2>2 DEF GoodIds, Segment
  <2> QED BY <2>1, <2>3
<1>11. segs # <<>>
  BY <1>4, <1>5
<1>12. maint.cid \in DOMAIN state.manifest.cols
  BY <1>3, <1>11 DEF GoodCol
<1> QED BY <1>7, <1>9, <1>10, <1>11, <1>12

LEMMA CompactedManifestIs ==
    ASSUME Inv, Compacting, maint.cid \in DOMAIN state.cols
    PROVE  /\ CompactedManifest \in Manifest
           /\ CompactedManifest.nextCid = state.manifest.nextCid
           /\ CompactedManifest.nextSeg = maint.id + 1
           /\ CompactedManifest.walSeq = state.manifest.walSeq
           /\ DOMAIN CompactedManifest.cols = DOMAIN state.manifest.cols
           /\ CompactedManifest.cols[maint.cid].segs = Backwards(SegIds(CompactedSegs))
           /\ CompactedManifest.cols[maint.cid].name = state.manifest.cols[maint.cid].name
           /\ \A c \in DOMAIN state.manifest.cols : c # maint.cid =>
                 CompactedManifest.cols[c] = state.manifest.cols[c]
<1> DEFINE man == state.manifest
           ids == Backwards(SegIds(CompactedSegs))
           cols == [man.cols EXCEPT ![maint.cid].segs = ids]
<1>1. /\ phase = "up" /\ maint.id \in Nat
  BY CompactIs DEF Compacting
<1>2. /\ man \in Manifest /\ man.nextSeg = maint.id
  BY <1>1, ManifestsAre DEF Running, Inv, CompactInv, Compacting
<1>3. maint.cid \in DOMAIN man.cols /\ SegIds(CompactedSegs) \in Seq(Nat)
  BY CompactedIs DEF ReplacedIs
<1>4. ids \in Seq(Nat)
  BY <1>3, BackwardsIs
<1>5. man.cols \in Maps(Cid, ListedCol)
  BY <1>2 DEF Manifest
<1>6. DOMAIN man.cols \subseteq Cid /\ man.cols \in [DOMAIN man.cols -> ListedCol]
  BY <1>5, MapsIs
<1>7. /\ DOMAIN cols = DOMAIN man.cols
      /\ cols[maint.cid] = [man.cols[maint.cid] EXCEPT !.segs = ids]
      /\ \A c \in DOMAIN man.cols : c # maint.cid => cols[c] = man.cols[c]
  BY <1>3
<1>8. cols[maint.cid] \in ListedCol /\ cols[maint.cid].segs = ids
      /\ cols[maint.cid].name = man.cols[maint.cid].name
  <2>1. man.cols[maint.cid] \in ListedCol
    BY <1>3, <1>6
  <2> HIDE DEF cols, ids
  <2> QED BY <1>4, <1>7, <2>1 DEF ListedCol
<1>9. cols \in Maps(Cid, ListedCol)
  <2>1. cols \in [DOMAIN man.cols -> ListedCol]
    BY <1>6, <1>8
  <2> HIDE DEF cols
  <2> QED BY <1>6, <1>7, <2>1, MapsIs
<1>10. Larger(man.nextSeg, maint.id + 1) = maint.id + 1
  BY <1>1, <1>2 DEF Larger
<1> HIDE DEF ids
<1>11. CompactedManifest = [man EXCEPT !.gen = @ + 1, !.nextSeg = maint.id + 1, !.cols = cols]
  BY <1>2, <1>10 DEF CompactedManifest, CompactedSegs, ids, Manifest
<1> HIDE DEF cols
<1>12. /\ CompactedManifest \in Manifest /\ CompactedManifest.cols = cols
       /\ CompactedManifest.nextCid = man.nextCid /\ CompactedManifest.walSeq = man.walSeq
       /\ CompactedManifest.nextSeg = maint.id + 1
  <2> DEFINE next == maint.id + 1
  <2> HIDE DEF man, next
  <2>1. next \in Nat
    BY <1>1 DEF next
  <2>2. CompactedManifest = [man EXCEPT !.gen = @ + 1, !.nextSeg = next, !.cols = cols]
    BY <1>11 DEF next
  <2>3. /\ CompactedManifest.cols = cols
        /\ CompactedManifest.nextCid = man.nextCid /\ CompactedManifest.walSeq = man.walSeq
        /\ CompactedManifest.nextSeg = next
    BY <1>2, <2>2 DEF Manifest
  <2>4. CompactedManifest \in Manifest
    <3>1. /\ man.gen + 1 \in Nat /\ man.nextCid \in Nat /\ man.walSeq \in Nat
      BY <1>2 DEF Manifest
    <3>2. CompactedManifest = [gen |-> man.gen + 1, nextCid |-> man.nextCid, nextSeg |-> next,
                               walSeq |-> man.walSeq, cols |-> cols]
      BY <1>2, <2>2 DEF Manifest
    <3> QED BY <1>9, <2>1, <3>1, <3>2 DEF Manifest
  <2> QED BY <2>3, <2>4 DEF next
<1> QED BY <1>7, <1>8, <1>12 DEF ids

\* The directories the new lists and memory name, once the run may go
LEMMA CompactedOnDisk ==
    ASSUME Inv, maint.at \in {"compactWritten", "compactStored"}, maint.cid \in DOMAIN state.cols,
           NEW i \in DOMAIN CompactedSegs
    PROVE  /\ Holds(segFiles, maint.cid, CompactedSegs[i])
           /\ <<maint.cid, CompactedSegs[i].id>> \notin RunFiles
<1> DEFINE segs == state.cols[maint.cid].segments
           seg == CompactedSegs[i]
<1>1. /\ Compacting /\ phase = "up" /\ maint.id \in Nat
      /\ ~IsEmpty(Merged) => Holds(segFiles, maint.cid, [id |-> maint.id, layer |-> Merged])
  BY CompactIs DEF Compacting, Inv, CompactInv
<1>2. /\ ReplacedIs(segs, Len(maint.run), maint.id, CompactedSegs)
      /\ Merged = FirstMerged(segs, Len(maint.run))
      /\ \A k \in DOMAIN maint.run :
            /\ k \in 1..Len(maint.run) /\ maint.run[k] = segs[k]
            /\ maint.run[k].id \in Nat /\ maint.run[k].id < maint.id
  BY <1>1, CompactedIs
<1>3. CASE ~IsEmpty(Merged) /\ seg = [id |-> maint.id, layer |-> Merged]
  <2>1. seg.id = maint.id
    BY <1>3
  <2> HIDE DEF seg, segs
  <2>2. \A k \in DOMAIN maint.run : maint.run[k].id # seg.id
    BY <1>1, <1>2, <2>1
  <2>3. Holds(segFiles, maint.cid, seg)
    BY <1>1, <1>3
  <2> QED BY <2>2, <2>3 DEF RunFiles, seg
<1>4. CASE /\ \E j \in DOMAIN segs : seg = segs[j]
           /\ \A k \in 1..Len(maint.run) : segs[k].id # seg.id
  <2>1. Holds(segFiles, maint.cid, seg)
    BY <1>1, <1>4 DEF Inv, FilesInv, Running
  <2>2. \A k \in DOMAIN maint.run : maint.run[k].id # seg.id
    BY <1>2, <1>4
  <2> QED BY <2>1, <2>2 DEF RunFiles
<1> QED BY <1>2, <1>3, <1>4 DEF ReplacedIs

LEMMA CompactStoreKeeps ==
    ASSUME Inv, CompactStore
    PROVE  Inv'
<1>1. /\ maint.at = "compactWritten" /\ LockFree
      /\ UNCHANGED <<wals, segFiles, phase, state, replay, failures>>
  BY DEF CompactStore, LockFree
<1>2. CASE maint.cid \notin DOMAIN state.cols
  <2>1. maint' = Idle /\ manifest' = manifest
    BY <1>2 DEF CompactStore
  <2> QED BY <1>1, <2>1, GivesUp
<1>3. CASE maint.cid \in DOMAIN state.cols
  <2>1. /\ manifest' = CompactedManifest
        /\ maint' = [maint EXCEPT !.at = "compactStored"]
    BY <1>3 DEF CompactStore
  <2>2. Compacting /\ phase = "up" /\ maint \in CompactState /\ maint.id \in Nat
    BY <1>1, CompactIs DEF Compacting
  <2>3. /\ maint' \in CompactState /\ maint'.at = "compactStored" /\ maint'.cid = maint.cid
        /\ maint'.run = maint.run /\ maint'.older = maint.older /\ maint'.id = maint.id
    BY <2>1, <2>2 DEF CompactState
  <2>4. /\ manifest' \in Manifest
        /\ manifest'.nextCid = state.manifest.nextCid
        /\ manifest'.nextSeg = maint.id + 1
        /\ manifest'.walSeq = manifest.walSeq
        /\ DOMAIN manifest'.cols = DOMAIN manifest.cols
        /\ manifest'.cols[maint.cid].segs = Backwards(SegIds(CompactedSegs))
        /\ \A c \in DOMAIN manifest.cols : c # maint.cid => manifest'.cols[c] = manifest.cols[c]
        /\ manifest.nextSeg = maint.id
    <3>1. /\ state.manifest.cols = manifest.cols /\ state.manifest.walSeq = manifest.walSeq
          /\ state.manifest.nextSeg = manifest.nextSeg
      BY <1>1, <2>2, ManifestsAre DEF Running
    <3>2. maint.id = state.manifest.nextSeg
      BY <2>2 DEF Inv, CompactInv, Compacting
    <3> QED BY <1>3, <2>1, <2>2, <3>1, <3>2, CompactedManifestIs
  <2>5. /\ ReplacedIs(state.cols[maint.cid].segments, Len(maint.run), maint.id, CompactedSegs)
        /\ state.cols[maint.cid].segments # <<>>
    BY <1>3, <2>2, CompactedIs
  <2>6. /\ CompactedSegs \in Seq(Segment) /\ SegIds(CompactedSegs) \in Seq(Nat)
        /\ GoodIds(SegIds(CompactedSegs), maint.id + 1)
    BY <2>5 DEF ReplacedIs
  <2>7. TypeOK'
    BY <1>1, <2>3, <2>4 DEF Inv, TypeOK, Running
  <2>8. StateInv'
    BY <1>1 DEF Inv, StateInv, Running
  <2>9. ManifestInv'
    <3>1. Below(DOMAIN manifest'.cols, manifest'.nextCid)
      <4>1. manifest.cols = state.manifest.cols /\ Good(state)
        BY <1>1, <2>2, ManifestsAre DEF Running
      <4> QED BY <2>4, <4>1 DEF Good
    <3>2. ASSUME NEW c \in DOMAIN manifest.cols PROVE GoodIds(manifest'.cols[c].segs, maint.id + 1)
      <4>1. CASE c = maint.cid
        BY <2>4, <2>6, <4>1, GoodIdsBackwards
      <4>2. CASE c # maint.cid
        <5> DEFINE ids == manifest.cols[c].segs
                   next == maint.id + 1
        <5>1. ids \in Seq(Nat) /\ GoodIds(ids, maint.id)
          <6>1. manifest.cols[c] \in ListedCol
            BY ManifestsAre, MapAt
          <6> QED BY <2>4, <6>1 DEF Inv, ManifestInv, ListedCol
        <5>2. next \in Nat /\ maint.id <= next
          BY <2>2
        <5> HIDE DEF ids, next
        <5>3. GoodIds(ids, next)
          BY <2>2, <5>1, <5>2, GoodIdsMore
        <5> QED BY <2>4, <4>2, <5>3 DEF ids, next
      <4> QED BY <4>1, <4>2
    <3> QED BY <2>4, <3>1, <3>2 DEF ManifestInv
  <2>10. FilesInv'
    <3>1. ASSUME NEW c \in DOMAIN manifest.cols, NEW i \in DOMAIN manifest'.cols[c].segs
          PROVE  <<c, manifest'.cols[c].segs[i]>> \in DOMAIN segFiles
      <4>1. CASE c # maint.cid
        BY <2>4, <4>1 DEF Inv, FilesInv
      <4>2. CASE c = maint.cid
        <5>1. PICK j \in DOMAIN SegIds(CompactedSegs) : manifest'.cols[c].segs[i] = SegIds(CompactedSegs)[j]
          BY <2>4, <2>6, <4>2, BackwardsEntries
        <5>2. j \in DOMAIN CompactedSegs /\ SegIds(CompactedSegs)[j] = CompactedSegs[j].id
          BY <2>6, <5>1, SegmentsAre
        <5>3. Holds(segFiles, maint.cid, CompactedSegs[j])
          BY <1>1, <1>3, <5>2, CompactedOnDisk
        <5> QED BY <4>2, <5>1, <5>2, <5>3 DEF Holds
      <4> QED BY <4>1, <4>2
    <3> QED BY <1>1, <2>4, <3>1 DEF Inv, FilesInv, Running, Holds
  <2>11. FollowInv'
    <3>1. /\ Merged' = Merged
          /\ OlderSegments(maint.cid)' = OlderSegments(maint.cid)
      BY <1>1, <2>3 DEF Merged, SegLayers, OlderSegments
    <3>2. (NewSegment \o OlderSegments(maint.cid))' = NewSegment \o OlderSegments(maint.cid)
      BY <2>3, <3>1 DEF NewSegment
    <3>3. CompactedManifest' = CompactedManifest
      BY <1>1, <2>3, <3>2 DEF CompactedManifest
    <3> QED BY <1>1, <1>3, <2>1, <2>2, <2>3, <3>3 DEF FollowInv, LockFree
  <2>12. ListInv' /\ LogInv' /\ ReplayInv'
    BY <1>1, <2>2, <2>4 DEF Inv, ListInv, LogInv, ReplayInv
  <2>13. CreateInv'
    <3>1. ~Created(wals, manifest.walSeq, maint.cid)
      BY <1>3, <2>2, <2>5 DEF Inv, CreateInv, Running
    <3>2. \A c \in DOMAIN manifest.cols :
             Created(wals, manifest.walSeq, c) => manifest'.cols[c].segs = <<>>
      BY <2>4, <3>1 DEF Inv, CreateInv
    <3> QED BY <1>1, <2>4, <3>2 DEF Inv, CreateInv, Running
  <2>14. FlushInv'
    BY <2>3 DEF FlushInv
  <2>15. CompactInv'
    <3>1. Merged' = Merged
      BY <2>3 DEF Merged, SegLayers
    <3>2. RunIsNewest(state.cols[maint.cid].segments)'
      BY <1>1, <1>3, <2>2, <2>3 DEF Inv, CompactInv, Compacting, RunIsNewest
    <3>3. /\ maint.id = state.manifest.nextSeg /\ maint.cid < state.manifest.nextCid
          /\ Len(maint.run) >= 2
          /\ ~IsEmpty(Merged) => Holds(segFiles, maint.cid, [id |-> maint.id, layer |-> Merged])
      BY <1>1 DEF Inv, CompactInv
    <3> QED BY <1>1, <2>3, <3>1, <3>2, <3>3 DEF CompactInv, Holds
  <2> QED
    BY <2>7, <2>8, <2>9, <2>10, <2>11, <2>12, <2>13, <2>14, <2>15 DEF Inv
<1> QED BY <1>2, <1>3

\* A segment list replaced, answers unchanged
LEMMA SegmentsCommitted ==
    ASSUME NEW st, Good(st), NEW man \in Manifest, NEW cols \in Maps(Cid, Col),
           man.nextCid = st.manifest.nextCid, Below(DOMAIN man.cols, man.nextCid),
           FitsManifest(st, man, cols),
           \A c \in DOMAIN st.cols, id \in Id :
              Lookup(SegLayers(cols[c].segments), id) = Lookup(SegLayers(st.cols[c].segments), id)
    PROVE  Good(Committed(st, man, cols, st.pending))
<1>1. st \in StoreState
  BY GoodIs
<1>2. SameReads(st, Committed(st, man, cols, st.pending))
  BY <1>1, SegmentReads
<1> QED BY <1>2, CommittedGood

\* What both ends of a compaction's commit share
LEMMA CompactCommitIs ==
    ASSUME Inv, maint.at = "compactStored"
    PROVE  /\ phase = "up" /\ Compacting /\ maint.cid \in DOMAIN state.cols
           /\ maint.cid \in DOMAIN manifest.cols
           /\ manifest \in Manifest /\ manifest.nextCid = state.manifest.nextCid
           /\ Below(DOMAIN manifest.cols, manifest.nextCid)
           /\ maint.id \in Nat /\ state.manifest.nextSeg = maint.id /\ manifest.nextSeg = maint.id + 1
           /\ DOMAIN manifest.cols = DOMAIN state.manifest.cols
           /\ manifest.cols[maint.cid].segs = Backwards(SegIds(CompactedSegs))
           /\ \A c \in DOMAIN manifest.cols :
                 c # maint.cid => manifest.cols[c] = state.manifest.cols[c]
           /\ ~Created(wals, manifest.walSeq, maint.cid)
<1>1. /\ phase = "up" /\ Compacting /\ maint.id \in Nat /\ manifest \in Manifest
  BY CompactIs, ManifestsAre DEF Compacting
<1>2. maint.cid \in DOMAIN state.cols /\ manifest = CompactedManifest
  BY DEF Inv, FollowInv
<1>3. state.manifest.nextSeg = maint.id
  BY <1>1 DEF Inv, CompactInv, Compacting
<1>4. /\ manifest.nextCid = state.manifest.nextCid
      /\ manifest.nextSeg = maint.id + 1
      /\ DOMAIN manifest.cols = DOMAIN state.manifest.cols
      /\ manifest.cols[maint.cid].segs = Backwards(SegIds(CompactedSegs))
      /\ \A c \in DOMAIN state.manifest.cols :
            c # maint.cid => manifest.cols[c] = state.manifest.cols[c]
  BY <1>1, <1>2, CompactedManifestIs
<1>5. state.cols[maint.cid].segments # <<>> /\ maint.cid \in DOMAIN state.manifest.cols
  BY <1>1, <1>2, CompactedIs
<1>6. ~Created(wals, manifest.walSeq, maint.cid)
  BY <1>1, <1>2, <1>5 DEF Inv, CreateInv, Running
<1>7. Below(DOMAIN manifest.cols, manifest.nextCid)
  BY DEF Inv, ManifestInv
<1> QED BY <1>1, <1>2, <1>3, <1>4, <1>5, <1>6, <1>7

\* Between the halves every list of memory fits the new manifest.
LEMMA ListsFit ==
    ASSUME Inv, maint.at = "compactStored", NEW c \in DOMAIN state.cols
    PROVE  /\ c \in Cid /\ state.cols[c] \in Col /\ state.cols[c].segments \in Seq(Segment)
           /\ GoodIds(SegIds(state.cols[c].segments), manifest.nextSeg)
           /\ c \notin DOMAIN manifest.cols => state.cols[c].segments = <<>>
<1> DEFINE segs == state.cols[c].segments
           next == manifest.nextSeg
<1>1. /\ phase = "up" /\ maint.id \in Nat /\ state.manifest.nextSeg = maint.id /\ next = maint.id + 1
      /\ DOMAIN manifest.cols = DOMAIN state.manifest.cols
  BY CompactCommitIs
<1>2. state \in StoreState /\ Good(state)
  BY <1>1, ManifestsAre DEF Running
<1>3. /\ c \in Cid /\ state.cols[c] \in Col /\ segs \in Seq(Segment) /\ GoodCol(state, c)
  BY <1>2, ColIs, GoodIs
<1>4. SegIds(segs) \in Seq(Nat) /\ GoodIds(SegIds(segs), maint.id)
  BY <1>1, <1>3, SegmentsAre DEF GoodCol
<1>5. next \in Nat /\ maint.id <= next
  BY <1>1
<1> HIDE DEF next, segs
<1>6. GoodIds(SegIds(segs), next)
  BY <1>1, <1>4, <1>5, GoodIdsMore
<1> QED BY <1>1, <1>3, <1>6 DEF next, segs, GoodCol

LEMMA WithCompactedIs ==
    ASSUME Inv, maint.at = "compactStored"
    PROVE  /\ Good(WithCompacted) /\ WithCompacted.manifest = manifest
           /\ WithCompacted.wal = state.wal /\ WithCompacted.pending = state.pending
           /\ DOMAIN WithCompacted.cols = DOMAIN state.cols
           /\ WithCompacted.cols[maint.cid].segments = CompactedSegs
           /\ \A c \in DOMAIN state.cols :
                 c # maint.cid => WithCompacted.cols[c] = state.cols[c]
           /\ SameReads(state, WithCompacted) /\ SameCatalog(state, WithCompacted)
<1> DEFINE cols == [state.cols EXCEPT ![maint.cid].segments = CompactedSegs]
           segs == state.cols[maint.cid].segments
<1>1. /\ phase = "up" /\ Compacting /\ maint.cid \in DOMAIN state.cols
      /\ maint.cid \in DOMAIN manifest.cols
      /\ manifest \in Manifest /\ manifest.nextCid = state.manifest.nextCid
      /\ Below(DOMAIN manifest.cols, manifest.nextCid)
      /\ manifest.nextSeg = maint.id + 1
  BY CompactCommitIs
<1>2. state \in StoreState /\ Good(state)
  BY <1>1, ManifestsAre DEF Running
<1>3. ReplacedIs(segs, Len(maint.run), maint.id, CompactedSegs)
  BY <1>1, CompactedIs
<1>4. /\ CompactedSegs \in Seq(Segment) /\ GoodIds(SegIds(CompactedSegs), manifest.nextSeg)
      /\ \A id \in Id : Lookup(SegLayers(CompactedSegs), id) = Lookup(SegLayers(segs), id)
  BY <1>1, <1>3 DEF ReplacedIs
<1>5. state.cols \in Maps(Cid, Col)
  BY <1>2, StateIs
<1>6. DOMAIN state.cols \subseteq Cid /\ state.cols \in [DOMAIN state.cols -> Col]
  BY <1>5, MapsIs
<1>7. /\ DOMAIN cols = DOMAIN state.cols
      /\ cols[maint.cid] = [state.cols[maint.cid] EXCEPT !.segments = CompactedSegs]
      /\ \A c \in DOMAIN state.cols : c # maint.cid => cols[c] = state.cols[c]
  BY <1>1
<1> HIDE DEF cols
<1>8. /\ cols[maint.cid] \in Col /\ cols[maint.cid].segments = CompactedSegs
      /\ cols[maint.cid].memtable = state.cols[maint.cid].memtable
      /\ cols[maint.cid].liveLen = state.cols[maint.cid].liveLen
      /\ cols[maint.cid].name = state.cols[maint.cid].name
  <2>1. state.cols[maint.cid] \in Col
    BY <1>1, <1>6
  <2> QED BY <1>4, <1>7, <2>1 DEF Col
<1>9. cols \in Maps(Cid, Col)
  <2>1. cols \in [DOMAIN state.cols -> Col]
    <3>1. cols = [c \in DOMAIN state.cols |-> cols[c]]
      BY <1>7 DEF cols
    <3>2. \A c \in DOMAIN state.cols : cols[c] \in Col
      BY <1>6, <1>7, <1>8
    <3> QED BY <3>1, <3>2
  <2> QED BY <1>6, <1>7, <2>1, MapsIs
<1>10. FitsManifest(state, manifest, cols)
  <2>1. ASSUME NEW c \in DOMAIN state.cols
        PROVE  /\ cols[c].memtable = state.cols[c].memtable
               /\ cols[c].liveLen = state.cols[c].liveLen
               /\ GoodIds(SegIds(cols[c].segments), manifest.nextSeg)
               /\ c \notin DOMAIN manifest.cols => cols[c].segments = <<>>
    <3>1. CASE c = maint.cid
      BY <1>1, <1>4, <1>8, <3>1
    <3>2. CASE c # maint.cid
      BY <1>7, <3>2, ListsFit
    <3> QED BY <3>1, <3>2
  <2> QED BY <1>7, <2>1 DEF FitsManifest
<1>11. \A c \in DOMAIN state.cols, id \in Id :
          Lookup(SegLayers(cols[c].segments), id) = Lookup(SegLayers(state.cols[c].segments), id)
  BY <1>4, <1>7, <1>8
<1>12. Good(Committed(state, manifest, cols, state.pending))
  BY <1>1, <1>2, <1>9, <1>10, <1>11, SegmentsCommitted
<1>13. WithCompacted = Committed(state, manifest, cols, state.pending)
  BY <1>2 DEF WithCompacted, Committed, StoreState, CompactedSegs, cols
<1>14. /\ Committed(state, manifest, cols, state.pending).manifest = manifest
       /\ Committed(state, manifest, cols, state.pending).wal = state.wal
       /\ Committed(state, manifest, cols, state.pending).pending = state.pending
       /\ Committed(state, manifest, cols, state.pending).cols = cols
       /\ Committed(state, manifest, cols, state.pending).names = state.names
  BY <1>1, <1>2, <1>9, CommittedIs
<1>15. SameReads(state, Committed(state, manifest, cols, state.pending))
  BY <1>2, <1>9, <1>10, <1>11, <1>1, SegmentReads
<1>16. SameCatalog(state, WithCompacted)
  BY <1>7, <1>8, <1>13, <1>14 DEF SameCatalog
<1> QED BY <1>7, <1>8, <1>12, <1>13, <1>14, <1>15, <1>16

LEMMA CompactCommits ==
    ASSUME Inv, maint.at = "compactStored", state' = WithCompacted,
           NEW gone, gone \subseteq RunFiles, segFiles' = Keep(segFiles, DOMAIN segFiles \ gone),
           maint' \in {Idle, Failed}, failures' \in Nat, failures <= failures',
           UNCHANGED <<manifest, wals, phase, replay>>
    PROVE  Inv'
<1>1. /\ phase = "up" /\ Compacting /\ maint.cid \in DOMAIN state.cols
      /\ maint.cid \in DOMAIN manifest.cols
      /\ DOMAIN manifest.cols = DOMAIN state.manifest.cols
      /\ manifest.cols[maint.cid].segs = Backwards(SegIds(CompactedSegs))
      /\ \A c \in DOMAIN manifest.cols : c # maint.cid => manifest.cols[c] = state.manifest.cols[c]
      /\ ~Created(wals, manifest.walSeq, maint.cid)
  BY CompactCommitIs
<1>2. /\ Good(state') /\ state'.manifest = manifest
      /\ state'.wal = state.wal /\ state'.pending = state.pending
      /\ DOMAIN state'.cols = DOMAIN state.cols
      /\ state'.cols[maint.cid].segments = CompactedSegs
      /\ \A c \in DOMAIN state.cols : c # maint.cid => state'.cols[c] = state.cols[c]
  BY WithCompactedIs
<1>3. CompactedSegs \in Seq(Segment) /\ SegIds(CompactedSegs) \in Seq(Nat)
  <2>1. ReplacedIs(state.cols[maint.cid].segments, Len(maint.run), maint.id, CompactedSegs)
    BY <1>1, CompactedIs
  <2> QED BY <2>1 DEF ReplacedIs
<1>4. segFiles' \in Maps(Cid \X Nat, GoodLayer)
  <2>1. segFiles \in Maps(Cid \X Nat, GoodLayer)
    BY DEF Inv, TypeOK
  <2> QED BY <2>1, KeepType
<1>5. \A key \in DOMAIN segFiles : key \notin RunFiles =>
          key \in DOMAIN segFiles' /\ segFiles'[key] = segFiles[key]
  BY DEF Keep
<1>6. \A c, n : c # maint.cid => <<c, n>> \notin RunFiles
  BY DEF RunFiles
<1>7. FilesInv'
  <2>1. ASSUME NEW i \in DOMAIN CompactedSegs
        PROVE  Holds(segFiles', maint.cid, CompactedSegs[i])
    <3>1. /\ Holds(segFiles, maint.cid, CompactedSegs[i])
          /\ <<maint.cid, CompactedSegs[i].id>> \notin RunFiles
      BY <1>1, CompactedOnDisk
    <3> QED BY <1>5, <3>1 DEF Holds
  <2>2. ASSUME NEW c \in DOMAIN state'.cols, NEW i \in DOMAIN state'.cols[c].segments
        PROVE  Holds(segFiles', c, state'.cols[c].segments[i])
    <3>1. CASE c = maint.cid
      BY <1>2, <2>1, <3>1
    <3>2. CASE c # maint.cid
      <4>1. Holds(segFiles, c, state.cols[c].segments[i])
        BY <1>1, <1>2, <3>2 DEF Inv, FilesInv, Running
      <4> QED BY <1>2, <1>5, <1>6, <3>2, <4>1 DEF Holds
    <3> QED BY <3>1, <3>2
  <2>3. ASSUME NEW c \in DOMAIN manifest.cols, NEW i \in DOMAIN manifest.cols[c].segs
        PROVE  <<c, manifest.cols[c].segs[i]>> \in DOMAIN segFiles'
    <3>1. CASE c = maint.cid
      <4>1. PICK j \in DOMAIN SegIds(CompactedSegs) : manifest.cols[c].segs[i] = SegIds(CompactedSegs)[j]
        BY <1>1, <1>3, <3>1, BackwardsEntries
      <4>2. j \in DOMAIN CompactedSegs /\ SegIds(CompactedSegs)[j] = CompactedSegs[j].id
        BY <1>3, <4>1, SegmentsAre
      <4> QED BY <2>1, <3>1, <4>1, <4>2 DEF Holds
    <3>2. CASE c # maint.cid
      <4>1. <<c, manifest.cols[c].segs[i]>> \in DOMAIN segFiles
        BY DEF Inv, FilesInv
      <4> QED BY <1>5, <1>6, <3>2, <4>1
    <3> QED BY <3>1, <3>2
  <2> QED BY <2>2, <2>3 DEF FilesInv, Holds
<1>8. ListInv'
  <2> SUFFICES ASSUME failures' = 0, NEW c \in DOMAIN state'.cols \cap DOMAIN manifest.cols
               PROVE  SegIds(state'.cols[c].segments) = Backwards(manifest.cols[c].segs)
    BY <1>1, <1>2 DEF ListInv
  <2>1. CASE c = maint.cid
    <3>1. Backwards(Backwards(SegIds(CompactedSegs))) = SegIds(CompactedSegs)
      BY <1>3, BackwardsIs
    <3> QED BY <1>1, <1>2, <2>1, <3>1
  <2>2. CASE c # maint.cid
    <3>1. failures = 0
      BY DEF Inv, TypeOK
    <3> QED BY <1>1, <1>2, <2>2, <3>1 DEF Inv, ListInv
  <2> QED BY <2>1, <2>2
<1>9. \A c \in DOMAIN state.cols :
         Created(wals, manifest.walSeq, c) => state'.cols[c].segments = <<>>
  BY <1>1, <1>2 DEF Inv, CreateInv, Running
<1>10. FewerLogs(wals')
  <2>1. wals \in Maps(Nat, Seq(WalRecord))
    BY DEF Inv, TypeOK, Logs
  <2>2. wals' = Keep(wals, DOMAIN wals)
    BY <2>1, KeepAll
  <2> QED BY <2>2 DEF FewerLogs
<1> QED BY <1>2, <1>4, <1>7, <1>8, <1>9, <1>10, CommitStep

LEMMA CompactFinishKeeps ==
    ASSUME Inv, CompactFinish
    PROVE  Inv'
<1>1. failures' \in Nat /\ failures <= failures'
  BY DEF CompactFinish, Inv, TypeOK
<1> QED BY <1>1, CompactCommits DEF CompactFinish

LEMMA CompactDeleteFailsKeeps ==
    ASSUME Inv, CompactDeleteFails
    PROVE  Inv'
<1>1. failures' \in Nat /\ failures <= failures'
  BY DEF CompactDeleteFails, Fails, Inv, TypeOK
<1>2. PICK gone \in SUBSET RunFiles : segFiles' = Keep(segFiles, DOMAIN segFiles \ gone)
  BY DEF CompactDeleteFails
<1> QED BY <1>1, <1>2, CompactCommits DEF CompactDeleteFails

LEMMA CompactOpenFailsKeeps ==
    ASSUME Inv, CompactOpenFails
    PROVE  Inv'
<1>1. /\ maint.at = "compactStored" /\ maint' = Failed /\ failures' = failures + 1
      /\ state' = [state EXCEPT !.manifest = manifest]
      /\ UNCHANGED <<manifest, wals, segFiles, phase, replay>>
  BY DEF CompactOpenFails, Fails, disk
<1>2. /\ phase = "up" /\ manifest \in Manifest /\ manifest.nextCid = state.manifest.nextCid
      /\ Below(DOMAIN manifest.cols, manifest.nextCid)
  BY <1>1, CompactCommitIs
<1>3. state \in StoreState /\ Good(state) /\ state.cols \in Maps(Cid, Col)
  BY <1>2, ManifestsAre, StateIs DEF Running
<1>4. FitsManifest(state, manifest, state.cols)
  BY <1>1, ListsFit DEF FitsManifest
<1>5. Good(Committed(state, manifest, state.cols, state.pending))
  BY <1>2, <1>3, <1>4, SegmentsCommitted
<1>6. state' = Committed(state, manifest, state.cols, state.pending)
  BY <1>1, <1>3 DEF Committed, StoreState
<1>7. /\ state'.manifest = manifest /\ state'.wal = state.wal /\ state'.pending = state.pending
      /\ state'.cols = state.cols
  BY <1>2, <1>3, <1>6, CommittedIs
<1>8. failures' \in Nat /\ failures' # 0
  BY <1>1 DEF Inv, TypeOK
<1>9. FilesInv'
  BY <1>1, <1>2, <1>7 DEF Inv, FilesInv, Running, Holds
<1>10. ListInv'
  BY <1>1, <1>2, <1>8 DEF ListInv
<1>11. FewerLogs(wals') /\ segFiles' \in Maps(Cid \X Nat, GoodLayer)
  <2>1. wals \in Maps(Nat, Seq(WalRecord))
    BY DEF Inv, TypeOK, Logs
  <2>2. wals' = Keep(wals, DOMAIN wals)
    BY <1>1, <2>1, KeepAll
  <2> QED BY <1>1, <2>2 DEF FewerLogs, Inv, TypeOK
<1>12. \A c \in DOMAIN state.cols :
         Created(wals, manifest.walSeq, c) => state'.cols[c].segments = <<>>
  BY <1>2, <1>7 DEF Inv, CreateInv, Running
<1> QED BY <1>1, <1>5, <1>6, <1>7, <1>8, <1>9, <1>10, <1>11, <1>12, CommitStep

LEMMA MaintenanceKeeps ==
    ASSUME Inv, Maintenance
    PROVE  Inv'
BY FlushReadKeeps, FlushWriteKeeps, FlushStoreKeeps, FlushFinishKeeps, FlushOpenFailsKeeps,
   FlushDeleteFailsKeeps, CompactReadKeeps, CompactWriteKeeps, CompactStoreKeeps,
   CompactFinishKeeps, CompactOpenFailsKeeps, CompactDeleteFailsKeeps, MaintFailKeeps
   DEF Maintenance

----------------------------------------------------------------------------
(* Process death *)

\* The store is down, with no new record of a collection that is on a list.
LEMMA DownStep ==
    ASSUME Inv, Down, UNCHANGED <<manifest, segFiles>>, wals' \in Logs,
           \E n \in Nat : DOMAIN wals' \subseteq 0..n, failures' \in Nat,
           \A c \in DOMAIN manifest.cols :
              Created(wals', manifest.walSeq, c) => Created(wals, manifest.walSeq, c)
    PROVE  Inv'
<1>1. /\ phase' = "down" /\ replay' = [seq |-> 0, pos |-> 0] /\ maint' = Idle /\ maint'.at = "idle"
  BY DEF Down, NoReplay, Idle
<1>2. TypeOK'
  <2>1. replay' \in [seq : Nat, pos : Nat]
    BY <1>1
  <2> QED BY <1>1, <2>1 DEF Inv, TypeOK, Running
<1>3. StateInv' /\ ManifestInv' /\ FilesInv'
  BY <1>1 DEF Inv, StateInv, ManifestInv, FilesInv, Running
<1>4. FollowInv' /\ ListInv' /\ LogInv' /\ ReplayInv'
  BY <1>1 DEF FollowInv, ListInv, LogInv, ReplayInv, Running
<1>5. CreateInv'
  BY <1>1 DEF Inv, CreateInv, Running
<1>6. FlushInv' /\ CompactInv'
  BY <1>1 DEF FlushInv, CompactInv
<1> QED BY <1>2, <1>3, <1>4, <1>5, <1>6 DEF Inv

LEMMA CrashKeeps ==
    ASSUME Inv, Crash
    PROVE  Inv'
<1>1. Down /\ UNCHANGED <<manifest, wals, segFiles, failures>>
  BY DEF Crash, disk
<1>2. /\ wals' \in Logs /\ \E n \in Nat : DOMAIN wals' \subseteq 0..n
      /\ failures' \in Nat
  BY <1>1 DEF Inv, TypeOK, LogInv
<1>3. \A c : Created(wals', manifest.walSeq, c) => Created(wals, manifest.walSeq, c)
  BY <1>1
<1> QED BY <1>1, <1>2, <1>3, DownStep

\* A death inside a step of a client leaves the logs as that step may.
LEMMA CrashInStep ==
    ASSUME UpIs, Down, UNCHANGED <<manifest, segFiles>>, LogsMove(wals'), failures' \in Nat
    PROVE  Inv'
<1>1. /\ state.wal \in Nat /\ state.manifest.nextCid \in Nat
      /\ manifest.nextCid \in Nat /\ manifest.nextCid <= state.manifest.nextCid
      /\ manifest.cols \in Maps(Cid, ListedCol)
  BY ManifestsAre DEF UpIs, Running
<1>2. \E n \in Nat : DOMAIN wals' \subseteq 0..n
  <2>1. PICK n \in Nat : DOMAIN wals \subseteq 0..n
    BY DEF UpIs, Inv, LogInv
  <2> DEFINE m == state.wal + 1
             S == DOMAIN wals
  <2>2. m \in Nat /\ S \subseteq 0..n /\ DOMAIN wals' \subseteq S \cup {m}
    BY <1>1, <2>1 DEF LogsMove
  <2> HIDE DEF m, S
  <2>3. \E k \in Nat : S \cup {m} \subseteq 0..k
    BY <2>2, BoundedLogs
  <2> QED BY <2>2, <2>3
<1>3. ASSUME NEW c \in DOMAIN manifest.cols, Created(wals', manifest.walSeq, c)
      PROVE  Created(wals, manifest.walSeq, c)
  <2>1. c \in Cid /\ c \in Nat /\ c < manifest.nextCid
    BY <1>1, MapsIs, CidIs DEF UpIs, Inv, ManifestInv, Below
  <2>2. Created(wals, manifest.walSeq, c) \/ state.manifest.nextCid <= c
    BY <1>3, <2>1, MovedLogs
  <2> QED BY <1>1, <2>1, <2>2
<1>4. wals' \in Logs
  BY DEF LogsMove
<1> QED BY <1>2, <1>3, <1>4, DownStep DEF UpIs

LEMMA CrashInAppendKeeps ==
    ASSUME Inv, CrashInAppend
    PROVE  Inv'
<1>1. UpIs /\ Down /\ UNCHANGED <<manifest, segFiles>> /\ failures' = failures /\ wals' = Logged(Torn)
  BY DEF CrashInAppend, UpIs
<1>2. LogsMove(wals') /\ failures' \in Nat
  BY <1>1, TornMoves, UpGood
<1> QED BY <1>1, <1>2, CrashInStep

LEMMA CrashInCreateKeeps ==
    ASSUME Inv, CrashInCreate
    PROVE  Inv'
<1>1. /\ UpIs /\ Down /\ UNCHANGED <<manifest, segFiles>> /\ failures' = failures + 1
      /\ wals' = Put(wals, state.wal + 1, Blank)
  BY DEF CrashInCreate, UpIs, Fails
<1>2. LogsMove(wals)
  BY <1>1, SameLogs
<1>3. LogsMove(wals')
  BY <1>1, <1>2, PutLogMoves
<1>4. failures' \in Nat
  BY <1>1, UpGood
<1> QED BY <1>1, <1>3, <1>4, CrashInStep

----------------------------------------------------------------------------
(* load_state: the manifest and the segments *)

LEMMA LoadedSegments ==
    ASSUME Inv, NEW c \in DOMAIN manifest.cols
    PROVE  /\ SegmentsOf(c) \in Seq(Segment)
           /\ SegIds(SegmentsOf(c)) = Backwards(manifest.cols[c].segs)
           /\ GoodIds(SegIds(SegmentsOf(c)), manifest.nextSeg)
           /\ \A i \in DOMAIN SegmentsOf(c) : Holds(segFiles, c, SegmentsOf(c)[i])
           /\ manifest.cols[c].segs = <<>> => SegmentsOf(c) = <<>>
           /\ c \in Cid /\ manifest.cols[c].name \in Name
<1> DEFINE segs == manifest.cols[c].segs
           ids == Backwards(segs)
           new == SegmentsOf(c)
<1>1. c \in Cid /\ manifest.cols[c] \in ListedCol
  BY ManifestsAre, MapAt
<1>2. segs \in Seq(Nat) /\ manifest.cols[c].name \in Name
  BY <1>1 DEF ListedCol
<1>3. ids \in Seq(Nat) /\ Len(ids) = Len(segs) /\ Len(segs) \in Nat
  BY <1>2, BackwardsIs
<1>4. new = [i \in 1..Len(ids) |-> [id |-> ids[i], layer |-> segFiles[<<c, ids[i]>>]]]
  BY DEF SegmentsOf
<1>5. ASSUME NEW i \in 1..Len(ids)
      PROVE  <<c, ids[i]>> \in DOMAIN segFiles /\ segFiles[<<c, ids[i]>>] \in GoodLayer /\ ids[i] \in Nat
  <2>1. i \in DOMAIN ids
    BY <1>3
  <2>2. PICK j \in DOMAIN segs : ids[i] = segs[j]
    BY <1>2, <2>1, BackwardsEntries
  <2>3. <<c, ids[i]>> \in DOMAIN segFiles
    BY <2>2 DEF Inv, FilesInv
  <2>4. segFiles \in Maps(Cid \X Nat, GoodLayer)
    BY DEF Inv, TypeOK
  <2>5. segFiles[<<c, ids[i]>>] \in GoodLayer
    BY <2>3, <2>4, MapAt
  <2> QED BY <1>3, <2>1, <2>3, <2>5
<1> HIDE DEF ids, new
<1>6. \A i \in 1..Len(ids) :
         new[i] \in Segment /\ new[i].id = ids[i] /\ new[i].layer = segFiles[<<c, ids[i]>>]
  BY <1>4, <1>5 DEF Segment
<1>7. new \in [1..Len(ids) -> Segment]
  BY <1>4, <1>6
<1>8. new \in Seq(Segment) /\ Len(new) = Len(ids) /\ DOMAIN new = 1..Len(ids)
  <2> DEFINE n == Len(ids)
  <2>1. n \in Nat /\ new \in [1..n -> Segment]
    BY <1>3, <1>7
  <2> HIDE DEF n
  <2>2. new \in Seq(Segment) /\ Len(new) = n /\ DOMAIN new = 1..n
    BY <2>1
  <2> QED BY <2>2 DEF n
<1>9. SegIds(new) = ids
  <2>1. SegIds(new) = [i \in 1..Len(ids) |-> new[i].id]
    BY <1>8 DEF SegIds
  <2>2. ids = [i \in 1..Len(ids) |-> ids[i]]
    BY <1>3
  <2> QED BY <1>6, <2>1, <2>2
<1>10. GoodIds(ids, manifest.nextSeg)
  <2>1. GoodIds(segs, manifest.nextSeg)
    BY DEF Inv, ManifestInv
  <2> QED BY <1>2, <2>1, GoodIdsBackwards DEF ids
<1>11. \A i \in DOMAIN new : Holds(segFiles, c, new[i])
  BY <1>5, <1>6, <1>8 DEF Holds
<1>12. segs = <<>> => new = <<>>
  BY <1>3, <1>8
<1> QED BY <1>1, <1>2, <1>8, <1>9, <1>10, <1>11, <1>12 DEF ids, new

\* The scan that recovery counts with finds the length that point reads give.
LEMMA ScannedIs ==
    ASSUME NEW segs \in Seq(Segment)
    PROVE  /\ ScannedLen(SegLayers(segs)) = LiveCount(SegLayers(segs))
           /\ LiveCount(SegLayers(segs)) \in Nat
<1> DEFINE layers == SegLayers(segs)
           ids == {id \in Id : IsIdLive(layers, id)}
<1>1. /\ layers \in Seq(Layer) /\ DOMAIN layers = 1..Len(segs)
      /\ \A i \in 1..Len(segs) : Exclusive(layers[i])
  <2>1. /\ layers \in Seq(Layer) /\ Len(layers) = Len(segs)
        /\ \A i \in 1..Len(segs) : Exclusive(layers[i])
    BY SegmentsAre
  <2> HIDE DEF layers
  <2> QED BY <2>1
<1>2. Cardinality(LiveRows(layers)) = Cardinality(ids)
  <2> HIDE DEF layers
  <2> QED BY <1>1, ScanCounts
<1>3. IsFiniteSet(ids)
  BY IdAssumption, FS_Subset
<1>4. Cardinality(ids) \in Nat
  BY <1>3, FS_CardinalityType
<1> QED BY <1>2, <1>4 DEF ScannedLen, LiveCount

\* A collection as it is loaded
Loaded(name, segments, n) == [NewCollection(name) EXCEPT !.segments = segments, !.liveLen = n]

LEMMA LoadedCol ==
    ASSUME NEW name \in Name, NEW segments \in Seq(Segment), NEW n \in Nat
    PROVE  /\ Loaded(name, segments, n) \in Col
           /\ Loaded(name, segments, n).memtable = EmptyLayer
           /\ Loaded(name, segments, n).segments = segments
           /\ Loaded(name, segments, n).liveLen = n
<1> DEFINE col == Loaded(name, segments, n)
           new == NewCollection(name)
<1>1. new \in Col /\ new.memtable = EmptyLayer
  <2>1. EmptyLayer \in GoodLayer /\ <<>> \in Seq(Segment) /\ 0 \in Int
    BY LayerTypes DEF GoodLayer
  <2> QED BY <2>1 DEF NewCollection, Col
<1>2. col = [new EXCEPT !.segments = segments, !.liveLen = n]
  BY DEF Loaded
<1> HIDE DEF new, col
<1>3. n \in Int
  OBVIOUS
<1>4. /\ col.memtable = EmptyLayer /\ col.segments = segments /\ col.liveLen = n
  BY <1>1, <1>2 DEF Col
<1>5. col \in Col
  BY <1>1, <1>2, <1>3 DEF Col
<1> QED BY <1>4, <1>5 DEF col

LEMMA LoadedIs ==
    ASSUME Inv
    PROVE  /\ Good(LoadedState) /\ LoadedState.manifest = manifest
           /\ LoadedState.pending = NoPending
           /\ DOMAIN LoadedState.cols = DOMAIN manifest.cols
           /\ \A c \in DOMAIN manifest.cols : LoadedState.cols[c].segments = SegmentsOf(c)
<1> DEFINE colOf(c) == Loaded(manifest.cols[c].name, SegmentsOf(c),
                             ScannedLen(SegLayers(SegmentsOf(c))))
           cols == [c \in DOMAIN manifest.cols |-> colOf(c)]
           named == {manifest.cols[c].name : c \in DOMAIN manifest.cols}
           names == [name \in named |->
                       CHOOSE c \in DOMAIN manifest.cols : manifest.cols[c].name = name]
           st == LoadedState
<1>1. manifest \in Manifest /\ manifest.cols \in Maps(Cid, ListedCol) /\ manifest.nextCid \in Nat
  BY ManifestsAre
<1>2. st = [manifest |-> manifest, wal |-> 0, names |-> names, cols |-> cols, pending |-> NoPending]
  BY DEF LoadedState, Loaded
<1>3. names \in Maps(Name, Cid)
  <2>1. named \subseteq Name
    BY LoadedSegments
  <2>2. ASSUME NEW name \in named PROVE names[name] \in Cid
    <3>1. \E c \in DOMAIN manifest.cols : manifest.cols[c].name = name
      OBVIOUS
    <3>2. names[name] \in DOMAIN manifest.cols
      BY <3>1
    <3> QED BY <3>2, LoadedSegments
  <2>3. names \in [named -> Cid]
    BY <2>2
  <2>4. DOMAIN names = named
    OBVIOUS
  <2> HIDE DEF named, names
  <2> QED BY <2>1, <2>3, <2>4, MapsIs
<1>4. ASSUME NEW c \in DOMAIN manifest.cols
      PROVE  /\ cols[c] = colOf(c) /\ colOf(c) \in Col /\ c \in Cid
             /\ colOf(c).memtable = EmptyLayer /\ colOf(c).segments = SegmentsOf(c)
             /\ colOf(c).liveLen = LiveCount(SegLayers(SegmentsOf(c)))
  <2>1. SegmentsOf(c) \in Seq(Segment) /\ c \in Cid /\ manifest.cols[c].name \in Name
    BY LoadedSegments
  <2>2. /\ ScannedLen(SegLayers(SegmentsOf(c))) = LiveCount(SegLayers(SegmentsOf(c)))
        /\ LiveCount(SegLayers(SegmentsOf(c))) \in Nat
    BY <2>1, ScannedIs
  <2> DEFINE n == ScannedLen(SegLayers(SegmentsOf(c)))
             name == manifest.cols[c].name
  <2>3. n \in Nat /\ name \in Name
    BY <2>1, <2>2
  <2> HIDE DEF n, name
  <2>4. /\ Loaded(name, SegmentsOf(c), n) \in Col
        /\ Loaded(name, SegmentsOf(c), n).memtable = EmptyLayer
        /\ Loaded(name, SegmentsOf(c), n).segments = SegmentsOf(c)
        /\ Loaded(name, SegmentsOf(c), n).liveLen = n
    BY <2>1, <2>3, LoadedCol
  <2>5. cols[c] = colOf(c)
    OBVIOUS
  <2> QED BY <2>1, <2>2, <2>4, <2>5 DEF n, name
<1> HIDE DEF colOf
<1>5. cols \in Maps(Cid, Col) /\ DOMAIN cols = DOMAIN manifest.cols
  <2>1. cols \in [DOMAIN manifest.cols -> Col] /\ DOMAIN manifest.cols \subseteq Cid
    BY <1>4
  <2> HIDE DEF cols
  <2> QED BY <2>1, MapsIs
<1>6. \A c \in DOMAIN manifest.cols :
         /\ cols[c].memtable = EmptyLayer /\ cols[c].segments = SegmentsOf(c)
         /\ cols[c].liveLen = LiveCount(SegLayers(SegmentsOf(c)))
  BY <1>4
<1> HIDE DEF cols, names, st
<1>7. /\ st \in StoreState /\ st.manifest = manifest /\ st.pending = NoPending /\ st.cols = cols
  <2>1. 0 \in Nat
    OBVIOUS
  <2> QED BY <1>1, <1>2, <1>3, <1>5, <2>1 DEF StoreState
<1>8. ASSUME NEW c \in DOMAIN st.cols PROVE GoodCol(st, c)
  <2>1. c \in DOMAIN manifest.cols
    BY <1>5, <1>7
  <2>2. ASSUME NEW id \in Id
        PROVE  Lookup(Layers(st, c), id) = Lookup(SegLayers(SegmentsOf(c)), id)
    <3>1. ~Mentions(EmptyLayer, id) /\ ~Waits(st, c)
      BY <1>7, LayerTypes DEF Waits
    <3>2. Lookup(Layers(st, c), id) =
              IF Mentions(st.cols[c].memtable, id) THEN ValueIn(st.cols[c].memtable, id)
              ELSE IF Waits(st, c) /\ Mentions(st.pending.memtables[c], id)
              THEN ValueIn(st.pending.memtables[c], id)
              ELSE Lookup(SegLayers(st.cols[c].segments), id)
      BY <1>7, LookupLayers
    <3> QED BY <1>6, <1>7, <2>1, <3>1, <3>2
  <2>3. {id \in Id : IsIdLive(Layers(st, c), id)}
          = {id \in Id : IsIdLive(SegLayers(SegmentsOf(c)), id)}
    BY <2>2 DEF IsIdLive
  <2>4. LiveCount(Layers(st, c)) = LiveCount(SegLayers(SegmentsOf(c)))
    BY <2>3 DEF LiveCount
  <2>5. c < manifest.nextCid
    BY <2>1 DEF Inv, ManifestInv, Below
  <2>6. GoodIds(SegIds(SegmentsOf(c)), manifest.nextSeg)
    BY <2>1, LoadedSegments
  <2> QED BY <1>6, <1>7, <2>1, <2>4, <2>5, <2>6 DEF GoodCol
<1>9. Below(DOMAIN manifest.cols, manifest.nextCid)
  BY DEF Inv, ManifestInv
<1>10. Good(st)
  BY <1>7, <1>8, <1>9 DEF Good
<1> QED BY <1>5, <1>6, <1>7, <1>10 DEF st

----------------------------------------------------------------------------
(* load_state: the logs *)

\* A non-empty set of naturals with a bound has a largest element.
LEMMA LargestExists ==
    ASSUME NEW S, NEW n \in Nat, S \subseteq 0..n, S # {}
    PROVE  \E m \in S : \A k \in S : k <= m
<1> DEFINE T == {n - k : k \in S}
<1>1. T \subseteq Nat /\ T # {}
  <2>1. ASSUME NEW k \in S PROVE n - k \in Nat
    BY k \in 0..n
  <2>2. PICK k \in S : TRUE
    OBVIOUS
  <2>3. n - k \in T
    OBVIOUS
  <2> QED BY <2>1, <2>3
<1> HIDE DEF T
<1>2. PICK m \in T : \A k \in T : ~(k < m)
  BY <1>1, LeastExists
<1>3. PICK k \in S : m = n - k
  BY DEF T
<1>4. ASSUME NEW l \in S PROVE l <= k
  <2>1. n - l \in T /\ ~(n - l < n - k)
    BY <1>2, <1>3 DEF T
  <2> QED BY <2>1
<1> QED BY <1>4

\* read_all stops in front of a partial frame.
LEMMA WholeFramesAre ==
    ASSUME NEW records \in Seq(WalRecord)
    PROVE  /\ WholeFrames(records) \in Seq(WalRecord)
           /\ \A i \in DOMAIN WholeFrames(records) :
                 /\ i \in DOMAIN records /\ WholeFrames(records)[i] = records[i]
                 /\ records[i] # Torn
<1> DEFINE whole == {n \in 0..Len(records) : \A i \in 1..n : records[i] # Torn}
           last == CHOOSE n \in whole : \A m \in whole : m <= n
<1>1. Len(records) \in Nat /\ 0 \in whole /\ whole \subseteq 0..Len(records)
  OBVIOUS
<1>2. \E n \in whole : \A m \in whole : m <= n
  <2> HIDE DEF whole
  <2> QED BY <1>1, LargestExists
<1>3. last \in whole
  <2> HIDE DEF whole
  <2> QED BY <1>2
<1>4. last \in 0..Len(records) /\ \A i \in 1..last : records[i] # Torn
  BY <1>3
<1>5. WholeFrames(records) = SubSeq(records, 1, last)
  BY DEF WholeFrames
<1> HIDE DEF last, whole
<1> DEFINE s == SubSeq(records, 1, last)
<1>6. /\ s \in Seq(WalRecord) /\ DOMAIN s = 1..last
      /\ \A i \in 1..last : s[i] = records[i] /\ i \in DOMAIN records
  BY <1>1, <1>4
<1> HIDE DEF s
<1> QED BY <1>4, <1>5, <1>6 DEF s

LEMMA NextWalIs ==
    ASSUME NEW files \in Logs, files = wals, NEW seq \in Nat
    PROVE  /\ NextWal(seq) \in Nat
           /\ NextWal(seq) # 0 => NextWal(seq) \in DOMAIN wals /\ NextWal(seq) > seq
<1> DEFINE newer == {s \in DOMAIN wals : s > seq}
           least == CHOOSE s \in newer : \A t \in newer : s <= t
<1>1. DOMAIN wals \subseteq Nat
  BY MapsIs DEF Logs
<1>2. CASE newer = {}
  BY <1>2 DEF NextWal
<1>3. CASE newer # {}
  <2>1. newer \subseteq Nat
    BY <1>1
  <2>2. \E s \in newer : \A t \in newer : s <= t
    <3> HIDE DEF newer
    <3>1. PICK s \in newer : \A t \in newer : ~(t < s)
      BY <1>3, <2>1, LeastExists
    <3> QED BY <2>1, <3>1
  <2>3. least \in newer
    <3> HIDE DEF newer
    <3> QED BY <2>2
  <2>4. NextWal(seq) = least
    BY <1>3 DEF NextWal
  <2> QED BY <1>1, <2>3, <2>4
<1> QED BY <1>2, <1>3

\* Replay goes on with a log after seq that is cut at its first partial frame.
LEMMA StartReplayIs ==
    ASSUME Inv, NEW seq \in Nat, manifest.walSeq <= seq, StartReplay(seq)
    PROVE  /\ wals' \in Logs /\ DOMAIN wals' = DOMAIN wals
           /\ \A from, c : Created(wals', from, c) => Created(wals, from, c)
           /\ replay' \in [seq : Nat, pos : Nat]
           /\ replay'.seq # 0 =>
                 /\ replay'.seq \in DOMAIN wals' /\ replay'.seq > manifest.walSeq
                 /\ \A i \in DOMAIN wals'[replay'.seq] : wals'[replay'.seq][i] # Torn
<1> DEFINE next == NextWal(seq)
<1>1. wals \in Logs /\ manifest.walSeq \in Nat
  BY ManifestsAre DEF Inv, TypeOK
<1>2. DOMAIN wals \subseteq Nat /\ wals \in [DOMAIN wals -> Seq(WalRecord)]
  BY <1>1, MapsIs DEF Logs
<1>3. next \in Nat /\ (next # 0 => next \in DOMAIN wals /\ next > seq)
  BY <1>1, NextWalIs
<1>4. /\ replay' = [seq |-> next, pos |-> 0]
      /\ wals' = IF next = 0 THEN wals ELSE [wals EXCEPT ![next] = WholeFrames(@)]
  BY DEF StartReplay
<1> HIDE DEF next
<1>5. replay' \in [seq : Nat, pos : Nat] /\ replay'.seq = next
  BY <1>3, <1>4
<1>6. CASE next = 0
  BY <1>1, <1>4, <1>5, <1>6
<1>7. CASE next # 0
  <2> DEFINE cut == WholeFrames(wals[next])
  <2>1. /\ cut \in Seq(WalRecord)
        /\ \A i \in DOMAIN cut : /\ i \in DOMAIN wals[next] /\ cut[i] = wals[next][i]
                                 /\ wals[next][i] # Torn
    BY <1>2, <1>3, <1>7, WholeFramesAre
  <2>2. wals' = [wals EXCEPT ![next] = cut]
    BY <1>4, <1>7
  <2> HIDE DEF cut
  <2>3. /\ DOMAIN wals' = DOMAIN wals /\ wals'[next] = cut
        /\ \A s \in DOMAIN wals : s # next => wals'[s] = wals[s]
    BY <1>3, <1>7, <2>2
  <2>4. wals' \in Logs
    <3>1. wals' \in [DOMAIN wals -> Seq(WalRecord)]
      BY <1>2, <2>1, <2>2
    <3> QED BY <1>2, <2>3, <3>1, MapsIs DEF Logs
  <2>5. \A s \in DOMAIN wals : \A c : Creates(wals', s, c) => Creates(wals, s, c)
    BY <2>1, <2>3 DEF Creates
  <2>6. \A from, c : Created(wals', from, c) => Created(wals, from, c)
    BY <2>3, <2>5 DEF Created
  <2>7. next \in DOMAIN wals' /\ next > manifest.walSeq /\ \A i \in DOMAIN wals'[next] : wals'[next][i] # Torn
    BY <1>1, <1>3, <1>7, <2>1, <2>3
  <2> QED BY <1>5, <2>3, <2>4, <2>6, <2>7
<1> QED BY <1>6, <1>7

\* A store that is being loaded holds what the manifest and the logs give it.
LEMMA LoadingStep ==
    ASSUME Inv, phase \in {"down", "loading"}, phase' = "loading",
           UNCHANGED <<manifest, segFiles, maint, failures>>,
           wals' \in Logs, DOMAIN wals' = DOMAIN wals,
           \A from, c : Created(wals', from, c) => Created(wals, from, c),
           replay' \in [seq : Nat, pos : Nat],
           Good(state'), state'.pending = NoPending,
           state'.manifest = [manifest EXCEPT !.nextCid = state'.manifest.nextCid],
           manifest.nextCid <= state'.manifest.nextCid,
           \A c \in DOMAIN state'.cols :
              \/ c \in DOMAIN manifest.cols /\ state'.cols[c].segments = SegmentsOf(c)
              \/ c \notin DOMAIN manifest.cols /\ state'.cols[c].segments = <<>>,
           replay'.seq # 0 =>
              /\ replay'.seq \in DOMAIN wals' /\ replay'.seq > manifest.walSeq
              /\ \A i \in DOMAIN wals'[replay'.seq] : wals'[replay'.seq][i] # Torn
    PROVE  Inv'
<1>1. maint = Idle /\ maint'.at = "idle" /\ maint' = Idle
  BY DEF Inv, FollowInv, Idle
<1>2. state' \in StoreState
  BY GoodIs
<1>3. state'.manifest.cols = manifest.cols
  BY ManifestsAre DEF Manifest
<1>4. TypeOK'
  BY <1>1, <1>2 DEF Inv, TypeOK, Running
<1>5. StateInv' /\ ManifestInv'
  BY DEF StateInv, Inv, ManifestInv
<1>6. FilesInv'
  <2>1. ASSUME NEW c \in DOMAIN state'.cols, NEW i \in DOMAIN state'.cols[c].segments
        PROVE  Holds(segFiles, c, state'.cols[c].segments[i])
    BY LoadedSegments
  <2> QED BY <2>1 DEF Inv, FilesInv, Holds
<1>7. FollowInv'
  BY <1>1 DEF FollowInv
<1>8. ListInv'
  BY <1>3, LoadedSegments DEF ListInv
<1>9. LogInv'
  BY DEF Inv, LogInv
<1>10. CreateInv'
  <2>1. ASSUME NEW c \in DOMAIN state'.cols, Created(wals', manifest.walSeq, c)
        PROVE  state'.cols[c].segments = <<>>
    <3>1. CASE c \in DOMAIN manifest.cols /\ state'.cols[c].segments = SegmentsOf(c)
      <4>1. manifest.cols[c].segs = <<>>
        BY <2>1, <3>1 DEF Inv, CreateInv
      <4> QED BY <3>1, <4>1, LoadedSegments
    <3> QED BY <3>1
  <2> QED BY <2>1 DEF Inv, CreateInv
<1>11. ReplayInv'
  BY DEF ReplayInv
<1>12. FlushInv' /\ CompactInv'
  BY <1>1 DEF FlushInv, CompactInv
<1> QED BY <1>4, <1>5, <1>6, <1>7, <1>8, <1>9, <1>10, <1>11, <1>12 DEF Inv

\* A store that cannot be opened stays as it was found.
LEMMA FailedStep ==
    ASSUME Inv, phase \in {"down", "loading"}, phase' = "failed",
           UNCHANGED <<manifest, wals, segFiles, replay, maint, failures>>
    PROVE  Inv'
<1>1. maint = Idle /\ maint' = Idle /\ maint'.at = "idle"
  BY DEF Inv, FollowInv, Idle
<1>2. TypeOK'
  BY DEF Inv, TypeOK, Running
<1>3. StateInv' /\ ManifestInv' /\ FilesInv'
  BY DEF Inv, StateInv, ManifestInv, FilesInv, Running
<1>4. FollowInv' /\ ListInv' /\ LogInv' /\ ReplayInv'
  BY <1>1 DEF Inv, FollowInv, ListInv, LogInv, ReplayInv, Running
<1>5. CreateInv'
  BY DEF Inv, CreateInv, Running
<1>6. FlushInv' /\ CompactInv'
  BY <1>1 DEF FlushInv, CompactInv
<1> QED BY <1>2, <1>3, <1>4, <1>5, <1>6 DEF Inv

LEMMA OpenLoadKeeps ==
    ASSUME Inv, OpenLoad
    PROVE  Inv'
<1>1. phase = "down" /\ UNCHANGED <<manifest, segFiles, maint, failures>>
  BY DEF OpenLoad
<1>2. SegmentsReadable
  BY DEF Inv, FilesInv, SegmentsReadable
<1>3. phase' = "loading" /\ state' = LoadedState /\ StartReplay(manifest.walSeq)
  BY <1>2 DEF OpenLoad
<1>4. manifest \in Manifest /\ manifest.walSeq \in Nat /\ manifest.nextCid \in Nat
  BY ManifestsAre
<1>5. /\ wals' \in Logs /\ DOMAIN wals' = DOMAIN wals
      /\ \A from, c : Created(wals', from, c) => Created(wals, from, c)
      /\ replay' \in [seq : Nat, pos : Nat]
      /\ replay'.seq # 0 =>
            /\ replay'.seq \in DOMAIN wals' /\ replay'.seq > manifest.walSeq
            /\ \A i \in DOMAIN wals'[replay'.seq] : wals'[replay'.seq][i] # Torn
  <2> DEFINE seq == manifest.walSeq
  <2>1. seq \in Nat /\ manifest.walSeq <= seq /\ StartReplay(seq)
    BY <1>3, <1>4
  <2> HIDE DEF seq
  <2> QED BY <2>1, StartReplayIs
<1>6. /\ Good(state') /\ state'.manifest = manifest /\ state'.pending = NoPending
      /\ DOMAIN state'.cols = DOMAIN manifest.cols
      /\ \A c \in DOMAIN manifest.cols : state'.cols[c].segments = SegmentsOf(c)
  BY <1>3, LoadedIs
<1>7. manifest = [manifest EXCEPT !.nextCid = manifest.nextCid] /\ manifest.nextCid <= manifest.nextCid
  BY <1>4 DEF Manifest
<1> QED BY <1>1, <1>3, <1>5, <1>6, <1>7, LoadingStep

\* While it is being loaded, a collection has the segments of its list.
LEMMA LoadingSegments ==
    ASSUME Inv, phase = "loading", NEW c \in DOMAIN state.cols
    PROVE  \/ c \in DOMAIN manifest.cols /\ state.cols[c].segments = SegmentsOf(c)
           \/ c \notin DOMAIN manifest.cols /\ state.cols[c].segments = <<>>
<1>1. /\ Good(state) /\ state \in StoreState /\ state.manifest.cols = manifest.cols
  <2>1. Running /\ LockFree
    BY DEF Running, LockFree, Inv, FollowInv, Idle
  <2> QED BY <2>1, ManifestsAre
<1>2. CASE c \notin DOMAIN manifest.cols
  BY <1>1, <1>2, GoodIs DEF GoodCol
<1>3. CASE c \in DOMAIN manifest.cols
  <2> DEFINE old == state.cols[c].segments
             new == SegmentsOf(c)
  <2>1. /\ old \in Seq(Segment) /\ new \in Seq(Segment) /\ SegIds(old) = SegIds(new)
        /\ \A i \in DOMAIN old : Holds(segFiles, c, old[i])
        /\ \A i \in DOMAIN new : Holds(segFiles, c, new[i])
    <3>1. SegIds(old) = Backwards(manifest.cols[c].segs)
      BY <1>1, <1>3 DEF Inv, ListInv
    <3>2. old \in Seq(Segment)
      BY <1>1, ColIs
    <3>3. \A i \in DOMAIN old : Holds(segFiles, c, old[i])
      BY DEF Inv, FilesInv, Running
    <3>4. /\ new \in Seq(Segment) /\ SegIds(new) = Backwards(manifest.cols[c].segs)
          /\ \A i \in DOMAIN new : Holds(segFiles, c, new[i])
      BY <1>3, LoadedSegments
    <3> QED BY <3>1, <3>2, <3>3, <3>4
  <2> HIDE DEF old, new
  <2>2. Len(old) = Len(new) /\ DOMAIN old = 1..Len(old) /\ DOMAIN new = 1..Len(old)
    <3>1. Len(SegIds(old)) = Len(old) /\ Len(SegIds(new)) = Len(new)
      BY <2>1, SegmentsAre
    <3> QED BY <2>1, <3>1
  <2>3. ASSUME NEW i \in 1..Len(old) PROVE old[i] = new[i]
    <3>1. old[i] \in Segment /\ new[i] \in Segment
      BY <2>1, <2>2
    <3>2. SegIds(old)[i] = old[i].id /\ SegIds(new)[i] = new[i].id
      BY <2>1, <2>2, SegmentsAre
    <3>3. old[i].id = new[i].id
      BY <2>1, <3>2
    <3>4. old[i].layer = new[i].layer
      BY <2>1, <2>2, <3>3 DEF Holds
    <3> QED BY <3>1, <3>3, <3>4 DEF Segment
  <2>4. old = new
    BY <2>1, <2>2, <2>3
  <2> QED BY <1>3, <2>4 DEF old, new
<1> QED BY <1>2, <1>3

LEMMA ReplayRecordKeeps ==
    ASSUME Inv, ReplayRecord
    PROVE  Inv'
<1> DEFINE r == NextRecord
           st2 == Apply(state, r)
<1>1. /\ phase = "loading" /\ replay.seq # 0 /\ replay.pos < Len(wals[replay.seq])
      /\ UNCHANGED <<manifest, wals, segFiles, maint, failures>>
  BY DEF ReplayRecord, AtRecord, disk
<1>2. CASE ~Known(state, r)
  <2>1. phase' = "failed" /\ UNCHANGED replay
    BY <1>2 DEF ReplayRecord
  <2> QED BY <1>1, <2>1, FailedStep
<1>3. CASE Known(state, r)
  <2>1. state' = st2 /\ replay' = [replay EXCEPT !.pos = @ + 1] /\ phase' = "loading"
    BY <1>1, <1>3 DEF ReplayRecord
  <2>2. /\ state.pending = NoPending /\ replay.seq \in DOMAIN wals /\ replay.seq > manifest.walSeq
        /\ \A i \in DOMAIN wals[replay.seq] : wals[replay.seq][i] # Torn
    BY <1>1 DEF Inv, ReplayInv
  <2>3. /\ wals[replay.seq] \in Seq(WalRecord) /\ wals \in Logs
        /\ replay \in [seq : Nat, pos : Nat]
    BY <2>2, MapAt DEF Inv, TypeOK, Logs
  <2>4. replay.pos + 1 \in DOMAIN wals[replay.seq] /\ r = wals[replay.seq][replay.pos + 1]
    BY <1>1, <2>3 DEF NextRecord
  <2>5. r \in WalRecord /\ r.op \notin {"torn", "blank"}
    <3>1. r \in WalRecord /\ r # [op |-> "torn"]
      BY <2>2, <2>3, <2>4 DEF Torn
    <3>2. r.op # "blank"
      BY <1>3 DEF Known
    <3> HIDE DEF r
    <3>3. r.op # "torn"
      BY <3>1 DEF WalRecord
    <3> QED BY <3>1, <3>2, <3>3
  <2>6. /\ Good(state) /\ state \in StoreState
        /\ state.manifest = [manifest EXCEPT !.nextCid = state.manifest.nextCid]
        /\ manifest.nextCid <= state.manifest.nextCid /\ manifest.nextCid \in Nat
        /\ manifest \in Manifest /\ state.manifest \in Manifest
    BY <1>1, ManifestsAre DEF Inv, FollowInv, Running, LockFree, Idle
  <2> HIDE DEF r, st2
  <2>7. /\ Applied(state, st2)
        /\ \A c \in DOMAIN st2.cols :
              \/ OldSegments(state, st2, c)
              \/ r.op = "create" /\ c = r.cid /\ st2.cols[c].segments = <<>>
    <3>1. r.op = "create" => ~Waits(state, r.cid)
      BY <2>2 DEF Waits
    <3> QED BY <1>3, <2>5, <2>6, <3>1, RecordApplied DEF st2
  <2>8. /\ Good(st2) /\ st2.pending = NoPending /\ st2 \in StoreState
        /\ st2.manifest = [state.manifest EXCEPT !.nextCid = st2.manifest.nextCid]
        /\ state.manifest.nextCid <= st2.manifest.nextCid
    BY <2>2, <2>7, GoodIs DEF Applied, SameManifest
  <2>9. state.manifest.nextCid \in Nat /\ st2.manifest.nextCid \in Nat
    BY <2>6, <2>8, StateIs DEF Manifest
  <2>10. st2.manifest = [manifest EXCEPT !.nextCid = st2.manifest.nextCid]
    BY <2>6, <2>8 DEF Manifest
  <2>11. manifest.nextCid <= st2.manifest.nextCid
    BY <2>6, <2>8, <2>9
  <2>12. ASSUME NEW c \in DOMAIN st2.cols
         PROVE  \/ c \in DOMAIN manifest.cols /\ st2.cols[c].segments = SegmentsOf(c)
                \/ c \notin DOMAIN manifest.cols /\ st2.cols[c].segments = <<>>
    <3>1. CASE OldSegments(state, st2, c)
      BY <1>1, <3>1, LoadingSegments DEF OldSegments
    <3>2. CASE r.op = "create" /\ c = r.cid /\ st2.cols[c].segments = <<>>
      <4>1. Created(wals, manifest.walSeq, c)
        BY <2>2, <2>4, <3>2 DEF Created, Creates
      <4>2. c \in DOMAIN manifest.cols => SegmentsOf(c) = <<>>
        BY <4>1, LoadedSegments DEF Inv, CreateInv
      <4> QED BY <3>2, <4>2
    <3> QED BY <2>7, <3>1, <3>2
  <2>13. replay' \in [seq : Nat, pos : Nat] /\ replay'.seq = replay.seq
    BY <2>1, <2>3
  <2> QED BY <1>1, <2>1, <2>2, <2>3, <2>8, <2>10, <2>11, <2>12, <2>13, LoadingStep
<1> QED BY <1>2, <1>3

LEMMA ReplayFileEndKeeps ==
    ASSUME Inv, ReplayFileEnd
    PROVE  Inv'
<1>1. /\ phase = "loading" /\ phase' = "loading" /\ replay.seq # 0 /\ StartReplay(replay.seq)
      /\ UNCHANGED <<manifest, segFiles, state, maint, failures>>
  BY DEF ReplayFileEnd
<1>2. replay.seq \in Nat /\ replay.seq > manifest.walSeq /\ state.pending = NoPending
  BY <1>1 DEF Inv, ReplayInv, TypeOK
<1>3. /\ wals' \in Logs /\ DOMAIN wals' = DOMAIN wals
      /\ \A from, c : Created(wals', from, c) => Created(wals, from, c)
      /\ replay' \in [seq : Nat, pos : Nat]
      /\ replay'.seq # 0 =>
            /\ replay'.seq \in DOMAIN wals' /\ replay'.seq > manifest.walSeq
            /\ \A i \in DOMAIN wals'[replay'.seq] : wals'[replay'.seq][i] # Torn
  <2> DEFINE seq == replay.seq
  <2>1. seq \in Nat /\ manifest.walSeq <= seq /\ StartReplay(seq)
    BY <1>1, <1>2, ManifestsAre
  <2> HIDE DEF seq
  <2> QED BY <2>1, StartReplayIs
<1>4. /\ Good(state') /\ state'.pending = NoPending
      /\ state'.manifest = [manifest EXCEPT !.nextCid = state'.manifest.nextCid]
      /\ manifest.nextCid <= state'.manifest.nextCid
  BY <1>1, <1>2, ManifestsAre DEF Inv, FollowInv, Running, LockFree, Idle
<1>5. \A c \in DOMAIN state'.cols :
         \/ c \in DOMAIN manifest.cols /\ state'.cols[c].segments = SegmentsOf(c)
         \/ c \notin DOMAIN manifest.cols /\ state'.cols[c].segments = <<>>
  BY <1>1, LoadingSegments
<1> QED BY <1>1, <1>3, <1>4, <1>5, LoadingStep

----------------------------------------------------------------------------
(* open: the last steps *)

\* The largest log, of those there are and the one the manifest covers
LEMMA MaxSeqIs ==
    ASSUME Inv
    PROVE  /\ MaxSeq \in Nat /\ manifest.walSeq <= MaxSeq
           /\ \A s \in DOMAIN wals : s <= MaxSeq
           /\ MaxSeq \in DOMAIN wals \cup {manifest.walSeq}
<1> DEFINE m == manifest.walSeq
           logs == DOMAIN wals
           seqs == logs \cup {m}
           largest == CHOOSE s \in seqs : \A t \in seqs : t <= s
<1>1. PICK n \in Nat : logs \subseteq 0..n
  BY DEF Inv, LogInv
<1>2. m \in Nat
  BY ManifestsAre
<1>3. MaxSeq = largest
  BY DEF MaxSeq
<1> HIDE DEF m, logs
<1>4. PICK k \in Nat : seqs \subseteq 0..k
  BY <1>1, <1>2, BoundedLogs
<1>5. \E s \in seqs : \A t \in seqs : t <= s
  <2>1. seqs # {}
    OBVIOUS
  <2> HIDE DEF seqs
  <2> QED BY <1>4, <2>1, LargestExists
<1>6. largest \in seqs /\ \A t \in seqs : t <= largest
  <2> HIDE DEF seqs
  <2> QED BY <1>5
<1>7. largest \in Nat
  BY <1>4, <1>6
<1> HIDE DEF largest
<1>8. MaxSeq \in Nat /\ m <= MaxSeq /\ (\A s \in logs : s <= MaxSeq) /\ MaxSeq \in logs \cup {m}
  BY <1>3, <1>6, <1>7
<1> QED BY <1>8 DEF m, logs

\* What open leaves of the logs, and the one it creates
LEMMA OpenedLogs ==
    ASSUME Inv, NEW files, NEW next, next = MaxSeq + 1,
           files = Put(NewerWals(wals, manifest.walSeq), next, <<>>)
    PROVE  /\ files \in Logs /\ next \in DOMAIN files
           /\ \E n \in Nat : DOMAIN files \subseteq 0..n
           /\ \A from, c : Created(files, from, c) => Created(wals, from, c)
           /\ \A s \in DOMAIN files : s <= next
<1> DEFINE newer == NewerWals(wals, manifest.walSeq)
<1>1. wals \in Logs /\ DOMAIN wals \subseteq Nat /\ next \in Nat
  BY MaxSeqIs, MapsIs DEF Inv, TypeOK, Logs
<1>2. /\ DOMAIN newer \subseteq DOMAIN wals
      /\ \A s \in DOMAIN newer : newer[s] = wals[s]
  BY DEF NewerWals, Keep
<1>3. newer \in Logs
  BY <1>1, KeepType DEF NewerWals, Logs
<1> HIDE DEF newer
<1>4. files = Put(newer, next, <<>>)
  BY DEF newer
<1>5. files \in Logs
  <2>1. <<>> \in Seq(WalRecord)
    OBVIOUS
  <2> QED BY <1>1, <1>3, <1>4, <2>1, PutType DEF Logs
<1>6. /\ DOMAIN files = DOMAIN newer \cup {next} /\ files[next] = <<>>
      /\ \A s \in DOMAIN newer : s # next => files[s] = newer[s]
  BY <1>4 DEF Put
<1>7. \A s \in DOMAIN files : s <= next /\ s \in Nat
  BY <1>1, <1>2, <1>6, MaxSeqIs
<1>8. DOMAIN files \subseteq 0..next
  BY <1>1, <1>7
<1>9. ASSUME NEW from, NEW c, Created(files, from, c)
      PROVE  Created(wals, from, c)
  <2>1. PICK s \in DOMAIN files : s > from /\ Creates(files, s, c)
    BY <1>9 DEF Created
  <2>2. s # next
    BY <1>6, <2>1 DEF Creates
  <2>3. s \in DOMAIN wals /\ Creates(wals, s, c)
    BY <1>2, <1>6, <2>1, <2>2 DEF Creates
  <2> QED BY <2>1, <2>3 DEF Created
<1> QED BY <1>1, <1>5, <1>6, <1>7, <1>8, <1>9

\* The next log changes nothing that a state is good by.
LEMMA NextWalGood ==
    ASSUME NEW st, Good(st), NEW st2, NEW next \in Nat, st2 = [st EXCEPT !.wal = next]
    PROVE  /\ Good(st2) /\ st2.wal = next /\ st2.manifest = st.manifest
           /\ st2.cols = st.cols /\ st2.pending = st.pending
<1>1. st \in StoreState
  BY GoodIs
<1>2. /\ st2 \in StoreState /\ st2.wal = next /\ st2.manifest = st.manifest
      /\ st2.cols = st.cols /\ st2.pending = st.pending
  BY <1>1 DEF StoreState
<1>3. SameManifest(st, st2)
  BY <1>1, <1>2, StateIs DEF SameManifest, Manifest
<1>4. ASSUME NEW c \in DOMAIN st2.cols PROVE GoodCol(st2, c)
  <2>1. GoodCol(st, c) /\ (Waits(st2, c) <=> Waits(st, c))
    BY <1>2, GoodIs DEF Waits
  <2> QED BY <1>1, <1>2, <1>3, <2>1, GoodColKept
<1> QED BY <1>2, <1>4 DEF Good

LEMMA OpenFinishKeeps ==
    ASSUME Inv, OpenFinish
    PROVE  Inv'
<1> DEFINE next == MaxSeq + 1
<1>1. /\ phase = "loading" /\ phase' = "up" /\ UNCHANGED <<manifest, replay, maint, failures>>
      /\ wals' = Put(NewerWals(wals, manifest.walSeq), next, <<>>)
      /\ segFiles' = Referenced(manifest, segFiles)
      /\ state' = [state EXCEPT !.wal = next]
  BY DEF OpenFinish
<1>2. /\ maint = Idle /\ maint'.at = "idle" /\ state.pending = NoPending
      /\ Running /\ LockFree /\ Running' /\ LockFree'
  BY <1>1 DEF Inv, FollowInv, ReplayInv, Running, LockFree, Idle
<1>3. next \in Nat /\ manifest.walSeq < next
  BY MaxSeqIs, ManifestsAre
<1>4. next = MaxSeq + 1
  OBVIOUS
<1> HIDE DEF next
<1>5. /\ wals' \in Logs /\ next \in DOMAIN wals' /\ \E n \in Nat : DOMAIN wals' \subseteq 0..n
      /\ \A from, c : Created(wals', from, c) => Created(wals, from, c)
      /\ \A s \in DOMAIN wals' : s <= next
  BY <1>1, <1>4, OpenedLogs
<1>6. /\ Good(state') /\ state'.wal = next /\ state'.manifest = state.manifest
      /\ state'.cols = state.cols /\ state'.pending = NoPending /\ state' \in StoreState
  BY <1>1, <1>2, <1>3, ManifestsAre, NextWalGood, GoodIs
<1>7. PICK S : segFiles' = Keep(segFiles, S) /\ DOMAIN Referenced(manifest, segFiles) \subseteq S
  BY <1>1 DEF Referenced, Keep
<1>8. segFiles' \in Maps(Cid \X Nat, GoodLayer)
  BY <1>7, ListedStay
<1>9. ASSUME NEW c \in DOMAIN manifest.cols, NEW i \in DOMAIN manifest.cols[c].segs
      PROVE  /\ <<c, manifest.cols[c].segs[i]>> \in DOMAIN segFiles'
             /\ segFiles'[<<c, manifest.cols[c].segs[i]>>] = segFiles[<<c, manifest.cols[c].segs[i]>>]
  BY <1>7, ListedStay
<1>10. TypeOK'
  BY <1>1, <1>2, <1>5, <1>6, <1>8 DEF Inv, TypeOK, Running
<1>11. StateInv' /\ ManifestInv'
  BY <1>1, <1>6 DEF Inv, StateInv, ManifestInv
<1>12. FilesInv'
  <2>1. ASSUME NEW c \in DOMAIN state.cols, NEW i \in DOMAIN state.cols[c].segments
        PROVE  Holds(segFiles', c, state.cols[c].segments[i])
    <3> DEFINE segs == state.cols[c].segments
    <3>1. c \in DOMAIN manifest.cols /\ segs = SegmentsOf(c)
      BY <1>1, <2>1, LoadingSegments
    <3>2. segs \in Seq(Segment) /\ SegIds(segs) = Backwards(manifest.cols[c].segs)
      BY <3>1, LoadedSegments
    <3>3. manifest.cols[c].segs \in Seq(Nat)
      <4>1. manifest.cols[c] \in ListedCol
        BY <3>1, ManifestsAre, MapAt
      <4> QED BY <4>1 DEF ListedCol
    <3>4. i \in DOMAIN SegIds(segs) /\ SegIds(segs)[i] = segs[i].id
      <4>1. i \in DOMAIN segs
        OBVIOUS
      <4> HIDE DEF segs
      <4> QED BY <3>2, <4>1, SegmentsAre
    <3>5. PICK j \in DOMAIN manifest.cols[c].segs : manifest.cols[c].segs[j] = SegIds(segs)[i]
      BY <3>2, <3>3, <3>4, BackwardsEntries
    <3>6. Holds(segFiles, c, segs[i])
      BY <1>2 DEF Inv, FilesInv
    <3> QED BY <1>9, <3>1, <3>4, <3>5, <3>6 DEF Holds
  <2>2. \A c \in DOMAIN state'.cols : \A i \in DOMAIN state'.cols[c].segments :
           Holds(segFiles', c, state'.cols[c].segments[i])
    BY <1>6, <2>1
  <2>3. \A c \in DOMAIN manifest'.cols : \A i \in DOMAIN manifest'.cols[c].segs :
           <<c, manifest'.cols[c].segs[i]>> \in DOMAIN segFiles'
    BY <1>1, <1>9
  <2> QED BY <2>2, <2>3 DEF FilesInv, Holds
<1>13. FollowInv'
  BY <1>1, <1>2, <1>6 DEF Inv, FollowInv
<1>14. ListInv'
  BY <1>1, <1>6 DEF Inv, ListInv
<1>15. LogInv'
  BY <1>1, <1>3, <1>5, <1>6 DEF LogInv
<1>16. CreateInv'
  <2>1. ASSUME NEW c PROVE ~Created(wals', next, c)
    <3>1. \A s \in DOMAIN wals' : ~(s > next)
      <4>1. DOMAIN wals' \subseteq Nat
        BY <1>5, MapsIs DEF Logs
      <4> QED BY <1>3, <1>5, <4>1
    <3> QED BY <3>1 DEF Created
  <2> QED BY <1>1, <1>2, <1>5, <1>6, <2>1 DEF Inv, CreateInv
<1>17. ReplayInv' /\ FlushInv' /\ CompactInv'
  BY <1>1, <1>2 DEF ReplayInv, FlushInv, CompactInv
<1> QED BY <1>10, <1>11, <1>12, <1>13, <1>14, <1>15, <1>16, <1>17 DEF Inv

LEMMA ProcessKeeps ==
    ASSUME Inv, Process
    PROVE  Inv'
BY CrashKeeps, CrashInAppendKeeps, CrashInCreateKeeps, OpenLoadKeeps, ReplayRecordKeeps,
   ReplayFileEndKeeps, OpenFinishKeeps DEF Process

----------------------------------------------------------------------------
(* The theorems *)

LEMMA InitHolds ==
    ASSUME InitV
    PROVE  Inv
<1>1. /\ manifest = EmptyManifest /\ wals = NoEntries /\ segFiles = NoEntries /\ phase = "down"
      /\ replay = NoReplay /\ maint = Idle /\ failures = 0
  BY DEF InitV, Init
<1>2. /\ \A D, R : NoEntries \in Maps(D, R)
      /\ DOMAIN NoEntries = {}
  <2>1. DOMAIN NoEntries = {} /\ \A R : NoEntries \in [DOMAIN NoEntries -> R]
    BY DEF NoEntries
  <2> QED BY <2>1, MapsIs
<1>3. manifest \in Manifest /\ manifest.cols = NoEntries
  BY <1>1, <1>2 DEF EmptyManifest, Manifest
<1>4. maint.at = "idle"
  BY <1>1 DEF Idle
<1>5. TypeOK
  <2>1. replay \in [seq : Nat, pos : Nat]
    BY <1>1 DEF NoReplay
  <2> QED BY <1>1, <1>2, <1>3, <2>1 DEF TypeOK, Running, Logs
<1>6. StateInv /\ ManifestInv /\ FilesInv
  BY <1>1, <1>2, <1>3 DEF StateInv, ManifestInv, FilesInv, Running, Below
<1>7. FollowInv /\ ListInv /\ ReplayInv /\ FlushInv /\ CompactInv
  BY <1>1, <1>4 DEF FollowInv, ListInv, ReplayInv, FlushInv, CompactInv, Running
<1>8. LogInv
  <2>1. DOMAIN wals \subseteq 0..0
    BY <1>1, <1>2
  <2> QED BY <1>1, <2>1 DEF LogInv
<1>9. CreateInv
  BY <1>1, <1>2, <1>3 DEF CreateInv, Running
<1> QED BY <1>5, <1>6, <1>7, <1>8, <1>9 DEF Inv

LEMMA StutterKeeps ==
    ASSUME Inv, UNCHANGED vars
    PROVE  Inv'
<1> USE DEF vars, disk, memory
<1>1. TypeOK' /\ StateInv' /\ ManifestInv' /\ FilesInv' /\ ListInv' /\ LogInv' /\ ReplayInv'
  BY DEF Inv, TypeOK, StateInv, ManifestInv, FilesInv, ListInv, LogInv, ReplayInv, Running
<1>2. FollowInv'
  BY ZenonT(40) DEF Inv, FollowInv, Running, LockFree, FlushedManifest, CompactedManifest, NewSegment,
         Merged, OlderSegments
<1>3. CreateInv'
  BY DEF Inv, CreateInv, Running
<1>4. FlushInv'
  BY DEF Inv, FlushInv
<1>5. CompactInv'
  BY DEF Inv, CompactInv, RunIsNewest, Merged
<1> QED BY <1>1, <1>2, <1>3, <1>4, <1>5 DEF Inv

\* Every step of clients, maintenance and recovery, with any of the failures,
\* keeps memory, manifest, logs and directories consistent.
THEOREM StoreInvariance == SpecV => []Inv
<1>1. InitV => Inv
  BY InitHolds
<1>2. Inv /\ [NextV]_varsV => Inv'
  <2>1. ASSUME Inv, NextV PROVE Inv'
    BY <2>1, ClientKeeps, MaintenanceKeeps, ProcessKeeps DEF NextV
  <2>2. ASSUME Inv, UNCHANGED varsV PROVE Inv'
    BY <2>2, StutterKeeps DEF varsV
  <2> QED BY <2>1, <2>2
<1> QED BY <1>1, <1>2, PTL DEF SpecV

\* Every variable of the store keeps its type: no step leaves a log with a
\* record that is none, a directory that is no layer or a half-built state.
THEOREM StoreTypeCorrect == SpecV => []TypeOK
<1>1. Inv => TypeOK
  BY DEF Inv
<1> QED BY <1>1, StoreInvariance, PTL

\* No flush, compaction or open deletes a directory that the manifest on disk
\* lists or that a reader has open, and none is written over.
THEOREM SegmentsIntactAlways == SpecV => []SegmentsIntact
<1>1. Inv => SegmentsIntact
  BY DEF Inv, FilesInv, Running, Holds, SegmentsIntact
<1> QED BY <1>1, StoreInvariance, PTL

\* Outside a commit the manifest in memory is the one on disk, it lists every
\* collection that has segments, and the lists are those of memory, reversed,
\* unless a commit failed half way.
THEOREM ManifestFollowsMemoryAlways == SpecV => []ManifestFollowsMemory
<1>1. Inv => ManifestFollowsMemory
  <2> SUFFICES ASSUME Inv, phase = "up", LockFree
               PROVE  /\ state.manifest.cols = manifest.cols
                      /\ \A c \in DOMAIN state.cols :
                            /\ c \notin DOMAIN manifest.cols => state.cols[c].segments = <<>>
                            /\ c \in DOMAIN manifest.cols /\ failures = 0 =>
                                  SegIds(state.cols[c].segments) = Backwards(manifest.cols[c].segs)
    BY DEF ManifestFollowsMemory
  <2>1. Good(state) /\ state.manifest.cols = manifest.cols
    BY ManifestsAre DEF Running
  <2>2. \A c \in DOMAIN state.cols : c \notin DOMAIN manifest.cols => state.cols[c].segments = <<>>
    BY <2>1, GoodIs DEF GoodCol
  <2>3. \A c \in DOMAIN state.cols : c \in DOMAIN manifest.cols /\ failures = 0 =>
           SegIds(state.cols[c].segments) = Backwards(manifest.cols[c].segs)
    BY <2>1 DEF Inv, ListInv
  <2> QED BY <2>1, <2>2, <2>3
<1> QED BY <1>1, StoreInvariance, PTL

\* The logs of the active and of the pending memtables are on disk and newer
\* than what the manifest covers, so that the next open replays them.
THEOREM LogsKeptAlways == SpecV => []LogsKept
<1>1. Inv => LogsKept
  <2> SUFFICES ASSUME Inv, phase = "up", state.pending # NoPending
               PROVE  state.pending.walSeq .. state.wal \subseteq DOMAIN wals
    BY DEF Inv, LogInv, LogsKept
  <2>1. state.pending.walSeq \in Nat /\ state.wal = state.pending.walSeq + 1
    BY ManifestsAre, StateIs DEF Inv, LogInv, Running, Waiting
  <2>2. state.pending.walSeq \in DOMAIN wals /\ state.wal \in DOMAIN wals
    BY DEF Inv, LogInv
  <2> QED BY <2>1, <2>2
<1> QED BY <1>1, StoreInvariance, PTL

\* The length of every open collection, kept by difference through writes,
\* replays and the commits of the maintenance thread, is the number of its
\* live records.
THEOREM StoreLiveLenCorrect == SpecV => []StoreLiveLenExact
<1>1. Inv => StoreLiveLenExact
  BY GoodIs DEF Inv, StateInv, Running, StoreLiveLenExact, GoodCol
<1> QED BY <1>1, StoreInvariance, PTL

============================================================================
