---------------------------- MODULE SegmentSearch ----------------------------
(***************************************************************************)
(* What one search computes: the filter, the flat scan, the plan for each  *)
(* kind of segment and the merge of the candidates (struct SegmentSearch   *)
(* of hamane/src/collection.rs, flat.rs, filter.rs).                       *)
(*                                                                         *)
(* A view is [memtables, segments], newest source first.  A source maps    *)
(* ids to records [vec, meta] and has a set of tombstones.  The segment    *)
(* with index files holds the rows of Vec: row r is the record RowId[r].   *)
(***************************************************************************)
EXTENDS IndexFiles

CONSTANTS
  RowId,              \* ids of the rows of the indexed segment, ascending
  FilterSampleSize,   \* FILTER_SAMPLE_SIZE
  PreFilterPercent,   \* PRE_FILTER_SELECTIVITY, in percent
  MaxOversample,      \* MAX_OVERSAMPLE
  RerankFactor, RerankFactor4Bit,
  None,               \* Option::None: no filter, no threshold, no record
  Corrupt             \* metadata that does not decode

ASSUME SearchAssumption ==
  /\ DOMAIN RowId = Rows /\ \A r, s \in Rows : r < s => RowId[r] < RowId[s]
  /\ {FilterSampleSize, PreFilterPercent, MaxOversample, RerankFactor, RerankFactor4Bit}
       \subseteq Nat \ {0}

-----------------------------------------------------------------------------
(* Filter::matches.  A value is [num, v]: whether it is a number; a key    *)
(* the metadata does not have satisfies no comparison.                     *)

Compare(op, a, b) ==
  CASE op = "gt" -> a > b [] op = "gte" -> a >= b
    [] op = "lt" -> a < b [] op = "lte" -> a <= b

RECURSIVE Matches(_, _)
Matches(f, meta) ==
  CASE f.op = "eq"  -> f.key \in DOMAIN meta /\ meta[f.key] = f.value
    [] f.op = "in"  -> f.key \in DOMAIN meta /\ meta[f.key] \in f.values
    [] f.op \in {"gt", "gte", "lt", "lte"} ->
         /\ f.key \in DOMAIN meta /\ meta[f.key].num /\ f.value.num
         /\ Compare(f.op, meta[f.key].v, f.value.v)
    [] f.op = "and" -> \A g \in f.all : Matches(g, meta)
    [] f.op = "or"  -> \E g \in f.any : Matches(g, meta)
    [] f.op = "not" -> ~Matches(f.of, meta)

Passes(f, meta) == f = None \/ (meta # Corrupt /\ Matches(f, meta))

-----------------------------------------------------------------------------
(* A hit is [key, id]; heaps and sorts order hits by key, then id.         *)

Hit(q, id, rec) == [key |-> DistanceKey(q, rec.vec), id |-> id]
NearestHits(hits, k) ==
  LET ahead(h) == {g \in hits : g.key < h.key \/ (g.key = h.key /\ g.id < h.id)}
  IN {h \in hits : Cardinality(ahead(h)) < k}

SearchFlat(recs, q, k, filter) ==
  NearestHits({Hit(q, id, recs[id]) :
                 id \in {x \in DOMAIN recs : Passes(filter, recs[x].meta)}}, k)

Sources(view) == view.memtables \o view.segments

(* is_live: no newer source has the id or a tombstone for it              *)
IsLive(view, id, rank) ==
  \A n \in 1..rank : id \notin DOMAIN Sources(view)[n].recs \cup Sources(view)[n].tombs

(* LiveView::get: the first source that knows the id                      *)
Get(view, id) ==
  LET src == Sources(view)
      knows == {n \in DOMAIN src : id \in DOMAIN src[n].recs \cup src[n].tombs}
  IN IF knows = {} \/ id \in src[Min(knows)].tombs THEN None ELSE src[Min(knows)].recs[id]

(* memtable_candidates: the k nearest of each memtable, then those among  *)
(* them that no newer memtable shadows                                    *)
MemtableCandidates(view, rq) ==
  UNION {{h \in SearchFlat(view.memtables[n].recs, rq.vec, rq.k, rq.filter) :
            n = 1 \/ IsLive(view, h.id, n - 1)} : n \in DOMAIN view.memtables}

-----------------------------------------------------------------------------
(* SegmentSearch::segment for segment i of the view                        *)

RowHit(rq, r) == [key |-> DistanceKey(rq.vec, Vec[r]), id |-> RowId[r]]

IvfHitsOfAllRows(seg, rq, live) ==
  NearestHits({RowHit(rq, r) : r \in
    {x \in CandidateRows(seg.files["ivf"], rq.vec, rq.nprobe) :
       Passes(rq.filter, seg.recs[RowId[x]].meta)}}, rq.k)

IvfHits(seg, rq, live) ==
  NearestHits({RowHit(rq, r) : r \in
    {x \in CandidateRows(seg.files["ivf"], rq.vec, rq.nprobe) \cap live :
       Passes(rq.filter, seg.recs[RowId[x]].meta)}}, rq.k)

Rerank(packed) == IF packed THEN RerankFactor4Bit ELSE RerankFactor

(* The entries of the probed lists by their residual key, cut to k times   *)
(* the rerank factor and ranked again by the vectors themselves            *)
IvfPqHits(seg, rq, live) ==
  LET x == seg.files["ivfpq"]
      q == Rotated(seg.files, rq.vec)
      lists == ProbeLists(x, q, rq.nprobe)
      scan == FlattenSeq([n \in DOMAIN lists |->
                SetToSortSeq({i \in ListRange(x, lists[n]) :
                    /\ x.entries[i] \in live
                    /\ Passes(rq.filter, seg.recs[RowId[x.entries[i]]].meta)}, <)])
      listOf(i) == CHOOSE l \in ToSet(lists) : i \in ListRange(x, l)
      key(n) == ResidualKey(x, q, listOf(scan[n]), scan[n])
      ahead(n) == {p \in DOMAIN scan : key(p) < key(n) \/ (key(p) = key(n) /\ p < n)}
      kept == {n \in DOMAIN scan :
                 Cardinality(ahead(n)) < rq.k * Rerank(x.codebook.packed)}
  IN NearestHits({RowHit(rq, x.entries[scan[n]]) : n \in kept}, rq.k)

(* two_stage_search *)
TwoStage(seg, rq, live, rerank) ==
  LET fetch == rq.k * rerank
      rows == SearchHnsw(HnswView(seg.files["hnsw"]), QuantizedKeys(seg.files, rq.vec),
                         fetch, Max({rq.ef, fetch}), live)
  IN NearestHits({RowHit(rq, r) : r \in ToSet(rows)}, rq.k)

MaskedHnsw(seg, rq, ef, mask) ==
  {RowHit(rq, r) : r \in
     ToSet(SearchHnsw(HnswView(seg.files["hnsw"]), Keys(rq.vec), rq.k, ef, mask))}

SampledRows ==
  LET stride == Max({Count \div FilterSampleSize, 1})
  IN {r \in Rows : r % stride = 0}

RowMeta(seg, r) == seg.recs[RowId[r]].meta
Sampled(seg, rq) == {r \in SampledRows : Passes(rq.filter, RowMeta(seg, r))}
FewPass(seg, rq) ==
  Cardinality(Sampled(seg, rq)) * 100 < PreFilterPercent * Cardinality(SampledRows)

(* A filter over an HNSW segment: its selectivity on a sample of the rows  *)
(* decides between a scan of the matching rows and a masked search with a  *)
(* wider candidate list.                                                   *)
FilteredHnsw(seg, rq, live) ==
  LET rows == {r \in live : Passes(rq.filter, RowMeta(seg, r))}
      wide == (rq.ef * Cardinality(SampledRows)) \div Cardinality(Sampled(seg, rq))
  IN IF FewPass(seg, rq) THEN NearestHits({RowHit(rq, r) : r \in rows}, rq.k)
     ELSE MaskedHnsw(seg, rq, Min({rq.ef * MaxOversample, wide}), rows)

HnswHits(seg, rq, live) ==
  CASE rq.filter # None -> FilteredHnsw(seg, rq, live)
    [] rq.filter = None /\ "sq8" \in DOMAIN seg.files -> TwoStage(seg, rq, live, RerankFactor)
    [] rq.filter = None /\ "pq" \in DOMAIN seg.files ->
         TwoStage(seg, rq, live, Rerank(seg.files["pq"].codebook.packed))
    [] OTHER -> MaskedHnsw(seg, rq, rq.ef, live)

(* A row whose metadata does not decode fails the search with a filter,    *)
(* except that a masked HNSW search only decodes the sampled rows strictly *)
SegmentFails(view, i, rq) ==
  LET seg == view.segments[i]
      bad(S) == \E id \in S : seg.recs[id].meta = Corrupt
  IN /\ rq.filter # None
     /\ IF "hnsw" \in DOMAIN seg.files
        THEN bad({RowId[r] : r \in SampledRows}) \/ (FewPass(seg, rq) /\ bad(DOMAIN seg.recs))
        ELSE bad(DOMAIN seg.recs)

SegmentHits(view, i, rq) ==
  LET seg == view.segments[i]
      live(id) == IsLive(view, id, Len(view.memtables) + i - 1)
      liveRows == {r \in Rows : live(RowId[r])}
  IN CASE "hnsw" \in DOMAIN seg.files -> HnswHits(seg, rq, liveRows)
       [] "ivf" \in DOMAIN seg.files -> IvfHits(seg, rq, liveRows)
       [] "ivfpq" \in DOMAIN seg.files -> IvfPqHits(seg, rq, liveRows)
       [] OTHER -> SearchFlat([id \in {x \in DOMAIN seg.recs : live(x)} |-> seg.recs[id]],
                              rq.vec, rq.k, rq.filter)

(* finalize: a threshold is a bound on the key.  For L2 the key is the     *)
(* squared distance, so no hit meets a negative threshold.                 *)
Bound(t) == IF Metric = "L2" THEN t * t ELSE -t

Finalize(view, rq, candidates) ==
  LET within == CASE rq.threshold = None -> candidates
                  [] rq.threshold # None /\ Metric = "L2" /\ rq.threshold < 0 -> {}
                  [] OTHER -> {h \in candidates : h.key <= Bound(rq.threshold)}
  IN NearestHits(within, rq.k)

-----------------------------------------------------------------------------
(* The record a search should find: visible, passing the filter, within    *)
(* the threshold, with its true key.                                       *)
Wanted(view, rq) ==
  LET ids == UNION {DOMAIN Sources(view)[n].recs : n \in DOMAIN Sources(view)}
      within(h) == rq.threshold = None
                   \/ (h.key <= Bound(rq.threshold) /\ ~(Metric = "L2" /\ rq.threshold < 0))
  IN {h \in {Hit(rq.vec, id, Get(view, id)) :
               id \in {x \in ids : Get(view, x) # None /\ Passes(rq.filter, Get(view, x).meta)}} :
        within(h)}

(* The rows a search of the indexed segment can come across: all of them,  *)
(* unless it goes by some lists only or the graph does not lead to them.   *)
RECURSIVE Reach(_, _)
Reach(g, S) ==
  LET more == S \cup UNION {ToSet(Neighbors(g, 0, v)) : v \in S}
  IN IF more = S THEN S ELSE Reach(g, more)

InReach(seg, rq) ==
  CASE "hnsw" \in DOMAIN seg.files /\ rq.filter = None ->
         LET g == HnswView(seg.files["hnsw"])
             key == IF DOMAIN seg.files \cap {"sq8", "pq"} = {} THEN Keys(rq.vec)
                    ELSE QuantizedKeys(seg.files, rq.vec)
         IN Reach(g, UpperLayers(g, g.maxLevel, key, {g.entry}))
    [] "hnsw" \in DOMAIN seg.files /\ rq.filter # None ->
         LET g == HnswView(seg.files["hnsw"])
         IN Reach(g, UpperLayers(g, g.maxLevel, Keys(rq.vec), {g.entry}))
    [] "ivf" \in DOMAIN seg.files -> CandidateRows(seg.files["ivf"], rq.vec, rq.nprobe)
    [] "ivfpq" \in DOMAIN seg.files ->
         CandidateRows(seg.files["ivfpq"], Rotated(seg.files, rq.vec), rq.nprobe)
    [] OTHER -> Rows
=============================================================================
