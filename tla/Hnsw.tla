-------------------------------- MODULE Hnsw --------------------------------
(***************************************************************************)
(* The HNSW graph of a segment: its search, the sequential construction    *)
(* and the CSR file that the mmap view reads (hamane-index/src/hnsw.rs).   *)
(***************************************************************************)
EXTENDS HnswSteps

CONSTANTS
  EfUpperLayers     \* EF_UPPER_LAYERS

ASSUME UpperLayersAssumption == EfUpperLayers \in Nat \ {0}

NoRow == -1                                     \* u32::MAX, Option::None

RECURSIVE SearchOn(_, _, _, _, _, _)
SearchOn(g, l, key, ef, mask, s) ==
  IF SearchEnded(key, ef, s) THEN s.results
  ELSE LET u == Nearest(key, s.candidates)
       IN SearchOn(g, l, key, ef, mask,
                   Expand(key, ef, mask, s, u, Neighbors(g, l, u)))

SearchLayer(g, l, key, eps, ef, mask) ==
  SearchOn(g, l, key, ef, mask, SearchStart(eps, mask))

RECURSIVE UpperLayers(_, _, _, _)
UpperLayers(g, l, key, eps) ==
  IF l = 0 THEN eps
  ELSE UpperLayers(g, l - 1, key, SearchLayer(g, l, key, eps, EfUpperLayers, Rows))

(* search_hnsw_by: the mask keeps rows out of the results, never out of   *)
(* the walk.                                                              *)
SearchHnsw(g, key, k, ef, mask) ==
  IF g.entry = NoRow \/ k = 0 THEN <<>>
  ELSE LET eps   == UpperLayers(g, g.maxLevel, key, {g.entry})
           width == IF ef > k THEN ef ELSE k
           found == Sorted(key, SearchLayer(g, 0, key, eps, width, mask))
       IN SubSeq(found, 1, IF Len(found) < k THEN Len(found) ELSE k)

-----------------------------------------------------------------------------
(* The sequential construction (one build thread, or few rows).           *)

RECURSIVE Greedy(_, _, _, _)
Greedy(g, l, key, ep) ==
  LET step(best, v) == IF key[v] < key[best] THEN v ELSE best
      next == FoldLeft(step, ep, Neighbors(g, l, ep))
  IN IF next = ep THEN ep ELSE Greedy(g, l, key, next)

RECURSIVE GreedyDescend(_, _, _, _, _)
GreedyDescend(g, key, ep, from, to) ==
  IF from <= to THEN ep
  ELSE GreedyDescend(g, key, Greedy(g, from, key, ep), from - 1, to)

Extended(g, l, found) ==
  IF ExtendCandidates
  THEN found \cup UNION {ToSet(Neighbors(g, l, v)) : v \in found}
  ELSE found

LinkBoth(g, l, v, sel) ==
  LET pruned(u, list) == IF Len(list) > MAt(l) THEN Prune(u, list, MAt(l)) ELSE list
      link(adj, u) == [adj EXCEPT ![v][l] = Append(@, u),
                                  ![u][l] = pruned(u, Append(@, v))]
  IN [g EXCEPT !.adj = FoldLeft(link, @, sel)]

RECURSIVE InsertLayers(_, _, _, _, _)
InsertLayers(g, v, l, key, eps) ==
  IF l < 0 THEN g
  ELSE LET found == SearchLayer(g, l, key, eps, EfConstruction, Rows)
           sel == SelectHeuristic(key, Sorted(key, Extended(g, l, found)), MAt(l))
       IN InsertLayers(LinkBoth(g, l, v, sel), v, l - 1, key, found)

Insert(g, v, level) ==
  LET key == Keys(Vec[v])
      ep  == GreedyDescend(g, key, g.entry, g.maxLevel, level)
      top == IF level < g.maxLevel THEN level ELSE g.maxLevel
      linked == InsertLayers(g, v, top, key, {ep})
  IN CASE g.entry = NoRow -> [g EXCEPT !.entry = v, !.maxLevel = level]
       [] g.entry # NoRow /\ level > g.maxLevel ->
            [linked EXCEPT !.entry = v, !.maxLevel = level]
       [] OTHER -> linked

SequentialBuild(levels) ==
  FoldLeft(LAMBDA g, v : Insert(g, v, levels[v]),
           [levels |-> levels, adj |-> EmptyLists(levels), entry |-> NoRow, maxLevel |-> 0],
           [i \in 1..Cardinality(Rows) |-> i - 1])

-----------------------------------------------------------------------------
(* hnsw.bin: per layer the nodes in ascending order, their offsets and one *)
(* array of neighbours; the view finds a node by binary search.            *)

Serialize(g) ==
  [levels |-> g.levels, maxLevel |-> g.maxLevel, entry |-> g.entry,
   layers |->
     [l \in 0..g.maxLevel |->
        LET ids == SetToSortSeq({v \in Rows : g.levels[v] >= l}, <)
            upTo(i) == FlattenSeq([j \in 1..i |-> Neighbors(g, l, ids[j])])
        IN [ids |-> ids,
            offsets |-> [i \in 0..Len(ids) |-> Len(upTo(i))],
            neighbors |-> upTo(Len(ids))]]]

ViewNeighbors(file, l, v) ==
  LET layer == file.layers[l]
      i == SelectInSeq(layer.ids, LAMBDA u : u = v)
  IN IF l > file.maxLevel \/ i = 0 THEN <<>>
     ELSE SubSeq(layer.neighbors, layer.offsets[i - 1] + 1, layer.offsets[i])

HnswView(file) ==
  [levels |-> file.levels, entry |-> file.entry, maxLevel |-> file.maxLevel,
   adj |-> [v \in Rows |-> [l \in 0..file.maxLevel |-> ViewNeighbors(file, l, v)]]]
=============================================================================
