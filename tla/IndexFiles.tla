----------------------------- MODULE IndexFiles -----------------------------
(***************************************************************************)
(* The files of one segment: SegmentWriter::write with its HNSW, IVF and   *)
(* IVF-PQ indexes and quantized vectors, the checks Segment::open makes of *)
(* them and the views a search reads (hamane-storage/src/segment.rs).      *)
(* `files' maps the name of an optional file to what it holds.             *)
(***************************************************************************)
EXTENDS Quantize

CONSTANTS
  MinRows,              \* IndexBuildSpec::min_rows
  MinLists, MinPerList, \* the clamp of choose_nlist and IVF_MIN_PER_LIST
  MinDsub, MaxM,        \* the limits of choose_m
  Rotations             \* what the OPQ optimisation may come up with

ASSUME IndexAssumption ==
  {MinRows, MinLists, MinPerList, MinDsub, MaxM} \subseteq Nat \ {0}

Dim == Len(Vec[0])
Count == Cardinality(Rows)
AllVectors == [i \in 1..Count |-> Vec[i - 1]]

(* choose_nlist: about the square root, between its clamp and the number  *)
(* of points a list should have                                           *)
ChooseNlist(count) ==
  LET root == CHOOSE r \in 0..count :
                (2 * r - 1) * (2 * r - 1) <= 4 * count /\ 4 * count < (2 * r + 1) * (2 * r + 1)
  IN Max({1, Min({Max({root, MinLists}), count \div MinPerList})})

(* An m that does not divide the dimension gives way to choose_m; 0 when  *)
(* there is none                                                          *)
ResolveM(spec) ==
  IF spec.m > 0 /\ Dim % spec.m = 0 THEN spec.m ELSE ChooseM(Dim, MinDsub, MaxM)

Rotation(spec, draw, candidate) ==
  TrainOpq(AllVectors, Dim, ResolveM(spec), spec.packed, draw, candidate)

(* train_opq: opq.bin, and the vectors the codes are made from            *)
OpqFile(spec, draw, candidate) ==
  IF spec.opq /\ ResolveM(spec) # 0 THEN "opq" :> Rotation(spec, draw, candidate) ELSE <<>>

Data(opq) ==
  IF opq = <<>> THEN AllVectors ELSE [i \in 1..Count |-> Apply(opq["opq"], AllVectors[i])]

-----------------------------------------------------------------------------
Sq8File ==
  LET params == Sq8Fit(AllVectors)
  IN "sq8" :> [params |-> params, codes |-> [r \in Rows |-> Sq8Quantize(params, Vec[r])]]

PqFile(spec, opq, data, draw) ==
  LET cb == TrainPq(data, Dim, ResolveM(spec), spec.packed, draw)
  IN ("pq" :> [codebook |-> cb, codes |-> [r \in Rows |-> Encode(cb, data[r + 1])]]) @@ opq

WriteHnsw(spec, graph, opq, data, draw) ==
  ("hnsw" :> Serialize(graph)) @@
  CASE spec.quantization = "sq8" -> Sq8File
    [] spec.quantization = "pq" /\ ResolveM(spec) # 0 -> PqFile(spec, opq, data, draw)
    [] OTHER -> <<>>

(* The rows of each list in ascending order, behind prefix sums           *)
Lists(data, centroids) ==
  [c \in DOMAIN centroids |->
     SetToSortSeq({r \in Rows : NearestOf(data[r + 1], centroids) = c}, <)]

Csr(lists) ==
  [offsets |-> [c \in 0..Len(lists) |-> Len(FlattenSeq(SubSeq(lists, 1, c)))],
   entries |-> FlattenSeq(lists)]

Coarse(data, draw) ==
  KMeans(Subsample(data, TrainSample), Dim, ChooseNlist(Count), draw)

WriteIvf(draw) ==
  LET centroids == Coarse(AllVectors, draw)
  IN "ivf" :> ([centroids |-> centroids] @@ Csr(Lists(AllVectors, centroids)))

Minus(a, b) == [d \in DOMAIN a |-> a[d] - b[d]]
Plus(a, b) == [d \in DOMAIN a |-> a[d] + b[d]]

(* The codes of the residuals stand in the order of the entries           *)
IvfPqFile(spec, data, centroids, draw) ==
  LET residual == [i \in 1..Count |-> Minus(data[i], centroids[NearestOf(data[i], centroids)])]
      cb  == TrainPq(residual, Dim, ResolveM(spec), spec.packed, draw)
      csr == Csr(Lists(data, centroids))
  IN "ivfpq" :> ([centroids |-> centroids, codebook |-> cb,
                  codes |-> [i \in 1..Count |-> Encode(cb, residual[csr.entries[i] + 1])]] @@ csr)

WriteIvfPq(spec, opq, data, centroids, draw) ==
  IF ResolveM(spec) = 0 THEN WriteIvf(draw)
  ELSE IvfPqFile(spec, data, centroids, draw) @@ opq

(* The optional files of a segment, given the rotation, what it makes of   *)
(* the vectors, and coarse centroids of that; a small segment has no index *)
WriteIndex(spec, graph, opq, data, centroids, draw) ==
  CASE Count < MinRows      -> <<>>
    [] Count >= MinRows /\ spec.index = "hnsw" -> WriteHnsw(spec, graph, opq, data, draw)
    [] Count >= MinRows /\ spec.index = "ivf"  -> WriteIvf(draw)
    [] OTHER -> WriteIvfPq(spec, opq, data, centroids, draw)

-----------------------------------------------------------------------------
(* What Segment::open demands of each file before it serves it            *)

Orthogonal(rotation) ==
  \A i, j \in DOMAIN rotation : DotOf(rotation[i], rotation[j]) = IF i = j THEN 1 ELSE 0

CodebookFits(cb) ==
  /\ cb.m # 0 /\ Dim % cb.m = 0 /\ cb.dsub = Dim \div cb.m
  /\ \A j \in 1..cb.m : Len(cb.sub[j]) = KSub

CsrFits(ivf) ==
  /\ ivf.centroids # <<>>
  /\ ivf.offsets[Len(ivf.centroids)] = Count /\ Len(ivf.entries) = Count

Opens(files) ==
  /\ "hnsw" \in DOMAIN files =>
       DOMAIN files["hnsw"].levels = Rows /\ files["hnsw"].entry \in Rows
  /\ "sq8" \in DOMAIN files => DOMAIN files["sq8"].codes = Rows
  /\ "pq" \in DOMAIN files =>
       CodebookFits(files["pq"].codebook) /\ DOMAIN files["pq"].codes = Rows
  /\ "ivf" \in DOMAIN files => CsrFits(files["ivf"])
  /\ "ivfpq" \in DOMAIN files =>
       CsrFits(files["ivfpq"]) /\ CodebookFits(files["ivfpq"].codebook)
  /\ "opq" \in DOMAIN files => Orthogonal(files["opq"])

-----------------------------------------------------------------------------
(* The views *)

Rotated(files, q) == IF "opq" \in DOMAIN files THEN Apply(files["opq"], q) ELSE q

(* nprobe_lists: the nearest lists, at least one                          *)
ProbeLists(ivf, q, nprobe) ==
  LET closer(a, b) == \/ L2(q, ivf.centroids[a]) < L2(q, ivf.centroids[b])
                      \/ L2(q, ivf.centroids[a]) = L2(q, ivf.centroids[b]) /\ a < b
      nlist == Len(ivf.centroids)
  IN SubSeq(SetToSortSeq(1..nlist, closer), 1, Max({1, Min({nprobe, nlist})}))

(* list_range, as positions of the entries                                *)
ListRange(ivf, l) == (ivf.offsets[l - 1] + 1)..ivf.offsets[l]

CandidateRows(ivf, q, nprobe) ==
  {ivf.entries[i] : i \in UNION {ListRange(ivf, l) : l \in ToSet(ProbeLists(ivf, q, nprobe))}}

(* build_list_lut and code_distance: the key of entry i of list l         *)
ResidualKey(ivfpq, q, l, i) ==
  LET c == ivfpq.centroids[l]
  IN IF Metric = "L2" THEN LutKey(BuildLut(ivfpq.codebook, Minus(q, c)), ivfpq.codes[i])
     ELSE LutKey(BuildLut(ivfpq.codebook, q), ivfpq.codes[i]) - DotOf(q, c)

(* The quantized keys the first stage of an HNSW search goes by           *)
QuantizedKeys(files, q) ==
  CASE "sq8" \in DOMAIN files ->
         LET p == files["sq8"].params
         IN [r \in Rows |-> Sq8Key(p, Sq8Quantize(p, q), files["sq8"].codes[r])]
    [] "pq" \in DOMAIN files ->
         LET lut == BuildLut(files["pq"].codebook, Rotated(files, q))
         IN [r \in Rows |-> LutKey(lut, files["pq"].codes[r])]

-----------------------------------------------------------------------------
(* The index files say of every row what its vector says: the segment      *)
(* opens, each row is in one list and that is the list of its nearest      *)
(* centroid, a code stands for the row it is read for (in a residual index *)
(* for the row of the same entry), it is the closest there is, a look-up   *)
(* or an integer key is the key of the decoded vector, and the view of the *)
(* graph is the graph.                                                     *)
DescribesIvf(ivf, data) ==
  \A r \in Rows : \E l \in DOMAIN ivf.centroids :
    /\ l = NearestOf(data[r + 1], ivf.centroids)
    /\ \A x \in DOMAIN ivf.centroids :
         Cardinality({i \in ListRange(ivf, x) : ivf.entries[i] = r}) = (IF x = l THEN 1 ELSE 0)

BestCode(cb, v, decoded) ==
  \A j \in 1..cb.m : \A c \in 1..KSub :
    L2(SubVector(v, j, cb.dsub), SubVector(decoded, j, cb.dsub))
      <= L2(SubVector(v, j, cb.dsub), cb.sub[j][c])

(* x = min + code * scale, times Sq8Levels                                *)
Sq8Decode(p, code) == [d \in DOMAIN code |-> p.min * Sq8Levels + p.span * code[d]]

(* At most half a step from each coordinate                               *)
Sq8Close(p, v, code) ==
  /\ code \in [DOMAIN v -> 0..Sq8Levels]
  /\ \A d \in DOMAIN v :
       2 * (Sq8Levels * v[d] - Sq8Decode(p, code)[d]) \in -p.span..p.span

DescribesRows(files, graph, q) ==
  LET data == [i \in 1..Count |-> Rotated(files, Vec[i - 1])]
      rq == Rotated(files, q)
  IN /\ Opens(files)
     /\ "hnsw" \in DOMAIN files =>
          \A v \in Rows : \A l \in 0..graph.maxLevel :
            ViewNeighbors(files["hnsw"], l, v) = Neighbors(graph, l, v)
     /\ "ivf" \in DOMAIN files => DescribesIvf(files["ivf"], data)
     /\ "sq8" \in DOMAIN files =>
          LET x == files["sq8"]
          IN \A r \in Rows :
               /\ Sq8Close(x.params, Vec[r], x.codes[r])
               /\ QuantizedKeys(files, q)[r] =
                    DistanceKey(Sq8Decode(x.params, Sq8Quantize(x.params, q)),
                                Sq8Decode(x.params, x.codes[r]))
     /\ "pq" \in DOMAIN files =>
          \A r \in Rows :
            LET decoded == Decode(files["pq"].codebook, files["pq"].codes[r])
            IN /\ BestCode(files["pq"].codebook, data[r + 1], decoded)
               /\ QuantizedKeys(files, q)[r] = DistanceKey(rq, decoded)
     /\ "ivfpq" \in DOMAIN files =>
          LET x == files["ivfpq"]
          IN /\ DescribesIvf(x, data)
             /\ \A l \in DOMAIN x.centroids : \A i \in ListRange(x, l) :
                  LET residual == Decode(x.codebook, x.codes[i])
                  IN /\ BestCode(x.codebook, Minus(data[x.entries[i] + 1], x.centroids[l]), residual)
                     /\ ResidualKey(x, rq, l, i) = DistanceKey(rq, Plus(x.centroids[l], residual))
=============================================================================
