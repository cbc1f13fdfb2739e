------------------------------ MODULE Quantize ------------------------------
(***************************************************************************)
(* The quantizers of a segment: k-means, the product quantizer and its     *)
(* distance tables, the scalar quantizer and the OPQ rotation              *)
(* (hamane-core/src/pq.rs, sq8.rs, opq.rs).  Coordinates are integers: an  *)
(* f32 mean is rounded down to the grid, a key is exact.                   *)
(***************************************************************************)
EXTENDS Hnsw

CONSTANTS
  Draws,       \* the random draws to explore: sequences of naturals
  MaxIter,     \* DEFAULT_MAX_ITER
  TrainSample, \* DEFAULT_TRAIN_SAMPLE
  KSub,        \* 2^nbits, centroids of a sub-codebook
  Sq8Levels    \* 255

ASSUME QuantizeAssumption ==
  /\ {MaxIter, TrainSample, KSub, Sq8Levels} \subseteq Nat \ {0}
  /\ Draws # {} /\ \A d \in Draws : d \in Seq(Nat)

L2(a, b) == MapThenSumSet(LAMBDA i : (a[i] - b[i]) * (a[i] - b[i]), DOMAIN a)
DotOf(a, b) == MapThenSumSet(LAMBDA i : a[i] * b[i], DOMAIN a)

(* nearest: the first centroid (from 0) at the least distance *)
NearestOf(p, centroids) ==
  CHOOSE c \in DOMAIN centroids : \A d \in DOMAIN centroids :
    \/ L2(p, centroids[c]) < L2(p, centroids[d])
    \/ L2(p, centroids[c]) = L2(p, centroids[d]) /\ c <= d

(* subsample: every stride-th vector, and no more than limit of them *)
Subsample(vectors, limit) ==
  IF Len(vectors) <= limit THEN vectors
  ELSE LET stride == Len(vectors) \div limit
       IN [i \in 1..limit |-> vectors[(i - 1) * stride + 1]]

-----------------------------------------------------------------------------
(* k-means++ : the first centre is any point, each further one any point   *)
(* away from the centres so far, or any point when there is none.          *)

Pick(draw, c, S) == LET sorted == SetToSortSeq(S, <)
                    IN sorted[(draw[((c - 1) % Len(draw)) + 1] % Len(sorted)) + 1]

Seeded(points, k, draw) ==
  LET all == DOMAIN points
      away(centres) == {i \in all : \A j \in DOMAIN centres : points[i] # centres[j]}
      add(centres, c) ==
        Append(centres, points[Pick(draw, c, IF away(centres) = {} THEN all ELSE away(centres))])
  IN FoldLeft(add, <<>>, [c \in 1..k |-> c])

Mean(points, S, dim) ==
  [d \in 1..dim |-> MapThenSumSet(LAMBDA i : points[i][d], S) \div Cardinality(S)]

(* farthest_point_of_biggest: the last of the largest clusters, the first *)
(* of its farthest points                                                 *)
Reseed(points, centroids, cluster) ==
  LET big == CHOOSE c \in DOMAIN cluster : \A d \in DOMAIN cluster :
               \/ Cardinality(cluster[c]) > Cardinality(cluster[d])
               \/ Cardinality(cluster[c]) = Cardinality(cluster[d]) /\ c >= d
      far == CHOOSE i \in cluster[big] : \A j \in cluster[big] :
               \/ L2(points[i], centroids[big]) > L2(points[j], centroids[big])
               \/ L2(points[i], centroids[big]) = L2(points[j], centroids[big]) /\ i <= j
  IN points[far]

(* The clusters are updated in order, so a reseed sees the centres that   *)
(* were moved before it in the same round.                                *)
Moved(points, centroids, cluster, dim) ==
  FoldLeft(LAMBDA cents, c :
             [cents EXCEPT ![c] = IF cluster[c] = {} THEN Reseed(points, cents, cluster)
                                  ELSE Mean(points, cluster[c], dim)],
           centroids, [c \in DOMAIN centroids |-> c])

RECURSIVE Lloyd(_, _, _, _, _)
Lloyd(points, centroids, assign, dim, iter) ==
  LET now == [i \in DOMAIN points |-> NearestOf(points[i], centroids)]
      cluster == [c \in DOMAIN centroids |-> {i \in DOMAIN points : now[i] = c}]
      next == Moved(points, centroids, cluster, dim)
      still == \A c \in DOMAIN centroids : cluster[c] # {} => next[c] = centroids[c]
  IN IF iter = 1 \/ now = assign \/ still THEN next
     ELSE Lloyd(points, next, now, dim, iter - 1)

(* Centroids are numbered from 1 *)
KMeans(points, dim, k, draw) ==
  IF points = <<>> THEN [c \in 1..k |-> [d \in 1..dim |-> 0]]
  ELSE Lloyd(points, Seeded(points, k, draw), [i \in DOMAIN points |-> 1], dim, MaxIter)

-----------------------------------------------------------------------------
(* Product quantizer: a codebook has, for each of its m sub-vectors, KSub  *)
(* centroids; `packed' is nbits = 4, two sub-codes in a byte.              *)

SubVector(v, j, dsub) == SubSeq(v, (j - 1) * dsub + 1, j * dsub)

TrainPq(vectors, dim, m, packed, draw) ==
  LET dsub == dim \div m
      sample == Subsample(vectors, TrainSample)
  IN [m |-> m, dsub |-> dsub, packed |-> packed,
      sub |-> [j \in 1..m |->
        KMeans([i \in DOMAIN sample |-> SubVector(sample[i], j, dsub)], dsub, KSub, draw)]]

SubCodes(cb, v) ==
  [j \in 1..cb.m |-> NearestOf(SubVector(v, j, cb.dsub), cb.sub[j]) - 1]

CodeBytes(cb) == IF cb.packed THEN (cb.m + 1) \div 2 ELSE cb.m

(* encode: the even sub-vector in the low half of a byte *)
Encode(cb, v) ==
  LET codes == SubCodes(cb, v)
  IN IF ~cb.packed THEN codes
     ELSE [b \in 1..CodeBytes(cb) |->
            codes[2 * b - 1] + (IF 2 * b <= cb.m THEN KSub * codes[2 * b] ELSE 0)]

SubCode(cb, code, j) ==
  CASE ~cb.packed                -> code[j]
    [] cb.packed /\ j % 2 = 1    -> code[(j + 1) \div 2] % KSub
    [] OTHER                     -> code[j \div 2] \div KSub

Decode(cb, code) ==
  FlattenSeq([j \in 1..cb.m |-> cb.sub[j][SubCode(cb, code, j) + 1]])

BuildSubLut(cb, q) ==
  [j \in 1..cb.m |-> [c \in 0..(KSub - 1) |->
     DistanceKey(SubVector(q, j, cb.dsub), cb.sub[j][c + 1])]]

(* build_lut: for packed codes one table per byte, the odd last sub-vector *)
(* in a short table of its own                                            *)
BuildLut(cb, q) ==
  LET lut == BuildSubLut(cb, q)
  IN IF ~cb.packed THEN lut
     ELSE [b \in 1..CodeBytes(cb) |->
            IF 2 * b <= cb.m
            THEN [x \in 0..(KSub * KSub - 1) |-> lut[2 * b - 1][x % KSub] + lut[2 * b][x \div KSub]]
            ELSE lut[2 * b - 1]]

LutKey(lut, code) == MapThenSumSet(LAMBDA b : lut[b][code[b]], DOMAIN code)

-----------------------------------------------------------------------------
(* Scalar quantizer: one scale for all coordinates.  Keys are multiplied   *)
(* by Sq8Levels^2 to stay integers.                                        *)

Sq8Fit(vectors) ==
  LET all == UNION {ToSet(vectors[i]) : i \in DOMAIN vectors}
  IN IF all = {} THEN [min |-> 0, span |-> 1]
     ELSE [min |-> Min(all), span |-> IF Max(all) = Min(all) THEN Sq8Levels ELSE Max(all) - Min(all)]

Sq8Quantize(p, v) ==
  LET code(x) == (2 * (x - p.min) * Sq8Levels + p.span) \div (2 * p.span)
      clamped(c) == IF c < 0 THEN 0 ELSE IF c > Sq8Levels THEN Sq8Levels ELSE c
  IN [d \in DOMAIN v |-> clamped(code(v[d]))]

Sq8Key(p, qcode, code) ==
  IF Metric = "L2" THEN p.span * p.span * L2(qcode, code)
  ELSE LET sum(c) == MapThenSumSet(LAMBDA d : c[d], DOMAIN c)
       IN -(Len(code) * p.min * p.min * Sq8Levels * Sq8Levels
            + p.min * p.span * Sq8Levels * (sum(qcode) + sum(code))
            + p.span * p.span * DotOf(qcode, code))

-----------------------------------------------------------------------------
(* OPQ: a rotation is a sequence of rows.  The alternating optimisation    *)
(* yields some orthogonal candidate; it is kept only when its codebook     *)
(* reconstructs the sample better than the one without rotation.           *)

Apply(rotation, x) == [i \in DOMAIN rotation |-> DotOf(rotation[i], x)]
Identity(dim) == [i \in 1..dim |-> [j \in 1..dim |-> IF i = j THEN 1 ELSE 0]]

SampleError(sample, dim, m, packed, draw, rotation) ==
  LET rotated == [i \in DOMAIN sample |-> Apply(rotation, sample[i])]
      cb == TrainPq(rotated, dim, m, packed, draw)
  IN MapThenSumSet(LAMBDA i : L2(rotated[i], Decode(cb, Encode(cb, rotated[i]))), DOMAIN sample)

TrainOpq(vectors, dim, m, packed, draw, candidate) ==
  LET error(r) == SampleError(Subsample(vectors, TrainSample), dim, m, packed, draw, r)
  IN IF error(candidate) < error(Identity(dim)) THEN candidate ELSE Identity(dim)

(* choose_m: the largest divisor of dim that leaves sub-vectors of at     *)
(* least MinDsub, 0 (None) when there is none                             *)
ChooseM(dim, minDsub, maxM) ==
  LET fits == {dsub \in minDsub..(dim \div 2) : dim % dsub = 0 /\ dim \div dsub <= maxM}
  IN IF fits = {} THEN 0 ELSE dim \div Min(fits)
=============================================================================
