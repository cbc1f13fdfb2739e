------------------------------- MODULE HnswSteps -------------------------------
(***************************************************************************)
(* What the searches and both constructions of an HNSW graph are made of:  *)
(* keys, the choice and the pruning of neighbours, and the search of a     *)
(* layer one popped candidate at a time (hamane-index/src/hnsw.rs).  A row *)
(* is a node.  A heap of (key, node) pairs is a set of nodes: for one      *)
(* query the key is a function of the node.                                *)
(***************************************************************************)
EXTENDS Integers, SequencesExt

CONSTANTS
  Vec,              \* the vectors: a function from 0..n-1 to tuples of integers
  Metric,           \* "L2" or "Dot" (Cosine is Dot over normalized vectors)
  M, M0,            \* neighbours per node on the upper layers and on layer 0
  EfConstruction,   \* width of the candidate list while building
  ExtendCandidates  \* HnswParams::extend_candidates

ASSUME HnswAssumption ==
  /\ IsFiniteSet(DOMAIN Vec)
  /\ DOMAIN Vec # {} /\ DOMAIN Vec = 0..(Cardinality(DOMAIN Vec) - 1)
  /\ \A r \in DOMAIN Vec : Vec[r] \in Seq(Int) /\ Len(Vec[r]) = Len(Vec[0])
  /\ Metric \in {"L2", "Dot"}
  /\ {M, M0, EfConstruction} \subseteq Nat \ {0}
  /\ ExtendCandidates \in BOOLEAN

Rows == DOMAIN Vec

DistanceKey(a, b) ==
  LET term(i) == IF Metric = "L2" THEN (a[i] - b[i]) * (a[i] - b[i])
                                  ELSE -(a[i] * b[i])
  IN FoldLeft(+, 0, [i \in DOMAIN a |-> term(i)])

Keys(q) == [v \in Rows |-> DistanceKey(q, Vec[v])]

Before(key, u, v) == key[u] < key[v] \/ (key[u] = key[v] /\ u < v)
Nearest(key, S) == CHOOSE u \in S : \A v \in S \ {u} : Before(key, u, v)
Furthest(key, S) == CHOOSE u \in S : \A v \in S \ {u} : Before(key, v, u)
Rank(key, S, u) == Cardinality({v \in S : Before(key, v, u)})
Sorted(key, S) == [i \in 1..Cardinality(S) |-> CHOOSE u \in S : Rank(key, S, u) = i - 1]

-----------------------------------------------------------------------------
(* A graph is a record of levels, adj (node -> level -> neighbour list),   *)
(* entry and maxLevel.                                                     *)

EmptyLists(levels) == [v \in Rows |-> [l \in 0..levels[v] |-> <<>>]]
Neighbors(g, l, v) == IF l \in DOMAIN g.adj[v] THEN g.adj[v][l] ELSE <<>>

MAt(l) == IF l = 0 THEN M0 ELSE M

(* select_heuristic: first the candidates nearer to the query than to any *)
(* neighbour already chosen, then the nearest of the others.              *)
SelectHeuristic(key, cands, m) ==
  LET diverse(sel, c) ==
        IF Len(sel) < m
           /\ \A i \in DOMAIN sel : DistanceKey(Vec[c], Vec[sel[i]]) > key[c]
        THEN Append(sel, c) ELSE sel
      fill(sel, c) ==
        IF Len(sel) < m /\ ~Contains(sel, c) THEN Append(sel, c) ELSE sel
  IN FoldLeft(fill, FoldLeft(diverse, <<>>, cands), cands)

(* prune, prune_list: the m best of the list of v *)
Prune(v, list, m) ==
  SelectHeuristic(Keys(Vec[v]), Sorted(Keys(Vec[v]), ToSet(list)), m)

-----------------------------------------------------------------------------
(* The search of one layer, one popped candidate at a time.               *)

SearchStart(eps, mask) ==
  [visited |-> eps, candidates |-> eps, results |-> eps \cap mask]

SearchEnded(key, ef, s) ==
  \/ s.candidates = {}
  \/ /\ Cardinality(s.results) >= ef
     /\ key[Nearest(key, s.candidates)] > key[Furthest(key, s.results)]

VisitMaskedOnly(key, ef, mask, s, v) ==
  LET kept == s.results \cup {v}
  IN IF v \in s.visited \/ v \notin mask THEN s
     ELSE [s EXCEPT !.visited = @ \cup {v},
                    !.candidates = @ \cup {v},
                    !.results = IF Cardinality(kept) > ef
                                THEN kept \ {Furthest(key, kept)} ELSE kept]

Visit(key, ef, mask, s, v) ==
  LET seen == [s EXCEPT !.visited = @ \cup {v}]
      full == Cardinality(s.results) >= ef
      kept == s.results \cup {v}
  IN CASE v \in s.visited -> s
       [] v \notin s.visited /\ full /\ key[v] >= key[Furthest(key, s.results)] -> seen
       [] OTHER ->
            [seen EXCEPT
              !.candidates = @ \cup {v},
              !.results = IF v \notin mask THEN @
                          ELSE IF Cardinality(kept) > ef
                          THEN kept \ {Furthest(key, kept)} ELSE kept]

Expand(key, ef, mask, s, u, list) ==
  FoldLeft(LAMBDA t, v : Visit(key, ef, mask, t, v),
           [s EXCEPT !.candidates = @ \ {u}], list)
=============================================================================
