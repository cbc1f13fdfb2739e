------------------------------- MODULE MCIndex -------------------------------
EXTENDS Index

(* Five rows of three coordinates, two of them equal *)
MCVec == [r \in 0..4 |-> <<<<0, 0, 0>>, <<4, 0, 1>>, <<0, 2, 0>>, <<4, 4, 0>>, <<0, 2, 0>>>>[r + 1]]
MCRowId == [r \in 0..4 |-> r + 1]
MCLevelChoices == {[r \in 0..4 |-> draw[r + 1]] : draw \in
                     {<<0, 0, 0, 0, 0>>, <<0, 1, 2, 0, 1>>}}
MCDraws == {<<1, 0, 2>>, <<4, 1>>}
MCRotations == {<<<<0, 1, 0>>, <<0, 0, -1>>, <<1, 0, 0>>>>}

Build1(index, quantization, m, opq, packed, threads) ==
  [index |-> index, quantization |-> quantization, m |-> m, opq |-> opq,
   packed |-> packed, threads |-> threads]

MCSpecs ==
  { Build1("hnsw", "none", 0, FALSE, FALSE, 2),
    Build1("hnsw", "sq8", 0, FALSE, FALSE, 1),
    Build1("hnsw", "pq", 3, TRUE, TRUE, 1),
    Build1("ivf", "none", 0, FALSE, FALSE, 1),
    Build1("ivfpq", "none", 2, TRUE, FALSE, 1),
    Build1("ivfpq", "none", 3, FALSE, TRUE, 1) }

Colour(n) == "colour" :> [num |-> TRUE, v |-> n]
Records(ids, vec, colour) == [id \in ids |-> [vec |-> vec, meta |-> Colour(colour)]]
Source(recs, tombs) == [recs |-> recs, tombs |-> tombs]
Older(recs, tombs) == [recs |-> recs, tombs |-> tombs, files |-> <<>>]

(* Row 3 is replaced and row 5 deleted in the active memtable; a pending   *)
(* one has an older version of row 3 and a record of its own; an older     *)
(* segment has an older version of row 2 and a record of its own.          *)
Memtables == << Source(Records({3}, <<2, 2, 2>>, 1), {5}),
                Source(Records({3}, <<0, 0, 0>>, 1) @@ Records({6}, <<1, 1, 0>>, 2), {1}) >>
OldSegments == <<Older(Records({2}, <<0, 0, 0>>, 2) @@ Records({7}, <<4, 0, 0>>, 1), {})>>
Meta == [id \in 1..5 |-> Colour(IF id = 4 THEN 2 ELSE 1)]
BadMeta == [Meta EXCEPT ![2] = Corrupt]

Rq(vec, k, ef, nprobe, filter, threshold) ==
  [vec |-> vec, k |-> k, ef |-> ef, nprobe |-> nprobe, filter |-> filter, threshold |-> threshold]
Of(op, n) == [op |-> op, key |-> "colour", value |-> [num |-> TRUE, v |-> n]]

(* Narrow, wide, by two filters and with a threshold nothing meets ...     *)
Requests ==
  { Rq(<<0, 1, 0>>, 2, 1, 1, None, None),
    Rq(<<0, 1, 0>>, 5, 5, 2, None, None),
    Rq(<<0, 1, 0>>, 3, 2, 2, Of("eq", 2), None),
    Rq(<<0, 1, 0>>, 3, 2, 2, [op |-> "not", of |-> Of("gt", 1)], None),
    Rq(<<0, 1, 0>>, 2, 5, 2, None, -1) }
(* ... and, over the new segment alone, wide enough to be exact            *)
Wide ==
  { Rq(<<0, 1, 0>>, 5, 5, 2, None, None),
    Rq(<<3, 3, 1>>, 3, 5, 2, None, None),
    Rq(<<0, 1, 0>>, 5, 5, 2, None, 3) }
Near == Rq(<<0, 1, 0>>, 2, 2, 2, None, None)
Red == Rq(<<0, 1, 0>>, 2, 2, 2, Of("eq", 1), None)

Scenario(memtables, older, meta, bad, singles, batches) ==
  [memtables |-> memtables, older |-> older, meta |-> meta, panics |-> bad,
   rqs |-> [c \in Singles |-> singles] @@ [c \in Batches |-> batches]]

MCGraphScenarios ==
  {Scenario(Memtables, OldSegments, Meta, {}, <<rq>>, <<>>) : rq \in Requests}
  \cup {Scenario(<<Source(<<>>, {})>>, <<>>, Meta, {}, <<rq>>, <<>>) : rq \in Wide}

(* Two callers at once, rows that do not decode, a segment that panics     *)
MCScenarios == MCGraphScenarios \cup
  {Scenario(Memtables, OldSegments, meta, bad, <<Near>>, <<Red, Near>>) :
     meta \in {Meta, BadMeta}, bad \in {{}, {2}}}
=============================================================================
