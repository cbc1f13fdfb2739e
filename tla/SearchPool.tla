----------------------------- MODULE SearchPool -----------------------------
(***************************************************************************)
(* The searches of a Database: what each part of a call finds, and what    *)
(* the call makes of it (run_sequential, execute_parallel_over_segments    *)
(* and run_search_batch of hamane/src/collection.rs).                      *)
(***************************************************************************)
EXTENDS SegmentSearch, Pool

VARIABLES
  view,      \* what LiveView shows
  panics     \* segments whose search panics

Segments == DOMAIN view.segments

-----------------------------------------------------------------------------
(* The work of one part: a segment for a single search, a whole query for  *)
(* a batch (run_sequential: memtables, then the segments in order).  A     *)
(* result that is neither an error nor a panic is the number of its part.  *)

SegmentResult(v, bad, rq, i) ==
  CASE i \in bad -> Panicked
    [] i \notin bad /\ SegmentFails(v, i, rq) -> Failed
    [] OTHER -> i

QueryResult(v, bad, rq, n) ==
  LET trouble == {i \in DOMAIN v.segments : SegmentResult(v, bad, rq, i) # i}
  IN IF trouble = {} THEN n ELSE SegmentResult(v, bad, rq, Min(trouble))

(* rqs: the requests [vec, k, ef, nprobe, filter, threshold] of each call  *)
PartResults(v, bad, c, rqs) ==
  CASE rqs = <<>> -> <<>>
    [] rqs # <<>> /\ c \in Singles ->
         [i \in DOMAIN v.segments |-> SegmentResult(v, bad, rqs[1], i)]
    [] OTHER -> [n \in DOMAIN rqs |-> QueryResult(v, bad, rqs[n], n)]

CallsToMake(v, bad, rqs) ==
  [c \in Callers |-> Idle(rqs[c], PartResults(v, bad, c, rqs[c]))]

(* What the parts of a search with these results found for its i-th query: *)
(* a batch puts the answer of each part in its place.                      *)
Found(c, results, i) ==
  LET rq == caller[c].rqs[IF c \in Singles THEN i ELSE results[i]]
  IN MemtableCandidates(view, rq)
     \cup UNION {SegmentHits(view, n, rq) : n \in IF c \in Singles THEN ToSet(results) ELSE Segments}

-----------------------------------------------------------------------------
(* The answers given so far: a request and its hits                        *)
Answers ==
  LET asked == UNION {{c} \X DOMAIN caller[c].rqs :
                        c \in {x \in Callers : Ended(x) /\ ~Bad(caller[x].outcome)}}
      rq(q) == caller[q[1]].rqs[q[2]]
  IN UNION {{<<rq(q), Finalize(view, rq(q), found)>> :
               found \in {Found(q[1], caller[q[1]].outcome, q[2])}} : q \in asked}

(* The nearest of a pending memtable are chosen before its shadowed rows   *)
(* are left out, so a row of it may be missed behind a shadowed one.       *)
MissedBehindShadow(id) ==
  \E n \in 2..Len(view.memtables) :
    /\ id \in DOMAIN view.memtables[n].recs
    /\ \E x \in DOMAIN view.memtables[n].recs : ~IsLive(view, x, n - 1)

(* The search is exact: its candidate lists hold all rows of the indexed   *)
(* segment and lead to all of them, and no memtable hides a row.           *)
Exact(rq) ==
  /\ \A i \in Segments : InReach(view.segments[i], rq) = Rows
  /\ rq.ef >= Count /\ rq.k * RerankFactor >= Count
  /\ \A h \in Wanted(view, rq) : ~MissedBehindShadow(h.id)

(* An answer has at most k hits, and every hit is a record of the view     *)
(* that no newer memtable or segment replaces or deletes, that passes the  *)
(* filter and the threshold, with its own distance, whatever index and     *)
(* quantizer found it; a search wide enough returns the k nearest of them. *)
AnswersAreRight ==
  \A a \in Answers :
    /\ a[2] \subseteq Wanted(view, a[1]) /\ Cardinality(a[2]) <= a[1].k
    /\ Exact(a[1]) => a[2] = NearestHits(Wanted(view, a[1]), a[1].k)

(* A search returns fewer than k hits only when there are no more: nothing *)
(* that a narrow candidate list, the filter mask of the graph, the rerank, *)
(* a failed segment or a job of another caller could have dropped.         *)
ShortAnswersAreComplete ==
  \A a \in Answers :
    Cardinality(a[2]) < a[1].k /\ a[1].threshold = None =>
      \A h \in Wanted(view, a[1]) \ a[2] :
        \/ MissedBehindShadow(h.id)
        \/ \E i \in Segments, r \in Rows :
             /\ RowId[r] = h.id /\ h.id \in DOMAIN view.segments[i].recs
             /\ IsLive(view, h.id, Len(view.memtables) + i - 1)
             /\ r \notin InReach(view.segments[i], a[1])

(* Every search returns, fails or panics in its caller, even when jobs     *)
(* fail or panic or wait behind those of another caller, and closing the   *)
(* Database ends all workers.                                              *)
EverySearchReturns ==
  /\ \A c \in Callers : (caller[c].pc = "plan") ~> Ended(c)
  /\ (pool = "closing") ~> (pool = "closed")
=============================================================================
