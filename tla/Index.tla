-------------------------------- MODULE Index --------------------------------
(***************************************************************************)
(* A flush writes a segment with its index files, the HNSW graph built by  *)
(* one thread or by several, and searches then run over that segment, an   *)
(* older one and the memtables on the pool of the Database                 *)
(* (SegmentWriter::write, HnswBuilder::build, SegmentSearch).              *)
(***************************************************************************)
EXTENDS HnswBuild, SearchPool

CONSTANTS
  Specs,      \* IndexBuildSpecs: [index, quantization, m, opq, packed, threads]
  Scenarios,      \* what else there is: [memtables, older, meta, panics, rqs]
  GraphScenarios  \* bound: those tried over every graph of a parallel build

VARIABLES spec, phase

indexVars == <<spec, phase>>
vars == <<buildVars, poolVars, view, panics, indexVars>>

InParallel(sp) == sp.index = "hnsw" /\ sp.threads >= 2 /\ Count >= MinRows

(* HnswBuilder::build: with one thread, or no graph to build, there is     *)
(* nothing for build threads to do                                         *)
Init ==
  /\ spec \in Specs
  /\ phase = "build"
  /\ BuildInit
  /\ InParallel(spec) \/ levels = CHOOSE f \in LevelChoices : TRUE
  /\ PoolInit
  /\ view = [memtables |-> <<>>, segments |-> <<>>]
  /\ panics = {}
  /\ caller = [c \in Callers |-> Idle(<<>>, <<>>)]

Build(t) ==
  /\ phase = "build" /\ InParallel(spec)
  /\ BuildStep(t)
  /\ UNCHANGED <<poolVars, view, panics, indexVars>>

Graph == IF InParallel(spec) THEN BuiltGraph ELSE SequentialBuild(levels)

NewSegment(files, meta) ==
  [recs |-> [id \in {RowId[r] : r \in Rows} |->
               [vec |-> Vec[CHOOSE r \in Rows : RowId[r] = id], meta |-> meta[id]]],
   tombs |-> {}, files |-> files]

CanWrite == phase = "build" /\ (InParallel(spec) => Built)

(* SegmentWriter::write: the files of the segment                          *)
Write ==
  /\ CanWrite
  /\ \E draw \in Draws, candidate \in Rotations :
       \E opq \in {OpqFile(spec, draw, candidate)} : \E data \in {Data(opq)} :
       \E centroids \in {Coarse(data, draw)}, graph \in {Graph} :
         view' = [view EXCEPT !.segments =
           <<[files |-> WriteIndex(spec, graph, opq, data, centroids, draw)]>>]
  /\ phase' = "written"
  /\ UNCHANGED <<buildVars, spec, panics, caller, queue, worker, pool>>

(* The segment takes its place between the memtables and an older segment *)
Serve ==
  /\ phase = "written"
  /\ \E s \in IF InParallel(spec) THEN GraphScenarios ELSE Scenarios :
       /\ view' = [memtables |-> s.memtables,
                   segments |-> <<NewSegment(view.segments[1].files, s.meta)>> \o s.older]
       /\ panics' = s.panics
       /\ caller' = CallsToMake(view', s.panics, s.rqs)
  /\ phase' = "search"
  /\ UNCHANGED <<buildVars, spec, queue, worker, pool>>

Serving(A) == phase = "search" /\ A /\ UNCHANGED <<buildVars, view, panics, indexVars>>
Search == Serving(PoolNext)

Next == (\E t \in Threads : Build(t)) \/ Write \/ Serve \/ Search

(* No caller that has begun a search and no worker stops for ever          *)
Fairness ==
  /\ \A c \in Callers : WF_vars(Serving(CallerStep(c)))
  /\ \A w \in Workers : WF_vars(Serving(WorkerStep(w)))
  /\ WF_vars(Serving(Join))

Spec == Init /\ [][Next]_vars /\ Fairness

-----------------------------------------------------------------------------
(* Whoever built the graph and whatever quantizer it has, a written        *)
(* segment says of every row what its vector says (DescribesRows), and its *)
(* graph is well formed and has lost no edge of a list with room.          *)
FilesDescribeRows ==
  phase = "written" =>
    \E graph \in {Graph} :
      /\ \A r \in Rows : DescribesRows(view.segments[1].files, graph, Vec[r])
      /\ spec.index = "hnsw" =>
           WellFormed(graph) /\ OnlyFullListsForget(graph) /\ EntryIsHighest(graph)
=============================================================================
