------------------------------ MODULE HnswBuild ------------------------------
(***************************************************************************)
(* The parallel construction of an HNSW graph (mod parallel of             *)
(* hamane-index/src/hnsw.rs).  Worker threads draw rows from a counter and *)
(* insert them into one graph; every list is behind its own mutex and a    *)
(* thread never holds two, so each access to one list is one action and    *)
(* the graph changes between any two of them.  What a thread computes      *)
(* between two accesses is local and belongs to the access before it.      *)
(***************************************************************************)
EXTENDS HnswSteps

CONSTANTS
  Threads,        \* the build threads
  LevelChoices    \* the level draws to explore: functions from Rows to Nat

ASSUME BuildAssumption ==
  Threads # {} /\ \A f \in LevelChoices : f \in [Rows -> Nat]

VARIABLES
  levels,   \* level of each row, drawn before the threads start
  adj,      \* row -> level -> neighbour list
  entry,    \* EntryState: the entry row and its level
  next,     \* the counter the threads draw rows from
  th        \* what each thread is doing

buildVars == <<levels, adj, entry, next, th>>

Key(t) == Keys(Vec[th[t].row])

BuildInit ==
  /\ levels \in LevelChoices
  /\ adj = EmptyLists(levels)
  /\ entry = [row |-> 0, level |-> levels[0]]
  /\ next = 1
  /\ th = [t \in Threads |-> [pc |-> "take"]]

(* fetch_add: the thread ends when the rows are used up *)
Take(t) ==
  /\ th[t].pc = "take"
  /\ next' = next + 1
  /\ th' = [th EXCEPT ![t] =
       IF next \in Rows THEN [pc |-> "entry", row |-> next] ELSE [pc |-> "done"]]
  /\ UNCHANGED <<levels, adj, entry>>

(* A thread that searches layer l from the rows eps; above the level of   *)
(* its row it keeps one candidate, from there on ef_construction.         *)
Width(row, l) == IF l > levels[row] THEN 1 ELSE EfConstruction

Searching(row, top, l, eps) ==
  [pc |-> "search", row |-> row, top |-> top, layer |-> l,
   s |-> SearchStart(eps, Rows)]

LinkingItself(row, top, l, found, pool) ==
  [pc |-> "own", row |-> row, top |-> top, layer |-> l, found |-> found,
   sel |-> SelectHeuristic(Keys(Vec[row]), Sorted(Keys(Vec[row]), pool), MAt(l))]

Linking(row, top, l, found, pool) ==
  [pc |-> "own", row |-> row, top |-> top, layer |-> l, found |-> found,
   sel |-> SelectHeuristic(Keys(Vec[row]), Sorted(Keys(Vec[row]), pool \ {row}), MAt(l))]

SearchDone(row, top, l, found) ==
  CASE l > levels[row] -> Searching(row, top, l - 1, found)
    [] l <= levels[row] /\ ExtendCandidates ->
         [pc |-> "extend", row |-> row, top |-> top, layer |-> l, found |-> found,
          left |-> Sorted(Keys(Vec[row]), found), pool |-> found]
    [] OTHER -> Linking(row, top, l, found, found)

ReadEntry(t) ==
  /\ th[t].pc = "entry"
  /\ th' = [th EXCEPT ![t] = Searching(@.row, entry.level, entry.level, {entry.row})]
  /\ UNCHANGED <<levels, adj, entry, next>>

ListOf(l, v) == IF l \in DOMAIN adj[v] THEN adj[v][l] ELSE <<>>

(* search_layer: the nearest candidate leaves the heap and its list is    *)
(* copied under its lock.                                                 *)
SearchStep(t) ==
  /\ th[t].pc = "search"
  /\ LET w  == th[t]
         ef == Width(w.row, w.layer)
         u  == Nearest(Key(t), w.s.candidates)
         s  == Expand(Key(t), ef, Rows, w.s, u, ListOf(w.layer, u))
     IN th' = [th EXCEPT ![t] =
          IF SearchEnded(Key(t), ef, s)
          THEN SearchDone(w.row, w.top, w.layer, s.results) ELSE [w EXCEPT !.s = s]]
  /\ UNCHANGED <<levels, adj, entry, next>>

(* extend: the list of each candidate in turn *)
ExtendStep(t) ==
  /\ th[t].pc = "extend"
  /\ LET w    == th[t]
         pool == w.pool \cup ToSet(ListOf(w.layer, Head(w.left)))
     IN th' = [th EXCEPT ![t] =
          IF Len(w.left) = 1 THEN Linking(w.row, w.top, w.layer, w.found, pool)
          ELSE [w EXCEPT !.left = Tail(@), !.pool = pool]]
  /\ UNCHANGED <<levels, adj, entry, next>>

(* What follows the last reverse edge of a layer: the layer below, or the *)
(* end of the insertion.                                                  *)
LayerDone(w) ==
  CASE w.layer > 0 -> Searching(w.row, w.top, w.layer - 1, w.found)
    [] w.layer = 0 /\ levels[w.row] > w.top -> [pc |-> "raise", row |-> w.row]
    [] OTHER -> [pc |-> "take"]

Linked(w) == IF w.sel = <<>> THEN LayerDone(w) ELSE w

Merged(v, list, new, m) ==
  LET all == FoldLeft(LAMBDA acc, u : IF Contains(acc, u) THEN acc ELSE Append(acc, u),
                      list, new)
  IN IF Len(all) > m THEN Prune(v, all, m) ELSE all

LinkOwnOverwrites(t) ==
  /\ th[t].pc = "own"
  /\ LET w == th[t]
     IN /\ adj' = [adj EXCEPT ![w.row][w.layer] = w.sel]
        /\ th' = [th EXCEPT ![t] = Linked([w EXCEPT !.pc = "back"])]
  /\ UNCHANGED <<levels, entry, next>>

(* The list of the row itself: reverse edges other threads put there stay *)
LinkOwn(t) ==
  /\ th[t].pc = "own"
  /\ LET w == th[t]
     IN /\ adj' = [adj EXCEPT ![w.row][w.layer] = Merged(w.row, @, w.sel, MAt(w.layer))]
        /\ th' = [th EXCEPT ![t] = Linked([w EXCEPT !.pc = "back"])]
  /\ UNCHANGED <<levels, entry, next>>

(* One reverse edge, under the lock of the neighbour *)
LinkBack(t) ==
  /\ th[t].pc = "back"
  /\ LET w == th[t]
         u == Head(w.sel)
     IN /\ adj' = IF w.layer \in DOMAIN adj[u]
                  THEN [adj EXCEPT ![u][w.layer] = Merged(u, @, <<w.row>>, MAt(w.layer))]
                  ELSE adj
        /\ th' = [th EXCEPT ![t] = Linked([w EXCEPT !.sel = Tail(@)])]
  /\ UNCHANGED <<levels, entry, next>>

(* The entry moves up, unless another thread moved it further meanwhile *)
Raise(t) ==
  /\ th[t].pc = "raise"
  /\ entry' = IF levels[th[t].row] > entry.level
              THEN [row |-> th[t].row, level |-> levels[th[t].row]] ELSE entry
  /\ th' = [th EXCEPT ![t] = [pc |-> "take"]]
  /\ UNCHANGED <<levels, adj, next>>

BuildStep(t) ==
  \/ Take(t) \/ ReadEntry(t) \/ SearchStep(t) \/ ExtendStep(t)
  \/ LinkOwn(t) \/ LinkBack(t) \/ Raise(t)

(* The construction alone, without the segment around it *)
BuildSpec == BuildInit /\ [][\E t \in Threads : BuildStep(t)]_buildVars

Built == \A t \in Threads : th[t].pc = "done"

(* The HnswBuilder the scope of threads leaves behind *)
BuiltGraph ==
  [levels |-> levels, adj |-> adj, entry |-> entry.row, maxLevel |-> entry.level]

-----------------------------------------------------------------------------
(* A graph no search can go wrong in: a list has at most as many           *)
(* neighbours as its layer allows, none twice, never the row itself, and   *)
(* only rows that have the layer.                                          *)
WellFormed(g) ==
  \A v \in Rows : \A l \in DOMAIN g.adj[v] :
    LET list == g.adj[v][l]
    IN /\ Len(list) <= MAt(l)
       /\ \A i \in DOMAIN list : list[i] # v /\ l \in DOMAIN g.adj[list[i]]
       /\ IsInjective(list)

(* While the threads run, whatever their order, every list that a search   *)
(* may read is well formed.                                                *)
GraphStaysWellFormed == WellFormed(BuiltGraph)

(* A finished graph has lost an edge only where a full list was pruned: if *)
(* v is a neighbour of u and u is not one of v, then the list of v is full.*)
(* An insertion therefore never wipes the reverse edges that other threads *)
(* have put into its list, and the entry is a row of the highest level     *)
(* although several threads may raise it at once.                          *)
OnlyFullListsForget(g) ==
  \A u \in Rows : \A l \in DOMAIN g.adj[u] : \A v \in ToSet(g.adj[u][l]) :
    Contains(g.adj[v][l], u) \/ Len(g.adj[v][l]) = MAt(l)

EntryIsHighest(g) == \A v \in Rows : levels[v] <= levels[g.entry] /\ g.maxLevel = levels[g.entry]
=============================================================================
