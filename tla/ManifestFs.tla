----------------------------- MODULE ManifestFs -----------------------------
(***************************************************************************)
(* hamane-storage/src/manifest.rs: the files behind Manifest::store, load  *)
(* and gc.  A manifest is reduced to its generation and the WAL sequence   *)
(* number it covers.  Every call to the file system is a step, may fail    *)
(* and leave the store running with the manifest it had, and the process   *)
(* may die after it.  Until the directory is synced a loss of power may    *)
(* bring back a CURRENT there was before; an open does not sync it.        *)
(*                                                                         *)
(* Changes of this one directory are taken to reach the disk in their      *)
(* order: a CURRENT that comes back finds the manifest it names, deleted   *)
(* after it was replaced.  Nothing orders them with those of wal/.         *)
(***************************************************************************)
EXTENDS Integers

CONSTANTS
    MaxGen,        \* bound: generations
    MaxStoreFails  \* bound: failed calls

ASSUME ManifestAssumption == MaxGen \in Nat /\ MaxStoreFails \in Nat

VARIABLES
    manFiles,   \* generation -> what MANIFEST-<gen> is, for those in curs also
                \* after a loss of power
    cur,        \* the generation CURRENT points to
    curs,       \* those it may point to after a loss of power, cur with them
    stale,      \* history: those of curs that an open has gone by
    mem,        \* StoreState::manifest
    storing,    \* the call of store under way
    late,       \* history: a store failed after its rename, none succeeded since
    storeFails

manVars == <<manFiles, cur, curs, stale, mem, storing, late, storeFails>>

Gen == 0..MaxGen
Absent == [is |-> "absent", walSeq |-> 0]
Torn == [is |-> "torn", walSeq |-> 0]
Whole(seq) == [is |-> "whole", walSeq |-> seq]

NotStoring == [at |-> "idle", gen |-> 0, walSeq |-> 0]

\* The first open stores Manifest::default.
ManInit ==
    /\ manFiles = [g \in Gen |-> IF g = 0 THEN Whole(0) ELSE Absent]
    /\ cur = 0
    /\ curs = {0}
    /\ stale = {}
    /\ mem = [gen |-> 0, walSeq |-> 0]
    /\ storing = NotStoring
    /\ late = FALSE
    /\ storeFails = 0

\* decode accepts nothing but a complete file, with its checksum
Loadable == manFiles[cur].is = "whole"

\* The WAL sequence number an open would start to replay after
Covered == manFiles[cur].walSeq

----------------------------------------------------------------------------
(* Manifest::store *)

Reach(place) == storing' = [storing EXCEPT !.at = place]

\* File::create truncates a file that is there: the next generation is one
\* after the manifest in memory, whatever CURRENT says.
StoreCreate(seq) ==
    /\ storing.at = "idle"
    /\ mem.gen < MaxGen
    /\ storing' = [at |-> "created", gen |-> mem.gen + 1, walSeq |-> seq]
    /\ manFiles' = [manFiles EXCEPT ![mem.gen + 1] = Torn]
    /\ UNCHANGED <<cur, curs, stale, mem, late, storeFails>>

\* write_all and sync_data
StoreWrite ==
    /\ storing.at = "created"
    /\ manFiles' = [manFiles EXCEPT ![storing.gen] = Whole(storing.walSeq)]
    /\ Reach("written")
    /\ UNCHANGED <<cur, curs, stale, mem, late, storeFails>>

\* Mutant: CURRENT is renamed before the manifest is written.
StoreRenameFirst ==
    /\ storing.at \in {"created", "written"}
    /\ cur' = storing.gen
    /\ curs' = curs \cup {storing.gen}
    /\ Reach("renamed")
    /\ UNCHANGED <<manFiles, stale, mem, late, storeFails>>

\* CURRENT.tmp, complete and synced, takes the place of CURRENT
StoreRename ==
    /\ storing.at = "written"
    /\ cur' = storing.gen
    /\ curs' = curs \cup {storing.gen}
    /\ Reach("renamed")
    /\ UNCHANGED <<manFiles, stale, mem, late, storeFails>>

\* Any of the calls fails: what is on disk stays, the caller keeps its manifest.
StoreFails ==
    /\ storing.at \in {"created", "written", "renamed"}
    /\ storeFails < MaxStoreFails
    /\ storeFails' = storeFails + 1
    /\ storing' = NotStoring
    /\ late' = (late \/ storing.at = "renamed")
    /\ UNCHANGED <<manFiles, cur, curs, stale, mem>>

\* gc keeps the manifest CURRENT names.
Collected(kept) == [g \in Gen |-> IF g \in kept THEN manFiles[g] ELSE Absent]

\* The directory is synced, store returns, and the caller takes its manifest
\* over and ends with gc.  Dying in between leaves the same files as dying
\* before.
StoreReturns ==
    /\ storing.at = "renamed"
    /\ curs' = {cur}
    /\ stale' = {}
    /\ mem' = [gen |-> storing.gen, walSeq |-> storing.walSeq]
    /\ manFiles' = Collected({cur})
    /\ storing' = NotStoring
    /\ late' = FALSE
    /\ UNCHANGED <<cur, storeFails>>

StoreStep == StoreWrite \/ StoreRename \/ StoreFails

----------------------------------------------------------------------------
(* Manifest::load and gc in a new process: CURRENT is at generation g, and *)
(* another loss of power may bring it back to the generations of `others`  *)

\* Mutant: the newest manifest that can be read, whatever CURRENT says.
LoadNewest(g, others) ==
    /\ \E n \in {h \in Gen : manFiles[h].is = "whole"} :
          /\ \A h \in Gen : manFiles[h].is = "whole" => h <= n
          /\ cur' = n
          /\ mem' = [gen |-> n, walSeq |-> manFiles[n].walSeq]
          /\ manFiles' = Collected(others \cup {n})
    /\ curs' = others \cup {cur'}
    /\ stale' = others
    /\ storing' = NotStoring
    /\ late' = FALSE
    /\ UNCHANGED storeFails

LoadFrom(g, others) ==
    /\ manFiles[g].is = "whole"
    /\ cur' = g
    /\ mem' = [gen |-> g, walSeq |-> manFiles[g].walSeq]
    /\ manFiles' = Collected(others \cup {g})
    /\ curs' = others \cup {g}
    /\ stale' = others
    /\ storing' = NotStoring
    /\ late' = FALSE
    /\ UNCHANGED storeFails
============================================================================
