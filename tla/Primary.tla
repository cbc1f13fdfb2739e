------------------------------- MODULE Primary -------------------------------
(***************************************************************************)
(* What the /replication handlers of hamane-server show of a primary: the  *)
(* files of its store, read without a lock.  Records are numbered in the   *)
(* order of the log; each belongs to a collection, which the record that   *)
(* created it stands for; a rename is one of its collection's records, and *)
(* so is each half of a swap.  A segment is named after the generation     *)
(* that brought it, for all collections together.  Writes are on disk when *)
(* they are acknowledged (SyncPolicy::Always); WalSync is about the other  *)
(* policies.                                                               *)
(***************************************************************************)
EXTENDS Integers, Sequences, FiniteSets

CONSTANTS
    MaxRec,       \* bound: records
    MaxWal,       \* bound: WAL files
    MaxLogged,    \* bound: records and WAL files together
    MaxPrimGen,   \* bound: generations
    MaxReboots    \* bound: restarts of the primary

ASSUME PrimaryAssumption ==
    /\ MaxRec \in Nat /\ MaxWal \in Nat \ {0} /\ MaxLogged \in Nat
    /\ MaxPrimGen \in Nat /\ MaxReboots \in Nat

VARIABLES
    hist,       \* the records: [file, col, drop]
    active,     \* the sequence number of the active WAL, the largest there is
    pending,    \* pending_flush: the WAL it covers, or 0
    manifests,  \* <<MANIFEST-1, ...>>: [walSeq, segs, cols], also those deleted
    gen,        \* the generation CURRENT names
    segDirs,    \* the segment directories that are there
    firstWal,   \* the oldest WAL file that is there
    firstGen,   \* the oldest manifest that is there
    reboots

primVars == <<hist, active, pending, manifests, gen, segDirs, firstWal, firstGen, reboots>>

Rec == 1..MaxRec
Wal == 1..MaxWal
Seg == 1..MaxPrimGen
Manifests == [walSeq : 0..MaxWal, segs : SUBSET Seg, cols : SUBSET Rec]
NoManifest == [walSeq |-> 0, segs |-> {}, cols |-> {}]

PrimInit ==
    /\ hist = <<>>
    /\ active = 1
    /\ pending = 0
    /\ manifests = [g \in 0..MaxPrimGen |-> NoManifest]
    /\ gen = 0
    /\ segDirs = {}
    /\ firstWal = 1
    /\ firstGen = 0
    /\ reboots = 0

Logged == DOMAIN hist
MoreLogged == Len(hist) + active < MaxLogged
FileOf(r) == hist[r].file

\* The records of the files up to f, and of file f in the order of its frames.
UpTo(f) == {r \in Logged : FileOf(r) <= f}
Frame(f, i) == Cardinality(UpTo(f - 1)) + i
Frames(f) == Cardinality({r \in Logged : FileOf(r) = f})

\* The collections there are now, each known by the record that created it
Collections ==
    {c \in Logged : hist[c].col = c /\ \A d \in Logged : hist[d].drop => hist[d].col # c}

\* Commits delete what they replace before they release the state lock.
Tidy == firstGen = gen

\* create_collection (the record stands for the collection), drop_collection
\* and the writes
LogRecord ==
    /\ Tidy
    /\ Len(hist) < MaxRec /\ MoreLogged
    /\ \E c \in Collections \cup {Len(hist) + 1}, drop \in BOOLEAN :
          /\ drop => c \in Collections
          /\ hist' = Append(hist, [file |-> active, col |-> c, drop |-> drop])
    /\ UNCHANGED <<active, pending, manifests, gen, segDirs, firstWal, firstGen, reboots>>

Rotate ==
    /\ Tidy
    /\ pending = 0
    /\ active < MaxWal /\ MoreLogged
    /\ UpTo(active) # UpTo(manifests[gen].walSeq)
    /\ pending' = active
    /\ active' = active + 1
    /\ UNCHANGED <<hist, manifests, gen, segDirs, firstWal, firstGen, reboots>>

\* The rename of CURRENT: the manifest knows every collection there is now.
Commit(seq, segs) ==
    /\ gen < MaxPrimGen
    /\ gen' = gen + 1
    /\ manifests' = [manifests EXCEPT ![gen + 1] =
                       [walSeq |-> seq, segs |-> segs,
                        cols |-> Collections]]

\* flush_pending: its segment, written before, is the newest
FlushCommit ==
    /\ Tidy
    /\ pending # 0
    /\ Commit(pending, manifests[gen].segs \cup {gen + 1})
    /\ segDirs' = segDirs \cup {gen + 1}
    /\ pending' = 0
    /\ UNCHANGED <<hist, active, firstWal, firstGen, reboots>>

\* compact_collection: one segment replaces the newest ones, after `kept`
CompactCommit ==
    /\ Tidy
    /\ \E kept \in {{s \in manifests[gen].segs : s < k} : k \in manifests[gen].segs} :
          Commit(manifests[gen].walSeq, kept \cup {gen + 1})
    /\ segDirs' = segDirs \cup {gen + 1}
    /\ UNCHANGED <<hist, active, pending, firstWal, firstGen, reboots>>

\* The logs and the segment directories go before Manifest::gc.
RemoveFiles ==
    /\ ~Tidy
    /\ firstWal' = manifests[gen].walSeq + 1
    /\ segDirs' = manifests[gen].segs
    /\ UNCHANGED <<hist, active, pending, manifests, gen, firstGen, reboots>>

RemoveManifests ==
    /\ ~Tidy
    /\ segDirs = manifests[gen].segs /\ firstWal = manifests[gen].walSeq + 1
    /\ firstGen' = gen
    /\ UNCHANGED <<hist, active, pending, manifests, gen, segDirs, firstWal, reboots>>

\* The writes in later logs to a collection that generation g has lost: g or an
\* earlier generation covered or knew it, and it was dropped before g's commit.
Orphans(g) ==
    {r \in Logged :
        /\ FileOf(r) > manifests[g].walSeq /\ hist[r].col # r /\ ~hist[r].drop
        /\ hist[r].col \notin manifests[g].cols
        /\ \/ FileOf(hist[r].col) <= manifests[g].walSeq
           \/ \E h \in 0..g : hist[r].col \in manifests[h].cols}

\* A collection dropped during a flush: Store's NoDropDuringFlush, for the
\* generations a replica may take over
DropRaced == \E g \in 0..gen : Orphans(g) # {}

\* Store::open tidies up and goes on in a new file.  It fails on a record of a
\* collection that neither the manifest nor a later log has (load_state).
Reboot ==
    /\ reboots < MaxReboots
    /\ \A r \in Orphans(gen) : FileOf(hist[r].col) > manifests[gen].walSeq
    /\ active < MaxWal /\ MoreLogged
    /\ reboots' = reboots + 1
    /\ active' = active + 1
    /\ pending' = 0
    /\ firstWal' = manifests[gen].walSeq + 1
    /\ segDirs' = manifests[gen].segs
    /\ firstGen' = gen
    /\ UNCHANGED <<hist, manifests, gen>>

PrimStep ==
    \/ LogRecord \/ Rotate \/ FlushCommit \/ CompactCommit
    \/ RemoveFiles \/ RemoveManifests \/ Reboot

----------------------------------------------------------------------------
(* What the handlers answer now; what is not there is a 404 *)

ManifestThere(g) == g \in firstGen..gen
SegmentThere(s) == s \in segDirs
WalThere(f) == f \in firstWal..active
==============================================================================
