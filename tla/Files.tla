------------------------------- MODULE Files -------------------------------
(***************************************************************************)
(* What a store has on disk while it runs: the WAL files of WalSync and    *)
(* the manifest of ManifestFs, with the flushes that let the manifest      *)
(* cover a file and delete it.  The process may die and the power may fail *)
(* between any two calls to the file system; the next open goes on from    *)
(* what it finds.                                                          *)
(***************************************************************************)
EXTENDS WalSync, ManifestFs

CONSTANTS
    MaxCrashes,  \* bound: process deaths and losses of power
    MaxFailures, \* bound: failed calls of both modules together
    MaxFaults,   \* bound: those and the crashes together
    MaxAppended  \* bound: writes to all files together

ASSUME FilesAssumption ==
    MaxCrashes \in Nat /\ MaxFailures \in Nat /\ MaxFaults \in Nat /\ MaxAppended \in Nat

VARIABLES
    pending,   \* pending_flush: its WAL sequence number, or 0
    firstWal,  \* the oldest WAL file that is not deleted
    crashes

fileVars == <<pending, firstWal, crashes>>
vars == <<walVars, manVars, fileVars>>

Init ==
    /\ WalInit
    /\ ManInit
    /\ pending = 0
    /\ firstWal = 1
    /\ crashes = 0

\* store, and what follows it, hold the state lock; SyncToken::wait does not
\* need it.
LockFree == storing.at = "idle"

ClientWrite(t) == LockFree /\ Write(t) /\ UNCHANGED <<manVars, fileVars>>
ClientWait(t) == Wait(t) /\ UNCHANGED <<manVars, fileVars>>

\* Shared::rotate, when there is something to flush
Rotate ==
    /\ LockFree
    /\ pending = 0
    /\ \E f \in (mem.walSeq + 1)..current : appended[f] > 0
    /\ NewFile
    /\ pending' = current
    /\ UNCHANGED <<manVars, firstWal, crashes>>

\* flush_pending: the segments are written, the manifest covers the log
FlushCommit == pending # 0 /\ StoreCreate(pending) /\ UNCHANGED <<walVars, fileVars>>

\* compact_collection: another manifest that covers the same logs
CompactCommit == StoreCreate(mem.walSeq) /\ UNCHANGED <<walVars, fileVars>>

Commit == StoreStep /\ UNCHANGED <<walVars, fileVars>>

\* ... and when store has returned, the files it covers are deleted
CommitReturns ==
    /\ StoreReturns
    /\ pending' = IF storing.walSeq = pending THEN 0 ELSE pending
    /\ firstWal' = storing.walSeq + 1
    /\ UNCHANGED <<walVars, crashes>>

Crashes == crashes < MaxCrashes /\ crashes' = crashes + 1

\* The process dies and the store is opened again: nothing is lost, and nothing
\* that was not on disk is there now.
ProcessDeath ==
    /\ Crashes
    /\ Restart
    /\ LoadFrom(cur, curs \ {cur})
    /\ pending' = 0
    /\ firstWal' = manFiles[cur].walSeq + 1

\* What a loss of power may take: a file whose entry is not on disk, and one
\* that has been deleted, if an older CURRENT still needs it.
Volatile == {f \in 1..current : f > linked \/ f < firstWal}

\* The power fails and the store is opened again.
PowerFailure ==
    /\ Crashes
    /\ \E g \in curs :
          /\ LoadFrom(g, {})
          /\ PowerLoss(Volatile, manFiles[g].walSeq)
          /\ firstWal' = manFiles[g].walSeq + 1
    /\ pending' = 0

Maintenance == FlushCommit \/ CompactCommit \/ Commit \/ CommitReturns
Process == ProcessDeath \/ PowerFailure

Bounded ==
    /\ syncFails' + storeFails' <= MaxFailures
    /\ syncFails' + storeFails' + crashes' <= MaxFaults
    /\ Cardinality({w \in File \X (1..MaxWrites) : w[2] <= appended'[w[1]]}) <= MaxAppended

Next ==
    /\ \/ \E t \in Thread : ClientWrite(t) \/ ClientWait(t)
       \/ Rotate
       \/ Maintenance
       \/ Process
    /\ Bounded

\* A thread in SyncToken::wait goes on unless it sleeps.
Fairness == \A t \in Thread : WF_vars(ClientWait(t))

Spec == Init /\ [][Next]_vars /\ Fairness

----------------------------------------------------------------------------
(* Properties *)

\* With Always and Batch a caller that got Ok has its write on disk, in a log
\* that is not deleted or in segments, and finds it there after any number of
\* deaths and losses of power, whichever CURRENT they leave.  Two things are
\* beyond what the code syncs, and the only exceptions: a loss of power that takes
\* the entry of the whole log (such a write is no longer in `acked`), and one that
\* brings back a CURRENT which an open has gone by, and whose logs it deleted.
AckedSurvives ==
    policy # EveryN =>
        \A w \in acked : \A g \in curs \ stale :
            manFiles[g].is = "whole" =>
                \/ w[1] <= manFiles[g].walSeq
                \/ w[1] >= firstWal /\ w[2] <= durable[w[1]]

\* With EveryN(n) at most n-1 acknowledged writes of a file that is there after a
\* loss of power are lost, and they are its last ones.  It is n-1 for every file
\* that is not covered, not for the store: a rotation does not sync the file it
\* leaves; and a file that goes with its entry goes as a whole.
LossBounded ==
    policy = EveryN =>
        \A f \in File : Cardinality({i \in 1..MaxWrites : <<f, i>> \in acked /\ i > durable[f]}) < N

\* The manifest CURRENT names can be read, also the one a loss of power brings
\* back, whatever call of store fails or is followed by a death.  The one
\* exception is a store that failed after its rename: the next one writes over the
\* file CURRENT names.
ManifestReadable == ~late => \A g \in curs : manFiles[g].is = "whole"

\* What an open would replay after changes at the rename of a commit, to what
\* that commit stores, and at no other step of the program: a failed store, a
\* deletion of old files and a restart leave it alone.
CoverageMovesAtRename ==
    [][Loadable /\ Loadable' /\ Covered' # Covered =>
         \/ storing.at = "written" /\ Covered' = storing.walSeq
         \/ crashes' # crashes /\ \E g \in curs : Covered' = manFiles[g].walSeq]_vars

\* A thread that waits for the group commit is answered: it is woken by the
\* leader it waits for, also by one that failed and by one whose file has been
\* rotated away.
WaitsReturn == \A t \in Thread : pc[t] # "idle" ~> pc[t] = "idle"
============================================================================
