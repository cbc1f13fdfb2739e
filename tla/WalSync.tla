------------------------------ MODULE WalSync ------------------------------
(***************************************************************************)
(* hamane-storage/src/wal.rs: when a logged write is on disk.  Files of    *)
(* writes, the three sync policies, and the group commit of SyncToken::wait: *)
(* the first thread that needs a sync makes it for everybody who has       *)
(* appended, the others sleep on the condition variable of the file.  A    *)
(* file outlives its writer: after a rotation threads still wait on it.    *)
(*                                                                         *)
(* A write is one call of sync() with all the records it covers, so files  *)
(* are counts of writes.  `appended` is what the operating system has,     *)
(* `durable` what a loss of power leaves at least of a file that is there. *)
(* The directory wal/ is never synced, so until a loss of power has left a *)
(* file its entry may go, and all that was synced into it.  Threads write  *)
(* under the state lock of the store and wait without it.                  *)
(***************************************************************************)
EXTENDS Integers, FiniteSets

CONSTANTS
    Thread,
    Policies,     \* the policies an instance is about
    N,            \* SyncPolicy::EveryN(n)
    MaxFiles,     \* bound: WAL files
    MaxWrites,    \* bound: writes to one file
    MaxSyncFails  \* bound: failed fsyncs

Always == "always"
EveryN == "everyN"
Batch == "batch"

\* StoreOptions::validate rejects EveryN(0)
ASSUME WalAssumption ==
    /\ Policies \subseteq {Always, EveryN, Batch}
    /\ N \in Nat \ {0}
    /\ MaxFiles \in Nat \ {0}
    /\ MaxWrites \in Nat
    /\ MaxSyncFails \in Nat

File == 1..MaxFiles

VARIABLES
    policy,     \* StoreOptions::sync
    current,    \* the file of the active WalWriter
    appended,   \* file -> writes in it (BatchState::appended)
    durable,    \* file -> writes that survive a loss of power, if the file does
    linked,     \* the last file a loss of power has left: it and those before it
                \* that are there have their entry in wal/ on disk
    unsynced,   \* WalWriter::unsynced of the active writer
    synced,     \* file -> BatchState::synced
    syncing,    \* file -> BatchState::syncing
    pc,         \* thread -> where it is
    token,      \* thread -> the SyncToken it holds, and the leader's target
    acked,      \* history: the writes whose caller got Ok, without those of the
                \* files a loss of power took
    syncFails

walVars == <<policy, current, appended, durable, linked, unsynced, synced, syncing, pc, token,
             acked, syncFails>>

Places == {"idle", "wait", "asleep", "fsync", "synced", "failed"}
NoToken == [file |-> 1, seq |-> 0, target |-> 0]
Zero == [f \in File |-> 0]

WalInit ==
    /\ policy \in Policies
    /\ current = 1
    /\ appended = Zero
    /\ durable = Zero
    /\ linked = 0
    /\ unsynced = 0
    /\ synced = Zero
    /\ syncing = [f \in File |-> FALSE]
    /\ pc = [t \in Thread |-> "idle"]
    /\ token = [t \in Thread |-> NoToken]
    /\ acked = {}
    /\ syncFails = 0

----------------------------------------------------------------------------
(* WalWriter::append and WalWriter::sync, under the state lock *)

Seq == appended[current] + 1

Append ==
    /\ appended[current] < MaxWrites
    /\ appended' = [appended EXCEPT ![current] = Seq]
    /\ UNCHANGED <<policy, current, linked, synced, syncing>>

\* sync_data on the active file, with its error
SyncFails == syncFails < MaxSyncFails /\ syncFails' = syncFails + 1

FsyncActive ==
    \/ /\ durable' = [durable EXCEPT ![current] = Seq]
       /\ acked' = acked \cup {<<current, Seq>>}
       /\ UNCHANGED syncFails
    \/ /\ SyncFails
       /\ UNCHANGED <<durable, acked>>

WriteAlways(t) ==
    /\ policy = Always /\ pc[t] = "idle"
    /\ Append
    /\ FsyncActive
    /\ UNCHANGED <<unsynced, pc, token>>

\* Mutant: the counter is compared before this write is counted.
WriteEveryNLate(t) ==
    /\ policy = EveryN /\ pc[t] = "idle"
    /\ Append
    /\ IF unsynced < N
       THEN /\ unsynced' = unsynced + 1
            /\ acked' = acked \cup {<<current, Seq>>}
            /\ UNCHANGED <<durable, syncFails>>
       ELSE FsyncActive /\ unsynced' = 0
    /\ UNCHANGED <<pc, token>>

\* The n-th write since the last sync of this file syncs it.  The counter is
\* not set back when that fails, so the next write tries again.
WriteEveryN(t) ==
    /\ policy = EveryN /\ pc[t] = "idle"
    /\ Append
    /\ IF unsynced + 1 < N
       THEN /\ unsynced' = unsynced + 1
            /\ acked' = acked \cup {<<current, Seq>>}
            /\ UNCHANGED <<durable, syncFails>>
       ELSE /\ FsyncActive
            /\ unsynced' = IF durable'[current] = Seq THEN 0 ELSE unsynced + 1
    /\ UNCHANGED <<pc, token>>

\* The caller gets a token for what the file has now.
WriteBatch(t) ==
    /\ policy = Batch /\ pc[t] = "idle"
    /\ Append
    /\ pc' = [pc EXCEPT ![t] = "wait"]
    /\ token' = [token EXCEPT ![t] = [file |-> current, seq |-> Seq, target |-> 0]]
    /\ UNCHANGED <<durable, unsynced, acked, syncFails>>

Write(t) == WriteAlways(t) \/ WriteEveryN(t) \/ WriteBatch(t)

\* rotate: a new file with a writer of its own; the old one is not synced
Opened(f) ==
    /\ f \in File
    /\ current' = f
    /\ unsynced' = 0

\* WalWriter::create under Shared::rotate
NewFile ==
    /\ Opened(current + 1)
    /\ UNCHANGED <<policy, appended, durable, linked, synced, syncing, pc, token, acked,
                   syncFails>>

----------------------------------------------------------------------------
(* SyncToken::wait, under the mutex of the file *)

Goes(t, place) == pc' = [pc EXCEPT ![t] = place]

\* wait() returns and the token is dropped.
Returns(t) == token' = [token EXCEPT ![t] = NoToken]

\* synced >= seq: Ok
WaitDone(t) ==
    /\ pc[t] = "wait"
    /\ LET tk == token[t]
       IN  synced[tk.file] >= tk.seq /\ acked' = acked \cup {<<tk.file, tk.seq>>}
    /\ Goes(t, "idle") /\ Returns(t)
    /\ UNCHANGED <<policy, current, appended, durable, linked, unsynced, synced, syncing,
                   syncFails>>

\* Nobody syncs: this thread does, for all that is in the file now.
WaitLead(t) ==
    /\ pc[t] = "wait"
    /\ LET tk == token[t]
       IN  /\ synced[tk.file] < tk.seq
           /\ ~syncing[tk.file]
           /\ syncing' = [syncing EXCEPT ![tk.file] = TRUE]
           /\ token' = [token EXCEPT ![t].target = appended[tk.file]]
    /\ Goes(t, "fsync")
    /\ UNCHANGED <<policy, current, appended, durable, linked, unsynced, synced, acked,
                   syncFails>>

\* Somebody does: sleep.
WaitSleep(t) ==
    /\ pc[t] = "wait"
    /\ synced[token[t].file] < token[t].seq
    /\ syncing[token[t].file]
    /\ Goes(t, "asleep")
    /\ UNCHANGED <<policy, current, appended, durable, linked, unsynced, synced, syncing, token,
                   acked, syncFails>>

\* sync_data without the mutex: what was appended when it was called is on
\* disk afterwards
LeaderSync(t) ==
    /\ pc[t] = "fsync"
    /\ LET f == token[t].file
           n == token[t].target
       IN  \/ /\ durable' = [durable EXCEPT ![f] = IF n > @ THEN n ELSE @]
              /\ Goes(t, "synced")
              /\ UNCHANGED syncFails
           \/ SyncFails /\ Goes(t, "failed") /\ UNCHANGED durable
    /\ UNCHANGED <<policy, current, appended, linked, unsynced, synced, syncing, token, acked>>

\* The mutex again: the others are woken, also by a leader that failed
WakeFollowers(f, t, place) ==
    pc' = [u \in Thread |-> IF u = t THEN place
                            ELSE IF pc[u] = "asleep" /\ token[u].file = f THEN "wait"
                            ELSE pc[u]]

\* Mutant: everything appended by now counts as synced.
LeaderDoneRereads(t) ==
    /\ pc[t] = "synced"
    /\ LET f == token[t].file
       IN  /\ syncing' = [syncing EXCEPT ![f] = FALSE]
           /\ synced' = [synced EXCEPT ![f] = appended[f]]
           /\ WakeFollowers(f, t, "wait")
    /\ token' = [token EXCEPT ![t].target = 0]
    /\ UNCHANGED <<policy, current, appended, durable, linked, unsynced, acked, syncFails>>

\* What was in the file when this leader began is synced.
LeaderDone(t) ==
    /\ pc[t] = "synced"
    /\ LET f == token[t].file
           n == token[t].target
       IN  /\ syncing' = [syncing EXCEPT ![f] = FALSE]
           /\ synced' = [synced EXCEPT ![f] = IF n > @ THEN n ELSE @]
           /\ WakeFollowers(f, t, "wait")
    /\ token' = [token EXCEPT ![t].target = 0]
    /\ UNCHANGED <<policy, current, appended, durable, linked, unsynced, acked, syncFails>>

\* Mutant: a leader that failed returns before it wakes the others.
LeaderFailedSilently(t) ==
    /\ pc[t] = "failed"
    /\ syncing' = [syncing EXCEPT ![token[t].file] = FALSE]
    /\ Goes(t, "idle") /\ Returns(t)
    /\ UNCHANGED <<policy, current, appended, durable, linked, unsynced, synced, acked,
                   syncFails>>

\* Its caller gets the error; one of the others leads the next attempt.
LeaderFailed(t) ==
    /\ pc[t] = "failed"
    /\ syncing' = [syncing EXCEPT ![token[t].file] = FALSE]
    /\ WakeFollowers(token[t].file, t, "idle")
    /\ Returns(t)
    /\ UNCHANGED <<policy, current, appended, durable, linked, unsynced, synced, acked,
                   syncFails>>

Wait(t) ==
    \/ WaitDone(t) \/ WaitLead(t) \/ WaitSleep(t)
    \/ LeaderSync(t) \/ LeaderDone(t) \/ LeaderFailed(t)

----------------------------------------------------------------------------
(* A new process: the files it finds, and a new one *)

Restarted(f) ==
    /\ Opened(f)
    /\ synced' = Zero
    /\ syncing' = [g \in File |-> FALSE]
    /\ pc' = [t \in Thread |-> "idle"]
    /\ token' = [t \in Thread |-> NoToken]
    /\ UNCHANGED <<policy, syncFails>>

\* The process died: what the operating system has is still there.
Restart ==
    /\ Restarted(current + 1)
    /\ UNCHANGED <<appended, durable, linked, acked>>

\* The power failed.  Of the files that are not covered any `volatile` one may
\* be gone, and of every other a prefix is left that has at least what was
\* synced; it is on disk, all of it.  The covered ones are of no use any more.
\* The new file follows the last one left: it may have the number of one that is
\* gone.
PowerLoss(volatile, covered) ==
    \E gone \in SUBSET {f \in volatile : f > covered}, last \in covered..current :
        LET left == (1..current) \ gone
        IN  /\ last = covered \/ last \in left
            /\ \A f \in left : f <= last \/ f <= covered
            /\ Restarted(last + 1)
            /\ appended' \in {a \in [File -> 0..MaxWrites] :
                                \A f \in File :
                                    IF f \in gone THEN a[f] = 0
                                    ELSE IF f <= covered THEN a[f] = appended[f]
                                    ELSE a[f] \in durable[f]..appended[f]}
            /\ durable' = appended'
            /\ linked' = last
            /\ acked' = {w \in acked : w[1] \notin gone}
============================================================================
