---------------------------- MODULE Maintenance ----------------------------
(***************************************************************************)
(* How client threads and the maintenance thread of a Store wait for each  *)
(* other (hamane-storage/src/store.rs): the message channel, the pending   *)
(* generation, the error slot maint_error and the condition variable       *)
(* flush_done.  What a flush does to the data is in Collection and Store;  *)
(* here the writes are numbered, and `rotated` and `flushed` say how far   *)
(* they have come.                                                         *)
(***************************************************************************)
EXTENDS Naturals, Sequences, FiniteSets

CONSTANTS
    Thread,       \* client threads
    Threshold,    \* flush_threshold_bytes, in writes
    HardFactor,   \* the literal 4 of maybe_flush
    MaxWrites,    \* bound: writes
    MaxCalls,     \* bound: calls of flush() and compact()
    MaxFailures   \* bound: failed flushes and compactions

ASSUME MaintenanceAssumption ==
    /\ IsFiniteSet(Thread)
    /\ Threshold \in Nat \ {0} /\ HardFactor \in Nat \ {0}
    /\ MaxWrites \in Nat /\ MaxCalls \in Nat /\ MaxFailures \in Nat

VARIABLES
    written,   \* writes applied to the active memtable so far
    rotated,   \* of these, moved to a pending generation
    flushed,   \* of these, in segments
    error,     \* maint_error is Some
    queue,     \* the channel to the maintenance thread
    maint,     \* where the maintenance thread is and its message
    pc,        \* the call a client thread is in, and where
    asleep,    \* threads waiting on flush_done
    result,    \* what the last call of a thread returned
    need,      \* the writes the call of a thread is about
    stolen,    \* another call took an error while a thread was in a call
    calls, failures  \* bounds

data == <<written, rotated, flushed>>
vars == <<data, error, queue, maint, pc, asleep, result, need, stolen, calls, failures>>

Flush == [kind |-> "flush"]
Compact(t) == [kind |-> "compact", from |-> t]
Shutdown == [kind |-> "shutdown"]
Message == [kind: {"flush", "shutdown"}] \cup [kind: {"compact"}, from: Thread]

TypeOK ==
    /\ written \in Nat /\ rotated \in Nat /\ flushed \in Nat
    /\ error \in BOOLEAN
    /\ queue \in Seq(Message)
    /\ maint \in [at: {"recv", "flush", "compact", "error", "notify", "ack", "ended"},
                  msg: Message]
    /\ pc \in [Thread -> {"idle", "backpressure", "pendingClear", "flushDone",
                          "compactSend", "ack", "acked", "closed"}]
    /\ asleep \subseteq Thread
    /\ result \in [Thread -> {"none", "ok", "err"}]
    /\ need \in [Thread -> Nat]
    /\ stolen \in [Thread -> BOOLEAN]
    /\ calls \in Nat /\ failures \in Nat

Init ==
    /\ written = 0 /\ rotated = 0 /\ flushed = 0
    /\ error = FALSE
    /\ queue = <<>>
    /\ maint = [at |-> "recv", msg |-> Flush]
    /\ pc = [t \in Thread |-> "idle"]
    /\ asleep = {}
    /\ result = [t \in Thread |-> "none"]
    /\ need = [t \in Thread |-> 0]
    /\ stolen = [t \in Thread |-> FALSE]
    /\ calls = 0 /\ failures = 0

----------------------------------------------------------------------------
(* pending_flush is Some; the active memtables hold the other writes *)

Pending == flushed < rotated
Active == written - rotated

\* Mutant: the message is forgotten.
RotateQuietly(size, wrote, msgs) ==
    IF size > 0 /\ ~Pending
    THEN rotated' = wrote /\ queue' = queue
    ELSE UNCHANGED <<rotated, queue>>

\* rotate, and msgs to the maintenance thread when it did something
Rotate(size, wrote, msgs) ==
    IF size > 0 /\ ~Pending
    THEN rotated' = wrote /\ queue' = queue \o msgs
    ELSE UNCHANGED <<rotated, queue>>

Begin(t, where, about) ==
    /\ pc[t] = "idle"
    /\ pc' = [pc EXCEPT ![t] = where]
    /\ need' = [need EXCEPT ![t] = about]
    /\ UNCHANGED <<result, stolen>>

Goto(t, where) == pc' = [pc EXCEPT ![t] = where] /\ UNCHANGED <<result, need, stolen>>

Finish(t, res) ==
    /\ pc' = [pc EXCEPT ![t] = "idle"]
    /\ result' = [result EXCEPT ![t] = res]
    /\ need' = [need EXCEPT ![t] = 0]

Return(t) == Finish(t, "ok") /\ stolen' = [stolen EXCEPT ![t] = FALSE]

\* maint_error.take(): whoever else is in a call will not see this error
ReturnError(t) ==
    /\ error /\ error' = FALSE
    /\ Finish(t, "err")
    /\ stolen' = [u \in Thread |-> u # t /\ (stolen[u] \/ pc[u] # "idle")]

----------------------------------------------------------------------------
(* A write: append, apply, maybe_flush *)

TooBig(size) == size >= HardFactor * Threshold

\* Mutant: the limit is not looked at.
WriteNeverWaits(t) ==
    /\ pc[t] = "idle"
    /\ written < MaxWrites
    /\ written' = written + 1
    /\ IF Active + 1 >= Threshold THEN Rotate(Active + 1, written + 1, <<Flush>>)
       ELSE UNCHANGED <<rotated, queue>>
    /\ UNCHANGED <<flushed, error, maint, asleep, pc, result, need, stolen, calls, failures>>

\* Below the threshold, or with a pending generation and below the hard limit,
\* a write returns.  Above the limit it waits for the pending generation or an
\* error; a rotation wakes the maintenance thread.
Write(t) ==
    /\ pc[t] = "idle"
    /\ written < MaxWrites
    /\ written' = written + 1
    /\ \/ /\ Active + 1 < Threshold
          /\ UNCHANGED <<rotated, queue, asleep, pc>>
       \/ /\ Active + 1 >= Threshold
          /\ Pending /\ TooBig(Active + 1) /\ ~error
          /\ pc' = [pc EXCEPT ![t] = "backpressure"]
          /\ asleep' = asleep \cup {t}
          /\ UNCHANGED <<rotated, queue>>
       \/ /\ Active + 1 >= Threshold
          /\ ~(Pending /\ TooBig(Active + 1) /\ ~error)
          /\ Rotate(Active + 1, written + 1, <<Flush>>)
          /\ UNCHANGED <<asleep, pc>>
    /\ UNCHANGED <<flushed, error, maint, result, need, stolen, calls, failures>>

\* The loop around flush_done in maybe_flush
BackpressureCheck(t) ==
    /\ pc[t] = "backpressure" /\ t \notin asleep
    /\ \/ /\ Pending /\ ~error
          /\ asleep' = asleep \cup {t}
          /\ UNCHANGED <<rotated, queue, pc, result, need, stolen>>
       \/ /\ ~(Pending /\ ~error)
          /\ Rotate(Active, written, <<Flush>>)
          /\ Return(t)
          /\ UNCHANGED asleep
    /\ UNCHANGED <<written, flushed, error, maint, calls, failures>>

----------------------------------------------------------------------------
(* flush() *)

\* Mutant: what is active is rotated without waiting for the older generation.
FlushCallAtOnce(t) ==
    /\ calls < MaxCalls /\ calls' = calls + 1
    /\ Begin(t, "flushDone", written)
    /\ IF Active > 0 /\ ~Pending
       THEN rotated' = written /\ queue' = queue \o <<Flush, Flush>>
       ELSE UNCHANGED rotated /\ queue' = Append(queue, Flush)
    /\ UNCHANGED <<written, flushed, error, maint, asleep, failures>>

\* The first message is sent before the lock is taken.
FlushCall(t) ==
    /\ calls < MaxCalls /\ calls' = calls + 1
    /\ Begin(t, "pendingClear", written)
    /\ queue' = Append(queue, Flush)
    /\ UNCHANGED <<data, error, maint, asleep, failures>>

\* wait_pending_clear: an error is taken and returned, a pending generation is
\* waited for
WaitPendingClear(t) ==
    /\ t \notin asleep
    /\ \/ ReturnError(t) /\ UNCHANGED asleep
       \/ /\ ~error /\ Pending
          /\ asleep' = asleep \cup {t}
          /\ UNCHANGED <<error, pc, result, need, stolen>>
    /\ UNCHANGED <<data, queue, maint, calls, failures>>

PendingClear(t) == ~error /\ ~Pending /\ t \notin asleep

FlushFirstWait(t) ==
    /\ pc[t] = "pendingClear"
    /\ \/ WaitPendingClear(t)
       \/ /\ PendingClear(t)
          /\ Rotate(Active, written, <<Flush>>)
          /\ Goto(t, "flushDone")
          /\ UNCHANGED <<written, flushed, error, maint, asleep, calls, failures>>

FlushSecondWait(t) ==
    /\ pc[t] = "flushDone"
    /\ \/ WaitPendingClear(t)
       \/ /\ PendingClear(t)
          /\ Return(t)
          /\ UNCHANGED <<data, error, queue, maint, asleep, calls, failures>>

----------------------------------------------------------------------------
(* compact() *)

\* What it promises to flush is what was rotated when it had the lock.
CompactCall(t) ==
    /\ calls < MaxCalls /\ calls' = calls + 1
    /\ Rotate(Active, written, <<>>)
    /\ Begin(t, "compactSend", rotated')
    /\ UNCHANGED <<written, flushed, error, maint, asleep, failures>>

CompactSend(t) ==
    /\ pc[t] = "compactSend"
    /\ queue' = Append(queue, Compact(t))
    /\ Goto(t, "ack")
    /\ UNCHANGED <<data, error, maint, asleep, calls, failures>>

CompactReturn(t) ==
    /\ pc[t] = "acked"
    /\ ReturnError(t) \/ (~error /\ Return(t) /\ UNCHANGED error)
    /\ UNCHANGED <<data, queue, maint, asleep, calls, failures>>

----------------------------------------------------------------------------
(* Drop: when no thread uses the store any more *)

Close ==
    /\ \A t \in Thread : pc[t] = "idle"
    /\ pc' = [t \in Thread |-> "closed"]
    /\ queue' = Append(queue, Shutdown)
    /\ UNCHANGED <<data, error, maint, asleep, result, need, stolen, calls, failures>>

----------------------------------------------------------------------------
(* maintenance_loop and run_maintenance *)

\* Mutant: a compact() is answered before its work is done.
RecvAnswers ==
    /\ maint.at = "recv" /\ queue # <<>>
    /\ maint' = [at |-> "flush", msg |-> IF Head(queue).kind = "compact" THEN Flush ELSE Head(queue)]
    /\ queue' = Tail(queue)
    /\ pc' = IF Head(queue).kind = "compact" THEN [pc EXCEPT ![Head(queue).from] = "acked"] ELSE pc
    /\ UNCHANGED <<data, error, asleep, result, need, stolen, calls, failures>>

\* Mutant: Shutdown ends the loop without a last cycle.
RecvEndsAtOnce ==
    /\ maint.at = "recv" /\ queue # <<>>
    /\ maint' = [at |-> IF Head(queue) = Shutdown THEN "ended" ELSE "flush", msg |-> Head(queue)]
    /\ queue' = Tail(queue)
    /\ UNCHANGED <<data, error, pc, asleep, result, need, stolen, calls, failures>>

Recv ==
    /\ maint.at = "recv" /\ queue # <<>>
    /\ maint' = [at |-> "flush", msg |-> Head(queue)]
    /\ queue' = Tail(queue)
    /\ UNCHANGED <<data, error, pc, asleep, result, need, stolen, calls, failures>>

\* flush_pending: the pending generation, if there is one
FlushPending ==
    /\ maint.at = "flush"
    /\ flushed' = rotated
    /\ maint' = [maint EXCEPT !.at = "compact"]
    /\ UNCHANGED <<written, rotated, error, queue, pc, asleep, result, need, stolen, calls, failures>>

\* compact_collection of whatever there is to merge
CompactCollections ==
    /\ maint.at = "compact"
    /\ maint' = [maint EXCEPT !.at = "notify"]
    /\ UNCHANGED <<data, error, queue, pc, asleep, result, need, stolen, calls, failures>>

\* An error ends the cycle; a generation that was not flushed stays pending.
Fail ==
    /\ maint.at \in {"flush", "compact"}
    /\ maint.at = "flush" => Pending
    /\ failures < MaxFailures /\ failures' = failures + 1
    /\ maint' = [maint EXCEPT !.at = "error"]
    /\ UNCHANGED <<data, error, queue, pc, asleep, result, need, stolen, calls>>

\* Mutant: nobody is told.
SetErrorQuietly ==
    /\ maint.at = "error"
    /\ error' = TRUE
    /\ maint' = [maint EXCEPT !.at = IF maint.msg.kind = "compact" THEN "ack" ELSE "recv"]
    /\ UNCHANGED <<data, queue, pc, asleep, result, need, stolen, calls, failures>>

SetError ==
    /\ maint.at = "error"
    /\ error' = TRUE
    /\ maint' = [maint EXCEPT !.at = "notify"]
    /\ UNCHANGED <<data, queue, pc, asleep, result, need, stolen, calls, failures>>

\* notify_all, after the lock was released
Notify ==
    /\ maint.at = "notify"
    /\ asleep' = {}
    /\ maint' = [maint EXCEPT !.at = CASE maint.msg.kind = "compact"  -> "ack"
                                       [] maint.msg.kind = "shutdown" -> "ended"
                                       [] OTHER                       -> "recv"]
    /\ UNCHANGED <<data, error, queue, pc, result, need, stolen, calls, failures>>

Ack ==
    /\ maint.at = "ack"
    /\ pc' = [pc EXCEPT ![maint.msg.from] = "acked"]
    /\ maint' = [maint EXCEPT !.at = "recv"]
    /\ UNCHANGED <<data, error, queue, asleep, result, need, stolen, calls, failures>>

----------------------------------------------------------------------------

Resume(t) ==
    \/ BackpressureCheck(t)
    \/ FlushFirstWait(t) \/ FlushSecondWait(t)
    \/ CompactSend(t) \/ CompactReturn(t)

MaintenanceThread ==
    Recv \/ FlushPending \/ CompactCollections \/ Fail \/ SetError \/ Notify \/ Ack

Next ==
    \/ \E t \in Thread : Write(t) \/ FlushCall(t) \/ CompactCall(t) \/ Resume(t)
    \/ Close
    \/ MaintenanceThread

\* A thread that can go on does so in the end, and so does the maintenance
\* thread: their critical sections are finite and nobody else holds the lock
\* for ever.  No client is obliged to make a call.
Fairness == WF_vars(MaintenanceThread) /\ \A t \in Thread : WF_vars(Resume(t))

Spec == Init /\ [][Next]_vars /\ Fairness

----------------------------------------------------------------------------
(* Properties *)

Calling(t) == pc[t] \notin {"idle", "closed"}

\* flush() that returns Ok has flushed every write made before it was called,
\* whatever other threads rotated, flushed or failed in the meantime.
FlushOkMeansFlushed ==
    [][\A t \in Thread : pc[t] = "flushDone" /\ pc'[t] = "idle" /\ result'[t] = "ok"
                            => flushed' >= need[t]]_vars

\* compact() that returns Ok has flushed what it rotated, unless another call
\* took the error that was meant for it.
CompactOkMeansFlushed ==
    [][\A t \in Thread : pc[t] = "acked" /\ pc'[t] = "idle" /\ result'[t] = "ok"
                            => flushed' >= need[t] \/ stolen[t]]_vars

\* Backpressure: without failures the active memtable is past the hard limit
\* only by the last writes of the threads that are held back, one of each.
MemtableBounded ==
    failures = 0 =>
        Active < HardFactor * Threshold + Cardinality({t \in Thread : pc[t] = "backpressure"})

\* Nobody is going to flush the pending generation: the failure was reported
\* and no message is left.
Abandoned ==
    /\ Pending /\ ~error
    /\ maint.at = "recv" /\ queue = <<>>
    /\ \A t \in Thread : pc[t] # "compactSend"

\* A pending generation is flushed in the end, unless an attempt failed and
\* the failure waits for somebody or was reported to somebody.
PendingIsFlushed == Pending ~> (~Pending \/ error \/ (Abandoned /\ failures > 0))

\* A call returns in the end, unless the generation it waits for was abandoned.
CallsReturn == \A t \in Thread : Calling(t) ~> (~Calling(t) \/ Abandoned)

\* A closed store ends its maintenance thread, whatever failed, and a
\* generation left over from an earlier failure is tried once more before.
CloseEnds == (\E t \in Thread : pc[t] = "closed") ~> (maint.at = "ended" /\ (~Pending \/ error))

\* maybe_flush: "on an error do not wait"; flush(), compact(): an error is
\* returned.  So every call returns.
EveryCallReturns == \A t \in Thread : Calling(t) ~> ~Calling(t)
============================================================================
