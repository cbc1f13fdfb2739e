------------------------- MODULE MaintenanceProofs -------------------------
(***************************************************************************)
(* What Ok means in Maintenance, for any set of threads, any thresholds    *)
(* and any number of calls and failures.                                   *)
(***************************************************************************)
EXTENDS Maintenance, FiniteSetTheorems, TLAPS

LEMMA RotateType ==
    ASSUME TypeOK, NEW size \in Int, NEW wrote \in Nat, NEW msgs \in Seq(Message),
           Rotate(size, wrote, msgs)
    PROVE  rotated' \in Nat /\ queue' \in Seq(Message)
<1>1. CASE size > 0 /\ ~Pending
  <2>1. rotated' = wrote /\ queue' = queue \o msgs
    BY <1>1 DEF Rotate
  <2> QED BY <2>1 DEF TypeOK
<1>2. CASE ~(size > 0 /\ ~Pending)
  BY <1>2 DEF TypeOK, Rotate
<1> QED BY <1>1, <1>2

LEMMA MessageTypes ==
    /\ Flush \in Message /\ Shutdown \in Message
    /\ \A t \in Thread : Compact(t) \in Message
    /\ <<Flush>> \in Seq(Message) /\ <<>> \in Seq(Message)
BY DEF Flush, Shutdown, Compact, Message

LEMMA TypeInit ==
    ASSUME Init
    PROVE  TypeOK
<1>1. queue \in Seq(Message)
  BY MessageTypes DEF Init
<1>2. maint \in [at: {"recv", "flush", "compact", "error", "notify", "ack", "ended"},
                 msg: Message]
  BY MessageTypes DEF Init
<1> QED BY <1>1, <1>2 DEF Init, TypeOK

LEMMA ReturnErrorType ==
    ASSUME TypeOK, NEW t \in Thread, ReturnError(t)
    PROVE  /\ error' \in BOOLEAN
           /\ pc' \in [Thread -> {"idle", "backpressure", "pendingClear", "flushDone",
                                  "compactSend", "ack", "acked", "closed"}]
           /\ result' \in [Thread -> {"none", "ok", "err"}]
           /\ need' \in [Thread -> Nat]
           /\ stolen' \in [Thread -> BOOLEAN]
BY DEF TypeOK, ReturnError, Finish

LEMMA ReturnType ==
    ASSUME TypeOK, NEW t \in Thread, Return(t)
    PROVE  /\ pc' \in [Thread -> {"idle", "backpressure", "pendingClear", "flushDone",
                                  "compactSend", "ack", "acked", "closed"}]
           /\ result' \in [Thread -> {"none", "ok", "err"}]
           /\ need' \in [Thread -> Nat]
           /\ stolen' \in [Thread -> BOOLEAN]
BY DEF TypeOK, Return, Finish

LEMMA WaitType ==
    ASSUME TypeOK, NEW t \in Thread, WaitPendingClear(t)
    PROVE  TypeOK'
<1>1. CASE ReturnError(t) /\ UNCHANGED asleep
  BY <1>1, ReturnErrorType DEF TypeOK, WaitPendingClear, data
<1>2. CASE ~(ReturnError(t) /\ UNCHANGED asleep)
  BY <1>2 DEF TypeOK, WaitPendingClear, data
<1> QED BY <1>1, <1>2

LEMMA TypeStep ==
    ASSUME TypeOK, [Next]_vars
    PROVE  TypeOK'
<1>0. Active \in Int /\ Active + 1 \in Int /\ written \in Nat /\ written + 1 \in Nat
  BY DEF TypeOK, Active
<1>1. ASSUME NEW t \in Thread, Write(t) PROVE TypeOK'
  <2>2. rotated' \in Nat /\ queue' \in Seq(Message)
    <3>1. CASE UNCHANGED <<rotated, queue>>
      BY <3>1 DEF TypeOK
    <3>2. CASE Rotate(Active + 1, written + 1, <<Flush>>)
      BY <1>0, <3>2, RotateType, MessageTypes
    <3> QED BY <1>1, <3>1, <3>2 DEF Write
  <2> QED BY <1>1, <1>0, <2>2 DEF TypeOK, Write
<1>2. ASSUME NEW t \in Thread, FlushCall(t) PROVE TypeOK'
  BY <1>2, MessageTypes DEF TypeOK, FlushCall, Begin, data
<1>3. ASSUME NEW t \in Thread, CompactCall(t) PROVE TypeOK'
  <2>1. rotated' \in Nat /\ queue' \in Seq(Message)
    BY <1>0, <1>3, RotateType, MessageTypes DEF CompactCall
  <2> QED BY <1>3, <2>1 DEF TypeOK, CompactCall, Begin
<1>4. ASSUME NEW t \in Thread, BackpressureCheck(t) PROVE TypeOK'
  <2>1. CASE Rotate(Active, written, <<Flush>>) /\ Return(t) /\ UNCHANGED asleep
    <3>1. rotated' \in Nat /\ queue' \in Seq(Message)
      BY <1>0, <2>1, RotateType, MessageTypes
    <3> QED BY <1>4, <2>1, <3>1, ReturnType DEF TypeOK, BackpressureCheck
  <2>2. CASE Pending /\ ~error
    BY <1>4, <2>2 DEF TypeOK, BackpressureCheck
  <2> QED BY <1>4, <2>1, <2>2 DEF BackpressureCheck
<1>6. ASSUME NEW t \in Thread, FlushFirstWait(t) PROVE TypeOK'
  <2>1. CASE WaitPendingClear(t)
    BY <2>1, WaitType
  <2>2. CASE Rotate(Active, written, <<Flush>>) /\ ~WaitPendingClear(t)
    <3>1. rotated' \in Nat /\ queue' \in Seq(Message)
      BY <1>0, <2>2, RotateType, MessageTypes
    <3> QED BY <1>6, <2>2, <3>1 DEF TypeOK, FlushFirstWait, Goto
  <2> QED BY <1>6, <2>1, <2>2 DEF FlushFirstWait
<1>7. ASSUME NEW t \in Thread, FlushSecondWait(t) PROVE TypeOK'
  <2>1. CASE WaitPendingClear(t)
    BY <2>1, WaitType
  <2>2. CASE ~WaitPendingClear(t)
    BY <1>7, <2>2, ReturnType DEF TypeOK, FlushSecondWait, data
  <2> QED BY <2>1, <2>2
<1>8. ASSUME NEW t \in Thread, CompactSend(t) PROVE TypeOK'
  BY <1>8, MessageTypes DEF TypeOK, CompactSend, Goto, data
<1>9. ASSUME NEW t \in Thread, CompactReturn(t) PROVE TypeOK'
  <2>1. CASE ReturnError(t)
    BY <1>9, <2>1, ReturnErrorType DEF TypeOK, CompactReturn, data
  <2>2. CASE Return(t) /\ UNCHANGED error
    BY <1>9, <2>2, ReturnType DEF TypeOK, CompactReturn, data
  <2> QED BY <1>9, <2>1, <2>2 DEF CompactReturn
<1>10. CASE Close
  BY <1>10, MessageTypes DEF TypeOK, Close, data
<1>11. CASE Recv
  BY <1>11 DEF TypeOK, Recv, data
<1>12. ASSUME NEW at \in {"recv", "flush", "compact", "error", "notify", "ack", "ended"},
              maint' = [maint EXCEPT !.at = at]
       PROVE  maint' \in [at: {"recv", "flush", "compact", "error", "notify", "ack", "ended"},
                          msg: Message]
  BY <1>12 DEF TypeOK
<1>13. CASE FlushPending
  BY <1>12, <1>13 DEF TypeOK, FlushPending
<1>14. CASE CompactCollections \/ Fail
  BY <1>12, <1>14 DEF TypeOK, CompactCollections, Fail, data
<1>15. CASE SetError
  BY <1>12, <1>15 DEF TypeOK, SetError, data
<1>16. CASE Notify
  BY <1>12, <1>16 DEF TypeOK, Notify, data
<1>17. CASE Ack
  BY <1>12, <1>17 DEF TypeOK, Ack, data
<1>18. CASE UNCHANGED vars
  BY <1>18 DEF TypeOK, vars, data
<1> QED
  BY <1>1, <1>2, <1>3, <1>4, <1>6, <1>7, <1>8, <1>9, <1>10, <1>11, <1>13, <1>14, <1>15,
     <1>16, <1>17, <1>18
  DEF Next, Resume, MaintenanceThread

\* The state is well typed, for any number of threads.
THEOREM MaintenanceTypeCorrect == Spec => []TypeOK
BY TypeInit, TypeStep, PTL DEF Spec

----------------------------------------------------------------------------
(* The inductive invariant: what the counters and the calls say about each  *)
(* other.                                                                   *)

Ordered == flushed <= rotated /\ rotated <= written

\* A call is about writes that were made, and once flush() or compact() has
\* rotated, about writes that were rotated.
CallsAbout ==
    \A t \in Thread :
        /\ need[t] <= written
        /\ pc[t] \in {"flushDone", "compactSend", "ack"} => need[t] <= rotated

FlushInv == TypeOK /\ Ordered /\ CallsAbout

\* A rotation takes everything or finds nothing to do.
LEMMA RotateCounts ==
    ASSUME TypeOK, Ordered, NEW size \in Nat, NEW wrote \in Nat, NEW msgs,
           Rotate(size, wrote, msgs), wrote - rotated = size
    PROVE  /\ rotated <= rotated' /\ rotated' <= wrote
           /\ ~Pending => rotated' = wrote
<1>1. CASE size > 0 /\ ~Pending
  BY <1>1 DEF TypeOK, Ordered, Rotate
<1>2. CASE ~(size > 0 /\ ~Pending)
  BY <1>2 DEF TypeOK, Ordered, Rotate
<1> QED BY <1>1, <1>2

LEMMA WaitKeepsFlushInv ==
    ASSUME FlushInv, NEW t \in Thread, WaitPendingClear(t)
    PROVE  Ordered' /\ CallsAbout'
<1>1. Ordered'
  BY DEF FlushInv, Ordered, WaitPendingClear, data
<1>2. UNCHANGED <<written, rotated>>
  BY DEF WaitPendingClear, data
<1>3. CASE ReturnError(t)
  BY <1>1, <1>2, <1>3 DEF FlushInv, TypeOK, CallsAbout, ReturnError, Finish
<1>4. CASE UNCHANGED <<pc, need>>
  BY <1>1, <1>2, <1>4 DEF FlushInv, CallsAbout
<1> QED BY <1>1, <1>3, <1>4 DEF WaitPendingClear

LEMMA FlushInvStep ==
    ASSUME FlushInv, [Next]_vars
    PROVE  FlushInv'
<1> USE DEF FlushInv
<1>0. /\ TypeOK'
      /\ Active \in Nat /\ written - rotated = Active
      /\ Active + 1 \in Nat /\ (written + 1) - rotated = Active + 1
      /\ written \in Nat /\ written + 1 \in Nat
  BY TypeStep DEF TypeOK, Ordered, Active
<1>1. ASSUME NEW t \in Thread, Write(t) PROVE Ordered' /\ CallsAbout'
  <2>1. rotated <= rotated' /\ rotated' <= written + 1
    <3>1. CASE UNCHANGED <<rotated, queue>>
      BY <3>1 DEF TypeOK, Ordered
    <3>2. CASE Rotate(Active + 1, written + 1, <<Flush>>)
      BY <1>0, <3>2, RotateCounts
    <3> QED BY <1>1, <3>1, <3>2 DEF Write
  <2>2. /\ written' = written + 1 /\ UNCHANGED <<flushed, need>>
        /\ pc' = pc \/ pc' = [pc EXCEPT ![t] = "backpressure"]
    BY <1>1 DEF Write
  <2> QED BY <1>0, <2>1, <2>2 DEF TypeOK, Ordered, CallsAbout
<1>2. ASSUME NEW t \in Thread, FlushCall(t) PROVE Ordered' /\ CallsAbout'
  BY <1>2 DEF TypeOK, Ordered, CallsAbout, FlushCall, Begin, data
<1>3. ASSUME NEW t \in Thread, CompactCall(t) PROVE Ordered' /\ CallsAbout'
  <2>1. rotated <= rotated' /\ rotated' <= written
    BY <1>0, <1>3, RotateCounts DEF CompactCall
  <2>2. /\ UNCHANGED <<written, flushed>>
        /\ need' = [need EXCEPT ![t] = rotated']
        /\ pc' = [pc EXCEPT ![t] = "compactSend"]
    BY <1>3 DEF CompactCall, Begin
  <2> QED BY <1>0, <2>1, <2>2 DEF TypeOK, Ordered, CallsAbout
<1>4. ASSUME NEW t \in Thread, BackpressureCheck(t) PROVE Ordered' /\ CallsAbout'
  <2>1. CASE Rotate(Active, written, <<Flush>>) /\ Return(t)
    <3>1. rotated <= rotated' /\ rotated' <= written
      BY <1>0, <2>1, RotateCounts
    <3>2. UNCHANGED <<written, flushed>>
      BY <1>4 DEF BackpressureCheck
    <3> QED BY <1>0, <2>1, <3>1, <3>2 DEF TypeOK, Ordered, CallsAbout, Return, Finish
  <2>2. CASE UNCHANGED <<written, rotated, flushed, pc, need>>
    BY <2>2 DEF Ordered, CallsAbout
  <2> QED BY <1>4, <2>1, <2>2 DEF BackpressureCheck
<1>5. ASSUME NEW t \in Thread, FlushFirstWait(t) PROVE Ordered' /\ CallsAbout'
  <2>1. CASE WaitPendingClear(t)
    BY <2>1, WaitKeepsFlushInv
  <2>2. CASE PendingClear(t) /\ Rotate(Active, written, <<Flush>>) /\ Goto(t, "flushDone")
    <3>1. rotated <= rotated' /\ rotated' = written
      BY <1>0, <2>2, RotateCounts DEF PendingClear
    <3>2. UNCHANGED <<written, flushed, need>> /\ pc' = [pc EXCEPT ![t] = "flushDone"]
      BY <1>5, <2>2, <2>1 DEF FlushFirstWait, WaitPendingClear, Goto, data
    <3> QED BY <1>0, <3>1, <3>2 DEF TypeOK, Ordered, CallsAbout
  <2> QED BY <1>5, <2>1, <2>2 DEF FlushFirstWait
<1>6. ASSUME NEW t \in Thread, FlushSecondWait(t) PROVE Ordered' /\ CallsAbout'
  <2>1. CASE WaitPendingClear(t)
    BY <2>1, WaitKeepsFlushInv
  <2>2. CASE Return(t) /\ UNCHANGED data
    BY <2>2 DEF TypeOK, Ordered, CallsAbout, Return, Finish, data
  <2> QED BY <1>6, <2>1, <2>2 DEF FlushSecondWait
<1>7. ASSUME NEW t \in Thread, CompactSend(t) PROVE Ordered' /\ CallsAbout'
  BY <1>7 DEF TypeOK, Ordered, CallsAbout, CompactSend, Goto, data
<1>8. ASSUME NEW t \in Thread, CompactReturn(t) PROVE Ordered' /\ CallsAbout'
  <2>1. UNCHANGED data /\ (Finish(t, "ok") \/ Finish(t, "err"))
    BY <1>8 DEF CompactReturn, ReturnError, Return
  <2>2. need' = [need EXCEPT ![t] = 0] /\ pc' = [pc EXCEPT ![t] = "idle"]
    BY <2>1 DEF Finish
  <2> QED BY <2>1, <2>2 DEF TypeOK, Ordered, CallsAbout, data
<1>9. CASE Close
  BY <1>0, <1>9 DEF TypeOK, Ordered, CallsAbout, Close, data
<1>10. CASE FlushPending
  BY <1>0, <1>10 DEF TypeOK, Ordered, CallsAbout, FlushPending
<1>11. CASE Ack
  <2>1. UNCHANGED <<written, rotated, flushed, need>>
    BY <1>11 DEF Ack, data
  <2>2. ASSUME NEW t \in Thread,
               pc'[t] \in {"flushDone", "compactSend", "ack"}
        PROVE  need[t] <= rotated
    BY <1>11, <2>2 DEF Ack, TypeOK, CallsAbout
  <2> QED BY <1>0, <2>1, <2>2 DEF Ordered, CallsAbout
<1>12. CASE Recv \/ CompactCollections \/ Fail \/ SetError \/ Notify \/ UNCHANGED vars
  <2>1. UNCHANGED <<written, rotated, flushed, need, pc>>
    BY <1>12 DEF Recv, CompactCollections, Fail, SetError, Notify, vars, data
  <2> QED BY <1>0, <2>1 DEF Ordered, CallsAbout
<1> QED
  BY <1>0, <1>1, <1>2, <1>3, <1>4, <1>5, <1>6, <1>7, <1>8, <1>9, <1>10, <1>11, <1>12
  DEF Next, Resume, MaintenanceThread

\* Only its own second wait ends a flush() that is waiting for the second time.
LEMMA LeavesFlush ==
    ASSUME TypeOK, [Next]_vars, NEW t \in Thread, pc[t] = "flushDone", pc'[t] = "idle"
    PROVE  FlushSecondWait(t)
<1>1. ASSUME NEW u \in Thread, Write(u) \/ FlushCall(u) \/ CompactCall(u) PROVE FALSE
  BY <1>1 DEF TypeOK, Write, FlushCall, CompactCall, Begin
<1>2. ASSUME NEW u \in Thread, Resume(u), u # t PROVE FALSE
  BY <1>2 DEF TypeOK, Resume, BackpressureCheck, FlushFirstWait, FlushSecondWait, CompactSend,
              CompactReturn, WaitPendingClear, ReturnError, Return, Finish, Goto
<1>3. CASE Resume(t)
  BY <1>3 DEF Resume, BackpressureCheck, FlushFirstWait, CompactSend, CompactReturn
<1>4. CASE Close
  BY <1>4 DEF Close
<1>5. CASE MaintenanceThread
  BY <1>5 DEF TypeOK, MaintenanceThread, Recv, FlushPending, CompactCollections, Fail, SetError,
              Notify, Ack
<1>6. CASE UNCHANGED vars
  BY <1>6 DEF vars
<1> QED BY <1>1, <1>2, <1>3, <1>4, <1>5, <1>6 DEF Next

\* flush() that returns Ok has flushed every write made before it was called.
THEOREM FlushReturnsFlushed == Spec => FlushOkMeansFlushed
<1>1. ASSUME Init PROVE FlushInv
  <2>1. TypeOK
    BY <1>1, TypeInit
  <2> QED BY <1>1, <2>1 DEF Init, FlushInv, Ordered, CallsAbout
<1>2. ASSUME FlushInv, [Next]_vars, NEW t \in Thread,
             pc[t] = "flushDone", pc'[t] = "idle", result'[t] = "ok"
      PROVE  flushed' >= need[t]
  <2>1. CASE FlushSecondWait(t)
    <3>1. CASE WaitPendingClear(t)
      BY <1>2, <3>1 DEF WaitPendingClear, ReturnError, Finish, FlushInv, TypeOK
    <3>2. CASE PendingClear(t) /\ UNCHANGED data
      BY <1>2, <3>2 DEF PendingClear, Pending, data, FlushInv, TypeOK, Ordered, CallsAbout
    <3> QED BY <2>1, <3>1, <3>2 DEF FlushSecondWait
  <2>2. CASE ~FlushSecondWait(t)
    BY <1>2, <2>2, LeavesFlush DEF FlushInv
  <2> QED BY <2>1, <2>2
<1>3. FlushInv /\ [Next]_vars
        => [\A t \in Thread : pc[t] = "flushDone" /\ pc'[t] = "idle" /\ result'[t] = "ok"
                                => flushed' >= need[t]]_vars
  BY <1>2
<1> QED BY <1>1, <1>3, FlushInvStep, PTL DEF Spec, FlushOkMeansFlushed

\* The maintenance thread works on the message of compact() called by t.
Working(t) == maint.at # "recv" /\ maint.msg = Compact(t)

\* Every compact() in the channel or in work belongs to a thread that waits for
\* the answer, and it is there once.
OneMessage ==
    /\ \A i \in 1..Len(queue) : \A t \in Thread :
          queue[i] = Compact(t) =>
              /\ pc[t] = "ack" /\ ~Working(t)
              /\ \A j \in 1..Len(queue) : queue[j] = Compact(t) => i = j
    /\ \A t \in Thread : Working(t) => pc[t] = "ack"
    /\ maint.at = "ack" => \E t \in Thread : maint.msg = Compact(t)

\* What compact() promises holds from the flush on.
Promised(t) == need[t] <= flushed \/ error \/ stolen[t]
PromiseKept ==
    \A t \in Thread :
        pc[t] = "acked" \/ (Working(t) /\ maint.at \in {"compact", "notify", "ack"}) => Promised(t)

CompactInv == FlushInv /\ OneMessage /\ PromiseKept

\* A step of a client that sends no compact() message
NoNewCompact ==
    \A i \in 1..Len(queue') : \A t \in Thread :
        queue'[i] = Compact(t) => i \in 1..Len(queue) /\ queue[i] = Compact(t)

ClientStep ==
    /\ UNCHANGED <<maint, flushed>>
    /\ NoNewCompact
    /\ \A t \in Thread :
         /\ pc[t] = "ack" => pc'[t] = "ack"
         /\ pc'[t] \in {"ack", "acked"} =>
              /\ pc'[t] = pc[t] /\ need'[t] = need[t]
              /\ error \/ stolen[t] => error' \/ stolen'[t]

LEMMA ClientStepKeeps ==
    ASSUME CompactInv, TypeOK', ClientStep
    PROVE  OneMessage' /\ PromiseKept'
<1>1. \A t \in Thread : Working(t)' <=> Working(t)
  BY DEF Working, Compact, ClientStep
<1>2. OneMessage'
  <2>1. ASSUME NEW i \in 1..Len(queue'), NEW t \in Thread, queue'[i] = Compact(t)
        PROVE  /\ pc'[t] = "ack" /\ ~Working(t)'
               /\ \A j \in 1..Len(queue') : queue'[j] = Compact(t) => i = j
    BY <1>1, <2>1 DEF ClientStep, NoNewCompact, CompactInv, OneMessage
  <2>2. \A t \in Thread : Working(t)' => pc'[t] = "ack"
    BY <1>1 DEF ClientStep, CompactInv, OneMessage
  <2>3. maint'.at = "ack" => \E t \in Thread : maint'.msg = Compact(t)
    BY DEF ClientStep, CompactInv, OneMessage
  <2>4. \A t \in Thread : Compact(t)' = Compact(t)
    BY DEF Compact
  <2> QED BY <2>1, <2>2, <2>3, <2>4 DEF OneMessage
<1>3. ASSUME NEW t \in Thread,
             pc'[t] = "acked" \/ (Working(t)' /\ maint'.at \in {"compact", "notify", "ack"})
      PROVE  Promised(t)'
  <2>1. /\ pc'[t] = pc[t] /\ need'[t] = need[t]
        /\ error \/ stolen[t] => error' \/ stolen'[t]
    BY <1>1, <1>3 DEF ClientStep, CompactInv, OneMessage
  <2>2. Promised(t)
    BY <1>1, <1>3, <2>1 DEF ClientStep, CompactInv, PromiseKept
  <2> QED BY <2>1, <2>2 DEF Promised, ClientStep
<1> QED BY <1>2, <1>3 DEF PromiseKept

LEMMA SameQueue ==
    ASSUME UNCHANGED queue
    PROVE  NoNewCompact
BY DEF NoNewCompact

\* Messages other than compact() add none.
LEMMA OtherMessage ==
    ASSUME TypeOK, NEW m \in {Flush, Shutdown}, queue' = Append(queue, m)
    PROVE  NoNewCompact
<1>1. \A t \in Thread : m # Compact(t)
  BY DEF Flush, Shutdown, Compact
<1>2. queue \in Seq(Message) /\ m \in Message
  BY MessageTypes DEF TypeOK
<1>3. Len(queue') = Len(queue) + 1 /\ \A i \in 1..Len(queue') :
        queue'[i] = IF i = Len(queue) + 1 THEN m ELSE queue[i]
  BY <1>2
<1>4. Len(queue) \in Nat
  BY <1>2
<1> QED BY <1>1, <1>3, <1>4 DEF NoNewCompact

LEMMA RotateMessages ==
    ASSUME TypeOK, NEW size, NEW wrote, NEW msgs \in {<<>>, <<Flush>>},
           Rotate(size, wrote, msgs)
    PROVE  NoNewCompact
<1>1. queue \in Seq(Message) /\ Flush \in Message
  BY MessageTypes DEF TypeOK
<1>2. CASE UNCHANGED queue
  BY <1>2, SameQueue
<1>3. CASE queue' = queue \o <<>>
  BY <1>1, <1>3, SameQueue
<1>4. CASE queue' = queue \o <<Flush>>
  <2>1. queue' = Append(queue, Flush)
    BY <1>1, <1>4
  <2> QED BY <2>1, OtherMessage
<1> QED BY <1>2, <1>3, <1>4 DEF Rotate

\* The end of a call that is not waiting for an answer
LEMMA FinishIsClientStep ==
    ASSUME TypeOK, NEW t \in Thread, pc[t] # "ack",
           \/ ReturnError(t)
           \/ Return(t) /\ UNCHANGED error
           \/ UNCHANGED <<pc, need, stolen, error>>,
           UNCHANGED <<maint, flushed>>, NoNewCompact
    PROVE  ClientStep
<1>1. CASE ReturnError(t)
  <2>1. ASSUME NEW u \in Thread PROVE
          /\ pc[u] = "ack" => pc'[u] = "ack"
          /\ pc'[u] \in {"ack", "acked"} =>
               /\ pc'[u] = pc[u] /\ need'[u] = need[u]
               /\ error \/ stolen[u] => error' \/ stolen'[u]
    BY <1>1, <2>1 DEF TypeOK, ReturnError, Finish
  <2> QED BY <2>1 DEF ClientStep
<1>2. CASE Return(t) /\ UNCHANGED error
  <2>1. ASSUME NEW u \in Thread PROVE
          /\ pc[u] = "ack" => pc'[u] = "ack"
          /\ pc'[u] \in {"ack", "acked"} =>
               /\ pc'[u] = pc[u] /\ need'[u] = need[u]
               /\ error \/ stolen[u] => error' \/ stolen'[u]
    BY <1>2, <2>1 DEF TypeOK, Return, Finish
  <2> QED BY <2>1 DEF ClientStep
<1>3. CASE UNCHANGED <<pc, need, stolen, error>>
  BY <1>3 DEF ClientStep
<1> QED BY <1>1, <1>2, <1>3

\* A step into the body of a call
LEMMA MoveIsClientStep ==
    ASSUME TypeOK, NEW t \in Thread, pc[t] # "ack",
           NEW where \in {"backpressure", "pendingClear", "flushDone", "compactSend"},
           pc' = [pc EXCEPT ![t] = where] \/ UNCHANGED pc,
           \A u \in Thread : u # t => need'[u] = need[u],
           pc[t] # "acked" \/ UNCHANGED need,
           UNCHANGED <<stolen, error, maint, flushed>>, NoNewCompact
    PROVE  ClientStep
BY DEF TypeOK, ClientStep

LEMMA ClientActions ==
    ASSUME CompactInv, NEW t \in Thread,
           \/ Write(t) \/ FlushCall(t) \/ CompactCall(t) \/ BackpressureCheck(t)
           \/ FlushFirstWait(t) \/ FlushSecondWait(t) \/ CompactReturn(t)
    PROVE  ClientStep
<1>0. TypeOK
  BY DEF CompactInv, FlushInv
<1>1. CASE Write(t)
  <2>1. NoNewCompact
    <3>1. CASE UNCHANGED queue
      BY <3>1, SameQueue
    <3>2. CASE Rotate(Active + 1, written + 1, <<Flush>>)
      BY <1>0, <3>2, RotateMessages
    <3> QED BY <1>1, <3>1, <3>2 DEF Write
  <2>2. /\ pc[t] # "ack" /\ UNCHANGED <<need, stolen, error, maint, flushed>>
        /\ pc' = [pc EXCEPT ![t] = "backpressure"] \/ UNCHANGED pc
    BY <1>1 DEF Write
  <2> QED BY <1>0, <2>1, <2>2, MoveIsClientStep
<1>2. CASE FlushCall(t)
  <2>1. NoNewCompact
    BY <1>0, <1>2, OtherMessage DEF FlushCall
  <2>2. /\ pc[t] = "idle" /\ UNCHANGED <<stolen, error, maint, flushed>>
        /\ pc' = [pc EXCEPT ![t] = "pendingClear"]
        /\ need' = [need EXCEPT ![t] = written]
    BY <1>2 DEF FlushCall, Begin, data
  <2>3. \A u \in Thread : u # t => need'[u] = need[u]
    BY <1>0, <2>2 DEF TypeOK
  <2> QED BY <1>0, <2>1, <2>2, <2>3, MoveIsClientStep
<1>3. CASE CompactCall(t)
  <2>1. NoNewCompact
    BY <1>0, <1>3, RotateMessages DEF CompactCall
  <2>2. /\ pc[t] = "idle" /\ UNCHANGED <<stolen, error, maint, flushed>>
        /\ pc' = [pc EXCEPT ![t] = "compactSend"]
        /\ need' = [need EXCEPT ![t] = rotated']
    BY <1>3 DEF CompactCall, Begin
  <2>3. \A u \in Thread : u # t => need'[u] = need[u]
    BY <1>0, <2>2 DEF TypeOK
  <2> QED BY <1>0, <2>1, <2>2, <2>3, MoveIsClientStep
<1>4. CASE BackpressureCheck(t)
  <2>1. NoNewCompact
    BY <1>0, <1>4, SameQueue, RotateMessages DEF BackpressureCheck
  <2> QED BY <1>0, <1>4, <2>1, FinishIsClientStep DEF BackpressureCheck
<1>5. CASE WaitPendingClear(t) /\ pc[t] # "ack"
  <2>1. NoNewCompact
    BY <1>5, SameQueue DEF WaitPendingClear
  <2> QED BY <1>0, <1>5, <2>1, FinishIsClientStep DEF WaitPendingClear, data
<1>6. CASE FlushFirstWait(t)
  <2>1. CASE WaitPendingClear(t)
    BY <1>5, <1>6, <2>1 DEF FlushFirstWait
  <2>2. CASE ~WaitPendingClear(t)
    <3>1. NoNewCompact
      BY <1>0, <1>6, <2>2, RotateMessages DEF FlushFirstWait
    <3>2. /\ pc[t] # "ack" /\ UNCHANGED <<need, stolen, error, maint, flushed>>
          /\ pc' = [pc EXCEPT ![t] = "flushDone"]
      BY <1>6, <2>2 DEF FlushFirstWait, Goto
    <3> QED BY <1>0, <3>1, <3>2, MoveIsClientStep
  <2> QED BY <2>1, <2>2
<1>7. CASE FlushSecondWait(t)
  <2>1. CASE WaitPendingClear(t)
    BY <1>5, <1>7, <2>1 DEF FlushSecondWait
  <2>2. CASE ~WaitPendingClear(t)
    <3>1. NoNewCompact
      BY <1>7, <2>2, SameQueue DEF FlushSecondWait
    <3> QED BY <1>0, <1>7, <2>2, <3>1, FinishIsClientStep DEF FlushSecondWait, data
  <2> QED BY <2>1, <2>2
<1>8. CASE CompactReturn(t)
  <2>1. NoNewCompact
    BY <1>8, SameQueue DEF CompactReturn
  <2> QED BY <1>0, <1>8, <2>1, FinishIsClientStep DEF CompactReturn, data
<1> QED BY <1>1, <1>2, <1>3, <1>4, <1>6, <1>7, <1>8

\* The thread that waits for the answer is the one the message names.
LEMMA CompactIsOneToOne ==
    ASSUME NEW t, NEW u, Compact(t) = Compact(u)
    PROVE  t = u
<1>1. Compact(t).from = Compact(u).from
  OBVIOUS
<1> QED BY <1>1 DEF Compact

\* A step of the maintenance thread on the message it works on
LEMMA WorkStepKeeps ==
    ASSUME CompactInv, TypeOK', UNCHANGED <<queue, pc, need, stolen>>,
           maint.at # "recv", maint'.msg = maint.msg, flushed <= flushed', error => error',
           maint'.at = "ack" => maint.msg.kind = "compact",
           \A t \in Thread : Working(t) /\ maint'.at \in {"compact", "notify", "ack"}
                               => Promised(t)'
    PROVE  OneMessage' /\ PromiseKept'
<1>1. \A t \in Thread : Working(t)' => Working(t)
  BY DEF Working, Compact
<1>2. ASSUME maint'.at = "ack" PROVE \E t \in Thread : maint'.msg = Compact(t)
  <2>1. maint.msg \in Message /\ maint.msg.kind = "compact"
    BY <1>2 DEF CompactInv, FlushInv, TypeOK
  <2>2. maint.msg \in [kind: {"compact"}, from: Thread]
    BY <2>1 DEF Message
  <2>3. maint.msg.from \in Thread /\ maint.msg = Compact(maint.msg.from)
    BY <2>2 DEF Compact
  <2> QED BY <2>3
<1>3. OneMessage'
  <2>1. \A t \in Thread : Compact(t)' = Compact(t)
    BY DEF Compact
  <2> QED BY <1>1, <1>2, <2>1 DEF CompactInv, OneMessage
<1>4. ASSUME NEW t \in Thread, pc'[t] = "acked" PROVE Promised(t)'
  BY <1>4 DEF CompactInv, FlushInv, TypeOK, PromiseKept, Promised
<1> QED BY <1>1, <1>3, <1>4 DEF PromiseKept

LEMMA CompactInvStep ==
    ASSUME CompactInv, [Next]_vars
    PROVE  CompactInv'
<1>0. /\ TypeOK /\ TypeOK' /\ FlushInv'
      /\ queue \in Seq(Message) /\ Len(queue) \in Nat
      /\ \A t \in Thread : Compact(t)' = Compact(t)
  <2>1. FlushInv' /\ TypeOK /\ queue \in Seq(Message)
    BY FlushInvStep DEF CompactInv, FlushInv, TypeOK
  <2> QED BY <2>1 DEF FlushInv, Compact
<1>1. ASSUME NEW t \in Thread, CompactSend(t) PROVE OneMessage' /\ PromiseKept'
  <2>1. /\ pc[t] = "compactSend" /\ pc' = [pc EXCEPT ![t] = "ack"]
        /\ UNCHANGED <<data, error, maint, need, stolen>>
    BY <1>1 DEF CompactSend, Goto
  <2>2. \A u \in Thread : pc'[u] = IF u = t THEN "ack" ELSE pc[u]
    BY <1>0, <2>1 DEF TypeOK
  <2>3. \A i \in 1..Len(queue) : queue[i] # Compact(t)
    BY <2>1 DEF CompactInv, OneMessage
  <2>4. \A u \in Thread : (Working(u)' <=> Working(u)) /\ (Working(u) => u # t)
    BY <1>0, <2>1 DEF CompactInv, OneMessage, Working
  <2>5. Len(queue') = Len(queue) + 1 /\ \A i \in 1..Len(queue') :
          queue'[i] = IF i = Len(queue) + 1 THEN Compact(t) ELSE queue[i]
    <3>1. queue' = Append(queue, Compact(t)) /\ Compact(t) \in Message
      BY <1>1, MessageTypes DEF CompactSend
    <3> QED BY <1>0, <3>1
  <2>6. ASSUME NEW i \in 1..Len(queue'), NEW u \in Thread, queue'[i] = Compact(u)
        PROVE  /\ pc'[u] = "ack" /\ ~Working(u)'
               /\ \A j \in 1..Len(queue') : queue'[j] = Compact(u) => i = j
    <3>1. CASE u = t
      <4>1. i = Len(queue) + 1
        BY <1>0, <2>3, <2>5, <2>6, <3>1
      <4>2. \A j \in 1..Len(queue') : queue'[j] = Compact(u) => j = Len(queue) + 1
        BY <1>0, <2>3, <2>5, <3>1
      <4> QED BY <2>2, <2>4, <3>1, <4>1, <4>2
    <3>2. CASE u # t
      <4>1. \A j \in 1..Len(queue') : queue'[j] = Compact(u)
                => j \in 1..Len(queue) /\ queue[j] = Compact(u)
        BY <1>0, <2>5, <3>2, CompactIsOneToOne
      <4> QED BY <2>2, <2>4, <2>6, <3>2, <4>1 DEF CompactInv, OneMessage
    <3> QED BY <3>1, <3>2
  <2>7. OneMessage'
    BY <1>0, <2>1, <2>2, <2>4, <2>6 DEF CompactInv, OneMessage
  <2>8. \A u \in Thread : Promised(u)' <=> Promised(u)
    BY <2>1 DEF Promised, data
  <2> QED BY <2>1, <2>2, <2>4, <2>7, <2>8 DEF CompactInv, PromiseKept
<1>2. ASSUME NEW t \in Thread,
             Write(t) \/ FlushCall(t) \/ CompactCall(t) \/ (Resume(t) /\ ~CompactSend(t))
      PROVE  OneMessage' /\ PromiseKept'
  BY <1>0, <1>2, ClientActions, ClientStepKeeps DEF Resume
<1>3. ASSUME Close PROVE OneMessage' /\ PromiseKept'
  <2>1. NoNewCompact
    BY <1>0, <1>3, OtherMessage DEF Close
  <2>2. ClientStep
    BY <1>3, <2>1 DEF Close, data, ClientStep
  <2> QED BY <1>0, <2>2, ClientStepKeeps
<1>4. ASSUME Recv PROVE OneMessage' /\ PromiseKept'
  <2>1. /\ maint.at = "recv" /\ queue # <<>>
        /\ maint'.at = "flush" /\ maint'.msg = Head(queue)
        /\ queue' = Tail(queue) /\ UNCHANGED <<data, error, pc, need, stolen>>
    BY <1>4 DEF Recv
  <2>2. /\ Head(queue) = queue[1] /\ Len(queue') = Len(queue) - 1 /\ 1 \in 1..Len(queue)
        /\ \A i \in 1..Len(queue') : i + 1 \in 1..Len(queue) /\ queue'[i] = queue[i + 1]
    BY <1>0, <2>1
  <2>3. \A t \in Thread : Working(t)' <=> queue[1] = Compact(t)
    BY <1>0, <2>1, <2>2 DEF Working
  <2>4. ASSUME NEW i \in 1..Len(queue'), NEW t \in Thread, queue'[i] = Compact(t)
        PROVE  /\ pc'[t] = "ack" /\ ~Working(t)'
               /\ \A j \in 1..Len(queue') : queue'[j] = Compact(t) => i = j
    <3>1. i + 1 \in 1..Len(queue) /\ queue[i + 1] = Compact(t) /\ i + 1 # 1
      BY <1>0, <2>2, <2>4
    <3>2. pc[t] = "ack" /\ \A j \in 1..Len(queue) : queue[j] = Compact(t) => i + 1 = j
      BY <3>1 DEF CompactInv, OneMessage
    <3>3. \A j \in 1..Len(queue') : queue'[j] = Compact(t) => i + 1 = j + 1
      BY <2>2, <3>2
    <3> QED BY <1>0, <2>1, <2>2, <2>3, <3>1, <3>2, <3>3
  <2>5. \A t \in Thread : Working(t)' => pc'[t] = "ack"
    BY <2>1, <2>2, <2>3 DEF CompactInv, OneMessage
  <2>6. OneMessage'
    BY <1>0, <2>1, <2>4, <2>5 DEF OneMessage
  <2>7. PromiseKept'
    BY <2>1 DEF CompactInv, PromiseKept, Promised, data
  <2> QED BY <2>6, <2>7
<1>5. ASSUME FlushPending PROVE OneMessage' /\ PromiseKept'
  <2>1. /\ maint.at = "flush" /\ flushed' = rotated /\ maint'.at = "compact"
        /\ maint'.msg = maint.msg /\ UNCHANGED <<error, queue, pc, need, stolen>>
    BY <1>0, <1>5 DEF FlushPending, TypeOK
  <2>2. flushed <= flushed'
    BY <2>1 DEF CompactInv, FlushInv, Ordered
  <2>3. \A t \in Thread : Working(t) => need[t] <= rotated
    BY DEF CompactInv, FlushInv, CallsAbout, OneMessage
  <2> QED BY <1>0, <2>1, <2>2, <2>3, WorkStepKeeps DEF Promised
<1>6. ASSUME CompactCollections \/ Notify PROVE OneMessage' /\ PromiseKept'
  <2>1. /\ maint.at \in {"compact", "notify"} /\ maint'.msg = maint.msg
        /\ maint'.at = "ack" => maint.msg.kind = "compact"
        /\ UNCHANGED <<flushed, error, queue, pc, need, stolen>>
    BY <1>0, <1>6 DEF CompactCollections, Notify, TypeOK, data
  <2>2. \A t \in Thread : Working(t) => Promised(t)
    BY <2>1 DEF CompactInv, PromiseKept
  <2>3. flushed <= flushed'
    BY <1>0, <2>1 DEF TypeOK
  <2> QED BY <1>0, <2>1, <2>2, <2>3, WorkStepKeeps DEF Promised
<1>7. ASSUME Fail \/ SetError PROVE OneMessage' /\ PromiseKept'
  <2>1. /\ maint.at # "recv" /\ maint'.msg = maint.msg /\ maint'.at # "ack"
        /\ error => error'
        /\ maint'.at \in {"compact", "notify", "ack"} => error'
        /\ UNCHANGED <<flushed, queue, pc, need, stolen>>
    BY <1>0, <1>7 DEF Fail, SetError, TypeOK, data
  <2>2. flushed <= flushed'
    BY <1>0, <2>1 DEF TypeOK
  <2> QED BY <1>0, <2>1, <2>2, WorkStepKeeps DEF Promised
<1>8. ASSUME Ack PROVE OneMessage' /\ PromiseKept'
  <2>1. PICK t \in Thread : maint.at = "ack" /\ maint.msg = Compact(t)
    BY <1>8 DEF Ack, CompactInv, OneMessage
  <2>2. Working(t) /\ Promised(t) /\ \A i \in 1..Len(queue) : queue[i] # Compact(t)
    BY <2>1 DEF Working, CompactInv, OneMessage, PromiseKept
  <2>3. /\ pc' = [pc EXCEPT ![t] = "acked"] /\ maint'.at = "recv"
        /\ UNCHANGED <<data, error, queue, need, stolen>>
    BY <1>0, <1>8, <2>1 DEF Ack, Compact, TypeOK
  <2>4. \A u \in Thread : pc'[u] = IF u = t THEN "acked" ELSE pc[u]
    BY <1>0, <2>3 DEF TypeOK
  <2>5. \A u \in Thread : ~Working(u)'
    BY <2>3 DEF Working
  <2>6. OneMessage'
    BY <1>0, <2>2, <2>3, <2>4, <2>5 DEF CompactInv, OneMessage
  <2>7. \A u \in Thread : Promised(u)' <=> Promised(u)
    BY <2>3 DEF Promised, data
  <2> QED BY <2>2, <2>4, <2>5, <2>6, <2>7 DEF CompactInv, PromiseKept
<1>9. ASSUME UNCHANGED vars PROVE OneMessage' /\ PromiseKept'
  BY <1>0, <1>9 DEF vars, data, CompactInv, OneMessage, PromiseKept, Promised, Working
<1> QED
  BY <1>0, <1>1, <1>2, <1>3, <1>4, <1>5, <1>6, <1>7, <1>8, <1>9
  DEF CompactInv, Next, Resume, MaintenanceThread

\* Only CompactReturn ends a compact() that was answered.
LEMMA LeavesCompact ==
    ASSUME TypeOK, [Next]_vars, NEW t \in Thread, pc[t] = "acked", pc'[t] = "idle"
    PROVE  CompactReturn(t)
<1>1. ASSUME NEW u \in Thread, Write(u) \/ FlushCall(u) \/ CompactCall(u) PROVE FALSE
  BY <1>1 DEF TypeOK, Write, FlushCall, CompactCall, Begin
<1>2. ASSUME NEW u \in Thread, Resume(u), u # t PROVE FALSE
  BY <1>2 DEF TypeOK, Resume, BackpressureCheck, FlushFirstWait, FlushSecondWait, CompactSend,
              CompactReturn, WaitPendingClear, ReturnError, Return, Finish, Goto
<1>3. CASE Resume(t)
  BY <1>3 DEF Resume, BackpressureCheck, FlushFirstWait, FlushSecondWait, CompactSend
<1>4. CASE Close
  BY <1>4 DEF Close
<1>5. CASE MaintenanceThread
  BY <1>5 DEF TypeOK, MaintenanceThread, Recv, FlushPending, CompactCollections, Fail, SetError,
              Notify, Ack
<1>6. CASE UNCHANGED vars
  BY <1>6 DEF vars
<1> QED BY <1>1, <1>2, <1>3, <1>4, <1>5, <1>6 DEF Next

\* compact() that returns Ok has flushed what it rotated, unless another call
\* took the error that was meant for it.
THEOREM CompactReturnsFlushed == Spec => CompactOkMeansFlushed
<1>1. ASSUME Init PROVE CompactInv
  <2>1. TypeOK
    BY <1>1, TypeInit
  <2> QED BY <1>1, <2>1 DEF Init, CompactInv, FlushInv, Ordered, CallsAbout, OneMessage,
                            PromiseKept, Working
<1>2. ASSUME CompactInv, [Next]_vars, NEW t \in Thread,
             pc[t] = "acked", pc'[t] = "idle", result'[t] = "ok"
      PROVE  flushed' >= need[t] \/ stolen[t]
  <2>1. TypeOK /\ Promised(t)
    BY <1>2 DEF CompactInv, FlushInv, PromiseKept
  <2>2. CompactReturn(t)
    BY <1>2, <2>1, LeavesCompact
  <2>3. ~ReturnError(t)
    BY <1>2, <2>1 DEF ReturnError, Finish, TypeOK
  <2>4. ~error /\ flushed' = flushed
    BY <2>2, <2>3 DEF CompactReturn, data
  <2> QED BY <2>1, <2>4 DEF Promised, TypeOK
<1>3. CompactInv /\ [Next]_vars
        => [\A t \in Thread : pc[t] = "acked" /\ pc'[t] = "idle" /\ result'[t] = "ok"
                                => flushed' >= need[t] \/ stolen[t]]_vars
  BY <1>2
<1> QED BY <1>1, <1>3, CompactInvStep, PTL DEF Spec, CompactOkMeansFlushed

----------------------------------------------------------------------------
(* Backpressure *)

\* There is an error only after a failure.
ErrorsCounted == error \/ maint.at = "error" => failures > 0

HeldBack == {t \in Thread : pc[t] = "backpressure"}

LEMMA LimitPositive ==
    \E limit \in Nat : limit = HardFactor * Threshold /\ Threshold <= limit /\ 1 <= limit
<1>1. HardFactor \in Nat /\ HardFactor >= 1 /\ Threshold \in Nat /\ Threshold >= 1
  BY MaintenanceAssumption
<1>2. PICK more \in Nat : HardFactor = 1 + more
  <2>1. HardFactor - 1 \in Nat /\ HardFactor = 1 + (HardFactor - 1)
    BY <1>1
  <2> QED BY <2>1
<1>3. (1 + more) * Threshold = Threshold + more * Threshold /\ more * Threshold \in Nat
  BY <1>1
<1> QED BY <1>1, <1>2, <1>3

LEMMA HeldBackCounted ==
    /\ IsFiniteSet(HeldBack) /\ Cardinality(HeldBack) \in Nat
    /\ IsFiniteSet(HeldBack') /\ Cardinality(HeldBack') \in Nat
<1>1. HeldBack \in SUBSET Thread /\ HeldBack' \in SUBSET Thread
  BY DEF HeldBack
<1>2. IsFiniteSet(HeldBack) /\ IsFiniteSet(HeldBack')
  BY <1>1, FS_Subset, MaintenanceAssumption
<1> QED BY <1>2, FS_CardinalityType

LEMMA ErrorsCountedStep ==
    ASSUME TypeOK, ErrorsCounted, [Next]_vars
    PROVE  ErrorsCounted' /\ failures' \in Nat /\ failures <= failures'
<1>0. failures \in Nat
  BY DEF TypeOK
<1>1. CASE Fail
  BY <1>0, <1>1 DEF Fail, ErrorsCounted
<1>2. CASE SetError \/ Recv \/ FlushPending \/ CompactCollections \/ Notify \/ Ack
  BY <1>0, <1>2 DEF SetError, Recv, FlushPending, CompactCollections, Notify, Ack, TypeOK,
                    ErrorsCounted
<1>3. CASE UNCHANGED vars
  BY <1>0, <1>3 DEF vars, ErrorsCounted
<1>4. ASSUME NEW t \in Thread,
             Write(t) \/ FlushCall(t) \/ CompactCall(t) \/ Resume(t) \/ Close
      PROVE  UNCHANGED <<maint, failures>> /\ (error' => error)
  BY <1>4 DEF Write, FlushCall, CompactCall, Resume, Close, BackpressureCheck, FlushFirstWait,
              FlushSecondWait, WaitPendingClear, CompactSend, CompactReturn, ReturnError
<1>5. CASE Close
  BY <1>0, <1>5 DEF Close, ErrorsCounted
<1> QED
  BY <1>0, <1>1, <1>2, <1>3, <1>4, <1>5 DEF Next, MaintenanceThread, ErrorsCounted

\* A step that neither writes nor frees a writer
LEMMA SameHeldBack ==
    ASSUME TypeOK, TypeOK', MemtableBounded, failures <= failures',
           written' = written, rotated <= rotated', HeldBack' = HeldBack
    PROVE  MemtableBounded'
<1>1. written \in Nat /\ rotated \in Nat /\ rotated' \in Nat /\ failures \in Nat /\ failures' \in Nat
  BY DEF TypeOK
<1>2. Active \in Int /\ Active' \in Int /\ Active' <= Active
  <2>1. Active = written - rotated /\ Active' = written - rotated'
    BY DEF Active
  <2>2. \A a, b, c \in Nat : b <= c => a - b \in Int /\ a - c \in Int /\ a - c <= a - b
    OBVIOUS
  <2> QED BY <1>1, <2>1, <2>2
<1>3. Cardinality(HeldBack') = Cardinality(HeldBack) /\ Cardinality(HeldBack) \in Nat
  BY HeldBackCounted
<1>4. PICK limit \in Nat : limit = HardFactor * Threshold
  BY LimitPositive
<1>5. failures = 0 => Active < limit + Cardinality(HeldBack)
  BY <1>4 DEF MemtableBounded, HeldBack
<1>6. failures' = 0 => Active' < limit + Cardinality(HeldBack')
  BY <1>1, <1>2, <1>3, <1>5
<1> QED BY <1>4, <1>6 DEF MemtableBounded, HeldBack

LEMMA WriteBounded ==
    ASSUME CompactInv, ErrorsCounted, MemtableBounded, TypeOK', NEW t \in Thread, Write(t)
    PROVE  MemtableBounded'
<1>0. /\ TypeOK /\ Ordered /\ failures' = failures /\ written' = written + 1
      /\ pc[t] = "idle"
      /\ Active \in Nat /\ Active' = (written + 1) - rotated'
      /\ written \in Nat /\ rotated \in Nat /\ Active = written - rotated
  BY DEF CompactInv, FlushInv, TypeOK, Ordered, Active, Write
<1> PICK limit \in Nat : limit = HardFactor * Threshold /\ Threshold <= limit /\ 1 <= limit
  BY LimitPositive
<1>1. SUFFICES ASSUME failures = 0
               PROVE  Active' < limit + Cardinality(HeldBack')
  BY <1>0 DEF MemtableBounded, HeldBack
<1>2. ~error /\ Active < limit + Cardinality(HeldBack)
  BY <1>1 DEF ErrorsCounted, MemtableBounded, HeldBack
<1>3. CASE Active + 1 < Threshold /\ UNCHANGED rotated
  BY <1>0, <1>3, HeldBackCounted, MaintenanceAssumption
<1>4. CASE pc' = [pc EXCEPT ![t] = "backpressure"] /\ UNCHANGED rotated
  <2>1. HeldBack' = HeldBack \cup {t} /\ t \notin HeldBack
    BY <1>0, <1>4 DEF TypeOK, HeldBack
  <2>2. Cardinality(HeldBack') = Cardinality(HeldBack) + 1
    BY <2>1, HeldBackCounted, FS_AddElement
  <2> QED BY <1>0, <1>2, <1>4, <2>2, HeldBackCounted
<1>5. CASE ~Pending /\ Rotate(Active + 1, written + 1, <<Flush>>)
  <2>1. rotated' = written + 1
    BY <1>0, <1>5 DEF Rotate
  <2> QED BY <1>0, <2>1, HeldBackCounted
<1>6. CASE Pending /\ ~TooBig(Active + 1) /\ Rotate(Active + 1, written + 1, <<Flush>>)
  <2>1. rotated' = rotated /\ Active + 1 < limit
    BY <1>0, <1>6 DEF Rotate, TooBig
  <2> QED BY <1>0, <2>1, HeldBackCounted
<1> QED BY <1>2, <1>3, <1>4, <1>5, <1>6 DEF Write

LEMMA BackpressureBounded ==
    ASSUME CompactInv, ErrorsCounted, MemtableBounded, TypeOK', NEW t \in Thread,
           BackpressureCheck(t)
    PROVE  MemtableBounded'
<1>0. TypeOK /\ Ordered /\ failures' = failures /\ written' = written /\ Active \in Nat
  BY DEF CompactInv, FlushInv, TypeOK, Ordered, Active, BackpressureCheck
<1>1. CASE UNCHANGED <<rotated, pc>>
  BY <1>0, <1>1, SameHeldBack DEF HeldBack, TypeOK
<1>2. CASE ~(Pending /\ ~error) /\ Rotate(Active, written, <<Flush>>)
  <2>1. SUFFICES ASSUME failures = 0
                 PROVE  Active' < HardFactor * Threshold + Cardinality(HeldBack')
    BY <1>0 DEF MemtableBounded, HeldBack
  <2>2. ~Pending
    BY <1>2, <2>1 DEF ErrorsCounted
  <2>3. rotated' = written
    <3>1. written \in Nat /\ written - rotated = Active
      BY <1>0 DEF TypeOK, Active
    <3> QED BY <1>0, <1>2, <2>2, <3>1, RotateCounts
  <2>4. Active' = 0
    BY <1>0, <2>3 DEF Active, TypeOK
  <2>5. PICK limit \in Nat : limit = HardFactor * Threshold /\ 1 <= limit
    BY LimitPositive
  <2>6. Active' < limit + Cardinality(HeldBack')
    BY <2>4, <2>5, HeldBackCounted
  <2> QED BY <2>5, <2>6
<1> QED BY <1>1, <1>2 DEF BackpressureCheck

LEMMA BoundedStep ==
    ASSUME CompactInv, ErrorsCounted, MemtableBounded, [Next]_vars
    PROVE  MemtableBounded'
<1>0. /\ TypeOK /\ TypeOK' /\ Ordered /\ failures <= failures'
      /\ Active \in Nat /\ written \in Nat /\ written - rotated = Active
  BY TypeStep, ErrorsCountedStep DEF CompactInv, FlushInv, TypeOK, Ordered, Active
<1>1. ASSUME NEW t \in Thread, Write(t) PROVE MemtableBounded'
  BY <1>0, <1>1, WriteBounded
<1>2. ASSUME NEW t \in Thread, BackpressureCheck(t) PROVE MemtableBounded'
  BY <1>0, <1>2, BackpressureBounded
<1>3. ASSUME written' = written, rotated' = rotated \/ \E msgs : Rotate(Active, written, msgs),
             NEW t \in Thread, pc[t] # "backpressure", NEW where, where # "backpressure",
             pc' = pc \/ pc' = [pc EXCEPT ![t] = where]
      PROVE  MemtableBounded'
  <2>1. rotated <= rotated'
    BY <1>0, <1>3, RotateCounts DEF TypeOK
  <2>2. HeldBack' = HeldBack
    BY <1>0, <1>3 DEF TypeOK, HeldBack
  <2> QED BY <1>0, <1>3, <2>1, <2>2, SameHeldBack
<1>4. ASSUME NEW t \in Thread, FlushCall(t) \/ CompactCall(t) PROVE MemtableBounded'
  <2>1. PICK where \in {"pendingClear", "compactSend"} :
          pc[t] = "idle" /\ pc' = [pc EXCEPT ![t] = where]
    BY <1>4 DEF FlushCall, CompactCall, Begin
  <2>2. written' = written /\ (rotated' = rotated \/ \E msgs : Rotate(Active, written, msgs))
    BY <1>4 DEF FlushCall, CompactCall, data
  <2> QED BY <1>3, <2>1, <2>2
<1>5. ASSUME NEW t \in Thread, WaitPendingClear(t), pc[t] # "backpressure" PROVE MemtableBounded'
  <2>1. /\ written' = written /\ rotated' = rotated
        /\ pc' = pc \/ pc' = [pc EXCEPT ![t] = "idle"]
    BY <1>5 DEF WaitPendingClear, ReturnError, Finish, data
  <2> QED BY <1>3, <1>5, <2>1
<1>6. ASSUME NEW t \in Thread, FlushFirstWait(t) PROVE MemtableBounded'
  <2>1. CASE WaitPendingClear(t)
    BY <1>5, <1>6, <2>1 DEF FlushFirstWait
  <2>2. CASE ~WaitPendingClear(t)
    <3>1. /\ pc[t] # "backpressure" /\ pc' = [pc EXCEPT ![t] = "flushDone"]
          /\ written' = written /\ Rotate(Active, written, <<Flush>>)
      BY <1>6, <2>2 DEF FlushFirstWait, Goto
    <3> QED BY <1>3, <3>1
  <2> QED BY <2>1, <2>2
<1>7. ASSUME NEW t \in Thread, FlushSecondWait(t) PROVE MemtableBounded'
  <2>1. CASE WaitPendingClear(t)
    BY <1>5, <1>7, <2>1 DEF FlushSecondWait
  <2>2. CASE ~WaitPendingClear(t)
    <3>1. /\ pc[t] # "backpressure" /\ pc' = [pc EXCEPT ![t] = "idle"]
          /\ written' = written /\ rotated' = rotated
      BY <1>7, <2>2 DEF FlushSecondWait, Return, Finish, data
    <3> QED BY <1>3, <3>1
  <2> QED BY <2>1, <2>2
<1>8. ASSUME NEW t \in Thread, CompactSend(t) \/ CompactReturn(t) PROVE MemtableBounded'
  <2>1. PICK where \in {"ack", "idle"} :
          pc[t] # "backpressure" /\ pc' = [pc EXCEPT ![t] = where]
    BY <1>8 DEF CompactSend, CompactReturn, Goto, Return, ReturnError, Finish
  <2>2. written' = written /\ rotated' = rotated
    BY <1>8 DEF CompactSend, CompactReturn, data
  <2> QED BY <1>3, <2>1, <2>2
<1>9. ASSUME Ack PROVE MemtableBounded'
  <2>1. PICK t \in Thread : maint.at = "ack" /\ maint.msg = Compact(t)
    BY <1>9 DEF Ack, CompactInv, OneMessage
  <2>2. pc[t] = "ack"
    BY <2>1 DEF Working, CompactInv, OneMessage
  <2>3. pc' = [pc EXCEPT ![t] = "acked"] /\ written' = written /\ rotated' = rotated
    BY <1>9, <2>1 DEF Ack, Compact, data
  <2> QED BY <1>3, <2>2, <2>3
<1>10. ASSUME Close PROVE MemtableBounded'
  <2>1. HeldBack' = HeldBack /\ written' = written /\ rotated' = rotated
    BY <1>10 DEF Close, HeldBack, data
  <2> QED BY <1>0, <2>1, SameHeldBack DEF TypeOK
<1>11. ASSUME Recv \/ FlushPending \/ CompactCollections \/ Fail \/ SetError \/ Notify
              \/ UNCHANGED vars
       PROVE  MemtableBounded'
  <2>1. pc' = pc /\ written' = written /\ rotated' = rotated
    BY <1>11 DEF Recv, FlushPending, CompactCollections, Fail, SetError, Notify, vars, data
  <2>2. HeldBack' = HeldBack
    BY <2>1 DEF HeldBack
  <2> QED BY <1>0, <2>1, <2>2, SameHeldBack DEF TypeOK
<1> QED
  BY <1>1, <1>2, <1>4, <1>6, <1>7, <1>8, <1>9, <1>10, <1>11 DEF Next, Resume, MaintenanceThread

\* Backpressure: without failures the active memtable is past the hard limit
\* only by the last writes of the threads that are held back.
THEOREM BackpressureBounds == Spec => []MemtableBounded
<1>1. ASSUME Init PROVE CompactInv /\ ErrorsCounted /\ MemtableBounded
  <2>1. TypeOK
    BY <1>1, TypeInit
  <2>2. CompactInv
    BY <1>1, <2>1 DEF Init, CompactInv, FlushInv, Ordered, CallsAbout, OneMessage, PromiseKept,
                      Working
  <2>3. ErrorsCounted
    BY <1>1 DEF Init, ErrorsCounted
  <2>4. PICK limit \in Nat : limit = HardFactor * Threshold /\ 1 <= limit
    BY LimitPositive
  <2>5. Active = 0
    BY <1>1 DEF Init, Active
  <2>6. 0 < limit + Cardinality(HeldBack)
    BY <2>4, HeldBackCounted
  <2> QED BY <2>2, <2>3, <2>4, <2>5, <2>6 DEF MemtableBounded, HeldBack
<1>2. CompactInv /\ ErrorsCounted /\ MemtableBounded /\ [Next]_vars
        => CompactInv' /\ ErrorsCounted' /\ MemtableBounded'
  BY CompactInvStep, ErrorsCountedStep, BoundedStep DEF CompactInv, FlushInv
<1> QED BY <1>1, <1>2, PTL DEF Spec
============================================================================
