-------------------------------- MODULE Pool --------------------------------
(***************************************************************************)
(* Calls on the shared pool of a Database: run_search and                  *)
(* run_search_batch of hamane/src/collection.rs over hamane/src/pool.rs.   *)
(* A caller takes a view, keeps the first part of the work, sends the rest *)
(* to the queue of the pool and collects one result per job.  A job may    *)
(* fail or panic; the Database closes while jobs of a caller that gave up  *)
(* are still queued.  What a part of a call finds is a function of the     *)
(* view, which does not change, so the result of every part is given with  *)
(* the call, whoever computes it and when.                                 *)
(***************************************************************************)
EXTENDS Integers, SequencesExt

CONSTANTS
  Singles, Batches,  \* callers of search and of search_batch
  Workers,           \* the worker threads, one less than search_threads
  Failed, Panicked   \* the Err and the panic of a search

ASSUME PoolAssumption == Singles \cap Batches = {} /\ Singles \cup Batches # {}

VARIABLES
  caller,    \* what each caller is doing
  queue,     \* jobs in the channel of the pool
  worker,    \* what each worker is doing
  pool       \* "idle" (no worker yet), "running", "closing", "closed"

poolVars == <<caller, queue, worker, pool>>

Callers == Singles \cup Batches

PoolInit ==
  /\ queue = <<>>
  /\ worker = [w \in Workers |-> [pc |-> "absent"]]
  /\ pool = "idle"

(* rqs: the requests of a call, parts: what each part of its work finds    *)
Idle(rqs, parts) == [pc |-> "idle", rqs |-> rqs, parts |-> parts]

Bad(result) == result \in {Failed, Panicked}

Parts(c) == Len(caller[c].parts)

End(c, outcome) ==
  [pc |-> "ended", rqs |-> caller[c].rqs, parts |-> caller[c].parts, outcome |-> outcome]
Ended(c) == caller[c].pc = "ended"

With(got, i, result) ==
  [n \in DOMAIN got \cup {i} |-> IF n = i THEN result ELSE got[n]]

(* A panic unwinds through the caller, and a batch returns the first error *)
(* it meets; a single search collects all results before it looks at them. *)
GivesUp(c, result) == result = Panicked \/ (result = Failed /\ c \in Batches)

-----------------------------------------------------------------------------
(* A single search of no or one segment, a batch of one query, and a pool  *)
(* of one thread stay with the caller.                                     *)
Inline(c) == Parts(c) <= 1 \/ Workers = {}

Begin(c) ==
  /\ caller[c].pc = "idle" /\ caller[c].rqs # <<>>
  /\ pool \in {"idle", "running"}
  /\ caller' = [caller EXCEPT ![c] = [pc |-> "plan", rqs |-> @.rqs, parts |-> @.parts]]
  /\ UNCHANGED <<queue, worker, pool>>

RunInline(c) ==
  /\ caller[c].pc = "plan" /\ Inline(c)
  /\ LET parts == caller[c].parts
         bad == {i \in DOMAIN parts : Bad(parts[i])}
     IN caller' = [caller EXCEPT ![c] = End(c, IF bad = {} THEN parts ELSE parts[Min(bad)])]
  /\ UNCHANGED <<queue, worker, pool>>

(* execute: the first job starts the workers.  All parts but the first go *)
(* to the queue.  A batch puts each result in its place; a single search   *)
(* merges them as they arrive, so the place there is only a name.          *)
Send(c) ==
  /\ caller[c].pc = "plan" /\ ~Inline(c)
  /\ queue' = queue \o [i \in 1..(Parts(c) - 1) |-> [caller |-> c, part |-> i + 1]]
  /\ worker' = IF pool = "idle" THEN [w \in Workers |-> [pc |-> "recv"]] ELSE worker
  /\ pool' = "running"
  /\ caller' = [caller EXCEPT ![c] =
       [pc |-> "own", rqs |-> @.rqs, parts |-> @.parts, channel |-> <<>>, got |-> <<>>,
        left |-> Parts(c) - 1]]

(* The part of the caller; when it gives up, the other jobs go on.         *)
Receiving(c, channel, got, left) ==
  [pc |-> "recv", rqs |-> caller[c].rqs, parts |-> caller[c].parts,
   channel |-> channel, got |-> got, left |-> left]

OwnPart(c) ==
  /\ caller[c].pc = "own"
  /\ LET r == caller[c].parts[1]
     IN caller' = [caller EXCEPT ![c] =
          IF GivesUp(c, r) THEN End(c, r)
          ELSE Receiving(c, @.channel, <<r>>, @.left)]
  /\ UNCHANGED <<queue, worker, pool>>

Collected(c, got) ==
  LET bad == {i \in DOMAIN got : got[i] = Failed}
  IN End(c, IF bad = {} THEN got ELSE Failed)

Collect(c) ==
  /\ caller[c].pc = "recv" /\ caller[c].channel # <<>>
  /\ LET msg == Head(caller[c].channel)
         got == With(caller[c].got, msg.part, msg.result)
     IN caller' = [caller EXCEPT ![c] =
          CASE GivesUp(c, msg.result) -> End(c, msg.result)
            [] ~GivesUp(c, msg.result) /\ @.left = 1 -> Collected(c, got)
            [] OTHER -> Receiving(c, Tail(@.channel), got, @.left - 1)]
  /\ UNCHANGED <<queue, worker, pool>>

-----------------------------------------------------------------------------
(* A worker takes the next job; when the sender is gone it first drains    *)
(* the queue, then ends.                                                   *)
TakeJob(w) ==
  /\ worker[w].pc = "recv" /\ queue # <<>>
  /\ worker' = [worker EXCEPT ![w] = [pc |-> "run", job |-> Head(queue)]]
  /\ queue' = Tail(queue)
  /\ UNCHANGED <<caller, pool>>

RunJobDropsPanic(w) ==
  /\ worker[w].pc = "run"
  /\ LET c == worker[w].job.caller
         r == caller[c].parts[worker[w].job.part]
     IN /\ caller' = IF Ended(c) \/ r = Panicked THEN caller
                     ELSE [caller EXCEPT ![c].channel =
                             Append(@, [part |-> worker[w].job.part, result |-> r])]
        /\ worker' = [worker EXCEPT ![w] = [pc |-> "recv"]]
  /\ UNCHANGED <<queue, pool>>

(* The job catches a panic and sends it as its result; a caller that has   *)
(* ended has dropped the receiver.                                         *)
RunJob(w) ==
  /\ worker[w].pc = "run"
  /\ LET c == worker[w].job.caller
         r == caller[c].parts[worker[w].job.part]
     IN /\ caller' = IF Ended(c) THEN caller
                     ELSE [caller EXCEPT ![c].channel =
                             Append(@, [part |-> worker[w].job.part, result |-> r])]
        /\ worker' = [worker EXCEPT ![w] = [pc |-> "recv"]]
  /\ UNCHANGED <<queue, pool>>

EndWorker(w) ==
  /\ worker[w].pc = "recv" /\ queue = <<>> /\ pool = "closing"
  /\ worker' = [worker EXCEPT ![w] = [pc |-> "ended"]]
  /\ UNCHANGED <<caller, queue, pool>>

(* Drop: the last owner of the pool is gone, so no caller is in a search;  *)
(* the sender is dropped and the workers are joined.                       *)
Close ==
  /\ \A c \in Callers : Ended(c) \/ caller[c].rqs = <<>>
  /\ pool \in {"idle", "running"}
  /\ pool' = IF pool = "idle" THEN "closed" ELSE "closing"
  /\ UNCHANGED <<caller, queue, worker>>

Join ==
  /\ pool = "closing" /\ \A w \in Workers : worker[w].pc = "ended"
  /\ pool' = "closed"
  /\ UNCHANGED <<caller, queue, worker>>

CallerStep(c) == RunInline(c) \/ Send(c) \/ OwnPart(c) \/ Collect(c)
WorkerStep(w) == TakeJob(w) \/ RunJob(w) \/ EndWorker(w)

PoolNext ==
  \/ \E c \in Callers : Begin(c) \/ CallerStep(c)
  \/ \E w \in Workers : WorkerStep(w)
  \/ Close \/ Join

-----------------------------------------------------------------------------
(* Calls alone, whatever their parts find                                  *)
PoolSpec ==
  /\ PoolInit
  /\ \E rqs, parts :
       /\ \A c \in Callers : \E results : parts[c] \in Seq(results)
       /\ caller = [c \in Callers |-> Idle(rqs[c], parts[c])]
  /\ [][PoolNext]_poolVars

MergesAllParts(c) ==
  LET parts == caller[c].parts
  IN \/ caller[c].outcome = parts /\ \A i \in DOMAIN parts : ~Bad(parts[i])
     \/ \E i \in DOMAIN parts : Bad(parts[i]) /\ caller[c].outcome = parts[i]

(* A search that returns has merged the result of every part, each once    *)
(* and in its place, and no part of it failed; one that fails or panics    *)
(* does so because a part of it did.                                       *)
AnswersMergeAllParts == \A c \in Callers : Ended(c) => MergesAllParts(c)

(* A caller that waits for a result has one to come: it is in its channel, *)
(* or its job is with a worker or in the queue of a pool whose workers all *)
(* live.  No result is lost when a job panics or another caller gives up.  *)
NobodyWaitsInVain ==
  \A c \in Callers : caller[c].pc = "recv" =>
    /\ pool = "running" /\ \A w \in Workers : worker[w].pc \in {"recv", "run"}
    /\ \/ caller[c].channel # <<>>
       \/ \E i \in DOMAIN queue : queue[i].caller = c
       \/ \E w \in Workers : worker[w].pc = "run" /\ worker[w].job.caller = c

(* Closing waits for the jobs that a caller left behind, and no call meets *)
(* a pool that is closing.                                                 *)
ClosedPoolIsDrained ==
  /\ pool \in {"closing", "closed"} =>
       \A c \in Callers : Ended(c) \/ caller[c].rqs = <<>>
  /\ pool = "closed" => queue = <<>> /\ \A w \in Workers : worker[w].pc # "run"
=============================================================================
