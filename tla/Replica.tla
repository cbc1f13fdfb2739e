------------------------------- MODULE Replica -------------------------------
(***************************************************************************)
(* hamane-server/src/replica.rs and the follower parts of the store: the   *)
(* loop that polls a primary, copies the generation it names and tails its *)
(* active WAL.  Every request is a step, so the primary goes on between    *)
(* them; requests and local writes may fail, and the replica may die after *)
(* each step and is opened again.                                          *)
(*                                                                         *)
(* Content is a set of records.  Logs are counted in whole frames behind   *)
(* their magic: what has arrived of a frame in part waits in               *)
(* ReplicaSync::pending, without effect, for the rest.                     *)
(***************************************************************************)
EXTENDS Primary

CONSTANTS
    MaxTroubles  \* bound: failed requests, failed local writes, deaths, reboots

ASSUME ReplicaAssumption == MaxTroubles \in Nat

VARIABLES
    rcur,      \* the generation the replica's CURRENT names
    rgen,      \* the generation in memory
    rsegs,     \* segment -> what the local directory has of it
    rwal,      \* local WAL files: [head, len, torn, twice]
    seen,      \* the records the state in memory has
    at,        \* where sync_once is
    want,      \* the answer of /replication/state
    todo,      \* segments of the new manifest still to look at
    walSeq,    \* ReplicaSync::wal_seq, or 0
    fileLen,   \* ReplicaSync::file_len
    head,      \* the magic of that log: "none" fetched, "held" in pending, "written"
    fetched,   \* whole frames in ReplicaSync::pending
    broken,    \* history: what failed on the replica: "segment", "append", "apply"
    troubles   \* failed requests and local writes, deaths

replVars == <<rcur, rgen, rsegs, rwal, seen, at, want, todo, walSeq, fileLen, head, fetched,
              broken, troubles>>
vars == <<primVars, replVars>>

NoAnswer == [gen |-> 0, seq |-> 0]

\* "bare": the file is there, but not its magic
NoLog == [head |-> "none", len |-> 0, torn |-> FALSE, twice |-> 0]

Init ==
    /\ PrimInit
    /\ rcur = 0 /\ rgen = 0
    /\ rsegs = [s \in Seg |-> "none"]
    /\ rwal = [f \in Wal |-> NoLog]
    /\ seen = {}
    /\ at = "idle"
    /\ want = NoAnswer
    /\ todo = {}
    /\ walSeq = 0 /\ fileLen = 0 /\ head = "none" /\ fetched = 0
    /\ broken = {}
    /\ troubles = 0

----------------------------------------------------------------------------
(* Store::load_state on the replica's directory *)

\* The frames of the local logs that a replay reads: it ends at a torn one.
Replayed(covered) ==
    UNION {{Frame(f, i) : i \in 1..rwal[f].len} : f \in (covered + 1)..MaxWal}

\* Mutant: as docs/design/replication.md has it, the memtable is thrown away.
LoadedWithoutLogs == UpTo(manifests[rcur].walSeq)

Loaded == UpTo(manifests[rcur].walSeq) \cup Replayed(manifests[rcur].walSeq)

\* Segment::open needs its files, WalReader::read_all its magic, and a record
\* its collection, unless it drops it.
Opens ==
    /\ \A s \in manifests[rcur].segs : rsegs[s] \in {"bare", "whole"}
    /\ \A f \in Wal : f > manifests[rcur].walSeq => rwal[f].head # "bare"
    /\ \A r \in Replayed(manifests[rcur].walSeq) :
          \/ hist[r].drop
          \/ hist[r].col \in manifests[rcur].cols \cup Replayed(manifests[rcur].walSeq)

\* ... and what it leaves of the files
Load ==
    /\ rgen' = rcur
    /\ seen' = Loaded
    /\ rsegs' = [s \in Seg |-> IF s \in manifests[rcur].segs THEN rsegs[s] ELSE "none"]
    /\ rwal' = [f \in Wal |-> IF f <= manifests[rcur].walSeq THEN NoLog
                              ELSE [rwal[f] EXCEPT !.torn = FALSE]]
    /\ walSeq' = 0 /\ fileLen' = 0 /\ head' = "none" /\ fetched' = 0

----------------------------------------------------------------------------
(* ReplicaSync::sync_once *)

LocalFilesUnchanged == UNCHANGED <<rcur, rgen, rsegs, rwal, seen>>
TailUnchanged == UNCHANGED <<walSeq, fileLen, head, fetched>>
NothingFails == UNCHANGED <<broken, troubles>>
Goes(place) == at' = place /\ UNCHANGED <<want, todo>>
EndPoll == at' = "idle" /\ want' = NoAnswer /\ todo' = {}

Fails == troubles' = troubles + 1

\* replication_state: CURRENT first,
AskGen ==
    /\ at = "idle"
    /\ want' = [gen |-> gen, seq |-> 0]
    /\ at' = "state"
    /\ UNCHANGED todo /\ LocalFilesUnchanged /\ TailUnchanged /\ NothingFails

\* ... then the WAL directory
AskSeq ==
    /\ at = "state"
    /\ want' = [want EXCEPT !.seq = active]
    /\ at' = IF want.gen > rgen THEN "manifest" ELSE "tail"
    /\ UNCHANGED todo /\ LocalFilesUnchanged /\ TailUnchanged /\ NothingFails

\* Mutant: an error ends the thread.
RequestFailsForGood ==
    /\ at \in {"manifest", "segments", "tail"}
    /\ Fails
    /\ Goes("ended")
    /\ UNCHANGED broken /\ LocalFilesUnchanged /\ TailUnchanged

\* A request is lost: the loop logs the error and polls again.
RequestFails ==
    /\ at \in {"manifest", "segments", "tail"}
    /\ Fails
    /\ EndPoll
    /\ UNCHANGED broken /\ LocalFilesUnchanged /\ TailUnchanged

\* snapshot_sync: the manifest of that generation, or a 404
GetManifest ==
    /\ at = "manifest"
    /\ IF ManifestThere(want.gen)
       THEN at' = "segments" /\ todo' = manifests[want.gen].segs /\ UNCHANGED want
       ELSE EndPoll
    /\ LocalFilesUnchanged /\ TailUnchanged /\ NothingFails

\* Files that exist are not fetched, whatever is in them.
SkipSegment(s) ==
    /\ at = "segments" /\ s \in todo
    /\ rsegs[s] \in {"torn", "whole"}
    /\ todo' = todo \ {s}
    /\ UNCHANGED <<at, want>> /\ LocalFilesUnchanged /\ TailUnchanged /\ NothingFails

SegmentBecomes(s, state) == rsegs' = [rsegs EXCEPT ![s] = state]

\* Mutant: a 404 for one of the four is taken like one for the others.
GetRequiredLax(s) ==
    /\ at = "segments" /\ s \in todo
    /\ rsegs[s] = "none"
    /\ IF SegmentThere(s)
       THEN SegmentBecomes(s, "bare") /\ UNCHANGED todo
       ELSE todo' = todo \ {s} /\ UNCHANGED rsegs
    /\ UNCHANGED <<rcur, rgen, rwal, seen, at, want>> /\ TailUnchanged /\ NothingFails

\* The four files every segment has.  A 404 gives the snapshot up.
GetRequired(s) ==
    /\ at = "segments" /\ s \in todo
    /\ rsegs[s] = "none"
    /\ IF SegmentThere(s)
       THEN SegmentBecomes(s, "bare") /\ Goes("segments")
       ELSE EndPoll /\ UNCHANGED rsegs
    /\ UNCHANGED <<rcur, rgen, rwal, seen>> /\ TailUnchanged /\ NothingFails

\* Mutant: any error skips the file.
GetOptionalLax(s) ==
    /\ at = "segments" /\ s \in todo
    /\ rsegs[s] = "bare"
    /\ \/ SegmentThere(s) /\ SegmentBecomes(s, "whole")
       \/ UNCHANGED rsegs
    /\ todo' = todo \ {s}
    /\ UNCHANGED <<rcur, rgen, rwal, seen, at, want>> /\ TailUnchanged /\ NothingFails

\* Index and quantization files.  Which ones a segment has is not known: a 404
\* means that it has none, or that it has been compacted away meanwhile.
GetOptional(s) ==
    /\ at = "segments" /\ s \in todo
    /\ rsegs[s] = "bare"
    /\ IF SegmentThere(s) THEN SegmentBecomes(s, "whole") ELSE UNCHANGED rsegs
    /\ todo' = todo \ {s}
    /\ UNCHANGED <<rcur, rgen, rwal, seen, at, want>> /\ TailUnchanged /\ NothingFails

\* write_durable writes the file in its place: when it fails, a part is left.
SegmentWriteFails(s) ==
    /\ at = "segments" /\ s \in todo
    /\ rsegs[s] \in {"none", "bare"} /\ SegmentThere(s)
    /\ Fails
    /\ SegmentBecomes(s, "torn")
    /\ broken' = broken \cup {"segment"}
    /\ EndPoll
    /\ UNCHANGED <<rcur, rgen, rwal, seen>> /\ TailUnchanged

\* The manifest, CURRENT.tmp and the rename
SwitchCurrent ==
    /\ at = "segments" /\ todo = {}
    /\ rcur' = want.gen
    /\ Goes("switch")
    /\ UNCHANGED <<rgen, rsegs, rwal, seen>> /\ TailUnchanged /\ NothingFails

\* Store::switch_generation; on an error the state in memory stays
SwitchGeneration ==
    /\ at = "switch"
    /\ IF Opens
       THEN Load /\ Goes("tail")
       ELSE EndPoll /\ TailUnchanged /\ UNCHANGED <<rgen, rsegs, rwal, seen>>
    /\ UNCHANGED rcur /\ NothingFails

----------------------------------------------------------------------------
(* ReplicaSync::tail_sync *)

\* metadata().len() of a local log, in frames
LocalLen(f) == rwal[f].len + rwal[f].twice

\* What a poll goes on with: the same log, or one tailed for the first time,
\* which goes on after what the local file has
Again == walSeq = want.seq
Begun == IF Again THEN head ELSE IF rwal[want.seq].head = "whole" THEN "written" ELSE "none"

\* Mutant: the length of the log tailed before is kept.
GetTailKeepsLength ==
    /\ at = "tail"
    /\ walSeq' = want.seq
    /\ UNCHANGED fileLen
    /\ LET held == IF Again THEN fetched ELSE 0
           here == Frames(want.seq)
       IN  IF WalThere(want.seq) /\ (Begun = "none" \/ here > fileLen + held)
           THEN /\ fetched' = IF here > fileLen THEN here - fileLen ELSE 0
                /\ head' = IF Begun = "written" THEN "written" ELSE "held"
                /\ Goes(IF Begun = "written" THEN "apply" ELSE "create")
           ELSE fetched' = held /\ head' = Begun /\ EndPoll
    /\ LocalFilesUnchanged /\ NothingFails

\* Nothing new, or a 404, ends the poll, also when magic or frames are held back.
GetTail ==
    /\ at = "tail"
    /\ walSeq' = want.seq
    /\ fileLen' = IF Again THEN fileLen ELSE LocalLen(want.seq)
    /\ LET held == IF Again THEN fetched ELSE 0
           here == Frames(want.seq)
       IN  IF WalThere(want.seq) /\ (Begun = "none" \/ here > fileLen' + held)
           THEN /\ fetched' = here - fileLen'
                /\ head' = IF Begun = "written" THEN "written" ELSE "held"
                /\ Goes(IF Begun = "written" THEN "apply" ELSE "create")
           ELSE fetched' = held /\ head' = Begun /\ EndPoll
    /\ LocalFilesUnchanged /\ NothingFails

\* append_durable of the magic: the file is created,
CreateLog ==
    /\ at = "create"
    /\ rwal' = [rwal EXCEPT ![walSeq].head = IF @ = "none" THEN "bare" ELSE @]
    /\ Goes("magic")
    /\ UNCHANGED <<rcur, rgen, rsegs, seen>> /\ TailUnchanged /\ NothingFails

\* ... and written.  Behind a part of a magic it does not count, and behind a
\* whole one it is a torn frame.
MagicAppended ==
    [rwal EXCEPT ![walSeq].head = IF rwal[walSeq].torn THEN @ ELSE "whole",
                 ![walSeq].torn = @ \/ rwal[walSeq].head = "whole"]

WriteMagic ==
    /\ at = "magic"
    /\ rwal' = MagicAppended
    /\ head' = "written"
    /\ IF fetched = 0 THEN EndPoll ELSE Goes("apply")
    /\ UNCHANGED <<rcur, rgen, rsegs, seen, walSeq, fileLen, fetched>> /\ NothingFails

\* It fails before, in or after either, and the magic stays in pending.
MagicFails ==
    /\ at \in {"create", "magic"}
    /\ Fails
    /\ broken' = broken \cup {"append"}
    /\ \/ UNCHANGED rwal
       \/ at = "magic" /\ rwal' = [rwal EXCEPT ![walSeq].torn = TRUE]
       \/ at = "magic" /\ rwal' = MagicAppended
    /\ EndPoll
    /\ UNCHANGED <<rcur, rgen, rsegs, seen>> /\ TailUnchanged

FetchedRecords == {Frame(walSeq, fileLen + i) : i \in 1..fetched}

\* The collections in memory: those of the generation, those of the records
\* applied since, without the dropped ones
Known ==
    {c \in manifests[rgen].cols \cup {r \in seen : FileOf(r) > manifests[rgen].walSeq} :
        \A d \in seen : hist[d].drop => hist[d].col # c}

\* The records before the first one whose collection is not known
Applicable ==
    {r \in FetchedRecords :
        \A q \in FetchedRecords :
            q <= r => hist[q].drop \/ hist[q].col \in Known \cup FetchedRecords}

\* apply_wal_frames: memory before disk.
ApplyFrames ==
    /\ at = "apply"
    /\ Applicable = FetchedRecords
    /\ seen' = seen \cup FetchedRecords
    /\ Goes("append")
    /\ UNCHANGED <<rcur, rgen, rsegs, rwal>> /\ TailUnchanged /\ NothingFails

\* A record that cannot be applied is an error: those before it stay applied,
\* nothing is appended, and the next poll tries again.
ApplyFails ==
    /\ at = "apply"
    /\ Applicable # FetchedRecords
    /\ seen' = seen \cup Applicable
    /\ broken' = broken \cup {"apply"}
    /\ EndPoll
    /\ UNCHANGED <<rcur, rgen, rsegs, rwal, troubles>> /\ TailUnchanged

\* append_durable: behind a torn frame nothing is read again.
AppendFrames ==
    /\ at = "append"
    /\ rwal' = [rwal EXCEPT ![walSeq].len = IF rwal[walSeq].torn THEN @ ELSE fileLen + fetched]
    /\ fileLen' = fileLen + fetched
    /\ fetched' = 0
    /\ EndPoll
    /\ UNCHANGED <<rcur, rgen, rsegs, seen, walSeq, head>> /\ NothingFails

\* It fails before, in or after the write, and the frames stay in pending.
AppendFails ==
    /\ at = "append"
    /\ Fails
    /\ broken' = broken \cup {"append"}
    /\ \/ UNCHANGED rwal
       \/ rwal' = [rwal EXCEPT ![walSeq].torn = TRUE]
       \/ /\ ~rwal[walSeq].torn
          /\ rwal' = [rwal EXCEPT ![walSeq].len = fileLen + fetched, ![walSeq].twice = @ + fetched]
    /\ EndPoll
    /\ UNCHANGED <<rcur, rgen, rsegs, seen>> /\ TailUnchanged

----------------------------------------------------------------------------
(* The replica dies, in the middle of a write too, and is opened again *)

Die ==
    /\ at # "dead"
    /\ Fails
    /\ IF Opens
       THEN Load /\ EndPoll
       ELSE Goes("dead") /\ TailUnchanged /\ UNCHANGED <<rgen, rsegs, rwal, seen>>
    /\ UNCHANGED <<rcur, broken>>

Sync ==
    \/ AskGen \/ AskSeq \/ GetManifest
    \/ \E s \in Seg : SkipSegment(s) \/ GetRequired(s) \/ GetOptional(s)
    \/ SwitchCurrent \/ SwitchGeneration
    \/ GetTail \/ CreateLog \/ WriteMagic \/ ApplyFrames \/ ApplyFails \/ AppendFrames

Faults ==
    \/ RequestFails \/ MagicFails \/ AppendFails
    \/ \E s \in Seg : SegmentWriteFails(s)
    \/ Die

TroublesBounded == troubles' + reboots' <= MaxTroubles

Next ==
    /\ \/ PrimStep /\ UNCHANGED replVars
       \/ (Sync \/ Faults) /\ UNCHANGED primVars
    /\ TroublesBounded

\* The loop of ReplicaSync::run polls for ever.
Spec == Init /\ [][Next]_vars /\ WF_vars(UNCHANGED primVars /\ Sync)

----------------------------------------------------------------------------
(* Properties *)

\* The replica has all that its generation covers, and of every later log a
\* first part: what it misses is the end of logs it has left.
MissesOnlyEnds ==
    "append" \notin broken =>
        \A r \in Logged \ seen :
            /\ FileOf(r) > manifests[rgen].walSeq
            /\ \A q \in seen : FileOf(q) = FileOf(r) => q < r

\* As long as no local write failed and every record that was fetched could be
\* applied, the replica can be opened again at any moment, and then has what it
\* has in memory: CURRENT names a complete generation whatever the primary
\* deletes during the copy.  Two moments are excepted: between the creation of a
\* local log and its magic, and after the primary committed a generation without
\* a collection that a later log still writes to.
ReopensTheSame ==
    broken = {} /\ at \notin {"magic", "dead"} /\ ~DropRaced =>
        /\ Opens
        /\ at \notin {"append", "switch"} /\ fetched = 0 => Loaded = seen

\* A segment whose index files the replica went without is one that the primary
\* has compacted away: the next generation does not have it.
MissingIndexIsSuperseded ==
    at \in {"idle", "state", "manifest"} =>
        \A s \in manifests[rgen].segs : rsegs[s] = "bare" => s \notin segDirs

\* What a reader of the replica has seen does not disappear when it changes
\* over to another generation, as long as no local write failed and every record
\* that was fetched could be applied: a record that cannot be applied leaves the
\* ones before it in memory and not on disk.
NeverGoesBack == [][broken = {} /\ ~Die => seen \subseteq seen']_vars

\* A local log that is not covered has no magic.
Headless == \E f \in Wal : f > manifests[rcur].walSeq /\ rwal[f].head = "bare"

\* What the generation of the primary covers reaches the replica, whatever it
\* missed or could not apply before, once the primary pauses for long enough (as
\* its bounds make it do in the end).  Three things stop it: a segment file
\* written in part, which is never fetched again; a local log whose magic could
\* not be written, until a generation covers it; and a generation without a
\* collection that a later log still writes to, until one covers that log.
CoveredArrives ==
    []<>(\/ UpTo(manifests[gen].walSeq) \subseteq seen
         \/ at = "dead"
         \/ "segment" \in broken
         \/ "append" \in broken /\ Headless
         \/ Orphans(gen) # {})

\* docs/design/replication.md: "the state of the replica is always one that the
\* primary had at some moment".
PrefixConsistent == \A r \in seen : \A q \in Logged : q < r => q \in seen
==============================================================================
