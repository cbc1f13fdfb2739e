-------------------------------- MODULE Calls --------------------------------
(***************************************************************************)
(* The calls of a Collection (hamane/src/collection.rs) by several threads *)
(* over the collection of module Collection.  A call is made of critical   *)
(* sections of the store with nothing held in between: string ids are      *)
(* resolved in one and used in another, a walk reads a view and the writes *)
(* that follow from it come later, page by page.                           *)
(*                                                                         *)
(* In an instance the store is either used by clients that write single    *)
(* records at will (free) or by threads that make the calls of a script.   *)
(***************************************************************************)
EXTENDS Collection, SequencesExt

CONSTANTS
    Thread,
    ExtBase,      \* EXT_ID_BASE: the internal ids of strings start here
    NoExt,        \* metadata without "_ext_id"
    Filter,       \* filters and settings, [key, value]
    Setting,
    ScanChunk,    \* limit of a page; the CHUNK of update_meta_by_filter
    DeleteChunk,  \* the CHUNK of delete_by_filter
    Scripts,      \* [free, todo], todo: Thread -> sequence of calls
    FreeIds,      \* bound: the ids and records of the clients that write at
    FreeRecords,  \*   will
    MaxReopens    \* bound: crashes and reopens

ASSUME CallsAssumption ==
    /\ Id \subseteq Nat /\ ExtBase \in Id /\ MaxReopens \in Nat
    /\ {ScanChunk, DeleteChunk} \subseteq Nat \ {0}

Patch(metadata, set) == [metadata EXCEPT ![set.key] = set.value]

\* Metadata is a record: "ext" is _ext_id, the other fields are user keys.
Ext == {m.ext : m \in Metadata} \ {NoExt}
PlainRecord == {rec \in Record : rec.metadata.ext = NoExt}
UserId == {id \in Id : id < ExtBase}

\* _ext_id is reserved, in rows (record.rs) and in updates (MetaUpdate::run).
ASSUME MetadataAssumption ==
    /\ \A m \in Metadata :
          /\ "ext" \in DOMAIN m
          /\ \A s \in Ext : [m EXCEPT !.ext = s] \in Metadata
          /\ \A set \in Setting : Patch(m, set) \in Metadata
    /\ \A set \in Setting : set.key # "ext"
    /\ FreeIds \subseteq UserId /\ FreeRecords \subseteq PlainRecord

RecordId == [num : Id] \cup [str : Ext]

\* The calls of a script: rows are written under numbers below ExtBase.
Request ==
    [kind : {"upsert"}, rows : Seq([rid : [num : UserId] \cup [str : Ext], rec : PlainRecord])]
    \cup [kind : {"get", "delete"}, rid : RecordId]
    \cup [kind : {"update"}, rid : RecordId, set : Setting]
    \cup [kind : {"pages", "deleteAll"}, filter : Filter]
    \cup [kind : {"updateAll"}, filter : Filter, set : Setting]

ASSUME ScriptsAssumption ==
    \A s \in Scripts :
        /\ s.free \in BOOLEAN /\ s.todo \in [Thread -> Seq(Request)]
        /\ s.free => \A t \in Thread : s.todo[t] = <<>>

VARIABLES
    script,    \* of Scripts
    made,      \* how many calls of the script each thread has begun
    call,      \* where the call of each thread is
    extIds,    \* CollectionState::ext_ids
    nextExt,   \* CollectionState::next_ext_id
    reopens

callVars == <<script, made, call, extIds, nextExt, reopens>>
allVars == <<vars, callVars>>

\* RecordId, and record_id_of: a string when the metadata names one
Num(n) == [num |-> n]
Str(s) == [str |-> s]
IsStr(rid) == "str" \in DOMAIN rid
RecordIdOf(id, metadata) == IF metadata.ext = NoExt THEN Num(id) ELSE Str(metadata.ext)

\* resolve_ext_id: the id of a string, if it has one; a number is itself
Resolved(rid) ==
    IF ~IsStr(rid) THEN {rid.num}
    ELSE IF rid.str \in DOMAIN extIds THEN {extIds[rid.str]} ELSE {}

\* A thread between two calls, and the locals of a call: `at' is the record
\* it reads or the cursor of its walk, `left' what it has still to resolve and
\* `done' what it has gathered, by id.  History of a walk: `kept' are the
\* records it has to meet, `seen' those it met, `again' those it met twice.
Start == Num(-1)
NoRows == [id \in {} |-> NoRecord]
Resting == [pc |-> "idle", at |-> Start, left |-> <<>>, done |-> NoRows,
            seen |-> {}, again |-> {}, kept |-> {}]
Ended == [Resting EXCEPT !.pc = "ended"]

\* The call that t makes, or made last
Op(t) == script.todo[t][made[t]]
At(t, pc, kinds) == call[t].pc = pc /\ Op(t).kind \in kinds

Passes(filter, id) ==
    IsIdLive(Current, id) /\ Lookup(Current, id).metadata[filter.key] = filter.value

CallsInit ==
    /\ Init
    /\ script \in Scripts /\ made = [t \in Thread |-> 0]
    /\ call = [t \in Thread |-> Resting]
    /\ extIds = NoRows /\ nextExt = ExtBase
    /\ reopens = 0

----------------------------------------------------------------------------
(* The writes of a batch, one critical section each *)

LiveAmong(ids) == {id \in ids : IsIdLive(Current, id)}

WithRows(rows) ==
    [upserts |-> [id \in Id |-> IF id \in DOMAIN rows THEN rows[id] ELSE active.upserts[id]],
     deletes |-> active.deletes \ DOMAIN rows]

\* upsert_batch
UpsertBatch(rows) ==
    /\ liveLen' = liveLen + Cardinality(DOMAIN rows \ LiveAmong(DOMAIN rows))
    /\ Install(WithRows(rows))
    /\ UNCHANGED <<segments, maint>>

\* delete_batch
DeleteBatch(ids) ==
    IF ids = {} THEN UNCHANGED vars
    ELSE /\ liveLen' = liveLen - Cardinality(LiveAmong(ids))
         /\ Install([upserts |-> [id \in Id |-> IF id \in ids THEN NoRecord ELSE active.upserts[id]],
                     deletes |-> active.deletes \cup ids])
         /\ UNCHANGED <<segments, maint>>

\* Mutant: the records are written as they were read.
UpdateAsRead(recs) == UpsertBatch(recs)

\* update_metadata_batch: a record that is gone is left out, and the vector
\* is the current one, not the one that was read.
UpdateBatch(recs) ==
    \E targets \in {LiveAmong(DOMAIN recs)} :
        IF targets = {} THEN UNCHANGED vars
        ELSE /\ Install(WithRows([id \in targets |->
                    [vector |-> Lookup(Current, id).vector, metadata |-> recs[id].metadata]]))
             /\ UNCHANGED <<segments, liveLen, maint>>

\* The call of t goes on at `to'; a record written now is not one that was
\* left alone while another call walks over the collection.
Goto(t, to, written) ==
    call' = [u \in Thread |->
        IF u = t THEN to ELSE [call[u] EXCEPT !.kept = @ \ written]]

----------------------------------------------------------------------------
(* Beginning and ending *)

Walks == {"pages", "updateAll", "deleteAll"}

\* A call of the script.  A walk has to meet what passes its filter now and
\* is written by nobody else until it ends.
Begin(t) ==
    /\ made[t] < Len(script.todo[t]) /\ call[t].pc \in {"idle", "ended"}
    /\ made' = [made EXCEPT ![t] = @ + 1]
    /\ LET c == script.todo[t][made[t] + 1]
       IN  call' = [call EXCEPT ![t] =
             CASE c.kind \in {"upsert", "get", "update"} -> [Resting EXCEPT !.pc = "begun"]
               [] c.kind = "delete" ->
                    [Resting EXCEPT !.pc = "resolve", !.left = <<[rid |-> c.rid, rec |-> NoRecord]>>]
               [] OTHER -> [Resting EXCEPT !.pc = "walk",
                                           !.kept = {id \in Id : Passes(c.filter, id)}]]
    /\ UNCHANGED <<vars, script, extIds, nextExt, reopens>>

----------------------------------------------------------------------------
(* upsert_batch_records *)

\* Mutant: a string that has an id gets another one.
FreshAgain(batch) ==
    {i \in DOMAIN batch : IsStr(batch[i].rid) /\ \A j \in 1..(i - 1) : batch[j].rid # batch[i].rid}

\* The rows of a batch that bring a string without an id
Fresh(batch) ==
    {i \in DOMAIN batch :
        /\ IsStr(batch[i].rid) /\ batch[i].rid.str \notin DOMAIN extIds
        /\ \A j \in 1..(i - 1) : batch[j].rid # batch[i].rid}

\* The number of earlier elements
Rank(S, x) == Cardinality({y \in S : y < x})

\* Row by row they get the next ids.
Allot(batch) ==
    LET fresh == Fresh(batch)
        strings == {batch[i].rid.str : i \in fresh}
        row(s) == CHOOSE i \in fresh : batch[i].rid.str = s
    IN  [s \in DOMAIN extIds \cup strings |->
            IF s \in strings THEN nextExt + Rank(fresh, row(s)) ELSE extIds[s]]

\* First critical section: all ids of the batch.  A row of a string carries
\* it as _ext_id; of two rows for an id the later one counts.  Bound: no
\* more strings than Id has numbers for.
UpsertResolve(t) ==
    /\ At(t, "begun", {"upsert"})
    /\ LET batch == Op(t).rows
           known == Allot(batch)
           idOf(r) == IF IsStr(r.rid) THEN known[r.rid.str] ELSE r.rid.num
           row(r) == IF IsStr(r.rid) THEN [r.rec EXCEPT !.metadata.ext = r.rid.str] ELSE r.rec
           last(id) == CHOOSE i \in DOMAIN batch :
                         /\ idOf(batch[i]) = id
                         /\ \A j \in DOMAIN batch : idOf(batch[j]) = id => j <= i
           ids == {idOf(batch[i]) : i \in DOMAIN batch}
       IN  /\ ids \subseteq Id
           /\ extIds' = known /\ nextExt' = nextExt + Cardinality(Fresh(batch))
           /\ call' = [call EXCEPT ![t] =
                [Resting EXCEPT !.pc = "write", !.done = [id \in ids |-> row(batch[last(id)])]]]
    /\ UNCHANGED <<vars, script, made, reopens>>

\* Second: the rows, and track_ext_id for those of a string
UpsertWrite(t) ==
    /\ At(t, "write", {"upsert"})
    /\ LET rows == call[t].done
           named == {id \in DOMAIN rows : rows[id].metadata.ext # NoExt}
           exts == {rows[id].metadata.ext : id \in named}
           idOf(s) == CHOOSE id \in named : rows[id].metadata.ext = s
       IN  /\ UpsertBatch(rows)
           /\ extIds' = [s \in DOMAIN extIds \cup exts |-> IF s \in exts THEN idOf(s) ELSE extIds[s]]
           /\ nextExt' = Max({nextExt} \cup {id + 1 : id \in named})
           /\ Goto(t, Ended, DOMAIN rows)
    /\ UNCHANGED <<script, made, reopens>>

----------------------------------------------------------------------------
(* Reads by id *)

\* get, and apply_meta_patch of update_meta: the id is resolved in one
\* critical section ...
ResolveGet(t) ==
    /\ At(t, "begun", {"get", "update"})
    /\ \/ /\ Resolved(Op(t).rid) = {}
          /\ call' = [call EXCEPT ![t] = Ended]
       \/ \E id \in Resolved(Op(t).rid) :
             call' = [call EXCEPT ![t] = [Resting EXCEPT !.pc = "view", !.at = Num(id)]]
    /\ UNCHANGED <<vars, script, made, extIds, nextExt, reopens>>

\* ... and the record read from a view taken in another one: the answer of
\* get; update_meta goes on with a patched copy.
ViewGet(t) ==
    /\ At(t, "view", {"get", "update"})
    /\ LET id == call[t].at.num
           rec == Lookup(Current, id)
       IN  \/ /\ rec = NoRecord
              /\ call' = [call EXCEPT ![t] = Ended]
           \/ /\ rec # NoRecord /\ Op(t).kind = "get"
              /\ call' = [call EXCEPT ![t] = [Ended EXCEPT !.done = [x \in {id} |-> rec]]]
           \/ /\ rec # NoRecord /\ Op(t).kind = "update"
              /\ call' = [call EXCEPT ![t] = [Resting EXCEPT !.pc = "resolve",
                   !.left = <<[rid |-> Op(t).rid,
                               rec |-> [rec EXCEPT !.metadata = Patch(@, Op(t).set)]]>>]]
    /\ UNCHANGED <<vars, script, made, extIds, nextExt, reopens>>

----------------------------------------------------------------------------
(* Walks *)

\* Mutant: the record of the cursor itself comes again.
MatchingFromCursor(filter, after) == {id \in Id : id >= after /\ Passes(filter, id)}

\* walk: the records of a view that pass the filter, after the cursor
Matching(filter, after) == {id \in Id : id > after /\ Passes(filter, id)}

\* They come in the order of ids, no more than limit.
FirstOf(matching, limit) == {id \in matching : Rank(matching, id) < limit}
Page(matching, limit) ==
    LET first == FirstOf(matching, limit)
    IN  [i \in 1..Cardinality(first) |-> CHOOSE id \in first : Rank(first, id) = i - 1]

RidOf(id) == RecordIdOf(id, Lookup(Current, id).metadata)

\* The records of a page with what is to be written of them
Items(c, page) ==
    [i \in DOMAIN page |->
        [rid |-> RidOf(page[i]),
         rec |-> IF c.kind = "updateAll"
                 THEN [Lookup(Current, page[i]) EXCEPT !.metadata = Patch(@, c.set)]
                 ELSE Lookup(Current, page[i])]]

WalkEnds(w) == [w EXCEPT !.pc = "ended", !.at = Start]

\* Where the call c goes with a page: it ends with an empty one, a scan answers
\* with it, and its records are what the other two write; the cursor is its
\* last record, but delete_by_filter always starts at the first.
WalkTo(w, c, page) ==
    IF page = <<>> THEN WalkEnds(w)
    ELSE [w EXCEPT !.pc = IF c.kind = "pages" THEN "cursor" ELSE "resolve",
                   !.left = IF c.kind = "pages" THEN <<>> ELSE Items(c, page),
                   !.at = IF c.kind = "deleteAll" THEN Start ELSE RidOf(Last(page)),
                   !.seen = @ \cup ToSet(page),
                   !.again = @ \cup (w.seen \cap ToSet(page))]

ChunkOf(c) == IF c.kind = "deleteAll" THEN DeleteChunk ELSE ScanChunk

\* Mutant: every page is the first one.
WalkFromStart(t) ==
    /\ At(t, "walk", Walks)
    /\ \E page \in {Page(Matching(Op(t).filter, -1), ChunkOf(Op(t)))} :
          call' = [call EXCEPT ![t] = WalkTo(@, Op(t), page)]
    /\ UNCHANGED <<vars, script, made, extIds, nextExt, reopens>>

\* One page of scan() or one chunk of delete_by_filter
Walk(t) ==
    /\ At(t, "walk", Walks)
    /\ \E page \in {Page(Matching(Op(t).filter, call[t].at.num), ChunkOf(Op(t)))} :
          call' = [call EXCEPT ![t] = WalkTo(@, Op(t), page)]
    /\ UNCHANGED <<vars, script, made, extIds, nextExt, reopens>>

\* ScanBuilder::run with a cursor: a string that has no id is after all
\* records.
Cursor(t) ==
    /\ At(t, "cursor", Walks)
    /\ LET ids == Resolved(call[t].at)
       IN  call' = [call EXCEPT ![t] =
             IF ids = {} THEN WalkEnds(@)
             ELSE [@ EXCEPT !.pc = "walk", !.at = Num(CHOOSE id \in ids : TRUE)]]
    /\ UNCHANGED <<vars, script, made, extIds, nextExt, reopens>>

----------------------------------------------------------------------------
(* write_metadata_batch, delete_batch, delete: the ids are resolved one by *)
(* one, each in its own critical section, and then written in one.         *)

ResolveNext(t) ==
    /\ call[t].pc = "resolve" /\ call[t].left # <<>>
    /\ LET c == call[t]
           item == Head(c.left)
           ids == Resolved(item.rid)
           done == [x \in DOMAIN c.done \cup ids |-> IF x \in ids THEN item.rec ELSE c.done[x]]
       IN  call' = [call EXCEPT ![t] = [c EXCEPT !.left = Tail(c.left), !.done = done]]
    /\ UNCHANGED <<vars, script, made, extIds, nextExt, reopens>>

\* What follows the write of a call
Resume(w, to) == [w EXCEPT !.pc = to, !.done = NoRows]

DeleteWrite(t) ==
    /\ At(t, "resolve", {"delete", "deleteAll"}) /\ call[t].left = <<>>
    /\ DeleteBatch(DOMAIN call[t].done)
    /\ Goto(t, IF Op(t).kind = "delete" THEN Ended ELSE Resume(call[t], "walk"), DOMAIN call[t].done)
    /\ UNCHANGED <<script, made, extIds, nextExt, reopens>>

UpdateWrite(t) ==
    /\ At(t, "resolve", {"update", "updateAll"}) /\ call[t].left = <<>>
    /\ UpdateBatch(call[t].done)
    /\ Goto(t, IF Op(t).kind = "update" THEN Ended ELSE Resume(call[t], "cursor"), DOMAIN call[t].done)
    /\ UNCHANGED <<script, made, extIds, nextExt, reopens>>

----------------------------------------------------------------------------
(* A crash, or a close, and the next open: the calls are gone, and the     *)
(* dictionary has the live rows of the segments and whatever upserts the   *)
(* logs still hold (scan_segments, apply_record): every live record and    *)
(* perhaps some that are deleted.  The records survive (module Store).     *)
Reopen ==
    /\ ~script.free /\ reopens < MaxReopens
    /\ reopens' = reopens + 1
    /\ call' = [t \in Thread |-> Resting]
    /\ LET named == {id \in Id : IsIdLive(Current, id)}
           live == {Lookup(Current, id).metadata.ext : id \in named} \ {NoExt}
       IN  \E logged \in SUBSET (DOMAIN extIds \ live) :
             LET known == live \cup logged
                 idOf(s) == IF s \in live
                            THEN CHOOSE id \in named : Lookup(Current, id).metadata.ext = s
                            ELSE extIds[s]
             IN  /\ extIds' = [s \in known |-> idOf(s)]
                 /\ nextExt' = Max({ExtBase} \cup {idOf(s) + 1 : s \in known})
    /\ maint' = Idle
    /\ UNCHANGED <<active, pending, segments, liveLen, script, made>>

----------------------------------------------------------------------------

ThreadStep(t) ==
    \/ UpsertResolve(t) \/ UpsertWrite(t)
    \/ ResolveGet(t) \/ ViewGet(t)
    \/ Walk(t) \/ Cursor(t)
    \/ ResolveNext(t) \/ DeleteWrite(t) \/ UpdateWrite(t)

FreeClient == \E id \in FreeIds :
    \/ \E rec \in FreeRecords :
         UpsertRecord(id, rec) \/ UpdateMetadata(id, rec.metadata)
    \/ DeleteRecord(id)

CallsNext ==
    \/ script.free /\ FreeClient /\ UNCHANGED callVars
    \/ (Rotate \/ Maintenance) /\ UNCHANGED callVars
    \/ \E t \in Thread : Begin(t) \/ ThreadStep(t)
    \/ Reopen

\* No thread stops in the middle of a call.
CallsSpec ==
    /\ CallsInit /\ [][CallsNext]_allVars
    /\ \A t \in Thread : WF_allVars(ThreadStep(t))

----------------------------------------------------------------------------
(* Properties *)

\* The clients see a map that changes by whole batches: a call writes what it
\* has gathered over its earlier critical sections, all of it, at one moment
\* and nowhere else; nothing that the maintenance thread, a rotation, a page
\* of a walk or a reopen does can be seen.
FreeWrite == \E id \in FreeIds :
    \/ \E rec \in FreeRecords : Map!Upsert(id, rec) \/ Map!UpdateMetadata(id, rec.metadata)
    \/ Map!Delete(id)

BatchOf(t) ==
    \/ At(t, "write", {"upsert"}) /\ Map!UpsertBatch(call[t].done)
    \/ /\ At(t, "resolve", {"delete", "deleteAll"}) /\ call[t].left = <<>>
       /\ Map!DeleteBatch(DOMAIN call[t].done)
    \/ /\ At(t, "resolve", {"update", "updateAll"}) /\ call[t].left = <<>>
       /\ Map!UpdateBatch(call[t].done)

CallsImplementMap ==
    /\ Map!Init
    /\ [][\/ UNCHANGED Map!vars
          \/ script.free /\ FreeWrite
          \/ \E t \in Thread : call'[t] # call[t] /\ BatchOf(t)]_allVars

\* Two strings never share an internal id, a live record of a string is
\* where the dictionary says, although ids are given in one critical section,
\* used in a later one and given anew after a reopen; a get by string
\* answers with a record of that string.
ExtIdsAgree ==
    /\ \A s, r \in DOMAIN extIds :
          extIds[s] \in ExtBase..(nextExt - 1) /\ (s # r => extIds[s] # extIds[r])
    /\ \A id \in LiveAmong(Id) :
          LET s == Lookup(Current, id).metadata.ext
          IN  IF s = NoExt THEN id < ExtBase ELSE s \in DOMAIN extIds /\ extIds[s] = id
    /\ \A t \in Thread :
          At(t, "ended", {"get"}) /\ IsStr(Op(t).rid) =>
             \A id \in DOMAIN call[t].done : call[t].done[id].metadata.ext = Op(t).rid.str

\* A walk by pages meets every record that passed its filter at the begin and
\* that nobody else wrote meanwhile, and meets no record twice, also when it
\* updates the records it meets or its cursor is deleted; when
\* delete_by_filter returns none of those records is left.
WalksAreComplete ==
    \A t \in Thread :
        /\ At(t, "ended", {"pages", "updateAll"}) => call[t].kept \subseteq call[t].seen
        /\ call[t].pc # "idle" /\ Op(t).kind # "deleteAll" => call[t].again = {}
        /\ At(t, "ended", {"deleteAll"}) => LiveAmong(call[t].kept) = {}

\* Writing metadata neither brings back a record that was deleted after it
\* was read nor undoes the vector of an upsert that came in between.
UpdatesKeepVectors ==
    [][\A t \in Thread : UpdateWrite(t) =>
         \A id \in Id :
            LET rec == Lookup(Current, id)
                new == Lookup(Current', id)
            IN  (rec = NoRecord <=> new = NoRecord) /\ (rec # NoRecord => new.vector = rec.vector)]_allVars

\* Every call that has begun returns: no loop over pages follows its own
\* writes for ever.
CallsEnd == \A t \in Thread : call[t].pc # "idle" ~> call[t].pc \in {"idle", "ended"}
============================================================================
