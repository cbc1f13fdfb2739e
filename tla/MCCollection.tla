---------------------------- MODULE MCCollection ----------------------------
(* A small instance of Calls for TLC: one script with clients that write   *)
(* single records at will, the others with two threads that make calls.    *)
EXTENDS Calls, TLC

CONSTANTS v1, v2, s1, s2, t1, t2

Meta(ext, x, y) == [ext |-> ext, x |-> x, y |-> y]
Plain == Meta(NoExt, 1, 0)
MCMetadata == [ext : {NoExt, s1, s2}, x : {0, 1}, y : {0, 1}]

MCFreeRecords == {[vector |-> v1, metadata |-> Plain]}

MCFilter == {[key |-> "x", value |-> 1]}
MCSetting == [key : {"x", "y"}, value : {0, 1}]

Row(rid, vec) == [rid |-> rid, rec |-> [vector |-> vec, metadata |-> Plain]]
UpsertOf(rows) == [kind |-> "upsert", rows |-> rows]
GetOf(rid) == [kind |-> "get", rid |-> rid]
DeleteOf(rid) == [kind |-> "delete", rid |-> rid]
UpdateOf(rid, key) == [kind |-> "update", rid |-> rid, set |-> [key |-> key, value |-> 1]]
X1 == [key |-> "x", value |-> 1]
WalkOf(kind) == [kind |-> kind, filter |-> X1]
UpdateAllOf(key, value) ==
    [kind |-> "updateAll", filter |-> X1, set |-> [key |-> key, value |-> value]]

Fill == UpsertOf(<<Row(Num(1), v1), Row(Str(s1), v1), Row(Num(2), v1)>>)
FillTwo == UpsertOf(<<Row(Num(1), v1), Row(Str(s1), v1)>>)

Script(first, second) == [free |-> FALSE, todo |-> [t \in Thread |-> IF t = t1 THEN first ELSE second]]

MCScripts ==
    { [free |-> TRUE, todo |-> [t \in Thread |-> <<>>]],
      Script(<<UpsertOf(<<Row(Str(s1), v1), Row(Str(s2), v1)>>), GetOf(Str(s1)), UpdateOf(Str(s1), "y")>>,
             <<UpsertOf(<<Row(Str(s2), v2), Row(Str(s1), v2)>>), DeleteOf(Str(s1))>>),
      Script(<<Fill, WalkOf("pages")>>, <<DeleteOf(Str(s1)), UpsertOf(<<Row(Str(s1), v2)>>)>>),
      Script(<<FillTwo, UpdateAllOf("y", 1)>>, <<DeleteOf(Num(1)), UpsertOf(<<Row(Str(s1), v2)>>)>>),
      Script(<<FillTwo, WalkOf("deleteAll")>>, <<UpdateAllOf("x", 0)>>) }
============================================================================
