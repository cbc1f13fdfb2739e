------------------------------ MODULE StoreAbs ------------------------------
(***************************************************************************)
(* What the store promises: a catalog of named collections, each a map     *)
(* from ids to records, that changes only by the operations of its API,    *)
(* one at a time, and that no crash, recovery, flush or compaction ever    *)
(* changes.  Collection numbers are never reused.                          *)
(***************************************************************************)
EXTENDS Naturals

CONSTANTS Id, Vector, Metadata, NoRecord, Name

VARIABLES
    names,  \* the catalog: name -> collection number
    data,   \* collection number -> id -> record or NoRecord
    next,   \* the next collection number
    ops     \* operations so far: nothing changes but by one of them

vars == <<names, data, next, ops>>

Record == [vector: Vector, metadata: Metadata]

Put(f, k, v) == [x \in DOMAIN f \cup {k} |-> IF x = k THEN v ELSE f[x]]
Without(f, k) == [x \in DOMAIN f \ {k} |-> f[x]]

Init ==
    /\ names = [x \in {} |-> x]
    /\ data = [x \in {} |-> x]
    /\ next = 0
    /\ ops = 0

Create(name) ==
    /\ name \notin DOMAIN names
    /\ names' = Put(names, name, next)
    /\ data' = Put(data, next, [id \in Id |-> NoRecord])
    /\ next' = next + 1

Drop(name) ==
    /\ name \in DOMAIN names
    /\ names' = Without(names, name)
    /\ data' = Without(data, names[name])
    /\ UNCHANGED next

Rename(from, to) ==
    /\ from \in DOMAIN names
    /\ to \notin DOMAIN names
    /\ names' = Put(Without(names, from), to, names[from])
    /\ UNCHANGED <<data, next>>

Swap(a, b) ==
    /\ {a, b} \subseteq DOMAIN names
    /\ names' = [names EXCEPT ![a] = names[b], ![b] = names[a]]
    /\ UNCHANGED <<data, next>>

\* An upsert, a delete or a metadata update of one record
Write(c, id, val) ==
    /\ data' = [data EXCEPT ![c][id] = val]
    /\ UNCHANGED <<names, next>>

Operation ==
    \/ \E name \in Name :
         \/ Create(name)
         \/ Drop(name)
         \/ \E other \in Name : Rename(name, other) \/ Swap(name, other)
    \/ \E c \in DOMAIN data, id \in Id, val \in Record \cup {NoRecord} : Write(c, id, val)

Next == Operation /\ ops' = ops + 1

Spec == Init /\ [][Next]_vars
============================================================================
