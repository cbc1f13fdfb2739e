-------------------------- MODULE RecoveryProofs --------------------------
(***************************************************************************)
(* What a crash and the next open leave of the data.  The invariants of    *)
(* StoreProofs say that disk and memory fit together; those of this module *)
(* relate them to everything that was ever written.  A history is the      *)
(* sequence of all records since the first open, whether or not a log still*)
(* has them, with the answers the store gave after each.  The logs that    *)
(* the manifest does not cover are an end of that sequence; the segments,  *)
(* the waiting generation and a replay that is under way hold the answers  *)
(* of some earlier place in it, up to what later records make up for.      *)
(***************************************************************************)
EXTENDS StoreProofs

----------------------------------------------------------------------------
(* Histories *)

Values == [Id -> Record \cup {NoRecord}]

\* The answers of a store: every value, every name, the next collection
Snapshot == [data : Maps(Cid, Values), catalog : Maps(Cid, Name), next : Nat]

\* rec[1..n] is what was written, snap[k] the answers after k records; log s
\* begins behind the first start[s] records, and `last` is the newest log.
History ==
    [n : Nat, last : Nat, rec : [Nat -> WalRecord], snap : [Nat -> Snapshot],
     start : [Nat -> Nat]]

\* Record r, written when the answers were d, makes them e.
Follows(d, r, e) ==
    /\ r.op = "create" => r.cid = d.next /\ e.next = r.cid + 1
    /\ r.op # "create" => e.next = d.next
    /\ DOMAIN e.data = CidsAfter(r, DOMAIN d.data)
    /\ \A c \in DOMAIN e.data, id \in Id :
          e.data[c][id] = ValueAfter(r, c, id, d.data[c][id])

\* One of the records of R comes after the first k.
Later(x, k, R) == \E j \in (k + 1)..x.n : x.rec[j] \in R

CreatesOf(c) == {r \in WalRecord : r.op = "create" /\ r.cid = c}
DropsOf(c) == {r \in WalRecord : r.op = "drop" /\ r.cid = c}

\* Collection numbers are not used again.
NumbersOk(x, k) ==
    /\ x.snap[k].next <= x.snap[x.n].next
    /\ Below(DOMAIN x.snap[k].data, x.snap[k].next)
    /\ \A c \in DOMAIN x.snap[k].data :
          Later(x, k, DropsOf(c)) => c \notin DOMAIN x.snap[x.n].data

HistoryInv(x) ==
    /\ \A k \in 1..x.n : /\ Follows(x.snap[k - 1], x.rec[k], x.snap[k])
                         /\ x.rec[k].op \in OpKinds
    /\ \A k \in 0..x.n : NumbersOk(x, k)

\* The values of some collections are those after k records, but for the
\* collections that a later record creates or drops.
Fits(x, k, values) ==
    /\ \A c \in DOMAIN values \cap DOMAIN x.snap[k].data : values[c] = x.snap[k].data[c]
    /\ \A c \in DOMAIN values \ DOMAIN x.snap[k].data : Later(x, k, CreatesOf(c))
    /\ \A c \in DOMAIN x.snap[k].data \ DOMAIN values : Later(x, k, DropsOf(c))

LEMMA HistoryIs ==
    ASSUME NEW x \in History
    PROVE  /\ x.n \in Nat /\ x.last \in Nat
           /\ x.rec \in [Nat -> WalRecord] /\ x.snap \in [Nat -> Snapshot]
           /\ x.start \in [Nat -> Nat]
           /\ \A k \in Nat : /\ x.rec[k] \in WalRecord /\ x.snap[k] \in Snapshot
                             /\ x.start[k] \in Nat /\ x.snap[k].next \in Nat
                             /\ x.snap[k].data \in Maps(Cid, Values)
BY DEF History, Snapshot

\* Past the last record there is none.
LEMMA LaterEnd ==
    ASSUME NEW x \in History, NEW R
    PROVE  ~Later(x, x.n, R)
BY HistoryIs DEF Later

\* One record further
LEMMA LaterNext ==
    ASSUME NEW x \in History, NEW k \in Nat, NEW R, Later(x, k, R), x.rec[k + 1] \notin R
    PROVE  Later(x, k + 1, R)
<1>1. PICK j \in (k + 1)..x.n : x.rec[j] \in R
  BY DEF Later
<1>2. j # k + 1
  BY <1>1
<1>3. j \in ((k + 1) + 1)..x.n
  BY <1>1, <1>2, HistoryIs
<1> QED BY <1>1, <1>3 DEF Later

----------------------------------------------------------------------------
(* Another record, another log *)

Grown(x, r, e) ==
    [n |-> x.n + 1, last |-> x.last,
     rec |-> [x.rec EXCEPT ![x.n + 1] = r], snap |-> [x.snap EXCEPT ![x.n + 1] = e],
     start |-> [x.start EXCEPT ![x.last + 1] = x.n + 1]]

Rolled(x) ==
    [n |-> x.n, last |-> x.last + 1, rec |-> x.rec, snap |-> x.snap,
     start |-> [x.start EXCEPT ![x.last + 2] = x.n]]

LEMMA GrownIs ==
    ASSUME NEW x \in History, NEW r \in WalRecord, NEW e \in Snapshot
    PROVE  /\ Grown(x, r, e) \in History
           /\ Grown(x, r, e).n = x.n + 1 /\ Grown(x, r, e).last = x.last
           /\ Grown(x, r, e).rec[x.n + 1] = r /\ Grown(x, r, e).snap[x.n + 1] = e
           /\ Grown(x, r, e).start[x.last + 1] = x.n + 1
           /\ \A k \in 0..x.n : /\ Grown(x, r, e).rec[k] = x.rec[k]
                                /\ Grown(x, r, e).snap[k] = x.snap[k]
           /\ \A s \in 0..x.last : Grown(x, r, e).start[s] = x.start[s]
<1>1. /\ x.n \in Nat /\ x.last \in Nat
      /\ x.rec \in [Nat -> WalRecord] /\ x.snap \in [Nat -> Snapshot] /\ x.start \in [Nat -> Nat]
  BY HistoryIs
<1>2. /\ x.n + 1 \in Nat /\ x.last + 1 \in Nat
      /\ \A k \in 0..x.n : k \in Nat /\ k # x.n + 1
      /\ \A s \in 0..x.last : s \in Nat /\ s # x.last + 1
  BY <1>1
<1>3. Grown(x, r, e) \in History
  BY <1>1, <1>2 DEF Grown, History
<1> QED BY <1>1, <1>2, <1>3 DEF Grown

\* What comes later stays later.
LEMMA LaterGrown ==
    ASSUME NEW x \in History, NEW r \in WalRecord, NEW e \in Snapshot,
           NEW k \in 0..x.n, NEW R
    PROVE  Later(Grown(x, r, e), k, R) <=> (Later(x, k, R) \/ r \in R)
<1> DEFINE y == Grown(x, r, e)
<1>0. x.n \in Nat
  BY HistoryIs
<1>1. y.n = x.n + 1 /\ y.rec[x.n + 1] = r /\ \A j \in 0..x.n : y.rec[j] = x.rec[j]
  BY GrownIs
<1> HIDE DEF y
<1>2. ASSUME Later(y, k, R) PROVE Later(x, k, R) \/ r \in R
  <2>1. PICK j \in (k + 1)..y.n : y.rec[j] \in R
    BY <1>2 DEF Later
  <2>2. CASE j = x.n + 1
    BY <1>0, <1>1, <2>1, <2>2
  <2>3. CASE j # x.n + 1
    <3>1. j \in (k + 1)..x.n /\ j \in 0..x.n
      BY <1>0, <1>1, <2>1, <2>3
    <3> QED BY <1>0, <1>1, <2>1, <3>1 DEF Later
  <2> QED BY <2>2, <2>3
<1>3. ASSUME Later(x, k, R) PROVE Later(y, k, R)
  <2>1. PICK j \in (k + 1)..x.n : x.rec[j] \in R
    BY <1>3 DEF Later
  <2>2. j \in (k + 1)..y.n /\ j \in 0..x.n
    BY <1>0, <1>1, <2>1
  <2> QED BY <1>0, <1>1, <2>1, <2>2 DEF Later
<1>4. ASSUME r \in R PROVE Later(y, k, R)
  <2>1. x.n + 1 \in (k + 1)..y.n
    BY <1>0, <1>1
  <2> QED BY <1>0, <1>1, <1>4, <2>1 DEF Later
<1> QED BY <1>2, <1>3, <1>4 DEF y

LEMMA RolledIs ==
    ASSUME NEW x \in History
    PROVE  /\ Rolled(x) \in History
           /\ Rolled(x).n = x.n /\ Rolled(x).last = x.last + 1
           /\ Rolled(x).rec = x.rec /\ Rolled(x).snap = x.snap
           /\ Rolled(x).start[x.last + 2] = x.n
           /\ \A s \in 0..(x.last + 1) : Rolled(x).start[s] = x.start[s]
           /\ \A k, R : Later(Rolled(x), k, R) <=> Later(x, k, R)
<1>1. /\ x.n \in Nat /\ x.last \in Nat
      /\ x.rec \in [Nat -> WalRecord] /\ x.snap \in [Nat -> Snapshot] /\ x.start \in [Nat -> Nat]
  BY HistoryIs
<1>2. x.last + 2 \in Nat /\ \A s \in 0..(x.last + 1) : s \in Nat /\ s # x.last + 2
  BY <1>1
<1>3. Rolled(x) \in History
  BY <1>1, <1>2 DEF Rolled, History
<1>4. /\ Rolled(x).n = x.n /\ Rolled(x).last = x.last + 1
      /\ Rolled(x).rec = x.rec /\ Rolled(x).snap = x.snap
  BY DEF Rolled
<1>5. \A k, R : Later(Rolled(x), k, R) <=> Later(x, k, R)
  BY <1>4 DEF Later
<1> QED BY <1>1, <1>2, <1>3, <1>4, <1>5 DEF Rolled

\* Another log changes nothing about the records.
LEMMA RolledKeeps ==
    ASSUME NEW x \in History
    PROVE  /\ HistoryInv(x) => HistoryInv(Rolled(x))
           /\ \A k, values : Fits(x, k, values) => Fits(Rolled(x), k, values)
<1>1. /\ Rolled(x).n = x.n /\ Rolled(x).rec = x.rec /\ Rolled(x).snap = x.snap
      /\ \A k, R : Later(Rolled(x), k, R) <=> Later(x, k, R)
  BY RolledIs
<1>2. \A k, values : Fits(x, k, values) => Fits(Rolled(x), k, values)
  BY <1>1 DEF Fits
<1>3. \A k : NumbersOk(x, k) => NumbersOk(Rolled(x), k)
  BY <1>1 DEF NumbersOk
<1> QED BY <1>1, <1>2, <1>3 DEF HistoryInv

\* A record that follows on the last answers keeps the history.
LEMMA GrownKeeps ==
    ASSUME NEW x \in History, HistoryInv(x), NEW r \in WalRecord, NEW e \in Snapshot,
           Follows(x.snap[x.n], r, e), r.op \in OpKinds, Below(DOMAIN e.data, e.next)
    PROVE  HistoryInv(Grown(x, r, e))
<1> DEFINE y == Grown(x, r, e)
           d == x.snap[x.n]
<1>1. /\ y \in History /\ y.n = x.n + 1
      /\ y.rec[x.n + 1] = r /\ y.snap[x.n + 1] = e /\ x.n \in Nat
      /\ \A k \in 0..x.n : y.rec[k] = x.rec[k] /\ y.snap[k] = x.snap[k]
      /\ \A k \in 0..x.n : \A R : Later(y, k, R) <=> (Later(x, k, R) \/ r \in R)
  BY GrownIs, HistoryIs, LaterGrown
<1>2. /\ e.next \in Nat /\ d.next \in Nat /\ d.next <= e.next
      /\ r.op = "create" => r.cid = d.next
      /\ DOMAIN e.data = CidsAfter(r, DOMAIN d.data)
  BY HistoryIs DEF Follows, Snapshot
<1> HIDE DEF y
<1>3. ASSUME NEW k \in 1..y.n
      PROVE  Follows(y.snap[k - 1], y.rec[k], y.snap[k]) /\ y.rec[k].op \in OpKinds
  <2>1. CASE k = x.n + 1
    <3>1. k - 1 = x.n /\ x.n \in 0..x.n
      BY <1>1, <2>1
    <3>2. y.snap[k - 1] = x.snap[x.n] /\ y.rec[k] = r /\ y.snap[k] = e
      BY <1>1, <2>1, <3>1
    <3> QED BY <3>2
  <2>2. CASE k # x.n + 1
    <3>1. k \in 1..x.n /\ k \in 0..x.n /\ k - 1 \in 0..x.n
      BY <1>1, <2>2
    <3> QED BY <1>1, <3>1 DEF HistoryInv
  <2> QED BY <2>1, <2>2
<1>4. ASSUME NEW k \in 0..y.n PROVE NumbersOk(y, k)
  <2>1. CASE k = x.n + 1
    <3>1. y.snap[k] = e /\ y.snap[y.n] = e
      BY <1>1, <2>1
    <3>2. \A R : ~Later(y, k, R)
      BY <1>1, <2>1, LaterEnd
    <3> QED BY <1>2, <3>1, <3>2 DEF NumbersOk
  <2>2. CASE k # x.n + 1
    <3>1. k \in 0..x.n /\ k \in Nat /\ y.snap[k] = x.snap[k] /\ y.snap[y.n] = e
          /\ x.snap[k].next \in Nat
      BY <1>1, <2>2, HistoryIs
    <3>2. NumbersOk(x, k)
      BY <3>1 DEF HistoryInv
    <3>3. x.snap[k].next <= d.next /\ \A c \in DOMAIN x.snap[k].data : c < x.snap[k].next /\ c \in Cid
      BY <3>1, <3>2, HistoryIs, MapsIs DEF NumbersOk, Below
    <3>4. ASSUME NEW c \in DOMAIN x.snap[k].data, Later(y, k, DropsOf(c))
          PROVE  c \notin DOMAIN e.data
      <4>1. c < x.snap[k].next /\ c \in Nat
        BY <3>3, CidIs
      <4>2. ~(r.op = "create" /\ r.cid = c)
        BY <1>2, <3>1, <3>3, <4>1
      <4>3. CASE Later(x, k, DropsOf(c))
        BY <1>2, <3>2, <4>2, <4>3 DEF NumbersOk, CidsAfter
      <4>4. CASE r \in DropsOf(c)
        BY <1>2, <4>4 DEF DropsOf, CidsAfter
      <4> QED BY <1>1, <3>1, <3>4, <4>3, <4>4
    <3>5. x.snap[k].next <= e.next
      BY <1>2, <3>1, <3>3
    <3> QED BY <3>1, <3>2, <3>4, <3>5 DEF NumbersOk
  <2> QED BY <2>1, <2>2
<1> QED BY <1>3, <1>4 DEF HistoryInv, y

----------------------------------------------------------------------------
(* Values that fit a place of the history *)

\* A record that is written changes what fits an earlier place only by the
\* collection that it creates or drops.
LEMMA FitsGrown ==
    ASSUME NEW x \in History, HistoryInv(x), NEW r \in WalRecord, NEW e \in Snapshot,
           Follows(x.snap[x.n], r, e), NEW k \in 0..x.n,
           NEW values, NEW values2, DOMAIN values2 \subseteq Cid, Fits(x, k, values),
           \A c \in DOMAIN values2 : \/ c \in DOMAIN values /\ values2[c] = values[c]
                                     \/ r.op = "create" /\ r.cid = c,
           \A c \in DOMAIN values \ DOMAIN values2 : r.op = "drop" /\ r.cid = c
    PROVE  Fits(Grown(x, r, e), k, values2)
<1> DEFINE y == Grown(x, r, e)
           d == x.snap[k].data
<1>1. /\ y.snap[k] = x.snap[k] /\ \A R : Later(y, k, R) <=> (Later(x, k, R) \/ r \in R)
  BY GrownIs, LaterGrown
<1> HIDE DEF y
<1>2. ASSUME NEW c \in DOMAIN d PROVE ~(r.op = "create" /\ r.cid = c)
  <2>1. NumbersOk(x, k) /\ k \in Nat /\ x.n \in Nat
    BY HistoryIs DEF HistoryInv
  <2>2. c < x.snap[k].next /\ x.snap[k].next <= x.snap[x.n].next
    BY <2>1 DEF NumbersOk, Below
  <2>3. c \in Nat /\ x.snap[k].next \in Nat /\ x.snap[x.n].next \in Nat
    BY <2>1, HistoryIs, MapsIs, CidIs
  <2> QED BY <2>2, <2>3 DEF Follows
<1>3. ASSUME NEW c \in DOMAIN values2 \cap DOMAIN d PROVE values2[c] = d[c]
  BY <1>2 DEF Fits
<1>4. ASSUME NEW c \in DOMAIN values2 \ DOMAIN d PROVE Later(y, k, CreatesOf(c))
  BY <1>1 DEF Fits, CreatesOf
<1>5. ASSUME NEW c \in DOMAIN d \ DOMAIN values2 PROVE Later(y, k, DropsOf(c))
  BY <1>1 DEF Fits, DropsOf
<1>6. y.snap[k].data = d
  BY <1>1
<1> HIDE DEF d
<1>7. Fits(y, k, values2)
  BY <1>3, <1>4, <1>5, <1>6 DEF Fits
<1> QED BY <1>7 DEF y

\* One collection's values after a record
AfterRecord(r, values, values2) ==
    /\ DOMAIN values2 = CidsAfter(r, DOMAIN values)
    /\ \A c \in DOMAIN values2, id \in Id :
          values2[c][id] = ValueAfter(r, c, id, values[c][id])

\* Replaying the next record goes on to the next place.
LEMMA FitsNext ==
    ASSUME NEW x \in History, HistoryInv(x), NEW k \in Nat, k < x.n,
           NEW values, NEW values2 \in Maps(Cid, Values), Fits(x, k, values),
           AfterRecord(x.rec[k + 1], values, values2)
    PROVE  Fits(x, k + 1, values2)
<1> DEFINE r == x.rec[k + 1]
           d == x.snap[k].data
           e == x.snap[k + 1].data
<1>1. Follows(x.snap[k], r, x.snap[k + 1])
  <2>1. k + 1 \in 1..x.n /\ (k + 1) - 1 = k
    BY HistoryIs
  <2> QED BY <2>1 DEF HistoryInv
<1>2. /\ DOMAIN e = CidsAfter(r, DOMAIN d)
      /\ \A c \in DOMAIN e, id \in Id : e[c][id] = ValueAfter(r, c, id, d[c][id])
  BY <1>1 DEF Follows
<1>3. /\ DOMAIN values2 = CidsAfter(r, DOMAIN values)
      /\ \A c \in DOMAIN values2, id \in Id :
            values2[c][id] = ValueAfter(r, c, id, values[c][id])
  BY DEF AfterRecord
<1>4. \A R : Later(x, k, R) /\ r \notin R => Later(x, k + 1, R)
  BY LaterNext
<1>5. e \in Maps(Cid, Values)
  BY HistoryIs
<1>6. /\ \A c \in DOMAIN values \cap DOMAIN d : values[c] = d[c]
      /\ \A c \in DOMAIN values \ DOMAIN d : Later(x, k, CreatesOf(c))
      /\ \A c \in DOMAIN d \ DOMAIN values : Later(x, k, DropsOf(c))
  BY DEF Fits
<1> HIDE DEF r, d, e
<1>7. ASSUME NEW c \in DOMAIN values2 \cap DOMAIN e PROVE values2[c] = e[c]
  <2>1. values2[c] \in Values /\ e[c] \in Values
    BY <1>5, MapsIs
  <2>2. ASSUME NEW id \in Id PROVE values2[c][id] = e[c][id]
    <3>1. CASE r.op = "create" /\ r.cid = c
      BY <1>2, <1>3, <3>1 DEF ValueAfter
    <3>2. CASE ~(r.op = "create" /\ r.cid = c)
      <4>1. c \in DOMAIN values /\ c \in DOMAIN d
        BY <1>2, <1>3, <3>2 DEF CidsAfter
      <4> QED BY <1>2, <1>3, <1>6, <4>1
    <3> QED BY <3>1, <3>2
  <2> QED BY <2>1, <2>2 DEF Values
<1>8. ASSUME NEW c \in DOMAIN values2 \ DOMAIN e PROVE Later(x, k + 1, CreatesOf(c))
  <2>1. c \in DOMAIN values /\ c \notin DOMAIN d /\ r \notin CreatesOf(c)
    BY <1>2, <1>3 DEF CidsAfter, CreatesOf
  <2> QED BY <1>4, <1>6, <2>1
<1>9. ASSUME NEW c \in DOMAIN e \ DOMAIN values2 PROVE Later(x, k + 1, DropsOf(c))
  <2>1. c \in DOMAIN d /\ c \notin DOMAIN values /\ r \notin DropsOf(c)
    BY <1>2, <1>3 DEF CidsAfter, DropsOf
  <2> QED BY <1>4, <1>6, <2>1
<1> QED BY <1>7, <1>8, <1>9 DEF Fits, e

\* At the end of the history what fits is the last answer.
LEMMA FitsEnd ==
    ASSUME NEW x \in History, NEW values \in Maps(Cid, Values), Fits(x, x.n, values)
    PROVE  values = x.snap[x.n].data
<1>1. \A R : ~Later(x, x.n, R)
  BY LaterEnd
<1>2. DOMAIN values = DOMAIN x.snap[x.n].data
  BY <1>1 DEF Fits
<1>3. \A c \in DOMAIN values : values[c] = x.snap[x.n].data[c]
  BY <1>2 DEF Fits
<1>4. values \in [DOMAIN values -> Values]
      /\ x.snap[x.n].data \in [DOMAIN x.snap[x.n].data -> Values]
  BY HistoryIs, MapsIs
<1> QED BY <1>2, <1>3, <1>4

----------------------------------------------------------------------------
(* The logs hold the end of the history *)

Size(x, s) == x.start[s + 1] - x.start[s]

\* Log s holds its part of the history, and perhaps a part of a frame.
LogIs(x, w, s) ==
    /\ s \in DOMAIN w
    /\ x.start[s] <= x.start[s + 1] /\ x.start[s + 1] <= x.n
    /\ \A i \in 1..Size(x, s) : w[s][i] = x.rec[x.start[s] + i]
    /\ \/ Len(w[s]) = Size(x, s)
       \/ Len(w[s]) = Size(x, s) + 1 /\ w[s][Size(x, s) + 1] = Torn

LogsOk(x, seq, w) ==
    /\ seq <= x.last
    /\ \A s \in DOMAIN w : s <= x.last
    /\ x.start[x.last + 1] = x.n
    /\ \A s \in (seq + 1)..x.last : LogIs(x, w, s)

\* The last log ends with the last record.
Whole(x, w) == x.last \in DOMAIN w /\ x.start[x.last] + Len(w[x.last]) = x.n

LEMMA LogIn ==
    ASSUME NEW w \in Logs, NEW s \in DOMAIN w
    PROVE  s \in Nat /\ w[s] \in Seq(WalRecord) /\ Len(w[s]) \in Nat
<1>1. s \in Nat /\ w[s] \in Seq(WalRecord)
  BY MapsIs DEF Logs
<1> QED BY <1>1

\* A log behind a place that is covered begins inside the history.
LEMMA BaseIs ==
    ASSUME NEW x \in History, NEW seq \in Nat, NEW w, LogsOk(x, seq, w)
    PROVE  x.start[seq + 1] \in 0..x.n
<1>1. CASE seq = x.last
  BY <1>1, HistoryIs DEF LogsOk
<1>2. CASE seq # x.last
  <2>1. seq + 1 \in (seq + 1)..x.last /\ seq + 1 \in Nat /\ (seq + 1) + 1 \in Nat
    BY <1>2, HistoryIs DEF LogsOk
  <2>2. LogIs(x, w, seq + 1)
    BY <2>1 DEF LogsOk
  <2>3. x.start[seq + 1] <= x.start[(seq + 1) + 1] /\ x.start[(seq + 1) + 1] <= x.n
    BY <2>2 DEF LogIs
  <2>4. x.start[seq + 1] \in Nat /\ x.start[(seq + 1) + 1] \in Nat /\ x.n \in Nat
    BY <2>1, HistoryIs
  <2> QED BY <2>3, <2>4
<1> QED BY <1>1, <1>2

\* Logs that are covered do not matter.
LEMMA LogsFewer ==
    ASSUME NEW x \in History, NEW seq \in Nat, NEW w, LogsOk(x, seq, w),
           NEW to \in Nat, seq <= to, to <= x.last, NEW files,
           DOMAIN files \subseteq DOMAIN w,
           \A s \in DOMAIN w : s > to => s \in DOMAIN files /\ files[s] = w[s]
    PROVE  LogsOk(x, to, files)
<1>1. ASSUME NEW s \in (to + 1)..x.last PROVE LogIs(x, files, s)
  <2>1. s \in (seq + 1)..x.last /\ s > to
    BY HistoryIs
  <2>2. LogIs(x, w, s)
    BY <2>1 DEF LogsOk
  <2>3. s \in DOMAIN w
    BY <2>2 DEF LogIs
  <2>4. s \in DOMAIN files /\ files[s] = w[s]
    BY <2>1, <2>3
  <2> QED BY <2>2, <2>4 DEF LogIs
<1> QED BY <1>1 DEF LogsOk

LEMMA LogsGrown ==
    ASSUME NEW x \in History, NEW seq \in Nat, NEW w \in Logs, LogsOk(x, seq, w), Whole(x, w),
           NEW r \in WalRecord, NEW e \in Snapshot,
           NEW files, files = [w EXCEPT ![x.last] = Append(@, r)]
    PROVE  LogsOk(Grown(x, r, e), seq, files) /\ Whole(Grown(x, r, e), files)
<1> DEFINE y == Grown(x, r, e)
<1>1. /\ y \in History /\ y.n = x.n + 1 /\ y.last = x.last /\ y.start[x.last + 1] = x.n + 1
      /\ y.rec[x.n + 1] = r /\ \A k \in 0..x.n : y.rec[k] = x.rec[k]
      /\ \A s \in 0..x.last : y.start[s] = x.start[s]
  BY GrownIs
<1>2. x.n \in Nat /\ x.last \in Nat /\ x.last \in DOMAIN w /\ \A s \in Nat : x.start[s] \in Nat
  BY HistoryIs DEF Whole
<1>3. /\ DOMAIN files = DOMAIN w /\ files[x.last] = Append(w[x.last], r)
      /\ \A s \in DOMAIN w : s # x.last => files[s] = w[s]
  BY <1>2, MapsIs DEF Logs
<1>4. /\ w[x.last] \in Seq(WalRecord) /\ Len(w[x.last]) \in Nat
      /\ Len(files[x.last]) = Len(w[x.last]) + 1
      /\ files[x.last][Len(w[x.last]) + 1] = r
      /\ \A i \in 1..Len(w[x.last]) : files[x.last][i] = w[x.last][i]
  BY <1>2, <1>3, LogIn
<1> HIDE DEF y
<1>5. Whole(y, files)
  <2>1. x.last \in 0..x.last /\ x.start[x.last] \in Nat
    BY <1>2
  <2>2. y.start[x.last] = x.start[x.last] /\ x.start[x.last] + Len(w[x.last]) = x.n
    BY <1>1, <2>1 DEF Whole
  <2>3. y.start[x.last] + Len(files[x.last]) = y.n
    BY SMTT(30), <1>1, <1>2, <1>4, <2>1, <2>2
  <2> QED BY <1>1, <1>2, <1>3, <2>3 DEF Whole
<1>6. ASSUME NEW s \in (seq + 1)..y.last, s # x.last PROVE LogIs(y, files, s)
  <2>1. s \in (seq + 1)..x.last /\ s \in Nat /\ s \in 0..x.last /\ s + 1 \in 0..x.last
    BY <1>1, <1>2, <1>6
  <2>2. LogIs(x, w, s)
    BY <2>1 DEF LogsOk
  <2>3. y.start[s] = x.start[s] /\ y.start[s + 1] = x.start[s + 1]
    BY <1>1, <2>1
  <2>4. Size(y, s) = Size(x, s)
    BY <2>3 DEF Size
  <2>5. s \in DOMAIN files /\ files[s] = w[s]
    BY <1>3, <1>6, <2>2 DEF LogIs
  <2>6. x.start[s] <= x.start[s + 1] /\ x.start[s + 1] <= x.n
        /\ x.start[s] \in Nat /\ x.start[s + 1] \in Nat
    BY <1>2, <2>1, <2>2 DEF LogIs
  <2>7. y.start[s] <= y.start[s + 1] /\ y.start[s + 1] <= y.n
    BY <1>1, <1>2, <2>3, <2>6
  <2>8. ASSUME NEW i \in 1..Size(y, s) PROVE files[s][i] = y.rec[y.start[s] + i]
    <3>1. x.start[s] + i \in 0..x.n
      <4>1. i \in 1..(x.start[s + 1] - x.start[s])
        BY <2>4 DEF Size
      <4> QED BY SMTT(30), <1>2, <2>6, <4>1
    <3>2. y.rec[x.start[s] + i] = x.rec[x.start[s] + i]
      BY <1>1, <3>1
    <3>3. w[s][i] = x.rec[x.start[s] + i]
      BY <2>2, <2>4 DEF LogIs
    <3> QED BY <2>3, <2>5, <3>2, <3>3
  <2>9. Len(w[s]) = Size(x, s) \/ (Len(w[s]) = Size(x, s) + 1 /\ w[s][Size(x, s) + 1] = Torn)
    BY <2>2 DEF LogIs
  <2> QED BY <2>4, <2>5, <2>7, <2>8, <2>9 DEF LogIs
<1>7. ASSUME x.last \in (seq + 1)..y.last PROVE LogIs(y, files, x.last)
  <2>1. LogIs(x, w, x.last) /\ x.start[x.last + 1] = x.n
    BY <1>1, <1>7 DEF LogsOk
  <2>2. y.start[x.last] = x.start[x.last] /\ x.start[x.last] \in Nat
    <3>1. x.last \in 0..x.last
      BY <1>2
    <3> QED BY <1>1, <1>2, <3>1
  <2>3. Size(y, x.last) = Len(w[x.last]) + 1 /\ Size(x, x.last) = Len(w[x.last])
    BY <1>1, <1>2, <1>4, <2>1, <2>2 DEF Size, Whole
  <2>4. x.start[x.last] + Len(w[x.last]) = x.n
    BY DEF Whole
  <2>5. ASSUME NEW i \in 1..Size(y, x.last)
        PROVE  files[x.last][i] = y.rec[y.start[x.last] + i]
    <3>1. CASE i = Len(w[x.last]) + 1
      <4>1. y.start[x.last] + i = x.n + 1
        <5> DEFINE a == x.start[x.last]
                   b == Len(w[x.last])
        <5>1. a \in Nat /\ b \in Nat /\ x.n = a + b
          BY <1>2, <1>4, <2>2, <2>4
        <5> HIDE DEF a, b
        <5>2. a + (b + 1) = x.n + 1
          BY <5>1
        <5> USE DEF a, b
        <5> QED BY <5>2, <2>2, <3>1
      <4> QED BY <1>1, <1>4, <3>1, <4>1
    <3>2. CASE i # Len(w[x.last]) + 1
      <4>1. i \in 1..Len(w[x.last]) /\ x.start[x.last] + i \in 0..x.n
        BY SMTT(30), <1>2, <1>4, <2>2, <2>3, <2>4, <3>2
      <4>2. y.rec[x.start[x.last] + i] = x.rec[x.start[x.last] + i]
        BY <1>1, <4>1
      <4>3. w[x.last][i] = x.rec[x.start[x.last] + i]
        BY <2>1, <2>3, <4>1 DEF LogIs
      <4> QED BY <1>4, <2>2, <4>1, <4>2, <4>3
    <3> QED BY <3>1, <3>2
  <2>6. y.start[x.last] <= y.start[x.last + 1] /\ y.start[x.last + 1] <= y.n
    BY <1>1, <1>2, <1>4, <2>2, <2>4
  <2>7. x.last \in DOMAIN files /\ Len(files[x.last]) = Size(y, x.last)
    BY <1>2, <1>3, <1>4, <2>3
  <2> QED BY <2>5, <2>6, <2>7 DEF LogIs
<1>8. LogsOk(y, seq, files)
  <2>1. \A s \in (seq + 1)..y.last : LogIs(y, files, s)
    BY <1>6, <1>7
  <2>2. seq <= y.last /\ \A s \in DOMAIN files : s <= y.last
    BY <1>1, <1>3 DEF LogsOk
  <2>3. y.start[y.last + 1] = y.n
    BY <1>1
  <2> QED BY <2>1, <2>2, <2>3 DEF LogsOk
<1> QED BY <1>5, <1>8 DEF y

LEMMA LogsRolled ==
    ASSUME NEW x \in History, NEW seq \in Nat, NEW w \in Logs, LogsOk(x, seq, w),
           NEW files, files = Put(w, x.last + 1, <<>>)
    PROVE  LogsOk(Rolled(x), seq, files) /\ Whole(Rolled(x), files)
<1> DEFINE y == Rolled(x)
<1>1. /\ y.n = x.n /\ y.last = x.last + 1 /\ y.rec = x.rec /\ y.start[x.last + 2] = x.n
      /\ \A s \in 0..(x.last + 1) : y.start[s] = x.start[s]
  BY RolledIs
<1>2. x.n \in Nat /\ x.last \in Nat /\ seq <= x.last /\ x.start[x.last + 1] = x.n
      /\ \A s \in DOMAIN w : s <= x.last /\ s \in Nat
  BY HistoryIs, LogIn DEF LogsOk
<1>3. /\ DOMAIN files = DOMAIN w \cup {x.last + 1} /\ files[x.last + 1] = <<>>
      /\ \A s \in DOMAIN w : files[s] = w[s]
  BY <1>2 DEF Put
<1> HIDE DEF y
<1>4. y.start[y.last] = x.n /\ (x.last + 1) + 1 = x.last + 2 /\ y.start[y.last + 1] = x.n
  <2>1. x.last + 1 \in 0..(x.last + 1) /\ (x.last + 1) + 1 = x.last + 2
    BY <1>2
  <2> QED BY <1>1, <1>2, <2>1
<1>5. Len(files[y.last]) = 0
  BY <1>1, <1>3
<1>6. Whole(y, files)
  BY <1>1, <1>2, <1>3, <1>4, <1>5 DEF Whole
<1>7. ASSUME NEW s \in (seq + 1)..y.last PROVE LogIs(y, files, s)
  <2>1. CASE s = y.last
    <3>1. Size(y, s) = 0
      BY <1>2, <1>4, <2>1 DEF Size
    <3>2. s \in DOMAIN files /\ y.start[s] <= y.start[s + 1] /\ y.start[s + 1] <= y.n
      BY <1>1, <1>2, <1>3, <1>4, <2>1
    <3> QED BY <1>5, <2>1, <3>1, <3>2 DEF LogIs
  <2>2. CASE s # y.last
    <3>1. s \in (seq + 1)..x.last /\ s \in 0..(x.last + 1) /\ s + 1 \in 0..(x.last + 1)
      BY <1>1, <1>2, <2>2
    <3>2. LogIs(x, w, s)
      BY <3>1 DEF LogsOk
    <3>3. s \in DOMAIN files /\ files[s] = w[s]
      BY <1>3, <3>2 DEF LogIs
    <3>4. y.start[s] = x.start[s] /\ y.start[s + 1] = x.start[s + 1]
      BY <1>1, <3>1
    <3>5. Size(y, s) = Size(x, s)
      BY <3>4 DEF Size
    <3> QED BY <1>1, <3>2, <3>3, <3>4, <3>5 DEF LogIs
  <2> QED BY <2>1, <2>2
<1>8. seq <= y.last /\ \A s \in DOMAIN files : s <= y.last
  BY <1>1, <1>2, <1>3
<1>9. LogsOk(y, seq, files)
  BY <1>1, <1>4, <1>7, <1>8 DEF LogsOk
<1> QED BY <1>6, <1>9 DEF y

\* No record of the history is a part of a frame.
LEMMA NotTorn ==
    ASSUME NEW x \in History, HistoryInv(x), NEW k \in 1..x.n
    PROVE  x.rec[k] # Torn /\ x.rec[k].op \notin {"torn", "blank"}
BY StoreAssumption DEF HistoryInv, AllKinds, Torn

\* An append that does not end
LEMMA LogsTorn ==
    ASSUME NEW x \in History, NEW seq \in Nat, NEW w \in Logs, LogsOk(x, seq, w), Whole(x, w),
           NEW files, files = [w EXCEPT ![x.last] = Append(@, Torn)]
    PROVE  LogsOk(x, seq, files)
<1>1. x.n \in Nat /\ x.last \in Nat /\ x.last \in DOMAIN w /\ \A s \in Nat : x.start[s] \in Nat
  BY HistoryIs DEF Whole
<1>2. /\ DOMAIN files = DOMAIN w /\ files[x.last] = Append(w[x.last], Torn)
      /\ \A s \in DOMAIN w : s # x.last => files[s] = w[s]
  BY <1>1, MapsIs DEF Logs
<1>3. /\ w[x.last] \in Seq(WalRecord) /\ Len(w[x.last]) \in Nat
      /\ Len(files[x.last]) = Len(w[x.last]) + 1
      /\ files[x.last][Len(w[x.last]) + 1] = Torn
      /\ \A i \in 1..Len(w[x.last]) : files[x.last][i] = w[x.last][i]
  BY <1>1, <1>2, LogIn
<1>4. ASSUME NEW s \in (seq + 1)..x.last, s # x.last PROVE LogIs(x, files, s)
  <2>1. LogIs(x, w, s)
    BY DEF LogsOk
  <2>2. s \in DOMAIN files /\ files[s] = w[s]
    BY <1>2, <1>4, <2>1 DEF LogIs
  <2> QED BY <2>1, <2>2 DEF LogIs
<1>5. ASSUME x.last \in (seq + 1)..x.last PROVE LogIs(x, files, x.last)
  <2>1. LogIs(x, w, x.last) /\ x.start[x.last + 1] = x.n
    BY <1>5 DEF LogsOk
  <2>2. x.start[x.last] \in Nat /\ x.start[x.last] + Len(w[x.last]) = x.n
    BY <1>1 DEF Whole
  <2>3. Size(x, x.last) = Len(w[x.last])
    BY <1>1, <1>3, <2>1, <2>2 DEF Size
  <2>4. /\ x.last \in DOMAIN files /\ Len(files[x.last]) = Size(x, x.last) + 1
        /\ files[x.last][Size(x, x.last) + 1] = Torn
    BY <1>1, <1>2, <1>3, <2>3
  <2>5. \A i \in 1..Size(x, x.last) : files[x.last][i] = x.rec[x.start[x.last] + i]
    BY <1>3, <2>1, <2>3 DEF LogIs
  <2> QED BY <2>1, <2>4, <2>5 DEF LogIs
<1> QED BY <1>2, <1>4, <1>5 DEF LogsOk

LEMMA WholeFramesIs ==
    ASSUME NEW records \in Seq(WalRecord), NEW m \in 0..Len(records),
           \A i \in 1..m : records[i] # Torn,
           Len(records) = m \/ (Len(records) = m + 1 /\ records[m + 1] = Torn)
    PROVE  /\ WholeFrames(records) \in Seq(WalRecord) /\ Len(WholeFrames(records)) = m
           /\ \A i \in 1..m : WholeFrames(records)[i] = records[i]
<1> DEFINE whole == {n \in 0..Len(records) : \A i \in 1..n : records[i] # Torn}
           cut == CHOOSE n \in whole : \A k \in whole : k <= n
<1>1. m \in whole /\ \A k \in whole : k <= m
  <2>1. m \in whole
    OBVIOUS
  <2>2. ASSUME NEW k \in whole, ~(k <= m) PROVE FALSE
    <3>1. k = m + 1 /\ m + 1 \in 1..k /\ records[m + 1] = Torn
      BY <2>2
    <3> QED BY <3>1
  <2> QED BY <2>1, <2>2
<1>2. cut = m
  <2>1. cut \in whole /\ \A k \in whole : k <= cut
    BY <1>1
  <2>2. cut \in Nat /\ m <= cut /\ cut <= m
    BY <1>1, <2>1
  <2> QED BY <2>2
<1>3. WholeFrames(records) = SubSeq(records, 1, cut)
  BY DEF WholeFrames
<1> HIDE DEF cut, whole
<1> QED BY <1>2, <1>3

\* A log that is cut has just its part of the history.
Cut(w, s) == [w EXCEPT ![s] = WholeFrames(@)]

LEMMA LogsCut ==
    ASSUME NEW x \in History, HistoryInv(x), NEW seq \in Nat, NEW w \in Logs,
           LogsOk(x, seq, w), NEW s \in (seq + 1)..x.last
    PROVE  LogsOk(x, seq, Cut(w, s)) /\ Len(Cut(w, s)[s]) = Size(x, s)
<1> DEFINE m == Size(x, s)
           files == Cut(w, s)
<1>1. LogIs(x, w, s) /\ s \in Nat /\ x.n \in Nat
      /\ x.start[s] \in Nat /\ x.start[s + 1] \in Nat
  BY HistoryIs DEF LogsOk
<1>2. m \in Nat /\ x.start[s] + m <= x.n
  BY SMTT(30), <1>1 DEF LogIs, Size
<1>3. w[s] \in Seq(WalRecord) /\ s \in DOMAIN w
  BY <1>1, LogIn DEF LogIs
<1> HIDE DEF m
<1>4. \A i \in 1..m : w[s][i] # Torn
  <2>1. ASSUME NEW i \in 1..m PROVE w[s][i] # Torn
    <3>1. x.start[s] + i \in 1..x.n
      BY <1>1, <1>2
    <3>2. x.rec[x.start[s] + i] # Torn
      BY <3>1, NotTorn
    <3> QED BY <1>1, <3>2 DEF LogIs, m
  <2> QED BY <2>1
<1>5. Len(w[s]) = m \/ (Len(w[s]) = m + 1 /\ w[s][m + 1] = Torn)
  BY <1>1 DEF LogIs, m
<1>6. m \in 0..Len(w[s])
  BY <1>2, <1>3, <1>5
<1>7. /\ Len(WholeFrames(w[s])) = m
      /\ \A i \in 1..m : WholeFrames(w[s])[i] = w[s][i]
  BY <1>3, <1>4, <1>5, <1>6, WholeFramesIs
<1>8. /\ DOMAIN files = DOMAIN w /\ files[s] = WholeFrames(w[s])
      /\ \A t \in DOMAIN w : t # s => files[t] = w[t]
  BY <1>3, MapsIs DEF Logs, Cut
<1> HIDE DEF files
<1>9. LogIs(x, files, s)
  BY <1>1, <1>3, <1>7, <1>8 DEF LogIs, m
<1>10. ASSUME NEW t \in (seq + 1)..x.last, t # s PROVE LogIs(x, files, t)
  <2>1. LogIs(x, w, t)
    BY DEF LogsOk
  <2>2. t \in DOMAIN files /\ files[t] = w[t]
    BY <1>8, <1>10, <2>1 DEF LogIs
  <2> QED BY <2>1, <2>2 DEF LogIs
<1> QED BY <1>7, <1>8, <1>9, <1>10 DEF LogsOk, m, files

\* The logs to replay follow one another without a gap.
LEMMA NextLog ==
    ASSUME NEW x \in History, NEW seq \in Nat, LogsOk(x, seq, wals), wals \in Logs,
           NEW from \in Nat, seq <= from, from <= x.last
    PROVE  NextWal(from) = IF from < x.last THEN from + 1 ELSE 0
<1> DEFINE newer == {s \in DOMAIN wals : s > from}
<1>1. x.last \in Nat /\ \A s \in DOMAIN wals : s \in Nat /\ s <= x.last
  BY HistoryIs, LogIn DEF LogsOk
<1>2. NextWal(from) = IF newer = {} THEN 0 ELSE CHOOSE s \in newer : \A t \in newer : s <= t
  BY DEF NextWal
<1>3. CASE from < x.last
  <2>1. from + 1 \in (seq + 1)..x.last
    BY <1>1, <1>3
  <2>2. from + 1 \in newer /\ \A t \in newer : from + 1 <= t /\ t \in Nat
    BY <1>1, <2>1 DEF LogsOk, LogIs
  <2> HIDE DEF newer
  <2>3. PICK n \in newer : n = CHOOSE s \in newer : \A t \in newer : s <= t
    BY <2>2
  <2>4. n \in newer /\ n <= from + 1 /\ from + 1 <= n
    BY <2>2, <2>3
  <2>5. n = from + 1
    BY <2>2, <2>4
  <2> QED BY <1>2, <1>3, <2>2, <2>3, <2>5
<1>4. CASE ~(from < x.last)
  <2>1. newer = {}
    BY <1>1, <1>4
  <2> QED BY <1>2, <1>4, <2>1
<1> QED BY <1>3, <1>4

\* The next log to be made is the one behind the last.
LEMMA LastLog ==
    ASSUME Inv, NEW x \in History, LogsOk(x, manifest.walSeq, wals)
    PROVE  MaxSeq = x.last
<1>1. /\ MaxSeq \in DOMAIN wals \cup {manifest.walSeq} /\ MaxSeq \in Nat
      /\ manifest.walSeq <= MaxSeq /\ \A s \in DOMAIN wals : s <= MaxSeq
      /\ manifest.walSeq \in Nat
  BY MaxSeqIs, ManifestsAre
<1>2. x.last \in Nat /\ MaxSeq <= x.last
  BY <1>1, HistoryIs DEF LogsOk
<1>3. x.last <= MaxSeq
  <2>1. CASE x.last = manifest.walSeq
    BY <1>1, <2>1
  <2>2. CASE x.last # manifest.walSeq
    <3>1. x.last \in (manifest.walSeq + 1)..x.last
      BY <1>1, <1>2, <2>2 DEF LogsOk
    <3> QED BY <1>1, <3>1 DEF LogsOk, LogIs
  <2> QED BY <2>1, <2>2
<1> QED BY <1>1, <1>2, <1>3

----------------------------------------------------------------------------
(* What the parts of the store hold of the history *)

DataOf(st) == [c \in DOMAIN st.cols |-> Contents(Layers(st, c))]
BehindOf(st) == [c \in DOMAIN st.cols |-> [id \in Id |-> Behind(st, c, id)]]

SnapOf(st) ==
    [data |-> DataOf(st), catalog |-> [c \in DOMAIN st.cols |-> st.cols[c].name],
     next |-> st.manifest.nextCid]

\* The segments a manifest lists for collection c, newest first
SegmentsOn(man, files, c) ==
    LET ids == Backwards(man.cols[c].segs)
    IN  [i \in 1..Len(ids) |-> [id |-> ids[i], layer |-> files[<<c, ids[i]>>]]]

OnDisk(man, files) == [c \in DOMAIN man.cols |-> Contents(SegLayers(SegmentsOn(man, files, c)))]

\* How much of the history the manifest covers
Base(x, man) == x.start[man.walSeq + 1]

\* The segments on disk fit the place that the manifest covers.
BaseOk(x, man, files) ==
    /\ Fits(x, Base(x, man), OnDisk(man, files))
    /\ x.snap[Base(x, man)].next <= man.nextCid
    /\ man.nextCid <= x.snap[x.n].next

\* So do those in memory, until what waits has been committed.
SegmentsFit(x, man, st) ==
    st.pending = NoPending \/ man.walSeq < st.pending.walSeq =>
        \A c \in DOMAIN st.cols \cap DOMAIN x.snap[Base(x, man)].data :
            Contents(SegLayers(st.cols[c].segments)) = x.snap[Base(x, man)].data[c]

\* An open store answers with the last answers; what is behind its memtables
\* are the answers where its log begins, if there was a rotation.
UpOk(x, man, at, w, st) ==
    /\ st.wal = x.last /\ Whole(x, w)
    /\ x.snap[x.n].data = DataOf(st) /\ x.snap[x.n].next = st.manifest.nextCid
    /\ st.pending # NoPending => Fits(x, x.start[x.last], BehindOf(st))
    /\ SegmentsFit(x, man, st)
    /\ st.pending # NoPending /\ at \notin {"failed", "flushWrite", "flushStored"} =>
          man.walSeq < st.pending.walSeq

\* How far the replay is
Place(x, rep) == IF rep.seq = 0 THEN x.n ELSE x.start[rep.seq] + rep.pos

LoadOk(x, man, w, rep, st) ==
    /\ rep.seq # 0 => /\ rep.seq <= x.last /\ Len(w[rep.seq]) = Size(x, rep.seq)
                      /\ rep.pos <= Size(x, rep.seq)
    /\ Fits(x, Place(x, rep), DataOf(st))
    /\ x.snap[Place(x, rep)].next <= st.manifest.nextCid
    /\ st.manifest.nextCid <= x.snap[x.n].next
    /\ \A c \in DOMAIN x.snap[Place(x, rep)].data \ DOMAIN st.cols : c < man.nextCid

Counts(data) == [c \in DOMAIN data |-> Cardinality({id \in Id : data[c][id] # NoRecord})]

\* What clients saw last are the last answers.
SeenOk(x, view) ==
    /\ view.data = x.snap[x.n].data /\ view.next = x.snap[x.n].next
    /\ view.lengths = Counts(view.data)

Hist(x) ==
    /\ HistoryInv(x)
    /\ LogsOk(x, manifest.walSeq, wals)
    /\ BaseOk(x, manifest, segFiles)
    /\ phase = "up" => UpOk(x, manifest, maint.at, wals, state)
    /\ phase = "loading" => LoadOk(x, manifest, wals, replay, state)
    /\ SeenOk(x, seen)

HistInv == \E x \in History : Hist(x)

----------------------------------------------------------------------------
(* The answers of a state *)

LEMMA ContentsType ==
    ASSUME NEW layers \in Seq(Layer)
    PROVE  Contents(layers) \in Values /\ \A id \in Id : Contents(layers)[id] = Lookup(layers, id)
BY LookupType DEF Contents, Values

LEMMA SnapOfIs ==
    ASSUME NEW st, Good(st)
    PROVE  /\ SnapOf(st) \in Snapshot
           /\ SnapOf(st).data = DataOf(st) /\ SnapOf(st).next = st.manifest.nextCid
           /\ DataOf(st) \in Maps(Cid, Values) /\ DOMAIN DataOf(st) = DOMAIN st.cols
           /\ \A c \in DOMAIN st.cols, id \in Id : DataOf(st)[c][id] = Read(st, c, id)
           /\ Below(DOMAIN DataOf(st), st.manifest.nextCid)
           /\ DOMAIN st.cols \subseteq Cid /\ st.manifest.nextCid \in Nat
<1>1. /\ st \in StoreState /\ st.cols \in Maps(Cid, Col) /\ DOMAIN st.cols \subseteq Cid
      /\ st.manifest \in Manifest /\ st.manifest.nextCid \in Nat
  BY GoodIs, StateIs, MapsIs DEF Manifest
<1>2. ASSUME NEW c \in DOMAIN st.cols
      PROVE  /\ Contents(Layers(st, c)) \in Values /\ st.cols[c].name \in Name
             /\ \A id \in Id : Contents(Layers(st, c))[id] = Read(st, c, id)
             /\ c < st.manifest.nextCid
  <2>1. Layers(st, c) \in Seq(Layer) /\ st.cols[c] \in Col /\ GoodCol(st, c)
    BY <1>1, ColIs, GoodIs
  <2> QED BY <2>1, ContentsType DEF Read, Col, GoodCol
<1>3. DataOf(st) \in [DOMAIN st.cols -> Values] /\ DOMAIN DataOf(st) = DOMAIN st.cols
  BY <1>2 DEF DataOf
<1>4. DataOf(st) \in Maps(Cid, Values)
  BY <1>1, <1>3, MapsIs
<1> DEFINE names == [c \in DOMAIN st.cols |-> st.cols[c].name]
<1>5. names \in [DOMAIN st.cols -> Name] /\ DOMAIN names = DOMAIN st.cols
  BY <1>2
<1>6. names \in Maps(Cid, Name)
  <2> HIDE DEF names
  <2> QED BY <1>1, <1>5, MapsIs
<1>7. SnapOf(st) \in Snapshot
  BY <1>1, <1>4, <1>6 DEF SnapOf, Snapshot
<1>8. \A c \in DOMAIN st.cols, id \in Id : DataOf(st)[c][id] = Read(st, c, id)
  BY <1>2 DEF DataOf
<1>9. Below(DOMAIN DataOf(st), st.manifest.nextCid)
  BY <1>2, <1>3 DEF Below
<1> QED BY <1>1, <1>3, <1>4, <1>7, <1>8, <1>9 DEF SnapOf

\* The same reads are the same answers.
LEMMA SameData ==
    ASSUME NEW st, Good(st), NEW st2, Good(st2), DOMAIN st2.cols = DOMAIN st.cols,
           \A c \in DOMAIN st.cols, id \in Id : Read(st2, c, id) = Read(st, c, id)
    PROVE  DataOf(st2) = DataOf(st)
<1>1. ASSUME NEW c \in DOMAIN st.cols PROVE Contents(Layers(st2, c)) = Contents(Layers(st, c))
  BY DEF Contents, Read
<1> QED BY <1>1 DEF DataOf

\* What a record does to a state, it does to the answers.
LEMMA DoesFollows ==
    ASSUME NEW st, Good(st), NEW st2, Good(st2), NEW r, Does(st, r, st2),
           r.op = "create" => r.cid = st.manifest.nextCid,
           NEW d, d.data = DataOf(st), d.next = st.manifest.nextCid
    PROVE  Follows(d, r, SnapOf(st2))
<1>1. /\ DOMAIN d.data = DOMAIN st.cols
      /\ \A c \in DOMAIN st.cols, id \in Id : d.data[c][id] = Read(st, c, id)
      /\ d.next \in Nat /\ DOMAIN st.cols \subseteq Cid
  BY SnapOfIs
<1>2. /\ SnapOf(st2).data = DataOf(st2) /\ DOMAIN DataOf(st2) = DOMAIN st2.cols
      /\ \A c \in DOMAIN st2.cols, id \in Id : DataOf(st2)[c][id] = Read(st2, c, id)
      /\ SnapOf(st2).next = st2.manifest.nextCid
  BY SnapOfIs
<1>3. DOMAIN st2.cols = CidsAfter(r, DOMAIN st.cols)
  BY DEF Does
<1>4. ASSUME NEW c \in DOMAIN st2.cols, NEW id \in Id
      PROVE  DataOf(st2)[c][id] = ValueAfter(r, c, id, d.data[c][id])
  <2>1. Read(st2, c, id) = ValueAfter(r, c, id, Read(st, c, id))
    BY DEF Does
  <2>2. CASE c \in DOMAIN st.cols
    BY <1>1, <1>2, <2>1, <2>2
  <2>3. CASE c \notin DOMAIN st.cols
    <3>1. r.op = "create" /\ r.cid = c
      BY <1>3, <2>3 DEF CidsAfter
    <3> QED BY <1>2, <2>1, <3>1 DEF ValueAfter
  <2> QED BY <2>2, <2>3
<1>5. r.op = "create" => st2.manifest.nextCid = r.cid + 1
  BY <1>1 DEF Does, Larger
<1>6. r.op # "create" => st2.manifest.nextCid = d.next
  BY DEF Does
<1> QED BY <1>1, <1>2, <1>3, <1>4, <1>5, <1>6 DEF Follows

----------------------------------------------------------------------------
(* A client writes a record *)

\* What a client's record makes of the state
Records(st, r, st2) ==
    /\ r \in WalRecord /\ r.op \in OpKinds
    /\ r.op = "create" => r.cid = st.manifest.nextCid
    /\ Good(st2) /\ Does(st, r, st2) /\ SamePending(st, st2)
    /\ \A c \in DOMAIN st2.cols : OldSegments(st, st2, c) \/ (r.op = "create" /\ r.cid = c)

LEMMA ApplyRecords ==
    ASSUME NEW st, Good(st), NEW r, ClientRecord(st, r), Known(st, r), r.op \in OpKinds
    PROVE  Records(st, r, Apply(st, r))
<1>1. r \in WalRecord /\ r.op \notin {"torn", "blank"}
      /\ (r.op = "create" => r.cid = st.manifest.nextCid)
  BY DEF ClientRecord
<1>2. r.op = "create" => ~Waits(st, r.cid)
  <2>1. st.manifest.nextCid \in Nat
    BY GoodIs, StateIs DEF Manifest
  <2> QED BY <1>1, <2>1 DEF Good, Below, Waits
<1>3. Applied(st, Apply(st, r)) /\ Does(st, r, Apply(st, r))
  BY <1>1, <1>2, RecordApplied, RecordDoes
<1>4. \A c \in DOMAIN Apply(st, r).cols :
         OldSegments(st, Apply(st, r), c) \/ (r.op = "create" /\ r.cid = c)
  BY <1>1, <1>2, RecordApplied
<1>5. SamePending(st, Apply(st, r))
  BY ApplyMoves
<1> QED BY <1>1, <1>3, <1>4, <1>5 DEF Records, Applied

\* A rename or a swap that apply_record rejects is in the log all the same.
LEMMA RejectedRecords ==
    ASSUME NEW st, Good(st), NEW r \in WalRecord, r.op \in {"rename", "swap"}, r.op \in OpKinds
    PROVE  Records(st, r, st)
<1>1. SamePending(st, st)
  BY StaysMoves
<1>2. Does(st, r, st)
  BY DEF Does, CidsAfter, ValueAfter, Writes
<1> QED BY <1>1, <1>2 DEF Records, OldSegments

\* A drop, also from the waiting generation
LEMMA DropRecords ==
    ASSUME NEW st, Good(st), NEW r \in WalRecord, r.op = "drop", r.op \in OpKinds
    PROVE  Records(st, r, NotWaiting(Apply(st, r), r.cid))
<1> DEFINE mid == Apply(st, r)
           st2 == NotWaiting(mid, r.cid)
<1>1. Applied(st, mid) /\ Does(st, r, mid)
  BY RecordApplied, RecordDoes DEF Known, Refers
<1>2. \A c \in DOMAIN mid.cols : OldSegments(st, mid, c)
  BY RecordApplied DEF Known, Refers
<1>3. SamePending(st, st2)
  BY DropMoves
<1>4. Good(mid) /\ r.cid \notin DOMAIN mid.cols
  BY <1>1 DEF Applied, Does, CidsAfter
<1> HIDE DEF mid
<1>5. /\ Good(st2) /\ st2.manifest = mid.manifest /\ st2.cols = mid.cols
      /\ \A d \in DOMAIN mid.cols : SameLayers(mid, st2, d)
  BY <1>4, NotWaitingGood
<1>6. \A c \in DOMAIN mid.cols, id \in Id : Read(st2, c, id) = Read(mid, c, id)
  BY <1>5, SameLayersRead
<1> HIDE DEF st2
<1>7. Does(st, r, st2)
  BY <1>1, <1>5, <1>6 DEF Does
<1>8. \A c \in DOMAIN st2.cols : OldSegments(st, st2, c)
  BY <1>2, <1>5 DEF OldSegments
<1> QED BY <1>3, <1>5, <1>7, <1>8 DEF Records, st2, mid

\* Nothing changes behind the memtables.
LEMMA RecordsBehind ==
    ASSUME NEW st, Good(st), NEW r, NEW st2, Records(st, r, st2), NEW c \in DOMAIN st2.cols,
           ~(r.op = "create" /\ r.cid = c)
    PROVE  /\ c \in DOMAIN st.cols
           /\ Contents(SegLayers(st2.cols[c].segments)) = Contents(SegLayers(st.cols[c].segments))
           /\ BehindOf(st2)[c] = BehindOf(st)[c]
<1>1. c \in DOMAIN st.cols /\ st2.cols[c].segments = st.cols[c].segments
  BY DEF Records, OldSegments
<1>2. Waits(st2, c) <=> Waits(st, c)
  BY <1>1 DEF Records, SamePending, Waits
<1>3. Waits(st, c) => st2.pending.memtables[c] = st.pending.memtables[c]
  BY <1>1 DEF Records, SamePending, Waits
<1>4. \A id \in Id : Behind(st2, c, id) = Behind(st, c, id)
  BY <1>1, <1>2, <1>3 DEF Behind
<1> QED BY <1>1, <1>4 DEF BehindOf

LEMMA RecordedUp ==
    ASSUME NEW x \in History, HistoryInv(x), NEW man, NEW at, NEW w \in Logs, NEW st, NEW r,
           NEW st2, man.walSeq \in Nat, man.walSeq < x.last, LogsOk(x, man.walSeq, w),
           UpOk(x, man, at, w, st), Good(st), Records(st, r, st2)
    PROVE  /\ HistoryInv(Grown(x, r, SnapOf(st2)))
           /\ UpOk(Grown(x, r, SnapOf(st2)), man, at, [w EXCEPT ![x.last] = Append(@, r)], st2)
<1> DEFINE e == SnapOf(st2)
           y == Grown(x, r, e)
           files == [w EXCEPT ![x.last] = Append(@, r)]
<1>1. /\ r \in WalRecord /\ r.op \in OpKinds /\ Good(st2) /\ Does(st, r, st2)
      /\ SamePending(st, st2)
  BY DEF Records
<1>2. /\ e \in Snapshot /\ e.data = DataOf(st2) /\ e.next = st2.manifest.nextCid
      /\ Below(DOMAIN e.data, e.next)
  BY <1>1, SnapOfIs
<1>3. Follows(x.snap[x.n], r, e)
  BY <1>1, DoesFollows DEF UpOk, Records
<1> HIDE DEF e
<1>4. HistoryInv(y)
  BY <1>1, <1>2, <1>3, GrownKeeps
<1>5. /\ y.last = x.last /\ y.snap[y.n] = e /\ y.n = x.n + 1
      /\ \A s \in 0..x.last : y.start[s] = x.start[s]
      /\ \A k \in 0..x.n : y.snap[k] = x.snap[k]
  BY <1>1, <1>2, GrownIs
<1>6. Whole(y, files)
  BY <1>1, <1>2, LogsGrown DEF UpOk
<1> HIDE DEF files
<1>7. Base(x, man) \in 0..x.n
  BY BaseIs DEF Base
<1>8. /\ Base(y, man) = Base(x, man) /\ y.start[x.last] = x.start[x.last]
      /\ y.snap[Base(x, man)] = x.snap[Base(x, man)]
  <2>1. x.last \in Nat /\ man.walSeq + 1 \in 0..x.last /\ x.last \in 0..x.last
    BY HistoryIs
  <2> QED BY <1>5, <1>7, <2>1 DEF Base
<1>9. x.start[x.last] \in 0..x.n
  <2>1. LogIs(x, w, x.last)
    <3>1. x.last \in (man.walSeq + 1)..x.last
      BY HistoryIs
    <3> QED BY <3>1 DEF LogsOk
  <2>2. x.start[x.last] \in Nat /\ x.start[x.last + 1] \in Nat /\ x.n \in Nat
    BY HistoryIs
  <2> QED BY <2>1, <2>2 DEF LogIs
<1>10. ASSUME st2.pending # NoPending PROVE Fits(y, y.start[x.last], BehindOf(st2))
  <2>1. Fits(x, x.start[x.last], BehindOf(st))
    BY <1>1, <1>10 DEF UpOk, SamePending
  <2>2. DOMAIN BehindOf(st2) = DOMAIN st2.cols /\ DOMAIN BehindOf(st) = DOMAIN st.cols
        /\ DOMAIN st2.cols \subseteq Cid
    BY <1>1, SnapOfIs DEF BehindOf
  <2>3. \A c \in DOMAIN BehindOf(st2) :
           \/ c \in DOMAIN BehindOf(st) /\ BehindOf(st2)[c] = BehindOf(st)[c]
           \/ r.op = "create" /\ r.cid = c
    BY <2>2, RecordsBehind
  <2>4. \A c \in DOMAIN BehindOf(st) \ DOMAIN BehindOf(st2) : r.op = "drop" /\ r.cid = c
    BY <1>1, <2>2 DEF Does, CidsAfter
  <2> DEFINE k == x.start[x.last]
             old == BehindOf(st)
             new == BehindOf(st2)
  <2> HIDE DEF k, old, new, y
  <2>5. Fits(Grown(x, r, e), k, new)
    <3>1. k \in 0..x.n /\ DOMAIN new \subseteq Cid /\ Fits(x, k, old)
      BY <1>9, <2>1, <2>2 DEF k, old, new
    <3>2. \A c \in DOMAIN new : \/ c \in DOMAIN old /\ new[c] = old[c]
                                \/ r.op = "create" /\ r.cid = c
      BY <2>3 DEF old, new
    <3>3. \A c \in DOMAIN old \ DOMAIN new : r.op = "drop" /\ r.cid = c
      BY <2>4 DEF old, new
    <3> QED BY <1>1, <1>2, <1>3, <3>1, <3>2, <3>3, FitsGrown
  <2> QED BY <1>8, <2>5 DEF k, new, y
<1>11. SegmentsFit(y, man, st2)
  <2>1. ASSUME st2.pending = NoPending \/ man.walSeq < st2.pending.walSeq,
               NEW c \in DOMAIN st2.cols \cap DOMAIN x.snap[Base(x, man)].data
        PROVE  Contents(SegLayers(st2.cols[c].segments)) = x.snap[Base(x, man)].data[c]
    <3>1. st.pending = NoPending \/ man.walSeq < st.pending.walSeq
      BY <1>1, <2>1 DEF SamePending
    <3>2. ~(r.op = "create" /\ r.cid = c)
      <4>1. NumbersOk(x, Base(x, man)) /\ Base(x, man) \in Nat
        BY <1>7 DEF HistoryInv
      <4>2. c < x.snap[Base(x, man)].next /\ x.snap[Base(x, man)].next <= x.snap[x.n].next
        BY <4>1 DEF NumbersOk, Below
      <4>3. c \in Nat /\ x.snap[Base(x, man)].next \in Nat /\ x.snap[x.n].next \in Nat
        BY <4>1, <1>1, HistoryIs, SnapOfIs, CidIs
      <4> QED BY <1>3, <4>2, <4>3 DEF Follows
    <3>3. c \in DOMAIN st.cols
          /\ Contents(SegLayers(st2.cols[c].segments)) = Contents(SegLayers(st.cols[c].segments))
      BY <3>2, RecordsBehind
    <3> QED BY <3>1, <3>3 DEF UpOk, SegmentsFit
  <2> QED BY <1>8, <2>1 DEF SegmentsFit
<1>12. st2.wal = st.wal /\ (st2.pending # NoPending => st.pending # NoPending
                                 /\ st2.pending.walSeq = st.pending.walSeq)
  BY <1>1 DEF SamePending
<1> HIDE DEF y
<1>13. UpOk(y, man, at, files, st2)
  BY <1>2, <1>5, <1>6, <1>10, <1>11, <1>12 DEF UpOk
<1> QED BY <1>4, <1>13 DEF y, e, files

\* A rotation: what was answered waits, the next log begins.
LEMMA RotatedUp ==
    ASSUME NEW x \in History, NEW man, NEW at, NEW w \in Logs, NEW st,
           man.walSeq \in Nat, man.walSeq < x.last, LogsOk(x, man.walSeq, w),
           UpOk(x, man, at, w, st), Good(st), CanRotate(st)
    PROVE  UpOk(Rolled(x), man, at, Put(w, x.last + 1, <<>>), Rotated(st))
<1> DEFINE y == Rolled(x)
           st2 == Rotated(st)
           files == Put(w, x.last + 1, <<>>)
<1>1. /\ Good(st2) /\ st2.manifest = st.manifest /\ SameCols(st, st2) /\ RotatedFrom(st, st2)
      /\ \A c \in DOMAIN st.cols, id \in Id :
            Read(st2, c, id) = Read(st, c, id) /\ Behind(st2, c, id) = Read(st, c, id)
  BY RotatedGood
<1>2. /\ y.n = x.n /\ y.last = x.last + 1 /\ y.snap = x.snap /\ x.last \in Nat
      /\ \A s \in 0..(x.last + 1) : y.start[s] = x.start[s]
      /\ \A k, values : Fits(x, k, values) => Fits(y, k, values)
  BY RolledIs, RolledKeeps, HistoryIs
<1>3. Whole(y, files)
  BY LogsRolled
<1>4. x.start[x.last + 1] = x.n
  BY DEF LogsOk
<1> HIDE DEF y, st2, files
<1>5. Base(y, man) = Base(x, man) /\ y.start[y.last] = x.n
  <2>1. man.walSeq + 1 \in 0..(x.last + 1) /\ x.last + 1 \in 0..(x.last + 1)
    BY <1>2
  <2> QED BY <1>2, <1>4, <2>1 DEF Base
<1>6. DOMAIN st2.cols = DOMAIN st.cols
      /\ \A c \in DOMAIN st.cols : st2.cols[c].segments = st.cols[c].segments
  BY <1>1 DEF SameCols, OldSegments
<1>7. DataOf(st2) = DataOf(st)
  BY <1>1, <1>6, SameData
<1>8. BehindOf(st2) = DataOf(st)
  <2>1. ASSUME NEW c \in DOMAIN st.cols
        PROVE  [id \in Id |-> Behind(st2, c, id)] = Contents(Layers(st, c))
    BY <1>1 DEF Contents, Read
  <2> QED BY <1>6, <2>1 DEF BehindOf, DataOf
<1>9. Fits(y, y.start[y.last], BehindOf(st2))
  <2>1. x.snap[x.n].data = DataOf(st)
    BY DEF UpOk
  <2>2. Fits(x, x.n, DataOf(st))
    BY <2>1 DEF Fits
  <2> QED BY <1>2, <1>5, <1>8, <2>2
<1>10. st.pending = NoPending /\ st2.pending # NoPending /\ st2.pending.walSeq = st.wal
       /\ st2.wal = st.wal + 1
  BY <1>1 DEF RotatedFrom
<1>11. SegmentsFit(y, man, st2)
  BY <1>2, <1>5, <1>6, <1>10 DEF UpOk, SegmentsFit
<1>12. man.walSeq < st2.pending.walSeq /\ st2.wal = y.last
  BY <1>2, <1>10 DEF UpOk
<1>13. y.snap[y.n].data = DataOf(st2) /\ y.snap[y.n].next = st2.manifest.nextCid
  BY <1>1, <1>2, <1>7 DEF UpOk
<1>14. UpOk(y, man, at, files, st2)
  BY <1>3, <1>9, <1>11, <1>12, <1>13 DEF UpOk
<1> QED BY <1>14 DEF y, st2, files

\* What is on disk fits the same place after another record or log.
LEMMA BaseGrown ==
    ASSUME NEW x \in History, HistoryInv(x), NEW man, man.walSeq \in Nat, man.nextCid \in Nat,
           man.walSeq < x.last,
           NEW w, LogsOk(x, man.walSeq, w), NEW files, BaseOk(x, man, files), man.cols \in Maps(Cid, ListedCol),
           NEW r \in WalRecord, NEW e \in Snapshot, Follows(x.snap[x.n], r, e)
    PROVE  BaseOk(Grown(x, r, e), man, files)
<1> DEFINE y == Grown(x, r, e)
           k == Base(x, man)
           values == OnDisk(man, files)
<1>1. k \in 0..x.n /\ x.last \in Nat /\ x.n \in Nat
  BY BaseIs, HistoryIs DEF Base
<1>2. /\ y.snap[y.n] = e /\ y.snap[k] = x.snap[k]
      /\ \A s \in 0..x.last : y.start[s] = x.start[s]
  BY <1>1, GrownIs
<1>3. Base(y, man) = k
  BY <1>1, <1>2 DEF Base
<1>4. DOMAIN values \subseteq Cid /\ Fits(x, k, values)
  BY MapsIs DEF OnDisk, BaseOk
<1> HIDE DEF k, values, y
<1>5. Fits(Grown(x, r, e), k, values)
  BY <1>1, <1>4, FitsGrown
<1>6. x.snap[x.n].next <= e.next /\ man.nextCid <= e.next
  <2>1. x.snap[x.n].next <= e.next
    BY <1>1, HistoryIs DEF Follows
  <2>2. man.nextCid <= x.snap[x.n].next
    BY DEF BaseOk
  <2>3. x.snap[x.n].next \in Nat /\ e.next \in Nat
    BY <1>1, HistoryIs DEF Snapshot
  <2> QED BY <2>1, <2>2, <2>3
<1> QED BY <1>2, <1>3, <1>5, <1>6 DEF BaseOk, k, values, y

LEMMA BaseRolled ==
    ASSUME NEW x \in History, NEW man, man.walSeq \in Nat, NEW w, LogsOk(x, man.walSeq, w),
           NEW files, BaseOk(x, man, files)
    PROVE  BaseOk(Rolled(x), man, files)
<1>1. man.walSeq + 1 \in 0..(x.last + 1)
  BY HistoryIs DEF LogsOk
<1>2. Base(Rolled(x), man) = Base(x, man)
  BY <1>1, RolledIs DEF Base
<1> QED BY <1>2, RolledIs, RolledKeeps DEF BaseOk

\* What clients see of an open store are the last answers.
LEMMA SeenUp ==
    ASSUME NEW x, NEW man, NEW at, NEW w, NEW st, UpOk(x, man, at, w, st), Good(st)
    PROVE  SeenOk(x, View(st))
<1>1. /\ View(st).data = DataOf(st) /\ View(st).next = st.manifest.nextCid
      /\ View(st).lengths = [c \in DOMAIN st.cols |-> st.cols[c].liveLen]
  BY DEF View, DataOf
<1>2. ASSUME NEW c \in DOMAIN st.cols
      PROVE  st.cols[c].liveLen = Cardinality({id \in Id : DataOf(st)[c][id] # NoRecord})
  <2>1. st.cols[c].liveLen = Cardinality({id \in Id : IsIdLive(Layers(st, c), id)})
    BY DEF Good, GoodCol, LiveCount
  <2>2. {id \in Id : IsIdLive(Layers(st, c), id)} = {id \in Id : DataOf(st)[c][id] # NoRecord}
    BY DEF IsIdLive, DataOf, Contents
  <2> QED BY <2>1, <2>2
<1>3. DOMAIN DataOf(st) = DOMAIN st.cols
  BY DEF DataOf
<1>4. View(st).lengths = Counts(DataOf(st))
  BY <1>1, <1>2, <1>3 DEF Counts
<1> QED BY <1>1, <1>4 DEF SeenOk, UpOk

----------------------------------------------------------------------------
(* Clients: what is written is what the history says *)

\* No failed call leaves a log that is not whole: StoreProofs does without
\* this, but a record that stays behind a partial frame, or in a log without
\* memory, is one the recovery does not take for what it was.
CleanLogs == FailureKinds \subseteq {"open", "delete"}

\* A record that the API writes in a state
Asked(st, r) ==
    /\ ClientRecord(st, r) /\ r.op \in OpKinds
    /\ r.op \in {"create", "rename"} => r.name \in Name /\ r.name \notin DOMAIN st.names
    /\ r.op \in {"drop", "rename"} => \E name \in DOMAIN st.names : r.cid = st.names[name]
    /\ r.op = "swap" => \E a, b \in DOMAIN st.names :
          r.a = st.names[a] /\ r.b = st.names[b] /\ r.a # r.b
    /\ r.op \in {"upsert", "delete", "updateMeta"} => r.cid \in DOMAIN st.cols

Result(st, r) ==
    IF r.op = "drop" THEN NotWaiting(Apply(st, r), r.cid)
    ELSE IF Known(st, r) THEN Apply(st, r) ELSE st

NewLog(files) == Put(files, state.wal + 1, <<>>)

\* A client writes a record, or rotates, or both.
Writing(r) ==
    /\ StaysOnDisk /\ phase = "up" /\ written' = written + 1
    /\ Asked(state, r)
    /\ \/ state' = Result(state, r) /\ wals' = Logged(r)
       \/ /\ CanRotate(Result(state, r))
          /\ state' = Rotated(Result(state, r)) /\ wals' = NewLog(Logged(r))

Rotating ==
    /\ StaysOnDisk /\ phase = "up" /\ written' = written
    /\ CanRotate(state)
    /\ state' = Rotated(state) /\ wals' = NewLog(wals)

LEMMA ResultRecords ==
    ASSUME NEW st, Good(st), NEW r, Asked(st, r)
    PROVE  Records(st, r, Result(st, r))
<1>1. ClientRecord(st, r) /\ r.op \in OpKinds /\ r \in WalRecord
  BY DEF Asked, ClientRecord
<1>2. CASE r.op = "drop"
  BY <1>1, <1>2, DropRecords DEF Result
<1>3. CASE r.op # "drop" /\ Known(st, r)
  BY <1>1, <1>3, ApplyRecords DEF Result
<1>4. CASE r.op # "drop" /\ ~Known(st, r)
  <2>1. r.op \in {"rename", "swap"}
    BY <1>1, <1>4 DEF Known, Refers, Asked, WalRecord, ClientRecord
  <2> QED BY <1>1, <1>4, <2>1, RejectedRecords DEF Result
<1> QED BY <1>2, <1>3, <1>4

\* No log is newer than the active one.
ActiveIsLast == \A s \in DOMAIN wals : s <= state.wal

LEMMA CleanLogThen ==
    ASSUME CleanLogs, NEW r, NEW st, NEW files, LogThen(r, st, files)
    PROVE  state' = st /\ wals' = files
BY DEF CleanLogs, LogThen, Fails

LEMMA CleanCreate ==
    ASSUME CleanLogs, UpIs, ActiveIsLast, NEW st, st.wal = state.wal,
           NEW files, DOMAIN files = DOMAIN wals, FailedCreate(st, files)
    PROVE  FALSE
<1>1. st.wal + 1 \notin DOMAIN files
  BY UpGood DEF ActiveIsLast
<1> QED BY <1>1 DEF FailedCreate, CleanLogs, Fails

\* A record of log_and_apply, and a drop
LEMMA PlainWriting ==
    ASSUME CleanLogs, Inv, NEW op, Ready(op), NEW r, Asked(state, r),
           LogThen(r, Result(state, r), Logged(r))
    PROVE  Writing(r)
<1>1. StaysOnDisk /\ phase = "up" /\ written' = written + 1
  BY ReadyStays DEF Ready
<1>2. state' = Result(state, r) /\ wals' = Logged(r)
  BY CleanLogThen
<1> QED BY <1>1, <1>2 DEF Writing

\* A data record, with the rotation it may bring about
LEMMA FlushWriting ==
    ASSUME CleanLogs, Inv, ActiveIsLast, NEW op, Ready(op), NEW r, Asked(state, r),
           r.op \in {"upsert", "delete", "updateMeta"}, LogApplyFlush(r)
    PROVE  Writing(r)
<1> DEFINE st == Apply(state, r)
<1>1. StaysOnDisk /\ phase = "up" /\ written' = written + 1 /\ UpIs
  BY ReadyStays DEF Ready
<1>2. Known(state, r)
  BY DEF Known, Refers, Asked
<1>3. Result(state, r) = st
  BY <1>2 DEF Result
<1>4. Records(state, r, st)
  BY <1>1, <1>3, UpGood, ResultRecords
<1>5. st.wal = state.wal
  BY <1>4 DEF Records, SamePending
<1>6. CASE OverThreshold(st) /\ CanRotate(st)
  <2>1. CASE LogThen(r, Rotated(st), Put(Logged(r), st.wal + 1, <<>>))
    <3>1. state' = Rotated(st) /\ wals' = Put(Logged(r), st.wal + 1, <<>>)
      <4> HIDE DEF st
      <4> QED BY <2>1, CleanLogThen
    <3> HIDE DEF st
    <3> QED BY <1>1, <1>3, <1>5, <1>6, <3>1 DEF Writing, NewLog
  <2>2. CASE FailedCreate(st, Logged(r))
    <3>1. DOMAIN Logged(r) = DOMAIN wals
      BY DEF Logged
    <3> HIDE DEF st
    <3> QED BY <1>1, <1>5, <2>2, <3>1, CleanCreate
  <2> QED BY <1>6, <2>1, <2>2 DEF LogApplyFlush
<1>7. CASE ~(OverThreshold(st) /\ CanRotate(st))
  <2>1. LogThen(r, st, Logged(r))
    BY <1>7 DEF LogApplyFlush
  <2> HIDE DEF st
  <2>2. state' = st /\ wals' = Logged(r)
    BY <2>1, CleanLogThen
  <2> QED BY <1>1, <1>3, <2>2 DEF Writing
<1> QED BY <1>6, <1>7

LEMMA ClientWrites ==
    ASSUME CleanLogs, Inv, phase = "up" => ActiveIsLast, Client
    PROVE  (\E r \in WalRecord : Writing(r)) \/ Rotating
<1> DEFINE Writes0 == \E r \in WalRecord : Writing(r)
<1>0. \A r : Writing(r) => Writes0
  BY DEF Writing, Asked, ClientRecord
<1> HIDE DEF Writes0
<1>1. ASSUME NEW name \in Name, CreateCollection(name) PROVE Writes0
  <2> DEFINE r == [op |-> "create", cid |-> state.manifest.nextCid, name |-> name]
  <2>1. /\ Ready("create") /\ UpIs /\ state.manifest.nextCid < MaxCollections
        /\ LogAndApply(r) /\ name \notin DOMAIN state.names /\ "create" \in OpKinds
    BY <1>1, ReadyStays DEF CreateCollection, Ready
  <2>2. state.manifest.nextCid \in Cid
    BY <2>1, UpGood, StoreAssumption DEF Cid
  <2>3. r \in WalRecord
    BY <2>2 DEF WalRecord
  <2>4. Asked(state, r)
    BY <2>1, <2>3 DEF Asked, ClientRecord
  <2>5. r.op = "create"
    OBVIOUS
  <2> HIDE DEF r
  <2>6. LogThen(r, Result(state, r), Logged(r))
    BY <2>1, <2>5 DEF LogAndApply, Result
  <2> QED BY <1>0, <2>1, <2>4, <2>6, PlainWriting
<1>2. ASSUME NEW name \in Name, DropCollection(name) PROVE Writes0
  <2> DEFINE r == [op |-> "drop", cid |-> state.names[name]]
  <2>1. /\ Ready("drop") /\ UpIs /\ name \in DOMAIN state.names /\ "drop" \in OpKinds
        /\ LogThen(r, NotWaiting(Apply(state, r), state.names[name]), Logged(r))
    BY <1>2, ReadyStays DEF DropCollection, Ready
  <2>2. state.names[name] \in Cid
    BY <2>1, UpGood, StateIs, MapAt
  <2>3. r \in WalRecord
    BY <2>2 DEF WalRecord
  <2>4. Asked(state, r)
    BY <2>1, <2>3 DEF Asked, ClientRecord
  <2>5. r.op = "drop" /\ r.cid = state.names[name]
    OBVIOUS
  <2> HIDE DEF r
  <2>6. LogThen(r, Result(state, r), Logged(r))
    BY <2>1, <2>5 DEF Result
  <2> QED BY <1>0, <2>1, <2>4, <2>6, PlainWriting
<1>3. ASSUME NEW from \in Name, NEW to \in Name, RenameCollection(from, to) PROVE Writes0
  <2> DEFINE r == [op |-> "rename", cid |-> state.names[from], name |-> to]
  <2>1. /\ Ready("rename") /\ UpIs /\ from \in DOMAIN state.names /\ to \notin DOMAIN state.names
        /\ "rename" \in OpKinds /\ LogAndApply(r)
    BY <1>3, ReadyStays DEF RenameCollection, Ready
  <2>2. state.names[from] \in Cid
    BY <2>1, UpGood, StateIs, MapAt
  <2>3. r \in WalRecord
    BY <2>2 DEF WalRecord
  <2>4. Asked(state, r)
    BY <2>1, <2>3 DEF Asked, ClientRecord
  <2>5. r.op = "rename"
    OBVIOUS
  <2> HIDE DEF r
  <2>6. LogThen(r, Result(state, r), Logged(r))
    BY <2>1, <2>5 DEF LogAndApply, Result
  <2> QED BY <1>0, <2>1, <2>4, <2>6, PlainWriting
<1>4. ASSUME NEW a \in Name, NEW b \in Name, SwapCollectionNames(a, b) PROVE Writes0
  <2> DEFINE r == [op |-> "swap", a |-> state.names[a], b |-> state.names[b]]
  <2>1. /\ Ready("swap") /\ UpIs /\ {a, b} \subseteq DOMAIN state.names
        /\ state.names[a] # state.names[b] /\ "swap" \in OpKinds /\ LogAndApply(r)
    BY <1>4, ReadyStays DEF SwapCollectionNames, Ready
  <2>2. state.names[a] \in Cid /\ state.names[b] \in Cid
    BY <2>1, UpGood, StateIs, MapAt
  <2>3. r \in WalRecord
    BY <2>2 DEF WalRecord
  <2>4. Asked(state, r)
    BY <2>1, <2>3 DEF Asked, ClientRecord
  <2>5. r.op = "swap"
    OBVIOUS
  <2> HIDE DEF r
  <2>6. LogThen(r, Result(state, r), Logged(r))
    BY <2>1, <2>5 DEF LogAndApply, Result
  <2> QED BY <1>0, <2>1, <2>4, <2>6, PlainWriting
<1>5. ASSUME NEW op, Ready(op), NEW c \in DOMAIN state.cols, NEW r \in WalRecord, r.op = op,
             r.op \in {"upsert", "delete", "updateMeta"}, r.cid = c, LogApplyFlush(r)
      PROVE  Writes0
  <2>1. Asked(state, r)
    BY <1>5 DEF Asked, ClientRecord, Ready
  <2>2. phase = "up"
    BY <1>5 DEF Ready
  <2> QED BY <1>0, <1>5, <2>1, <2>2, FlushWriting
<1>6. ASSUME phase = "up", NEW c \in DOMAIN state.cols, NEW id \in Id, NEW rec \in Record,
             UpsertRecord(c, id, rec)
      PROVE  Writes0
  <2> DEFINE r == [op |-> "upsert", cid |-> c, id |-> id, rec |-> rec]
  <2>1. Ready("upsert") /\ LogApplyFlush(r)
    BY <1>6 DEF UpsertRecord
  <2>2. c \in Cid
    BY <2>1, ReadyStays, UpGood, ColIs
  <2>3. r \in WalRecord /\ r.op = "upsert" /\ r.cid = c
    BY <2>2 DEF WalRecord
  <2> HIDE DEF r
  <2> QED BY <1>5, <2>1, <2>3
<1>7. ASSUME phase = "up", NEW c \in DOMAIN state.cols, NEW id \in Id, DeleteRecord(c, id)
      PROVE  Writes0
  <2> DEFINE r == [op |-> "delete", cid |-> c, id |-> id]
  <2>1. Ready("delete") /\ LogApplyFlush(r)
    BY <1>7 DEF DeleteRecord
  <2>2. c \in Cid
    BY <2>1, ReadyStays, UpGood, ColIs
  <2>3. r \in WalRecord /\ r.op = "delete" /\ r.cid = c
    BY <2>2 DEF WalRecord
  <2> HIDE DEF r
  <2> QED BY <1>5, <2>1, <2>3
<1>8. ASSUME phase = "up", NEW c \in DOMAIN state.cols, NEW id \in Id, NEW metadata \in Metadata,
             UpdateMetadata(c, id, metadata)
      PROVE  Writes0
  <2> DEFINE r == [op |-> "updateMeta", cid |-> c, id |-> id, metadata |-> metadata]
  <2>1. Ready("updateMeta") /\ LogApplyFlush(r)
    BY <1>8 DEF UpdateMetadata
  <2>2. c \in Cid
    BY <2>1, ReadyStays, UpGood, ColIs
  <2>3. r \in WalRecord /\ r.op = "updateMeta" /\ r.cid = c
    BY <2>2 DEF WalRecord
  <2> HIDE DEF r
  <2> QED BY <1>5, <2>1, <2>3
<1>9. ASSUME Rotate PROVE Rotating
  <2>1. StaysOnDisk /\ phase = "up" /\ written' = written /\ CanRotate(state) /\ UpIs
    BY <1>9 DEF Rotate, StaysOnDisk, UpIs
  <2>2. ~FailedCreate(state, wals)
    BY <2>1, CleanCreate
  <2> QED BY <1>9, <2>1, <2>2 DEF Rotate, Rotating, NewLog
<1> QED BY <1>1, <1>2, <1>3, <1>4, <1>6, <1>7, <1>8, <1>9 DEF Client, Writes0

\* A step that leaves the store open
LEMMA UpHist ==
    ASSUME Inv', phase' = "up", Observe, NEW x \in History, HistoryInv(x),
           LogsOk(x, manifest'.walSeq, wals'), BaseOk(x, manifest', segFiles'),
           UpOk(x, manifest', maint'.at, wals', state')
    PROVE  Hist(x)'
<1>1. Good(state')
  BY DEF Inv, StateInv, Running
<1>2. seen' = View(state')
  BY DEF Observe
<1>3. SeenOk(x, seen')
  BY <1>1, <1>2, SeenUp
<1> QED BY <1>3 DEF Hist

\* What is known of an open store
LEMMA UpFacts ==
    ASSUME Inv, NEW x \in History, Hist(x), phase = "up"
    PROVE  /\ HistoryInv(x) /\ LogsOk(x, manifest.walSeq, wals) /\ wals \in Logs
           /\ BaseOk(x, manifest, segFiles) /\ UpOk(x, manifest, maint.at, wals, state)
           /\ Good(state) /\ state.wal = x.last /\ x.last \in Nat
           /\ manifest.walSeq \in Nat /\ manifest.walSeq < x.last /\ manifest.nextCid \in Nat
           /\ manifest.cols \in Maps(Cid, ListedCol)
           /\ x.last \in DOMAIN wals /\ ActiveIsLast
<1>1. /\ HistoryInv(x) /\ LogsOk(x, manifest.walSeq, wals)
      /\ BaseOk(x, manifest, segFiles) /\ UpOk(x, manifest, maint.at, wals, state)
  BY DEF Hist
<1>2. state.wal = x.last /\ x.last \in DOMAIN wals
  BY <1>1 DEF UpOk, Whole
<1>3. wals \in Logs /\ manifest.walSeq < state.wal
  BY DEF Inv, TypeOK, LogInv
<1>4. ActiveIsLast
  BY <1>1, <1>2 DEF ActiveIsLast, LogsOk
<1> QED BY <1>1, <1>2, <1>3, <1>4, ManifestsAre, HistoryIs DEF Running

\* A record in the active log, another log behind it
Recorded(x, r) == Grown(x, r, SnapOf(Result(state, r)))

LEMMA RecordedHist ==
    ASSUME Inv, NEW x \in History, Hist(x), phase = "up", NEW r, Asked(state, r)
    PROVE  /\ Recorded(x, r) \in History /\ HistoryInv(Recorded(x, r))
           /\ LogsOk(Recorded(x, r), manifest.walSeq, Logged(r)) /\ Logged(r) \in Logs
           /\ BaseOk(Recorded(x, r), manifest, segFiles)
           /\ UpOk(Recorded(x, r), manifest, maint.at, Logged(r), Result(state, r))
           /\ Good(Result(state, r)) /\ Recorded(x, r).last = x.last
<1> DEFINE st2 == Result(state, r)
           e == SnapOf(st2)
           files == [wals EXCEPT ![x.last] = Append(@, r)]
<1>1. /\ HistoryInv(x) /\ LogsOk(x, manifest.walSeq, wals) /\ wals \in Logs
      /\ BaseOk(x, manifest, segFiles) /\ UpOk(x, manifest, maint.at, wals, state)
      /\ Good(state) /\ state.wal = x.last /\ x.last \in Nat
      /\ manifest.walSeq \in Nat /\ manifest.walSeq < x.last /\ manifest.nextCid \in Nat
      /\ manifest.cols \in Maps(Cid, ListedCol) /\ x.last \in DOMAIN wals
  BY UpFacts
<1>2. Records(state, r, st2)
  BY <1>1, ResultRecords
<1> HIDE DEF st2
<1>3. r \in WalRecord /\ Good(st2) /\ Does(state, r, st2)
  BY <1>2 DEF Records
<1>4. e \in Snapshot
  BY <1>3, SnapOfIs
<1>5. Follows(x.snap[x.n], r, e)
  BY <1>1, <1>2, <1>3, DoesFollows DEF UpOk, Records
<1>6. HistoryInv(Grown(x, r, e)) /\ UpOk(Grown(x, r, e), manifest, maint.at, files, st2)
  BY <1>1, <1>2, RecordedUp
<1>7. LogsOk(Grown(x, r, e), manifest.walSeq, files)
  BY <1>1, <1>3, <1>4, LogsGrown DEF UpOk
<1>8. files \in Logs
  <2>1. wals[x.last] \in Seq(WalRecord)
    BY <1>1, LogIn
  <2>2. Append(wals[x.last], r) \in Seq(WalRecord)
    BY <1>3, <2>1
  <2>3. wals \in [DOMAIN wals -> Seq(WalRecord)] /\ DOMAIN wals \subseteq Nat
    BY <1>1, MapsIs DEF Logs
  <2>4. files \in [DOMAIN wals -> Seq(WalRecord)]
    BY <2>2, <2>3
  <2>5. DOMAIN files = DOMAIN wals
    OBVIOUS
  <2> HIDE DEF files
  <2> QED BY <2>3, <2>4, <2>5, MapsIs DEF Logs
<1>9. files = Logged(r)
  BY <1>1 DEF Logged
<1> HIDE DEF files
<1>10. BaseOk(Grown(x, r, e), manifest, segFiles)
  BY <1>1, <1>3, <1>4, <1>5, BaseGrown
<1>11. Grown(x, r, e) \in History /\ Grown(x, r, e).last = x.last
  BY <1>3, <1>4, GrownIs
<1> HIDE DEF e
<1>12. Recorded(x, r) = Grown(x, r, e)
  BY DEF Recorded, e, st2
<1> QED BY <1>3, <1>6, <1>7, <1>8, <1>9, <1>10, <1>11, <1>12 DEF st2

LEMMA WritingHist ==
    ASSUME Inv, Inv', Observe, NEW x \in History, Hist(x), NEW r, Writing(r),
           NEW y, y = Recorded(x, r)
    PROVE  /\ y \in History /\ Rolled(y) \in History
           /\ \/ /\ state' = Result(state, r) /\ wals' = Logged(r)
                 /\ Hist(y)'
              \/ /\ CanRotate(Result(state, r)) /\ state' = Rotated(Result(state, r))
                 /\ wals' = NewLog(Logged(r))
                 /\ Hist(Rolled(y))'
<1> DEFINE st == Result(state, r)
           files == Logged(r)
<1>1. /\ phase = "up" /\ phase' = "up" /\ manifest' = manifest /\ segFiles' = segFiles
      /\ maint' = maint /\ Asked(state, r)
  BY DEF Writing, StaysOnDisk
<1>2. /\ y \in History /\ HistoryInv(y) /\ LogsOk(y, manifest.walSeq, files) /\ files \in Logs
      /\ BaseOk(y, manifest, segFiles) /\ UpOk(y, manifest, maint.at, files, st)
      /\ Good(st) /\ y.last = x.last
  BY <1>1, RecordedHist
<1>3. /\ state.wal = x.last /\ x.last \in Nat
      /\ manifest.walSeq \in Nat /\ manifest.walSeq < x.last
  BY <1>1, UpFacts
<1> HIDE DEF st, files
<1>4. ASSUME state' = st, wals' = files PROVE Hist(y)'
  BY <1>1, <1>2, <1>4, UpHist
<1>5. ASSUME CanRotate(st), state' = Rotated(st), wals' = NewLog(files) PROVE Hist(Rolled(y))'
  <2>1. wals' = Put(files, y.last + 1, <<>>)
    BY <1>2, <1>3, <1>5 DEF NewLog
  <2>2. UpOk(Rolled(y), manifest, maint.at, wals', state')
    BY <1>2, <1>3, <1>5, <2>1, RotatedUp
  <2>3. LogsOk(Rolled(y), manifest.walSeq, wals')
    BY <1>2, <1>3, <2>1, LogsRolled
  <2>4. BaseOk(Rolled(y), manifest, segFiles)
    BY <1>2, <1>3, BaseRolled
  <2>5. Rolled(y) \in History /\ HistoryInv(Rolled(y))
    BY <1>2, RolledIs, RolledKeeps
  <2> QED BY <1>1, <2>2, <2>3, <2>4, <2>5, UpHist
<1>6. Rolled(y) \in History
  BY <1>2, RolledIs
<1> QED BY <1>2, <1>4, <1>5, <1>6 DEF Writing, st, files

LEMMA RotatingHist ==
    ASSUME Inv, Inv', Observe, NEW x \in History, Hist(x), Rotating
    PROVE  Hist(Rolled(x))'
<1>1. /\ phase = "up" /\ phase' = "up" /\ manifest' = manifest /\ segFiles' = segFiles
      /\ maint' = maint /\ CanRotate(state) /\ state' = Rotated(state) /\ wals' = NewLog(wals)
  BY DEF Rotating, StaysOnDisk
<1>2. /\ HistoryInv(x) /\ LogsOk(x, manifest.walSeq, wals) /\ wals \in Logs
      /\ BaseOk(x, manifest, segFiles) /\ UpOk(x, manifest, maint.at, wals, state)
      /\ Good(state) /\ state.wal = x.last /\ x.last \in Nat
      /\ manifest.walSeq \in Nat /\ manifest.walSeq < x.last
  BY <1>1, UpFacts
<1>3. wals' = Put(wals, x.last + 1, <<>>)
  BY <1>1, <1>2 DEF NewLog
<1>4. UpOk(Rolled(x), manifest, maint.at, wals', state')
  BY <1>1, <1>2, <1>3, RotatedUp
<1>5. LogsOk(Rolled(x), manifest.walSeq, wals')
  BY <1>2, <1>3, LogsRolled
<1>6. BaseOk(Rolled(x), manifest, segFiles)
  BY <1>2, BaseRolled
<1>7. Rolled(x) \in History /\ HistoryInv(Rolled(x))
  BY <1>2, RolledIs, RolledKeeps
<1> QED BY <1>1, <1>4, <1>5, <1>6, <1>7, UpHist

----------------------------------------------------------------------------
(* The maintenance thread: the history stays *)

\* Only the directories on the lists count.
LEMMA OnDiskSame ==
    ASSUME NEW man, man.cols \in Maps(Cid, ListedCol), NEW files, NEW files2,
           \A c \in DOMAIN man.cols : \A i \in DOMAIN man.cols[c].segs :
              files2[<<c, man.cols[c].segs[i]>>] = files[<<c, man.cols[c].segs[i]>>]
    PROVE  OnDisk(man, files2) = OnDisk(man, files)
<1>1. ASSUME NEW c \in DOMAIN man.cols
      PROVE SegmentsOn(man, files2, c) = SegmentsOn(man, files, c)
  <2> DEFINE ids == Backwards(man.cols[c].segs)
  <2>0. man.cols[c] \in ListedCol
    BY MapAt
  <2>1. man.cols[c].segs \in Seq(Nat)
    BY <2>0 DEF ListedCol
  <2>2. \A i \in DOMAIN ids : \E j \in DOMAIN man.cols[c].segs : ids[i] = man.cols[c].segs[j]
    BY <2>1, BackwardsEntries
  <2>3. ids \in Seq(Nat)
    BY <2>1, BackwardsIs
  <2> HIDE DEF ids
  <2>4. ASSUME NEW i \in 1..Len(ids) PROVE files2[<<c, ids[i]>>] = files[<<c, ids[i]>>]
    <3>1. DOMAIN ids = 1..Len(ids)
      BY <2>3
    <3>2. PICK j \in DOMAIN man.cols[c].segs : ids[i] = man.cols[c].segs[j]
      BY <2>2, <3>1
    <3> QED BY <3>2
  <2> QED BY <2>4 DEF SegmentsOn, ids
<1> QED BY <1>1 DEF OnDisk

\* A directory under a number that is on no list yet
LEMMA OnDiskPut ==
    ASSUME Inv, NEW c, NEW n \in Nat, manifest.nextSeg <= n, NEW layer
    PROVE  OnDisk(manifest, Put(segFiles, <<c, n>>, layer)) = OnDisk(manifest, segFiles)
<1>1. manifest.cols \in Maps(Cid, ListedCol) /\ manifest.nextSeg \in Nat
  BY ManifestsAre
<1>2. ASSUME NEW d \in DOMAIN manifest.cols, NEW i \in DOMAIN manifest.cols[d].segs
      PROVE /\ <<d, manifest.cols[d].segs[i]>> \in DOMAIN segFiles
            /\ <<d, manifest.cols[d].segs[i]>> # <<c, n>>
  <2>0. manifest.cols[d] \in ListedCol
    BY <1>1, MapAt
  <2>1. manifest.cols[d].segs \in Seq(Nat)
    BY <2>0 DEF ListedCol
  <2>2. manifest.cols[d].segs[i] < manifest.nextSeg /\ manifest.cols[d].segs[i] \in Nat
    BY <2>1 DEF Inv, ManifestInv, GoodIds
  <2> QED BY <1>1, <2>2 DEF Inv, FilesInv
<1>3. \A d \in DOMAIN manifest.cols : \A i \in DOMAIN manifest.cols[d].segs :
         Put(segFiles, <<c, n>>, layer)[<<d, manifest.cols[d].segs[i]>>]
           = segFiles[<<d, manifest.cols[d].segs[i]>>]
  BY <1>2 DEF Put
<1> QED BY <1>1, <1>3, OnDiskSame

\* A step that commits nothing and leaves the store open
LEMMA QuietHist ==
    ASSUME Inv, Inv', Observe, NEW x \in History, Hist(x), phase = "up",
           UNCHANGED <<manifest, wals, phase, state>>,
           OnDisk(manifest, segFiles') = OnDisk(manifest, segFiles),
           state.pending # NoPending /\ maint'.at \notin {"failed", "flushWrite", "flushStored"} =>
              manifest.walSeq < state.pending.walSeq
    PROVE  Hist(x)'
<1>1. /\ HistoryInv(x) /\ LogsOk(x, manifest.walSeq, wals)
      /\ BaseOk(x, manifest, segFiles) /\ UpOk(x, manifest, maint.at, wals, state)
  BY UpFacts
<1>2. BaseOk(x, manifest', segFiles')
  BY <1>1 DEF BaseOk
<1>3. UpOk(x, manifest', maint'.at, wals', state')
  BY <1>1 DEF UpOk
<1> QED BY <1>1, <1>2, <1>3, UpHist

LEMMA FlushReadHist ==
    ASSUME Inv, Inv', Observe, NEW x \in History, Hist(x), FlushRead
    PROVE  Hist(x)'
BY QuietHist DEF FlushRead, disk

LEMMA FlushWriteHist ==
    ASSUME Inv, Inv', Observe, NEW x \in History, Hist(x), FlushWrite
    PROVE  Hist(x)'
<1>1. maint.at = "flushWrite" /\ phase = "up" /\ maint \in FlushState /\ LockFree
  BY FlushIs DEF FlushWrite, LockFree
<1>2. PICK c \in DOMAIN maint.work :
         /\ segFiles' = Put(segFiles, <<c, maint.work[c].id>>, maint.work[c].layer)
         /\ maint' = [maint EXCEPT !.done = @ \cup {c}]
  BY DEF FlushWrite
<1>3. maint.work[c].id \in Nat /\ state.manifest.nextSeg <= maint.work[c].id
  BY <1>1, FlushIs DEF Inv, FlushInv
<1>4. manifest.nextSeg <= maint.work[c].id
  BY <1>1, <1>3, ManifestsAre DEF Running
<1>5. maint'.at = "flushWrite"
  BY <1>1, <1>2 DEF FlushState
<1> QED BY <1>1, <1>2, <1>3, <1>4, <1>5, OnDiskPut, QuietHist DEF FlushWrite

LEMMA CompactReadHist ==
    ASSUME Inv, Inv', Observe, NEW x \in History, Hist(x), CompactRead
    PROVE  Hist(x)'
<1>1. /\ phase = "up" /\ (maint = Idle \/ (maint = Failed /\ state.pending = NoPending))
      /\ UNCHANGED <<manifest, wals, segFiles, phase, state>>
  BY DEF CompactRead, disk
<1>2. state.pending # NoPending => manifest.walSeq < state.pending.walSeq
  BY <1>1, UpFacts DEF UpOk, Idle
<1> QED BY <1>1, <1>2, QuietHist DEF CompactRead

LEMMA CompactWriteHist ==
    ASSUME Inv, Inv', Observe, NEW x \in History, Hist(x), CompactWrite
    PROVE  Hist(x)'
<1>1. maint.at = "compactWrite" /\ phase = "up" /\ LockFree /\ maint.id \in Nat
  BY CompactIs DEF CompactWrite, LockFree
<1>2. manifest.nextSeg <= maint.id
  BY <1>1, ManifestsAre DEF Running, Inv, CompactInv
<1>3. OnDisk(manifest, segFiles') = OnDisk(manifest, segFiles)
  BY <1>1, <1>2, OnDiskPut DEF CompactWrite
<1>4. state.pending # NoPending => manifest.walSeq < state.pending.walSeq
  BY <1>1, UpFacts DEF UpOk
<1> QED BY <1>1, <1>3, <1>4, QuietHist DEF CompactWrite

LEMMA MaintFailHist ==
    ASSUME Inv, Inv', Observe, NEW x \in History, Hist(x), MaintFail
    PROVE  Hist(x)'
<1>1. phase = "up"
  BY FlushIs, CompactIs DEF MaintFail
<1> QED BY <1>1, QuietHist DEF MaintFail, disk, Failed

----------------------------------------------------------------------------
(* The commit of a flush *)

\* What a list names is what memory has.
LEMMA ListedSegments ==
    ASSUME NEW man, NEW files, NEW c, NEW segs \in Seq(Segment),
           man.cols[c].segs = Backwards(SegIds(segs)),
           \A i \in DOMAIN segs : Holds(files, c, segs[i])
    PROVE  SegmentsOn(man, files, c) = segs
<1> DEFINE ids == SegIds(segs)
<1>1. /\ ids \in Seq(Nat) /\ Len(ids) = Len(segs)
      /\ \A i \in 1..Len(segs) : ids[i] = segs[i].id /\ segs[i] \in Segment
  BY SegmentsAre
<1> HIDE DEF ids
<1>2. Backwards(man.cols[c].segs) = ids
  BY <1>1, BackwardsIs DEF ids
<1>3. ASSUME NEW i \in 1..Len(segs)
      PROVE  [id |-> ids[i], layer |-> files[<<c, ids[i]>>]] = segs[i]
  <2>1. Holds(files, c, segs[i]) /\ segs[i] \in Segment /\ ids[i] = segs[i].id
    BY <1>1
  <2> QED BY <2>1 DEF Holds, Segment
<1>4. SegmentsOn(man, files, c)
        = [i \in 1..Len(segs) |-> [id |-> ids[i], layer |-> files[<<c, ids[i]>>]]]
  BY <1>1, <1>2 DEF SegmentsOn
<1>5. SegmentsOn(man, files, c) = [i \in 1..Len(segs) |-> segs[i]]
  BY <1>3, <1>4
<1> QED BY <1>5

\* A flushed collection has in segments what was behind its active memtable.
LEMMA AfterReads ==
    ASSUME Inv, maint.at \in {"flushWrite", "flushStored"}, NEW c \in DOMAIN state.cols
    PROVE  Contents(SegLayers(After(c))) = BehindOf(state)[c]
<1>1. Good(state) /\ state \in StoreState
  BY FlushIs, ManifestsAre DEF Running
<1>2. state.cols[c].segments \in Seq(Segment) /\ SegLayers(state.cols[c].segments) \in Seq(Layer)
  BY <1>1, ColIs DEF Col
<1>3. /\ c \in DOMAIN maint.work <=> Waits(state, c)
      /\ c \in DOMAIN maint.work => maint.work[c].layer = state.pending.memtables[c]
  BY DEF Inv, FlushInv, Waits
<1>4. ASSUME NEW id \in Id PROVE Lookup(SegLayers(After(c)), id) = Behind(state, c, id)
  <2>1. CASE c \in DOMAIN maint.work
    <3>1. Flushed(c) \in Segment /\ Flushed(c).layer = maint.work[c].layer
      BY <2>1, FlushIs DEF Flushed, Segment
    <3>2. SegLayers(After(c)) = <<Flushed(c).layer>> \o SegLayers(state.cols[c].segments)
      BY <1>2, <2>1, <3>1, InFrontIds DEF After
    <3>3. Flushed(c).layer \in Layer
      BY <3>1 DEF Segment, GoodLayer
    <3>4. Lookup(SegLayers(After(c)), id)
            = IF Mentions(Flushed(c).layer, id) THEN ValueIn(Flushed(c).layer, id)
              ELSE Lookup(SegLayers(state.cols[c].segments), id)
      BY <1>2, <3>2, <3>3, LookupCons
    <3> QED BY <1>3, <2>1, <3>1, <3>4 DEF Behind
  <2>2. CASE c \notin DOMAIN maint.work
    BY <1>3, <2>2 DEF After, Behind
  <2> QED BY <2>1, <2>2
<1>5. Contents(SegLayers(After(c))) = [id \in Id |-> Behind(state, c, id)]
  BY <1>4 DEF Contents
<1> QED BY <1>5 DEF BehindOf

LEMMA FlushStoreHist ==
    ASSUME Inv, Inv', Observe, NEW x \in History, Hist(x), FlushStore
    PROVE  Hist(x)'
<1>1. /\ maint.at = "flushWrite" /\ maint.done = DOMAIN maint.work
      /\ manifest' = FlushedManifest /\ wals' = wals /\ segFiles' = segFiles
      /\ state' = state /\ phase' = phase /\ maint'.at = "flushStored"
  BY FlushIs DEF FlushStore, FlushState
<1>2. /\ phase = "up" /\ maint.walSeq = state.pending.walSeq /\ maint.walSeq \in Nat
      /\ state.pending # NoPending
  BY <1>1, FlushIs DEF Inv, FlushInv
<1>3. /\ HistoryInv(x) /\ LogsOk(x, manifest.walSeq, wals) /\ wals \in Logs
      /\ UpOk(x, manifest, maint.at, wals, state)
      /\ Good(state) /\ state.wal = x.last /\ x.last \in Nat
      /\ manifest.walSeq \in Nat
  BY <1>2, UpFacts
<1>4. manifest.walSeq <= maint.walSeq /\ x.last = maint.walSeq + 1
  BY <1>2, <1>3 DEF Inv, LogInv
<1>5. /\ FlushedManifest.nextCid = state.manifest.nextCid
      /\ FlushedManifest.walSeq = maint.walSeq
      /\ DOMAIN FlushedManifest.cols = DOMAIN state.cols
      /\ \A c \in DOMAIN state.cols : FlushedManifest.cols[c].segs = Backwards(SegIds(After(c)))
  BY <1>1, FlushedManifestIs
<1>6. Base(x, FlushedManifest) = x.start[x.last]
  BY <1>4, <1>5 DEF Base
<1>7. LogsOk(x, maint.walSeq, wals)
  BY <1>2, <1>3, <1>4, LogsFewer
<1>8. x.start[x.last] \in 0..x.n
  BY <1>2, <1>4, <1>7, BaseIs
<1>9. ASSUME NEW c \in DOMAIN state.cols
      PROVE  Contents(SegLayers(SegmentsOn(FlushedManifest, segFiles, c))) = BehindOf(state)[c]
  <2>1. After(c) \in Seq(Segment) /\ \A i \in DOMAIN After(c) : Holds(segFiles, c, After(c)[i])
    BY <1>1, AfterIs, AfterOnDisk
  <2>2. FlushedManifest.cols[c].segs = Backwards(SegIds(After(c)))
    BY <1>5
  <2>3. SegmentsOn(FlushedManifest, segFiles, c) = After(c)
    BY <2>1, <2>2, ListedSegments
  <2> QED BY <1>1, <2>3, AfterReads
<1>10. OnDisk(FlushedManifest, segFiles) = BehindOf(state)
  <2>1. BehindOf(state) = [c \in DOMAIN state.cols |-> BehindOf(state)[c]]
    BY DEF BehindOf
  <2> QED BY <1>5, <1>9, <2>1 DEF OnDisk
<1>11. Fits(x, x.start[x.last], BehindOf(state)) /\ x.snap[x.n].next = state.manifest.nextCid
  BY <1>2, <1>3 DEF UpOk
<1>12. x.snap[x.start[x.last]].next <= x.snap[x.n].next
  BY <1>3, <1>8 DEF HistoryInv, NumbersOk
<1>13. BaseOk(x, manifest', segFiles')
  <2>1. state.manifest.nextCid \in Nat
    BY <1>2, ManifestsAre DEF Running
  <2> QED BY <1>1, <1>5, <1>6, <1>10, <1>11, <1>12, <2>1 DEF BaseOk
<1>14. UpOk(x, manifest', maint'.at, wals', state')
  BY <1>1, <1>2, <1>3, <1>5 DEF UpOk, SegmentsFit
<1>15. LogsOk(x, manifest'.walSeq, wals')
  BY <1>1, <1>5, <1>7
<1> QED BY <1>1, <1>2, <1>3, <1>13, <1>14, <1>15, UpHist

\* Memory takes over what was flushed, logs and directories that the manifest
\* does without may go.
LEMMA FlushCommitsHist ==
    ASSUME Inv, Inv', Observe, NEW x \in History, Hist(x), maint.at = "flushStored",
           NEW cids, cids \subseteq DOMAIN maint.work,
           NEW pend \in {state.pending, NoPending},
           pend = NoPending => cids = DOMAIN maint.work,
           state' = [WithFlushed(cids) EXCEPT !.pending = pend],
           NEW S, DOMAIN Referenced(manifest, segFiles) \subseteq S, segFiles' = Keep(segFiles, S),
           FewerLogs(wals'), pend # NoPending => maint' = Failed,
           UNCHANGED <<manifest, phase>>
    PROVE  Hist(x)'
<1>1. /\ phase = "up" /\ state.pending # NoPending /\ maint.walSeq = state.pending.walSeq
      /\ manifest = FlushedManifest
  BY FlushIs DEF Inv, FlushInv, FollowInv
<1>2. /\ HistoryInv(x) /\ LogsOk(x, manifest.walSeq, wals) /\ wals \in Logs
      /\ BaseOk(x, manifest, segFiles) /\ UpOk(x, manifest, maint.at, wals, state)
      /\ Good(state) /\ state.wal = x.last /\ x.last \in Nat
      /\ manifest.walSeq \in Nat /\ manifest.walSeq < x.last
      /\ manifest.cols \in Maps(Cid, ListedCol)
  BY <1>1, UpFacts
<1>3. /\ manifest.walSeq = state.pending.walSeq /\ x.last = state.pending.walSeq + 1
      /\ manifest.nextCid = state.manifest.nextCid
  BY <1>1, <1>2, FlushedManifestIs DEF Inv, LogInv
<1>4. /\ Good(state') /\ state'.manifest = manifest /\ state'.wal = state.wal
      /\ state'.pending = pend /\ DOMAIN state'.cols = DOMAIN state.cols
      /\ \A c \in DOMAIN state.cols :
            state'.cols[c].segments = IF c \in cids THEN After(c) ELSE state.cols[c].segments
      /\ SameReads(state, state')
  <2>1. IsFlushed([WithFlushed(cids) EXCEPT !.pending = pend], cids, pend)
    BY WithFlushedIs
  <2> QED BY <2>1 DEF IsFlushed
<1>5. /\ DOMAIN wals' \subseteq DOMAIN wals
      /\ \A s \in DOMAIN wals : s > manifest.walSeq => s \in DOMAIN wals' /\ wals'[s] = wals[s]
  BY FewerLogsAre
<1>6. LogsOk(x, manifest.walSeq, wals')
  BY <1>2, <1>5, LogsFewer DEF LogsOk
<1>7. OnDisk(manifest, segFiles') = OnDisk(manifest, segFiles)
  BY <1>2, ListedStay, OnDiskSame
<1>8. BaseOk(x, manifest', segFiles')
  BY <1>2, <1>7 DEF BaseOk
<1>9. Whole(x, wals')
  BY <1>2, <1>5 DEF UpOk, Whole
<1>10. DataOf(state') = DataOf(state)
  <2>1. \A c \in DOMAIN state.cols, id \in Id : Read(state', c, id) = Read(state, c, id)
    BY Zenon, <1>4 DEF SameReads, Read
  <2> QED BY <1>2, <1>4, <2>1, SameData
<1>11. ASSUME NEW c \in DOMAIN state.cols, NEW id \in Id
       PROVE  Lookup(SegLayers(After(c)), id) = Behind(state, c, id)
  <2>1. Contents(SegLayers(After(c))) = [i \in Id |-> Behind(state, c, i)]
    BY AfterReads DEF BehindOf
  <2> QED BY <2>1 DEF Contents
<1>12. ASSUME pend # NoPending PROVE BehindOf(state') = BehindOf(state)
  <2>1. state'.pending = state.pending
    BY <1>4, <1>12
  <2>2. ASSUME NEW c \in DOMAIN state.cols, NEW id \in Id
        PROVE  Behind(state', c, id) = Behind(state, c, id)
    <3>1. Waits(state', c) <=> Waits(state, c)
      BY <2>1 DEF Waits
    <3>2. CASE Waits(state, c) /\ Mentions(state.pending.memtables[c], id)
      BY <2>1, <3>1, <3>2 DEF Behind
    <3>3. CASE ~(Waits(state, c) /\ Mentions(state.pending.memtables[c], id))
      <4>1. Behind(state, c, id) = Lookup(SegLayers(state.cols[c].segments), id)
        BY <3>3 DEF Behind
      <4>2. Behind(state', c, id) = Lookup(SegLayers(state'.cols[c].segments), id)
        BY <2>1, <3>1, <3>3 DEF Behind
      <4> QED BY <1>4, <1>11, <4>1, <4>2
    <3> QED BY <3>2, <3>3
  <2> QED BY <1>4, <2>2 DEF BehindOf
<1>13. ASSUME pend = NoPending PROVE SegmentsFit(x, manifest, state')
  <2>1. Base(x, manifest) = x.start[x.last]
    BY <1>2, <1>3 DEF Base
  <2>2. Fits(x, x.start[x.last], BehindOf(state))
    BY <1>1, <1>2 DEF UpOk
  <2>3. ASSUME NEW c \in DOMAIN state'.cols
        PROVE  Contents(SegLayers(state'.cols[c].segments)) = BehindOf(state)[c]
    <3>1. state'.cols[c].segments = After(c)
      BY <1>4, <1>13, <2>3 DEF After
    <3> QED BY <1>4, <3>1, AfterReads
  <2>4. DOMAIN BehindOf(state) = DOMAIN state'.cols
    BY <1>4 DEF BehindOf
  <2> QED BY <2>1, <2>2, <2>3, <2>4 DEF SegmentsFit, Fits
<1>14. ASSUME pend # NoPending PROVE SegmentsFit(x, manifest, state')
  <2>1. state'.pending = state.pending /\ ~(manifest.walSeq < state.pending.walSeq)
    BY <1>2, <1>3, <1>4, <1>14
  <2> QED BY <1>1, <2>1 DEF SegmentsFit
<1>15. UpOk(x, manifest', maint'.at, wals', state')
  <2>1. state'.wal = x.last /\ Whole(x, wals')
    BY <1>2, <1>4, <1>9
  <2>2. x.snap[x.n].data = DataOf(state') /\ x.snap[x.n].next = state'.manifest.nextCid
    BY <1>2, <1>3, <1>4, <1>10 DEF UpOk
  <2>3. state'.pending # NoPending => Fits(x, x.start[x.last], BehindOf(state'))
    BY <1>1, <1>2, <1>4, <1>12 DEF UpOk
  <2>4. SegmentsFit(x, manifest, state')
    BY <1>13, <1>14
  <2>5. state'.pending # NoPending => maint'.at = "failed"
    BY <1>4 DEF Failed
  <2> QED BY <2>1, <2>2, <2>3, <2>4, <2>5 DEF UpOk
<1> QED BY <1>1, <1>2, <1>6, <1>8, <1>15, UpHist

LEMMA FlushFinishHist ==
    ASSUME Inv, Inv', Observe, NEW x \in History, Hist(x), FlushFinish
    PROVE  Hist(x)'
<1>1. /\ maint.at = "flushStored"
      /\ state' = [WithFlushed(DOMAIN maint.work) EXCEPT !.pending = NoPending]
      /\ wals' = NewerWals(wals, maint.walSeq)
      /\ segFiles' = Referenced(manifest, segFiles)
      /\ UNCHANGED <<manifest, phase>>
  BY DEF FlushFinish
<1>2. maint.walSeq = manifest.walSeq /\ maint.walSeq \in Nat
  BY <1>1, FlushIs, FlushedManifestIs DEF Inv, FollowInv
<1>3. FewerLogs(wals')
  BY <1>1, <1>2, NewerWalsFewer
<1>4. segFiles' = Keep(segFiles, DOMAIN Referenced(manifest, segFiles))
  BY <1>1 DEF Referenced, Keep
<1> QED BY <1>1, <1>3, <1>4, FlushCommitsHist

LEMMA FlushDeleteFailsHist ==
    ASSUME Inv, Inv', Observe, NEW x \in History, Hist(x), FlushDeleteFails
    PROVE  Hist(x)'
<1>1. /\ maint.at = "flushStored"
      /\ state' = [WithFlushed(DOMAIN maint.work) EXCEPT !.pending = NoPending]
      /\ UNCHANGED <<manifest, phase>>
  BY DEF FlushDeleteFails
<1>2. maint.walSeq = manifest.walSeq /\ maint.walSeq \in Nat
  BY <1>1, FlushIs, FlushedManifestIs DEF Inv, FollowInv
<1>3. FewerLogs(wals')
  <2>1. \E seq \in 0..maint.walSeq : wals' = NewerWals(wals, seq)
    BY <1>2 DEF FlushDeleteFails
  <2> QED BY <1>2, <2>1, NewerWalsFewer
<1>4. \E S : /\ DOMAIN Referenced(manifest, segFiles) \subseteq S
             /\ segFiles' = Keep(segFiles, S)
  <2>1. CASE UNCHANGED segFiles
    <3>1. segFiles \in Maps(Cid \X Nat, GoodLayer)
      BY DEF Inv, TypeOK
    <3>2. segFiles' = Keep(segFiles, DOMAIN segFiles)
      BY <2>1, <3>1, KeepAll
    <3>3. DOMAIN Referenced(manifest, segFiles) \subseteq DOMAIN segFiles
      BY DEF Referenced, Keep
    <3> QED BY <3>2, <3>3
  <2>2. CASE \E left \in SUBSET DOMAIN segFiles :
                segFiles' = Keep(segFiles, left \cup DOMAIN Referenced(manifest, segFiles))
    BY <2>2
  <2> QED BY <2>1, <2>2 DEF FlushDeleteFails
<1> QED BY <1>1, <1>3, <1>4, FlushCommitsHist

LEMMA FlushOpenFailsHist ==
    ASSUME Inv, Inv', Observe, NEW x \in History, Hist(x), FlushOpenFails
    PROVE  Hist(x)'
<1>1. /\ maint.at = "flushStored" /\ maint' = Failed
      /\ UNCHANGED <<manifest, wals, segFiles, phase>>
  BY DEF FlushOpenFails, disk
<1>2. PICK c : state' = WithFlushed({d \in DOMAIN maint.work : d < c})
  BY DEF FlushOpenFails
<1> DEFINE cids == {d \in DOMAIN maint.work : d < c}
<1>3. state \in StoreState
  BY <1>1, FlushIs, ManifestsAre DEF Running
<1>4. state.pending # NoPending
  BY <1>1, FlushIs
<1>5. state' = [WithFlushed(cids) EXCEPT !.pending = state.pending]
  BY <1>2, <1>3 DEF WithFlushed, StoreState
<1>6. /\ segFiles' = Keep(segFiles, DOMAIN segFiles) /\ wals' = Keep(wals, DOMAIN wals)
      /\ DOMAIN Referenced(manifest, segFiles) \subseteq DOMAIN segFiles
  <2>1. segFiles \in Maps(Cid \X Nat, GoodLayer) /\ wals \in Maps(Nat, Seq(WalRecord))
    BY DEF Inv, TypeOK, Logs
  <2>2. DOMAIN Referenced(manifest, segFiles) \subseteq DOMAIN segFiles
    BY DEF Referenced, Keep
  <2> QED BY <1>1, <2>1, <2>2, KeepAll
<1>7. FewerLogs(wals')
  BY <1>6 DEF FewerLogs
<1> HIDE DEF cids
<1>8. cids \subseteq DOMAIN maint.work
  BY DEF cids
<1> QED BY <1>1, <1>4, <1>5, <1>6, <1>7, <1>8, FlushCommitsHist

----------------------------------------------------------------------------
(* The commit of a compaction *)

\* The merged segment answers as the run did.
LEMMA CompactedReads ==
    ASSUME Inv, Compacting, maint.cid \in DOMAIN state.cols
    PROVE  Contents(SegLayers(CompactedSegs)) = Contents(SegLayers(state.cols[maint.cid].segments))
<1>1. \A id \in Id : Lookup(SegLayers(CompactedSegs), id)
                       = Lookup(SegLayers(state.cols[maint.cid].segments), id)
  BY CompactedIs DEF ReplacedIs
<1> QED BY <1>1 DEF Contents

LEMMA CompactStoreHist ==
    ASSUME Inv, Inv', Observe, NEW x \in History, Hist(x), CompactStore
    PROVE  Hist(x)'
<1>1. /\ maint.at = "compactWritten" /\ phase = "up" /\ LockFree /\ Compacting
      /\ maint \in CompactState
      /\ UNCHANGED <<wals, segFiles, phase, state>>
  BY CompactIs DEF CompactStore, LockFree, Compacting
<1>2. /\ HistoryInv(x) /\ LogsOk(x, manifest.walSeq, wals)
      /\ BaseOk(x, manifest, segFiles) /\ UpOk(x, manifest, maint.at, wals, state)
      /\ manifest.walSeq \in Nat /\ manifest.nextCid \in Nat
      /\ manifest.cols \in Maps(Cid, ListedCol)
  BY <1>1, UpFacts
<1>3. state.pending # NoPending => manifest.walSeq < state.pending.walSeq
  BY <1>1, <1>2 DEF UpOk
<1>4. CASE maint.cid \notin DOMAIN state.cols
  BY <1>1, <1>3, <1>4, QuietHist DEF CompactStore
<1>5. CASE maint.cid \in DOMAIN state.cols
  <2>1. manifest' = CompactedManifest /\ maint'.at = "compactStored"
    BY <1>1, <1>5 DEF CompactStore, CompactState
  <2>2. /\ state.manifest.cols = manifest.cols /\ state.manifest.walSeq = manifest.walSeq
        /\ manifest.nextCid <= state.manifest.nextCid /\ state.manifest.nextCid \in Nat
    BY <1>1, ManifestsAre DEF Running
  <2>3. /\ CompactedManifest.nextCid = state.manifest.nextCid
        /\ CompactedManifest.walSeq = manifest.walSeq
        /\ DOMAIN CompactedManifest.cols = DOMAIN manifest.cols
        /\ CompactedManifest.cols[maint.cid].segs = Backwards(SegIds(CompactedSegs))
        /\ \A c \in DOMAIN manifest.cols : c # maint.cid =>
              CompactedManifest.cols[c] = manifest.cols[c]
    BY <1>1, <1>5, <2>2, CompactedManifestIs
  <2>4. Base(x, CompactedManifest) = Base(x, manifest)
    BY <2>3 DEF Base
  <2>5. SegmentsFit(x, manifest, state) /\ x.snap[x.n].next = state.manifest.nextCid
    BY <1>2 DEF UpOk
  <2>6. \A c \in DOMAIN state.cols \cap DOMAIN x.snap[Base(x, manifest)].data :
           Contents(SegLayers(state.cols[c].segments)) = x.snap[Base(x, manifest)].data[c]
    BY <1>3, <2>5 DEF SegmentsFit
  <2>7. SegmentsOn(CompactedManifest, segFiles, maint.cid) = CompactedSegs
    <3>1. CompactedSegs \in Seq(Segment)
      BY <1>1, <1>5, CompactedIs DEF ReplacedIs
    <3>2. \A i \in DOMAIN CompactedSegs : Holds(segFiles, maint.cid, CompactedSegs[i])
      BY <1>1, <1>5, CompactedOnDisk
    <3> QED BY <2>3, <3>1, <3>2, ListedSegments
  <2>8. ASSUME NEW c \in DOMAIN manifest.cols, c # maint.cid
        PROVE  OnDisk(CompactedManifest, segFiles)[c] = OnDisk(manifest, segFiles)[c]
    <3>1. CompactedManifest.cols[c] = manifest.cols[c]
      BY <2>3, <2>8
    <3>2. SegmentsOn(CompactedManifest, segFiles, c) = SegmentsOn(manifest, segFiles, c)
      BY <3>1 DEF SegmentsOn
    <3> QED BY <2>3, <3>2 DEF OnDisk
  <2>9. ASSUME maint.cid \in DOMAIN x.snap[Base(x, manifest)].data,
               maint.cid \in DOMAIN manifest.cols
        PROVE  OnDisk(CompactedManifest, segFiles)[maint.cid]
                 = x.snap[Base(x, manifest)].data[maint.cid]
    <3>1. OnDisk(CompactedManifest, segFiles)[maint.cid] = Contents(SegLayers(CompactedSegs))
      BY <2>3, <2>7, <2>9 DEF OnDisk
    <3> QED BY <1>1, <1>5, <2>6, <2>9, <3>1, CompactedReads
  <2>10. /\ DOMAIN OnDisk(CompactedManifest, segFiles) = DOMAIN manifest.cols
         /\ DOMAIN OnDisk(manifest, segFiles) = DOMAIN manifest.cols
    BY <2>3 DEF OnDisk
  <2>11. Fits(x, Base(x, manifest), OnDisk(CompactedManifest, segFiles))
    BY <1>2, <2>8, <2>9, <2>10 DEF BaseOk, Fits
  <2>12. BaseOk(x, manifest', segFiles')
    <3>1. x.snap[Base(x, manifest)].next <= manifest.nextCid
      BY <1>2 DEF BaseOk
    <3>2. x.snap[Base(x, manifest)].next \in Nat
      BY <1>2, BaseIs, HistoryIs DEF Base
    <3>3. x.snap[Base(x, manifest)].next <= state.manifest.nextCid
      BY <1>2, <2>2, <3>1, <3>2
    <3> QED BY <1>1, <2>1, <2>2, <2>3, <2>4, <2>5, <2>11, <3>3 DEF BaseOk
  <2>13. UpOk(x, manifest', maint'.at, wals', state')
    BY <1>1, <1>2, <1>3, <2>1, <2>3, <2>4 DEF UpOk, SegmentsFit
  <2>14. LogsOk(x, manifest'.walSeq, wals')
    BY <1>1, <1>2, <2>1, <2>3
  <2> QED BY <1>1, <1>2, <2>12, <2>13, <2>14, UpHist
<1> QED BY <1>4, <1>5

\* Memory takes over the manifest of a compaction, with the merged segment or
\* still with the run.
LEMMA CompactCommitsHist ==
    ASSUME Inv, Inv', Observe, NEW x \in History, Hist(x), maint.at = "compactStored",
           UNCHANGED <<manifest, wals, phase>>,
           OnDisk(manifest, segFiles') = OnDisk(manifest, segFiles),
           state'.manifest = manifest, state'.wal = state.wal, state'.pending = state.pending,
           DOMAIN state'.cols = DOMAIN state.cols, SameReads(state, state'),
           \A c \in DOMAIN state.cols : Contents(SegLayers(state'.cols[c].segments))
                                          = Contents(SegLayers(state.cols[c].segments))
    PROVE  Hist(x)'
<1>1. phase = "up" /\ manifest.nextCid = state.manifest.nextCid
  BY CompactCommitIs
<1>2. /\ HistoryInv(x) /\ LogsOk(x, manifest.walSeq, wals)
      /\ BaseOk(x, manifest, segFiles) /\ UpOk(x, manifest, maint.at, wals, state) /\ Good(state)
  BY <1>1, UpFacts
<1>3. Good(state')
  BY <1>1 DEF Inv, StateInv, Running
<1>4. DataOf(state') = DataOf(state)
  BY <1>2, <1>3, SameData DEF SameReads, Read
<1>5. BehindOf(state') = BehindOf(state)
  <2>1. ASSUME NEW c \in DOMAIN state.cols, NEW id \in Id
        PROVE  Behind(state', c, id) = Behind(state, c, id)
    <3>1. Lookup(SegLayers(state'.cols[c].segments), id)
            = Lookup(SegLayers(state.cols[c].segments), id)
      <4>1. /\ Contents(SegLayers(state'.cols[c].segments))[id]
                 = Lookup(SegLayers(state'.cols[c].segments), id)
            /\ Contents(SegLayers(state.cols[c].segments))[id]
                 = Lookup(SegLayers(state.cols[c].segments), id)
        BY DEF Contents
      <4> QED BY <4>1
    <3> QED BY <3>1 DEF Behind, Waits
  <2> QED BY <2>1 DEF BehindOf
<1>6. SegmentsFit(x, manifest, state')
  BY <1>2 DEF UpOk, SegmentsFit
<1>7. UpOk(x, manifest', maint'.at, wals', state')
  BY <1>1, <1>2, <1>4, <1>5, <1>6 DEF UpOk
<1>8. BaseOk(x, manifest', segFiles')
  BY <1>2 DEF BaseOk
<1> QED BY <1>1, <1>2, <1>7, <1>8, UpHist

\* The directories of the run are on no list.
LEMMA RunFilesGo ==
    ASSUME Inv, maint.at = "compactStored", NEW gone, gone \subseteq RunFiles,
           NEW files, files = Keep(segFiles, DOMAIN segFiles \ gone)
    PROVE  OnDisk(manifest, files) = OnDisk(manifest, segFiles)
<1>1. /\ Compacting /\ maint.cid \in DOMAIN state.cols
      /\ manifest.cols[maint.cid].segs = Backwards(SegIds(CompactedSegs))
  BY CompactCommitIs
<1>2. ASSUME NEW c \in DOMAIN manifest.cols, NEW i \in DOMAIN manifest.cols[c].segs
      PROVE  <<c, manifest.cols[c].segs[i]>> \in DOMAIN segFiles \ gone
  <2>1. <<c, manifest.cols[c].segs[i]>> \in DOMAIN segFiles
    BY DEF Inv, FilesInv
  <2>2. CASE c # maint.cid
    BY <2>1, <2>2 DEF RunFiles
  <2>3. CASE c = maint.cid
    <3>1. CompactedSegs \in Seq(Segment)
      BY <1>1, CompactedIs DEF ReplacedIs
    <3>2. SegIds(CompactedSegs) \in Seq(Nat)
      BY <3>1, SegmentsAre
    <3>3. PICK j \in DOMAIN SegIds(CompactedSegs) :
             manifest.cols[c].segs[i] = SegIds(CompactedSegs)[j]
      BY <1>1, <2>3, <3>2, BackwardsEntries
    <3>4. j \in DOMAIN CompactedSegs /\ SegIds(CompactedSegs)[j] = CompactedSegs[j].id
      BY <3>1, SegmentsAre DEF SegIds
    <3>5. <<maint.cid, CompactedSegs[j].id>> \notin RunFiles
      BY <1>1, <3>4, CompactedOnDisk
    <3> QED BY <2>1, <2>3, <3>3, <3>4, <3>5
  <2> QED BY <2>2, <2>3
<1>3. \A c \in DOMAIN manifest.cols : \A i \in DOMAIN manifest.cols[c].segs :
         files[<<c, manifest.cols[c].segs[i]>>] = segFiles[<<c, manifest.cols[c].segs[i]>>]
  BY <1>2 DEF Keep
<1>4. manifest.cols \in Maps(Cid, ListedCol)
  BY ManifestsAre
<1> QED BY <1>3, <1>4, OnDiskSame

LEMMA WithCompactedHist ==
    ASSUME Inv, Inv', Observe, NEW x \in History, Hist(x), maint.at = "compactStored",
           state' = WithCompacted, NEW gone, gone \subseteq RunFiles,
           segFiles' = Keep(segFiles, DOMAIN segFiles \ gone),
           UNCHANGED <<manifest, wals, phase>>
    PROVE  Hist(x)'
<1>1. Compacting /\ maint.cid \in DOMAIN state.cols
  BY CompactCommitIs
<1>2. OnDisk(manifest, segFiles') = OnDisk(manifest, segFiles)
  BY RunFilesGo
<1>3. /\ state'.manifest = manifest /\ state'.wal = state.wal /\ state'.pending = state.pending
      /\ DOMAIN state'.cols = DOMAIN state.cols
      /\ state'.cols[maint.cid].segments = CompactedSegs
      /\ \A c \in DOMAIN state.cols : c # maint.cid => state'.cols[c] = state.cols[c]
      /\ SameReads(state, state')
  BY WithCompactedIs
<1>4. \A c \in DOMAIN state.cols : Contents(SegLayers(state'.cols[c].segments))
                                     = Contents(SegLayers(state.cols[c].segments))
  BY <1>1, <1>3, CompactedReads
<1> QED BY <1>2, <1>3, <1>4, CompactCommitsHist

LEMMA CompactOpenFailsHist ==
    ASSUME Inv, Inv', Observe, NEW x \in History, Hist(x), CompactOpenFails
    PROVE  Hist(x)'
<1>1. /\ maint.at = "compactStored" /\ state' = [state EXCEPT !.manifest = manifest]
      /\ UNCHANGED <<manifest, wals, segFiles, phase>>
  BY DEF CompactOpenFails, disk
<1>2. state \in StoreState
  BY <1>1, CompactCommitIs, ManifestsAre DEF Running
<1>3. /\ state'.manifest = manifest /\ state'.wal = state.wal /\ state'.pending = state.pending
      /\ state'.cols = state.cols
  BY <1>1, <1>2 DEF StoreState
<1>4. SameReads(state, state')
  BY <1>3 DEF SameReads, Layers
<1> QED BY <1>1, <1>3, <1>4, CompactCommitsHist

LEMMA MaintenanceHist ==
    ASSUME Inv, Inv', Observe, NEW x \in History, Hist(x), Maintenance
    PROVE  Hist(x)'
<1>1. CASE CompactFinish
  BY <1>1, WithCompactedHist DEF CompactFinish
<1>2. CASE CompactDeleteFails
  BY <1>2, WithCompactedHist DEF CompactDeleteFails
<1> QED BY <1>1, <1>2, FlushReadHist, FlushWriteHist, FlushStoreHist, FlushFinishHist,
           FlushOpenFailsHist, FlushDeleteFailsHist, CompactReadHist, CompactWriteHist,
           CompactStoreHist, CompactOpenFailsHist, MaintFailHist DEF Maintenance

----------------------------------------------------------------------------
(* Process death and recovery *)

LEMMA HistFacts ==
    ASSUME Inv, NEW x \in History, Hist(x)
    PROVE  /\ HistoryInv(x) /\ LogsOk(x, manifest.walSeq, wals) /\ wals \in Logs
           /\ BaseOk(x, manifest, segFiles) /\ SeenOk(x, seen)
           /\ manifest.walSeq \in Nat /\ manifest.nextCid \in Nat /\ x.last \in Nat
           /\ manifest.walSeq <= x.last
           /\ manifest.cols \in Maps(Cid, ListedCol)
<1>1. wals \in Logs
  BY DEF Inv, TypeOK
<1>2. HistoryInv(x) /\ LogsOk(x, manifest.walSeq, wals) /\ BaseOk(x, manifest, segFiles)
      /\ SeenOk(x, seen)
  BY DEF Hist
<1> QED BY <1>1, <1>2, ManifestsAre, HistoryIs DEF LogsOk

\* A store that is not open, or cannot be opened
LEMMA DownHist ==
    ASSUME Inv, Observe, NEW x \in History, Hist(x), phase' \notin {"up", "loading"},
           UNCHANGED <<manifest, segFiles>>, LogsOk(x, manifest.walSeq, wals')
    PROVE  Hist(x)'
<1>1. HistoryInv(x) /\ BaseOk(x, manifest, segFiles) /\ SeenOk(x, seen)
  BY HistFacts
<1>2. seen' = seen
  BY DEF Observe
<1> QED BY <1>1, <1>2 DEF Hist

LEMMA CrashHist ==
    ASSUME Inv, Observe, NEW x \in History, Hist(x), Crash
    PROVE  Hist(x)'
BY HistFacts, DownHist DEF Crash, Down, disk

LEMMA CrashInAppendHist ==
    ASSUME Inv, Observe, NEW x \in History, Hist(x), CrashInAppend
    PROVE  Hist(x)'
<1>1. /\ phase = "up" /\ wals' = Logged(Torn) /\ phase' = "down"
      /\ UNCHANGED <<manifest, segFiles>>
  BY DEF CrashInAppend, Down
<1>2. /\ LogsOk(x, manifest.walSeq, wals) /\ wals \in Logs /\ manifest.walSeq \in Nat
      /\ UpOk(x, manifest, maint.at, wals, state) /\ state.wal = x.last
  BY <1>1, UpFacts
<1>3. Whole(x, wals)
  BY <1>2 DEF UpOk
<1>4. wals' = [wals EXCEPT ![x.last] = Append(@, Torn)]
  BY <1>1, <1>2 DEF Logged
<1>5. LogsOk(x, manifest.walSeq, wals')
  BY <1>2, <1>3, <1>4, LogsTorn
<1> QED BY <1>1, <1>5, DownHist

\* A step that leaves the store loading
LEMMA LoadHist ==
    ASSUME Observe, phase' = "loading", NEW x \in History, HistoryInv(x),
           LogsOk(x, manifest'.walSeq, wals'), BaseOk(x, manifest', segFiles'),
           LoadOk(x, manifest', wals', replay', state'), SeenOk(x, seen)
    PROVE  Hist(x)'
<1>1. seen' = seen
  BY DEF Observe
<1> QED BY <1>1 DEF Hist

\* Replay goes on where the log before ended.
LEMMA StartsReplay ==
    ASSUME Inv, NEW x \in History, Hist(x), NEW from \in Nat, manifest.walSeq <= from,
           from <= x.last, StartReplay(from)
    PROVE  /\ LogsOk(x, manifest.walSeq, wals')
           /\ Place(x, replay') = x.start[from + 1]
           /\ replay'.seq # 0 => /\ replay'.seq <= x.last
                                 /\ Len(wals'[replay'.seq]) = Size(x, replay'.seq)
                                 /\ replay'.pos <= Size(x, replay'.seq)
<1>1. /\ HistoryInv(x) /\ LogsOk(x, manifest.walSeq, wals) /\ wals \in Logs
      /\ manifest.walSeq \in Nat /\ x.last \in Nat
  BY HistFacts
<1>2. NextWal(from) = IF from < x.last THEN from + 1 ELSE 0
  BY <1>1, NextLog
<1>3. replay' = [seq |-> NextWal(from), pos |-> 0]
  BY DEF StartReplay
<1>4. CASE from < x.last
  <2> DEFINE s == from + 1
           seq == manifest.walSeq
           files == wals'
  <2>1. /\ NextWal(from) = s /\ s # 0 /\ s \in Nat
        /\ s \in (manifest.walSeq + 1)..x.last
    BY <1>1, <1>2, <1>4
  <2>2. files = Cut(wals, s)
    BY <2>1 DEF StartReplay, Cut
  <2>3. seq \in Nat /\ LogsOk(x, seq, wals) /\ s \in (seq + 1)..x.last
    BY <1>1, <2>1
  <2> HIDE DEF s, seq, files
  <2>4. LogsOk(x, seq, files) /\ Len(files[s]) = Size(x, s)
    BY <1>1, <2>2, <2>3, LogsCut
  <2>5. x.start[s] \in Nat /\ x.start[s + 1] \in Nat
    BY <2>1, HistoryIs
  <2>6. x.start[s] <= x.start[s + 1]
    BY <2>3 DEF LogsOk, LogIs
  <2>7. 0 <= Size(x, s)
    BY <2>5, <2>6 DEF Size
  <2>8. s <= x.last
    BY <1>1, <2>1, <2>3 DEF seq
  <2>9. replay'.seq = s /\ replay'.pos = 0
    BY <1>3, <2>1
  <2>10. Place(x, replay') = x.start[from + 1]
    BY <2>1, <2>5, <2>9 DEF Place, s
  <2> QED BY <2>4, <2>7, <2>8, <2>9, <2>10 DEF seq, files
<1>5. CASE ~(from < x.last)
  <2>1. from = x.last /\ NextWal(from) = 0
    BY <1>1, <1>2, <1>5
  <2>2. wals' = wals
    BY <2>1 DEF StartReplay
  <2>3. x.start[from + 1] = x.n
    BY <1>1, <2>1 DEF LogsOk
  <2> QED BY <1>1, <1>3, <2>1, <2>2, <2>3 DEF Place
<1> QED BY <1>4, <1>5

\* What load_state finds on disk answers with the segments of the manifest.
LEMMA LoadedData ==
    ASSUME Inv
    PROVE  DataOf(LoadedState) = OnDisk(manifest, segFiles)
<1>1. /\ Good(LoadedState) /\ LoadedState.pending = NoPending
      /\ DOMAIN LoadedState.cols = DOMAIN manifest.cols
      /\ \A c \in DOMAIN manifest.cols : LoadedState.cols[c].segments = SegmentsOf(c)
  BY LoadedIs
<1>2. LoadedState \in StoreState
  BY <1>1 DEF Good
<1>3. ASSUME NEW c \in DOMAIN manifest.cols
      PROVE  Contents(Layers(LoadedState, c)) = Contents(SegLayers(SegmentsOf(c)))
  <2>1. LoadedState.cols[c].memtable = EmptyLayer
    BY DEF LoadedState, NewCollection
  <2>2. ASSUME NEW id \in Id
        PROVE  Lookup(Layers(LoadedState, c), id) = Lookup(SegLayers(SegmentsOf(c)), id)
    <3>1. ~Mentions(LoadedState.cols[c].memtable, id)
      BY <2>1 DEF EmptyLayer, Mentions, HasRow
    <3>2. ~Waits(LoadedState, c)
      BY <1>1 DEF Waits
    <3> QED BY <1>1, <1>2, <3>1, <3>2, LookupLayers
  <2> QED BY <2>2 DEF Contents
<1>4. \A c : SegmentsOn(manifest, segFiles, c) = SegmentsOf(c)
  BY DEF SegmentsOn, SegmentsOf
<1> QED BY <1>1, <1>3, <1>4 DEF DataOf, OnDisk

LEMMA OpenLoadHist ==
    ASSUME Inv, Observe, NEW x \in History, Hist(x), OpenLoad
    PROVE  Hist(x)'
<1>1. /\ HistoryInv(x) /\ LogsOk(x, manifest.walSeq, wals)
      /\ BaseOk(x, manifest, segFiles) /\ SeenOk(x, seen)
      /\ manifest.walSeq \in Nat /\ manifest.nextCid \in Nat /\ x.last \in Nat
      /\ manifest.walSeq <= x.last
  BY HistFacts
<1>2. SegmentsReadable
  BY DEF Inv, FilesInv, SegmentsReadable
<1>3. /\ phase' = "loading" /\ state' = LoadedState /\ StartReplay(manifest.walSeq)
      /\ UNCHANGED <<manifest, segFiles>>
  BY <1>2 DEF OpenLoad
<1>4. /\ LogsOk(x, manifest.walSeq, wals') /\ Place(x, replay') = Base(x, manifest)
      /\ replay'.seq # 0 => /\ replay'.seq <= x.last
                            /\ Len(wals'[replay'.seq]) = Size(x, replay'.seq)
                            /\ replay'.pos <= Size(x, replay'.seq)
  BY <1>1, <1>3, StartsReplay DEF Base
<1>5. /\ DataOf(LoadedState) = OnDisk(manifest, segFiles)
      /\ LoadedState.manifest = manifest /\ DOMAIN LoadedState.cols = DOMAIN manifest.cols
  BY LoadedData, LoadedIs
<1>6. Base(x, manifest) \in 0..x.n
  BY <1>1, BaseIs DEF Base
<1>7. ASSUME NEW c \in DOMAIN x.snap[Base(x, manifest)].data
      PROVE  c < manifest.nextCid
  <2>1. c < x.snap[Base(x, manifest)].next
    BY <1>1, <1>6 DEF HistoryInv, NumbersOk, Below
  <2>2. x.snap[Base(x, manifest)].next <= manifest.nextCid
    BY <1>1 DEF BaseOk
  <2>3. x.snap[Base(x, manifest)].next \in Nat /\ x.snap[Base(x, manifest)].data \in Maps(Cid, Values)
    BY <1>6, HistoryIs
  <2>4. DOMAIN x.snap[Base(x, manifest)].data \subseteq Cid
    BY <2>3, MapsIs
  <2>5. c \in Nat
    BY <2>4, CidIs
  <2> QED BY <1>1, <2>1, <2>2, <2>3, <2>5
<1>8. LoadOk(x, manifest', wals', replay', state')
  BY <1>1, <1>3, <1>4, <1>5, <1>7 DEF LoadOk, BaseOk
<1> QED BY <1>1, <1>3, <1>4, <1>8, LoadHist

\* What is known of a store that is being loaded
LEMMA LoadFacts ==
    ASSUME Inv, NEW x \in History, Hist(x), phase = "loading"
    PROVE  /\ LoadOk(x, manifest, wals, replay, state)
           /\ Good(state) /\ state \in StoreState /\ state.pending = NoPending
           /\ state.manifest.nextCid \in Nat
           /\ replay \in [seq : Nat, pos : Nat]
           /\ replay.seq # 0 => replay.seq \in (manifest.walSeq + 1)..x.last
           /\ DataOf(state) \in Maps(Cid, Values)
<1>1. LoadOk(x, manifest, wals, replay, state)
  BY DEF Hist
<1>2. Good(state) /\ state \in StoreState /\ state.manifest.nextCid \in Nat
  BY ManifestsAre DEF Running
<1>3. replay \in [seq : Nat, pos : Nat] /\ state.pending = NoPending
      /\ (replay.seq # 0 => replay.seq > manifest.walSeq)
  BY DEF Inv, TypeOK, ReplayInv
<1>4. replay.seq # 0 => replay.seq <= x.last
  BY <1>1 DEF LoadOk
<1>5. manifest.walSeq \in Nat /\ x.last \in Nat
  BY HistFacts
<1>6. replay.seq # 0 => replay.seq \in (manifest.walSeq + 1)..x.last
  BY <1>3, <1>4, <1>5
<1> QED BY <1>1, <1>2, <1>3, <1>6, SnapOfIs

\* The record in front of the replay is the next one of the history.
LEMMA NextRecordIs ==
    ASSUME Inv, NEW x \in History, Hist(x), AtRecord
    PROVE  /\ Place(x, replay) \in 0..x.n /\ Place(x, replay) + 1 \in 1..x.n
           /\ NextRecord = x.rec[Place(x, replay) + 1]
           /\ replay.pos + 1 <= Size(x, replay.seq)
           /\ Place(x, [replay EXCEPT !.pos = @ + 1]) = Place(x, replay) + 1
<1> DEFINE s == replay.seq
           p == replay.pos
<1>1. phase = "loading" /\ s # 0 /\ p < Len(wals[s])
  BY DEF AtRecord
<1>2. /\ LoadOk(x, manifest, wals, replay, state)
      /\ replay \in [seq : Nat, pos : Nat] /\ s \in (manifest.walSeq + 1)..x.last
  BY <1>1, LoadFacts
<1>3. LogIs(x, wals, s)
  BY <1>2, HistFacts DEF LogsOk
<1>4. /\ s \in Nat /\ p \in Nat /\ x.start[s] \in Nat /\ x.start[s + 1] \in Nat /\ x.n \in Nat
  BY <1>2, HistoryIs
<1>5. Len(wals[s]) = Size(x, s)
  BY <1>1, <1>2 DEF LoadOk
<1>6. p + 1 \in 1..Size(x, s)
  <2>1. Size(x, s) \in Nat
    BY <1>3, <1>4 DEF LogIs, Size
  <2> QED BY <1>1, <1>4, <1>5, <2>1
<1>7. wals[s][p + 1] = x.rec[x.start[s] + (p + 1)]
  BY <1>3, <1>6 DEF LogIs
<1>8. Place(x, replay) = x.start[s] + p
  BY <1>1 DEF Place
<1>9. x.start[s] + p + 1 <= x.n
  BY <1>3, <1>4, <1>6 DEF LogIs, Size
<1>10. Place(x, [replay EXCEPT !.pos = @ + 1]) = x.start[s] + (p + 1)
  <2>1. /\ [replay EXCEPT !.pos = @ + 1].seq = s /\ [replay EXCEPT !.pos = @ + 1].pos = p + 1
    BY <1>2
  <2> QED BY <1>1, <2>1 DEF Place
<1>11. x.start[s] + (p + 1) = x.start[s] + p + 1
  BY <1>4
<1>12. p + 1 <= Size(x, s)
  BY <1>4, <1>6 DEF Size
<1> HIDE DEF s, p
<1> QED BY <1>4, <1>7, <1>8, <1>9, <1>10, <1>11, <1>12 DEF NextRecord, s, p

\* One record of the history further
LEMMA ReplayedOk ==
    ASSUME Inv, NEW x \in History, Hist(x), AtRecord, Known(state, NextRecord),
           NEW st, st = Apply(state, NextRecord), Good(st)
    PROVE  LoadOk(x, manifest, wals, [replay EXCEPT !.pos = @ + 1], st)
<1> DEFINE k == Place(x, replay)
           r == NextRecord
           rep == [replay EXCEPT !.pos = @ + 1]
<1>1. phase = "loading" /\ replay.seq # 0
  BY DEF AtRecord
<1>2. /\ LoadOk(x, manifest, wals, replay, state) /\ Good(state)
      /\ state.pending = NoPending /\ state.manifest.nextCid \in Nat
      /\ replay \in [seq : Nat, pos : Nat] /\ DataOf(state) \in Maps(Cid, Values)
  BY <1>1, LoadFacts
<1>3. HistoryInv(x) /\ manifest.nextCid \in Nat
  BY HistFacts
<1>4. /\ k \in 0..x.n /\ k + 1 \in 1..x.n /\ r = x.rec[k + 1] /\ Place(x, rep) = k + 1
      /\ replay.pos + 1 <= Size(x, replay.seq)
  BY NextRecordIs
<1>5. rep.seq = replay.seq /\ rep.pos = replay.pos + 1
  BY <1>2
<1> HIDE DEF k, r, rep
<1>6. k \in Nat /\ k + 1 \in 0..x.n /\ k < x.n /\ x.n \in Nat /\ k + 1 - 1 = k
  BY <1>4, HistoryIs
<1>7. r \in WalRecord /\ r.op \notin {"torn", "blank"}
  BY <1>3, <1>4, <1>6, HistoryIs, NotTorn
<1>8. Does(state, r, st)
  BY <1>2, <1>7, RecordDoes DEF r, Waits
<1>9. /\ DataOf(st) \in Maps(Cid, Values) /\ DOMAIN DataOf(st) = DOMAIN st.cols
      /\ \A c \in DOMAIN st.cols, id \in Id : DataOf(st)[c][id] = Read(st, c, id)
      /\ DOMAIN DataOf(state) = DOMAIN state.cols
      /\ \A c \in DOMAIN state.cols, id \in Id : DataOf(state)[c][id] = Read(state, c, id)
  BY <1>2, SnapOfIs
<1>10. AfterRecord(r, DataOf(state), DataOf(st))
  <2>1. DOMAIN DataOf(st) = CidsAfter(r, DOMAIN DataOf(state))
    BY <1>8, <1>9 DEF Does
  <2>2. ASSUME NEW c \in DOMAIN DataOf(st), NEW id \in Id
        PROVE  DataOf(st)[c][id] = ValueAfter(r, c, id, DataOf(state)[c][id])
    <3>1. DataOf(st)[c][id] = ValueAfter(r, c, id, Read(state, c, id))
      BY <1>8, <1>9 DEF Does
    <3>2. c \in DOMAIN state.cols \/ (r.op = "create" /\ r.cid = c)
      BY <1>9, <2>1 DEF CidsAfter
    <3>3. CASE c \in DOMAIN state.cols
      BY <1>9, <3>1, <3>3
    <3>4. CASE r.op = "create" /\ r.cid = c
      BY <3>1, <3>4 DEF ValueAfter
    <3> QED BY <3>2, <3>3, <3>4
  <2> QED BY <2>1, <2>2 DEF AfterRecord
<1>11. Fits(x, k + 1, DataOf(st))
  <2>1. Fits(x, k, DataOf(state))
    BY <1>2 DEF LoadOk, k
  <2> QED BY <1>3, <1>4, <1>6, <1>9, <1>10, <2>1, FitsNext
<1>12. Follows(x.snap[k], r, x.snap[k + 1])
  BY <1>3, <1>4, <1>6 DEF HistoryInv
<1>13. /\ x.snap[k].next <= state.manifest.nextCid
       /\ state.manifest.nextCid <= x.snap[x.n].next
       /\ \A c \in DOMAIN x.snap[k].data \ DOMAIN state.cols : c < manifest.nextCid
  BY <1>2 DEF LoadOk, k
<1>14. x.snap[k + 1].next <= x.snap[x.n].next
  BY <1>3, <1>6 DEF HistoryInv, NumbersOk
<1>15. /\ x.snap[k].next \in Nat /\ x.snap[k + 1].next \in Nat /\ x.snap[x.n].next \in Nat
  BY <1>6, HistoryIs
<1>16. /\ x.snap[k + 1].next <= st.manifest.nextCid
       /\ st.manifest.nextCid <= x.snap[x.n].next
  <2>1. CASE r.op = "create"
    <3>1. st.manifest.nextCid = Larger(state.manifest.nextCid, r.cid + 1)
      BY <1>8, <2>1 DEF Does
    <3>2. x.snap[k + 1].next = r.cid + 1 /\ r.cid + 1 \in Nat
      BY <1>12, <1>15, <2>1 DEF Follows
    <3> QED BY <1>2, <1>13, <1>14, <1>15, <3>1, <3>2 DEF Larger
  <2>2. CASE r.op # "create"
    <3>1. st.manifest.nextCid = state.manifest.nextCid
      BY <1>8, <2>2 DEF Does
    <3>2. x.snap[k + 1].next = x.snap[k].next
      BY <1>12, <2>2 DEF Follows
    <3> QED BY <1>13, <3>1, <3>2
  <2> QED BY <2>1, <2>2
<1>17. ASSUME NEW c \in DOMAIN x.snap[k + 1].data \ DOMAIN st.cols
       PROVE  c < manifest.nextCid
  <2>1. c \in CidsAfter(r, DOMAIN x.snap[k].data)
    BY <1>12 DEF Follows
  <2>2. c \notin CidsAfter(r, DOMAIN state.cols)
    BY <1>8 DEF Does
  <2>3. c \in DOMAIN x.snap[k].data \ DOMAIN state.cols
    BY <2>1, <2>2 DEF CidsAfter
  <2> QED BY <1>13, <2>3
<1>18. rep.seq # 0 => /\ rep.seq <= x.last /\ Len(wals[rep.seq]) = Size(x, rep.seq)
                      /\ rep.pos <= Size(x, rep.seq)
  BY <1>1, <1>2, <1>4, <1>5 DEF LoadOk
<1>19. LoadOk(x, manifest, wals, rep, st)
  BY <1>4, <1>11, <1>16, <1>17, <1>18 DEF LoadOk
<1> QED BY <1>19 DEF rep

LEMMA ReplayRecordHist ==
    ASSUME Inv, Inv', Observe, NEW x \in History, Hist(x), ReplayRecord
    PROVE  Hist(x)'
<1>1. /\ HistoryInv(x) /\ LogsOk(x, manifest.walSeq, wals)
      /\ BaseOk(x, manifest, segFiles) /\ SeenOk(x, seen)
  BY HistFacts
<1>2. /\ AtRecord /\ phase = "loading" /\ UNCHANGED <<manifest, wals, segFiles>>
  BY DEF ReplayRecord, AtRecord, disk
<1>3. CASE Known(state, NextRecord)
  <2>1. /\ state' = Apply(state, NextRecord) /\ replay' = [replay EXCEPT !.pos = @ + 1]
        /\ phase' = "loading"
    BY <1>2, <1>3 DEF ReplayRecord
  <2>2. Good(state')
    BY <2>1 DEF Inv, StateInv, Running
  <2>3. LoadOk(x, manifest, wals, replay', state')
    BY <1>2, <1>3, <2>1, <2>2, ReplayedOk
  <2> QED BY <1>1, <1>2, <2>1, <2>3, LoadHist
<1>4. CASE ~Known(state, NextRecord)
  BY <1>1, <1>2, <1>4, DownHist DEF ReplayRecord
<1> QED BY <1>3, <1>4

LEMMA ReplayFileEndHist ==
    ASSUME Inv, Inv', Observe, NEW x \in History, Hist(x), ReplayFileEnd
    PROVE  Hist(x)'
<1> DEFINE s == replay.seq
<1>1. /\ phase = "loading" /\ phase' = "loading" /\ ~AtRecord /\ s # 0 /\ StartReplay(s)
      /\ UNCHANGED <<manifest, segFiles, state>>
  BY DEF ReplayFileEnd
<1>2. /\ LoadOk(x, manifest, wals, replay, state)
      /\ replay \in [seq : Nat, pos : Nat] /\ s \in (manifest.walSeq + 1)..x.last
  BY <1>1, LoadFacts
<1>3. /\ HistoryInv(x) /\ LogsOk(x, manifest.walSeq, wals) /\ manifest.walSeq \in Nat
      /\ BaseOk(x, manifest, segFiles) /\ SeenOk(x, seen) /\ x.last \in Nat
  BY HistFacts
<1>4. LogIs(x, wals, s)
  BY <1>2, <1>3 DEF LogsOk
<1>5. s \in Nat /\ manifest.walSeq <= s /\ s <= x.last
      /\ x.start[s] \in Nat /\ x.start[s + 1] \in Nat
  BY <1>2, <1>3, HistoryIs
<1>6. Len(wals[s]) = Size(x, s) /\ replay.pos <= Size(x, s)
  BY <1>1, <1>2 DEF LoadOk
<1>7. ~(replay.pos < Len(wals[s]))
  BY <1>1 DEF AtRecord
<1>8. replay.pos = Size(x, s)
  BY <1>2, <1>5, <1>6, <1>7 DEF Size
<1>9. Place(x, replay) = x.start[s + 1]
  BY <1>1, <1>5, <1>8 DEF Place, Size
<1>10. /\ LogsOk(x, manifest.walSeq, wals') /\ Place(x, replay') = x.start[s + 1]
       /\ replay'.seq # 0 => /\ replay'.seq <= x.last
                             /\ Len(wals'[replay'.seq]) = Size(x, replay'.seq)
                             /\ replay'.pos <= Size(x, replay'.seq)
  BY <1>1, <1>5, StartsReplay
<1>11. LoadOk(x, manifest', wals', replay', state')
  BY <1>1, <1>2, <1>9, <1>10 DEF LoadOk
<1> QED BY <1>1, <1>3, <1>10, <1>11, LoadHist

\* At the end of the replay memory has the last answers.
LEMMA ReplayedAll ==
    ASSUME Inv, NEW x \in History, Hist(x), phase = "loading", replay.seq = 0
    PROVE  /\ x.snap[x.n].data = DataOf(state) /\ x.snap[x.n].next = state.manifest.nextCid
           /\ SegmentsFit(x, manifest, state)
<1>1. /\ LoadOk(x, manifest, wals, replay, state) /\ DataOf(state) \in Maps(Cid, Values)
      /\ state.manifest.nextCid \in Nat
  BY LoadFacts
<1>2. /\ HistoryInv(x) /\ LogsOk(x, manifest.walSeq, wals) /\ BaseOk(x, manifest, segFiles)
      /\ manifest.walSeq \in Nat
  BY HistFacts
<1>3. Place(x, replay) = x.n
  BY DEF Place
<1>4. DataOf(state) = x.snap[x.n].data
  <2>1. Fits(x, x.n, DataOf(state))
    BY <1>1, <1>3 DEF LoadOk
  <2> QED BY <1>1, <2>1, FitsEnd
<1>5. x.snap[x.n].next = state.manifest.nextCid
  <2>1. x.snap[x.n].next \in Nat
    BY HistoryIs
  <2> QED BY <1>1, <1>3, <2>1 DEF LoadOk
<1>6. Base(x, manifest) \in 0..x.n
  BY <1>2, BaseIs DEF Base
<1>7. ASSUME NEW c \in DOMAIN state.cols \cap DOMAIN x.snap[Base(x, manifest)].data
      PROVE  Contents(SegLayers(state.cols[c].segments)) = x.snap[Base(x, manifest)].data[c]
  <2>1. CASE c \in DOMAIN manifest.cols /\ state.cols[c].segments = SegmentsOf(c)
    <3>1. OnDisk(manifest, segFiles)[c] = Contents(SegLayers(state.cols[c].segments))
      BY <2>1 DEF OnDisk, SegmentsOn, SegmentsOf
    <3>2. c \in DOMAIN OnDisk(manifest, segFiles)
      BY <2>1 DEF OnDisk
    <3> QED BY <1>2, <3>1, <3>2 DEF BaseOk, Fits
  <2>2. CASE c \notin DOMAIN manifest.cols
    <3>1. c \notin DOMAIN OnDisk(manifest, segFiles)
      BY <2>2 DEF OnDisk
    <3>2. Later(x, Base(x, manifest), DropsOf(c))
      BY <1>2, <3>1 DEF BaseOk, Fits
    <3>3. c \notin DOMAIN x.snap[x.n].data
      BY <1>2, <1>6, <3>2 DEF HistoryInv, NumbersOk
    <3>4. c \in DOMAIN DataOf(state)
      BY DEF DataOf
    <3> QED BY <1>4, <3>3, <3>4
  <2> QED BY <2>1, <2>2, LoadingSegments
<1>8. SegmentsFit(x, manifest, state)
  BY <1>7 DEF SegmentsFit
<1> QED BY <1>4, <1>5, <1>8

LEMMA OpenFinishHist ==
    ASSUME Inv, Inv', Observe, NEW x \in History, Hist(x), OpenFinish
    PROVE  Hist(Rolled(x))'
<1> DEFINE files == NewerWals(wals, manifest.walSeq)
           y == Rolled(x)
<1>1. /\ phase = "loading" /\ phase' = "up" /\ replay.seq = 0 /\ UNCHANGED <<manifest, maint>>
      /\ wals' = Put(files, MaxSeq + 1, <<>>)
      /\ segFiles' = Referenced(manifest, segFiles)
      /\ state' = [state EXCEPT !.wal = MaxSeq + 1]
  BY DEF OpenFinish
<1>2. /\ HistoryInv(x) /\ LogsOk(x, manifest.walSeq, wals) /\ wals \in Logs
      /\ BaseOk(x, manifest, segFiles) /\ manifest.walSeq \in Nat /\ x.last \in Nat
      /\ manifest.walSeq <= x.last /\ manifest.cols \in Maps(Cid, ListedCol)
  BY HistFacts
<1>3. MaxSeq = x.last
  BY <1>2, LastLog
<1>4. FewerLogs(files)
  BY <1>2, NewerWalsFewer
<1>5. /\ files \in Logs /\ DOMAIN files \subseteq DOMAIN wals
      /\ \A s \in DOMAIN wals : s > manifest.walSeq => s \in DOMAIN files /\ files[s] = wals[s]
  BY <1>4, FewerLogsAre
<1> HIDE DEF files, y
<1>6. LogsOk(x, manifest.walSeq, files)
  BY <1>2, <1>5, LogsFewer
<1>7. LogsOk(y, manifest.walSeq, wals') /\ Whole(y, wals')
  <2>1. wals' = Put(files, x.last + 1, <<>>)
    BY <1>1, <1>3
  <2> QED BY <1>2, <1>5, <1>6, <2>1, LogsRolled DEF y
<1>8. OnDisk(manifest, segFiles') = OnDisk(manifest, segFiles)
  <2>1. segFiles' = Keep(segFiles, DOMAIN Referenced(manifest, segFiles))
    BY <1>1 DEF Referenced, Keep
  <2> QED BY <1>2, <2>1, ListedStay, OnDiskSame
<1>9. BaseOk(y, manifest, segFiles')
  <2>1. BaseOk(x, manifest, segFiles')
    BY <1>2, <1>8 DEF BaseOk
  <2> QED BY <1>2, <2>1, BaseRolled DEF y
<1>10. /\ y \in History /\ HistoryInv(y) /\ y.n = x.n /\ y.snap = x.snap /\ y.last = x.last + 1
       /\ y.start[manifest.walSeq + 1] = x.start[manifest.walSeq + 1]
  <2>1. manifest.walSeq + 1 \in 0..(x.last + 1)
    BY <1>2
  <2> QED BY <1>2, <2>1, RolledIs, RolledKeeps DEF y
<1>11. /\ state'.manifest = state.manifest /\ state'.cols = state.cols
       /\ state'.wal = x.last + 1 /\ state'.pending = NoPending /\ state.pending = NoPending
  <2>1. state \in StoreState /\ state.pending = NoPending
    BY <1>1, LoadFacts
  <2> QED BY <1>1, <1>3, <2>1 DEF StoreState
<1>12. DataOf(state') = DataOf(state)
  BY <1>11 DEF DataOf, Layers
<1>13. /\ x.snap[x.n].data = DataOf(state) /\ x.snap[x.n].next = state.manifest.nextCid
       /\ SegmentsFit(x, manifest, state)
  BY <1>1, ReplayedAll
<1>14. SegmentsFit(y, manifest, state')
  BY <1>10, <1>11, <1>13 DEF SegmentsFit, Base
<1>15. UpOk(y, manifest', maint'.at, wals', state')
  BY <1>1, <1>7, <1>10, <1>11, <1>12, <1>13, <1>14 DEF UpOk
<1> QED BY <1>1, <1>7, <1>9, <1>10, <1>15, UpHist DEF y

----------------------------------------------------------------------------
(* Every step *)

\* A store that no log fails has a history.
LEMMA ClientHist ==
    ASSUME CleanLogs, Inv, Inv', Observe, NEW x \in History, Hist(x), Client
    PROVE  HistInv'
<1>1. phase = "up" => ActiveIsLast
  BY UpFacts
<1>2. (\E r \in WalRecord : Writing(r)) \/ Rotating
  BY <1>1, ClientWrites
<1>3. ASSUME NEW r \in WalRecord, Writing(r), NEW y, y = Recorded(x, r) PROVE HistInv'
  BY <1>3, WritingHist DEF HistInv
<1>4. CASE Rotating
  BY <1>4, RotatingHist, RolledIs DEF HistInv
<1> QED BY <1>2, <1>3, <1>4

LEMMA ProcessHist ==
    ASSUME CleanLogs, Inv, Inv', Observe, NEW x \in History, Hist(x), Process
    PROVE  HistInv'
<1>1. ~CrashInCreate
  BY DEF CrashInCreate, Fails, CleanLogs
<1>2. CASE OpenFinish
  BY <1>2, OpenFinishHist, RolledIs DEF HistInv
<1>3. CASE Crash \/ CrashInAppend \/ OpenLoad \/ ReplayRecord \/ ReplayFileEnd
  BY <1>3, CrashHist, CrashInAppendHist, OpenLoadHist, ReplayRecordHist, ReplayFileEndHist
     DEF HistInv
<1> QED BY <1>1, <1>2, <1>3 DEF Process

LEMMA StutterHist ==
    ASSUME HistInv, UNCHANGED varsV
    PROVE  HistInv'
BY DEF HistInv, Hist, varsV, vars, disk, memory

\* The history of a new store has no record.
NoAnswers == [data |-> NoEntries, catalog |-> NoEntries, next |-> 0]
NoHistory ==
    [n |-> 0, last |-> 0, rec |-> [k \in Nat |-> [op |-> "torn"]],
     snap |-> [k \in Nat |-> NoAnswers], start |-> [k \in Nat |-> 0]]

LEMMA NoHistoryIs ==
    /\ NoHistory \in History /\ NoHistory.n = 0 /\ NoHistory.last = 0
    /\ \A k \in Nat : NoHistory.snap[k] = NoAnswers /\ NoHistory.start[k] = 0
    /\ NoAnswers.data = NoEntries /\ NoAnswers.catalog = NoEntries /\ NoAnswers.next = 0
<1>1. NoAnswers \in Snapshot
  <2>1. NoEntries \in Maps(Cid, Values) /\ NoEntries \in Maps(Cid, Name)
    BY MapsIs DEF NoEntries
  <2> QED BY <2>1 DEF Snapshot, NoAnswers
<1>2. NoHistory \in History
  BY <1>1 DEF History, WalRecord, NoHistory
<1> QED BY <1>2 DEF NoHistory, NoAnswers

LEMMA InitHist ==
    ASSUME InitV, NEW x, x = NoHistory
    PROVE  Hist(x)
<1>1. /\ x \in History /\ x.n = 0 /\ x.last = 0
      /\ \A k \in Nat : x.snap[k] = NoAnswers /\ x.start[k] = 0
      /\ NoAnswers.data = NoEntries /\ NoAnswers.next = 0
  BY NoHistoryIs
<1>2. DOMAIN NoEntries = {}
  BY DEF NoEntries
<1>3. HistoryInv(x)
  BY <1>1, <1>2 DEF HistoryInv, NumbersOk, Below
<1>4. /\ manifest = EmptyManifest /\ wals = NoEntries /\ phase = "down" /\ seen = NothingSeen
  BY DEF InitV, Init
<1>5. manifest.walSeq = 0 /\ manifest.nextCid = 0 /\ manifest.cols = NoEntries
  BY <1>4 DEF EmptyManifest
<1>6. LogsOk(x, manifest.walSeq, wals)
  BY <1>1, <1>2, <1>4, <1>5 DEF LogsOk
<1>7. BaseOk(x, manifest, segFiles)
  <2>1. DOMAIN OnDisk(manifest, segFiles) = {}
    BY <1>2, <1>5 DEF OnDisk
  <2>2. Base(x, manifest) = 0
    BY <1>1, <1>5 DEF Base
  <2> QED BY <1>1, <1>2, <1>5, <2>1, <2>2 DEF BaseOk, Fits
<1>8. SeenOk(x, seen)
  <2>1. Counts(NoEntries) = NoEntries
    BY DEF Counts, NoEntries
  <2> QED BY <1>1, <1>4, <2>1 DEF SeenOk, NothingSeen
<1> QED BY <1>3, <1>4, <1>6, <1>7, <1>8 DEF Hist

LEMMA StepHist ==
    ASSUME CleanLogs, Inv, Inv', HistInv, NextV
    PROVE  HistInv'
<1>1. PICK x \in History : Hist(x)
  BY DEF HistInv
<1> QED BY <1>1, ClientHist, ProcessHist, MaintenanceHist DEF NextV, HistInv

\* Every store in which no log operation fails half way has a history: what
\* clients see is what the records written so far make of an empty store, the
\* logs that the manifest does not cover are the end of them, and the segments
\* it lists hold what the earlier ones left.
THEOREM HistoryInvariance ==
    ASSUME CleanLogs
    PROVE  SpecV => []HistInv
<1>1. InitV => HistInv
  BY InitHist, NoHistoryIs DEF HistInv
<1>2. Inv /\ Inv' /\ HistInv /\ [NextV]_varsV => HistInv'
  BY StepHist, StutterHist
<1> QED BY <1>1, <1>2, StoreInvariance, PTL DEF SpecV

\* Only the end of an open takes a store from loading to open.
LEMMA RecoversIs ==
    ASSUME Inv, NextV, Recovers
    PROVE  OpenFinish /\ Observe
<1>1. maint = Idle /\ phase = "loading" /\ phase' = "up"
  BY DEF Inv, FollowInv, Recovers
<1>2. ~Client
  BY <1>1 DEF Client, CreateCollection, DropCollection, RenameCollection, SwapCollectionNames,
              Rotate, Ready
<1>3. ~Maintenance
  BY <1>1 DEF Maintenance, FlushRead, FlushWrite, FlushStore, FlushFinish, FlushOpenFails,
              FlushDeleteFails, CompactRead, CompactWrite, CompactStore, CompactFinish,
              CompactOpenFails, CompactDeleteFails, MaintFail, Idle
<1>4. ~Crash /\ ~CrashInAppend /\ ~CrashInCreate /\ ~OpenLoad /\ ~ReplayRecord /\ ~ReplayFileEnd
  BY <1>1 DEF Crash, CrashInAppend, CrashInCreate, OpenLoad, ReplayRecord, ReplayFileEnd, Down
<1> QED BY <1>2, <1>3, <1>4 DEF NextV, Process

\* Recovery gives back what clients last saw, whatever flushes, compactions and
\* crashes came between, also one in the middle of an append: no record that
\* was acknowledged is lost, none that was deleted comes back, and every
\* collection has the length it had.
THEOREM DataRecoveredAlways ==
    ASSUME CleanLogs
    PROVE  SpecV => DataRecovered
<1>1. ASSUME Inv, Inv', HistInv, NextV, Recovers
      PROVE  seen'.data = seen.data /\ seen'.lengths = seen.lengths /\ seen'.next = seen.next
  <2>1. PICK x \in History : Hist(x)
    BY <1>1 DEF HistInv
  <2>2. OpenFinish /\ Observe
    BY <1>1, RecoversIs
  <2>3. SeenOk(x, seen)
    BY <2>1 DEF Hist
  <2>4. SeenOk(Rolled(x), seen')
    BY <1>1, <2>1, <2>2, OpenFinishHist DEF Hist
  <2>5. Rolled(x).n = x.n /\ Rolled(x).snap = x.snap
    BY RolledIs
  <2> QED BY <2>3, <2>4, <2>5 DEF SeenOk
<1>2. Inv /\ Inv' /\ HistInv /\ [NextV]_varsV
        => [Recovers => /\ seen'.data = seen.data
                        /\ seen'.lengths = seen.lengths
                        /\ seen'.next = seen.next]_varsV
  BY <1>1
<1> QED BY <1>2, StoreInvariance, HistoryInvariance, PTL DEF SpecV, DataRecovered

----------------------------------------------------------------------------
(***************************************************************************)
(* What a crash and the next open leave of the catalog, for clients that   *)
(* create, drop, rename and write but do not swap.  The history goes on to *)
(* tell what every record did to the names.  Replay starts with the names  *)
(* of the manifest, which may be those that its collections got from       *)
(* records still to be replayed: on the way two collections may have the   *)
(* same name, and the table of names may lack a collection or have an entry*)
(* too many, but every such trouble is one that a later record ends.  At   *)
(* the end of the logs there is none.                                      *)
(***************************************************************************)

----------------------------------------------------------------------------
(* The names of a history *)

NoSwap == "swap" \notin OpKinds

NamingsOf(c, name) ==
    {r \in WalRecord : r.op \in {"create", "rename"} /\ r.cid = c /\ r.name = name}
TouchesOf(c) == {r \in WalRecord : r.op \in {"create", "rename", "drop"} /\ r.cid = c}
UsesOf(name) == {r \in WalRecord : r.op \in {"create", "rename"} /\ r.name = name}

\* What record r does to the names: it refers to collections that there are,
\* and a name that it gives is nobody's.
NameFollows(d, r, e) ==
    /\ Refers(r) \subseteq DOMAIN d.data
    /\ r.op \in {"create", "rename"} => \A c \in DOMAIN d.data : d.catalog[c] # r.name
    /\ DOMAIN e.catalog = DOMAIN e.data
    /\ \A c \in DOMAIN e.data : e.catalog[c] = IF Names(r, c) THEN r.name ELSE d.catalog[c]

UniqueNames(catalog) == \A c, d \in DOMAIN catalog : catalog[c] = catalog[d] => c = d

\* Collection c has the name after k records, or gets it later.
NameAt(x, k, c, name) ==
    \/ c \in DOMAIN x.snap[k].data /\ x.snap[k].catalog[c] = name
    \/ Later(x, k, NamingsOf(c, name))

\* A name that is used again was given up.
NamesOk(x, k) ==
    /\ DOMAIN x.snap[k].catalog = DOMAIN x.snap[k].data
    /\ UniqueNames(x.snap[k].catalog)
    /\ \A c \in DOMAIN x.snap[x.n].data : NameAt(x, k, c, x.snap[x.n].catalog[c])
    /\ \A c \in DOMAIN x.snap[k].data :
          \/ c \in DOMAIN x.snap[x.n].data /\ x.snap[x.n].catalog[c] = x.snap[k].catalog[c]
          \/ Later(x, k, TouchesOf(c))
    /\ \A c \in DOMAIN x.snap[k].data :
          Later(x, k, UsesOf(x.snap[k].catalog[c])) => Later(x, k, TouchesOf(c))

NamesHistory(x) ==
    /\ \A k \in 1..x.n : NameFollows(x.snap[k - 1], x.rec[k], x.snap[k])
    /\ \A k \in 0..x.n : NamesOk(x, k)

----------------------------------------------------------------------------
(* What the parts of the store hold of the names *)

CatalogOf(st) == [c \in DOMAIN st.cols |-> st.cols[c].name]
ListedNames(man) == [c \in DOMAIN man.cols |-> man.cols[c].name]

\* The table of names is the catalog turned round.
Inverts(names, catalog) ==
    /\ \A m \in DOMAIN names : names[m] \in DOMAIN catalog /\ catalog[names[m]] = m
    /\ \A c \in DOMAIN catalog : catalog[c] \in DOMAIN names /\ names[catalog[c]] = c

NamesFit(x, k, catalog) == \A c \in DOMAIN catalog : NameAt(x, k, c, catalog[c])

\* ... but for what later records put right
TableFits(x, k, names, catalog) ==
    /\ \A c \in DOMAIN catalog : \/ catalog[c] \in DOMAIN names /\ names[catalog[c]] = c
                                 \/ Later(x, k, TouchesOf(c))
    /\ \A m \in DOMAIN names : \/ names[m] \in DOMAIN catalog /\ catalog[names[m]] = m
                               \/ Later(x, k, UsesOf(m))

BaseNames(x, man) ==
    UniqueNames(ListedNames(man)) /\ NamesFit(x, Base(x, man), ListedNames(man))

UpNames(x, st) == CatalogOf(st) = x.snap[x.n].catalog /\ Inverts(st.names, CatalogOf(st))

LoadNames(x, k, st) == NamesFit(x, k, CatalogOf(st)) /\ TableFits(x, k, st.names, CatalogOf(st))

SeenNames(x, view) ==
    /\ view.catalog = x.snap[x.n].catalog
    /\ view.names \in Maps(Name, Cid) /\ Inverts(view.names, view.catalog)

NamesHist(x) ==
    /\ NamesHistory(x)
    /\ BaseNames(x, manifest)
    /\ phase = "up" => UpNames(x, state)
    /\ phase = "loading" => LoadNames(x, Place(x, replay), state)
    /\ SeenNames(x, seen)

----------------------------------------------------------------------------
(* Another record *)

LEMMA NameAtGrown ==
    ASSUME NEW x \in History, NEW r \in WalRecord, NEW e \in Snapshot, NEW k \in 0..x.n,
           NEW c, NEW name, NameAt(x, k, c, name)
    PROVE  NameAt(Grown(x, r, e), k, c, name)
<1>1. Grown(x, r, e).snap[k] = x.snap[k]
  BY GrownIs
<1>2. Later(x, k, NamingsOf(c, name)) => Later(Grown(x, r, e), k, NamingsOf(c, name))
  BY LaterGrown
<1> QED BY <1>1, <1>2 DEF NameAt

\* A record that follows on the last names keeps the history of the names.
LEMMA NamesGrown ==
    ASSUME NEW x \in History, HistoryInv(x), NamesHistory(x), NEW r \in WalRecord, NEW e \in Snapshot,
           Follows(x.snap[x.n], r, e), NameFollows(x.snap[x.n], r, e)
    PROVE  NamesHistory(Grown(x, r, e))
<1> DEFINE y == Grown(x, r, e)
           d == x.snap[x.n]
<1>1. /\ y \in History /\ y.n = x.n + 1
      /\ y.rec[x.n + 1] = r /\ y.snap[x.n + 1] = e
      /\ \A k \in 0..x.n : y.rec[k] = x.rec[k] /\ y.snap[k] = x.snap[k]
  BY GrownIs
<1>2. /\ x.n \in Nat /\ \A k \in 0..x.n : \A R : Later(y, k, R) <=> (Later(x, k, R) \/ r \in R)
  BY HistoryIs, LaterGrown
<1>3. \A k \in 0..x.n : \A c, name : NameAt(x, k, c, name) => NameAt(y, k, c, name)
  BY NameAtGrown
<1>4. DOMAIN e.data = CidsAfter(r, DOMAIN d.data)
  BY DEF Follows
<1>5. NamesOk(x, x.n)
  BY <1>2 DEF NamesHistory
<1>6. r.op = "create" => r.cid \notin DOMAIN d.data
  <2>1. NumbersOk(x, x.n)
    BY <1>2 DEF HistoryInv
  <2>2. d.next \in Nat
    BY <1>2, HistoryIs
  <2> QED BY <2>1, <2>2 DEF Follows, NumbersOk, Below
<1> HIDE DEF y
<1>7. ASSUME NEW k \in 1..y.n PROVE NameFollows(y.snap[k - 1], y.rec[k], y.snap[k])
  <2>1. CASE k = x.n + 1
    <3>1. k - 1 = x.n /\ x.n \in 0..x.n
      BY <1>2, <2>1
    <3> QED BY <1>1, <2>1, <3>1
  <2>2. CASE k # x.n + 1
    <3>1. k \in 1..x.n /\ k \in 0..x.n /\ k - 1 \in 0..x.n
      BY <1>1, <1>2, <2>2
    <3> QED BY <1>1, <3>1 DEF NamesHistory
  <2> QED BY <2>1, <2>2
<1>8. ASSUME NEW k \in 0..x.n PROVE NamesOk(y, k)
  <2>1. NamesOk(x, k) /\ y.snap[k] = x.snap[k] /\ y.snap[y.n] = e
    BY <1>1 DEF NamesHistory
  <2>2. ASSUME NEW c \in DOMAIN e.data PROVE NameAt(y, k, c, e.catalog[c])
    <3>1. CASE Names(r, c)
      <4>1. r \in NamingsOf(c, r.name)
        BY <3>1 DEF NamingsOf, Names
      <4> QED BY <1>2, <3>1, <4>1 DEF NameAt, NameFollows
    <3>2. CASE ~Names(r, c)
      <4>1. c \in DOMAIN d.data /\ e.catalog[c] = d.catalog[c]
        BY <1>4, <3>2 DEF NameFollows, CidsAfter, Names
      <4> QED BY <1>3, <2>1, <4>1 DEF NamesOk
    <3> QED BY <3>1, <3>2
  <2>3. ASSUME NEW c \in DOMAIN x.snap[k].data
        PROVE  \/ c \in DOMAIN e.data /\ e.catalog[c] = x.snap[k].catalog[c]
               \/ Later(y, k, TouchesOf(c))
    <3>1. CASE Later(x, k, TouchesOf(c)) \/ r \in TouchesOf(c)
      BY <1>2, <3>1
    <3>2. CASE ~Later(x, k, TouchesOf(c)) /\ r \notin TouchesOf(c)
      <4>1. c \in DOMAIN d.data /\ d.catalog[c] = x.snap[k].catalog[c]
        BY <2>1, <3>2 DEF NamesOk
      <4>2. ~Names(r, c) /\ (r.op # "drop" \/ r.cid # c)
        BY <3>2 DEF TouchesOf, Names
      <4>3. c \in DOMAIN e.data
        BY <1>4, <4>1, <4>2 DEF CidsAfter
      <4> QED BY <4>1, <4>2, <4>3 DEF NameFollows
    <3> QED BY <3>1, <3>2
  <2>4. ASSUME NEW c \in DOMAIN x.snap[k].data, Later(y, k, UsesOf(x.snap[k].catalog[c]))
        PROVE  Later(y, k, TouchesOf(c))
    <3>1. CASE Later(x, k, UsesOf(x.snap[k].catalog[c]))
      BY <1>2, <2>1, <3>1 DEF NamesOk
    <3>2. CASE r \in UsesOf(x.snap[k].catalog[c])
      <4>1. r.op \in {"create", "rename"} /\ r.name = x.snap[k].catalog[c]
        BY <3>2 DEF UsesOf
      <4>2. ~(c \in DOMAIN d.data /\ d.catalog[c] = x.snap[k].catalog[c])
        BY <4>1 DEF NameFollows
      <4> QED BY <1>2, <2>1, <4>2 DEF NamesOk
    <3> QED BY <1>2, <2>4, <3>1, <3>2
  <2> QED BY <2>1, <2>2, <2>3, <2>4 DEF NamesOk
<1>9. NamesOk(y, x.n + 1)
  <2>1. DOMAIN e.catalog = DOMAIN e.data
    BY DEF NameFollows
  <2>2. UniqueNames(e.catalog)
    <3> SUFFICES ASSUME NEW c \in DOMAIN e.data, NEW o \in DOMAIN e.data,
                        e.catalog[c] = e.catalog[o]
                 PROVE  c = o
      BY <2>1 DEF UniqueNames
    <3>1. \A b \in DOMAIN e.data : ~Names(r, b) =>
             b \in DOMAIN d.data /\ b \in DOMAIN d.catalog /\ e.catalog[b] = d.catalog[b]
      BY <1>4, <1>5 DEF NameFollows, CidsAfter, Names, NamesOk
    <3>2. \A b \in DOMAIN e.data : Names(r, b) =>
             r.op \in {"create", "rename"} /\ r.cid = b /\ e.catalog[b] = r.name
      BY DEF NameFollows, Names
    <3>3. CASE Names(r, c) /\ Names(r, o)
      BY <3>2, <3>3
    <3>4. CASE ~Names(r, c) /\ ~Names(r, o)
      BY <1>5, <3>1, <3>4 DEF NamesOk, UniqueNames
    <3>5. CASE Names(r, c) /\ ~Names(r, o)
      BY <3>1, <3>2, <3>5 DEF NameFollows
    <3>6. CASE ~Names(r, c) /\ Names(r, o)
      BY <3>1, <3>2, <3>6 DEF NameFollows
    <3> QED BY <3>3, <3>4, <3>5, <3>6
  <2>3. \A R : ~Later(y, x.n + 1, R)
    BY <1>1, LaterEnd
  <2>4. y.snap[x.n + 1] = e /\ y.snap[y.n] = e
    BY <1>1
  <2> QED BY <2>1, <2>2, <2>3, <2>4 DEF NamesOk, NameAt
<1>10. \A k \in 0..y.n : k \in 0..x.n \/ k = x.n + 1
  BY <1>1, <1>2
<1>11. NamesHistory(y)
  BY <1>7, <1>8, <1>9, <1>10 DEF NamesHistory
<1> QED BY <1>11 DEF y

\* Another log changes nothing about the names.
LEMMA NamesRolled ==
    ASSUME NEW x \in History
    PROVE  /\ NamesHistory(x) => NamesHistory(Rolled(x))
           /\ \A k, c, name : NameAt(x, k, c, name) => NameAt(Rolled(x), k, c, name)
<1>1. /\ Rolled(x).n = x.n /\ Rolled(x).rec = x.rec /\ Rolled(x).snap = x.snap
      /\ \A k, R : Later(Rolled(x), k, R) <=> Later(x, k, R)
  BY RolledIs
<1>2. \A k, c, name : NameAt(x, k, c, name) <=> NameAt(Rolled(x), k, c, name)
  BY <1>1 DEF NameAt
<1>3. ASSUME NEW k, NamesOk(x, k) PROVE NamesOk(Rolled(x), k)
  BY <1>1, <1>2, <1>3 DEF NamesOk
<1> QED BY <1>1, <1>2, <1>3 DEF NamesHistory

\* What is on disk has the same names after another record or log.
LEMMA BaseNamesGrown ==
    ASSUME NEW x \in History, NEW man, man.walSeq \in Nat, man.walSeq < x.last,
           NEW w, LogsOk(x, man.walSeq, w), BaseNames(x, man),
           NEW r \in WalRecord, NEW e \in Snapshot
    PROVE  BaseNames(Grown(x, r, e), man)
<1>1. Base(x, man) \in 0..x.n
  BY BaseIs DEF Base
<1>2. man.walSeq + 1 \in 0..x.last
  BY HistoryIs
<1>3. Base(Grown(x, r, e), man) = Base(x, man)
  BY <1>2, GrownIs DEF Base
<1> QED BY <1>1, <1>3, NameAtGrown DEF BaseNames, NamesFit

LEMMA BaseNamesRolled ==
    ASSUME NEW x \in History, NEW man, man.walSeq \in Nat, man.walSeq <= x.last,
           BaseNames(x, man)
    PROVE  BaseNames(Rolled(x), man)
<1>1. man.walSeq + 1 \in 0..(x.last + 1)
  BY HistoryIs
<1>2. Base(Rolled(x), man) = Base(x, man)
  BY <1>1, RolledIs DEF Base
<1> QED BY <1>2, NamesRolled DEF BaseNames, NamesFit

----------------------------------------------------------------------------
(* The table of names *)

\* A catalog has one table of names.
LEMMA InvertsOnce ==
    ASSUME NEW f \in Maps(Name, Cid), NEW g \in Maps(Name, Cid), NEW catalog,
           Inverts(f, catalog), Inverts(g, catalog)
    PROVE  f = g
<1>1. f \in [DOMAIN f -> Cid] /\ g \in [DOMAIN g -> Cid]
  BY MapsIs
<1>2. \A m \in DOMAIN f : m \in DOMAIN g /\ g[m] = f[m]
  BY DEF Inverts
<1>3. \A m \in DOMAIN g : m \in DOMAIN f
  BY DEF Inverts
<1> QED BY <1>1, <1>2, <1>3

LEMMA InvertsUnique ==
    ASSUME NEW names, NEW catalog, Inverts(names, catalog)
    PROVE  UniqueNames(catalog)
BY DEF Inverts, UniqueNames

\* What a record that is no swap makes of the tables
TablesAfter(r, names, catalog, names2, catalog2) ==
    /\ DOMAIN catalog2 = CidsAfter(r, DOMAIN catalog)
    /\ \A c \in DOMAIN catalog2 : catalog2[c] = IF Names(r, c) THEN r.name ELSE catalog[c]
    /\ names2 = IF r.op = "create" THEN Put(names, r.name, r.cid)
                ELSE IF r.op = "drop" /\ r.cid \in DOMAIN catalog
                THEN Without(names, catalog[r.cid])
                ELSE IF r.op = "rename" THEN Put(Without(names, catalog[r.cid]), r.name, r.cid)
                ELSE names

LEMMA DoesTables ==
    ASSUME NEW st, NEW st2, NEW r, Does(st, r, st2), DoesNames(st, r, st2),
           r.op = "rename" => r.cid \in DOMAIN st.cols
    PROVE  TablesAfter(r, st.names, CatalogOf(st), st2.names, CatalogOf(st2))
<1>1. DOMAIN CatalogOf(st) = DOMAIN st.cols /\ DOMAIN CatalogOf(st2) = DOMAIN st2.cols
      /\ (\A c \in DOMAIN st.cols : CatalogOf(st)[c] = st.cols[c].name)
      /\ (\A c \in DOMAIN st2.cols : CatalogOf(st2)[c] = st2.cols[c].name)
  BY DEF CatalogOf
<1>2. DOMAIN CatalogOf(st2) = CidsAfter(r, DOMAIN CatalogOf(st))
  BY <1>1 DEF Does
<1>3. \A c \in DOMAIN CatalogOf(st2) :
         CatalogOf(st2)[c] = IF Names(r, c) THEN r.name ELSE CatalogOf(st)[c]
  BY <1>1, <1>2 DEF DoesNames, CidsAfter, Names
<1> QED BY <1>1, <1>2, <1>3 DEF TablesAfter, DoesNames, NamesTable

----------------------------------------------------------------------------
(* Clients: every record that is written is one that apply_record accepts *)

\* The names of the last answers
NamesOf(d, names) == DOMAIN d.catalog = DOMAIN d.data /\ Inverts(names, d.catalog)

LEMMA TablesFollow ==
    ASSUME NEW d, NEW e, NEW names, NEW names2, NamesOf(d, names), NEW r, r.op # "swap",
           Refers(r) \subseteq DOMAIN d.data,
           r.op = "create" => r.cid \notin DOMAIN d.data,
           r.op \in {"create", "rename"} => r.name \notin DOMAIN names,
           DOMAIN e.data = CidsAfter(r, DOMAIN d.data),
           TablesAfter(r, names, d.catalog, names2, e.catalog)
    PROVE  NameFollows(d, r, e) /\ NamesOf(e, names2)
<1>1. DOMAIN e.catalog = DOMAIN e.data
  BY DEF TablesAfter, NamesOf
<1>2. \A c \in DOMAIN e.data : e.catalog[c] = IF Names(r, c) THEN r.name ELSE d.catalog[c]
  BY <1>1 DEF TablesAfter
<1>3. r.op \in {"create", "rename"} => \A c \in DOMAIN d.data : d.catalog[c] # r.name
  BY DEF NamesOf, Inverts
<1>4. r.op = "rename" => r.cid \in DOMAIN d.data
  BY DEF Refers
<1>5. Inverts(names2, e.catalog)
  <2>1. CASE r.op = "create"
    <3>1. /\ DOMAIN e.data = DOMAIN d.data \cup {r.cid} /\ e.catalog[r.cid] = r.name
          /\ \A c \in DOMAIN d.data : e.catalog[c] = d.catalog[c]
      BY <1>2, <2>1 DEF CidsAfter, Names
    <3>2. /\ DOMAIN names2 = DOMAIN names \cup {r.name} /\ names2[r.name] = r.cid
          /\ \A m \in DOMAIN names : names2[m] = names[m]
      BY <2>1 DEF TablesAfter, Put
    <3> QED BY <1>1, <1>3, <2>1, <3>1, <3>2 DEF NamesOf, Inverts
  <2>2. CASE r.op = "drop"
    <3>1. /\ DOMAIN e.data = DOMAIN d.data \ {r.cid}
          /\ \A c \in DOMAIN e.data : e.catalog[c] = d.catalog[c]
      BY <1>2, <2>2 DEF CidsAfter, Names
    <3>2. CASE r.cid \in DOMAIN d.data
      <4>1. names2 = Without(names, d.catalog[r.cid])
        BY <2>2, <3>2 DEF TablesAfter, NamesOf
      <4>2. /\ DOMAIN names2 = DOMAIN names \ {d.catalog[r.cid]}
            /\ \A m \in DOMAIN names2 : names2[m] = names[m]
        BY <4>1 DEF Without
      <4> QED BY <1>1, <3>1, <3>2, <4>2 DEF NamesOf, Inverts
    <3>3. CASE r.cid \notin DOMAIN d.data
      <4>1. names2 = names
        BY <2>2, <3>3 DEF TablesAfter, NamesOf
      <4> QED BY <1>1, <3>1, <3>3, <4>1 DEF NamesOf, Inverts
    <3> QED BY <3>2, <3>3
  <2>3. CASE r.op = "rename"
    <3>1. /\ DOMAIN e.data = DOMAIN d.data /\ e.catalog[r.cid] = r.name
          /\ \A c \in DOMAIN d.data : c # r.cid => e.catalog[c] = d.catalog[c]
      BY <1>2, <1>4, <2>3 DEF CidsAfter, Names
    <3>2. names2 = Put(Without(names, d.catalog[r.cid]), r.name, r.cid)
      BY <2>3 DEF TablesAfter
    <3>3. /\ DOMAIN names2 = (DOMAIN names \ {d.catalog[r.cid]}) \cup {r.name}
          /\ names2[r.name] = r.cid
          /\ \A m \in DOMAIN names2 : m # r.name => m \in DOMAIN names /\ names2[m] = names[m]
      BY <3>2 DEF Put, Without
    <3> QED BY <1>1, <1>3, <1>4, <2>3, <3>1, <3>3 DEF NamesOf, Inverts
  <2>4. CASE r.op \notin {"create", "drop", "rename"}
    <3>1. DOMAIN e.data = DOMAIN d.data /\ \A c \in DOMAIN d.data : e.catalog[c] = d.catalog[c]
      BY <1>2, <2>4 DEF CidsAfter, Names
    <3>2. names2 = names
      BY <2>4 DEF TablesAfter
    <3> QED BY <1>1, <3>1, <3>2 DEF NamesOf, Inverts
  <2> QED BY <2>1, <2>2, <2>3, <2>4
<1> QED BY <1>1, <1>2, <1>3, <1>5 DEF NameFollows, NamesOf

\* The catalog of the last answers is that of the state.
LEMMA SnapNames ==
    ASSUME NEW st, Good(st)
    PROVE  /\ SnapOf(st).catalog = CatalogOf(st) /\ DOMAIN CatalogOf(st) = DOMAIN st.cols
           /\ DOMAIN SnapOf(st).data = DOMAIN st.cols
           /\ \A c \in DOMAIN st.cols : CatalogOf(st)[c] = st.cols[c].name
BY SnapOfIs DEF SnapOf, CatalogOf

\* A client's record finds its collections, and only a name that is free.
LEMMA AskedKnown ==
    ASSUME NoSwap, NEW st, Inverts(st.names, CatalogOf(st)), NEW r, Asked(st, r)
    PROVE  /\ r \in WalRecord /\ r.op \notin {"swap", "torn", "blank"}
           /\ Refers(r) \subseteq DOMAIN st.cols /\ Known(st, r)
           /\ r.op \in {"drop", "rename"} => r.cid \in DOMAIN st.cols
<1>1. r \in WalRecord /\ r.op \notin {"torn", "blank"} /\ r.op \in OpKinds
  BY DEF Asked, ClientRecord
<1>2. DOMAIN CatalogOf(st) = DOMAIN st.cols
  BY DEF CatalogOf
<1>3. r.op \in {"drop", "rename"} => r.cid \in DOMAIN st.cols
  BY <1>2 DEF Asked, Inverts
<1>4. r.op # "swap"
  BY <1>1 DEF NoSwap
<1>5. r.op \in {"create", "drop"} \/ (r.op \in {"upsert", "delete", "updateMeta", "rename"} /\ r.cid \in DOMAIN st.cols)
  BY <1>1, <1>3, <1>4 DEF WalRecord, Asked
<1>6. Refers(r) \subseteq DOMAIN st.cols
  BY <1>5 DEF Refers
<1> QED BY <1>1, <1>3, <1>4, <1>6 DEF Known

LEMMA ResultDoes ==
    ASSUME NoSwap, NEW st, Good(st), Inverts(st.names, CatalogOf(st)), NEW r, Asked(st, r)
    PROVE  Does(st, r, Result(st, r)) /\ DoesNames(st, r, Result(st, r))
<1>1. Does(st, r, Result(st, r))
  BY ResultRecords DEF Records
<1>2. r \in WalRecord /\ r.op \notin {"swap", "torn", "blank"} /\ Known(st, r)
  BY AskedKnown
<1>3. r.op = "create" => ~Waits(st, r.cid)
  <2>1. st.manifest.nextCid \in Nat
    BY GoodIs, StateIs DEF Manifest
  <2> QED BY <2>1 DEF Good, Below, Waits, Asked, ClientRecord
<1>4. DoesNames(st, r, Apply(st, r))
  BY <1>2, <1>3, RecordDoes
<1>5. CASE r.op = "drop"
  <2>1. Applied(st, Apply(st, r)) /\ Does(st, r, Apply(st, r))
    BY <1>2, <1>3, RecordApplied, RecordDoes
  <2>2. Good(Apply(st, r)) /\ r.cid \notin DOMAIN Apply(st, r).cols
    BY <1>5, <2>1 DEF Applied, Does, CidsAfter
  <2>3. /\ NotWaiting(Apply(st, r), r.cid).cols = Apply(st, r).cols
        /\ NotWaiting(Apply(st, r), r.cid).names = Apply(st, r).names
    BY <2>2, NotWaitingGood
  <2>4. Result(st, r) = NotWaiting(Apply(st, r), r.cid)
    BY <1>5 DEF Result
  <2> QED BY <1>1, <1>4, <2>3, <2>4 DEF DoesNames
<1>6. CASE r.op # "drop"
  BY <1>1, <1>2, <1>4, <1>6 DEF Result
<1> QED BY <1>5, <1>6

LEMMA ResultNames ==
    ASSUME NoSwap, NEW st, Good(st), Inverts(st.names, CatalogOf(st)), NEW r, Asked(st, r)
    PROVE  /\ TablesAfter(r, st.names, CatalogOf(st), Result(st, r).names, CatalogOf(Result(st, r)))
           /\ NameFollows(SnapOf(st), r, SnapOf(Result(st, r)))
           /\ Inverts(Result(st, r).names, CatalogOf(Result(st, r)))
<1> DEFINE st2 == Result(st, r)
           d == SnapOf(st)
           e == SnapOf(st2)
<1>1. Does(st, r, st2) /\ DoesNames(st, r, st2)
  BY ResultDoes
<1>2. Good(st2)
  BY ResultRecords DEF Records
<1>3. /\ r.op # "swap" /\ Refers(r) \subseteq DOMAIN st.cols
      /\ r.op \in {"drop", "rename"} => r.cid \in DOMAIN st.cols
  BY AskedKnown
<1>4. r.op \in {"create", "rename"} => r.name \notin DOMAIN st.names
  BY DEF Asked
<1>5. r.op = "create" => r.cid \notin DOMAIN st.cols
  <2>1. st.manifest.nextCid \in Nat /\ \A c \in DOMAIN st.cols : GoodCol(st, c)
    BY GoodIs, StateIs DEF Manifest
  <2> QED BY <2>1 DEF Asked, ClientRecord, GoodCol
<1> HIDE DEF st2
<1>6. TablesAfter(r, st.names, CatalogOf(st), st2.names, CatalogOf(st2))
  BY <1>1, <1>3, DoesTables
<1>7. /\ d.catalog = CatalogOf(st) /\ DOMAIN CatalogOf(st) = DOMAIN st.cols
      /\ DOMAIN d.data = DOMAIN st.cols
      /\ e.catalog = CatalogOf(st2) /\ DOMAIN e.data = DOMAIN st2.cols
  BY <1>2, SnapNames
<1> HIDE DEF d, e
<1>8. DOMAIN e.data = CidsAfter(r, DOMAIN d.data)
  BY <1>1, <1>7 DEF Does
<1>9. NamesOf(d, st.names)
  BY <1>7 DEF NamesOf
<1>10. NameFollows(d, r, e) /\ NamesOf(e, st2.names)
  BY <1>3, <1>4, <1>5, <1>6, <1>7, <1>8, <1>9, TablesFollow
<1> QED BY <1>6, <1>7, <1>10 DEF NamesOf, st2, d, e

\* The names of an open store are those of the last answers.
LEMMA UpSnap ==
    ASSUME Inv, NEW x \in History, Hist(x), NamesHist(x), phase = "up"
    PROVE  /\ x.snap[x.n] = SnapOf(state) /\ Good(state)
           /\ Inverts(state.names, CatalogOf(state))
<1>1. Good(state) /\ UpOk(x, manifest, maint.at, wals, state)
  BY UpFacts
<1>2. UpNames(x, state)
  BY DEF NamesHist
<1>3. /\ SnapOf(state) \in Snapshot /\ SnapOf(state).data = DataOf(state)
      /\ SnapOf(state).next = state.manifest.nextCid /\ SnapOf(state).catalog = CatalogOf(state)
  BY <1>1, SnapOfIs, SnapNames
<1>4. x.snap[x.n] \in Snapshot
  BY HistoryIs
<1>5. /\ x.snap[x.n].data = SnapOf(state).data /\ x.snap[x.n].next = SnapOf(state).next
      /\ x.snap[x.n].catalog = SnapOf(state).catalog
  BY <1>1, <1>2, <1>3 DEF UpOk, UpNames
<1>6. x.snap[x.n] = SnapOf(state)
  BY <1>3, <1>4, <1>5 DEF Snapshot
<1> QED BY <1>1, <1>2, <1>6 DEF UpNames

LEMMA RecordedNames ==
    ASSUME NoSwap, Inv, NEW x \in History, Hist(x), NamesHist(x), phase = "up",
           NEW r, Asked(state, r)
    PROVE  /\ NamesHistory(Recorded(x, r)) /\ BaseNames(Recorded(x, r), manifest)
           /\ UpNames(Recorded(x, r), Result(state, r))
<1> DEFINE st2 == Result(state, r)
           e == SnapOf(st2)
<1>1. x.snap[x.n] = SnapOf(state) /\ Good(state) /\ Inverts(state.names, CatalogOf(state))
  BY UpSnap
<1>2. Records(state, r, st2)
  BY <1>1, ResultRecords
<1>3. /\ NameFollows(SnapOf(state), r, e)
      /\ Inverts(st2.names, CatalogOf(st2))
  BY <1>1, ResultNames
<1> HIDE DEF st2
<1>4. r \in WalRecord /\ Good(st2) /\ Does(state, r, st2)
      /\ (r.op = "create" => r.cid = state.manifest.nextCid)
  BY <1>2 DEF Records
<1>5. e \in Snapshot /\ e.catalog = CatalogOf(st2)
  BY <1>4, SnapOfIs, SnapNames
<1>6. SnapOf(state).data = DataOf(state) /\ SnapOf(state).next = state.manifest.nextCid
  BY <1>1, SnapOfIs
<1>7. Follows(SnapOf(state), r, e)
  BY <1>1, <1>4, <1>6, DoesFollows
<1>8. HistoryInv(x) /\ NamesHistory(x) /\ BaseNames(x, manifest)
  BY DEF Hist, NamesHist
<1>9. manifest.walSeq \in Nat /\ manifest.walSeq < x.last /\ LogsOk(x, manifest.walSeq, wals)
  BY UpFacts
<1> HIDE DEF e
<1>10. NamesHistory(Grown(x, r, e))
  BY <1>1, <1>3, <1>4, <1>5, <1>7, <1>8, NamesGrown
<1>11. BaseNames(Grown(x, r, e), manifest)
  BY <1>4, <1>5, <1>8, <1>9, BaseNamesGrown
<1>12. Grown(x, r, e).snap[Grown(x, r, e).n] = e
  BY <1>4, <1>5, GrownIs
<1>13. UpNames(Grown(x, r, e), st2)
  BY <1>3, <1>5, <1>12 DEF UpNames
<1>14. Recorded(x, r) = Grown(x, r, e)
  BY DEF Recorded, e, st2
<1> QED BY <1>10, <1>11, <1>13, <1>14 DEF st2

\* What clients see of an open store are its names.
LEMMA SeenUpNames ==
    ASSUME NEW x, NEW st, Good(st), UpNames(x, st)
    PROVE  SeenNames(x, View(st))
<1>1. View(st).catalog = CatalogOf(st) /\ View(st).names = st.names
  BY DEF View, CatalogOf
<1>2. st.names \in Maps(Name, Cid)
  BY GoodIs, StateIs
<1> QED BY <1>1, <1>2 DEF SeenNames, UpNames

\* A step that leaves the store open
LEMMA UpNamesHist ==
    ASSUME Inv', phase' = "up", Observe, NEW x \in History, NamesHistory(x),
           BaseNames(x, manifest'), UpNames(x, state')
    PROVE  NamesHist(x)'
<1>1. Good(state')
  BY DEF Inv, StateInv, Running
<1>2. seen' = View(state')
  BY DEF Observe
<1>3. SeenNames(x, seen')
  BY <1>1, <1>2, SeenUpNames
<1> QED BY <1>3 DEF NamesHist

LEMMA RotatedNames ==
    ASSUME NEW st, Good(st), CanRotate(st)
    PROVE  CatalogOf(Rotated(st)) = CatalogOf(st) /\ Rotated(st).names = st.names
<1>1. SameCols(st, Rotated(st)) /\ SameCatalog(st, Rotated(st))
  BY RotatedGood
<1> QED BY <1>1 DEF SameCols, SameCatalog, CatalogOf

LEMMA RolledUpNames ==
    ASSUME NEW x \in History, NEW man, man.walSeq \in Nat, man.walSeq <= x.last,
           NamesHistory(x), BaseNames(x, man), NEW st, UpNames(x, st),
           NEW st2, CatalogOf(st2) = CatalogOf(st), st2.names = st.names
    PROVE  NamesHistory(Rolled(x)) /\ BaseNames(Rolled(x), man) /\ UpNames(Rolled(x), st2)
<1>1. NamesHistory(Rolled(x)) /\ BaseNames(Rolled(x), man)
  BY NamesRolled, BaseNamesRolled
<1>2. Rolled(x).n = x.n /\ Rolled(x).snap = x.snap
  BY RolledIs
<1> QED BY <1>1, <1>2 DEF UpNames

----------------------------------------------------------------------------
(* Clients: the names follow the history *)

LEMMA WritingNames ==
    ASSUME NoSwap, Inv, Inv', Observe, NEW x \in History, Hist(x), NamesHist(x),
           NEW r, Writing(r), NEW y, y = Recorded(x, r)
    PROVE  \E z \in History : Hist(z)' /\ NamesHist(z)'
<1>1. phase = "up" /\ phase' = "up" /\ manifest' = manifest /\ Asked(state, r)
  BY DEF Writing, StaysOnDisk
<1>2. /\ y \in History /\ Rolled(y) \in History
      /\ \/ state' = Result(state, r) /\ Hist(y)'
         \/ /\ CanRotate(Result(state, r)) /\ state' = Rotated(Result(state, r))
            /\ Hist(Rolled(y))'
  BY WritingHist
<1>3. NamesHistory(y) /\ BaseNames(y, manifest) /\ UpNames(y, Result(state, r))
  BY <1>1, RecordedNames
<1>4. CASE state' = Result(state, r) /\ Hist(y)'
  <2>1. NamesHist(y)'
    BY <1>1, <1>2, <1>3, <1>4, UpNamesHist
  <2> QED BY <1>2, <1>4, <2>1
<1>5. CASE /\ CanRotate(Result(state, r)) /\ state' = Rotated(Result(state, r))
           /\ Hist(Rolled(y))'
  <2>1. Good(Result(state, r)) /\ y.last = x.last
    BY <1>1, RecordedHist
  <2>2. manifest.walSeq \in Nat /\ manifest.walSeq <= y.last
    BY <1>1, <2>1, UpFacts
  <2>3. CatalogOf(state') = CatalogOf(Result(state, r)) /\ state'.names = Result(state, r).names
    BY <1>5, <2>1, RotatedNames
  <2>4. NamesHistory(Rolled(y)) /\ BaseNames(Rolled(y), manifest) /\ UpNames(Rolled(y), state')
    BY <1>2, <1>3, <2>2, <2>3, RolledUpNames
  <2>5. NamesHist(Rolled(y))'
    BY <1>1, <1>2, <2>4, UpNamesHist
  <2> QED BY <1>2, <1>5, <2>5
<1> QED BY <1>2, <1>4, <1>5

LEMMA RotatingNames ==
    ASSUME Inv, Inv', Observe, NEW x \in History, Hist(x), NamesHist(x), Rotating
    PROVE  NamesHist(Rolled(x))'
<1>1. phase = "up" /\ phase' = "up" /\ manifest' = manifest
      /\ CanRotate(state) /\ state' = Rotated(state)
  BY DEF Rotating, StaysOnDisk
<1>2. Good(state) /\ manifest.walSeq \in Nat /\ manifest.walSeq <= x.last
  BY <1>1, UpFacts
<1>3. NamesHistory(x) /\ BaseNames(x, manifest) /\ UpNames(x, state)
  BY <1>1 DEF NamesHist
<1>4. CatalogOf(state') = CatalogOf(state) /\ state'.names = state.names
  BY <1>1, <1>2, RotatedNames
<1>5. NamesHistory(Rolled(x)) /\ BaseNames(Rolled(x), manifest) /\ UpNames(Rolled(x), state')
  BY <1>2, <1>3, <1>4, RolledUpNames
<1>6. Rolled(x) \in History
  BY RolledIs
<1> QED BY <1>1, <1>5, <1>6, UpNamesHist

----------------------------------------------------------------------------
(* The maintenance thread changes no name *)

\* The names of the manifest and of memory stay.
SameListed(man, man2) ==
    man2.walSeq = man.walSeq /\ ListedNames(man2) = ListedNames(man)

LEMMA MaintNames ==
    ASSUME Inv', Observe, NEW x \in History, NamesHist(x), phase = "up", phase' = "up",
           BaseNames(x, manifest') \/ SameListed(manifest, manifest'),
           CatalogOf(state') = CatalogOf(state), state'.names = state.names
    PROVE  NamesHist(x)'
<1>1. NamesHistory(x) /\ BaseNames(x, manifest) /\ UpNames(x, state)
  BY DEF NamesHist
<1>2. BaseNames(x, manifest')
  BY <1>1 DEF SameListed, BaseNames, Base
<1>3. UpNames(x, state')
  BY <1>1 DEF UpNames
<1> QED BY <1>1, <1>2, <1>3, UpNamesHist

LEMMA SameCatalogIs ==
    ASSUME NEW st, NEW st2, DOMAIN st2.cols = DOMAIN st.cols, SameCatalog(st, st2)
    PROVE  CatalogOf(st2) = CatalogOf(st) /\ st2.names = st.names
BY DEF SameCatalog, CatalogOf

\* A step that commits nothing
LEMMA QuietNames ==
    ASSUME Inv', Observe, NEW x \in History, NamesHist(x), phase = "up",
           UNCHANGED <<manifest, phase, state>>
    PROVE  NamesHist(x)'
BY MaintNames DEF SameListed

\* The manifest of a flush has the names of memory, where its log begins.
LEMMA FlushStoreNames ==
    ASSUME Inv, Inv', Observe, NEW x \in History, Hist(x), NamesHist(x), FlushStore
    PROVE  NamesHist(x)'
<1>1. /\ maint.at = "flushWrite" /\ manifest' = FlushedManifest
      /\ UNCHANGED <<wals, state, phase>>
  BY DEF FlushStore
<1>2. phase = "up" /\ state.pending # NoPending /\ maint.walSeq = state.pending.walSeq
      /\ maint.walSeq \in Nat
  BY <1>1, FlushIs DEF Inv, FlushInv
<1>3. /\ x.snap[x.n] = SnapOf(state) /\ Good(state) /\ Inverts(state.names, CatalogOf(state))
  BY <1>2, UpSnap
<1>4. SnapOf(state).catalog = CatalogOf(state) /\ DOMAIN CatalogOf(state) = DOMAIN state.cols
      /\ DOMAIN SnapOf(state).data = DOMAIN state.cols
      /\ \A c \in DOMAIN state.cols : CatalogOf(state)[c] = state.cols[c].name
  BY <1>3, SnapNames
<1>5. ListedNames(FlushedManifest) = CatalogOf(state)
  BY DEF ListedNames, CatalogOf, FlushedManifest
<1>6. x.last = maint.walSeq + 1 /\ LogsOk(x, manifest.walSeq, wals) /\ wals \in Logs
      /\ manifest.walSeq \in Nat /\ manifest.walSeq <= maint.walSeq
  BY <1>2, UpFacts DEF Inv, LogInv
<1>7. Base(x, FlushedManifest) \in 0..x.n
  <2>1. LogsOk(x, maint.walSeq, wals)
    BY <1>2, <1>6, LogsFewer
  <2>2. FlushedManifest.walSeq = maint.walSeq
    BY DEF FlushedManifest
  <2> QED BY <1>2, <2>1, <2>2, BaseIs DEF Base
<1>8. NamesOk(x, Base(x, FlushedManifest))
  BY <1>7 DEF NamesHist, NamesHistory
<1>9. NamesFit(x, Base(x, FlushedManifest), CatalogOf(state))
  BY <1>3, <1>4, <1>8 DEF NamesOk, NamesFit
<1>10. UniqueNames(CatalogOf(state))
  BY <1>3, InvertsUnique
<1>11. BaseNames(x, manifest')
  BY <1>1, <1>5, <1>9, <1>10 DEF BaseNames
<1> QED BY <1>1, <1>2, <1>11, MaintNames

LEMMA FlushCommitsNames ==
    ASSUME Inv, Inv', Observe, NEW x \in History, NamesHist(x), maint.at = "flushStored",
           NEW cids, cids \subseteq DOMAIN maint.work,
           NEW pend \in {state.pending, NoPending},
           pend = NoPending => cids = DOMAIN maint.work,
           state' = [WithFlushed(cids) EXCEPT !.pending = pend],
           UNCHANGED <<manifest, phase>>
    PROVE  NamesHist(x)'
<1>1. IsFlushed(state', cids, pend)
  BY WithFlushedIs
<1>2. CatalogOf(state') = CatalogOf(state) /\ state'.names = state.names
  BY <1>1, SameCatalogIs DEF IsFlushed
<1>3. phase = "up"
  BY FlushIs
<1> QED BY <1>2, <1>3, MaintNames DEF SameListed

LEMMA CompactStoreNames ==
    ASSUME Inv, Inv', Observe, NEW x \in History, NamesHist(x), CompactStore
    PROVE  NamesHist(x)'
<1>1. /\ maint.at = "compactWritten" /\ phase = "up" /\ LockFree /\ Compacting
      /\ UNCHANGED <<phase, state>>
  BY CompactIs DEF CompactStore, LockFree, Compacting
<1>2. CASE maint.cid \notin DOMAIN state.cols
  BY <1>1, <1>2, QuietNames DEF CompactStore
<1>3. CASE maint.cid \in DOMAIN state.cols
  <2>1. manifest' = CompactedManifest
    BY <1>3 DEF CompactStore
  <2>2. state.manifest.cols = manifest.cols /\ state.manifest.walSeq = manifest.walSeq
    BY <1>1, ManifestsAre DEF Running
  <2>3. /\ CompactedManifest.walSeq = manifest.walSeq
        /\ DOMAIN CompactedManifest.cols = DOMAIN manifest.cols
        /\ CompactedManifest.cols[maint.cid].name = manifest.cols[maint.cid].name
        /\ \A c \in DOMAIN manifest.cols : c # maint.cid =>
              CompactedManifest.cols[c] = manifest.cols[c]
    BY <1>1, <1>3, <2>2, CompactedManifestIs
  <2>4. \A c \in DOMAIN manifest.cols : CompactedManifest.cols[c].name = manifest.cols[c].name
    BY <2>3
  <2>5. ListedNames(CompactedManifest) = ListedNames(manifest)
    BY <2>3, <2>4 DEF ListedNames
  <2> QED BY <1>1, <2>1, <2>3, <2>5, MaintNames DEF SameListed
<1> QED BY <1>2, <1>3

LEMMA CompactCommitsNames ==
    ASSUME Inv, Inv', Observe, NEW x \in History, NamesHist(x), maint.at = "compactStored",
           state' = WithCompacted \/ state' = [state EXCEPT !.manifest = manifest],
           UNCHANGED <<manifest, phase>>
    PROVE  NamesHist(x)'
<1>1. phase = "up" /\ state \in StoreState
  BY CompactCommitIs, ManifestsAre DEF Running
<1>2. CatalogOf(state') = CatalogOf(state) /\ state'.names = state.names
  <2>1. CASE state' = WithCompacted
    BY <2>1, WithCompactedIs, SameCatalogIs
  <2>2. CASE state' = [state EXCEPT !.manifest = manifest]
    BY <1>1, <2>2 DEF StoreState, CatalogOf
  <2> QED BY <2>1, <2>2
<1> QED BY <1>1, <1>2, MaintNames DEF SameListed

LEMMA MaintenanceNames ==
    ASSUME Inv, Inv', Observe, NEW x \in History, Hist(x), NamesHist(x), Maintenance
    PROVE  NamesHist(x)'
<1>1. CASE FlushRead \/ CompactRead
  BY <1>1, QuietNames DEF FlushRead, CompactRead, disk
<1>2. CASE FlushWrite \/ CompactWrite \/ MaintFail
  <2>1. phase = "up" /\ UNCHANGED <<manifest, phase, state>>
    BY <1>2, FlushIs, CompactIs DEF FlushWrite, CompactWrite, MaintFail, disk
  <2> QED BY <2>1, QuietNames
<1>3. CASE FlushStore
  BY <1>3, FlushStoreNames
<1>4. CASE FlushFinish \/ FlushDeleteFails
  <2>1. /\ maint.at = "flushStored"
        /\ state' = [WithFlushed(DOMAIN maint.work) EXCEPT !.pending = NoPending]
        /\ UNCHANGED <<manifest, phase>>
    BY <1>4 DEF FlushFinish, FlushDeleteFails
  <2> QED BY <2>1, FlushCommitsNames
<1>5. CASE FlushOpenFails
  <2>1. maint.at = "flushStored" /\ UNCHANGED <<manifest, phase>>
    BY <1>5 DEF FlushOpenFails, disk
  <2>2. PICK c : state' = WithFlushed({d \in DOMAIN maint.work : d < c})
    BY <1>5 DEF FlushOpenFails
  <2> DEFINE cids == {d \in DOMAIN maint.work : d < c}
  <2>3. state \in StoreState /\ state.pending # NoPending
    BY <2>1, FlushIs, ManifestsAre DEF Running
  <2>4. state' = [WithFlushed(cids) EXCEPT !.pending = state.pending]
    BY <2>2, <2>3 DEF WithFlushed, StoreState
  <2>5. cids \subseteq DOMAIN maint.work
    OBVIOUS
  <2> HIDE DEF cids
  <2> QED BY <2>1, <2>3, <2>4, <2>5, FlushCommitsNames
<1>6. CASE CompactStore
  BY <1>6, CompactStoreNames
<1>7. CASE CompactFinish \/ CompactOpenFails \/ CompactDeleteFails
  <2>1. /\ maint.at = "compactStored" /\ UNCHANGED <<manifest, phase>>
        /\ state' = WithCompacted \/ state' = [state EXCEPT !.manifest = manifest]
    BY <1>7 DEF CompactFinish, CompactOpenFails, CompactDeleteFails, disk
  <2> QED BY <2>1, CompactCommitsNames
<1> QED BY <1>1, <1>2, <1>3, <1>4, <1>5, <1>6, <1>7 DEF Maintenance

----------------------------------------------------------------------------
(* Replay puts the names right *)

LEMMA LaterMore ==
    ASSUME NEW x, NEW k, NEW R, NEW S, R \subseteq S, Later(x, k, R)
    PROVE  Later(x, k, S)
BY DEF Later

\* One record of the history further, the names fit as before.
LEMMA ReplayedNames ==
    ASSUME NEW x \in History, HistoryInv(x), NamesHistory(x), NEW k \in Nat, k < x.n,
           NEW r, r = x.rec[k + 1], r.op # "swap",
           NEW names, NEW names2, NEW catalog, NEW catalog2,
           NamesFit(x, k, catalog), TableFits(x, k, names, catalog),
           r.op = "rename" => r.cid \in DOMAIN catalog,
           TablesAfter(r, names, catalog, names2, catalog2)
    PROVE  NamesFit(x, k + 1, catalog2) /\ TableFits(x, k + 1, names2, catalog2)
<1> DEFINE d == x.snap[k]
           e == x.snap[k + 1]
<1>1. x.n \in Nat /\ k \in 0..x.n /\ k + 1 \in 1..x.n /\ k + 1 \in 0..x.n /\ (k + 1) - 1 = k
      /\ r \in WalRecord
  BY HistoryIs
<1>2. Follows(d, r, e) /\ NameFollows(d, r, e)
  BY <1>1 DEF HistoryInv, NamesHistory
<1>3. NamesOk(x, k) /\ NumbersOk(x, k)
  BY <1>1 DEF HistoryInv, NamesHistory
<1>4. \A R : Later(x, k, R) => r \in R \/ Later(x, k + 1, R)
  BY LaterNext
<1>5. r.op = "create" => r.cid \notin DOMAIN d.data
  <2>1. d.next \in Nat
    BY <1>1, HistoryIs
  <2> QED BY <1>2, <1>3, <2>1 DEF Follows, NumbersOk, Below
<1>6. DOMAIN e.data = CidsAfter(r, DOMAIN d.data)
  BY <1>2 DEF Follows
<1>7. \A c, m : Later(x, k, NamingsOf(c, m)) => Later(x, k, TouchesOf(c)) /\ Later(x, k, UsesOf(m))
  <2>1. \A c, m : NamingsOf(c, m) \subseteq TouchesOf(c) /\ NamingsOf(c, m) \subseteq UsesOf(m)
    BY DEF NamingsOf, TouchesOf, UsesOf
  <2> QED BY <2>1, LaterMore
<1>8. /\ DOMAIN d.catalog = DOMAIN d.data /\ UniqueNames(d.catalog)
      /\ \A c \in DOMAIN d.data : Later(x, k, UsesOf(d.catalog[c])) => Later(x, k, TouchesOf(c))
  BY <1>3 DEF NamesOk
<1>9. \A c \in DOMAIN catalog : \/ c \in DOMAIN d.data /\ d.catalog[c] = catalog[c]
                                \/ Later(x, k, NamingsOf(c, catalog[c]))
  BY DEF NamesFit, NameAt
<1>10. \A c, m : c \in DOMAIN e.data /\ e.catalog[c] = m => NameAt(x, k + 1, c, m)
  BY DEF NameAt
<1>11. \A c, m : Later(x, k + 1, NamingsOf(c, m)) => NameAt(x, k + 1, c, m)
  BY DEF NameAt
<1> HIDE DEF d, e
<1>12. \A c \in DOMAIN catalog2 : ~Names(r, c) =>
          /\ c \in DOMAIN catalog /\ catalog2[c] = catalog[c]
          /\ r \notin TouchesOf(c)
  BY DEF TablesAfter, CidsAfter, Names, TouchesOf
<1>13. \A c \in DOMAIN catalog2 : Names(r, c) =>
          /\ r.op \in {"create", "rename"} /\ r.cid = c /\ catalog2[c] = r.name
  BY DEF TablesAfter, Names
<1>14. ASSUME NEW c \in DOMAIN catalog2 PROVE NameAt(x, k + 1, c, catalog2[c])
  <2>1. CASE Names(r, c)
    <3>1. r.op \in {"create", "rename"} /\ r.cid = c /\ catalog2[c] = r.name
      BY <1>13, <2>1
    <3>2. c \in DOMAIN e.data
      BY <1>2, <1>6, <3>1 DEF NameFollows, Refers, CidsAfter
    <3> QED BY <1>2, <1>10, <2>1, <3>1, <3>2 DEF NameFollows
  <2>2. CASE ~Names(r, c)
    <3>1. c \in DOMAIN catalog /\ catalog2[c] = catalog[c] /\ r \notin TouchesOf(c)
      BY <1>12, <2>2
    <3>2. CASE c \in DOMAIN d.data /\ d.catalog[c] = catalog[c]
      <4>1. c \in DOMAIN e.data
        BY <1>1, <1>6, <3>1, <3>2 DEF CidsAfter, TouchesOf
      <4> QED BY <1>2, <1>10, <2>2, <3>1, <3>2, <4>1 DEF NameFollows
    <3>3. CASE Later(x, k, NamingsOf(c, catalog[c]))
      <4>1. r \notin NamingsOf(c, catalog[c])
        BY <3>1 DEF TouchesOf, NamingsOf
      <4> QED BY <1>4, <1>11, <3>1, <3>3, <4>1
    <3> QED BY <1>9, <3>1, <3>2, <3>3
  <2> QED BY <2>1, <2>2
<1>15. ASSUME NEW c \in DOMAIN catalog2, ~Later(x, k + 1, TouchesOf(c))
       PROVE  catalog2[c] \in DOMAIN names2 /\ names2[catalog2[c]] = c
  <2>1. CASE Names(r, c)
    BY <1>13, <2>1 DEF TablesAfter, Put
  <2>2. CASE ~Names(r, c)
    <3> DEFINE m == catalog[c]
    <3>1. c \in DOMAIN catalog /\ catalog2[c] = m /\ r \notin TouchesOf(c)
      BY <1>12, <2>2
    <3>2. ~Later(x, k, TouchesOf(c))
      BY <1>4, <1>15, <3>1
    <3>3. m \in DOMAIN names /\ names[m] = c
      BY <3>1, <3>2 DEF TableFits
    <3>4. c \in DOMAIN d.data /\ d.catalog[c] = m
      BY <1>7, <1>9, <3>1, <3>2
    <3>5. ASSUME NEW b \in DOMAIN catalog, b # c PROVE catalog[b] # m
      <4>1. ~(b \in DOMAIN d.data /\ d.catalog[b] = m)
        BY <1>8, <3>4, <3>5 DEF UniqueNames
      <4>2. ~Later(x, k, NamingsOf(b, m))
        BY <1>7, <1>8, <3>2, <3>4
      <4> QED BY <1>9, <4>1, <4>2
    <3>6. r.op \in {"create", "rename"} => r.name # m
      BY <1>2, <3>4 DEF NameFollows
    <3>7. r.op \in {"create", "rename", "drop"} => r.cid # c
      BY <1>1, <3>1 DEF TouchesOf
    <3> HIDE DEF m
    <3>8. CASE r.op = "create"
      BY <3>1, <3>3, <3>6, <3>8 DEF TablesAfter, Put
    <3>9. CASE r.op = "drop"
      <4>1. r.cid \in DOMAIN catalog => catalog[r.cid] # m
        BY <3>5, <3>7, <3>9
      <4> QED BY <3>1, <3>3, <3>9, <4>1 DEF TablesAfter, Without
    <3>10. CASE r.op = "rename"
      <4>1. catalog[r.cid] # m
        BY <3>5, <3>7, <3>10
      <4>2. names2 = Put(Without(names, catalog[r.cid]), r.name, r.cid)
        BY <3>10 DEF TablesAfter
      <4>3. m \in DOMAIN Without(names, catalog[r.cid]) /\ Without(names, catalog[r.cid])[m] = c
        BY <3>3, <4>1 DEF Without
      <4> QED BY <3>1, <3>6, <3>10, <4>2, <4>3 DEF Put
    <3>11. CASE r.op \notin {"create", "drop", "rename"}
      BY <3>1, <3>3, <3>11 DEF TablesAfter
    <3> QED BY <3>8, <3>9, <3>10, <3>11
  <2> QED BY <2>1, <2>2
<1>16. ASSUME NEW m \in DOMAIN names2, ~Later(x, k + 1, UsesOf(m))
       PROVE  names2[m] \in DOMAIN catalog2 /\ catalog2[names2[m]] = m
  <2>1. CASE r.op \in {"create", "rename"} /\ r.name = m
    <3>1. names2[m] = r.cid
      BY <2>1 DEF TablesAfter, Put
    <3>2. r.cid \in DOMAIN catalog2 /\ Names(r, r.cid)
      BY <2>1 DEF TablesAfter, CidsAfter, Names
    <3> QED BY <1>13, <2>1, <3>1, <3>2
  <2>2. CASE ~(r.op \in {"create", "rename"} /\ r.name = m)
    <3>1. m \in DOMAIN names /\ names2[m] = names[m]
          /\ (r.op = "drop" /\ r.cid \in DOMAIN catalog => m # catalog[r.cid])
          /\ (r.op = "rename" => m # catalog[r.cid])
      BY <2>2 DEF TablesAfter, Put, Without
    <3>2. ~Later(x, k, UsesOf(m))
      <4>1. r \notin UsesOf(m)
        BY <2>2 DEF UsesOf
      <4> QED BY <1>4, <1>16, <4>1
    <3> DEFINE c == names[m]
    <3>3. c \in DOMAIN catalog /\ catalog[c] = m
      BY <3>1, <3>2 DEF TableFits
    <3>4. c \in DOMAIN d.data
      BY <1>7, <1>9, <3>2, <3>3
    <3>5. r.op \in {"create", "rename", "drop"} => r.cid # c
      BY <1>5, <3>1, <3>3, <3>4
    <3>6. ~Names(r, c)
      BY <3>5 DEF Names
    <3>7. c \in DOMAIN catalog2 /\ catalog2[c] = catalog[c]
      BY <3>3, <3>5, <3>6 DEF TablesAfter, CidsAfter
    <3> QED BY <3>1, <3>3, <3>7
  <2> QED BY <2>1, <2>2
<1> QED BY <1>14, <1>15, <1>16 DEF NamesFit, TableFits

----------------------------------------------------------------------------
(* Process death and recovery: the names *)

LEMMA DownNames ==
    ASSUME Observe, NEW x \in History, NamesHist(x), phase' \notin {"up", "loading"},
           UNCHANGED manifest
    PROVE  NamesHist(x)'
BY DEF NamesHist, Observe

LEMMA LoadNamesHist ==
    ASSUME Observe, NEW x \in History, NamesHist(x), phase' = "loading", UNCHANGED manifest,
           LoadNames(x, Place(x, replay'), state')
    PROVE  NamesHist(x)'
BY DEF NamesHist, Observe

\* A new store in memory has the names of the manifest.
LEMMA LoadedNames ==
    ASSUME UniqueNames(ListedNames(manifest))
    PROVE  /\ CatalogOf(LoadedState) = ListedNames(manifest)
           /\ Inverts(LoadedState.names, ListedNames(manifest))
<1> DEFINE listed == ListedNames(manifest)
<1>1. /\ DOMAIN listed = DOMAIN manifest.cols
      /\ \A c \in DOMAIN manifest.cols : listed[c] = manifest.cols[c].name
  BY DEF ListedNames
<1>2. CatalogOf(LoadedState) = listed
  BY DEF CatalogOf, LoadedState, NewCollection, ListedNames
<1>3. /\ DOMAIN LoadedState.names = {manifest.cols[c].name : c \in DOMAIN manifest.cols}
      /\ \A m \in DOMAIN LoadedState.names :
            LoadedState.names[m] = CHOOSE c \in DOMAIN manifest.cols : manifest.cols[c].name = m
  BY DEF LoadedState
<1>4. \A m \in DOMAIN LoadedState.names :
         /\ LoadedState.names[m] \in DOMAIN manifest.cols
         /\ manifest.cols[LoadedState.names[m]].name = m
  BY <1>3
<1>5. \A c \in DOMAIN manifest.cols : manifest.cols[c].name \in DOMAIN LoadedState.names
  BY <1>3
<1> HIDE DEF listed
<1>6. \A c \in DOMAIN manifest.cols : LoadedState.names[manifest.cols[c].name] = c
  BY <1>1, <1>4, <1>5 DEF UniqueNames, listed
<1>7. Inverts(LoadedState.names, listed)
  BY <1>1, <1>4, <1>5, <1>6 DEF Inverts
<1> QED BY <1>2, <1>7 DEF listed

LEMMA OpenLoadNames ==
    ASSUME Inv, Observe, NEW x \in History, Hist(x), NamesHist(x), OpenLoad
    PROVE  NamesHist(x)'
<1>1. SegmentsReadable
  BY DEF Inv, FilesInv, SegmentsReadable
<1>2. /\ phase' = "loading" /\ state' = LoadedState /\ StartReplay(manifest.walSeq)
      /\ UNCHANGED manifest
  BY <1>1 DEF OpenLoad
<1>3. manifest.walSeq \in Nat /\ manifest.walSeq <= x.last
  BY HistFacts
<1>4. Place(x, replay') = Base(x, manifest)
  BY <1>2, <1>3, StartsReplay DEF Base
<1>5. UniqueNames(ListedNames(manifest)) /\ NamesFit(x, Base(x, manifest), ListedNames(manifest))
  BY DEF NamesHist, BaseNames
<1>6. /\ CatalogOf(LoadedState) = ListedNames(manifest)
      /\ Inverts(LoadedState.names, ListedNames(manifest))
  BY <1>5, LoadedNames
<1>7. LoadNames(x, Base(x, manifest), LoadedState)
  BY <1>5, <1>6 DEF LoadNames, TableFits, Inverts
<1> QED BY <1>2, <1>4, <1>7, LoadNamesHist

LEMMA ReplayRecordNames ==
    ASSUME NoSwap, Inv, Inv', Observe, NEW x \in History, Hist(x), NamesHist(x), ReplayRecord
    PROVE  NamesHist(x)'
<1> DEFINE k == Place(x, replay)
           r == NextRecord
           st == Apply(state, r)
<1>1. AtRecord /\ phase = "loading" /\ UNCHANGED manifest
  BY DEF ReplayRecord, AtRecord, disk
<1>2. CASE ~Known(state, r)
  BY <1>1, <1>2, DownNames DEF ReplayRecord
<1>3. CASE Known(state, r)
  <2>1. state' = st /\ replay' = [replay EXCEPT !.pos = @ + 1] /\ phase' = "loading"
    BY <1>1, <1>3 DEF ReplayRecord
  <2>2. /\ k \in 0..x.n /\ k + 1 \in 1..x.n /\ r = x.rec[k + 1] /\ Place(x, replay') = k + 1
    BY <1>1, <2>1, NextRecordIs
  <2>3. HistoryInv(x) /\ NamesHistory(x) /\ LoadNames(x, k, state)
    BY <1>1 DEF Hist, NamesHist
  <2>4. Good(state) /\ state.pending = NoPending
    BY <1>1, LoadFacts
  <2> HIDE DEF k, r
  <2>5. /\ x.n \in Nat /\ k \in Nat /\ k < x.n
        /\ r \in WalRecord /\ r.op \notin {"torn", "blank", "swap"}
    <3>1. x.n \in Nat /\ k \in Nat /\ k < x.n /\ k + 1 \in Nat
      BY <2>2, HistoryIs
    <3>2. r.op \in OpKinds
      BY <2>2, <2>3 DEF HistoryInv
    <3> QED BY <2>2, <2>3, <3>1, <3>2, HistoryIs, NotTorn DEF NoSwap
  <2>6. Does(state, r, st) /\ DoesNames(state, r, st)
    BY <1>3, <2>4, <2>5, RecordDoes DEF Waits
  <2>7. r.op = "rename" => r.cid \in DOMAIN state.cols
    BY <1>3 DEF Known, Refers
  <2> HIDE DEF st
  <2>8. TablesAfter(r, state.names, CatalogOf(state), st.names, CatalogOf(st))
    BY <2>6, <2>7, DoesTables
  <2>9. r.op = "rename" => r.cid \in DOMAIN CatalogOf(state)
    BY <2>7 DEF CatalogOf
  <2>10. NamesFit(x, k, CatalogOf(state)) /\ TableFits(x, k, state.names, CatalogOf(state))
    BY <2>3 DEF LoadNames
  <2>11. LoadNames(x, k + 1, st)
    BY <2>2, <2>3, <2>5, <2>8, <2>9, <2>10, ReplayedNames DEF LoadNames
  <2> QED BY <1>1, <2>1, <2>2, <2>11, LoadNamesHist
<1> QED BY <1>2, <1>3

LEMMA ReplayFileEndNames ==
    ASSUME Inv, Observe, NEW x \in History, Hist(x), NamesHist(x), ReplayFileEnd
    PROVE  NamesHist(x)'
<1> DEFINE s == replay.seq
<1>1. /\ phase = "loading" /\ phase' = "loading" /\ ~AtRecord /\ s # 0 /\ StartReplay(s)
      /\ UNCHANGED <<manifest, state>>
  BY DEF ReplayFileEnd
<1>2. /\ LoadOk(x, manifest, wals, replay, state)
      /\ replay \in [seq : Nat, pos : Nat] /\ s \in (manifest.walSeq + 1)..x.last
  BY <1>1, LoadFacts
<1>3. manifest.walSeq \in Nat /\ x.last \in Nat
  BY HistFacts
<1>4. s \in Nat /\ manifest.walSeq <= s /\ s <= x.last
      /\ x.start[s] \in Nat /\ x.start[s + 1] \in Nat
  BY <1>2, <1>3, HistoryIs
<1>5. Len(wals[s]) = Size(x, s) /\ replay.pos <= Size(x, s)
  BY <1>1, <1>2 DEF LoadOk
<1>6. ~(replay.pos < Len(wals[s]))
  BY <1>1 DEF AtRecord
<1>7. replay.pos = Size(x, s)
  BY <1>2, <1>4, <1>5, <1>6 DEF Size
<1>8. Place(x, replay) = x.start[s + 1]
  BY <1>1, <1>4, <1>7 DEF Place, Size
<1>9. Place(x, replay') = x.start[s + 1]
  BY <1>1, <1>4, StartsReplay
<1>10. LoadNames(x, Place(x, replay'), state')
  BY <1>1, <1>8, <1>9 DEF NamesHist
<1> QED BY <1>1, <1>10, LoadNamesHist

LEMMA OpenFinishNames ==
    ASSUME Inv, Inv', Observe, NEW x \in History, Hist(x), NamesHist(x), OpenFinish
    PROVE  NamesHist(Rolled(x))'
<1>1. /\ phase = "loading" /\ phase' = "up" /\ replay.seq = 0 /\ UNCHANGED manifest
      /\ state' = [state EXCEPT !.wal = MaxSeq + 1]
  BY DEF OpenFinish
<1>2. state \in StoreState /\ Good(state)
  BY <1>1, LoadFacts
<1>3. CatalogOf(state') = CatalogOf(state) /\ state'.names = state.names
  BY <1>1, <1>2 DEF StoreState, CatalogOf
<1>4. x.snap[x.n].data = DataOf(state) /\ DOMAIN DataOf(state) = DOMAIN state.cols
  BY <1>1, <1>2, ReplayedAll, SnapOfIs
<1>5. Place(x, replay) = x.n
  BY <1>1 DEF Place
<1>6. /\ NamesHistory(x) /\ BaseNames(x, manifest)
      /\ NamesFit(x, x.n, CatalogOf(state)) /\ TableFits(x, x.n, state.names, CatalogOf(state))
  BY <1>1, <1>5 DEF NamesHist, LoadNames
<1>7. DOMAIN CatalogOf(state) = DOMAIN x.snap[x.n].data
  BY <1>4 DEF CatalogOf
<1>8. /\ Inverts(state.names, CatalogOf(state))
      /\ \A c \in DOMAIN CatalogOf(state) : CatalogOf(state)[c] = x.snap[x.n].catalog[c]
  <2> DEFINE catalog == CatalogOf(state)
             names == state.names
  <2>1. DOMAIN catalog = DOMAIN x.snap[x.n].data
    BY <1>7
  <2>2. NamesFit(x, x.n, catalog) /\ TableFits(x, x.n, names, catalog)
    BY <1>6
  <2> HIDE DEF catalog, names
  <2>3. \A R : ~Later(x, x.n, R)
    BY LaterEnd
  <2>4. Inverts(names, catalog) /\ \A c \in DOMAIN catalog : catalog[c] = x.snap[x.n].catalog[c]
    BY <2>1, <2>2, <2>3 DEF NamesFit, NameAt, TableFits, Inverts
  <2> QED BY <2>4 DEF catalog, names
<1>9. CatalogOf(state) = x.snap[x.n].catalog
  <2>1. x.n \in 0..x.n /\ x.snap[x.n] \in Snapshot
    BY HistoryIs
  <2>2. DOMAIN x.snap[x.n].catalog = DOMAIN x.snap[x.n].data
    BY <1>6, <2>1 DEF NamesHistory, NamesOk
  <2>3. x.snap[x.n].catalog \in Maps(Cid, Name)
    BY <2>1 DEF Snapshot
  <2>4. x.snap[x.n].catalog \in [DOMAIN x.snap[x.n].catalog -> Name]
    BY <2>3, MapsIs
  <2>5. CatalogOf(state) = [c \in DOMAIN CatalogOf(state) |-> CatalogOf(state)[c]]
    BY DEF CatalogOf
  <2> HIDE DEF CatalogOf
  <2> QED BY <1>7, <1>8, <2>2, <2>4, <2>5
<1>10. UpNames(x, state)
  BY <1>8, <1>9 DEF UpNames
<1>11. manifest.walSeq \in Nat /\ manifest.walSeq <= x.last
  BY HistFacts
<1>12. NamesHistory(Rolled(x)) /\ BaseNames(Rolled(x), manifest) /\ UpNames(Rolled(x), state')
  BY <1>3, <1>6, <1>10, <1>11, RolledUpNames
<1> QED BY <1>1, <1>12, RolledIs, UpNamesHist

----------------------------------------------------------------------------
(* The one way in which a replay fails *)

\* A record of the history behind the start of a log is in that log or in a
\* later one.
LEMMA RecordIn ==
    ASSUME NEW x \in History, NEW seq \in Nat, NEW w \in Logs, LogsOk(x, seq, w),
           NEW s \in (seq + 1)..x.last, NEW j \in Nat, x.start[s] < j, j <= x.n
    PROVE  \E t \in s..x.last :
              /\ t \in DOMAIN w /\ t \in Nat /\ j - x.start[t] \in DOMAIN w[t]
              /\ w[t][j - x.start[t]] = x.rec[j]
<1> DEFINE S == {t \in s..x.last : x.start[t] < j}
<1>1. /\ x.last \in Nat /\ x.n \in Nat /\ s \in Nat /\ \A t \in Nat : x.start[t] \in Nat
  BY HistoryIs
<1>2. S \subseteq 0..x.last /\ s \in S
  BY <1>1
<1>3. PICK t \in S : \A k \in S : k <= t
  <2>1. S # {}
    BY <1>2
  <2> HIDE DEF S
  <2> QED BY <1>1, <1>2, <2>1, LargestExists
<1>4. /\ t \in s..x.last /\ t \in (seq + 1)..x.last /\ t \in Nat /\ t + 1 \in Nat /\ x.start[t] < j
  BY <1>1, <1>3
<1>5. j <= x.start[t + 1]
  <2>1. CASE t = x.last
    BY <2>1 DEF LogsOk
  <2>2. CASE t # x.last
    <3>1. t + 1 \in s..x.last /\ ~(t + 1 <= t)
      BY <1>1, <1>4, <2>2
    <3>2. t + 1 \notin S
      BY <1>3, <3>1
    <3>3. ~(x.start[t + 1] < j)
      BY <3>1, <3>2
    <3> QED BY <1>1, <1>4, <3>3
  <2> QED BY <2>1, <2>2
<1> HIDE DEF S
<1>6. LogIs(x, w, t)
  BY <1>4 DEF LogsOk
<1> DEFINE a == x.start[t]
           b == x.start[t + 1]
           i == j - a
<1>7. a \in Nat /\ b \in Nat /\ a < j /\ j <= b
  BY <1>1, <1>4, <1>5
<1>8. Size(x, t) = b - a
  BY DEF Size
<1> HIDE DEF a, b
<1>9. i \in 1..Size(x, t) /\ a + i = j
  BY <1>7, <1>8
<1>10. t \in DOMAIN w /\ w[t][i] = x.rec[j]
  BY <1>6, <1>9 DEF LogIs, a
<1>11. Len(w[t]) \in Nat /\ w[t] \in Seq(WalRecord)
  BY <1>10, LogIn
<1>12. Len(w[t]) >= Size(x, t)
  BY <1>6, <1>7, <1>8, <1>11 DEF LogIs
<1>13. i \in 1..Len(w[t])
  BY <1>7, <1>8, <1>9, <1>11, <1>12
<1>14. i \in DOMAIN w[t]
  BY <1>11, <1>13
<1> QED BY <1>4, <1>10, <1>14 DEF a

\* A record that replay cannot apply is one of a collection that the manifest
\* leaves out and that a later record drops.
Raced ==
    /\ replay.seq # 0 /\ "drop" \in OpKinds
    /\ \E c \in Refers(NextRecord) \ DOMAIN state.cols :
          c < manifest.nextCid /\ DroppedAfter(c, replay.seq, replay.pos + 1)

LEMMA FailsRaced ==
    ASSUME Inv, NEW x \in History, Hist(x), NamesHist(x), AtRecord, ~Known(state, NextRecord)
    PROVE  Raced
<1> DEFINE k == Place(x, replay)
           r == NextRecord
           s == replay.seq
<1>1. phase = "loading" /\ s # 0
  BY DEF AtRecord
<1>2. /\ LoadOk(x, manifest, wals, replay, state) /\ replay \in [seq : Nat, pos : Nat]
      /\ s \in (manifest.walSeq + 1)..x.last
  BY <1>1, LoadFacts
<1>3. /\ HistoryInv(x) /\ LogsOk(x, manifest.walSeq, wals) /\ wals \in Logs
      /\ manifest.walSeq \in Nat
  BY HistFacts
<1>4. k \in 0..x.n /\ k + 1 \in 1..x.n /\ r = x.rec[k + 1]
  BY NextRecordIs
<1>5. x.n \in Nat /\ k \in Nat /\ k + 1 - 1 = k
  BY <1>4, HistoryIs
<1>6. r.op \notin {"torn", "blank"}
  BY <1>3, <1>4, NotTorn
<1>7. k = x.start[s] + replay.pos /\ x.start[s] \in Nat /\ replay.pos \in Nat
  BY <1>1, <1>2, <1>3, HistoryIs DEF Place
<1> HIDE DEF k, r
<1>8. ~(Refers(r) \subseteq DOMAIN state.cols)
  BY <1>6 DEF Known, r
<1>9. PICK c \in Refers(r) : c \notin DOMAIN state.cols
  BY <1>8
<1>10. c \in DOMAIN x.snap[k].data
  <2>1. NameFollows(x.snap[k], r, x.snap[k + 1])
    BY <1>4, <1>5 DEF NamesHist, NamesHistory
  <2> QED BY <1>9, <2>1 DEF NameFollows
<1>11. c < manifest.nextCid
  BY <1>2, <1>9, <1>10 DEF LoadOk, k
<1>12. Later(x, k, DropsOf(c))
  <2>1. DOMAIN DataOf(state) = DOMAIN state.cols
    BY DEF DataOf
  <2> QED BY <1>2, <1>9, <1>10, <2>1 DEF LoadOk, Fits, k
<1>13. PICK j \in (k + 1)..x.n : x.rec[j] \in DropsOf(c)
  BY <1>12 DEF Later
<1>14. x.rec[j].op = "drop" /\ x.rec[j].cid = c
  BY <1>13 DEF DropsOf
<1>15. j \in 1..x.n /\ j \in Nat /\ j <= x.n /\ k + 1 < j
  <2>1. j # k + 1
    BY <1>4, <1>9, <1>14 DEF Refers
  <2> QED BY <1>5, <1>13, <2>1
<1>16. "drop" \in OpKinds
  BY <1>3, <1>14, <1>15 DEF HistoryInv
<1>17. DroppedAfter(c, s, replay.pos + 1)
  <2>1. x.start[s] < j
    BY <1>5, <1>7, <1>15
  <2>2. PICK t \in s..x.last : /\ t \in DOMAIN wals /\ t \in Nat
                               /\ j - x.start[t] \in DOMAIN wals[t]
                               /\ wals[t][j - x.start[t]] = x.rec[j]
    BY <1>2, <1>3, <1>15, <2>1, RecordIn
  <2>3. s < t \/ (s = t /\ replay.pos + 1 < j - x.start[t])
    <3>1. s \in Nat /\ (s < t \/ s = t)
      BY <1>2, <2>2
    <3>2. CASE s = t
      BY <1>5, <1>7, <1>15, <3>2
    <3> QED BY <3>1, <3>2
  <2> QED BY <1>14, <2>2, <2>3 DEF DroppedAfter
<1> QED BY <1>1, <1>9, <1>11, <1>16, <1>17 DEF Raced, r

----------------------------------------------------------------------------
(* Every step *)

NamesInv ==
    /\ \E x \in History : Hist(x) /\ NamesHist(x)
    /\ phase = "failed" => Raced
    /\ phase = "up" => seen = View(state)

LEMMA ClientNames ==
    ASSUME NoSwap, CleanLogs, Inv, Inv', Observe, NEW x \in History, Hist(x), NamesHist(x), Client
    PROVE  \E z \in History : Hist(z)' /\ NamesHist(z)'
<1>1. phase = "up" => ActiveIsLast
  BY UpFacts
<1>2. (\E r \in WalRecord : Writing(r)) \/ Rotating
  BY <1>1, ClientWrites
<1>3. ASSUME NEW r \in WalRecord, Writing(r), NEW y, y = Recorded(x, r)
      PROVE  \E z \in History : Hist(z)' /\ NamesHist(z)'
  BY <1>3, WritingNames
<1>4. CASE Rotating
  BY <1>4, RotatingHist, RotatingNames, RolledIs
<1> QED BY <1>2, <1>3, <1>4

LEMMA ProcessNames ==
    ASSUME NoSwap, CleanLogs, Inv, Inv', Observe, NEW x \in History, Hist(x), NamesHist(x), Process
    PROVE  \E z \in History : Hist(z)' /\ NamesHist(z)'
<1>1. ~CrashInCreate
  BY DEF CrashInCreate, Fails, CleanLogs
<1>2. CASE OpenFinish
  BY <1>2, OpenFinishHist, OpenFinishNames, RolledIs
<1>3. CASE Crash \/ CrashInAppend
  <2>1. Hist(x)'
    BY <1>3, CrashHist, CrashInAppendHist
  <2>2. phase' = "down" /\ UNCHANGED manifest
    BY <1>3 DEF Crash, CrashInAppend, Down, disk
  <2> QED BY <2>1, <2>2, DownNames
<1>4. CASE OpenLoad
  BY <1>4, OpenLoadHist, OpenLoadNames
<1>5. CASE ReplayRecord
  BY <1>5, ReplayRecordHist, ReplayRecordNames
<1>6. CASE ReplayFileEnd
  BY <1>6, ReplayFileEndHist, ReplayFileEndNames
<1> QED BY <1>1, <1>2, <1>3, <1>4, <1>5, <1>6 DEF Process

\* A store fails at a record of the replay, and then does nothing more.
LEMMA FailsAt ==
    ASSUME Inv, NextV, phase' = "failed"
    PROVE  AtRecord /\ ~Known(state, NextRecord) /\ UNCHANGED <<disk, state, replay>>
<1>1. phase # "up" => maint = Idle
  BY DEF Inv, FollowInv
<1>2. ~Client
  BY DEF Client, CreateCollection, DropCollection, RenameCollection, SwapCollectionNames,
         UpsertRecord, DeleteRecord, UpdateMetadata, Rotate, Ready
<1>3. ~Maintenance
  BY <1>1 DEF Maintenance, FlushRead, FlushWrite, FlushStore, FlushFinish, FlushOpenFails,
              FlushDeleteFails, CompactRead, CompactWrite, CompactStore, CompactFinish,
              CompactOpenFails, CompactDeleteFails, MaintFail, Idle
<1>4. ~Crash /\ ~CrashInAppend /\ ~CrashInCreate /\ ~ReplayFileEnd /\ ~OpenFinish
  BY DEF Crash, CrashInAppend, CrashInCreate, ReplayFileEnd, OpenFinish, Down
<1>5. ~OpenLoad
  BY DEF OpenLoad, Inv, FilesInv, SegmentsReadable
<1>6. ReplayRecord
  BY <1>2, <1>3, <1>4, <1>5 DEF NextV, Process
<1> QED BY <1>6 DEF ReplayRecord, AtRecord

LEMMA StepNames ==
    ASSUME NoSwap, CleanLogs, Inv, Inv', NamesInv, NextV
    PROVE  NamesInv'
<1>1. PICK x \in History : Hist(x) /\ NamesHist(x)
  BY DEF NamesInv
<1>2. Observe
  BY DEF NextV
<1>3. \E z \in History : Hist(z)' /\ NamesHist(z)'
  <2>1. CASE Client
    BY <1>1, <1>2, <2>1, ClientNames
  <2>2. CASE Maintenance
    BY <1>1, <1>2, <2>2, MaintenanceHist, MaintenanceNames
  <2>3. CASE Process
    BY <1>1, <1>2, <2>3, ProcessNames
  <2> QED BY <2>1, <2>2, <2>3 DEF NextV
<1>4. ASSUME phase' = "failed" PROVE Raced'
  <2>1. AtRecord /\ ~Known(state, NextRecord) /\ UNCHANGED <<disk, state, replay>>
    BY <1>4, FailsAt
  <2>2. Raced
    BY <1>1, <2>1, FailsRaced
  <2> QED BY <2>1, <2>2 DEF Raced, NextRecord, DroppedAfter, disk
<1>5. phase' = "up" => seen' = View(state')
  BY <1>2 DEF Observe
<1> QED BY <1>3, <1>4, <1>5 DEF NamesInv

LEMMA StutterNames ==
    ASSUME NamesInv, UNCHANGED varsV
    PROVE  NamesInv'
BY DEF NamesInv, Hist, NamesHist, Raced, NextRecord, DroppedAfter, varsV, vars, disk, memory

LEMMA InitNames ==
    ASSUME InitV
    PROVE  NamesInv
<1> DEFINE x == NoHistory
<1>1. /\ x \in History /\ x.n = 0 /\ x.last = 0
      /\ \A k \in Nat : x.snap[k] = NoAnswers /\ x.start[k] = 0
      /\ NoAnswers.data = NoEntries /\ NoAnswers.catalog = NoEntries
  BY NoHistoryIs
<1>2. Hist(x)
  BY InitHist
<1> HIDE DEF x
<1>3. DOMAIN NoEntries = {}
  BY DEF NoEntries
<1>4. NamesHistory(x)
  BY <1>1, <1>3 DEF NamesHistory, NamesOk, UniqueNames
<1>5. /\ manifest = EmptyManifest /\ phase = "down" /\ seen = NothingSeen
  BY DEF InitV, Init
<1>6. BaseNames(x, manifest)
  <2>1. DOMAIN ListedNames(manifest) = {}
    BY <1>3, <1>5 DEF ListedNames, EmptyManifest
  <2> QED BY <2>1 DEF BaseNames, UniqueNames, NamesFit
<1>7. SeenNames(x, seen)
  <2>1. seen.catalog = NoEntries /\ seen.names = NoEntries
    BY <1>5 DEF NothingSeen
  <2>2. NoEntries \in Maps(Name, Cid)
    BY MapsIs DEF NoEntries
  <2> QED BY <1>1, <1>3, <2>1, <2>2 DEF SeenNames, Inverts
<1>8. NamesHist(x)
  BY <1>4, <1>5, <1>6, <1>7 DEF NamesHist
<1> QED BY <1>1, <1>2, <1>5, <1>8 DEF NamesInv

\* For clients that do not swap names, a store in which no log operation fails
\* half way also has the names of its history: every record that was written
\* referred to collections that there were and gave a name that was free, and
\* what replay is still to do puts its table of names right.
THEOREM NamesInvariance ==
    ASSUME NoSwap, CleanLogs
    PROVE  SpecV => []NamesInv
<1>1. InitV => NamesInv
  BY InitNames
<1>2. Inv /\ Inv' /\ NamesInv /\ [NextV]_varsV => NamesInv'
  BY StepNames, StutterNames
<1> QED BY <1>1, <1>2, StoreInvariance, PTL DEF SpecV

\* The table of names and the names kept in the collections are inverse to
\* each other in every open store, after any number of crashes.
THEOREM NamesBijectiveAlways ==
    ASSUME NoSwap, CleanLogs
    PROVE  SpecV => []NamesBijective
<1>1. NamesInv => NamesBijective
  BY DEF NamesInv, NamesHist, UpNames, Inverts, CatalogOf, NamesBijective
<1> QED BY <1>1, NamesInvariance, PTL

\* Recovery gives every collection the name it had.
THEOREM NamesRecoveredAlways ==
    ASSUME NoSwap, CleanLogs
    PROVE  SpecV => NamesRecovered
<1>1. ASSUME Inv, Inv', NamesInv, NextV, Recovers
      PROVE  seen'.names = seen.names /\ seen'.catalog = seen.catalog
  <2>1. PICK x \in History : Hist(x) /\ NamesHist(x)
    BY <1>1 DEF NamesInv
  <2>2. OpenFinish /\ Observe
    BY <1>1, RecoversIs
  <2>3. SeenNames(x, seen)
    BY <2>1 DEF NamesHist
  <2>4. SeenNames(Rolled(x), seen')
    BY <1>1, <2>1, <2>2, OpenFinishNames DEF NamesHist
  <2>5. Rolled(x).n = x.n /\ Rolled(x).snap = x.snap
    BY RolledIs
  <2>6. seen'.catalog = seen.catalog
    BY <2>3, <2>4, <2>5 DEF SeenNames
  <2>7. seen'.names = seen.names
    BY <2>3, <2>4, <2>6, InvertsOnce DEF SeenNames
  <2> QED BY <2>6, <2>7
<1>2. Inv /\ Inv' /\ NamesInv /\ [NextV]_varsV
        => [Recovers => seen'.names = seen.names /\ seen'.catalog = seen.catalog]_varsV
  BY <1>1
<1> QED BY <1>2, StoreInvariance, NamesInvariance, PTL DEF SpecV, NamesRecovered

\* The store can be opened again after a crash at any point, but for one case:
\* a log has a record of a collection that the manifest leaves out, because
\* the collection was dropped while an earlier generation was being flushed.
THEOREM RecoverableUnlessRacedAlways ==
    ASSUME NoSwap, CleanLogs
    PROVE  SpecV => []RecoverableUnlessRaced
<1>1. NamesInv => RecoverableUnlessRaced
  BY DEF NamesInv, Raced, RecoverableUnlessRaced
<1> QED BY <1>1, NamesInvariance, PTL

\* Where no client drops a collection, every store can be opened again.
THEOREM RecoverableAlways ==
    ASSUME NoSwap, CleanLogs, "drop" \notin OpKinds
    PROVE  SpecV => []Recoverable
<1>1. NamesInv => Recoverable
  BY DEF NamesInv, Raced, Recoverable
<1> QED BY <1>1, NamesInvariance, PTL

----------------------------------------------------------------------------
(* The store implements its abstract specification *)

LEMMA SameMaps ==
    ASSUME NEW S, NEW T, NEW f \in Maps(S, T), NEW g, g = [k \in DOMAIN g |-> g[k]],
           DOMAIN f = DOMAIN g, \A k \in DOMAIN f : f[k] = g[k]
    PROVE  f = g
<1>1. f \in [DOMAIN f -> T]
  BY MapsIs
<1> QED BY <1>1

LEMMA SameValues ==
    ASSUME NEW v \in Values, NEW u \in Values, \A id \in Id : v[id] = u[id]
    PROVE  v = u
BY DEF Values

\* A record that follows on what clients see is an operation of the API.
LEMMA RecordOperates ==
    ASSUME NEW r \in WalRecord, r.op \notin {"swap", "torn", "blank"},
           NEW d \in Snapshot, NEW e \in Snapshot, Follows(d, r, e),
           NamesOf(d, seen.names), seen.names \in Maps(Name, Cid),
           TablesAfter(r, seen.names, d.catalog, seen'.names, e.catalog),
           r.op \in {"create", "rename"} => r.name \notin DOMAIN seen.names,
           r.op \notin {"create"} => r.cid \in DOMAIN d.data,
           seen.data = d.data, seen.next = d.next, seen'.data = e.data, seen'.next = e.next
    PROVE  Abs!Operation
<1>1. /\ d.data \in Maps(Cid, Values) /\ e.data \in Maps(Cid, Values)
      /\ \A c \in DOMAIN d.data : d.data[c] \in Values
      /\ \A c \in DOMAIN e.data : e.data[c] \in Values
  <2>1. d.data \in Maps(Cid, Values) /\ e.data \in Maps(Cid, Values)
    BY DEF Snapshot
  <2>2. d.data \in [DOMAIN d.data -> Values] /\ e.data \in [DOMAIN e.data -> Values]
    BY <2>1, MapsIs
  <2> QED BY <2>1, <2>2
<1>2. /\ DOMAIN e.data = CidsAfter(r, DOMAIN d.data)
      /\ \A c \in DOMAIN e.data, id \in Id :
            e.data[c][id] = ValueAfter(r, c, id, d.data[c][id])
      /\ r.op = "create" => r.cid = d.next /\ e.next = r.cid + 1
      /\ r.op # "create" => e.next = d.next
  BY DEF Follows
<1>3. \A c \in DOMAIN e.data : c \in DOMAIN d.data /\ (\A id \in Id : ~Writes(r, c, id))
         /\ (r.op # "create" \/ r.cid # c) => e.data[c] = d.data[c]
  <2> SUFFICES ASSUME NEW c \in DOMAIN e.data, c \in DOMAIN d.data,
                      \A id \in Id : ~Writes(r, c, id), r.op # "create" \/ r.cid # c
               PROVE  e.data[c] = d.data[c]
    OBVIOUS
  <2>1. \A id \in Id : e.data[c][id] = d.data[c][id]
    BY <1>2 DEF ValueAfter
  <2>2. e.data[c] \in Values /\ d.data[c] \in Values
    BY <1>1
  <2> QED BY <2>1, <2>2, SameValues
<1>4. DOMAIN seen.names \subseteq Name
  BY MapsIs
<1>5. /\ DOMAIN d.catalog = DOMAIN d.data
      /\ \A c \in DOMAIN d.data : d.catalog[c] \in DOMAIN seen.names
                                  /\ seen.names[d.catalog[c]] = c
  BY DEF NamesOf, Inverts
<1>6. CASE r.op = "create"
  <2>1. r.name \in Name /\ r.cid = d.next /\ e.next = d.next + 1
    BY <1>2, <1>6 DEF WalRecord
  <2>2. seen'.names = Abs!Put(seen.names, r.name, d.next)
    BY <1>6, <2>1 DEF TablesAfter, Put, Abs!Put
  <2>3. seen'.data = Abs!Put(seen.data, d.next, [id \in Id |-> NoRecord])
    <3> DEFINE g == Abs!Put(d.data, d.next, [id \in Id |-> NoRecord])
    <3>1. DOMAIN g = DOMAIN d.data \cup {d.next} /\ g = [k \in DOMAIN g |-> g[k]]
          /\ \A k \in DOMAIN g : g[k] = IF k = d.next THEN [id \in Id |-> NoRecord] ELSE d.data[k]
      BY DEF Abs!Put
    <3> HIDE DEF g
    <3>2. DOMAIN e.data = DOMAIN g
      BY <1>2, <1>6, <2>1, <3>1 DEF CidsAfter
    <3>3. ASSUME NEW k \in DOMAIN e.data, k = d.next PROVE e.data[k] = [id \in Id |-> NoRecord]
      <4>1. \A id \in Id : e.data[k][id] = NoRecord
        BY <1>2, <1>6, <2>1, <3>3 DEF ValueAfter
      <4>2. e.data[k] \in Values /\ [id \in Id |-> NoRecord] \in Values
        BY <1>1 DEF Values
      <4> QED BY <4>1, <4>2, SameValues
    <3>4. ASSUME NEW k \in DOMAIN e.data, k # d.next PROVE e.data[k] = d.data[k]
      BY <1>3, <1>6, <2>1, <3>1, <3>2, <3>4 DEF Writes
    <3>5. \A k \in DOMAIN e.data : e.data[k] = g[k]
      BY <3>1, <3>2, <3>3, <3>4
    <3>6. e.data \in Maps(Cid, Values) /\ g = [k \in DOMAIN g |-> g[k]]
      BY <1>1, <3>1
    <3>7. e.data = g
      BY <3>2, <3>5, <3>6, SameMaps
    <3> QED BY <3>7 DEF g
  <2>4. Abs!Create(r.name)
    BY <1>6, <2>1, <2>2, <2>3 DEF Abs!Create
  <2> QED BY <2>1, <2>4 DEF Abs!Operation
<1>7. CASE r.op = "drop"
  <2> DEFINE name == d.catalog[r.cid]
  <2>1. name \in DOMAIN seen.names /\ name \in Name /\ seen.names[name] = r.cid
    BY <1>4, <1>5, <1>7
  <2>2. seen'.names = Abs!Without(seen.names, name)
    BY <1>5, <1>7 DEF TablesAfter, Without, Abs!Without
  <2>3. seen'.data = Abs!Without(seen.data, r.cid)
    <3> DEFINE g == Abs!Without(d.data, r.cid)
    <3>1. DOMAIN g = DOMAIN d.data \ {r.cid} /\ g = [k \in DOMAIN g |-> g[k]]
          /\ \A k \in DOMAIN g : g[k] = d.data[k]
      BY DEF Abs!Without
    <3> HIDE DEF g
    <3>2. DOMAIN e.data = DOMAIN g
      BY <1>2, <1>7, <3>1 DEF CidsAfter
    <3>3. \A k \in DOMAIN e.data : e.data[k] = g[k]
      BY <1>3, <1>7, <3>1, <3>2 DEF Writes
    <3>4. e.data \in Maps(Cid, Values) /\ g = [k \in DOMAIN g |-> g[k]]
      BY <1>1, <3>1
    <3>5. e.data = g
      BY <3>2, <3>3, <3>4, SameMaps
    <3> QED BY <3>5 DEF g
  <2> HIDE DEF name
  <2>4. Abs!Drop(name)
    BY <1>2, <1>7, <2>1, <2>2, <2>3 DEF Abs!Drop
  <2> QED BY <2>1, <2>4 DEF Abs!Operation
<1>8. r.op \in {"upsert", "delete", "updateMeta", "rename"} => DOMAIN e.data = DOMAIN d.data
  BY <1>2 DEF CidsAfter
<1>9. CASE r.op = "rename"
  <2> DEFINE from == d.catalog[r.cid]
  <2>1. from \in DOMAIN seen.names /\ from \in Name /\ seen.names[from] = r.cid /\ r.name \in Name
    BY <1>4, <1>5, <1>9 DEF WalRecord
  <2>2. seen'.names = Abs!Put(Abs!Without(seen.names, from), r.name, r.cid)
    BY <1>9 DEF TablesAfter, Put, Without, Abs!Put, Abs!Without
  <2>3. e.data = d.data
    <3>1. \A k \in DOMAIN e.data : e.data[k] = d.data[k]
      BY <1>3, <1>8, <1>9 DEF Writes
    <3>2. d.data = [k \in DOMAIN d.data |-> d.data[k]] /\ e.data \in Maps(Cid, Values)
      BY <1>1, MapsIs
    <3>3. DOMAIN e.data = DOMAIN d.data
      BY <1>8, <1>9
    <3> QED BY <3>1, <3>2, <3>3, SameMaps
  <2> HIDE DEF from
  <2>4. Abs!Rename(from, r.name)
    BY <1>2, <1>9, <2>1, <2>2, <2>3 DEF Abs!Rename
  <2> QED BY <2>1, <2>4 DEF Abs!Operation
<1>10. CASE r.op \in {"upsert", "delete", "updateMeta"}
  <2> DEFINE c == r.cid
             id == r.id
             val == e.data[c][id]
  <2>1. c \in DOMAIN d.data /\ c \in DOMAIN e.data /\ id \in Id
    BY <1>8, <1>10 DEF WalRecord
  <2>2. val \in Abs!Record \cup {NoRecord}
    BY <1>1, <2>1 DEF Values, Record, Abs!Record
  <2>3. seen'.data = [seen.data EXCEPT ![c][id] = val]
    <3> DEFINE v == [d.data[c] EXCEPT ![id] = val]
    <3>1. v \in Values /\ e.data[c] \in Values
      BY <1>1, <2>1 DEF Values
    <3>2. \A i \in Id : e.data[c][i] = v[i]
      <4>1. \A i \in Id : i # id => e.data[c][i] = d.data[c][i]
        BY <1>2, <1>10, <2>1 DEF ValueAfter, Writes
      <4>2. d.data[c] \in [Id -> Record \cup {NoRecord}]
        BY <1>1, <2>1 DEF Values
      <4> QED BY <2>1, <4>1, <4>2
    <3>3. e.data[c] = v
      BY <3>1, <3>2, SameValues
    <3> DEFINE g == [d.data EXCEPT ![c] = v]
    <3>4. DOMAIN g = DOMAIN d.data /\ g = [k \in DOMAIN g |-> g[k]]
          /\ \A k \in DOMAIN g : g[k] = IF k = c THEN v ELSE d.data[k]
      <4>1. d.data \in [DOMAIN d.data -> Values]
        BY <1>1, MapsIs
      <4> HIDE DEF v
      <4> QED BY <3>1, <4>1
    <3> HIDE DEF g, v
    <3>5. \A k \in DOMAIN e.data : k # c => e.data[k] = d.data[k]
      BY <1>3, <1>8, <1>10 DEF Writes
    <3>6. \A k \in DOMAIN e.data : e.data[k] = g[k]
      BY <1>8, <1>10, <3>3, <3>4, <3>5
    <3>7. /\ e.data \in Maps(Cid, Values) /\ g = [k \in DOMAIN g |-> g[k]]
          /\ DOMAIN e.data = DOMAIN g
      BY <1>1, <1>8, <1>10, <3>4
    <3>8. e.data = g
      BY <3>6, <3>7, SameMaps
    <3> QED BY <3>8 DEF g, v
  <2>4. seen'.names = seen.names /\ seen'.next = seen.next
    BY <1>2, <1>10 DEF TablesAfter
  <2> HIDE DEF val
  <2>5. Abs!Write(c, id, val)
    BY <2>3, <2>4 DEF Abs!Write
  <2> QED BY <2>1, <2>2, <2>5 DEF Abs!Operation
<1>11. r.op \in {"create", "rename", "drop", "upsert", "delete", "updateMeta"}
  BY DEF WalRecord
<1> QED BY <1>6, <1>7, <1>9, <1>10, <1>11

\* A record that a client writes is one operation, also if the memtables are
\* rotated with it.
LEMMA WritingOperates ==
    ASSUME NoSwap, Inv, Inv', Observe, seen = View(state),
           NEW x \in History, Hist(x), NamesHist(x), NEW r, Writing(r), NEW y, y = Recorded(x, r)
    PROVE  Abs!Next
<1> DEFINE st2 == Result(state, r)
           d == SnapOf(state)
           e == SnapOf(st2)
<1>1. phase = "up" /\ phase' = "up" /\ Asked(state, r) /\ written' = written + 1
  BY DEF Writing, StaysOnDisk
<1>2. d = x.snap[x.n] /\ Good(state) /\ Inverts(state.names, CatalogOf(state))
  BY <1>1, UpSnap
<1>3. /\ r \in WalRecord /\ r.op \notin {"swap", "torn", "blank"}
      /\ Refers(r) \subseteq DOMAIN state.cols
      /\ r.op \in {"drop", "rename"} => r.cid \in DOMAIN state.cols
  BY <1>1, <1>2, AskedKnown
<1>4. /\ r.op \in {"create", "rename"} => r.name \notin DOMAIN state.names
      /\ r.op \in {"upsert", "delete", "updateMeta"} => r.cid \in DOMAIN state.cols
  BY <1>1 DEF Asked
<1>5. TablesAfter(r, state.names, CatalogOf(state), st2.names, CatalogOf(st2))
  BY <1>1, <1>2, ResultNames
<1>6. Records(state, r, st2)
  BY <1>1, <1>2, ResultRecords
<1>7. /\ y \in History
      /\ \/ state' = st2 /\ Hist(y)'
         \/ CanRotate(st2) /\ state' = Rotated(st2) /\ Hist(Rolled(y))'
  BY WritingHist
<1>8. y = Grown(x, r, e)
  BY DEF Recorded
<1> HIDE DEF st2
<1>9. Good(st2) /\ Does(state, r, st2) /\ (r.op = "create" => r.cid = state.manifest.nextCid)
  BY <1>6 DEF Records
<1>10. /\ d \in Snapshot /\ d.catalog = CatalogOf(state) /\ DOMAIN CatalogOf(state) = DOMAIN state.cols
       /\ d.data = DataOf(state) /\ d.next = state.manifest.nextCid
       /\ DOMAIN d.data = DOMAIN state.cols
       /\ e \in Snapshot /\ e.catalog = CatalogOf(st2)
  BY <1>2, <1>9, SnapOfIs, SnapNames
<1> HIDE DEF d, e
<1>11. Follows(d, r, e)
  BY <1>2, <1>9, <1>10, DoesFollows DEF e
<1>12. seen.data = d.data /\ seen.next = d.next
  BY <1>2 DEF Hist, SeenOk
<1>13. y.snap[y.n] = e
  BY <1>3, <1>8, <1>10, GrownIs
<1>14. seen'.data = e.data /\ seen'.next = e.next
  <2>1. CASE Hist(y)'
    BY <1>13, <2>1 DEF Hist, SeenOk
  <2>2. CASE Hist(Rolled(y))'
    <3>1. Rolled(y).n = y.n /\ Rolled(y).snap = y.snap
      BY <1>7, RolledIs
    <3> QED BY <1>13, <2>2, <3>1 DEF Hist, SeenOk
  <2> QED BY <1>7, <2>1, <2>2
<1>15. seen.names = state.names /\ seen.names \in Maps(Name, Cid)
  <2>1. seen.names = state.names
    BY DEF View
  <2> QED BY <2>1 DEF NamesHist, SeenNames
<1>16. seen'.names = st2.names
  <2>1. seen'.names = state'.names
    BY <1>1 DEF Observe, View
  <2> QED BY <1>7, <1>9, <2>1, RotatedNames
<1>17. NamesOf(d, seen.names)
  BY <1>2, <1>10, <1>15 DEF NamesOf
<1>18. r.op \notin {"create"} => r.cid \in DOMAIN d.data
  BY <1>3, <1>4, <1>10 DEF WalRecord
<1>19. TablesAfter(r, seen.names, d.catalog, seen'.names, e.catalog)
  BY <1>5, <1>10, <1>15, <1>16
<1>20. Abs!Operation
  BY <1>3, <1>4, <1>10, <1>11, <1>12, <1>14, <1>15, <1>17, <1>18, <1>19, RecordOperates
<1> QED BY <1>1, <1>20 DEF Abs!Next

\* A step that adds no record to the history changes nothing for clients.
LEMMA SameAnswers ==
    ASSUME NEW x, NEW z, z.n = x.n, z.snap = x.snap, SeenOk(x, seen), SeenNames(x, seen),
           SeenOk(z, seen'), SeenNames(z, seen'), UNCHANGED written
    PROVE  UNCHANGED Abs!vars
<1>1. /\ seen.data = seen'.data /\ seen.next = seen'.next /\ seen.catalog = seen'.catalog
  BY DEF SeenOk, SeenNames
<1>2. seen.names = seen'.names
  BY <1>1, InvertsOnce DEF SeenNames
<1> QED BY <1>1, <1>2 DEF Abs!vars

LEMMA StepOperates ==
    ASSUME NoSwap, CleanLogs, Inv, Inv', NamesInv, NextV
    PROVE  [Abs!Next]_(Abs!vars)
<1>1. PICK x \in History : Hist(x) /\ NamesHist(x)
  BY DEF NamesInv
<1>2. Observe
  BY DEF NextV
<1>3. SeenOk(x, seen) /\ SeenNames(x, seen)
  BY <1>1 DEF Hist, NamesHist
<1>4. ASSUME NEW z \in History, z.n = x.n, z.snap = x.snap, Hist(z)', NamesHist(z)',
             UNCHANGED written
      PROVE  UNCHANGED Abs!vars
  <2>1. SeenOk(z, seen') /\ SeenNames(z, seen')
    BY <1>4 DEF Hist, NamesHist
  <2> QED BY <1>3, <1>4, <2>1, SameAnswers
<1>5. Rolled(x) \in History /\ Rolled(x).n = x.n /\ Rolled(x).snap = x.snap
  BY RolledIs
<1>6. CASE Client
  <2>1. phase = "up" => ActiveIsLast
    BY <1>1, UpFacts
  <2>2. (\E r \in WalRecord : Writing(r)) \/ Rotating
    BY <1>6, <2>1, ClientWrites
  <2>3. ASSUME NEW r \in WalRecord, Writing(r), NEW y, y = Recorded(x, r) PROVE Abs!Next
    <3>1. seen = View(state)
      BY <2>3 DEF NamesInv, Writing
    <3> QED BY <1>1, <1>2, <2>3, <3>1, WritingOperates
  <2>4. CASE Rotating
    <3>1. Hist(Rolled(x))' /\ NamesHist(Rolled(x))' /\ UNCHANGED written
      BY <1>1, <1>2, <2>4, RotatingHist, RotatingNames DEF Rotating
    <3> QED BY <1>4, <1>5, <3>1
  <2> QED BY <2>2, <2>3, <2>4
<1>7. CASE Maintenance
  <2>1. Hist(x)' /\ NamesHist(x)'
    BY <1>1, <1>2, <1>7, MaintenanceHist, MaintenanceNames
  <2>2. UNCHANGED written
    BY <1>7 DEF Maintenance, FlushRead, FlushWrite, FlushStore, FlushFinish, FlushOpenFails,
                FlushDeleteFails, CompactRead, CompactWrite, CompactStore, CompactFinish,
                CompactOpenFails, CompactDeleteFails, MaintFail
  <2> QED BY <1>4, <2>1, <2>2
<1>8. CASE Process
  <2>1. UNCHANGED written /\ ~CrashInCreate
    BY <1>8 DEF Process, Crash, CrashInAppend, CrashInCreate, OpenLoad, ReplayRecord,
                ReplayFileEnd, OpenFinish, Fails, CleanLogs
  <2>2. CASE OpenFinish
    <3>1. Hist(Rolled(x))' /\ NamesHist(Rolled(x))'
      BY <1>1, <1>2, <2>2, OpenFinishHist, OpenFinishNames
    <3> QED BY <1>4, <1>5, <2>1, <3>1
  <2>3. CASE Crash \/ CrashInAppend
    <3>1. Hist(x)'
      BY <1>1, <1>2, <2>3, CrashHist, CrashInAppendHist
    <3>2. phase' = "down" /\ UNCHANGED manifest
      BY <2>3 DEF Crash, CrashInAppend, Down, disk
    <3> QED BY <1>1, <1>2, <1>4, <2>1, <3>1, <3>2, DownNames
  <2>4. CASE OpenLoad \/ ReplayRecord \/ ReplayFileEnd
    <3>1. Hist(x)' /\ NamesHist(x)'
      BY <1>1, <1>2, <2>4, OpenLoadHist, OpenLoadNames, ReplayRecordHist, ReplayRecordNames,
         ReplayFileEndHist, ReplayFileEndNames
    <3> QED BY <1>4, <2>1, <3>1
  <2> QED BY <1>8, <2>1, <2>2, <2>3, <2>4 DEF Process
<1> QED BY <1>2, <1>6, <1>7, <1>8 DEF NextV

\* The store implements StoreAbs: whatever flushes, compactions, crashes and
\* recoveries do, what clients see changes only as one operation of the API
\* changes it, and every such change is one record that was written.
THEOREM StoreRefinement ==
    ASSUME NoSwap, CleanLogs
    PROVE  SpecV => ImplementsStoreAbs
<1>1. InitV => Abs!Init
  BY DEF InitV, Init, Abs!Init, NothingSeen, NoEntries
<1>2. ASSUME UNCHANGED varsV PROVE UNCHANGED Abs!vars
  BY <1>2 DEF varsV, vars, Abs!vars
<1>3. Inv /\ Inv' /\ NamesInv /\ [NextV]_varsV => [Abs!Next]_(Abs!vars)
  BY <1>2, StepOperates
<1> QED BY <1>1, <1>3, StoreInvariance, NamesInvariance, PTL
        DEF SpecV, ImplementsStoreAbs, Abs!Spec

============================================================================
