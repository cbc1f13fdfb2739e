---------------------------- MODULE ReplicaProofs ----------------------------
(***************************************************************************)
(* The safety of replication, for a primary and a replica of any size and  *)
(* any number of failures, deaths and reboots: what a replica can miss,    *)
(* that it can always be opened again, that readers never lose what they   *)
(* have seen.                                                              *)
(***************************************************************************)
EXTENDS Replica, FiniteSetTheorems, SequenceTheorems, WellFoundedInduction, TLAPS

CoveredBy(g) == manifests[g].walSeq

\* The records of the primary in its files: their order is that of the files,
\* and a record does not come before the one that created its collection.
RecordsOrdered ==
    /\ \A q, r \in Logged : q <= r => FileOf(q) <= FileOf(r)
    /\ \A r \in Logged : FileOf(r) <= active /\ hist[r].col \in 1..r

\* A later generation covers more.
GenerationsGrow ==
    /\ \A g, h \in 0..gen : g <= h => CoveredBy(g) <= CoveredBy(h)
    /\ \A g \in 0..gen : CoveredBy(g) < active
    /\ pending # 0 => CoveredBy(gen) <= pending /\ pending < active

\* The segments of the newest generation are there, and none is newer.
SegmentsKept ==
    /\ manifests[gen].segs \subseteq segDirs /\ segDirs \subseteq 1..gen
    /\ \A g \in 0..gen : manifests[g].segs \subseteq 1..gen

PrimType ==
    /\ hist \in Seq([file : Wal, col : Nat, drop : BOOLEAN]) /\ Len(hist) <= MaxRec
    /\ active \in Wal /\ pending \in 0..MaxWal
    /\ manifests \in [0..MaxPrimGen -> Manifests]
    /\ gen \in 0..MaxPrimGen

PrimInv == PrimType /\ RecordsOrdered /\ GenerationsGrow /\ SegmentsKept

Asked == {"manifest", "segments", "switch", "tail", "create", "magic", "apply", "append"}
Heads == {"none", "bare", "whole"}

ReplType ==
    /\ rgen \in 0..rcur /\ rcur \in 0..gen
    /\ rsegs \in [Seg -> {"none", "bare", "whole", "torn"}]
    /\ rwal \in [Wal -> [head : Heads, len : Nat, torn : BOOLEAN, twice : Nat]]
    /\ seen \subseteq Logged
    /\ at \in {"idle", "state", "dead"} \cup Asked
    /\ want \in [gen : 0..gen, seq : 0..active]
    /\ todo \subseteq Seg
    /\ walSeq \in 0..active /\ fileLen \in Nat /\ fetched \in Nat
    /\ head \in {"none", "held", "written"}
    /\ broken \subseteq {"segment", "append", "apply"}

\* Where sync_once is fits what it has: it goes by an answer of the primary that
\* is not older than what the replica has, and frames come from a log.
PlaceFits ==
    /\ at \in Asked => want.seq # 0
    /\ at \in {"state", "manifest", "segments"} => rcur <= want.gen
    /\ at \in {"apply", "append"} => fetched # 0
    /\ fetched # 0 => walSeq # 0 /\ fileLen + fetched <= Frames(walSeq)

\* What the replica has of a segment it needs.
Got(s) == rsegs[s] \in {"torn", "whole"} \/ (rsegs[s] = "bare" /\ s \notin segDirs)

SegmentsFit ==
    /\ \A s \in manifests[rgen].segs : Got(s) /\ rsegs[s] # "torn"
    /\ \A s \in manifests[rcur].segs : Got(s)
    /\ at = "segments" => \A s \in manifests[want.gen].segs \ todo : Got(s)
    /\ \A s \in Seg : rsegs[s] = "torn" => "segment" \in broken

FirstFrames(f, n) == {Frame(f, i) : i \in 1..n}

\* Unless frames could not be appended, the local logs have no gap, the log
\* that is tailed is as long as the replica thinks, and what is in memory is
\* the covered records and of each log a first part, which is at least what
\* the local file has.
LogsFit ==
    /\ \A f \in Wal : rwal[f].len <= Frames(f)
    /\ "append" \notin broken =>
          /\ \A f \in Wal : ~rwal[f].torn /\ rwal[f].twice = 0
          /\ walSeq # 0 => fileLen = rwal[walSeq].len
          /\ UpTo(CoveredBy(rgen)) \subseteq seen
          /\ \A f \in Wal : FirstFrames(f, rwal[f].len) \subseteq seen
          /\ at = "append" => FetchedRecords \subseteq seen
          /\ \A q \in seen, r \in Logged : FileOf(q) = FileOf(r) /\ r <= q => r \in seen

\* Frames are where a log has its magic, and the magic is written before the
\* first of them.
HeadsFit ==
    /\ \A f \in Wal : rwal[f].head # "whole" => rwal[f].len = 0 /\ rwal[f].twice = 0
    /\ head # "written" => fileLen = 0
    /\ walSeq # 0 /\ (head = "none" \/ (head = "held" /\ "append" \notin broken))
          => rwal[walSeq].head # "whole"
    /\ head = "written" => walSeq # 0 /\ (rwal[walSeq].head = "whole" \/ rwal[walSeq].torn)
    /\ at \in {"create", "magic"} => walSeq # 0 /\ head = "held"
    /\ at \in {"apply", "append"} => head = "written"

\* As long as nothing has failed, memory is what the files say, up to the frames
\* that are just being appended, and a log lacks its magic only between the two
\* calls that begin it.
FilesFit ==
    broken = {} /\ at # "dead" =>
        /\ fetched # 0 => at \in {"create", "magic", "apply", "append"}
        /\ head = "held" => at \in {"create", "magic"}
        /\ at = "create" => rwal[walSeq].head = "none"
        /\ at = "magic" => rwal[walSeq].head = "bare"
        /\ \A f \in Wal : rwal[f].head = "bare" => at = "magic" /\ f = walSeq
        /\ seen = UpTo(CoveredBy(rgen)) \cup Replayed(CoveredBy(rgen))
                    \cup (IF at = "append" THEN FetchedRecords ELSE {})

KnownFrom(g) == manifests[g].cols \cup Replayed(CoveredBy(g))

\* If besides no generation has lost a collection that a later log writes to,
\* every record on disk has its collection, and memory is the generation that
\* CURRENT names.
CollectionsFit ==
    broken = {} /\ at # "dead" /\ ~DropRaced =>
        /\ at # "switch" => rcur = rgen
        /\ \A r \in Replayed(CoveredBy(rgen)) : hist[r].drop \/ hist[r].col \in KnownFrom(rgen)
        /\ at = "append" =>
              \A r \in FetchedRecords :
                  hist[r].drop \/ hist[r].col \in KnownFrom(rgen) \cup FetchedRecords

ReplInv ==
    /\ ReplType /\ PlaceFits /\ SegmentsFit
    /\ HeadsFit /\ LogsFit /\ FilesFit /\ CollectionsFit

IInv == PrimInv /\ ReplInv

----------------------------------------------------------------------------
(* Counting frames *)

LEMMA LeastNatural ==
    ASSUME NEW S, S \subseteq Nat, S # {}
    PROVE  \E m \in S : \A n \in S : m <= n
<1>1. PICK m \in S : \A n \in S : ~(<<n, m>> \in OpToRel(<, Nat))
  BY NatLessThanWellFounded, WFMin
<1>2. ASSUME NEW n \in S PROVE m <= n
  <2>1. n \in Nat /\ m \in Nat
    OBVIOUS
  <2>2. ASSUME n < m PROVE FALSE
    <3>1. <<n, m>> \in OpToRel(<, Nat)
      BY <2>1, <2>2 DEF OpToRel
    <3> QED BY <1>1, <3>1
  <2> QED BY <2>1, <2>2
<1> QED BY <1>2

LEMMA HistTypes ==
    ASSUME PrimType
    PROVE  /\ Len(hist) \in Nat /\ Logged = 1..Len(hist)
           /\ \A r \in Logged : FileOf(r) \in Wal /\ FileOf(r) \in Nat /\ hist[r].col \in Nat
<1>1. hist \in Seq([file : Wal, col : Nat, drop : BOOLEAN])
  BY DEF PrimType
<1>2. Logged = 1..Len(hist) /\ Len(hist) \in Nat
  BY <1>1 DEF Logged
<1>3. \A r \in Logged : hist[r] \in [file : Wal, col : Nat, drop : BOOLEAN]
  BY <1>1, <1>2, ElementOfSeq
<1>4. Wal \subseteq Nat
  BY PrimaryAssumption DEF Wal
<1> QED BY <1>2, <1>3, <1>4 DEF FileOf

\* A set of numbers that has with a number all smaller ones is counted by its
\* largest.
LEMMA FirstPart ==
    ASSUME NEW n \in Nat, NEW S \in SUBSET (1..n), \A r \in S : 1..r \subseteq S
    PROVE  S = 1..Cardinality(S) /\ Cardinality(S) \in 0..n
<1> DEFINE Above == {m \in Nat : \A r \in S : r <= m}
<1>1. PICK m \in Above : \A k \in Above : m <= k
  <2>1. n \in Above
    OBVIOUS
  <2> QED BY <2>1, LeastNatural
<1>2. m \in Nat /\ \A r \in S : r <= m
  OBVIOUS
<1>3. S = 1..m /\ m <= n
  <2>1. CASE m = 0
    BY <1>2, <2>1
  <2>2. CASE m # 0
    <3>1. m - 1 \in Nat /\ ~(m <= m - 1)
      BY <1>2, <2>2
    <3>2. m - 1 \notin Above
      BY <1>1, <3>1
    <3>3. PICK r \in S : ~(r <= m - 1)
      BY <3>1, <3>2
    <3>4. r = m
      BY <1>2, <3>1, <3>3
    <3>5. 1..m \subseteq S
      BY <3>3, <3>4
    <3>6. S \subseteq 1..m
      BY <1>2
    <3>7. m \in 1..n
      BY <3>3, <3>4
    <3>8. S = 1..m
      BY <3>5, <3>6, Zenon
    <3> HIDE DEF Above
    <3> QED BY <1>2, <3>7, <3>8
  <2> QED BY <2>1, <2>2
<1>4. Cardinality(1..m) = m
  BY <1>2, FS_Interval
<1> QED BY <1>2, <1>3, <1>4

LEMMA UpToIs ==
    ASSUME PrimType, RecordsOrdered, NEW f \in Int
    PROVE  UpTo(f) = 1..Cardinality(UpTo(f)) /\ Cardinality(UpTo(f)) \in 0..Len(hist)
<1>1. Len(hist) \in Nat /\ Logged = 1..Len(hist) /\ \A r \in Logged : FileOf(r) \in Int
  BY HistTypes
<1>2. UpTo(f) \in SUBSET (1..Len(hist))
  BY <1>1 DEF UpTo
<1>3. \A r \in UpTo(f) : 1..r \subseteq UpTo(f)
  BY <1>1 DEF UpTo, RecordsOrdered
<1> QED BY <1>1, <1>2, <1>3, FirstPart

\* The records of a file are the ones at its frames.
LEMMA FramesAre ==
    ASSUME PrimType, RecordsOrdered, NEW f \in Int
    PROVE  /\ Frames(f) \in Nat /\ Frame(f, 0) \in Nat
           /\ \A i \in Int : Frame(f, i) = Frame(f, 0) + i
           /\ \A r \in Int : r \in Logged /\ FileOf(r) = f
                               <=> Frame(f, 0) < r /\ r <= Frame(f, 0) + Frames(f)
<1> DEFINE m == Cardinality(UpTo(f - 1))
           n == Cardinality(UpTo(f))
<1>1. UpTo(f - 1) = 1..m /\ m \in 0..Len(hist)
  BY UpToIs
<1>2. UpTo(f) = 1..n /\ n \in 0..Len(hist)
  BY UpToIs
<1>3. \A r \in Logged : FileOf(r) \in Int
  BY HistTypes
<1>4. \A i : Frame(f, i) = m + i
  BY DEF Frame
<1> HIDE DEF m, n
<1>5. Len(hist) \in Nat /\ Logged = 1..Len(hist)
  BY DEF PrimType, Logged
<1>6. m <= n
  <2>1. UpTo(f - 1) \subseteq UpTo(f)
    BY <1>3 DEF UpTo
  <2>2. CASE m = 0
    BY <1>2, <2>2
  <2>3. CASE m # 0
    <3>1. m \in 1..n
      BY <1>1, <1>2, <2>1, <2>3
    <3> QED BY <3>1
  <2> QED BY <2>2, <2>3
<1>7. \A r \in Int : r \in Logged /\ FileOf(r) = f <=> r \in (m + 1)..n
  <2>1. \A r \in Logged : FileOf(r) = f <=> r \in UpTo(f) /\ r \notin UpTo(f - 1)
    BY <1>3 DEF UpTo
  <2> QED BY <1>1, <1>2, <1>5, <2>1
<1>8. Frames(f) = n - m
  <2>1. {r \in Logged : FileOf(r) = f} = (m + 1)..n
    BY <1>1, <1>2, <1>5, <1>7
  <2>2. m + 1 \in Int /\ n \in Int
    BY <1>1, <1>2
  <2>3. Cardinality((m + 1)..n) = IF m + 1 > n THEN 0 ELSE n - (m + 1) + 1
    BY <2>2, FS_Interval
  <2>4. Cardinality((m + 1)..n) = n - m
    BY <1>1, <1>2, <1>6, <2>3
  <2> QED BY <2>1, <2>4 DEF Frames
<1> QED BY <1>1, <1>2, <1>4, <1>6, <1>7, <1>8

\* The records of the first frames of a log.
LEMMA FirstFramesAre ==
    ASSUME PrimType, RecordsOrdered, NEW f \in Int, NEW n \in 0..Frames(f), NEW r
    PROVE  r \in FirstFrames(f, n)
             <=> r \in Logged /\ FileOf(r) = f /\ r <= Frame(f, n)
<1>1. n \in Int /\ Frames(f) \in Nat
  BY FramesAre
<1>2. Logged \subseteq Int
  BY HistTypes
<1>3. ASSUME r \in FirstFrames(f, n)
      PROVE  r \in Logged /\ FileOf(r) = f /\ r <= Frame(f, n)
  <2>1. PICK i \in 1..n : r = Frame(f, i)
    BY <1>3 DEF FirstFrames
  <2>2. r = Frame(f, 0) + i /\ Frame(f, n) = Frame(f, 0) + n
    BY <1>1, <2>1, FramesAre
  <2>3. Frame(f, 0) \in Nat
    BY FramesAre
  <2>4. i \in Int /\ 1 <= i /\ i <= n /\ n <= Frames(f)
    BY <1>1, <2>1
  <2> HIDE DEF FirstFrames
  <2>5. Frame(f, 0) < r /\ r <= Frame(f, 0) + Frames(f) /\ r <= Frame(f, n) /\ r \in Int
    BY <1>1, <2>2, <2>3, <2>4
  <2> QED BY <2>5, FramesAre
<1>4. ASSUME r \in Logged, FileOf(r) = f, r <= Frame(f, n)
      PROVE  r \in FirstFrames(f, n)
  <2>0. r \in Int /\ Frame(f, 0) < r /\ Frame(f, n) = Frame(f, 0) + n /\ Frame(f, 0) \in Nat
    BY <1>1, <1>2, <1>4, FramesAre
  <2>1. r - Frame(f, 0) \in 1..n /\ r = Frame(f, r - Frame(f, 0))
    <3>1. r - Frame(f, 0) \in Int
      BY <2>0
    <3>2. Frame(f, r - Frame(f, 0)) = Frame(f, 0) + (r - Frame(f, 0))
      BY <3>1, FramesAre
    <3> QED BY <1>1, <1>4, <2>0, <3>2
  <2> QED BY <2>1 DEF FirstFrames
<1> QED BY <1>3, <1>4

LEMMA ManifestTypes ==
    ASSUME PrimType
    PROVE  /\ gen \in Nat /\ MaxPrimGen \in Nat /\ active \in Nat /\ pending \in Nat
           /\ \A g \in 0..gen :
                 /\ g \in 0..MaxPrimGen
                 /\ CoveredBy(g) \in 0..MaxWal /\ CoveredBy(g) \in Nat
                 /\ manifests[g].segs \subseteq Seg /\ manifests[g].cols \subseteq Rec
<1>1. MaxWal \in Nat /\ MaxPrimGen \in Nat
  BY PrimaryAssumption
<1>2. gen \in Nat /\ active \in Nat /\ pending \in Nat
  BY <1>1 DEF PrimType, Wal
<1>3. \A g \in 0..gen : g \in 0..MaxPrimGen
  BY <1>1, <1>2 DEF PrimType
<1>4. \A g \in 0..MaxPrimGen : manifests[g] \in Manifests
  BY DEF PrimType
<1> QED BY <1>1, <1>2, <1>3, <1>4 DEF Manifests, CoveredBy

\* What a replay of the local logs reads.
LEMMA ReplayedAre ==
    ASSUME PrimType, RecordsOrdered, ReplType, \A f \in Wal : rwal[f].len <= Frames(f),
           NEW c \in Nat, NEW r
    PROVE  r \in Replayed(c)
             <=> /\ r \in Logged /\ FileOf(r) > c
                 /\ r <= Frame(FileOf(r), rwal[FileOf(r)].len)
<1>1. Wal = 1..MaxWal /\ MaxWal \in Nat
  BY PrimaryAssumption DEF Wal
<1>2. \A f \in Wal : rwal[f].len \in Nat /\ rwal[f].len \in 0..Frames(f)
  BY <1>1, FramesAre DEF ReplType
<1>3. \A q \in Logged : FileOf(q) \in Wal
  BY HistTypes
<1>4. r \in Replayed(c) <=> \E f \in (c + 1)..MaxWal : r \in FirstFrames(f, rwal[f].len)
  BY DEF Replayed, FirstFrames
<1>5. \A f \in (c + 1)..MaxWal : f \in Wal /\ f \in Int /\ f > c
  BY <1>1
<1>6. \A f \in (c + 1)..MaxWal : r \in FirstFrames(f, rwal[f].len)
         <=> r \in Logged /\ FileOf(r) = f /\ r <= Frame(f, rwal[f].len)
  BY <1>2, <1>5, FirstFramesAre
<1>7. \A f \in Wal : f > c => f \in (c + 1)..MaxWal
  BY <1>1
<1> QED BY <1>3, <1>4, <1>5, <1>6, <1>7

\* The records of the frames that wait in ReplicaSync::pending.
LEMMA FetchedAre ==
    ASSUME PrimType, RecordsOrdered, ReplType, PlaceFits, NEW r
    PROVE  r \in FetchedRecords
             <=> /\ fetched # 0 /\ r \in Logged /\ FileOf(r) = walSeq
                 /\ Frame(walSeq, fileLen) < r /\ r <= Frame(walSeq, fileLen + fetched)
<1>1. walSeq \in Int /\ fileLen \in Nat /\ fetched \in Nat /\ Logged \subseteq Int
  BY ManifestTypes, HistTypes DEF ReplType
<1>2. CASE fetched = 0
  <2>1. 1..fetched = {}
    BY <1>2
  <2> QED BY <1>2, <2>1 DEF FetchedRecords
<1>3. CASE fetched # 0
  <2> DEFINE a == Frame(walSeq, 0)
             b == Frames(walSeq)
  <2>1. a \in Nat /\ b \in Nat /\ fileLen + fetched <= b
    BY <1>1, <1>3, FramesAre DEF PlaceFits
  <2>2. \A i \in Int : Frame(walSeq, i) = a + i
    BY <1>1, FramesAre
  <2>3. \A q \in Int : q \in Logged /\ FileOf(q) = walSeq <=> a < q /\ q <= a + b
    BY <1>1, FramesAre
  <2> HIDE DEF a, b
  <2>4. ASSUME r \in FetchedRecords
        PROVE  /\ r \in Logged /\ FileOf(r) = walSeq
               /\ Frame(walSeq, fileLen) < r /\ r <= Frame(walSeq, fileLen + fetched)
    <3>1. PICK i \in 1..fetched : r = Frame(walSeq, fileLen + i)
      BY <2>4 DEF FetchedRecords
    <3>2. /\ r = a + (fileLen + i) /\ Frame(walSeq, fileLen) = a + fileLen
          /\ Frame(walSeq, fileLen + fetched) = a + (fileLen + fetched)
      BY <1>1, <2>2, <3>1
    <3>3. r \in Int /\ a < r /\ r <= a + b /\ a + fileLen < r /\ r <= a + (fileLen + fetched)
      BY <1>1, <2>1, <3>2
    <3> QED BY <2>3, <3>2, <3>3
  <2>5. ASSUME r \in Logged, FileOf(r) = walSeq, Frame(walSeq, fileLen) < r,
               r <= Frame(walSeq, fileLen + fetched)
        PROVE  r \in FetchedRecords
    <3>1. /\ r \in Int /\ Frame(walSeq, fileLen) = a + fileLen
          /\ Frame(walSeq, fileLen + fetched) = a + (fileLen + fetched)
      BY <1>1, <2>2, <2>5
    <3> DEFINE i == r - a - fileLen
    <3>2. i \in 1..fetched /\ fileLen + i \in Int /\ a + (fileLen + i) = r
      BY <1>1, <2>1, <2>5, <3>1
    <3> HIDE DEF i
    <3>3. r = Frame(walSeq, fileLen + i)
      BY <2>2, <3>2
    <3> QED BY <3>2, <3>3 DEF FetchedRecords
  <2> QED BY <1>3, <2>4, <2>5
<1> QED BY <1>2, <1>3

----------------------------------------------------------------------------
(* The primary *)

LEMMA InitPrim == ASSUME PrimInit PROVE PrimInv
<1>1. Logged = {} /\ Len(hist) = 0 /\ hist \in Seq([file : Wal, col : Nat, drop : BOOLEAN])
  BY DEF PrimInit, Logged
<1>2. NoManifest \in Manifests
  BY PrimaryAssumption DEF NoManifest, Manifests
<1>3. PrimType
  BY <1>1, <1>2, PrimaryAssumption DEF PrimInit, PrimType, Wal
<1>4. RecordsOrdered
  BY <1>1 DEF RecordsOrdered
<1>5. \A g \in 0..gen : g = 0 /\ manifests[g].walSeq = 0 /\ manifests[g].segs = {}
  BY PrimaryAssumption DEF PrimInit, NoManifest
<1>7. GenerationsGrow
  <2>1. \A g \in 0..gen : CoveredBy(g) = 0
    BY <1>5 DEF CoveredBy
  <2>2. active = 1 /\ pending = 0
    BY DEF PrimInit
  <2> QED BY <1>5, <2>1, <2>2 DEF GenerationsGrow
<1>8. SegmentsKept
  <2>1. gen \in 0..gen /\ segDirs = {}
    BY DEF PrimInit
  <2> QED BY <1>5, <2>1 DEF SegmentsKept
<1> QED BY <1>3, <1>4, <1>7, <1>8 DEF PrimInv

\* A new record comes last and is in the active log.
LEMMA LogRecordIs ==
    ASSUME PrimInv, LogRecord
    PROVE  /\ Logged' = Logged \cup {Len(hist) + 1} /\ Len(hist') = Len(hist) + 1
           /\ hist' \in Seq([file : Wal, col : Nat, drop : BOOLEAN]) /\ Len(hist') <= MaxRec
           /\ \A r \in Logged : hist'[r] = hist[r] /\ r < Len(hist) + 1
           /\ hist'[Len(hist) + 1].file = active
           /\ hist'[Len(hist) + 1].col \in 1..(Len(hist) + 1)
<1>1. PICK c \in Logged \cup {Len(hist) + 1}, drop \in BOOLEAN :
        hist' = Append(hist, [file |-> active, col |-> c, drop |-> drop])
  BY DEF LogRecord, Collections
<1>2. /\ hist \in Seq([file : Wal, col : Nat, drop : BOOLEAN]) /\ active \in Wal
      /\ Len(hist) \in Nat /\ Logged = 1..Len(hist)
  BY HistTypes DEF PrimInv, PrimType
<1>3. c \in 1..(Len(hist) + 1) /\ c \in Nat
  BY <1>2
<1>4. [file |-> active, col |-> c, drop |-> drop] \in [file : Wal, col : Nat, drop : BOOLEAN]
  BY <1>2, <1>3
<1>5. /\ hist' \in Seq([file : Wal, col : Nat, drop : BOOLEAN]) /\ Len(hist') = Len(hist) + 1
      /\ \A r \in 1..Len(hist) : hist'[r] = hist[r]
      /\ hist'[Len(hist) + 1] = [file |-> active, col |-> c, drop |-> drop]
  BY <1>1, <1>2, <1>4, AppendProperties
<1>6. Len(hist') <= MaxRec
  BY <1>2, <1>5, PrimaryAssumption DEF LogRecord
<1>7. Logged' = 1..(Len(hist) + 1)
  BY <1>5 DEF Logged
<1> QED BY <1>2, <1>3, <1>5, <1>6, <1>7

LEMMA LogRecordStep == ASSUME PrimInv, LogRecord PROVE PrimInv'
<1>0. PICK n : n = Len(hist) + 1
  OBVIOUS
<1>1. /\ Logged' = Logged \cup {n} /\ Len(hist') = n
      /\ hist' \in Seq([file : Wal, col : Nat, drop : BOOLEAN]) /\ Len(hist') <= MaxRec
      /\ \A r \in Logged : hist'[r] = hist[r] /\ r < n
      /\ hist'[n].file = active /\ hist'[n].col \in 1..n
  BY <1>0, LogRecordIs
<1>2. Logged = 1..(n - 1) /\ n \in Nat /\ n \notin Logged
      /\ \A r \in Logged : FileOf(r) \in Nat /\ hist[r].col \in Nat
  BY <1>0, HistTypes DEF PrimInv
<1>3. UNCHANGED <<active, pending, manifests, gen, segDirs>>
  BY DEF LogRecord
<1>4. active \in Nat /\ pending \in Nat /\ gen \in Nat
      /\ \A g \in 0..gen : CoveredBy(g) \in Nat
  BY ManifestTypes DEF PrimInv
<1>5. PrimType'
  BY <1>1, <1>3 DEF PrimInv, PrimType
<1>6. \A q, r \in Logged' : q <= r => FileOf(q)' <= FileOf(r)'
  <2>1. \A r \in Logged : FileOf(r)' = FileOf(r) /\ FileOf(r) <= active
    BY <1>1 DEF FileOf, PrimInv, RecordsOrdered
  <2>2. FileOf(n)' = active
    BY <1>1 DEF FileOf
  <2>3. \A q, r \in Logged : q <= r => FileOf(q) <= FileOf(r)
    BY DEF PrimInv, RecordsOrdered
  <2>4. \A r \in Logged : ~(n <= r)
    BY <1>1, <1>2
  <2> QED BY <1>1, <1>4, <2>1, <2>2, <2>3, <2>4
<1>7. \A r \in Logged' : FileOf(r)' <= active' /\ hist'[r].col \in 1..r
  <2>1. ASSUME NEW r \in Logged PROVE FileOf(r)' <= active' /\ hist'[r].col \in 1..r
    <3>1. FileOf(r) <= active /\ hist[r].col \in 1..r
      BY DEF PrimInv, RecordsOrdered
    <3> QED BY <1>1, <1>3, <3>1 DEF FileOf
  <2>2. FileOf(n)' <= active'
    BY <1>1, <1>3, <1>4 DEF FileOf
  <2> QED BY <1>1, <2>1, <2>2
<1>8. RecordsOrdered'
  BY <1>6, <1>7 DEF RecordsOrdered
<1>10. GenerationsGrow'
  BY <1>3 DEF PrimInv, GenerationsGrow, CoveredBy
<1>11. SegmentsKept'
  BY <1>3 DEF PrimInv, SegmentsKept
<1> QED BY <1>5, <1>8, <1>10, <1>11 DEF PrimInv

\* The records and the generations there are do not change: the active log may.
LEMMA OtherLogStep ==
    ASSUME PrimInv, UNCHANGED <<hist, manifests, gen>>, active' \in Wal, active <= active',
           segDirs' \in {segDirs, manifests[gen].segs}, pending' \in 0..MaxWal,
           pending' # 0 => CoveredBy(gen) <= pending' /\ pending' < active'
    PROVE  PrimInv'
<1>1. active \in Nat /\ active' \in Nat /\ gen \in Nat
      /\ \A g \in 0..gen : CoveredBy(g) \in Nat
      /\ \A r \in Logged : FileOf(r) \in Nat
  BY ManifestTypes, HistTypes, PrimaryAssumption DEF PrimInv, Wal
<1>2. Logged' = Logged /\ (\A r : FileOf(r)' = FileOf(r)) /\ (\A f : UpTo(f)' = UpTo(f))
      /\ \A g : CoveredBy(g)' = CoveredBy(g)
  BY DEF Logged, FileOf, UpTo, CoveredBy
<1>3. PrimType'
  BY DEF PrimInv, PrimType
<1>4. RecordsOrdered'
  BY <1>1, <1>2 DEF PrimInv, RecordsOrdered
<1>5. \A g \in 0..gen : CoveredBy(g) < active'
  BY <1>1 DEF PrimInv, GenerationsGrow
<1>6. GenerationsGrow'
  BY <1>2, <1>5 DEF PrimInv, GenerationsGrow
<1>7. SegmentsKept'
  BY DEF PrimInv, SegmentsKept
<1> QED BY <1>3, <1>4, <1>6, <1>7 DEF PrimInv

LEMMA RotateStep == ASSUME PrimInv, Rotate PROVE PrimInv'
<1>1. active \in Nat /\ CoveredBy(gen) \in Nat /\ CoveredBy(gen) < active /\ MaxWal \in Nat
  BY ManifestTypes, PrimaryAssumption DEF PrimInv, GenerationsGrow
<1>2. active' \in Wal /\ pending' \in 0..MaxWal /\ active <= active'
      /\ CoveredBy(gen) <= pending' /\ pending' < active'
  BY <1>1 DEF Rotate, Wal, PrimInv, PrimType
<1> QED BY <1>2, OtherLogStep DEF Rotate

LEMMA RebootStep == ASSUME PrimInv, Reboot PROVE PrimInv'
<1>1. active \in Nat /\ MaxWal \in Nat
  BY ManifestTypes, PrimaryAssumption DEF PrimInv
<1>2. active' \in Wal /\ active <= active' /\ pending' = 0
  BY <1>1 DEF Reboot, Wal, PrimInv, PrimType
<1> QED BY <1>1, <1>2, OtherLogStep DEF Reboot

LEMMA RemoveStep == ASSUME PrimInv, RemoveFiles \/ RemoveManifests PROVE PrimInv'
<1>1. active' = active /\ pending' = pending /\ active \in Wal /\ pending \in 0..MaxWal
      /\ active <= active /\ UNCHANGED <<hist, manifests, gen>>
      /\ segDirs' \in {segDirs, manifests[gen].segs}
  BY ManifestTypes DEF RemoveFiles, RemoveManifests, PrimInv, PrimType
<1>2. pending # 0 => CoveredBy(gen) <= pending /\ pending < active
  BY DEF PrimInv, GenerationsGrow
<1> QED BY <1>1, <1>2, OtherLogStep

\* A commit: the new generation covers at least what the last one covers.
LEMMA CommitStep ==
    ASSUME PrimInv, NEW seq \in 0..MaxWal, NEW segs, Commit(seq, segs),
           UNCHANGED <<hist, active>>, CoveredBy(gen) <= seq, seq < active,
           segs \subseteq manifests[gen].segs \cup {gen + 1},
           segDirs' = segDirs \cup {gen + 1},
           pending' = 0 \/ (pending' = pending /\ seq = CoveredBy(gen))
    PROVE  PrimInv'
<1> DEFINE new == [walSeq |-> seq, segs |-> segs, cols |-> Collections]
<1>0. PICK last : last = gen + 1
  OBVIOUS
<1>1. gen \in Nat /\ MaxPrimGen \in Nat /\ active \in Nat /\ pending \in Nat /\ MaxWal \in Nat
      /\ \A g \in 0..gen : g \in 0..MaxPrimGen /\ CoveredBy(g) \in Nat
  BY ManifestTypes, PrimaryAssumption DEF PrimInv
<1>2. gen' = last /\ gen' \in 0..MaxPrimGen
  BY <1>0, <1>1 DEF Commit
<1>3. manifests' = [manifests EXCEPT ![last] = new]
  BY <1>0 DEF Commit
<1>4. new \in Manifests
  <2>1. Collections \subseteq Rec
    BY HistTypes, PrimaryAssumption DEF PrimInv, PrimType, Rec, Collections
  <2>2. segs \subseteq Seg
    BY <1>0, <1>1, <1>2, ManifestTypes DEF PrimInv, Seg
  <2> QED BY <2>1, <2>2 DEF Manifests
<1>5. /\ manifests' \in [0..MaxPrimGen -> Manifests]
      /\ manifests'[last] = new
      /\ \A g \in 0..gen : manifests'[g] = manifests[g]
  BY <1>0, <1>1, <1>2, <1>3, <1>4 DEF PrimInv, PrimType
<1>6. 0..gen' = 0..gen \cup {last}
  BY <1>0, <1>1, <1>2
<1>7. Logged' = Logged /\ (\A r : FileOf(r)' = FileOf(r)) /\ (\A f : UpTo(f)' = UpTo(f))
  BY DEF Logged, FileOf, UpTo
<1>8. /\ CoveredBy(last)' = seq
      /\ \A g \in 0..gen : CoveredBy(g)' = CoveredBy(g)
  BY <1>5 DEF CoveredBy
<1>9. PrimType'
  BY <1>1, <1>2, <1>5 DEF PrimInv, PrimType
<1>10. RecordsOrdered'
  BY <1>7 DEF PrimInv, RecordsOrdered
<1>11. ASSUME NEW g \in 0..gen PROVE CoveredBy(g) <= seq
  <2>1. g <= gen /\ gen \in 0..gen
    BY <1>1
  <2>2. CoveredBy(g) <= CoveredBy(gen)
    BY <2>1 DEF PrimInv, GenerationsGrow
  <2> QED BY <1>1, <2>1, <2>2
<1>12. \A g, h \in 0..gen' : g <= h => CoveredBy(g)' <= CoveredBy(h)'
  <2>1. ASSUME NEW g \in 0..gen, NEW h \in 0..gen, g <= h PROVE CoveredBy(g)' <= CoveredBy(h)'
    BY <1>8, <2>1 DEF PrimInv, GenerationsGrow
  <2>2. \A g \in 0..gen : CoveredBy(g)' <= CoveredBy(last)'
    BY <1>8, <1>11
  <2>3. \A h \in 0..gen : ~(last <= h)
    BY <1>0, <1>1
  <2>4. seq <= seq
    BY <1>1
  <2> QED BY <1>6, <1>8, <2>1, <2>2, <2>3, <2>4
<1>13. \A g \in 0..gen' : CoveredBy(g)' < active'
  BY <1>6, <1>8 DEF PrimInv, GenerationsGrow
<1>14. pending' # 0 => CoveredBy(gen)' <= pending' /\ pending' < active'
  <2>1. CoveredBy(gen)' = seq
    BY <1>2, <1>5 DEF CoveredBy
  <2>2. pending # 0 => CoveredBy(gen) <= pending /\ pending < active
    BY DEF PrimInv, GenerationsGrow
  <2> QED BY <2>1, <2>2
<1>15. GenerationsGrow'
  BY <1>12, <1>13, <1>14 DEF GenerationsGrow
<1>16. SegmentsKept'
  <2>1. manifests[gen].segs \subseteq segDirs /\ segDirs \subseteq 1..gen
        /\ \A g \in 0..gen : manifests[g].segs \subseteq 1..gen
    BY DEF PrimInv, SegmentsKept
  <2>2. 1..gen' = 1..gen \cup {last} /\ segDirs' = segDirs \cup {last}
              /\ segs \subseteq manifests[gen].segs \cup {last}
    BY <1>0, <1>1, <1>2
  <2>3. manifests'[gen'].segs = segs
    BY <1>2, <1>5
  <2>4. \A g \in 0..gen' : manifests'[g].segs \subseteq 1..gen'
    <3>1. \A g \in 0..gen : manifests'[g].segs \subseteq 1..gen'
      BY <1>5, <2>1, <2>2
    <3>2. manifests'[last].segs \subseteq 1..gen'
      <4>1. gen \in 0..gen
        BY <1>1
      <4> QED BY <1>5, <2>1, <2>2, <4>1
    <3> QED BY <1>6, <3>1, <3>2
  <2> QED BY <2>1, <2>2, <2>3, <2>4 DEF SegmentsKept
<1> QED BY <1>9, <1>10, <1>15, <1>16 DEF PrimInv

LEMMA FlushCommitStep == ASSUME PrimInv, FlushCommit PROVE PrimInv'
<1>1. /\ CoveredBy(gen) <= pending /\ pending < active /\ pending \in 0..MaxWal
      /\ Commit(pending, manifests[gen].segs \cup {gen + 1})
      /\ UNCHANGED <<hist, active>> /\ segDirs' = segDirs \cup {gen + 1} /\ pending' = 0
  BY DEF FlushCommit, PrimInv, PrimType, GenerationsGrow
<1> QED BY <1>1, CommitStep

LEMMA CompactCommitStep == ASSUME PrimInv, CompactCommit PROVE PrimInv'
<1>1. PICK kept \in {{s \in manifests[gen].segs : s < k} : k \in manifests[gen].segs} :
        Commit(manifests[gen].walSeq, kept \cup {gen + 1})
  BY DEF CompactCommit
<1>2. gen \in 0..gen /\ CoveredBy(gen) \in 0..MaxWal /\ CoveredBy(gen) \in Nat
  BY ManifestTypes DEF PrimInv
<1>3. CoveredBy(gen) < active /\ CoveredBy(gen) <= CoveredBy(gen)
  BY <1>2 DEF PrimInv, GenerationsGrow
<1>4. Commit(CoveredBy(gen), kept \cup {gen + 1}) /\ kept \subseteq manifests[gen].segs
  BY <1>1 DEF CoveredBy
<1> QED BY <1>2, <1>3, <1>4, CommitStep DEF CompactCommit

LEMMA PrimStepKeeps == ASSUME PrimInv, PrimStep PROVE PrimInv'
BY LogRecordStep, RotateStep, FlushCommitStep, CompactCommitStep, RemoveStep, RebootStep
   DEF PrimStep

LEMMA PrimSame == ASSUME PrimInv, UNCHANGED primVars PROVE PrimInv'
<1>1. UNCHANGED <<hist, active, pending, manifests, gen, segDirs>>
  BY DEF primVars
<1>2. active <= active /\ active \in Wal /\ pending \in 0..MaxWal
      /\ (pending # 0 => CoveredBy(gen) <= pending /\ pending < active)
  BY ManifestTypes DEF PrimInv, PrimType, GenerationsGrow
<1> QED BY <1>1, <1>2, OtherLogStep

----------------------------------------------------------------------------
(* What a step of the primary leaves the replica *)

\* The frames the replica can have are still the same records, what a
\* generation says stays, and a segment that has gone does not come back.
PrimaryGoesOn ==
    /\ Logged \subseteq Logged' /\ active <= active' /\ gen <= gen'
    /\ \A r \in Logged : hist'[r] = hist[r]
    /\ \A r \in Logged' \ Logged : FileOf(r)' = active /\ \A q \in Logged : q < r
    /\ \A f \in Int : f < active => UpTo(f)' = UpTo(f)
    /\ \A f \in Int, i \in Int : f <= active => Frame(f, i)' = Frame(f, i)
    /\ \A f \in Int : Frames(f) <= Frames(f)'
    /\ \A g \in 0..gen : manifests'[g] = manifests[g]
    /\ \A s \in 1..gen : s \in segDirs' => s \in segDirs

LEMMA SameHist ==
    ASSUME PrimInv, hist' = hist, active <= active', gen <= gen',
           \A g \in 0..gen : manifests'[g] = manifests[g],
           \A s \in 1..gen : s \in segDirs' => s \in segDirs
    PROVE  PrimaryGoesOn
<1>1. Logged' = Logged /\ \A r : FileOf(r)' = FileOf(r)
  BY DEF Logged, FileOf
<1>2. \A f : UpTo(f)' = UpTo(f)
  BY <1>1 DEF UpTo
<1>3. \A f \in Int, i \in Int : Frame(f, i)' = Frame(f, i)
  BY <1>2 DEF Frame, UpTo, Logged, FileOf
<1>4. \A f \in Int : Frames(f) <= Frames(f)'
  <2>1. \A f : Frames(f)' = Frames(f)
    BY DEF Frames, Logged, FileOf
  <2>2. \A f \in Int : Frames(f) \in Nat
    BY FramesAre DEF PrimInv
  <2> QED BY <2>1, <2>2
<1> QED BY <1>1, <1>2, <1>3, <1>4 DEF PrimaryGoesOn

LEMMA LogRecordGoesOn == ASSUME PrimInv, LogRecord PROVE PrimaryGoesOn
<1>0. PICK n : n = Len(hist) + 1
  OBVIOUS
<1>1. /\ Logged' = Logged \cup {n}
      /\ \A r \in Logged : hist'[r] = hist[r] /\ r < n
      /\ hist'[n].file = active
  BY <1>0, LogRecordIs
<1>2. UNCHANGED <<active, manifests, gen, segDirs>>
  BY DEF LogRecord
<1>3. active \in Nat /\ gen \in Nat
  BY ManifestTypes DEF PrimInv
<1>4. \A r \in Logged : FileOf(r)' = FileOf(r)
  BY <1>1 DEF FileOf
<1>5. FileOf(n)' = active
  BY <1>1 DEF FileOf
<1>6. n \notin Logged
  BY <1>0, HistTypes DEF PrimInv
<1>7. ASSUME NEW f \in Int, f < active PROVE UpTo(f)' = UpTo(f)
  <2>1. ~(active <= f)
    BY <1>3, <1>7
  <2> QED BY <1>1, <1>4, <1>5, <2>1 DEF UpTo
<1>8. ASSUME NEW f \in Int, NEW i \in Int, f <= active PROVE Frame(f, i)' = Frame(f, i)
  <2>1. f - 1 \in Int /\ f - 1 < active
    BY <1>3, <1>8
  <2>2. UpTo(f - 1)' = UpTo(f - 1)
    BY <1>7, <2>1
  <2> QED BY <2>2 DEF Frame
<1>9. ASSUME NEW f \in Int PROVE Frames(f) <= Frames(f)'
  <2> DEFINE S == {r \in Logged : FileOf(r) = f}
             T == {r \in Logged' : FileOf(r)' = f}
  <2>1. IsFiniteSet(S)
    <3>1. IsFiniteSet(Logged)
      BY HistTypes, FS_Interval DEF PrimInv
    <3>2. S \in SUBSET Logged
      OBVIOUS
    <3> QED BY <3>1, <3>2, FS_Subset
  <2>2. T = S \/ T = S \cup {n}
    BY <1>1, <1>4
  <2>3. Cardinality(S) \in Nat
    BY <2>1, FS_CardinalityType
  <2>4. Cardinality(S \cup {n}) = Cardinality(S) \/ Cardinality(S \cup {n}) = Cardinality(S) + 1
    BY <2>1, FS_AddElement
  <2>5. Frames(f) = Cardinality(S) /\ Frames(f)' = Cardinality(T)
    BY DEF Frames
  <2> HIDE DEF S, T
  <2>6. Cardinality(T) = Cardinality(S) \/ Cardinality(T) = Cardinality(S) + 1
    BY <2>2, <2>4, Zenon
  <2>7. Cardinality(S) <= Cardinality(T)
    BY <2>3, <2>6
  <2> QED BY <2>5, <2>7, Zenon
<1> QED BY <1>1, <1>2, <1>3, <1>4, <1>5, <1>6, <1>7, <1>8, <1>9 DEF PrimaryGoesOn

LEMMA PrimStepGoesOn == ASSUME PrimInv, PrimStep PROVE PrimaryGoesOn
<1>1. /\ active \in Nat /\ gen \in Nat /\ gen \in 0..gen
      /\ manifests[gen].segs \subseteq segDirs
      /\ manifests \in [0..MaxPrimGen -> Manifests] /\ 0..gen \subseteq 0..MaxPrimGen
  BY ManifestTypes DEF PrimInv, PrimType, SegmentsKept
<1>2. CASE LogRecord
  BY <1>2, LogRecordGoesOn
<1>3. CASE Rotate \/ RemoveFiles \/ RemoveManifests \/ Reboot
  <2>1. /\ hist' = hist /\ manifests' = manifests /\ gen' = gen /\ active <= active'
        /\ segDirs' \subseteq segDirs /\ gen <= gen'
    BY <1>1, <1>3 DEF Rotate, RemoveFiles, RemoveManifests, Reboot
  <2> QED BY <2>1, SameHist
<1>4. ASSUME NEW seq, NEW segs, Commit(seq, segs), UNCHANGED <<hist, active>>,
             segDirs' = segDirs \cup {gen + 1}
      PROVE  PrimaryGoesOn
  <2>1. gen <= gen' /\ active <= active'
    BY <1>1, <1>4 DEF Commit
  <2>2. \A g \in 0..gen : manifests'[g] = manifests[g]
    <3>1. \A g \in 0..gen : g # gen + 1
      BY <1>1
    <3> QED BY <1>1, <1>4, <3>1 DEF Commit
  <2>3. \A s \in 1..gen : s # gen + 1
    BY <1>1
  <2> QED BY <1>4, <2>1, <2>2, <2>3, SameHist
<1>5. CASE FlushCommit
  BY <1>4, <1>5 DEF FlushCommit
<1>6. CASE CompactCommit
  BY <1>4, <1>6 DEF CompactCommit
<1> QED BY <1>2, <1>3, <1>5, <1>6 DEF PrimStep

\* What a generation has lost stays lost.
LEMMA RaceStays == ASSUME PrimInv, PrimInv', PrimaryGoesOn, DropRaced PROVE DropRaced'
<1>1. PICK g \in 0..gen : Orphans(g) # {}
  BY DEF DropRaced
<1>2. PICK r \in Logged :
        /\ FileOf(r) > manifests[g].walSeq /\ hist[r].col # r /\ ~hist[r].drop
        /\ hist[r].col \notin manifests[g].cols
        /\ \/ FileOf(hist[r].col) <= manifests[g].walSeq
           \/ \E h \in 0..g : hist[r].col \in manifests[h].cols
  BY <1>1 DEF Orphans
<1>3. PICK c : c = hist[r].col
  OBVIOUS
<1>4. c \in Logged /\ r \in Logged'
  <2>1. Logged = 1..Len(hist) /\ Len(hist) \in Nat
    BY HistTypes DEF PrimInv
  <2>2. c \in 1..r
    BY <1>3 DEF PrimInv, RecordsOrdered
  <2> QED BY <2>1, <2>2 DEF PrimaryGoesOn
<1>5. /\ hist'[r] = hist[r] /\ hist'[c] = hist[c] /\ manifests'[g] = manifests[g]
      /\ \A h \in 0..g : h \in 0..gen /\ manifests'[h] = manifests[h]
  <2>1. gen \in Nat
    BY ManifestTypes DEF PrimInv
  <2> QED BY <1>4, <2>1 DEF PrimaryGoesOn
<1>6. FileOf(r)' = FileOf(r) /\ FileOf(c)' = FileOf(c)
  BY <1>5 DEF FileOf
<1>7. r \in Orphans(g)'
  BY <1>2, <1>3, <1>4, <1>5, <1>6 DEF Orphans
<1>8. g \in 0..gen'
  <2>1. gen \in Nat
    BY ManifestTypes DEF PrimInv
  <2>2. gen' \in 0..MaxPrimGen
    BY DEF PrimInv, PrimType
  <2> QED BY <2>1, <2>2, PrimaryAssumption DEF PrimaryGoesOn
<1> QED BY <1>7, <1>8 DEF DropRaced

----------------------------------------------------------------------------
(* The replica while the primary goes on *)

\* What it can have of a log is in a log of the primary.
LEMMA LogsOfPrimary ==
    ASSUME PrimInv, ReplType, \A f \in Wal : rwal[f].len <= Frames(f)
    PROVE  /\ \A f \in Wal : rwal[f].len \in Nat /\ (rwal[f].len # 0 => f <= active)
           /\ \A f \in Int : active < f => Frames(f) = 0
<1>1. Wal \subseteq Int /\ active \in Nat
  BY PrimaryAssumption, ManifestTypes DEF Wal, PrimInv
<1>2. ASSUME NEW f \in Int, active < f PROVE Frames(f) = 0
  <2>1. {r \in Logged : FileOf(r) = f} = {}
    BY <1>1, <1>2, HistTypes DEF PrimInv, RecordsOrdered
  <2> QED BY <2>1, FS_EmptySet DEF Frames
<1>3. \A f \in Wal : rwal[f].len \in Nat
  BY DEF ReplType
<1>4. \A f \in Wal : Frames(f) \in Nat
  BY <1>1, FramesAre DEF PrimInv
<1> QED BY <1>1, <1>2, <1>3, <1>4

LEMMA FilesKept ==
    ASSUME PrimInv, ReplType, \A f \in Wal : rwal[f].len <= Frames(f), PrimaryGoesOn,
           \A f \in Wal : rwal'[f].len = rwal[f].len
    PROVE  /\ \A f \in Wal : FirstFrames(f, rwal[f].len)' = FirstFrames(f, rwal[f].len)
           /\ \A c \in Nat : Replayed(c)' = Replayed(c)
<1>1. Wal \subseteq Int /\ active \in Nat /\ \A c \in Nat : (c + 1)..MaxWal \subseteq Wal
  BY PrimaryAssumption, ManifestTypes DEF Wal, PrimInv
<1>2. ASSUME NEW f \in Wal
      PROVE  {Frame(f, i)' : i \in 1..rwal'[f].len} = {Frame(f, i) : i \in 1..rwal[f].len}
  <2>1. rwal[f].len \in Nat /\ (rwal[f].len # 0 => f <= active)
    BY LogsOfPrimary
  <2>2. CASE rwal[f].len = 0
    <3>1. 1..rwal[f].len = {}
      BY <2>2
    <3> QED BY <3>1
  <2>3. CASE rwal[f].len # 0
    <3>1. \A i \in 1..rwal[f].len : i \in Int
      OBVIOUS
    <3>2. \A i \in 1..rwal[f].len : Frame(f, i)' = Frame(f, i)
      BY <1>1, <2>1, <2>3, <3>1 DEF PrimaryGoesOn
    <3> QED BY <3>2
  <2> QED BY <2>2, <2>3
<1>3. \A f \in Wal : FirstFrames(f, rwal[f].len)' = FirstFrames(f, rwal[f].len)
  BY <1>2 DEF FirstFrames
<1>4. ASSUME NEW c \in Nat PROVE Replayed(c)' = Replayed(c)
  <2>1. \A f \in (c + 1)..MaxWal :
          {Frame(f, i)' : i \in 1..rwal'[f].len} = {Frame(f, i) : i \in 1..rwal[f].len}
    BY <1>1, <1>2
  <2> QED BY <2>1 DEF Replayed
<1> QED BY <1>3, <1>4

LEMMA FetchedKept ==
    ASSUME PrimInv, ReplType, PlaceFits, PrimaryGoesOn, UNCHANGED <<walSeq, fileLen, head, fetched>>
    PROVE  FetchedRecords' = FetchedRecords
<1>1. walSeq \in Int /\ walSeq <= active /\ fileLen \in Nat /\ fetched \in Nat
  BY ManifestTypes DEF ReplType, PrimInv
<1>2. \A i \in 1..fetched : fileLen + i \in Int
  BY <1>1
<1>3. \A i \in 1..fetched : Frame(walSeq, fileLen + i)' = Frame(walSeq, fileLen + i)
  BY <1>1, <1>2 DEF PrimaryGoesOn, Frame, UpTo
<1> QED BY <1>3 DEF FetchedRecords

LEMMA ReplicaKept ==
    ASSUME IInv, PrimInv', PrimaryGoesOn, UNCHANGED replVars
    PROVE  ReplInv'
<1>1. UNCHANGED <<rcur, rgen, rsegs, rwal, seen, at, want, todo, walSeq, fileLen, head, fetched, broken>>
  BY DEF replVars
<1>2. /\ PrimInv /\ ReplType /\ PlaceFits /\ SegmentsFit
      /\ HeadsFit /\ LogsFit /\ FilesFit /\ CollectionsFit
  BY DEF IInv, ReplInv
<1>3. /\ rgen \in 0..gen /\ rcur \in 0..gen /\ want.gen \in 0..gen /\ gen \in Nat
      /\ active \in Nat /\ active' \in Nat /\ gen' \in Nat
      /\ 0..gen \subseteq 0..gen' /\ 0..active \subseteq 0..active' /\ Wal \subseteq Int
  <2>1. gen \in Nat /\ active \in Nat
    BY <1>2, ManifestTypes DEF PrimInv
  <2>2. gen' \in 0..MaxPrimGen /\ active' \in Wal
    BY DEF PrimInv, PrimType
  <2> QED BY <1>2, <2>1, <2>2, PrimaryAssumption DEF ReplType, PrimaryGoesOn, Wal
<1>4. ReplType'
  <2>1. want' \in [gen : 0..gen', seq : 0..active']
    BY <1>1, <1>2, <1>3 DEF ReplType
  <2> QED BY <1>1, <1>2, <1>3, <2>1 DEF ReplType, PrimaryGoesOn
<1>5. PlaceFits'
  <2>1. ASSUME fetched # 0 PROVE Frames(walSeq)' >= fileLen + fetched
    <3>1. walSeq \in Int /\ fileLen \in Nat /\ fetched \in Nat /\ Frames(walSeq) \in Nat
          /\ fileLen + fetched <= Frames(walSeq)
      BY <1>2, <1>3, <2>1, FramesAre DEF ReplType, PrimInv, PlaceFits
    <3>2. Frames(walSeq) <= Frames(walSeq)'
      BY <1>1, <3>1 DEF PrimaryGoesOn, Frames
    <3>3. Frames(walSeq)' \in Nat
      <4>1. IsFiniteSet(Logged')
        <5>1. hist' \in Seq([file : Wal, col : Nat, drop : BOOLEAN])
          BY DEF PrimInv, PrimType
        <5>2. Logged' = 1..Len(hist') /\ Len(hist') \in Nat
          BY <5>1 DEF Logged
        <5> QED BY <5>2, FS_Interval
      <4>2. {r \in Logged' : FileOf(r)' = walSeq'} \in SUBSET Logged'
        OBVIOUS
      <4> QED BY <4>1, <4>2, FS_Subset, FS_CardinalityType DEF Frames
    <3> QED BY <3>1, <3>2, <3>3
  <2> QED BY <1>1, <1>2, <2>1 DEF PlaceFits
<1>6. SegmentsFit'
  <2>1. manifests'[rgen] = manifests[rgen] /\ manifests'[rcur] = manifests[rcur]
        /\ manifests'[want.gen] = manifests[want.gen]
    BY <1>3 DEF PrimaryGoesOn
  <2>2. \A g \in 0..gen : manifests[g].segs \subseteq 1..gen
    BY <1>2 DEF PrimInv, SegmentsKept
  <2>3. \A s \in 1..gen : Got(s) => Got(s)'
    BY <1>1 DEF Got, PrimaryGoesOn
  <2> QED BY <1>1, <1>2, <1>3, <2>1, <2>2, <2>3 DEF SegmentsFit
<1>7. /\ CoveredBy(rgen)' = CoveredBy(rgen) /\ CoveredBy(rgen) \in Nat /\ CoveredBy(rgen) < active
      /\ UpTo(CoveredBy(rgen))' = UpTo(CoveredBy(rgen))
  <2>1. CoveredBy(rgen)' = CoveredBy(rgen)
    BY <1>1, <1>3 DEF CoveredBy, PrimaryGoesOn
  <2>2. CoveredBy(rgen) \in Nat /\ CoveredBy(rgen) < active
    BY <1>2, <1>3, ManifestTypes DEF PrimInv, GenerationsGrow
  <2>3. UpTo(CoveredBy(rgen))' = UpTo(CoveredBy(rgen))
    BY <2>1, <2>2 DEF PrimaryGoesOn, UpTo
  <2> QED BY <2>1, <2>2, <2>3
<1>8. \A f \in Wal : rwal[f].len <= Frames(f)
  BY <1>2 DEF LogsFit
<1>9. /\ \A f \in Wal : FirstFrames(f, rwal[f].len)' = FirstFrames(f, rwal[f].len)
      /\ \A c \in Nat : Replayed(c)' = Replayed(c)
  BY <1>1, <1>2, <1>8, FilesKept
<1>10. FetchedRecords' = FetchedRecords
  BY <1>1, <1>2, FetchedKept
<1>11. LogsFit'
  <2>1. ASSUME NEW f \in Wal PROVE rwal'[f].len <= Frames(f)'
    <3>1. Frames(f) \in Nat /\ rwal[f].len \in Nat /\ rwal[f].len <= Frames(f)
      BY <1>2, <1>3, <1>8, FramesAre DEF PrimInv, ReplType
    <3>2. Frames(f) <= Frames(f)'
      BY <1>3 DEF PrimaryGoesOn
    <3>3. Frames(f)' \in Nat
      <4>1. IsFiniteSet(Logged')
        <5>1. hist' \in Seq([file : Wal, col : Nat, drop : BOOLEAN])
          BY DEF PrimInv, PrimType
        <5>2. Logged' = 1..Len(hist') /\ Len(hist') \in Nat
          BY <5>1 DEF Logged
        <5> QED BY <5>2, FS_Interval
      <4>2. {r \in Logged' : FileOf(r)' = f} \in SUBSET Logged'
        OBVIOUS
      <4> QED BY <4>1, <4>2, FS_Subset, FS_CardinalityType DEF Frames
    <3> QED BY <1>1, <3>1, <3>2, <3>3
  <2>2. ASSUME "append" \notin broken, NEW q \in seen, NEW r \in Logged',
               FileOf(q)' = FileOf(r)', r <= q
        PROVE  r \in seen
    <3>1. q \in Logged /\ FileOf(q)' = FileOf(q) /\ q \in Int
      BY <1>2, HistTypes DEF ReplType, PrimaryGoesOn, FileOf, PrimInv
    <3>2. r \in Logged
      <4>1. CASE r \notin Logged
        <5>1. q < r /\ r \in Int
          <6>1. r \in Logged' /\ Logged' \subseteq Int
            <7>1. hist' \in Seq([file : Wal, col : Nat, drop : BOOLEAN])
              BY DEF PrimInv, PrimType
            <7> QED BY <7>1 DEF Logged
          <6> QED BY <3>1, <4>1, <6>1 DEF PrimaryGoesOn
        <5> QED BY <2>2, <3>1, <5>1
      <4> QED BY <4>1
    <3>3. FileOf(r)' = FileOf(r)
      BY <3>2 DEF PrimaryGoesOn, FileOf
    <3> QED BY <1>2, <2>2, <3>1, <3>2, <3>3 DEF LogsFit
  <2>3. "append" \notin broken =>
          /\ \A f \in Wal : ~rwal[f].torn /\ rwal[f].twice = 0
          /\ walSeq # 0 => fileLen = rwal[walSeq].len
          /\ UpTo(CoveredBy(rgen)) \subseteq seen
          /\ \A f \in Wal : FirstFrames(f, rwal[f].len) \subseteq seen
          /\ at = "append" => FetchedRecords \subseteq seen
    BY <1>2 DEF LogsFit
  <2> QED BY <1>1, <1>7, <1>9, <1>10, <2>1, <2>2, <2>3 DEF LogsFit
<1>12. FilesFit'
  <2>1. Replayed(CoveredBy(rgen))' = Replayed(CoveredBy(rgen))
    BY <1>7, <1>9 DEF Replayed
  <2> QED BY <1>1, <1>2, <1>7, <1>10, <2>1 DEF FilesFit
<1>13. HeadsFit'
  BY <1>1, <1>2 DEF HeadsFit
<1>14. CollectionsFit'
  <2>1. Replayed(CoveredBy(rgen))' = Replayed(CoveredBy(rgen))
    BY <1>7, <1>9 DEF Replayed
  <2>2. Replayed(CoveredBy(rgen)) \subseteq Logged
    BY <1>2, <1>7, <1>8, ReplayedAre DEF PrimInv
  <2>3. FetchedRecords \subseteq Logged
    BY <1>2, FetchedAre DEF PrimInv
  <2>4. KnownFrom(rgen)' = KnownFrom(rgen)
    BY <1>1, <1>3, <2>1 DEF KnownFrom, PrimaryGoesOn
  <2>5. ~DropRaced' => ~DropRaced
    BY <1>2, RaceStays
  <2>6. \A r \in Logged : hist'[r] = hist[r]
    BY DEF PrimaryGoesOn
  <2> QED BY <1>1, <1>2, <1>10, <2>1, <2>2, <2>3, <2>4, <2>5, <2>6 DEF CollectionsFit
<1> QED BY <1>4, <1>5, <1>6, <1>11, <1>12, <1>13, <1>14 DEF ReplInv

----------------------------------------------------------------------------
(* The primary during a step of the replica *)

LEMMA Still ==
    ASSUME PrimInv, UNCHANGED primVars
    PROVE  /\ PrimInv' /\ PrimaryGoesOn
           /\ Logged' = Logged /\ \A r : FileOf(r)' = FileOf(r)
           /\ \A f : UpTo(f)' = UpTo(f) /\ Frames(f)' = Frames(f)
           /\ \A f, i : Frame(f, i)' = Frame(f, i)
           /\ \A g : CoveredBy(g)' = CoveredBy(g)
           /\ DropRaced' <=> DropRaced
           /\ UNCHANGED <<hist, active, manifests, gen, segDirs, firstWal>>
<1>1. UNCHANGED <<hist, active, pending, manifests, gen, segDirs, firstWal>>
  BY DEF primVars
<1>2. Logged' = Logged /\ \A r : FileOf(r)' = FileOf(r)
  BY <1>1 DEF Logged, FileOf
<1>3. \A f : UpTo(f)' = UpTo(f)
  BY <1>2 DEF UpTo
<1>4. \A f, i : Frame(f, i)' = Frame(f, i)
  BY <1>1 DEF Frame, UpTo, Logged, FileOf
<1>5. \A f : Frames(f)' = Frames(f)
  BY <1>1 DEF Frames, Logged, FileOf
<1>6. \A g : CoveredBy(g)' = CoveredBy(g)
  BY <1>1 DEF CoveredBy
<1>7. active <= active' /\ gen <= gen'
  BY <1>1, ManifestTypes DEF PrimInv
<1>8. DropRaced' <=> DropRaced
  BY <1>1, <1>2 DEF DropRaced, Orphans
<1> QED BY <1>1, <1>2, <1>3, <1>4, <1>5, <1>6, <1>7, <1>8, PrimSame, SameHist

LEMMA ReplTypes ==
    ASSUME PrimInv, ReplType
    PROVE  /\ rgen \in 0..gen /\ rcur \in 0..gen /\ rgen <= rcur /\ want.gen \in 0..gen
           /\ rgen \in Nat /\ rcur \in Nat /\ gen \in Nat /\ want.gen \in Nat
           /\ CoveredBy(rgen) \in Nat /\ CoveredBy(rcur) \in Nat
           /\ walSeq \in Nat /\ fileLen \in Nat /\ fetched \in Nat
           /\ walSeq # 0 => walSeq \in Wal
           /\ Wal \subseteq Nat /\ want.seq \in 0..active /\ active \in Wal
<1>1. gen \in Nat /\ active \in Wal /\ MaxWal \in Nat /\ Wal = 1..MaxWal
  BY ManifestTypes, PrimaryAssumption DEF PrimInv, PrimType, Wal
<1>2. rgen \in 0..gen /\ rcur \in 0..gen /\ rgen <= rcur
  BY <1>1 DEF ReplType
<1>3. CoveredBy(rgen) \in Nat /\ CoveredBy(rcur) \in Nat
  BY <1>2, ManifestTypes DEF PrimInv
<1> QED BY <1>1, <1>2, <1>3 DEF ReplType

\* Only the place in the loop changes.
LEMMA Moves ==
    ASSUME IInv, UNCHANGED primVars, UNCHANGED <<rgen, rwal, seen, walSeq, fileLen, head, fetched>>,
           broken' = broken \/ broken' = broken \cup {"segment"},
           at' \notin {"create", "magic", "apply", "append"},
           broken' = {} /\ at' # "dead" => at \notin {"create", "magic", "apply", "append", "dead"},
           broken' = {} /\ at' # "dead" /\ ~DropRaced
              => at # "switch" /\ (at' # "switch" => rcur' = rcur)
    PROVE  /\ HeadsFit' /\ LogsFit' /\ FilesFit' /\ CollectionsFit'
           /\ fetched' # 0 => walSeq' # 0 /\ fileLen' + fetched' <= Frames(walSeq)'
<1>1. /\ PrimInv /\ ReplType /\ PlaceFits
      /\ HeadsFit /\ LogsFit /\ FilesFit /\ CollectionsFit
  BY DEF IInv, ReplInv
<1>2. \A f \in Wal : rwal[f].len <= Frames(f) /\ rwal'[f].len = rwal[f].len
  BY <1>1 DEF LogsFit
<1>3. /\ \A f \in Wal : FirstFrames(f, rwal[f].len)' = FirstFrames(f, rwal[f].len)
      /\ \A c \in Nat : Replayed(c)' = Replayed(c)
  BY <1>1, <1>2, Still, FilesKept
<1>4. CoveredBy(rgen) \in Nat
  BY <1>1, ReplTypes
<1>5. /\ CoveredBy(rgen)' = CoveredBy(rgen) /\ UpTo(CoveredBy(rgen))' = UpTo(CoveredBy(rgen))
      /\ Replayed(CoveredBy(rgen))' = Replayed(CoveredBy(rgen))
  <2>1. CoveredBy(rgen)' = CoveredBy(rgen)
    BY <1>1, Still DEF CoveredBy
  <2>2. UpTo(CoveredBy(rgen))' = UpTo(CoveredBy(rgen))
    BY <1>1, <2>1, Still DEF UpTo
  <2>3. Replayed(CoveredBy(rgen))' = Replayed(CoveredBy(rgen))
    BY <1>3, <1>4, <2>1 DEF Replayed
  <2> QED BY <2>1, <2>2, <2>3
<1>6. KnownFrom(rgen)' = KnownFrom(rgen)
  BY <1>1, <1>5, Still DEF KnownFrom
<1>7. LogsFit'
  BY <1>1, <1>3, <1>5, Still DEF LogsFit
<1>8. broken' = {} => broken = {}
  OBVIOUS
<1>9. FilesFit'
  BY <1>1, <1>5, <1>8 DEF FilesFit
<1>10. CollectionsFit'
  BY <1>1, <1>5, <1>6, <1>8, Still DEF CollectionsFit
<1>11. fetched' # 0 => walSeq' # 0 /\ fileLen' + fetched' <= Frames(walSeq)'
  BY <1>1, Still DEF PlaceFits, Frames
<1>12. HeadsFit'
  BY <1>1 DEF HeadsFit
<1> QED BY <1>7, <1>9, <1>10, <1>11, <1>12

LEMMA SegmentsStay ==
    ASSUME IInv, UNCHANGED primVars, UNCHANGED <<rcur, rgen, rsegs>>, broken \subseteq broken',
           at' = "segments" => at = "segments" /\ UNCHANGED <<want, todo>>
    PROVE  SegmentsFit'
<1>1. SegmentsFit /\ PrimInv
  BY DEF IInv, ReplInv
<1>2. \A s : Got(s)' <=> Got(s)
  BY <1>1, Still DEF Got
<1>3. manifests' = manifests
  BY <1>1, Still
<1> QED BY <1>1, <1>2, <1>3 DEF SegmentsFit

----------------------------------------------------------------------------
(* Polling *)

\* EndPoll from a place where no frames wait
LEMMA EndStep ==
    ASSUME IInv, UNCHANGED primVars, LocalFilesUnchanged, TailUnchanged, UNCHANGED broken,
           EndPoll, at \in {"manifest", "segments", "tail"}
    PROVE  ReplInv'
<1>1. PrimInv /\ ReplType /\ PlaceFits
  BY DEF IInv, ReplInv
<1>2. UNCHANGED <<rcur, rgen, rsegs, rwal, seen, walSeq, fileLen, head, fetched, broken>>
      /\ at' = "idle" /\ want' = NoAnswer /\ todo' = {}
  BY DEF LocalFilesUnchanged, TailUnchanged, EndPoll
<1>3. HeadsFit' /\ LogsFit' /\ FilesFit' /\ CollectionsFit'
      /\ (fetched' # 0 => walSeq' # 0 /\ fileLen' + fetched' <= Frames(walSeq)')
  BY <1>2, Moves
<1>4. SegmentsFit'
  BY <1>2, SegmentsStay
<1>5. ReplType'
  <2>1. want' \in [gen : 0..gen, seq : 0..active]
    BY <1>1, <1>2, ManifestTypes DEF NoAnswer, PrimInv
  <2> QED BY <1>1, <1>2, <2>1, Still DEF ReplType
<1>6. PlaceFits'
  BY <1>2, <1>3 DEF PlaceFits, Asked
<1> QED BY <1>3, <1>4, <1>5, <1>6 DEF ReplInv

LEMMA AskGenStep == ASSUME IInv, UNCHANGED primVars, AskGen PROVE ReplInv'
<1>1. PrimInv /\ ReplType /\ PlaceFits
  BY DEF IInv, ReplInv
<1>2. UNCHANGED <<rcur, rgen, rsegs, rwal, seen, walSeq, fileLen, head, fetched, broken, todo>>
      /\ at = "idle" /\ at' = "state" /\ want' = [gen |-> gen, seq |-> 0]
  BY DEF AskGen, LocalFilesUnchanged, TailUnchanged, NothingFails
<1>3. HeadsFit' /\ LogsFit' /\ FilesFit' /\ CollectionsFit'
      /\ (fetched' # 0 => walSeq' # 0 /\ fileLen' + fetched' <= Frames(walSeq)')
  BY <1>2, Moves
<1>4. SegmentsFit'
  BY <1>2, SegmentsStay
<1>5. ReplType'
  <2>1. want' \in [gen : 0..gen, seq : 0..active]
    BY <1>1, <1>2, ManifestTypes DEF PrimInv
  <2> QED BY <1>1, <1>2, <2>1, Still DEF ReplType
<1>6. PlaceFits'
  <2>1. rcur <= gen
    BY <1>1, ReplTypes
  <2> QED BY <1>2, <1>3, <2>1 DEF PlaceFits, Asked
<1> QED BY <1>3, <1>4, <1>5, <1>6 DEF ReplInv

LEMMA AskSeqStep == ASSUME IInv, UNCHANGED primVars, AskSeq PROVE ReplInv'
<1>1. PrimInv /\ ReplType /\ PlaceFits
  BY DEF IInv, ReplInv
<1>2. UNCHANGED <<rcur, rgen, rsegs, rwal, seen, walSeq, fileLen, head, fetched, broken, todo>>
      /\ at = "state" /\ at' \in {"manifest", "tail"} /\ want' = [want EXCEPT !.seq = active]
  BY DEF AskSeq, LocalFilesUnchanged, TailUnchanged, NothingFails
<1>3. HeadsFit' /\ LogsFit' /\ FilesFit' /\ CollectionsFit'
      /\ (fetched' # 0 => walSeq' # 0 /\ fileLen' + fetched' <= Frames(walSeq)')
  BY <1>2, Moves
<1>4. SegmentsFit'
  BY <1>2, SegmentsStay
<1>5. active \in Nat /\ active # 0 /\ want'.seq = active /\ want'.gen = want.gen
      /\ want' \in [gen : 0..gen, seq : 0..active]
  <2>1. want \in [gen : 0..gen, seq : 0..active] /\ active \in 1..MaxWal /\ MaxWal \in Nat
    BY <1>1, PrimaryAssumption DEF ReplType, PrimInv, PrimType, Wal
  <2>2. active \in 0..active
    BY <2>1
  <2> QED BY <1>2, <2>1, <2>2
<1>6. ReplType'
  BY <1>1, <1>2, <1>5, Still DEF ReplType, Asked
<1>7. PlaceFits'
  BY <1>1, <1>2, <1>3, <1>5 DEF PlaceFits, Asked
<1> QED BY <1>3, <1>4, <1>6, <1>7 DEF ReplInv

LEMMA RequestFailsStep == ASSUME IInv, UNCHANGED primVars, RequestFails PROVE ReplInv'
BY EndStep DEF RequestFails

LEMMA GetManifestStep == ASSUME IInv, UNCHANGED primVars, GetManifest PROVE ReplInv'
<1>1. PrimInv /\ ReplType /\ PlaceFits /\ SegmentsFit
  BY DEF IInv, ReplInv
<1>2. UNCHANGED <<rcur, rgen, rsegs, rwal, seen, walSeq, fileLen, head, fetched, broken>>
      /\ at = "manifest"
  BY DEF GetManifest, LocalFilesUnchanged, TailUnchanged, NothingFails
<1>3. CASE EndPoll
  BY <1>2, <1>3, EndStep DEF GetManifest, NothingFails
<1>4. CASE at' = "segments" /\ todo' = manifests[want.gen].segs /\ UNCHANGED want
  <2>1. HeadsFit' /\ LogsFit' /\ FilesFit' /\ CollectionsFit'
        /\ (fetched' # 0 => walSeq' # 0 /\ fileLen' + fetched' <= Frames(walSeq)')
    BY <1>2, <1>4, Moves
  <2>2. SegmentsFit'
    <3>1. \A s : Got(s)' <=> Got(s)
      BY <1>1, <1>2, Still DEF Got
    <3>2. manifests' = manifests
      BY <1>1, Still
    <3> QED BY <1>1, <1>2, <1>4, <3>1, <3>2 DEF SegmentsFit
  <2>3. ReplType'
    <3>1. manifests[want.gen].segs \subseteq Seg
      BY <1>1, ReplTypes, ManifestTypes DEF PrimInv
    <3> QED BY <1>1, <1>2, <1>4, <3>1, Still DEF ReplType, Asked
  <2>4. PlaceFits'
    BY <1>1, <1>2, <1>4, <2>1 DEF PlaceFits, Asked
  <2> QED BY <2>1, <2>2, <2>3, <2>4 DEF ReplInv
<1> QED BY <1>3, <1>4 DEF GetManifest

----------------------------------------------------------------------------
(* Copying a generation *)

LEMMA SkipSegmentStep ==
    ASSUME IInv, UNCHANGED primVars, NEW s \in Seg, SkipSegment(s) PROVE ReplInv'
<1>1. PrimInv /\ ReplType /\ PlaceFits /\ SegmentsFit
  BY DEF IInv, ReplInv
<1>2. UNCHANGED <<rcur, rgen, rsegs, rwal, seen, at, want, walSeq, fileLen, head, fetched, broken>>
      /\ at = "segments" /\ rsegs[s] \in {"torn", "whole"} /\ todo' = todo \ {s}
  BY DEF SkipSegment, LocalFilesUnchanged, TailUnchanged, NothingFails
<1>3. HeadsFit' /\ LogsFit' /\ FilesFit' /\ CollectionsFit'
      /\ (fetched' # 0 => walSeq' # 0 /\ fileLen' + fetched' <= Frames(walSeq)')
  BY <1>2, Moves
<1>4. SegmentsFit'
  <2>1. \A t : Got(t)' <=> Got(t)
    BY <1>1, <1>2, Still DEF Got
  <2>2. Got(s)
    BY <1>2 DEF Got
  <2>3. manifests' = manifests
    BY <1>1, Still
  <2> QED BY <1>1, <1>2, <2>1, <2>2, <2>3 DEF SegmentsFit
<1>5. ReplType'
  BY <1>1, <1>2, Still DEF ReplType
<1>6. PlaceFits'
  BY <1>1, <1>2, <1>3 DEF PlaceFits
<1> QED BY <1>3, <1>4, <1>5, <1>6 DEF ReplInv

LEMMA GetRequiredStep ==
    ASSUME IInv, UNCHANGED primVars, NEW s \in Seg, GetRequired(s) PROVE ReplInv'
<1>1. PrimInv /\ ReplType /\ PlaceFits /\ SegmentsFit
  BY DEF IInv, ReplInv
<1>2. UNCHANGED <<rcur, rgen, rwal, seen, walSeq, fileLen, head, fetched, broken>>
      /\ at = "segments" /\ s \in todo /\ rsegs[s] = "none"
  BY DEF GetRequired, TailUnchanged, NothingFails
<1>3. CASE EndPoll /\ UNCHANGED rsegs
  BY <1>2, <1>3, EndStep DEF LocalFilesUnchanged, TailUnchanged
<1>4. CASE rsegs' = [rsegs EXCEPT ![s] = "bare"] /\ UNCHANGED <<at, want, todo>>
  <2>1. HeadsFit' /\ LogsFit' /\ FilesFit' /\ CollectionsFit'
        /\ (fetched' # 0 => walSeq' # 0 /\ fileLen' + fetched' <= Frames(walSeq)')
    BY <1>2, <1>4, Moves
  <2>2. SegmentsFit'
    <3>1. \A t \in Seg : t # s => rsegs'[t] = rsegs[t]
      BY <1>1, <1>4 DEF ReplType
    <3>2. \A t \in Seg : t # s => (Got(t)' <=> Got(t))
      BY <1>1, <3>1, Still DEF Got
    <3>3. rsegs'[s] = "bare" /\ ~Got(s)
      BY <1>1, <1>2, <1>4 DEF Got, ReplType
    <3>4. manifests' = manifests /\ \A g \in {rgen, rcur, want.gen} : manifests[g].segs \subseteq Seg
      BY <1>1, Still, ReplTypes, ManifestTypes DEF PrimInv
    <3> QED BY <1>1, <1>2, <1>4, <3>1, <3>2, <3>3, <3>4 DEF SegmentsFit
  <2>3. ReplType'
    BY <1>1, <1>2, <1>4, Still DEF ReplType
  <2>4. PlaceFits'
    BY <1>1, <1>2, <1>4, <2>1 DEF PlaceFits
  <2> QED BY <2>1, <2>2, <2>3, <2>4 DEF ReplInv
<1> QED BY <1>2, <1>3, <1>4 DEF GetRequired, SegmentBecomes, Goes

LEMMA GetOptionalStep ==
    ASSUME IInv, UNCHANGED primVars, NEW s \in Seg, GetOptional(s) PROVE ReplInv'
<1>1. PrimInv /\ ReplType /\ PlaceFits /\ SegmentsFit
  BY DEF IInv, ReplInv
<1>2. UNCHANGED <<rcur, rgen, rwal, seen, at, want, walSeq, fileLen, head, fetched, broken>>
      /\ at = "segments" /\ s \in todo /\ rsegs[s] = "bare" /\ todo' = todo \ {s}
      /\ IF SegmentThere(s) THEN rsegs' = [rsegs EXCEPT ![s] = "whole"] ELSE UNCHANGED rsegs
  BY DEF GetOptional, TailUnchanged, NothingFails, SegmentBecomes
<1>3. HeadsFit' /\ LogsFit' /\ FilesFit' /\ CollectionsFit'
      /\ (fetched' # 0 => walSeq' # 0 /\ fileLen' + fetched' <= Frames(walSeq)')
  BY <1>2, Moves
<1>4. SegmentsFit'
  <2>1. \A t \in Seg : t # s => rsegs'[t] = rsegs[t]
    BY <1>1, <1>2 DEF ReplType
  <2>2. \A t \in Seg : t # s => (Got(t)' <=> Got(t))
    BY <1>1, <2>1, Still DEF Got
  <2>3. Got(s)' /\ rsegs'[s] \in {"bare", "whole"}
    BY <1>1, <1>2, Still DEF Got, ReplType, SegmentThere
  <2>4. manifests' = manifests /\ \A g \in {rgen, rcur, want.gen} : manifests[g].segs \subseteq Seg
    BY <1>1, Still, ReplTypes, ManifestTypes DEF PrimInv
  <2> QED BY <1>1, <1>2, <2>1, <2>2, <2>3, <2>4 DEF SegmentsFit
<1>5. ReplType'
  BY <1>1, <1>2, Still DEF ReplType
<1>6. PlaceFits'
  BY <1>1, <1>2, <1>3 DEF PlaceFits
<1> QED BY <1>3, <1>4, <1>5, <1>6 DEF ReplInv

\* A segment that is written in part is not one that the replica needs.
LEMMA SegmentWriteFailsStep ==
    ASSUME IInv, UNCHANGED primVars, NEW s \in Seg, SegmentWriteFails(s) PROVE ReplInv'
<1>1. PrimInv /\ ReplType /\ PlaceFits /\ SegmentsFit
  BY DEF IInv, ReplInv
<1>2. UNCHANGED <<rcur, rgen, rwal, seen, walSeq, fileLen, head, fetched>>
      /\ at = "segments" /\ rsegs[s] \in {"none", "bare"} /\ SegmentThere(s)
      /\ rsegs' = [rsegs EXCEPT ![s] = "torn"] /\ broken' = broken \cup {"segment"}
      /\ at' = "idle" /\ want' = NoAnswer /\ todo' = {}
  BY DEF SegmentWriteFails, TailUnchanged, SegmentBecomes, EndPoll
<1>3. HeadsFit' /\ LogsFit' /\ FilesFit' /\ CollectionsFit'
      /\ (fetched' # 0 => walSeq' # 0 /\ fileLen' + fetched' <= Frames(walSeq)')
  BY <1>2, Moves
<1>4. SegmentsFit'
  <2>1. \A t \in Seg : t # s => rsegs'[t] = rsegs[t]
    BY <1>1, <1>2 DEF ReplType
  <2>2. \A t \in Seg : t # s => (Got(t)' <=> Got(t))
    BY <1>1, <2>1, Still DEF Got
  <2>3. ~Got(s)
    BY <1>2 DEF Got, SegmentThere
  <2>4. manifests' = manifests /\ \A g \in {rgen, rcur} : manifests[g].segs \subseteq Seg
    BY <1>1, Still, ReplTypes, ManifestTypes DEF PrimInv
  <2>5. at' # "segments" /\ "segment" \in broken'
    BY <1>2
  <2> QED BY <1>1, <1>2, <2>1, <2>2, <2>3, <2>4, <2>5 DEF SegmentsFit
<1>5. ReplType'
  <2>1. want' \in [gen : 0..gen, seq : 0..active]
    BY <1>1, <1>2, ManifestTypes DEF NoAnswer, PrimInv
  <2> QED BY <1>1, <1>2, <2>1, Still DEF ReplType
<1>6. PlaceFits'
  BY <1>2, <1>3 DEF PlaceFits, Asked
<1> QED BY <1>3, <1>4, <1>5, <1>6 DEF ReplInv

LEMMA SwitchCurrentStep == ASSUME IInv, UNCHANGED primVars, SwitchCurrent PROVE ReplInv'
<1>1. PrimInv /\ ReplType /\ PlaceFits /\ SegmentsFit
  BY DEF IInv, ReplInv
<1>2. UNCHANGED <<rgen, rsegs, rwal, seen, want, todo, walSeq, fileLen, head, fetched, broken>>
      /\ at = "segments" /\ todo = {} /\ rcur' = want.gen /\ at' = "switch"
  BY DEF SwitchCurrent, TailUnchanged, NothingFails, Goes
<1>3. HeadsFit' /\ LogsFit' /\ FilesFit' /\ CollectionsFit'
      /\ (fetched' # 0 => walSeq' # 0 /\ fileLen' + fetched' <= Frames(walSeq)')
  BY <1>2, Moves
<1>4. SegmentsFit'
  <2>1. \A t : Got(t)' <=> Got(t)
    BY <1>1, <1>2, Still DEF Got
  <2>2. manifests' = manifests
    BY <1>1, Still
  <2> QED BY <1>1, <1>2, <2>1, <2>2 DEF SegmentsFit
<1>5. ReplType'
  <2>1. rgen \in 0..want.gen /\ want.gen \in 0..gen
    BY <1>1, <1>2, ReplTypes DEF PlaceFits
  <2> QED BY <1>1, <1>2, <2>1, Still DEF ReplType, Asked
<1>6. PlaceFits'
  BY <1>1, <1>2, <1>3 DEF PlaceFits, Asked
<1> QED BY <1>3, <1>4, <1>5, <1>6 DEF ReplInv

----------------------------------------------------------------------------
(* Opening what is in the directory *)

LEMMA OpensAlways ==
    ASSUME IInv, broken = {}, at \notin {"magic", "dead"}, ~DropRaced PROVE Opens
<1>1. PrimInv /\ PrimType /\ RecordsOrdered /\ GenerationsGrow
      /\ ReplType /\ SegmentsFit /\ LogsFit /\ FilesFit /\ CollectionsFit
  BY DEF IInv, ReplInv, PrimInv
<1>2. /\ rgen \in 0..gen /\ rcur \in 0..gen /\ rgen <= rcur /\ rgen \in 0..rcur
      /\ CoveredBy(rgen) \in Nat /\ CoveredBy(rcur) \in Nat
  BY <1>1, ReplTypes DEF ReplType
<1>3. CoveredBy(rgen) <= CoveredBy(rcur)
  BY <1>1, <1>2 DEF GenerationsGrow
<1>4. \A s \in manifests[rcur].segs : rsegs[s] \in {"bare", "whole"}
  <2>1. \A s \in manifests[rcur].segs : s \in Seg
    BY <1>1, <1>2, ManifestTypes
  <2> QED BY <1>1, <2>1 DEF SegmentsFit, Got
<1>5. \A f \in Wal : rwal[f].head # "bare"
  BY <1>1 DEF FilesFit
<1>6. ASSUME NEW r \in Replayed(CoveredBy(rcur)), ~hist[r].drop
      PROVE  hist[r].col \in manifests[rcur].cols \cup Replayed(CoveredBy(rcur))
  <2>1. \A f \in Wal : rwal[f].len <= Frames(f)
    BY <1>1 DEF LogsFit
  <2>2. \A q : q \in Replayed(CoveredBy(rcur))
               <=> /\ q \in Logged /\ FileOf(q) > CoveredBy(rcur)
                   /\ q <= Frame(FileOf(q), rwal[FileOf(q)].len)
    BY <1>1, <1>2, <2>1, ReplayedAre
  <2>3. \A q : q \in Replayed(CoveredBy(rgen))
               <=> /\ q \in Logged /\ FileOf(q) > CoveredBy(rgen)
                   /\ q <= Frame(FileOf(q), rwal[FileOf(q)].len)
    BY <1>1, <1>2, <2>1, ReplayedAre
  <2>4. \A q \in Logged : FileOf(q) \in Nat
    BY <1>1, HistTypes
  <2>5. r \in Replayed(CoveredBy(rgen)) /\ r \in Logged /\ FileOf(r) > CoveredBy(rcur)
    BY <1>2, <1>3, <2>2, <2>3, <2>4
  <2>6. hist[r].col \in KnownFrom(rgen)
    BY <1>1, <1>6, <2>5 DEF CollectionsFit
  <2>7. PICK c : c = hist[r].col
    OBVIOUS
  <2>8. ASSUME c \notin manifests[rcur].cols, c # r PROVE c \in Replayed(CoveredBy(rcur))
    <3>1. r \notin Orphans(rcur)
      BY <1>2 DEF DropRaced
    <3>2. /\ ~(FileOf(c) <= CoveredBy(rcur))
          /\ \A h \in 0..rcur : c \notin manifests[h].cols
      BY <1>6, <2>5, <2>7, <2>8, <3>1 DEF Orphans, CoveredBy
    <3>3. c \in Replayed(CoveredBy(rgen))
      BY <1>2, <2>6, <2>7, <3>2 DEF KnownFrom
    <3>4. FileOf(c) > CoveredBy(rcur)
      BY <1>2, <2>3, <2>4, <3>2, <3>3
    <3> QED BY <2>2, <2>3, <3>3, <3>4
  <2> QED BY <2>7, <2>8
<1> QED BY <1>4, <1>5, <1>6 DEF Opens, CoveredBy

\* Load, by a change of generation or after a death.
LEMMA LoadStep ==
    ASSUME IInv, UNCHANGED primVars, Opens, Load, UNCHANGED <<rcur, broken>>,
           \/ at' = "tail" /\ at \in Asked /\ UNCHANGED <<want, todo>>
           \/ at' = "idle" /\ want' = NoAnswer /\ todo' = {}
    PROVE  ReplInv'
<1>1. /\ PrimInv /\ PrimType /\ RecordsOrdered
      /\ ReplType /\ PlaceFits /\ SegmentsFit /\ HeadsFit /\ LogsFit
  BY DEF IInv, ReplInv, PrimInv
<1>2. PICK w : w = CoveredBy(rcur)
  OBVIOUS
<1>3. /\ rcur \in 0..gen /\ rcur \in Nat /\ w \in Nat /\ Wal \subseteq Nat
      /\ manifests' = manifests /\ Logged' = Logged
  BY <1>1, <1>2, ReplTypes, Still
<1>4. /\ rgen' = rcur /\ rcur' = rcur
      /\ walSeq' = 0 /\ fileLen' = 0 /\ head' = "none" /\ fetched' = 0
      /\ seen' = UpTo(w) \cup Replayed(w)
      /\ rsegs' = [s \in Seg |-> IF s \in manifests[rcur].segs THEN rsegs[s] ELSE "none"]
      /\ rwal' = [f \in Wal |-> IF f <= w THEN NoLog ELSE [rwal[f] EXCEPT !.torn = FALSE]]
  BY <1>2 DEF Load, Loaded, CoveredBy
<1>5. \A f \in Wal : rwal[f].len <= Frames(f) /\ Frames(f) \in Nat /\ rwal[f].len \in Nat
  BY <1>1, <1>3, FramesAre DEF LogsFit, ReplType
<1>6. \A r : r \in Replayed(w) <=> /\ r \in Logged /\ FileOf(r) > w
                                   /\ r <= Frame(FileOf(r), rwal[FileOf(r)].len)
  BY <1>1, <1>3, <1>5, ReplayedAre
<1>7. \A f \in Wal : /\ f <= w => rwal'[f] = NoLog
                     /\ f > w => rwal'[f] = [rwal[f] EXCEPT !.torn = FALSE]
  BY <1>3, <1>4
<1>8. \A f \in Wal : /\ f <= w => /\ rwal'[f].len = 0 /\ rwal'[f].twice = 0 /\ ~rwal'[f].torn
                                  /\ rwal'[f].head = "none"
                     /\ f > w => /\ rwal'[f].len = rwal[f].len /\ rwal'[f].twice = rwal[f].twice
                                 /\ ~rwal'[f].torn /\ rwal'[f].head = rwal[f].head
  <2>1. ASSUME NEW f \in Wal, f <= w
        PROVE  rwal'[f].len = 0 /\ rwal'[f].twice = 0 /\ ~rwal'[f].torn /\ rwal'[f].head = "none"
    <3>1. rwal'[f] = NoLog
      BY <1>7, <2>1
    <3>2. NoLog.len = 0 /\ NoLog.twice = 0 /\ NoLog.torn = FALSE /\ NoLog.head = "none"
      BY DEF NoLog
    <3> QED BY <3>1, <3>2
  <2>2. ASSUME NEW f \in Wal, f > w
        PROVE  /\ rwal'[f].len = rwal[f].len /\ rwal'[f].twice = rwal[f].twice /\ ~rwal'[f].torn
               /\ rwal'[f].head = rwal[f].head
    <3>1. rwal[f] \in [head : Heads, len : Nat, torn : BOOLEAN, twice : Nat]
      BY <1>1 DEF ReplType
    <3>2. rwal'[f] = [rwal[f] EXCEPT !.torn = FALSE]
      BY <1>7, <2>2
    <3> QED BY <3>1, <3>2
  <2> QED BY <2>1, <2>2
<1>9. /\ CoveredBy(rgen)' = w /\ UpTo(CoveredBy(rgen))' = UpTo(w)
      /\ Replayed(CoveredBy(rgen))' = Replayed(w)
  <2>1. CoveredBy(rgen)' = w
    BY <1>1, <1>2, <1>4, Still DEF CoveredBy
  <2>2. UpTo(CoveredBy(rgen))' = UpTo(w)
    BY <1>1, <2>1, Still DEF UpTo
  <2>3. \A f \in (w + 1)..MaxWal : f \in Wal /\ f > w
    BY <1>3, PrimaryAssumption DEF Wal
  <2>4. \A f \in (w + 1)..MaxWal :
          {Frame(f, i)' : i \in 1..rwal'[f].len} = {Frame(f, i) : i \in 1..rwal[f].len}
    BY <1>1, <1>8, <2>3, Still
  <2> QED BY <2>1, <2>2, <2>4 DEF Replayed
<1>10. ReplType'
  <2>1. seen' \subseteq Logged'
    BY <1>3, <1>4, <1>6 DEF UpTo
  <2>2. rsegs' \in [Seg -> {"none", "bare", "whole", "torn"}]
    BY <1>1, <1>4 DEF ReplType
  <2>3. rwal' \in [Wal -> [head : Heads, len : Nat, torn : BOOLEAN, twice : Nat]]
    <3>1. ASSUME NEW f \in Wal
          PROVE  (IF f <= w THEN NoLog ELSE [rwal[f] EXCEPT !.torn = FALSE])
                    \in [head : Heads, len : Nat, torn : BOOLEAN, twice : Nat]
      <4>1. rwal[f] \in [head : Heads, len : Nat, torn : BOOLEAN, twice : Nat]
        BY <1>1 DEF ReplType
      <4>2. NoLog \in [head : Heads, len : Nat, torn : BOOLEAN, twice : Nat]
        BY DEF NoLog, Heads
      <4> QED BY <4>1, <4>2
    <3> QED BY <1>4, <3>1
  <2>4. want' \in [gen : 0..gen, seq : 0..active] /\ todo' \subseteq Seg
    BY <1>1, ManifestTypes DEF NoAnswer, PrimInv, ReplType
  <2>5. rgen' \in 0..rcur' /\ rcur' \in 0..gen' /\ walSeq' \in 0..active'
        /\ fileLen' \in Nat /\ fetched' \in Nat /\ head' \in {"none", "held", "written"}
    BY <1>1, <1>3, <1>4, ManifestTypes, Still
  <2>6. at' \in {"idle", "state", "dead"} \cup Asked /\ broken' \subseteq {"segment", "append", "apply"}
    BY <1>1 DEF ReplType, Asked
  <2> QED BY <1>1, <2>1, <2>2, <2>3, <2>4, <2>5, <2>6, Still DEF ReplType
<1>11. PlaceFits'
  BY <1>1, <1>4 DEF PlaceFits, Asked
<1>12. SegmentsFit'
  <2>1. \A s \in manifests[rcur].segs : /\ s \in Seg /\ rsegs[s] \in {"bare", "whole"} /\ Got(s)
                                        /\ rsegs'[s] = rsegs[s]
    BY <1>1, <1>3, <1>4, ManifestTypes DEF Opens, SegmentsFit
  <2>2. \A s \in manifests[rcur].segs : Got(s)' /\ rsegs'[s] # "torn"
    BY <1>1, <2>1, Still DEF Got
  <2>3. \A s \in Seg : rsegs'[s] = "torn" => "segment" \in broken'
    BY <1>1, <1>4 DEF SegmentsFit
  <2> QED BY <1>3, <1>4, <2>2, <2>3 DEF SegmentsFit
<1>13. LogsFit'
  <2>0. \A f \in Wal : f <= w \/ f > w
    BY <1>3
  <2>1. ASSUME NEW f \in Wal PROVE rwal'[f].len <= Frames(f)'
    <3>1. Frames(f)' = Frames(f)
      BY <1>1, Still
    <3>2. rwal'[f].len = 0 \/ rwal'[f].len = rwal[f].len
      BY <1>8, <2>0
    <3> QED BY <1>5, <3>1, <3>2
  <2>2. ASSUME "append" \notin broken'
        PROVE  /\ \A f \in Wal : ~rwal'[f].torn /\ rwal'[f].twice = 0
               /\ \A f \in Wal : FirstFrames(f, rwal[f].len)' \subseteq seen'
    <3>1. \A f \in Wal : ~rwal'[f].torn /\ rwal'[f].twice = 0
      <4>1. \A f \in Wal : rwal[f].twice = 0
        BY <1>1, <2>2 DEF LogsFit
      <4> QED BY <1>8, <2>0, <4>1
    <3>2. ASSUME NEW f \in Wal PROVE {Frame(f, i)' : i \in 1..rwal'[f].len} \subseteq seen'
      <4>1. CASE f <= w
        <5>1. 1..rwal'[f].len = {}
          BY <1>8, <4>1
        <5> QED BY <5>1
      <4>2. CASE f > w
        <5>1. f \in (w + 1)..MaxWal
          BY <1>3, <4>2, PrimaryAssumption DEF Wal
        <5>2. {Frame(f, i) : i \in 1..rwal[f].len} \subseteq Replayed(w)
          BY <5>1 DEF Replayed
        <5>3. {Frame(f, i)' : i \in 1..rwal'[f].len} = {Frame(f, i) : i \in 1..rwal[f].len}
          BY <1>1, <1>8, <4>2, Still
        <5> QED BY <1>4, <5>2, <5>3
      <4> QED BY <1>3, <4>1, <4>2
    <3> QED BY <3>1, <3>2 DEF FirstFrames
  <2>3. ASSUME NEW q \in seen', NEW r \in Logged, FileOf(q) = FileOf(r), r <= q PROVE r \in seen'
    <3>0. q \in Logged /\ Logged \subseteq Int /\ FileOf(q) \in Wal /\ FileOf(q) \in Int
      BY <1>1, <1>3, <1>4, <1>6, <2>3, HistTypes DEF UpTo
    <3>1. CASE q \in UpTo(w)
      BY <1>4, <2>3, <3>1 DEF UpTo
    <3>2. CASE q \in Replayed(w)
      <4>1. PICK x : x = Frame(FileOf(q), rwal[FileOf(q)].len)
        OBVIOUS
      <4>2. x \in Int
        <5>1. \A i \in Int : Frame(FileOf(q), i) = Frame(FileOf(q), 0) + i
              /\ Frame(FileOf(q), 0) \in Nat
          BY <1>1, <3>0, FramesAre
        <5> QED BY <1>5, <3>0, <4>1, <5>1
      <4>3. q <= x /\ FileOf(q) > w
        BY <1>6, <3>2, <4>1
      <4>4. r <= x
        BY <2>3, <3>0, <4>2, <4>3
      <4>5. r \in Replayed(w)
        BY <1>6, <2>3, <4>1, <4>3, <4>4
      <4> QED BY <1>4, <4>5
    <3> QED BY <1>4, <3>1, <3>2
  <2>4. \A q \in seen', r \in Logged' : FileOf(q)' = FileOf(r)' /\ r <= q => r \in seen'
    BY <1>1, <1>3, <2>3, Still
  <2>5. at' # "append" /\ walSeq' = 0 /\ UpTo(w) \subseteq seen'
    BY <1>4
  <2> QED BY <1>9, <2>1, <2>2, <2>4, <2>5 DEF LogsFit
<1>14. FilesFit'
  <2>1. ASSUME NEW f \in Wal PROVE rwal'[f].head # "bare"
    <3>1. f > w => rwal[f].head # "bare"
      BY <1>2 DEF Opens, CoveredBy
    <3>2. f <= w \/ f > w
      BY <1>3
    <3> QED BY <1>8, <3>1, <3>2
  <2> QED BY <1>4, <1>9, <2>1 DEF FilesFit
<1>15. HeadsFit'
  <2>1. ASSUME NEW f \in Wal, rwal'[f].head # "whole" PROVE rwal'[f].len = 0 /\ rwal'[f].twice = 0
    <3>1. f <= w \/ f > w
      BY <1>3
    <3>2. rwal[f].head # "whole" => rwal[f].len = 0 /\ rwal[f].twice = 0
      BY <1>1 DEF HeadsFit
    <3> QED BY <1>8, <2>1, <3>1, <3>2
  <2> QED BY <1>4, <2>1 DEF HeadsFit
<1>16. CollectionsFit'
  <2>1. KnownFrom(rgen)' = manifests[rcur].cols \cup Replayed(w)
    BY <1>3, <1>4, <1>9 DEF KnownFrom
  <2>2. \A r \in Replayed(w) : hist[r].drop \/ hist[r].col \in manifests[rcur].cols \cup Replayed(w)
    BY <1>2 DEF Opens, CoveredBy
  <2>3. hist' = hist
    BY <1>1, Still
  <2>4. at' # "append" /\ at' # "switch"
    OBVIOUS
  <2> QED BY <1>4, <1>9, <2>1, <2>2, <2>3, <2>4 DEF CollectionsFit
<1> QED BY <1>10, <1>11, <1>12, <1>13, <1>14, <1>15, <1>16 DEF ReplInv

LEMMA SwitchGenerationStep == ASSUME IInv, UNCHANGED primVars, SwitchGeneration PROVE ReplInv'
<1>1. PrimInv /\ ReplType
  BY DEF IInv, ReplInv
<1>2. CASE Opens
  BY <1>2, LoadStep DEF SwitchGeneration, Goes, NothingFails, Asked
<1>3. CASE ~Opens
  <2>1. UNCHANGED <<rcur, rgen, rsegs, rwal, seen, walSeq, fileLen, head, fetched, broken>>
        /\ at = "switch" /\ at' = "idle" /\ want' = NoAnswer /\ todo' = {}
    BY <1>3 DEF SwitchGeneration, EndPoll, TailUnchanged, NothingFails
  <2>2. broken = {} /\ at \notin {"magic", "dead"} => DropRaced
    BY <1>3, OpensAlways
  <2>3. HeadsFit' /\ LogsFit' /\ FilesFit' /\ CollectionsFit'
        /\ (fetched' # 0 => walSeq' # 0 /\ fileLen' + fetched' <= Frames(walSeq)')
    BY <2>1, <2>2, Moves
  <2>4. SegmentsFit'
    BY <2>1, SegmentsStay
  <2>5. ReplType'
    <3>1. want' \in [gen : 0..gen, seq : 0..active]
      BY <1>1, <2>1, ManifestTypes DEF NoAnswer, PrimInv
    <3> QED BY <1>1, <2>1, <3>1, Still DEF ReplType
  <2>6. PlaceFits'
    BY <2>1, <2>3 DEF PlaceFits, Asked
  <2> QED BY <2>3, <2>4, <2>5, <2>6 DEF ReplInv
<1> QED BY <1>2, <1>3

LEMMA DieStep == ASSUME IInv, UNCHANGED primVars, Die PROVE ReplInv'
<1>1. PrimInv /\ ReplType /\ PlaceFits
  BY DEF IInv, ReplInv
<1>2. CASE Opens
  BY <1>2, LoadStep DEF Die, EndPoll
<1>3. CASE ~Opens
  <2>1. UNCHANGED <<rcur, rgen, rsegs, rwal, seen, want, todo, walSeq, fileLen, head, fetched, broken>>
        /\ at' = "dead"
    BY <1>3 DEF Die, Goes, TailUnchanged
  <2>2. broken = {} /\ at \notin {"magic", "dead"} => DropRaced
    BY <1>3, OpensAlways
  <2>3. HeadsFit' /\ LogsFit' /\ FilesFit' /\ CollectionsFit'
        /\ (fetched' # 0 => walSeq' # 0 /\ fileLen' + fetched' <= Frames(walSeq)')
    BY <2>1, <2>2, Moves
  <2>4. SegmentsFit'
    BY <2>1, SegmentsStay
  <2>5. ReplType'
    BY <1>1, <2>1, Still DEF ReplType
  <2>6. PlaceFits'
    BY <2>1, <2>3 DEF PlaceFits, Asked
  <2> QED BY <2>3, <2>4, <2>5, <2>6 DEF ReplInv
<1> QED BY <1>2, <1>3

----------------------------------------------------------------------------
(* Tailing a log *)

\* What is read of the files and known of them does not change with what is
\* fetched or seen.
LEMMA SameFiles ==
    ASSUME IInv, UNCHANGED primVars, rgen' = rgen, \A f \in Wal : rwal'[f].len = rwal[f].len
    PROVE  /\ CoveredBy(rgen)' = CoveredBy(rgen)
           /\ UpTo(CoveredBy(rgen))' = UpTo(CoveredBy(rgen))
           /\ Replayed(CoveredBy(rgen))' = Replayed(CoveredBy(rgen))
           /\ KnownFrom(rgen)' = KnownFrom(rgen)
           /\ \A f \in Wal : FirstFrames(f, rwal[f].len)' = FirstFrames(f, rwal[f].len)
<1>1. PrimInv /\ ReplType /\ \A f \in Wal : rwal[f].len <= Frames(f)
  BY DEF IInv, ReplInv, LogsFit
<1>2. /\ \A f \in Wal : FirstFrames(f, rwal[f].len)' = FirstFrames(f, rwal[f].len)
      /\ \A c \in Nat : Replayed(c)' = Replayed(c)
  BY <1>1, Still, FilesKept
<1>3. CoveredBy(rgen)' = CoveredBy(rgen) /\ CoveredBy(rgen) \in Nat
  BY <1>1, Still, ReplTypes DEF CoveredBy
<1>4. UpTo(CoveredBy(rgen))' = UpTo(CoveredBy(rgen))
  BY <1>1, <1>3, Still DEF UpTo
<1>5. Replayed(CoveredBy(rgen))' = Replayed(CoveredBy(rgen))
  BY <1>2, <1>3 DEF Replayed
<1>6. KnownFrom(rgen)' = KnownFrom(rgen)
  BY <1>1, <1>5, Still DEF KnownFrom
<1> QED BY <1>2, <1>3, <1>4, <1>5, <1>6

LEMMA GetTailStep == ASSUME IInv, UNCHANGED primVars, GetTail PROVE ReplInv'
<1>1. /\ PrimInv /\ PrimType /\ RecordsOrdered /\ ReplType /\ PlaceFits
      /\ HeadsFit /\ LogsFit /\ FilesFit /\ CollectionsFit
  BY DEF IInv, ReplInv, PrimInv
<1>2. /\ walSeq \in Nat /\ fileLen \in Nat /\ fetched \in Nat /\ Wal \subseteq Nat
      /\ want.seq \in 0..active /\ active \in Nat /\ Wal = 1..MaxWal /\ MaxWal \in Nat
  BY <1>1, ReplTypes, PrimaryAssumption DEF Wal
<1>3. PICK held : held = IF walSeq = want.seq THEN fetched ELSE 0
  OBVIOUS
<1>4. PICK here : here = Frames(want.seq)
  OBVIOUS
<1>16. PICK begun : begun = Begun
  OBVIOUS
<1>5. /\ UNCHANGED <<rcur, rgen, rsegs, rwal, seen, broken>> /\ at = "tail"
      /\ walSeq' = want.seq
      /\ fileLen' = IF walSeq = want.seq THEN fileLen ELSE LocalLen(want.seq)
      /\ \/ /\ begun = "none" \/ here > fileLen' + held
            /\ fetched' = here - fileLen'
            /\ head' = IF begun = "written" THEN "written" ELSE "held"
            /\ at' = IF begun = "written" THEN "apply" ELSE "create"
            /\ UNCHANGED <<want, todo>>
         \/ fetched' = held /\ head' = begun /\ at' = "idle" /\ want' = NoAnswer /\ todo' = {}
  BY <1>3, <1>4, <1>16 DEF GetTail, LocalFilesUnchanged, NothingFails, Goes, EndPoll, Again
<1>6. want.seq # 0 /\ want.seq \in Wal
  <2>1. want.seq # 0
    BY <1>1, <1>5 DEF PlaceFits, Asked
  <2> QED BY <1>1, <1>2, <2>1 DEF PrimType
<1>7. rwal[want.seq].len \in Nat /\ rwal[want.seq].twice \in Nat /\ here \in Nat /\ held \in Nat
  <2>1. rwal[want.seq] \in [head : Heads, len : Nat, torn : BOOLEAN, twice : Nat]
    BY <1>1, <1>6 DEF ReplType
  <2>2. here \in Nat
    <3>1. want.seq \in Int
      BY <1>2
    <3>2. Frames(want.seq) \in Nat
      BY <1>1, <3>1, FramesAre
    <3> QED BY <1>4, <3>2
  <2> QED BY <1>2, <1>3, <2>1, <2>2
<1>8. fileLen' \in Nat
  <2>1. LocalLen(want.seq) \in Nat
    BY <1>7 DEF LocalLen
  <2> QED BY <1>2, <1>5, <2>1
<1>17. begun = IF walSeq = want.seq THEN head ELSE IF rwal[want.seq].head = "whole" THEN "written" ELSE "none"
  BY <1>16 DEF Begun, Again
<1>18. begun \in {"none", "held", "written"} /\ (begun # "written" => fileLen' = 0)
  <2>1. CASE walSeq = want.seq
    BY <1>1, <1>5, <1>17, <2>1 DEF ReplType, HeadsFit
  <2>2. CASE walSeq # want.seq
    <3>1. rwal[want.seq].head # "whole" => LocalLen(want.seq) = 0
      BY <1>1, <1>6 DEF HeadsFit, LocalLen
    <3> QED BY <1>5, <1>17, <2>2, <3>1
  <2> QED BY <2>1, <2>2
<1>9. fetched' \in Nat /\ (at' = "apply" => fetched' # 0)
  <2>1. CASE begun = "none"
    BY <1>5, <1>7, <1>18, <2>1
  <2>2. CASE begun # "none"
    BY <1>5, <1>7, <1>8, <2>2
  <2> QED BY <2>1, <2>2
<1>10. ReplType'
  <2>1. want' \in [gen : 0..gen, seq : 0..active] /\ todo' \subseteq Seg
    BY <1>1, <1>5, ManifestTypes DEF NoAnswer, ReplType
  <2>2. rgen' \in 0..rcur' /\ rcur' \in 0..gen
        /\ rsegs' \in [Seg -> {"none", "bare", "whole", "torn"}]
        /\ rwal' \in [Wal -> [head : Heads, len : Nat, torn : BOOLEAN, twice : Nat]]
        /\ seen' \subseteq Logged /\ broken' \subseteq {"segment", "append", "apply"}
    BY <1>1, <1>5 DEF ReplType
  <2>3. walSeq' \in 0..active /\ at' \in {"idle", "state", "dead"} \cup Asked
        /\ head' \in {"none", "held", "written"}
    BY <1>2, <1>5, <1>18 DEF Asked
  <2> QED BY <1>1, <1>8, <1>9, <2>1, <2>2, <2>3, Still DEF ReplType
<1>11. PlaceFits'
  <2>1. fetched' # 0 => fileLen' + fetched' <= here
    <3>1. CASE at' # "idle"
      BY <1>5, <1>7, <1>8, <3>1
    <3>2. CASE at' = "idle"
      <4>1. ASSUME fetched' # 0 PROVE fileLen' + fetched' <= here
        <5>1. walSeq = want.seq /\ fetched' = fetched /\ fileLen' = fileLen
          BY <1>3, <1>5, <3>2, <4>1
        <5> QED BY <1>1, <1>4, <4>1, <5>1 DEF PlaceFits
      <4> QED BY <4>1
    <3> QED BY <3>1, <3>2
  <2>2. Frames(walSeq)' = here
    BY <1>1, <1>4, <1>5, Still DEF Frames
  <2>3. at' \in {"apply", "append"} => fetched' # 0
    BY <1>5, <1>9
  <2>4. at' \in Asked => want'.seq # 0
    BY <1>5, <1>6 DEF Asked
  <2> QED BY <1>5, <1>6, <2>1, <2>2, <2>3, <2>4 DEF PlaceFits
<1>12. SegmentsFit'
  BY <1>5, SegmentsStay
<1>19. HeadsFit'
  <2>1. ASSUME head' = "written" PROVE rwal[want.seq].head = "whole" \/ rwal[want.seq].torn
    <3>1. begun = "written"
      BY <1>5, <2>1
    <3> QED BY <1>1, <1>17, <3>1 DEF HeadsFit
  <2>2. head' # "written" => begun # "written"
    BY <1>5
  <2>3. ASSUME head' = "none" \/ (head' = "held" /\ "append" \notin broken)
        PROVE  rwal[want.seq].head # "whole"
    <3>1. begun = "none" \/ (begun = "held" /\ "append" \notin broken)
      BY <1>5, <1>18, <2>2, <2>3
    <3> QED BY <1>1, <1>6, <1>17, <3>1 DEF HeadsFit
  <2> QED BY <1>1, <1>5, <1>6, <1>18, <2>1, <2>2, <2>3 DEF HeadsFit
<1>13. LogsFit'
  <2>1. "append" \notin broken => fileLen' = rwal[want.seq].len
    <3>1. ASSUME "append" \notin broken PROVE fileLen' = rwal[want.seq].len
      <4>1. CASE walSeq # want.seq
        <5>1. rwal[want.seq].twice = 0
          BY <1>1, <1>6, <3>1 DEF LogsFit
        <5> QED BY <1>5, <1>7, <4>1, <5>1 DEF LocalLen
      <4>2. CASE walSeq = want.seq
        BY <1>1, <1>5, <1>6, <3>1, <4>2 DEF LogsFit
      <4> QED BY <4>1, <4>2
    <3> QED BY <3>1
  <2>2. at' # "append"
    BY <1>5
  <2> QED BY <1>1, <1>5, <2>1, <2>2, Still, SameFiles DEF LogsFit
<1>14. FilesFit'
  <2>1. ASSUME broken = {}
        PROVE  /\ fetched' # 0 => at' \in {"create", "magic", "apply", "append"}
               /\ head' = "held" => at' \in {"create", "magic"}
               /\ at' = "create" => rwal[want.seq].head = "none"
               /\ \A f \in Wal : rwal[f].head # "bare"
    <3>1. fetched = 0 /\ held = 0 /\ head # "held" /\ \A f \in Wal : rwal[f].head # "bare"
      BY <1>1, <1>3, <1>5, <2>1 DEF FilesFit
    <3>2. begun # "held"
      BY <1>17, <3>1
    <3>3. ASSUME at' = "create" PROVE rwal[want.seq].head = "none"
      <4>1. begun = "none"
        BY <1>5, <1>18, <3>2, <3>3
      <4>2. rwal[want.seq].head \in Heads
        BY <1>1, <1>6 DEF ReplType
      <4>3. rwal[want.seq].head # "whole"
        <5>1. CASE walSeq = want.seq
          BY <1>1, <1>6, <1>17, <4>1, <5>1 DEF HeadsFit
        <5>2. CASE walSeq # want.seq
          BY <1>17, <4>1, <5>2
        <5> QED BY <5>1, <5>2
      <4> QED BY <1>6, <3>1, <4>2, <4>3 DEF Heads
    <3> QED BY <1>5, <3>1, <3>2, <3>3
  <2>2. /\ CoveredBy(rgen)' = CoveredBy(rgen) /\ UpTo(CoveredBy(rgen))' = UpTo(CoveredBy(rgen))
        /\ Replayed(CoveredBy(rgen))' = Replayed(CoveredBy(rgen))
    BY <1>5, SameFiles
  <2>3. at' \notin {"magic", "append", "dead"}
    BY <1>5
  <2> QED BY <1>1, <1>5, <2>1, <2>2, <2>3 DEF FilesFit
<1>15. CollectionsFit'
  <2>1. /\ Replayed(CoveredBy(rgen))' = Replayed(CoveredBy(rgen)) /\ KnownFrom(rgen)' = KnownFrom(rgen)
    BY <1>5, SameFiles
  <2>2. at' # "append" /\ at' # "switch"
    BY <1>5
  <2> QED BY <1>1, <1>5, <2>1, <2>2, Still DEF CollectionsFit
<1> QED BY <1>10, <1>11, <1>12, <1>19, <1>13, <1>14, <1>15 DEF ReplInv

\* Beginning a local log touches its magic and what is torn, not its frames.
LEMMA MagicTouches ==
    ASSUME IInv, UNCHANGED primVars,
           UNCHANGED <<rcur, rgen, rsegs, seen, walSeq, fileLen, fetched>>,
           at \in {"create", "magic"}, broken' = broken \/ broken' = broken \cup {"append"},
           at' \notin {"append", "segments", "switch"},
           rwal' \in [Wal -> [head : Heads, len : Nat, torn : BOOLEAN, twice : Nat]],
           \A f \in Wal : rwal'[f].len = rwal[f].len /\ rwal'[f].twice = rwal[f].twice,
           "append" \notin broken' => \A f \in Wal : rwal'[f].torn = rwal[f].torn
    PROVE  /\ LogsFit' /\ SegmentsFit' /\ CollectionsFit'
           /\ UpTo(CoveredBy(rgen))' = UpTo(CoveredBy(rgen))
           /\ Replayed(CoveredBy(rgen))' = Replayed(CoveredBy(rgen))
           /\ fetched' # 0 => walSeq' # 0 /\ fileLen' + fetched' <= Frames(walSeq)'
<1>1. PrimInv /\ ReplType /\ PlaceFits /\ LogsFit /\ CollectionsFit
  BY DEF IInv, ReplInv
<1>2. /\ UpTo(CoveredBy(rgen))' = UpTo(CoveredBy(rgen))
      /\ Replayed(CoveredBy(rgen))' = Replayed(CoveredBy(rgen))
      /\ KnownFrom(rgen)' = KnownFrom(rgen)
      /\ \A f \in Wal : FirstFrames(f, rwal[f].len)' = FirstFrames(f, rwal[f].len)
  BY SameFiles
<1>3. LogsFit'
  <2>1. \A f \in Wal : rwal'[f].len <= Frames(f)'
    BY <1>1, Still DEF LogsFit
  <2>2. "append" \notin broken' =>
          /\ \A f \in Wal : ~rwal'[f].torn /\ rwal'[f].twice = 0
          /\ walSeq # 0 => fileLen = rwal'[walSeq].len
          /\ UpTo(CoveredBy(rgen)) \subseteq seen
          /\ \A f \in Wal : FirstFrames(f, rwal[f].len) \subseteq seen
          /\ \A q \in seen, r \in Logged : FileOf(q) = FileOf(r) /\ r <= q => r \in seen
    BY <1>1, ReplTypes DEF LogsFit
  <2> QED BY <1>1, <1>2, <2>1, <2>2, Still DEF LogsFit
<1>4. SegmentsFit'
  BY SegmentsStay
<1>5. CollectionsFit'
  BY <1>1, <1>2, Still DEF CollectionsFit
<1>6. fetched' # 0 => walSeq' # 0 /\ fileLen' + fetched' <= Frames(walSeq)'
  BY <1>1, Still DEF PlaceFits, Frames
<1> QED BY <1>2, <1>3, <1>4, <1>5, <1>6

LEMMA CreateLogStep == ASSUME IInv, UNCHANGED primVars, CreateLog PROVE ReplInv'
<1>1. PrimInv /\ ReplType /\ PlaceFits /\ HeadsFit /\ FilesFit
  BY DEF IInv, ReplInv
<1>2. PICK h : h = IF rwal[walSeq].head = "none" THEN "bare" ELSE rwal[walSeq].head
  OBVIOUS
<1>3. /\ UNCHANGED <<rcur, rgen, rsegs, seen, walSeq, fileLen, head, fetched, broken, want, todo>>
      /\ at = "create" /\ at' = "magic"
      /\ rwal' = [rwal EXCEPT ![walSeq].head = h]
  BY <1>2 DEF CreateLog, TailUnchanged, NothingFails, Goes
<1>4. walSeq # 0 /\ walSeq \in Wal /\ head = "held"
  BY <1>1, <1>3, ReplTypes DEF HeadsFit
<1>5. /\ rwal \in [Wal -> [head : Heads, len : Nat, torn : BOOLEAN, twice : Nat]]
      /\ rwal[walSeq] \in [head : Heads, len : Nat, torn : BOOLEAN, twice : Nat] /\ h \in Heads
  BY <1>1, <1>2, <1>4 DEF ReplType, Heads
<1>6. /\ rwal' \in [Wal -> [head : Heads, len : Nat, torn : BOOLEAN, twice : Nat]]
      /\ rwal'[walSeq].head = h
      /\ \A f \in Wal : /\ rwal'[f].len = rwal[f].len /\ rwal'[f].twice = rwal[f].twice
                        /\ rwal'[f].torn = rwal[f].torn
                        /\ f # walSeq => rwal'[f].head = rwal[f].head
  BY <1>3, <1>4, <1>5
<1>7. /\ LogsFit' /\ SegmentsFit' /\ CollectionsFit'
      /\ UpTo(CoveredBy(rgen))' = UpTo(CoveredBy(rgen))
      /\ Replayed(CoveredBy(rgen))' = Replayed(CoveredBy(rgen))
      /\ fetched' # 0 => walSeq' # 0 /\ fileLen' + fetched' <= Frames(walSeq)'
  BY <1>3, <1>6, MagicTouches
<1>8. ReplType'
  BY <1>1, <1>3, <1>6, Still DEF ReplType, Asked
<1>9. PlaceFits'
  BY <1>1, <1>3, <1>7 DEF PlaceFits, Asked
<1>10. HeadsFit'
  <2>1. ASSUME NEW f \in Wal PROVE rwal'[f].head # "whole" <=> rwal[f].head # "whole"
    BY <1>2, <1>6
  <2> QED BY <1>1, <1>3, <1>4, <1>6, <2>1 DEF HeadsFit
<1>11. FilesFit'
  <2>1. broken = {} => h = "bare" /\ \A f \in Wal : rwal'[f].head = "bare" => f = walSeq
    BY <1>1, <1>2, <1>3, <1>6 DEF FilesFit
  <2> QED BY <1>1, <1>3, <1>6, <1>7, <2>1 DEF FilesFit
<1> QED BY <1>7, <1>8, <1>9, <1>10, <1>11 DEF ReplInv

\* What is appended of a magic leaves the frames alone.
LEMMA MagicAppendedIs ==
    ASSUME ReplType, walSeq \in Wal, rwal' = MagicAppended
    PROVE  /\ rwal' \in [Wal -> [head : Heads, len : Nat, torn : BOOLEAN, twice : Nat]]
           /\ \A f \in Wal : /\ rwal'[f].len = rwal[f].len /\ rwal'[f].twice = rwal[f].twice
                             /\ f # walSeq => rwal'[f] = rwal[f]
                             /\ rwal'[f].head # "whole" => rwal[f].head # "whole"
           /\ rwal'[walSeq].head = "whole" \/ rwal'[walSeq].torn
           /\ ~rwal[walSeq].torn /\ rwal[walSeq].head # "whole"
                => rwal'[walSeq].head = "whole" /\ ~rwal'[walSeq].torn
<1>1. PICK h : h = IF rwal[walSeq].torn THEN rwal[walSeq].head ELSE "whole"
  OBVIOUS
<1>2. PICK t : t = (rwal[walSeq].torn \/ rwal[walSeq].head = "whole")
  OBVIOUS
<1>3. /\ rwal \in [Wal -> [head : Heads, len : Nat, torn : BOOLEAN, twice : Nat]]
      /\ rwal[walSeq] \in [head : Heads, len : Nat, torn : BOOLEAN, twice : Nat]
  BY DEF ReplType
<1>4. h \in Heads /\ t \in BOOLEAN
  BY <1>1, <1>2, <1>3 DEF Heads
<1>5. rwal' = [rwal EXCEPT ![walSeq] = [rwal[walSeq] EXCEPT !.head = h, !.torn = t]]
  BY <1>1, <1>2, <1>3 DEF MagicAppended
<1>6. PICK log : log = [rwal[walSeq] EXCEPT !.head = h, !.torn = t]
  OBVIOUS
<1>7. /\ log \in [head : Heads, len : Nat, torn : BOOLEAN, twice : Nat]
      /\ log.head = h /\ log.torn = t
      /\ log.len = rwal[walSeq].len /\ log.twice = rwal[walSeq].twice
  BY <1>3, <1>4, <1>6
<1>8. /\ rwal' \in [Wal -> [head : Heads, len : Nat, torn : BOOLEAN, twice : Nat]]
      /\ rwal'[walSeq] = log
      /\ \A f \in Wal : f # walSeq => rwal'[f] = rwal[f]
  BY <1>3, <1>5, <1>6, <1>7
<1> QED BY <1>1, <1>2, <1>7, <1>8

LEMMA WriteMagicStep == ASSUME IInv, UNCHANGED primVars, WriteMagic PROVE ReplInv'
<1>1. PrimInv /\ ReplType /\ PlaceFits /\ HeadsFit /\ LogsFit /\ FilesFit
  BY DEF IInv, ReplInv
<1>2. /\ UNCHANGED <<rcur, rgen, rsegs, seen, walSeq, fileLen, fetched, broken>>
      /\ at = "magic" /\ head' = "written" /\ rwal' = MagicAppended
      /\ \/ fetched = 0 /\ at' = "idle" /\ want' = NoAnswer /\ todo' = {}
         \/ fetched # 0 /\ at' = "apply" /\ UNCHANGED <<want, todo>>
  BY DEF WriteMagic, NothingFails, EndPoll, Goes
<1>3. walSeq # 0 /\ walSeq \in Wal /\ head = "held"
  BY <1>1, <1>2, ReplTypes DEF HeadsFit
<1>4. /\ rwal' \in [Wal -> [head : Heads, len : Nat, torn : BOOLEAN, twice : Nat]]
      /\ \A f \in Wal : /\ rwal'[f].len = rwal[f].len /\ rwal'[f].twice = rwal[f].twice
                        /\ f # walSeq => rwal'[f] = rwal[f]
                        /\ rwal'[f].head # "whole" => rwal[f].head # "whole"
      /\ rwal'[walSeq].head = "whole" \/ rwal'[walSeq].torn
      /\ ~rwal[walSeq].torn /\ rwal[walSeq].head # "whole"
           => rwal'[walSeq].head = "whole" /\ ~rwal'[walSeq].torn
  BY <1>1, <1>2, <1>3, MagicAppendedIs
<1>5. "append" \notin broken => \A f \in Wal : rwal'[f].torn = rwal[f].torn
  <2>1. "append" \notin broken => ~rwal[walSeq].torn /\ rwal[walSeq].head # "whole"
    BY <1>1, <1>3 DEF LogsFit, HeadsFit
  <2>2. "append" \notin broken => rwal'[walSeq].torn = rwal[walSeq].torn
    <3>1. rwal[walSeq].torn \in BOOLEAN /\ rwal'[walSeq].torn \in BOOLEAN
      BY <1>1, <1>3, <1>4 DEF ReplType
    <3> QED BY <1>4, <2>1, <3>1
  <2> QED BY <1>4, <2>2
<1>6. /\ LogsFit' /\ SegmentsFit' /\ CollectionsFit'
      /\ UpTo(CoveredBy(rgen))' = UpTo(CoveredBy(rgen))
      /\ Replayed(CoveredBy(rgen))' = Replayed(CoveredBy(rgen))
      /\ fetched' # 0 => walSeq' # 0 /\ fileLen' + fetched' <= Frames(walSeq)'
  BY <1>2, <1>4, <1>5, MagicTouches
<1>7. ReplType'
  <2>1. want' \in [gen : 0..gen, seq : 0..active] /\ todo' \subseteq Seg
    BY <1>1, <1>2, ManifestTypes DEF NoAnswer, ReplType, PrimInv
  <2> QED BY <1>1, <1>2, <1>4, <2>1, Still DEF ReplType, Asked
<1>8. PlaceFits'
  BY <1>1, <1>2, <1>6 DEF PlaceFits, Asked
<1>9. HeadsFit'
  BY <1>1, <1>2, <1>3, <1>4 DEF HeadsFit
<1>10. FilesFit'
  <2>1. ASSUME broken = {} PROVE \A f \in Wal : rwal'[f].head # "bare"
    <3>1. rwal[walSeq].head = "bare" /\ ~rwal[walSeq].torn
          /\ \A f \in Wal : rwal[f].head = "bare" => f = walSeq
      BY <1>1, <1>2, <1>3, <2>1 DEF FilesFit, LogsFit
    <3>2. rwal'[walSeq].head = "whole"
      BY <1>4, <3>1
    <3> QED BY <1>4, <3>1, <3>2
  <2> QED BY <1>1, <1>2, <1>6, <2>1 DEF FilesFit
<1> QED BY <1>6, <1>7, <1>8, <1>9, <1>10 DEF ReplInv

LEMMA MagicFailsStep == ASSUME IInv, UNCHANGED primVars, MagicFails PROVE ReplInv'
<1>1. PrimInv /\ ReplType /\ PlaceFits /\ HeadsFit
  BY DEF IInv, ReplInv
<1>2. /\ UNCHANGED <<rcur, rgen, rsegs, seen, walSeq, fileLen, head, fetched>>
      /\ at \in {"create", "magic"} /\ at' = "idle" /\ want' = NoAnswer /\ todo' = {}
      /\ broken' = broken \cup {"append"}
      /\ \/ UNCHANGED rwal
         \/ rwal' = [rwal EXCEPT ![walSeq].torn = TRUE]
         \/ rwal' = MagicAppended
  BY DEF MagicFails, TailUnchanged, EndPoll
<1>3. walSeq # 0 /\ walSeq \in Wal /\ head = "held"
  BY <1>1, <1>2, ReplTypes DEF HeadsFit
<1>4. rwal \in [Wal -> [head : Heads, len : Nat, torn : BOOLEAN, twice : Nat]]
  BY <1>1 DEF ReplType
<1>5. /\ rwal' \in [Wal -> [head : Heads, len : Nat, torn : BOOLEAN, twice : Nat]]
      /\ \A f \in Wal : /\ rwal'[f].len = rwal[f].len /\ rwal'[f].twice = rwal[f].twice
                        /\ rwal'[f].head # "whole" => rwal[f].head # "whole"
  <2>1. CASE UNCHANGED rwal
    BY <1>4, <2>1
  <2>2. CASE rwal' = [rwal EXCEPT ![walSeq].torn = TRUE]
    <3>1. rwal[walSeq] \in [head : Heads, len : Nat, torn : BOOLEAN, twice : Nat]
      BY <1>3, <1>4
    <3>2. rwal' \in [Wal -> [head : Heads, len : Nat, torn : BOOLEAN, twice : Nat]]
      BY <1>3, <1>4, <2>2, <3>1
    <3>3. \A f \in Wal : /\ rwal'[f].len = rwal[f].len /\ rwal'[f].twice = rwal[f].twice
                         /\ rwal'[f].head = rwal[f].head
      BY <1>3, <1>4, <2>2, <3>1
    <3> QED BY <3>2, <3>3
  <2>3. CASE rwal' = MagicAppended
    BY <1>1, <1>3, <2>3, MagicAppendedIs
  <2> QED BY <1>2, <2>1, <2>2, <2>3
<1>6. /\ LogsFit' /\ SegmentsFit' /\ CollectionsFit'
      /\ fetched' # 0 => walSeq' # 0 /\ fileLen' + fetched' <= Frames(walSeq)'
  BY <1>2, <1>5, MagicTouches
<1>7. ReplType'
  <2>1. want' \in [gen : 0..gen, seq : 0..active]
    BY <1>1, <1>2, ManifestTypes DEF NoAnswer, PrimInv
  <2> QED BY <1>1, <1>2, <1>5, <2>1, Still DEF ReplType
<1>8. PlaceFits'
  BY <1>2, <1>6 DEF PlaceFits, Asked
<1>9. HeadsFit'
  BY <1>1, <1>2, <1>3, <1>5 DEF HeadsFit
<1>10. FilesFit'
  BY <1>2 DEF FilesFit
<1> QED BY <1>6, <1>7, <1>8, <1>9, <1>10 DEF ReplInv

\* What is behind the local file in a log is the next to be fetched.
LEMMA BeforeFetched ==
    ASSUME IInv, at \in {"apply", "append"}, "append" \notin broken,
           NEW q \in FetchedRecords, NEW r \in Logged, FileOf(r) = FileOf(q), r <= q
    PROVE  r \in seen \cup FetchedRecords
<1>1. PrimType /\ RecordsOrdered /\ ReplType /\ PlaceFits /\ LogsFit /\ PrimInv
  BY DEF IInv, ReplInv, PrimInv
<1>2. walSeq # 0 /\ walSeq \in Wal /\ walSeq \in Int /\ fileLen \in Nat /\ fetched \in Nat
      /\ fileLen + fetched <= Frames(walSeq) /\ Frames(walSeq) \in Nat
  BY <1>1, ReplTypes, FramesAre DEF PlaceFits
<1>3. /\ Frame(walSeq, fileLen) = Frame(walSeq, 0) + fileLen
      /\ Frame(walSeq, fileLen + fetched) = Frame(walSeq, 0) + (fileLen + fetched)
      /\ Frame(walSeq, 0) \in Nat
  BY <1>1, <1>2, FramesAre
<1>4. q \in Logged /\ FileOf(q) = walSeq /\ q <= Frame(walSeq, fileLen + fetched)
  BY <1>1, FetchedAre
<1>5. Logged \subseteq Int
  BY <1>1, HistTypes
<1>6. CASE r <= Frame(walSeq, fileLen)
  <2>1. fileLen = rwal[walSeq].len /\ FirstFrames(walSeq, rwal[walSeq].len) \subseteq seen
    BY <1>1, <1>2 DEF LogsFit
  <2>2. fileLen \in 0..Frames(walSeq)
    BY <1>2
  <2>3. r \in FirstFrames(walSeq, fileLen)
    BY <1>1, <1>2, <1>4, <1>6, <2>2, FirstFramesAre
  <2> QED BY <2>1, <2>3
<1>7. CASE Frame(walSeq, fileLen) < r
  <2>1. r <= Frame(walSeq, fileLen + fetched)
    BY <1>2, <1>3, <1>4, <1>5
  <2> QED BY <1>1, <1>4, <1>7, <2>1, FetchedAre DEF PlaceFits
<1> QED BY <1>2, <1>3, <1>5, <1>6, <1>7

LEMMA ApplyFramesStep == ASSUME IInv, UNCHANGED primVars, ApplyFrames PROVE ReplInv'
<1>1. PrimInv /\ PrimType /\ RecordsOrdered
      /\ ReplType /\ PlaceFits /\ HeadsFit /\ LogsFit /\ FilesFit /\ CollectionsFit
  BY DEF IInv, ReplInv, PrimInv
<1>2. /\ UNCHANGED <<rcur, rgen, rsegs, rwal, walSeq, fileLen, head, fetched, broken, want, todo>>
      /\ at = "apply" /\ at' = "append" /\ seen' = seen \cup FetchedRecords
      /\ Applicable = FetchedRecords
  BY DEF ApplyFrames, TailUnchanged, NothingFails, Goes
<1>3. FetchedRecords' = FetchedRecords
  BY <1>1, <1>2, Still, FetchedKept
<1>4. FetchedRecords \subseteq Logged
  BY <1>1, FetchedAre
<1>5. ReplType'
  BY <1>1, <1>2, <1>4, Still DEF ReplType, Asked
<1>6. PlaceFits'
  BY <1>1, <1>2, Still DEF PlaceFits, Asked, Frames
<1>7. SegmentsFit'
  BY <1>2, SegmentsStay
<1>8. LogsFit'
  <2>1. ASSUME "append" \notin broken, NEW q \in seen', NEW r \in Logged, FileOf(q) = FileOf(r), r <= q
        PROVE  r \in seen'
    <3>1. CASE q \in seen
      BY <1>1, <1>2, <2>1, <3>1 DEF LogsFit
    <3>2. CASE q \in FetchedRecords
      BY <1>2, <2>1, <3>2, BeforeFetched
    <3> QED BY <1>2, <2>1, <3>1, <3>2
  <2>2. "append" \notin broken' =>
          \A q \in seen', r \in Logged' : FileOf(q)' = FileOf(r)' /\ r <= q => r \in seen'
    BY <1>1, <1>2, <2>1, Still
  <2>3. \A f \in Wal : rwal'[f].len <= Frames(f)'
    BY <1>1, <1>2, Still DEF LogsFit
  <2>4. "append" \notin broken' =>
          /\ \A f \in Wal : ~rwal'[f].torn /\ rwal'[f].twice = 0
          /\ walSeq' # 0 => fileLen' = rwal'[walSeq'].len
          /\ UpTo(CoveredBy(rgen))' \subseteq seen'
          /\ \A f \in Wal : FirstFrames(f, rwal[f].len)' \subseteq seen'
          /\ FetchedRecords' \subseteq seen'
    <3>1. "append" \notin broken =>
            /\ \A f \in Wal : ~rwal[f].torn /\ rwal[f].twice = 0
            /\ walSeq # 0 => fileLen = rwal[walSeq].len
            /\ UpTo(CoveredBy(rgen)) \subseteq seen
            /\ \A f \in Wal : FirstFrames(f, rwal[f].len) \subseteq seen
      BY <1>1 DEF LogsFit
    <3>2. seen \subseteq seen'
      BY <1>2
    <3> QED BY <1>2, <1>3, <3>1, <3>2, SameFiles
  <2> QED BY <2>2, <2>3, <2>4 DEF LogsFit
<1>9. FilesFit'
  BY <1>1, <1>2, <1>3, SameFiles DEF FilesFit
<1>10. CollectionsFit'
  <2>1. ASSUME broken = {}, NEW r \in FetchedRecords
        PROVE  hist[r].drop \/ hist[r].col \in KnownFrom(rgen) \cup FetchedRecords
    <3>1. PICK c : c = hist[r].col
      OBVIOUS
    <3>2. r \in Int /\ seen \subseteq Logged
      BY <1>1, <1>4, HistTypes DEF ReplType
    <3>3. hist[r].drop \/ c \in Known \cup FetchedRecords
      BY <1>2, <3>1, <3>2 DEF Applicable
    <3>4. seen = UpTo(CoveredBy(rgen)) \cup Replayed(CoveredBy(rgen))
      BY <1>1, <1>2, <2>1 DEF FilesFit
    <3>5. c \in Known => c \in KnownFrom(rgen)
      <4>1. c \in Known => c \in manifests[rgen].cols \/ (c \in seen /\ FileOf(c) > CoveredBy(rgen))
        BY DEF Known, CoveredBy
      <4>2. c \in seen /\ FileOf(c) > CoveredBy(rgen) => c \notin UpTo(CoveredBy(rgen))
        <5>1. CoveredBy(rgen) \in Nat /\ \A q \in Logged : FileOf(q) \in Nat
          BY <1>1, HistTypes, ReplTypes
        <5> QED BY <3>2, <5>1 DEF UpTo
      <4> QED BY <3>4, <4>1, <4>2 DEF KnownFrom
    <3> QED BY <3>1, <3>3, <3>5
  <2>2. hist' = hist
    BY <1>1, Still
  <2>3. /\ Replayed(CoveredBy(rgen))' = Replayed(CoveredBy(rgen))
        /\ KnownFrom(rgen)' = KnownFrom(rgen)
    BY <1>2, SameFiles
  <2> QED BY <1>1, <1>2, <1>3, <2>1, <2>2, <2>3, Still DEF CollectionsFit
<1>11. HeadsFit'
  BY <1>1, <1>2 DEF HeadsFit
<1> QED BY <1>5, <1>6, <1>7, <1>8, <1>9, <1>10, <1>11 DEF ReplInv

LEMMA ApplyFailsStep == ASSUME IInv, UNCHANGED primVars, ApplyFails PROVE ReplInv'
<1>1. PrimInv /\ PrimType /\ RecordsOrdered /\ ReplType /\ PlaceFits /\ HeadsFit /\ LogsFit
  BY DEF IInv, ReplInv, PrimInv
<1>2. /\ UNCHANGED <<rcur, rgen, rsegs, rwal, walSeq, fileLen, head, fetched>>
      /\ at = "apply" /\ at' = "idle" /\ want' = NoAnswer /\ todo' = {}
      /\ seen' = seen \cup Applicable /\ broken' = broken \cup {"apply"}
  BY DEF ApplyFails, TailUnchanged, EndPoll
<1>3. FetchedRecords \subseteq Logged /\ Applicable \subseteq FetchedRecords
  BY <1>1, FetchedAre DEF Applicable
<1>4. ReplType'
  <2>1. want' \in [gen : 0..gen, seq : 0..active]
    BY <1>1, <1>2, ManifestTypes DEF NoAnswer
  <2> QED BY <1>1, <1>2, <1>3, <2>1, Still DEF ReplType
<1>5. PlaceFits'
  BY <1>1, <1>2, Still DEF PlaceFits, Asked, Frames
<1>6. SegmentsFit'
  BY <1>2, SegmentsStay
<1>7. LogsFit'
  <2>1. ASSUME "append" \notin broken, NEW q \in seen', NEW r \in Logged, FileOf(q) = FileOf(r), r <= q
        PROVE  r \in seen'
    <3>1. CASE q \in seen
      BY <1>1, <1>2, <2>1, <3>1 DEF LogsFit
    <3>2. CASE q \in Applicable
      <4>1. r \in seen \/ r \in FetchedRecords
        BY <1>2, <1>3, <2>1, <3>2, BeforeFetched
      <4>2. ASSUME r \in FetchedRecords PROVE r \in Applicable
        <5>1. FetchedRecords \subseteq Int /\ q \in Int /\ r \in Int
          BY <1>1, <1>3, <3>2, <4>2, HistTypes
        <5>2. \A p \in FetchedRecords : p <= r => p <= q
          BY <2>1, <5>1
        <5> QED BY <3>2, <4>2, <5>2 DEF Applicable
      <4> QED BY <1>2, <4>1, <4>2
    <3> QED BY <1>2, <2>1, <3>1, <3>2
  <2>2. "append" \notin broken' =>
          \A q \in seen', r \in Logged' : FileOf(q)' = FileOf(r)' /\ r <= q => r \in seen'
    BY <1>1, <1>2, <2>1, Still
  <2>3. \A f \in Wal : rwal'[f].len <= Frames(f)'
    BY <1>1, <1>2, Still DEF LogsFit
  <2>4. "append" \notin broken' =>
          /\ \A f \in Wal : ~rwal'[f].torn /\ rwal'[f].twice = 0
          /\ walSeq' # 0 => fileLen' = rwal'[walSeq'].len
          /\ UpTo(CoveredBy(rgen))' \subseteq seen'
          /\ \A f \in Wal : FirstFrames(f, rwal[f].len)' \subseteq seen'
    <3>1. "append" \notin broken =>
            /\ \A f \in Wal : ~rwal[f].torn /\ rwal[f].twice = 0
            /\ walSeq # 0 => fileLen = rwal[walSeq].len
            /\ UpTo(CoveredBy(rgen)) \subseteq seen
            /\ \A f \in Wal : FirstFrames(f, rwal[f].len) \subseteq seen
      BY <1>1 DEF LogsFit
    <3>2. seen \subseteq seen' /\ broken \subseteq broken'
      BY <1>2
    <3> QED BY <1>2, <3>1, <3>2, SameFiles
  <2>5. at' # "append"
    BY <1>2
  <2> QED BY <2>2, <2>3, <2>4, <2>5 DEF LogsFit
<1>8. FilesFit' /\ CollectionsFit'
  BY <1>2 DEF FilesFit, CollectionsFit
<1>9. HeadsFit'
  BY <1>1, <1>2 DEF HeadsFit
<1> QED BY <1>4, <1>5, <1>6, <1>7, <1>8, <1>9 DEF ReplInv

LEMMA AppendFramesStep == ASSUME IInv, UNCHANGED primVars, AppendFrames PROVE ReplInv'
<1>1. PrimInv /\ PrimType /\ RecordsOrdered /\ ReplType /\ PlaceFits
      /\ HeadsFit /\ LogsFit /\ FilesFit /\ CollectionsFit
  BY DEF IInv, ReplInv, PrimInv
<1>2. PICK n : n = IF rwal[walSeq].torn THEN rwal[walSeq].len ELSE fileLen + fetched
  OBVIOUS
<1>3. /\ UNCHANGED <<rcur, rgen, rsegs, seen, walSeq, head, broken>>
      /\ at = "append" /\ at' = "idle" /\ want' = NoAnswer /\ todo' = {}
      /\ rwal' = [rwal EXCEPT ![walSeq].len = n]
      /\ fileLen' = fileLen + fetched /\ fetched' = 0
  BY <1>2 DEF AppendFrames, NothingFails, EndPoll
<1>4. /\ walSeq # 0 /\ walSeq \in Wal /\ walSeq \in Int /\ fileLen \in Nat /\ fetched \in Nat
      /\ fileLen + fetched <= Frames(walSeq) /\ Frames(walSeq) \in Nat
      /\ Wal \subseteq Nat /\ CoveredBy(rgen) \in Nat /\ fetched # 0
  BY <1>1, <1>3, ReplTypes, FramesAre DEF PlaceFits
<1>5. /\ \A f \in Wal : rwal[f] \in [head : Heads, len : Nat, torn : BOOLEAN, twice : Nat]
      /\ \A f \in Wal : rwal[f].len \in Nat /\ rwal[f].len <= Frames(f) /\ Frames(f) \in Nat
  <2>1. \A f \in Wal : rwal[f] \in [head : Heads, len : Nat, torn : BOOLEAN, twice : Nat]
    BY <1>1 DEF ReplType
  <2>2. \A f \in Wal : Frames(f) \in Nat
    BY <1>1, <1>4, FramesAre
  <2> QED BY <1>1, <2>1, <2>2 DEF LogsFit
<1>6. n \in Nat /\ n <= Frames(walSeq) /\ n \in 0..Frames(walSeq)
  <2>1. CASE rwal[walSeq].torn
    BY <1>2, <1>4, <1>5, <2>1
  <2>2. CASE ~rwal[walSeq].torn
    BY <1>2, <1>4, <1>5, <2>2
  <2> QED BY <2>1, <2>2
<1>7. /\ \A f \in Wal : f # walSeq => rwal'[f] = rwal[f]
      /\ rwal'[walSeq] = [rwal[walSeq] EXCEPT !.len = n]
  <2>1. rwal \in [Wal -> [head : Heads, len : Nat, torn : BOOLEAN, twice : Nat]]
    BY <1>1 DEF ReplType
  <2> QED BY <1>3, <1>4, <2>1
<1>8. rwal'[walSeq].len = n /\ rwal'[walSeq].torn = rwal[walSeq].torn
      /\ rwal'[walSeq].twice = rwal[walSeq].twice /\ rwal'[walSeq].head = rwal[walSeq].head
  BY <1>4, <1>5, <1>7
<1>9. ReplType'
  <2>1. want' \in [gen : 0..gen, seq : 0..active]
    BY <1>1, <1>3, ManifestTypes DEF NoAnswer
  <2>2. rwal' \in [Wal -> [head : Heads, len : Nat, torn : BOOLEAN, twice : Nat]]
    <3>1. [rwal[walSeq] EXCEPT !.len = n] \in [head : Heads, len : Nat, torn : BOOLEAN, twice : Nat]
      BY <1>4, <1>5, <1>6
    <3>2. rwal \in [Wal -> [head : Heads, len : Nat, torn : BOOLEAN, twice : Nat]]
      BY <1>1 DEF ReplType
    <3> QED BY <1>3, <3>1, <3>2
  <2>3. fileLen' \in Nat /\ fetched' \in Nat
    BY <1>3, <1>4
  <2> QED BY <1>1, <1>3, <2>1, <2>2, <2>3, Still DEF ReplType
<1>10. PlaceFits'
  BY <1>3 DEF PlaceFits, Asked
<1>11. SegmentsFit'
  BY <1>3, SegmentsStay
<1>12. \A r : r \in FirstFrames(walSeq, n) <=> r \in Logged /\ FileOf(r) = walSeq /\ r <= Frame(walSeq, n)
  BY <1>1, <1>4, <1>6, FirstFramesAre
<1>13. /\ CoveredBy(rgen)' = CoveredBy(rgen) /\ UpTo(CoveredBy(rgen))' = UpTo(CoveredBy(rgen))
  <2>1. CoveredBy(rgen)' = CoveredBy(rgen)
    BY <1>1, <1>3, Still DEF CoveredBy
  <2> QED BY <1>1, <2>1, Still DEF UpTo
<1>14. ASSUME "append" \notin broken
       PROVE  /\ n = fileLen + fetched
              /\ rwal[walSeq].len = fileLen
              /\ \A r : r \in FirstFrames(walSeq, n)
                         <=> r \in FirstFrames(walSeq, fileLen) \/ r \in FetchedRecords
  <2>1. ~rwal[walSeq].torn /\ rwal[walSeq].len = fileLen
    BY <1>1, <1>4, <1>14 DEF LogsFit
  <2>2. n = fileLen + fetched
    BY <1>2, <2>1
  <2>3. fileLen \in 0..Frames(walSeq)
    BY <1>4
  <2>4. \A r : r \in FirstFrames(walSeq, fileLen)
              <=> r \in Logged /\ FileOf(r) = walSeq /\ r <= Frame(walSeq, fileLen)
    BY <1>1, <1>4, <2>3, FirstFramesAre
  <2>5. \A r : r \in FetchedRecords
              <=> /\ r \in Logged /\ FileOf(r) = walSeq
                  /\ Frame(walSeq, fileLen) < r /\ r <= Frame(walSeq, fileLen + fetched)
    BY <1>1, <1>4, FetchedAre
  <2>6. /\ Frame(walSeq, fileLen) \in Int /\ Logged \subseteq Int
        /\ Frame(walSeq, fileLen + fetched) \in Int
        /\ Frame(walSeq, fileLen) <= Frame(walSeq, fileLen + fetched)
    <3>1. /\ Frame(walSeq, fileLen) = Frame(walSeq, 0) + fileLen
          /\ Frame(walSeq, fileLen + fetched) = Frame(walSeq, 0) + (fileLen + fetched)
          /\ Frame(walSeq, 0) \in Nat
      BY <1>1, <1>4, FramesAre
    <3>2. Logged \subseteq Int
      BY <1>1, HistTypes
    <3> QED BY <1>4, <3>1, <3>2
  <2>7. PICK a : a = Frame(walSeq, fileLen)
    OBVIOUS
  <2>8. PICK b : b = Frame(walSeq, fileLen + fetched)
    OBVIOUS
  <2>9. \A r \in Logged : r <= b <=> r <= a \/ (a < r /\ r <= b)
    BY <2>6, <2>7, <2>8
  <2>10. \A r : r \in FirstFrames(walSeq, n) <=> r \in Logged /\ FileOf(r) = walSeq /\ r <= b
    BY <1>12, <2>2, <2>8, Zenon
  <2>11. \A r : r \in FirstFrames(walSeq, n)
                         <=> r \in FirstFrames(walSeq, fileLen) \/ r \in FetchedRecords
    BY <2>4, <2>5, <2>7, <2>8, <2>9, <2>10, Zenon
  <2> QED BY <2>1, <2>2, <2>11
<1>15. LogsFit'
  <2>1. \A f \in Wal : rwal'[f].len <= Frames(f)'
    <3>1. ASSUME NEW f \in Wal PROVE rwal'[f].len <= Frames(f)
      BY <1>5, <1>6, <1>7, <1>8
    <3>2. \A f \in Wal : Frames(f)' = Frames(f)
      BY <1>1, Still
    <3> QED BY <3>1, <3>2
  <2>2. ASSUME "append" \notin broken
        PROVE  /\ \A f \in Wal : ~rwal'[f].torn /\ rwal'[f].twice = 0
               /\ walSeq' # 0 => fileLen' = rwal'[walSeq'].len
               /\ UpTo(CoveredBy(rgen)) \subseteq seen
               /\ \A f \in Wal : {Frame(f, i)' : i \in 1..rwal'[f].len} \subseteq seen
               /\ \A q \in seen, r \in Logged : FileOf(q) = FileOf(r) /\ r <= q => r \in seen
    <3>1. \A f \in Wal : ~rwal'[f].torn /\ rwal'[f].twice = 0
      BY <1>1, <1>7, <1>8, <2>2 DEF LogsFit
    <3>2. fileLen' = rwal'[walSeq'].len
      BY <1>3, <1>8, <1>14, <2>2
    <3>3. ASSUME NEW f \in Wal PROVE {Frame(f, i)' : i \in 1..rwal'[f].len} \subseteq seen
      <4>1. {Frame(f, i)' : i \in 1..rwal'[f].len} = FirstFrames(f, rwal'[f].len)
        BY <1>1, Still DEF FirstFrames
      <4>2. CASE f # walSeq
        BY <1>1, <1>7, <2>2, <4>1, <4>2 DEF LogsFit
      <4>3. CASE f = walSeq
        <5>1. FirstFrames(walSeq, fileLen) \subseteq seen /\ FetchedRecords \subseteq seen
          <6>1. FirstFrames(walSeq, rwal[walSeq].len) \subseteq seen /\ FetchedRecords \subseteq seen
            BY <1>1, <1>3, <1>4, <2>2 DEF LogsFit
          <6> QED BY <1>14, <2>2, <6>1
        <5>2. FirstFrames(walSeq, n) \subseteq seen
          BY <1>14, <2>2, <5>1
        <5> QED BY <1>8, <4>1, <4>3, <5>2
      <4> QED BY <4>2, <4>3
    <3> QED BY <1>1, <2>2, <3>1, <3>2, <3>3 DEF LogsFit
  <2>3. at' # "append"
    BY <1>3
  <2> QED BY <1>1, <1>3, <1>13, <2>1, <2>2, <2>3, Still DEF LogsFit, FirstFrames
<1>16. ASSUME broken = {}
       PROVE  \A r : r \in Replayed(CoveredBy(rgen))'
                <=> \/ r \in Replayed(CoveredBy(rgen))
                    \/ r \in FetchedRecords /\ FileOf(r) > CoveredBy(rgen)
  <2>1. PICK w : w = CoveredBy(rgen)
    OBVIOUS
  <2>2. w \in Nat /\ \A f \in (w + 1)..MaxWal : f \in Wal
    BY <1>4, <2>1, PrimaryAssumption DEF Wal
  <2>3. Replayed(CoveredBy(rgen))' = UNION {FirstFrames(f, rwal'[f].len) : f \in (w + 1)..MaxWal}
    <3>1. \A f \in (w + 1)..MaxWal :
            {Frame(f, i)' : i \in 1..rwal'[f].len} = FirstFrames(f, rwal'[f].len)
      BY <1>1, Still DEF FirstFrames
    <3> QED BY <1>13, <2>1, <3>1 DEF Replayed
  <2>4. Replayed(CoveredBy(rgen)) = UNION {FirstFrames(f, rwal[f].len) : f \in (w + 1)..MaxWal}
    BY <2>1 DEF Replayed, FirstFrames
  <2>5. \A f \in (w + 1)..MaxWal : f # walSeq =>
          FirstFrames(f, rwal'[f].len) = FirstFrames(f, rwal[f].len)
    BY <1>7, <2>2
  <2>6. /\ rwal'[walSeq].len = n /\ rwal[walSeq].len = fileLen
        /\ \A r : r \in FirstFrames(walSeq, n)
                   <=> r \in FirstFrames(walSeq, fileLen) \/ r \in FetchedRecords
    <3>1. "append" \notin broken
      BY <1>16
    <3> QED BY <1>8, <1>14, <3>1
  <2>7. /\ \A r \in FetchedRecords : FileOf(r) = walSeq
        /\ walSeq > w <=> walSeq \in (w + 1)..MaxWal
    <3>1. walSeq \in 1..MaxWal /\ MaxWal \in Nat
      BY <1>4, PrimaryAssumption DEF Wal
    <3> QED BY <1>1, <2>2, <3>1, FetchedAre
  <2>8. ASSUME NEW r, r \in Replayed(CoveredBy(rgen))'
        PROVE  r \in Replayed(CoveredBy(rgen)) \/ (r \in FetchedRecords /\ FileOf(r) > w)
    <3>1. PICK f \in (w + 1)..MaxWal : r \in FirstFrames(f, rwal'[f].len)
      BY <2>3, <2>8
    <3>2. CASE f # walSeq
      BY <2>4, <2>5, <3>1, <3>2
    <3>3. CASE f = walSeq
      <4>1. r \in FirstFrames(f, rwal[f].len) \/ r \in FetchedRecords
        BY <2>6, <3>1, <3>3
      <4> QED BY <2>4, <2>7, <3>1, <3>3, <4>1
    <3> QED BY <3>2, <3>3
  <2>9. ASSUME NEW r, r \in Replayed(CoveredBy(rgen)) \/ (r \in FetchedRecords /\ FileOf(r) > w)
        PROVE  r \in Replayed(CoveredBy(rgen))'
    <3>1. CASE r \in FetchedRecords /\ FileOf(r) > w
      <4>1. walSeq \in (w + 1)..MaxWal /\ r \in FirstFrames(walSeq, rwal'[walSeq].len)
        BY <2>6, <2>7, <3>1
      <4> QED BY <2>3, <4>1
    <3>2. CASE r \in Replayed(CoveredBy(rgen))
      <4>1. PICK f \in (w + 1)..MaxWal : r \in FirstFrames(f, rwal[f].len)
        BY <2>4, <3>2
      <4>2. r \in FirstFrames(f, rwal'[f].len)
        BY <2>5, <2>6, <4>1
      <4> QED BY <2>3, <4>1, <4>2
    <3> QED BY <2>9, <3>1, <3>2
  <2> QED BY <2>1, <2>8, <2>9
<1>17. FilesFit'
  <2>1. ASSUME broken = {}
        PROVE  seen = UpTo(CoveredBy(rgen)) \cup Replayed(CoveredBy(rgen))'
    <3>1. seen = UpTo(CoveredBy(rgen)) \cup Replayed(CoveredBy(rgen)) \cup FetchedRecords
      BY <1>1, <1>3, <2>1 DEF FilesFit
    <3>2. ASSUME NEW r \in FetchedRecords
          PROVE  r \in UpTo(CoveredBy(rgen)) \/ FileOf(r) > CoveredBy(rgen)
      <4>1. r \in Logged /\ FileOf(r) = walSeq
        BY <1>1, FetchedAre
      <4>2. walSeq > CoveredBy(rgen) \/ walSeq <= CoveredBy(rgen)
        BY <1>4
      <4> QED BY <4>1, <4>2 DEF UpTo
    <3>3. ASSUME NEW r PROVE r \in seen <=> r \in UpTo(CoveredBy(rgen)) \/ r \in Replayed(CoveredBy(rgen))'
      <4>1. r \in Replayed(CoveredBy(rgen))' <=> \/ r \in Replayed(CoveredBy(rgen))
                                                 \/ r \in FetchedRecords /\ FileOf(r) > CoveredBy(rgen)
        BY <1>16, <2>1
      <4> QED BY <3>1, <3>2, <4>1
    <3> QED BY <3>3
  <2>2. ASSUME broken = {} PROVE /\ head # "held" /\ \A f \in Wal : rwal'[f].head # "bare"
    <3>1. head # "held" /\ \A f \in Wal : rwal[f].head # "bare"
      BY <1>1, <1>3, <2>2 DEF FilesFit
    <3> QED BY <1>7, <1>8, <3>1
  <2> QED BY <1>3, <1>13, <2>1, <2>2 DEF FilesFit
<1>18. CollectionsFit'
  <2>1. ASSUME broken = {}, ~DropRaced, NEW r, r \in Replayed(CoveredBy(rgen))'
        PROVE  hist[r].drop \/ hist[r].col \in manifests[rgen].cols \cup Replayed(CoveredBy(rgen))'
    <3>1. /\ \A q \in Replayed(CoveredBy(rgen)) : hist[q].drop \/ hist[q].col \in KnownFrom(rgen)
          /\ \A q \in FetchedRecords : hist[q].drop \/ hist[q].col \in KnownFrom(rgen) \cup FetchedRecords
      BY <1>1, <1>3, <2>1 DEF CollectionsFit
    <3>2. \A q : q \in Replayed(CoveredBy(rgen))' <=> \/ q \in Replayed(CoveredBy(rgen))
                                                      \/ q \in FetchedRecords /\ FileOf(q) > CoveredBy(rgen)
      BY <1>16, <2>1
    <3>3. \A q \in FetchedRecords : FileOf(q) = walSeq
      BY <1>1, FetchedAre
    <3>4. hist[r].col \in FetchedRecords => \/ hist[r].col \in Replayed(CoveredBy(rgen))'
                                            \/ r \in Replayed(CoveredBy(rgen))
      BY <2>1, <3>2, <3>3
    <3> QED BY <2>1, <3>1, <3>2, <3>4 DEF KnownFrom
  <2>2. KnownFrom(rgen)' = manifests[rgen].cols \cup Replayed(CoveredBy(rgen))'
    BY <1>1, <1>3, Still DEF KnownFrom
  <2>3. broken = {} /\ ~DropRaced => rcur = rgen
    BY <1>1, <1>3 DEF CollectionsFit
  <2>4. hist' = hist /\ (DropRaced' <=> DropRaced)
    BY <1>1, Still
  <2> QED BY <1>3, <2>1, <2>2, <2>3, <2>4 DEF CollectionsFit
<1>19. HeadsFit'
  <2>1. head = "written" /\ (rwal[walSeq].head = "whole" \/ rwal[walSeq].torn)
    BY <1>1, <1>3 DEF HeadsFit
  <2>2. rwal[walSeq].head # "whole" => n = 0 /\ rwal[walSeq].twice = 0
    BY <1>1, <1>2, <1>4, <2>1 DEF HeadsFit
  <2>3. \A f \in Wal : rwal'[f].head # "whole" => rwal'[f].len = 0 /\ rwal'[f].twice = 0
    BY <1>1, <1>7, <1>8, <2>2 DEF HeadsFit
  <2> QED BY <1>3, <1>4, <1>8, <2>1, <2>3 DEF HeadsFit
<1> QED BY <1>9, <1>10, <1>11, <1>15, <1>17, <1>18, <1>19 DEF ReplInv

LEMMA AppendFailsStep == ASSUME IInv, UNCHANGED primVars, AppendFails PROVE ReplInv'
<1>1. PrimInv /\ PrimType /\ RecordsOrdered /\ ReplType /\ PlaceFits /\ HeadsFit /\ LogsFit
  BY DEF IInv, ReplInv, PrimInv
<1>2. /\ UNCHANGED <<rcur, rgen, rsegs, seen, walSeq, fileLen, head, fetched>>
      /\ at = "append" /\ at' = "idle" /\ want' = NoAnswer /\ todo' = {}
      /\ broken' = broken \cup {"append"}
      /\ \/ UNCHANGED rwal
         \/ rwal' = [rwal EXCEPT ![walSeq].torn = TRUE]
         \/ /\ ~rwal[walSeq].torn
            /\ rwal' = [rwal EXCEPT ![walSeq].len = fileLen + fetched, ![walSeq].twice = @ + fetched]
  BY DEF AppendFails, TailUnchanged, EndPoll
<1>3. /\ walSeq # 0 /\ walSeq \in Wal /\ walSeq \in Int /\ fileLen \in Nat /\ fetched \in Nat
      /\ fileLen + fetched <= Frames(walSeq) /\ Frames(walSeq) \in Nat /\ Wal \subseteq Nat
  BY <1>1, <1>2, ReplTypes, FramesAre DEF PlaceFits
<1>4. /\ rwal \in [Wal -> [head : Heads, len : Nat, torn : BOOLEAN, twice : Nat]]
      /\ rwal[walSeq] \in [head : Heads, len : Nat, torn : BOOLEAN, twice : Nat]
      /\ \A f \in Wal : rwal[f].len <= Frames(f)
  BY <1>1, <1>3 DEF ReplType, LogsFit
<1>5. /\ head = "written" /\ (rwal[walSeq].head = "whole" \/ rwal[walSeq].torn)
      /\ \A f \in Wal : rwal[f].head # "whole" => rwal[f].len = 0 /\ rwal[f].twice = 0
  BY <1>1, <1>2, <1>3 DEF HeadsFit
<1>6. /\ rwal' \in [Wal -> [head : Heads, len : Nat, torn : BOOLEAN, twice : Nat]]
      /\ \A f \in Wal : rwal'[f].len <= Frames(f)
      /\ \A f \in Wal : rwal'[f].head # "whole" => rwal'[f].len = 0 /\ rwal'[f].twice = 0
      /\ rwal'[walSeq].head = "whole" \/ rwal'[walSeq].torn
  <2>1. CASE UNCHANGED rwal
    BY <1>4, <1>5, <2>1
  <2>2. CASE rwal' = [rwal EXCEPT ![walSeq].torn = TRUE]
    <3>1. rwal' \in [Wal -> [head : Heads, len : Nat, torn : BOOLEAN, twice : Nat]]
      BY <1>3, <1>4, <2>2
    <3>2. \A f \in Wal : /\ rwal'[f].len = rwal[f].len /\ rwal'[f].twice = rwal[f].twice
                         /\ rwal'[f].head = rwal[f].head
      BY <1>3, <1>4, <2>2
    <3>3. rwal'[walSeq].torn
      BY <1>3, <1>4, <2>2
    <3> QED BY <1>4, <1>5, <3>1, <3>2, <3>3
  <2>3. CASE /\ ~rwal[walSeq].torn
             /\ rwal' = [rwal EXCEPT ![walSeq].len = fileLen + fetched, ![walSeq].twice = @ + fetched]
    <3>1. PICK n \in Nat : n = fileLen + fetched
      BY <1>3
    <3>2. PICK m \in Nat : m = rwal[walSeq].twice + fetched
      BY <1>3, <1>4
    <3>3. rwal' = [rwal EXCEPT ![walSeq].len = n, ![walSeq].twice = m]
      BY <2>3, <3>1, <3>2
    <3>4. rwal' \in [Wal -> [head : Heads, len : Nat, torn : BOOLEAN, twice : Nat]]
      BY <1>3, <1>4, <3>3
    <3>5. \A f \in Wal : rwal'[f].len = rwal[f].len \/ (f = walSeq /\ rwal'[f].len = n)
      BY <1>3, <1>4, <3>3
    <3>6. \A f \in Wal : /\ rwal'[f].head = rwal[f].head
                         /\ f # walSeq => rwal'[f] = rwal[f]
      BY <1>3, <1>4, <3>3
    <3>7. rwal[walSeq].head = "whole"
      BY <1>5, <2>3
    <3> QED BY <1>3, <1>4, <1>5, <3>1, <3>4, <3>5, <3>6, <3>7
  <2> QED BY <1>2, <2>1, <2>2, <2>3
<1>7. ReplType'
  <2>1. want' \in [gen : 0..gen, seq : 0..active]
    BY <1>1, <1>2, ManifestTypes DEF NoAnswer
  <2> QED BY <1>1, <1>2, <1>6, <2>1, Still DEF ReplType
<1>8. PlaceFits'
  BY <1>1, <1>2, Still DEF PlaceFits, Asked, Frames
<1>9. SegmentsFit'
  BY <1>2, SegmentsStay
<1>10. LogsFit'
  BY <1>1, <1>2, <1>6, Still DEF LogsFit
<1>11. FilesFit' /\ CollectionsFit'
  BY <1>2 DEF FilesFit, CollectionsFit
<1>12. HeadsFit'
  BY <1>2, <1>3, <1>5, <1>6 DEF HeadsFit
<1> QED BY <1>7, <1>8, <1>9, <1>10, <1>11, <1>12 DEF ReplInv

----------------------------------------------------------------------------
(* Every step *)

LEMMA InitKeeps == ASSUME Init PROVE IInv
<1>1. PrimInv
  BY InitPrim DEF Init
<1>2. /\ rcur = 0 /\ rgen = 0 /\ rsegs = [s \in Seg |-> "none"] /\ rwal = [f \in Wal |-> NoLog]
      /\ seen = {} /\ at = "idle" /\ want = NoAnswer /\ todo = {}
      /\ walSeq = 0 /\ fileLen = 0 /\ head = "none" /\ fetched = 0 /\ broken = {}
      /\ hist = <<>> /\ gen = 0 /\ active = 1 /\ manifests = [g \in 0..MaxPrimGen |-> NoManifest]
  BY DEF Init, PrimInit
<1>3. Logged = {}
  BY <1>2 DEF Logged
<1>4. ReplType
  <2>1. NoLog \in [head : Heads, len : Nat, torn : BOOLEAN, twice : Nat] /\ want \in [gen : 0..gen, seq : 0..active]
    BY <1>2 DEF NoLog, NoAnswer, Heads
  <2> QED BY <1>2, <2>1 DEF ReplType
<1>5. PlaceFits
  BY <1>2 DEF PlaceFits, Asked
<1>6. manifests[0].segs = {} /\ manifests[0].walSeq = 0
  BY <1>2, PrimaryAssumption DEF NoManifest
<1>7. SegmentsFit
  BY <1>2, <1>6 DEF SegmentsFit
<1>8. \A f \in Wal : rwal[f].len = 0 /\ ~rwal[f].torn /\ rwal[f].twice = 0 /\ rwal[f].head = "none"
  <2>1. \A f \in Wal : rwal[f] = NoLog
    BY <1>2
  <2>2. NoLog.len = 0 /\ NoLog.torn = FALSE /\ NoLog.twice = 0 /\ NoLog.head = "none"
    BY DEF NoLog
  <2> QED BY <2>1, <2>2
<1>9. \A f \in Wal : FirstFrames(f, rwal[f].len) = {}
  BY <1>8 DEF FirstFrames
<1>10. UpTo(CoveredBy(rgen)) = {} /\ Replayed(CoveredBy(rgen)) = {}
  <2>1. UpTo(CoveredBy(rgen)) = {}
    BY <1>3 DEF UpTo
  <2>2. CoveredBy(rgen) = 0
    BY <1>2, <1>6 DEF CoveredBy
  <2>3. \A f \in (0 + 1)..MaxWal : f \in Wal
    BY PrimaryAssumption DEF Wal
  <2>4. \A f \in (0 + 1)..MaxWal : {Frame(f, i) : i \in 1..rwal[f].len} = {}
    BY <1>8, <2>3
  <2> QED BY <2>1, <2>2, <2>4 DEF Replayed
<1>11. \A f \in Wal : rwal[f].len <= Frames(f)
  <2>1. \A f \in Wal : Frames(f) = 0
    BY <1>3, FS_EmptySet DEF Frames
  <2> QED BY <1>8, <2>1
<1>12. LogsFit
  BY <1>2, <1>8, <1>9, <1>10, <1>11 DEF LogsFit
<1>13. FilesFit /\ CollectionsFit
  BY <1>2, <1>8, <1>10 DEF FilesFit, CollectionsFit
<1>14. HeadsFit
  BY <1>2, <1>8 DEF HeadsFit
<1> QED BY <1>1, <1>4, <1>5, <1>7, <1>12, <1>13, <1>14 DEF IInv, ReplInv

LEMMA NextKeeps == ASSUME IInv, [Next]_vars PROVE IInv'
<1>1. CASE UNCHANGED vars
  <2>1. UNCHANGED primVars /\ UNCHANGED replVars
    BY <1>1 DEF vars
  <2>2. PrimInv' /\ PrimaryGoesOn
    BY <2>1, Still DEF IInv
  <2>3. ReplInv'
    BY <2>1, <2>2, ReplicaKept
  <2> QED BY <2>2, <2>3 DEF IInv
<1>2. CASE PrimStep /\ UNCHANGED replVars
  <2>1. PrimInv' /\ PrimaryGoesOn
    BY <1>2, PrimStepKeeps, PrimStepGoesOn DEF IInv
  <2>2. ReplInv'
    BY <1>2, <2>1, ReplicaKept
  <2> QED BY <2>1, <2>2 DEF IInv
<1>3. CASE (Sync \/ Faults) /\ UNCHANGED primVars
  <2>1. PrimInv'
    BY <1>3, Still DEF IInv
  <2>2. ReplInv'
    <3>1. CASE Sync
      BY <1>3, <3>1, AskGenStep, AskSeqStep, GetManifestStep, SkipSegmentStep, GetRequiredStep,
         GetOptionalStep, SwitchCurrentStep, SwitchGenerationStep, GetTailStep, CreateLogStep,
         WriteMagicStep, ApplyFramesStep, ApplyFailsStep, AppendFramesStep DEF Sync
    <3>2. CASE Faults
      BY <1>3, <3>2, RequestFailsStep, MagicFailsStep, AppendFailsStep, SegmentWriteFailsStep, DieStep
         DEF Faults
    <3> QED BY <1>3, <3>1, <3>2
  <2> QED BY <2>1, <2>2 DEF IInv
<1> QED BY <1>1, <1>2, <1>3 DEF Next

\* The invariant the other theorems follow from.
THEOREM ReplicaInvariance == Spec => []IInv
<1>1. Init => IInv
  BY InitKeeps
<1>2. IInv /\ [Next]_vars => IInv'
  BY NextKeeps
<1> QED BY <1>1, <1>2, PTL DEF Spec

\* Whatever fails, a replica whose appends did not fail has everything its
\* generation covers and of every later log a first part
\* (ReplicaSync::snapshot_sync and tail_sync).
THEOREM MissesOnlyEndsAlways == Spec => []MissesOnlyEnds
<1>1. IInv => MissesOnlyEnds
  <2> SUFFICES ASSUME IInv, "append" \notin broken, NEW r \in Logged \ seen
               PROVE  /\ FileOf(r) > manifests[rgen].walSeq
                      /\ \A q \in seen : FileOf(q) = FileOf(r) => q < r
    BY DEF MissesOnlyEnds
  <2>1. PrimType /\ PrimInv /\ ReplType /\ LogsFit
    BY DEF IInv, ReplInv, PrimInv
  <2>2. /\ UpTo(CoveredBy(rgen)) \subseteq seen
        /\ \A q \in seen, p \in Logged : FileOf(q) = FileOf(p) /\ p <= q => p \in seen
    BY <2>1 DEF LogsFit
  <2>3. seen \subseteq Int /\ r \in Int /\ FileOf(r) \in Int /\ CoveredBy(rgen) \in Int
    BY <2>1, HistTypes, ReplTypes DEF ReplType
  <2>4. FileOf(r) > manifests[rgen].walSeq
    <3>1. ~(FileOf(r) <= CoveredBy(rgen))
      BY <2>2 DEF UpTo
    <3> QED BY <2>3, <3>1 DEF CoveredBy
  <2>5. ASSUME NEW q \in seen, FileOf(q) = FileOf(r) PROVE q < r
    <3>1. ~(r <= q)
      BY <2>2, <2>5
    <3> QED BY <2>3, <3>1
  <2> QED BY <2>4, <2>5
<1> QED BY <1>1, ReplicaInvariance, PTL

\* As long as no local write has failed, no record that was fetched has been
\* impossible to apply, and no generation has lost a collection that a later log
\* writes to, what is in the replica's directory can be opened, also between the
\* rename of CURRENT and the change of generation, and is what the replica has in
\* memory; only between the creation of a local log and its magic it cannot
\* (Store::load_state).
THEOREM ReopensTheSameAlways == Spec => []ReopensTheSame
<1>1. IInv => ReopensTheSame
  <2> SUFFICES ASSUME IInv, broken = {}, at \notin {"magic", "dead"}, ~DropRaced
               PROVE  /\ Opens
                      /\ at \notin {"append", "switch"} /\ fetched = 0 => Loaded = seen
    BY DEF ReopensTheSame
  <2>1. Opens
    BY OpensAlways
  <2>2. ASSUME at \notin {"append", "switch"} PROVE Loaded = seen
    <3>1. rcur = rgen /\ seen = UpTo(CoveredBy(rgen)) \cup Replayed(CoveredBy(rgen))
      BY <2>2 DEF IInv, ReplInv, FilesFit, CollectionsFit
    <3> QED BY <3>1 DEF Loaded, CoveredBy
  <2> QED BY <2>1, <2>2
<1> QED BY <1>1, ReplicaInvariance, PTL

\* When index files could not be had for a segment, the primary no longer has
\* that segment (the optional files of ReplicaSync::snapshot_sync).
THEOREM MissingIndexIsSupersededAlways == Spec => []MissingIndexIsSuperseded
<1>1. IInv => MissingIndexIsSuperseded
  BY DEF IInv, ReplInv, SegmentsFit, Got, MissingIndexIsSuperseded
<1> QED BY <1>1, ReplicaInvariance, PTL

\* Only Store::switch_generation could take away what a reader has seen, and it
\* does not: the new generation covers more than the old one did, and the local
\* logs behind it are read again.
LEMMA SwitchKeepsSeen ==
    ASSUME IInv, broken = {}, SwitchGeneration, UNCHANGED primVars PROVE seen \subseteq seen'
<1>1. PrimInv /\ PrimType /\ RecordsOrdered /\ GenerationsGrow /\ ReplType /\ LogsFit /\ FilesFit
  BY DEF IInv, ReplInv, PrimInv
<1>2. at = "switch" /\ (seen' = seen \/ seen' = Loaded)
  BY DEF SwitchGeneration, Load
<1>3. PICK v : v = CoveredBy(rgen)
  OBVIOUS
<1>4. PICK w : w = CoveredBy(rcur)
  OBVIOUS
<1>5. v \in Nat /\ w \in Nat /\ v <= w
  <2>1. rgen \in 0..gen /\ rcur \in 0..gen /\ rgen <= rcur
    BY <1>1, ReplTypes
  <2> QED BY <1>1, <1>3, <1>4, <2>1, ReplTypes DEF GenerationsGrow
<1>6. seen = UpTo(v) \cup Replayed(v)
  BY <1>1, <1>2, <1>3 DEF FilesFit
<1>7. seen' = seen \/ seen' = UpTo(w) \cup Replayed(w)
  BY <1>2, <1>4 DEF Loaded, CoveredBy
<1>8. \A f \in Wal : rwal[f].len <= Frames(f)
  BY <1>1 DEF LogsFit
<1>9. \A c \in Nat : \A r : r \in Replayed(c) <=> /\ r \in Logged /\ FileOf(r) > c
                                             /\ r <= Frame(FileOf(r), rwal[FileOf(r)].len)
  <2> SUFFICES ASSUME NEW c \in Nat
               PROVE  \A r : r \in Replayed(c)
                        <=> /\ r \in Logged /\ FileOf(r) > c
                            /\ r <= Frame(FileOf(r), rwal[FileOf(r)].len)
    OBVIOUS
  <2> QED BY <1>1, <1>8, ReplayedAre
<1>10. /\ \A r : r \in Replayed(v) => r \in Logged /\ r <= Frame(FileOf(r), rwal[FileOf(r)].len)
       /\ \A r : r \in Logged /\ FileOf(r) > w /\ r <= Frame(FileOf(r), rwal[FileOf(r)].len)
                 => r \in Replayed(w)
  BY <1>5, <1>9
<1>11. \A r \in Logged : FileOf(r) \in Nat
  BY <1>1, HistTypes
<1>12. ASSUME NEW r \in seen PROVE r \in seen'
  <2>1. r \in Logged
    BY <1>1 DEF ReplType
  <2>2. CASE FileOf(r) <= w
    BY <1>7, <2>1, <2>2 DEF UpTo
  <2>3. CASE FileOf(r) > w
    <3>1. r \notin UpTo(v)
      BY <1>5, <1>11, <2>1, <2>3 DEF UpTo
    <3> QED BY <1>6, <1>7, <1>10, <2>1, <2>3, <3>1
  <2> QED BY <1>5, <1>11, <2>1, <2>2, <2>3
<1> QED BY <1>12

\* What a reader of a replica has seen stays, through every poll and every
\* generation it changes to, unless it dies, one of its own writes fails or a
\* record cannot be applied, whose forerunners in the same log are then in memory
\* only.
THEOREM NeverGoesBackAlways == Spec => NeverGoesBack
<1>1. IInv /\ [Next]_vars => [broken = {} /\ ~Die => seen \subseteq seen']_vars
  <2> SUFFICES ASSUME IInv, [Next]_vars, broken = {}, ~Die
               PROVE  seen \subseteq seen'
    OBVIOUS
  <2>1. CASE UNCHANGED vars
    BY <2>1 DEF vars, replVars
  <2>2. CASE PrimStep /\ UNCHANGED replVars
    BY <2>2 DEF replVars
  <2>3. CASE Sync /\ UNCHANGED primVars
    <3>1. CASE SwitchGeneration
      BY <2>3, <3>1, SwitchKeepsSeen
    <3>2. CASE ~SwitchGeneration
      BY <2>3, <3>2 DEF Sync, AskGen, AskSeq, GetManifest, SkipSegment, GetRequired, GetOptional,
         SwitchCurrent, GetTail, CreateLog, WriteMagic, ApplyFrames, ApplyFails, AppendFrames,
         LocalFilesUnchanged
    <3> QED BY <3>1, <3>2
  <2>4. CASE Faults
    BY <2>4 DEF Faults, RequestFails, MagicFails, AppendFails, SegmentWriteFails, LocalFilesUnchanged
  <2> QED BY <2>1, <2>2, <2>3, <2>4 DEF Next
<1> QED BY <1>1, ReplicaInvariance, PTL DEF Spec, NeverGoesBack
==============================================================================
