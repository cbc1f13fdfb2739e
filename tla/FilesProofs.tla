---------------------------- MODULE FilesProofs ----------------------------
(***************************************************************************)
(* Proofs about Files for any number of threads, files, writes, crashes    *)
(* and failed calls: what Always and Batch acknowledged survives, EveryN   *)
(* loses less than n writes of a file, and CURRENT names a readable        *)
(* manifest whose coverage moves with its rename only.                     *)
(*                                                                         *)
(* The invariant has a part for the logs and a part for the manifest.      *)
(***************************************************************************)
EXTENDS Files, FiniteSetTheorems, TLAPS

----------------------------------------------------------------------------
(* The invariant *)

WalType ==
    /\ policy \in Policies
    /\ current \in File
    /\ appended \in [File -> Nat]
    /\ durable \in [File -> Nat]
    /\ linked \in Nat
    /\ unsynced \in Nat
    /\ synced \in [File -> Nat]
    /\ syncing \in [File -> BOOLEAN]
    /\ pc \in [Thread -> Places]
    /\ token \in [Thread -> [file : File, seq : Nat, target : Nat]]
    /\ acked \subseteq File \X Nat

\* What counts as synced is on disk, and what is on disk was appended; a leader
\* that has synced has its target on disk.
DurableOK ==
    /\ \A f \in File : synced[f] <= durable[f] /\ durable[f] <= appended[f]
    /\ \A t \in Thread :
          /\ token[t].file <= current
          /\ (pc[t] \in {"fsync", "synced"} => token[t].target <= appended[token[t].file])
          /\ (pc[t] = "synced" => token[t].target <= durable[token[t].file])

AckedDurable == policy # EveryN => \A w \in acked : w[2] <= durable[w[1]]

\* Acknowledged writes are in the files there are.
AckedWritten ==
    \A w \in acked : w[1] <= current /\ (w[1] = current => w[2] <= appended[current])

\* the acknowledged writes of a file that are not on disk
Unsafe(f) == {i \in 1..MaxWrites : <<f, i>> \in acked /\ i > durable[f]}

\* In the active file they are at most as many as its writer has counted.
UnsafeCounted ==
    policy = EveryN =>
        /\ \A f \in File : Cardinality(Unsafe(f)) < N
        /\ Cardinality(Unsafe(current)) <= unsynced

WalInv == WalType /\ DurableOK /\ AckedDurable /\ AckedWritten /\ UnsafeCounted

ManType ==
    /\ manFiles \in [Gen -> [is : {"absent", "torn", "whole"}, walSeq : Nat]]
    /\ cur \in Gen
    /\ curs \subseteq Gen
    /\ stale \subseteq curs
    /\ mem \in [gen : Gen, walSeq : Nat]
    /\ storing \in [at : {"idle", "created", "written", "renamed"}, gen : Gen, walSeq : Nat]
    /\ late \in BOOLEAN
    /\ pending \in Nat
    /\ firstWal \in Nat
    /\ crashes \in Nat

\* No manifest covers a file that is not there yet.
CoverageBounded ==
    /\ \A g \in Gen : manFiles[g].walSeq <= current
    /\ mem.walSeq <= current
    /\ pending <= current
    /\ (pending # 0 => mem.walSeq <= pending)
    /\ firstWal = mem.walSeq + 1

\* The call of store under way
StoringOK ==
    storing.at # "idle" =>
        /\ storing.gen = mem.gen + 1
        /\ storing.walSeq \in {pending, mem.walSeq}
        /\ mem.walSeq <= storing.walSeq
        /\ (storing.at = "created" => manFiles[storing.gen].is = "torn")
        /\ (storing.at \in {"written", "renamed"} =>
                manFiles[storing.gen] = Whole(storing.walSeq))
        /\ (storing.at = "renamed" => cur = storing.gen)

\* CURRENT is where a loss of power may leave it, too.  The store runs on a
\* manifest that is whole, and so are those before it; only the next one may be
\* written over, and CURRENT is back at it or further.
CursOK ==
    /\ cur \in curs /\ mem.gen <= cur
    /\ \A g \in curs : g <= mem.gen + 1 /\ (g <= mem.gen => manFiles[g].is = "whole")
    /\ (mem.gen + 1 \in curs => cur = mem.gen + 1)
    /\ \A g \in stale : g < mem.gen

\* CURRENT, before and after a loss of power, covers at least what the store
\* has taken over, and so no less than the deletion of old files assumes.
CurrentCovers ==
    \A g \in curs \ stale : manFiles[g].is = "whole" => mem.walSeq <= manFiles[g].walSeq

CurrentReadable == ~late /\ storing.at # "renamed" => cur = mem.gen

ManInv ==
    /\ ManType /\ CoverageBounded /\ StoringOK
    /\ CursOK /\ CurrentCovers /\ CurrentReadable

IInv == WalInv /\ ManInv

----------------------------------------------------------------------------
(* The number of unsafe writes *)

LEMMA UnsafeFinite ==
    ASSUME NEW S, S \subseteq 1..MaxWrites
    PROVE  IsFiniteSet(S) /\ Cardinality(S) \in Nat
<1>1. IsFiniteSet(1..MaxWrites)
  BY FS_Interval, WalAssumption
<1>. QED  BY <1>1, FS_Subset, FS_CardinalityType

LEMMA FewerUnsafe ==
    ASSUME NEW S, NEW T, S \subseteq T, T \subseteq 1..MaxWrites
    PROVE  Cardinality(S) <= Cardinality(T)
BY UnsafeFinite, FS_Subset

LEMMA OneMoreUnsafe ==
    ASSUME NEW S, NEW T, NEW x, S \subseteq T \cup {x},
           S \subseteq 1..MaxWrites, T \subseteq 1..MaxWrites
    PROVE  Cardinality(S) <= Cardinality(T) + 1
<1>1. IsFiniteSet(T) /\ Cardinality(T) \in Nat
  BY UnsafeFinite
<1>2. IsFiniteSet(T \cup {x}) /\ Cardinality(T \cup {x}) <= Cardinality(T) + 1
  BY <1>1, FS_AddElement
<1>3. Cardinality(S) \in Nat /\ Cardinality(T \cup {x}) \in Nat
  BY <1>2, UnsafeFinite, FS_CardinalityType
<1>4. Cardinality(S) <= Cardinality(T \cup {x})
  BY <1>2, FS_Subset
<1>. QED  BY <1>1, <1>2, <1>3, <1>4, FS_CardinalityType

LEMMA UnsafeType == \A f : Unsafe(f) \subseteq 1..MaxWrites
BY DEF Unsafe

\* A step that acknowledges nothing that is not on disk, and takes nothing from
\* the disk, makes no file worse.
LEMMA NothingUnsafe ==
    ASSUME WalType, UnsafeCounted, policy' = policy, current' = current,
           unsynced' = unsynced,
           durable' \in [File -> Nat], \A f \in File : durable[f] <= durable'[f],
           \A w \in acked' : w \in acked \/ w[2] <= durable'[w[1]]
    PROVE  UnsafeCounted'
<1>1. SUFFICES ASSUME policy = EveryN
               PROVE  /\ \A f \in File : Cardinality(Unsafe(f)') < N
                      /\ Cardinality(Unsafe(current)') <= unsynced
  BY DEF UnsafeCounted
<1>2. \A f \in File : Unsafe(f)' \subseteq Unsafe(f)
  <2>1. SUFFICES ASSUME NEW f \in File, NEW i \in Unsafe(f)'
                 PROVE  i \in Unsafe(f)
    OBVIOUS
  <2>2. i \in 1..MaxWrites /\ <<f, i>> \in acked' /\ i > durable'[f]
    BY <2>1 DEF Unsafe
  <2>3. <<f, i>> \in acked
    BY <2>2, WalAssumption DEF WalType
  <2>. QED  BY <2>2, <2>3, WalAssumption DEF Unsafe, WalType
<1>3. \A f \in File : Cardinality(Unsafe(f)') <= Cardinality(Unsafe(f))
  BY <1>2, FewerUnsafe, UnsafeType
<1>4. \A f \in File : Cardinality(Unsafe(f)') \in Nat /\ Cardinality(Unsafe(f)) \in Nat
  <2>1. \A f \in File : Unsafe(f)' \subseteq 1..MaxWrites
    BY <1>2, UnsafeType
  <2>. QED  BY <2>1, UnsafeType, UnsafeFinite
<1>5. current \in File /\ unsynced \in Nat /\ N \in Nat /\ current' = current
  BY WalAssumption DEF WalType
<1>6. \A f \in File : Cardinality(Unsafe(f)) < N
  BY <1>1 DEF UnsafeCounted
<1>7. Cardinality(Unsafe(current)) <= unsynced
  BY <1>1 DEF UnsafeCounted
<1>8. \A f \in File : Cardinality(Unsafe(f)') < N
  BY <1>3, <1>4, <1>5, <1>6
<1>9. Cardinality(Unsafe(current)') <= unsynced
  <2>1. Unsafe(current)' = {i \in 1..MaxWrites : <<current', i>> \in acked' /\ i > durable'[current']}
    BY DEF Unsafe
  <2>. QED  BY <1>3, <1>4, <1>5, <1>7
<1>. QED  BY <1>8, <1>9

----------------------------------------------------------------------------
(* The logs *)

LEMMA WalInitOK == Init => WalInv
<1>1. SUFFICES ASSUME Init PROVE WalInv
  OBVIOUS
<1>2. WalType
  BY <1>1, WalAssumption DEF Init, WalInit, WalType, File, Zero, Places, NoToken
<1>3. DurableOK
  BY <1>1, WalAssumption DEF Init, WalInit, DurableOK, Zero, NoToken, File
<1>4. AckedDurable /\ AckedWritten
  BY <1>1 DEF Init, WalInit, AckedDurable, AckedWritten
<1>5. UnsafeCounted
  <2>1. \A f \in File : Unsafe(f) = {}
    BY <1>1 DEF Init, WalInit, Unsafe
  <2>2. current \in File /\ unsynced = 0 /\ N \in Nat \ {0}
    BY <1>1, <1>2, WalAssumption DEF Init, WalInit, WalType
  <2>. QED  BY <2>1, <2>2, FS_EmptySet DEF UnsafeCounted
<1>. QED  BY <1>2, <1>3, <1>4, <1>5 DEF WalInv

\* An append to the active file, with what it does to the disk.
LEMMA AppendKeeps ==
    ASSUME WalInv, Append, FsyncActive
    PROVE  /\ Seq \in Nat /\ appended' \in [File -> Nat] /\ durable' \in [File -> Nat]
           /\ acked' \subseteq File \X Nat
           /\ \A f \in File : durable[f] <= durable'[f] /\ durable'[f] <= appended'[f]
           /\ \A f \in File : appended[f] <= appended'[f]
           /\ \A w \in acked' : w \in acked \/ w[2] <= durable'[w[1]]
           /\ AckedWritten'
<1>. USE DEF WalInv
<1>1. Seq \in Nat /\ current \in File /\ appended[current] \in Nat /\ Seq = appended[current] + 1
  BY DEF WalType, Seq
<1>2. /\ appended' = [appended EXCEPT ![current] = Seq]
      /\ appended' \in [File -> Nat]
      /\ \A f \in File : appended[f] <= appended'[f]
  BY <1>1 DEF WalType, Append
<1>3. \/ durable' = [durable EXCEPT ![current] = Seq] /\ acked' = acked \cup {<<current, Seq>>}
      \/ durable' = durable /\ acked' = acked
  BY DEF FsyncActive
<1>4. durable' \in [File -> Nat] /\ acked' \subseteq File \X Nat
  BY <1>1, <1>3 DEF WalType
<1>5. \A f \in File : durable[f] <= durable'[f] /\ durable'[f] <= appended'[f]
  BY <1>1, <1>2, <1>3 DEF WalType, DurableOK
<1>6. \A w \in acked' : w \in acked \/ w[2] <= durable'[w[1]]
  BY <1>1, <1>3 DEF WalType
<1>7. AckedWritten'
  <2>1. SUFFICES ASSUME NEW w \in acked'
                 PROVE  w[1] <= current /\ (w[1] = current => w[2] <= appended'[current])
    BY DEF AckedWritten, Append
  <2>2. ASSUME w \in acked
        PROVE  w[1] <= current /\ (w[1] = current => w[2] <= appended'[current])
    <3>1. w[1] <= current /\ (w[1] = current => w[2] <= appended[current])
      BY <2>2 DEF AckedWritten
    <3>2. w[2] \in Nat /\ appended'[current] = appended[current] + 1
      BY <1>1, <1>2, <2>2 DEF WalType
    <3>. QED  BY <1>1, <3>1, <3>2
  <2>3. ASSUME w = <<current, Seq>>
        PROVE  w[1] <= current /\ (w[1] = current => w[2] <= appended'[current])
    BY <1>1, <1>2, <2>3 DEF WalType, File
  <2>. QED  BY <1>3, <2>1, <2>2, <2>3
<1>. QED  BY <1>1, <1>2, <1>4, <1>5, <1>6, <1>7

\* What Append leaves alone of the group commit keeps its part.
LEMMA DurableGrows ==
    ASSUME WalInv, NEW t \in Thread,
           appended' \in [File -> Nat], durable' \in [File -> Nat],
           \A f \in File : durable[f] <= durable'[f] /\ durable'[f] <= appended'[f],
           \A f \in File : appended[f] <= appended'[f],
           synced' = synced, current' = current,
           \/ pc' = pc /\ token' = token
           \/ /\ pc' = [pc EXCEPT ![t] = "wait"]
              /\ \E tk \in [file : File, seq : Nat, target : Nat] :
                    tk.file <= current /\ token' = [token EXCEPT ![t] = tk]
    PROVE  DurableOK'
<1>. USE DEF WalInv
<1>1. \A f \in File : synced'[f] <= durable'[f] /\ durable'[f] <= appended'[f]
  BY DEF WalType, DurableOK
<1>2. ASSUME NEW u \in Thread
      PROVE  /\ token'[u].file <= current
             /\ pc'[u] \in {"fsync", "synced"} => token'[u].target <= appended'[token'[u].file]
             /\ pc'[u] = "synced" => token'[u].target <= durable'[token'[u].file]
  <2>1. pc'[u] \in {"fsync", "synced"} => pc'[u] = pc[u] /\ token'[u] = token[u]
    BY <1>2 DEF WalType
  <2>2. token[u].file \in File /\ token[u].target \in Nat
    BY <1>2 DEF WalType
  <2>3. token'[u].file <= current
    BY <1>2 DEF WalType, DurableOK
  <2>. QED  BY <1>2, <2>1, <2>2, <2>3 DEF WalType, DurableOK
<1>. QED  BY <1>1, <1>2 DEF DurableOK

LEMMA AlwaysKeeps ==
    ASSUME WalInv, NEW t \in Thread, WriteAlways(t)
    PROVE  WalInv'
<1>. USE DEF WalInv
<1>1. /\ Append /\ FsyncActive /\ policy = Always
      /\ UNCHANGED <<policy, current, linked, unsynced, synced, syncing, pc, token>>
  BY DEF WriteAlways, Append
<1>2. WalType'
  BY <1>1, AppendKeeps DEF WalType
<1>3. DurableOK'
  BY <1>1, AppendKeeps, DurableGrows
<1>4. AckedDurable'
  <2>1. \A w \in acked : w[2] <= durable[w[1]] /\ w[1] \in File /\ w[2] \in Nat
    BY <1>1 DEF AckedDurable, WalType, Always, EveryN
  <2>2. \A w \in acked : w[2] <= durable'[w[1]]
    BY <1>1, <2>1, AppendKeeps DEF WalType
  <2>. QED  BY <1>1, <2>2, AppendKeeps DEF AckedDurable
<1>5. UnsafeCounted'
  BY <1>1 DEF UnsafeCounted, Always, EveryN
<1>. QED  BY <1>1, <1>2, <1>3, <1>4, <1>5, AppendKeeps

LEMMA BatchKeeps ==
    ASSUME WalInv, NEW t \in Thread, WriteBatch(t)
    PROVE  WalInv'
<1>. USE DEF WalInv
<1>1. /\ Append /\ policy = Batch /\ policy' = policy /\ current' = current
      /\ appended' = [appended EXCEPT ![current] = Seq]
      /\ UNCHANGED <<durable, linked, unsynced, synced, syncing, acked>>
      /\ pc' = [pc EXCEPT ![t] = "wait"]
      /\ token' = [token EXCEPT ![t] = [file |-> current, seq |-> Seq, target |-> 0]]
  BY DEF WriteBatch, Append
<1>2. Seq \in Nat /\ current \in File /\ appended[current] \in Nat /\ Seq = appended[current] + 1
  BY DEF WalType, Seq
<1>3. appended' \in [File -> Nat] /\ \A f \in File : appended[f] <= appended'[f]
  BY <1>1, <1>2 DEF WalType
<1>4. WalType'
  <2>1. pc' \in [Thread -> Places]
    BY <1>1 DEF WalType, Places
  <2>2. token' \in [Thread -> [file : File, seq : Nat, target : Nat]]
    BY <1>1, <1>2 DEF WalType
  <2>. QED  BY <1>1, <1>3, <2>1, <2>2 DEF WalType
<1>5. DurableOK'
  <2>1. \A f \in File : durable[f] <= durable'[f] /\ durable'[f] <= appended'[f]
    BY <1>1, <1>3 DEF WalType, DurableOK
  <2>2. [file |-> current, seq |-> Seq, target |-> 0] \in [file : File, seq : Nat, target : Nat]
    BY <1>2
  <2>3. current <= current
    BY <1>2 DEF File
  <2>. QED  BY <1>1, <1>3, <1>4, <2>1, <2>2, <2>3, DurableGrows DEF WalType
<1>6. AckedDurable' /\ UnsafeCounted'
  BY <1>1 DEF AckedDurable, UnsafeCounted, Batch, EveryN
<1>7. AckedWritten'
  <2>1. SUFFICES ASSUME NEW w \in acked
                 PROVE  w[1] <= current /\ (w[1] = current => w[2] <= appended'[current])
    BY <1>1 DEF AckedWritten
  <2>2. w[1] <= current /\ (w[1] = current => w[2] <= appended[current])
    BY DEF AckedWritten
  <2>3. w[2] \in Nat /\ appended[current] <= appended'[current] /\ appended'[current] \in Nat
    BY <1>2, <1>3 DEF WalType
  <2>. QED  BY <1>2, <2>2, <2>3
<1>. QED  BY <1>4, <1>5, <1>6, <1>7

LEMMA EveryNKeeps ==
    ASSUME WalInv, NEW t \in Thread, WriteEveryN(t)
    PROVE  WalInv'
<1>. USE DEF WalInv
<1>1. /\ Append /\ policy = EveryN /\ policy' = policy /\ current' = current
      /\ appended' = [appended EXCEPT ![current] = Seq]
      /\ UNCHANGED <<linked, synced, syncing, pc, token>>
  BY DEF WriteEveryN, Append
<1>2. /\ Seq \in Nat /\ current \in File /\ appended[current] \in Nat
      /\ Seq = appended[current] + 1 /\ Seq <= MaxWrites
  BY <1>1, WalAssumption DEF WalType, Seq, Append
<1>3. appended' \in [File -> Nat] /\ \A f \in File : appended[f] <= appended'[f]
  BY <1>1, <1>2 DEF WalType
<1>4. AckedDurable'
  BY <1>1 DEF AckedDurable
<1>5. N \in Nat /\ unsynced \in Nat /\ N # 0
  BY WalAssumption DEF WalType
<1>6. \A f \in File : Cardinality(Unsafe(f)) \in Nat /\ Cardinality(Unsafe(f)) < N
  BY <1>1, UnsafeType, UnsafeFinite DEF UnsafeCounted
<1>7. Cardinality(Unsafe(current)) <= unsynced /\ Cardinality(Unsafe(current)) \in Nat
  BY <1>1, <1>2, UnsafeType, UnsafeFinite DEF UnsafeCounted
<1>8. \A f \in File : f # current /\ durable'[f] = durable[f]
                        /\ (acked' = acked \/ acked' = acked \cup {<<current, Seq>>})
                      => Unsafe(f)' = Unsafe(f)
  BY DEF Unsafe
<1>9. ASSUME unsynced + 1 < N, unsynced' = unsynced + 1,
             acked' = acked \cup {<<current, Seq>>}, durable' = durable
      PROVE  WalInv'
  <2>1. WalType'
    BY <1>1, <1>2, <1>3, <1>9 DEF WalType
  <2>2. DurableOK'
    <3>1. \A f \in File : durable[f] <= durable'[f] /\ durable'[f] <= appended'[f]
      BY <1>3, <1>9 DEF WalType, DurableOK
    <3>. QED  BY <1>1, <1>3, <2>1, <3>1, DurableGrows DEF WalType
  <2>3. AckedWritten'
    <3>1. SUFFICES ASSUME NEW w \in acked'
                   PROVE  w[1] <= current /\ (w[1] = current => w[2] <= appended'[current])
      BY <1>1 DEF AckedWritten
    <3>2. appended'[current] = Seq /\ current <= current
      BY <1>1, <1>2 DEF WalType, File
    <3>3. ASSUME w \in acked
          PROVE  w[1] <= current /\ (w[1] = current => w[2] <= Seq)
      <4>1. w[2] \in Nat /\ w[1] <= current /\ (w[1] = current => w[2] <= appended[current])
        BY <3>3 DEF AckedWritten, WalType
      <4>. QED  BY <1>2, <4>1
    <3>4. ASSUME w = <<current, Seq>>
          PROVE  w[1] <= current /\ (w[1] = current => w[2] <= Seq)
      BY <1>2, <3>2, <3>4
    <3>. QED  BY <1>9, <3>1, <3>2, <3>3, <3>4
  <2>4. Unsafe(current)' \subseteq Unsafe(current) \cup {Seq}
    BY <1>1, <1>9 DEF Unsafe
  <2>5. Unsafe(current)' \subseteq 1..MaxWrites
    BY <1>1 DEF Unsafe
  <2>6. /\ Cardinality(Unsafe(current)') <= Cardinality(Unsafe(current)) + 1
        /\ Cardinality(Unsafe(current)') \in Nat
    BY <2>4, <2>5, UnsafeType, OneMoreUnsafe, UnsafeFinite
  <2>7. Cardinality(Unsafe(current)') <= unsynced + 1 /\ Cardinality(Unsafe(current)') < N
    BY <1>5, <1>7, <1>9, <2>6
  <2>8. \A f \in File : Cardinality(Unsafe(f)') < N
    <3>1. ASSUME NEW f \in File PROVE Cardinality(Unsafe(f)') < N
      <4>1. f # current => Unsafe(f)' = Unsafe(f)
        BY <1>8, <1>9
      <4>2. f = current => Unsafe(f)' = Unsafe(current)'
        BY <1>1 DEF Unsafe
      <4>. QED  BY <1>6, <2>7, <4>1, <4>2
    <3>. QED  BY <3>1
  <2>9. UnsafeCounted'
    BY <1>9, <2>7, <2>8 DEF UnsafeCounted
  <2>. QED  BY <1>4, <2>1, <2>2, <2>3, <2>9
<1>10. ASSUME FsyncActive, unsynced' = IF durable'[current] = Seq THEN 0 ELSE unsynced + 1
       PROVE  WalInv'
  <2>0. unsynced' \in Nat
    BY <1>5, <1>10
  <2>1. WalType'
    BY <1>1, <1>10, <2>0, AppendKeeps DEF WalType
  <2>2. DurableOK'
    BY <1>1, <1>10, AppendKeeps, DurableGrows
  <2>3. AckedWritten'
    BY <1>1, <1>10, AppendKeeps
  <2>4. ASSUME durable' = [durable EXCEPT ![current] = Seq], acked' = acked \cup {<<current, Seq>>}
        PROVE  UnsafeCounted'
    <3>1. durable'[current] = Seq /\ unsynced' = 0
      BY <1>2, <1>10, <2>4 DEF WalType
    <3>2. ASSUME NEW i \in Unsafe(current)'
          PROVE  FALSE
      <4>1. i \in 1..MaxWrites /\ <<current, i>> \in acked' /\ i > Seq
        BY <1>1, <3>1 DEF Unsafe
      <4>2. <<current, i>> \in acked
        BY <1>2, <2>4, <4>1
      <4>3. i <= appended[current]
        <5>. DEFINE w == <<current, i>>
        <5>1. w \in acked /\ w[1] = current /\ w[2] = i
          BY <4>2
        <5>. QED  BY <5>1 DEF AckedWritten
      <4>. QED  BY <1>2, <4>1, <4>3, WalAssumption
    <3>3. Cardinality(Unsafe(current)') = 0
      <4>1. Unsafe(current)' = {}
        BY <3>2
      <4>. QED  BY <4>1, FS_EmptySet
    <3>4. ASSUME NEW f \in File PROVE Cardinality(Unsafe(f)') < N
      <4>1. f # current => durable'[f] = durable[f]
        BY <2>4 DEF WalType
      <4>2. f # current => Unsafe(f)' = Unsafe(f)
        BY <1>8, <2>4, <4>1
      <4>3. f = current => Unsafe(f)' = Unsafe(current)'
        BY <1>1 DEF Unsafe
      <4>. QED  BY <1>5, <1>6, <3>3, <4>2, <4>3
    <3>. QED  BY <3>1, <3>3, <3>4 DEF UnsafeCounted
  <2>5. ASSUME durable' = durable, acked' = acked
        PROVE  UnsafeCounted'
    <3>1. durable'[current] # Seq
      <4>1. durable[current] <= appended[current] /\ durable[current] \in Nat
        BY <1>2 DEF DurableOK, WalType
      <4>. QED  BY <1>2, <2>5, <4>1
    <3>2. unsynced' = unsynced + 1
      BY <1>10, <3>1
    <3>3. \A f \in File : Unsafe(f)' = Unsafe(f)
      BY <2>5 DEF Unsafe
    <3>4. \A f \in File : Cardinality(Unsafe(f)') < N
      BY <1>6, <3>3
    <3>5. Cardinality(Unsafe(current)') <= unsynced'
      <4>1. Unsafe(current)' = Unsafe(current)
        BY <1>1, <2>5 DEF Unsafe
      <4>. QED  BY <1>5, <1>7, <3>2, <4>1
    <3>. QED  BY <3>4, <3>5 DEF UnsafeCounted
  <2>. QED  BY <1>4, <1>10, <2>1, <2>2, <2>3, <2>4, <2>5 DEF FsyncActive
<1>. QED  BY <1>9, <1>10 DEF WriteEveryN

LEMMA WriteKeeps ==
    ASSUME WalInv, NEW t \in Thread, Write(t)
    PROVE  WalInv'
BY AlwaysKeeps, EveryNKeeps, BatchKeeps DEF Write

\* A step of the group commit leaves the counters of the writer alone, takes
\* nothing from the disk and acknowledges what is there.
LEMMA WaitCounts ==
    ASSUME WalInv, UNCHANGED <<policy, current, appended, unsynced>>,
           WalType', DurableOK',
           \A f \in File : durable[f] <= durable'[f],
           \A w \in acked' : w \in acked \/ w[2] <= durable'[w[1]],
           \A w \in acked' : w \in acked \/ w[1] <= current
    PROVE  WalInv'
<1>. USE DEF WalInv
<1>1. AckedDurable'
  <2>1. SUFFICES ASSUME policy # EveryN, NEW w \in acked'
                 PROVE  w[2] <= durable'[w[1]]
    BY DEF AckedDurable
  <2>2. ASSUME w \in acked PROVE w[2] <= durable'[w[1]]
    <3>1. w[2] <= durable[w[1]] /\ w[1] \in File /\ w[2] \in Nat
      BY <2>1, <2>2 DEF AckedDurable, WalType
    <3>2. durable[w[1]] <= durable'[w[1]] /\ durable[w[1]] \in Nat /\ durable'[w[1]] \in Nat
      BY <3>1 DEF WalType
    <3>. QED  BY <3>1, <3>2
  <2>. QED  BY <2>1, <2>2
<1>2. AckedWritten'
  <2>1. SUFFICES ASSUME NEW w \in acked'
                 PROVE  w[1] <= current /\ (w[1] = current => w[2] <= appended[current])
    BY DEF AckedWritten
  <2>2. ASSUME w \notin acked, w[1] = current PROVE w[2] <= appended[current]
    <3>1. w[2] <= durable'[current] /\ current \in File /\ w[2] \in Nat
      BY <2>1, <2>2 DEF WalType
    <3>2. durable'[current] <= appended[current] /\ durable'[current] \in Nat
          /\ appended[current] \in Nat
      BY <3>1 DEF DurableOK, WalType
    <3>. QED  BY <3>1, <3>2
  <2>. QED  BY <2>1, <2>2 DEF AckedWritten
<1>3. UnsafeCounted'
  BY NothingUnsafe DEF WalType
<1>. QED  BY <1>1, <1>2, <1>3

LEMMA NoTokenType == NoToken \in [file : File, seq : Nat, target : Nat] /\ NoToken.file = 1
BY WalAssumption DEF NoToken, File

LEMMA WaitDoneKeeps ==
    ASSUME WalInv, NEW t \in Thread, WaitDone(t)
    PROVE  WalInv'
<1>. USE DEF WalInv
<1>. DEFINE tk == token[t]
<1>1. /\ synced[tk.file] >= tk.seq /\ acked' = acked \cup {<<tk.file, tk.seq>>}
      /\ pc' = [pc EXCEPT ![t] = "idle"]
      /\ token' = [token EXCEPT ![t] = NoToken]
      /\ UNCHANGED <<policy, current, appended, durable, linked, unsynced, synced, syncing>>
  BY DEF WaitDone, Goes, Returns
<1>2. tk.file \in File /\ tk.seq \in Nat
  BY DEF WalType
<1>3. WalType'
  <2>1. pc' \in [Thread -> Places]
    BY <1>1 DEF WalType, Places
  <2>2. token' \in [Thread -> [file : File, seq : Nat, target : Nat]]
    BY <1>1, NoTokenType DEF WalType
  <2>. QED  BY <1>1, <1>2, <2>1, <2>2 DEF WalType
<1>4. DurableOK'
  <2>1. ASSUME NEW u \in Thread
        PROVE  /\ token'[u].file <= current
               /\ pc'[u] \in {"fsync", "synced"} => token'[u].target <= appended[token'[u].file]
               /\ pc'[u] = "synced" => token'[u].target <= durable[token'[u].file]
    <3>1. u # t => pc'[u] = pc[u] /\ token'[u] = token[u]
      BY <1>1, <2>1 DEF WalType
    <3>2. u = t => pc'[u] = "idle" /\ token'[u] = NoToken
      BY <1>1, <2>1 DEF WalType
    <3>3. 1 <= current
      BY DEF WalType, File
    <3>. QED  BY <2>1, <3>1, <3>2, <3>3, NoTokenType DEF DurableOK
  <2>. QED  BY <1>1, <2>1 DEF DurableOK
<1>5. tk.seq <= durable[tk.file]
  BY <1>1, <1>2 DEF DurableOK, WalType
<1>6. tk.file <= current
  BY DEF DurableOK
<1>. QED  BY <1>1, <1>2, <1>3, <1>4, <1>5, <1>6, WaitCounts DEF WalType

\* A thread that goes to sleep, or leads: no counter changes.
LEMMA WaitLeadKeeps ==
    ASSUME WalInv, NEW t \in Thread, WaitLead(t)
    PROVE  WalInv'
<1>. USE DEF WalInv
<1>1. /\ pc' = [pc EXCEPT ![t] = "fsync"]
      /\ token' = [token EXCEPT ![t].target = appended[token[t].file]]
      /\ syncing' = [syncing EXCEPT ![token[t].file] = TRUE]
      /\ UNCHANGED <<policy, current, appended, durable, linked, unsynced, synced, acked>>
  BY DEF WaitLead, Goes
<1>2. token[t].file \in File /\ token[t].seq \in Nat /\ appended[token[t].file] \in Nat
  BY DEF WalType
<1>3. /\ token'[t].file = token[t].file
      /\ token'[t].target = appended[token[t].file]
      /\ \A u \in Thread : u # t => token'[u] = token[u] /\ pc'[u] = pc[u]
      /\ pc'[t] = "fsync"
  BY <1>1 DEF WalType
<1>4. WalType'
  <2>1. pc' \in [Thread -> Places]
    BY <1>1 DEF WalType, Places
  <2>2. token' \in [Thread -> [file : File, seq : Nat, target : Nat]]
    BY <1>1, <1>2 DEF WalType
  <2>3. syncing' \in [File -> BOOLEAN]
    BY <1>1 DEF WalType
  <2>. QED  BY <1>1, <2>1, <2>2, <2>3 DEF WalType
<1>5. DurableOK'
  <2>1. ASSUME NEW u \in Thread
        PROVE  /\ token'[u].file <= current
               /\ pc'[u] \in {"fsync", "synced"} => token'[u].target <= appended[token'[u].file]
               /\ pc'[u] = "synced" => token'[u].target <= durable[token'[u].file]
    BY <1>2, <1>3, <2>1 DEF DurableOK
  <2>. QED  BY <1>1, <2>1 DEF DurableOK
<1>. QED  BY <1>1, <1>4, <1>5, WaitCounts DEF WalType

LEMMA WaitSleepKeeps ==
    ASSUME WalInv, NEW t \in Thread, WaitSleep(t)
    PROVE  WalInv'
<1>. USE DEF WalInv
<1>1. /\ pc' = [pc EXCEPT ![t] = "asleep"]
      /\ UNCHANGED <<policy, current, appended, durable, linked, unsynced, synced, syncing, token, acked>>
  BY DEF WaitSleep, Goes
<1>2. WalType'
  BY <1>1 DEF WalType, Places
<1>3. DurableOK'
  BY <1>1 DEF DurableOK, WalType
<1>. QED  BY <1>1, <1>2, <1>3, WaitCounts DEF WalType

LEMMA LeaderSyncKeeps ==
    ASSUME WalInv, NEW t \in Thread, LeaderSync(t)
    PROVE  WalInv'
<1>. USE DEF WalInv
<1>. DEFINE f == token[t].file
            n == token[t].target
<1>1. /\ pc[t] = "fsync"
      /\ UNCHANGED <<policy, current, appended, linked, unsynced, synced, syncing, token, acked>>
      /\ \/ /\ durable' = [durable EXCEPT ![f] = IF n > @ THEN n ELSE @]
            /\ pc' = [pc EXCEPT ![t] = "synced"]
         \/ durable' = durable /\ pc' = [pc EXCEPT ![t] = "failed"]
  BY DEF LeaderSync, Goes
<1>2. f \in File /\ n \in Nat /\ n <= appended[f] /\ durable[f] \in Nat /\ appended[f] \in Nat
  BY <1>1 DEF WalType, DurableOK
<1>3. durable' \in [File -> Nat] /\ \A g \in File : durable[g] <= durable'[g]
  BY <1>1, <1>2 DEF WalType
<1>4. \A g \in File : durable'[g] <= appended[g]
  BY <1>1, <1>2 DEF WalType, DurableOK
<1>5. pc'[t] = "synced" => n <= durable'[f]
  BY <1>1, <1>2 DEF WalType
<1>6. WalType'
  <2>1. pc' \in [Thread -> Places]
    BY <1>1 DEF WalType, Places
  <2>. QED  BY <1>1, <1>3, <2>1 DEF WalType
<1>7. DurableOK'
  <2>1. \A g \in File : synced[g] <= durable'[g]
    BY <1>3 DEF WalType, DurableOK
  <2>2. ASSUME NEW u \in Thread
        PROVE  /\ token[u].file <= current
               /\ pc'[u] \in {"fsync", "synced"} => token[u].target <= appended[token[u].file]
               /\ pc'[u] = "synced" => token[u].target <= durable'[token[u].file]
    <3>1. token[u].file \in File /\ token[u].target \in Nat
      BY <2>2 DEF WalType
    <3>2. u # t => pc'[u] = pc[u]
      BY <1>1, <2>2 DEF WalType
    <3>3. pc[u] = "synced" => token[u].target <= durable'[token[u].file]
      BY <1>3, <2>2, <3>1 DEF DurableOK, WalType
    <3>. QED  BY <1>2, <1>5, <2>2, <3>2, <3>3 DEF DurableOK
  <2>. QED  BY <1>1, <1>4, <2>1, <2>2 DEF DurableOK
<1>. QED  BY <1>1, <1>3, <1>6, <1>7, WaitCounts DEF WalType

\* The leader gives up its place: the others are back in the loop, and the
\* target of its token, if it keeps it, is no concern any more.
LEMMA WakeKeeps ==
    ASSUME WalInv, NEW t \in Thread, NEW place \in {"idle", "wait"}, NEW f \in File,
           WakeFollowers(f, t, place),
           synced' \in [File -> Nat], \A g \in File : synced'[g] <= durable[g],
           syncing' = [syncing EXCEPT ![f] = FALSE],
           token' = [token EXCEPT ![t].target = 0] \/ token' = [token EXCEPT ![t] = NoToken],
           UNCHANGED <<policy, current, appended, durable, linked, unsynced, acked>>
    PROVE  WalInv'
<1>. USE DEF WalInv
<1>1. pc' = [u \in Thread |-> IF u = t THEN place
                              ELSE IF pc[u] = "asleep" /\ token[u].file = f THEN "wait"
                              ELSE pc[u]]
  BY DEF WakeFollowers
<1>2. \A u \in Thread : pc'[u] \in {"fsync", "synced"} => u # t /\ pc'[u] = pc[u]
  BY <1>1
<1>3. token' \in [Thread -> [file : File, seq : Nat, target : Nat]]
  <2>1. [token EXCEPT ![t].target = 0] \in [Thread -> [file : File, seq : Nat, target : Nat]]
    BY DEF WalType
  <2>2. [token EXCEPT ![t] = NoToken] \in [Thread -> [file : File, seq : Nat, target : Nat]]
    BY NoTokenType DEF WalType
  <2>. QED  BY <2>1, <2>2
<1>4. \A u \in Thread : u # t => token'[u] = token[u]
  BY DEF WalType
<1>5. token'[t].file = token[t].file \/ token'[t].file = 1
  BY DEF WalType, NoToken
<1>6. WalType'
  <2>1. pc' \in [Thread -> Places]
    BY <1>1 DEF WalType, Places
  <2>2. syncing' \in [File -> BOOLEAN]
    BY DEF WalType
  <2>. QED  BY <1>3, <2>1, <2>2 DEF WalType
<1>7. DurableOK'
  <2>1. ASSUME NEW u \in Thread
        PROVE  /\ token'[u].file <= current
               /\ pc'[u] \in {"fsync", "synced"} => token'[u].target <= appended[token'[u].file]
               /\ pc'[u] = "synced" => token'[u].target <= durable[token'[u].file]
    <3>1. 1 <= current
      BY WalAssumption DEF WalType, File
    <3>. QED  BY <1>2, <1>4, <1>5, <2>1, <3>1 DEF DurableOK
  <2>. QED  BY <2>1 DEF DurableOK
<1>. QED  BY <1>6, <1>7, WaitCounts DEF WalType

LEMMA LeaderDoneKeeps ==
    ASSUME WalInv, NEW t \in Thread, LeaderDone(t)
    PROVE  WalInv'
<1>. USE DEF WalInv
<1>. DEFINE f == token[t].file
            n == token[t].target
<1>1. f \in File /\ n \in Nat /\ pc[t] = "synced"
  BY DEF WalType, LeaderDone
<1>2. synced' = [synced EXCEPT ![f] = IF n > @ THEN n ELSE @]
  BY DEF LeaderDone
<1>3. synced' \in [File -> Nat]
  BY <1>1, <1>2 DEF WalType
<1>4. n <= durable[f]
  BY <1>1 DEF DurableOK
<1>5. \A g \in File : synced'[g] <= durable[g]
  BY <1>1, <1>2, <1>4 DEF WalType, DurableOK
<1>6. WakeFollowers(f, t, "wait") /\ syncing' = [syncing EXCEPT ![f] = FALSE]
  BY DEF LeaderDone
<1>7. token' = [token EXCEPT ![t].target = 0]
      /\ UNCHANGED <<policy, current, appended, durable, linked, unsynced, acked>>
  BY DEF LeaderDone
<1>. QED  BY <1>1, <1>3, <1>5, <1>6, <1>7, WakeKeeps

LEMMA LeaderFailedKeeps ==
    ASSUME WalInv, NEW t \in Thread, LeaderFailed(t)
    PROVE  WalInv'
<1>. USE DEF WalInv
<1>1. token[t].file \in File /\ synced' = synced
  BY DEF WalType, LeaderFailed
<1>2. synced' \in [File -> Nat] /\ \A g \in File : synced'[g] <= durable[g]
  BY <1>1 DEF WalType, DurableOK
<1>3. /\ WakeFollowers(token[t].file, t, "idle")
      /\ syncing' = [syncing EXCEPT ![token[t].file] = FALSE]
      /\ token' = [token EXCEPT ![t] = NoToken]
      /\ UNCHANGED <<policy, current, appended, durable, linked, unsynced, acked>>
  BY DEF LeaderFailed, Returns
<1>. QED  BY <1>1, <1>2, <1>3, WakeKeeps

LEMMA WaitKeeps ==
    ASSUME WalInv, NEW t \in Thread, Wait(t)
    PROVE  WalInv'
BY WaitDoneKeeps, WaitLeadKeeps, WaitSleepKeeps, LeaderSyncKeeps, LeaderDoneKeeps,
   LeaderFailedKeeps DEF Wait

\* A new file: nothing in it is acknowledged yet, and the counter starts anew.
LEMMA OpenedKeeps ==
    ASSUME WalInv, NEW n \in File, Opened(n), policy' = policy, acked' \subseteq acked,
           \A w \in acked' : w[1] < n,
           WalType', DurableOK', AckedDurable',
           \A w \in acked' : durable[w[1]] <= durable'[w[1]]
    PROVE  WalInv'
<1>. USE DEF WalInv
<1>1. current' = n /\ unsynced' = 0 /\ n \in Nat
  BY DEF Opened, File
<1>2. AckedWritten'
  <2>1. \A w \in acked' : w[1] < n /\ w[1] \in Nat
    BY DEF WalType, File
  <2>. QED  BY <1>1, <2>1 DEF AckedWritten
<1>3. UnsafeCounted'
  <2>1. SUFFICES ASSUME policy = EveryN
                 PROVE  /\ \A f \in File : Cardinality(Unsafe(f)') < N
                        /\ Cardinality(Unsafe(current)') <= 0
    BY <1>1 DEF UnsafeCounted
  <2>2. ASSUME NEW f \in File PROVE Cardinality(Unsafe(f)') < N
    <3>1. Unsafe(f)' \subseteq Unsafe(f)
      <4>1. SUFFICES ASSUME NEW i \in Unsafe(f)' PROVE i \in Unsafe(f)
        OBVIOUS
      <4>2. i \in 1..MaxWrites /\ <<f, i>> \in acked' /\ i > durable'[f]
        BY <4>1 DEF Unsafe
      <4>. DEFINE w == <<f, i>>
      <4>3. w \in acked' /\ w[1] = f
        BY <4>2
      <4>4. durable[f] <= durable'[f]
        BY <4>3
      <4>5. i \in Nat /\ durable[f] \in Nat /\ durable'[f] \in Nat
        BY <4>2, WalAssumption DEF WalType
      <4>6. i > durable[f]
        BY <4>2, <4>4, <4>5
      <4>. QED  BY <4>2, <4>3, <4>6 DEF Unsafe
    <3>2. /\ Cardinality(Unsafe(f)') <= Cardinality(Unsafe(f))
          /\ Cardinality(Unsafe(f)') \in Nat /\ Cardinality(Unsafe(f)) \in Nat
      BY <3>1, UnsafeType, FewerUnsafe, UnsafeFinite
    <3>3. Cardinality(Unsafe(f)) < N
      BY <2>1 DEF UnsafeCounted
    <3>. QED  BY <3>2, <3>3, WalAssumption
  <2>3. Unsafe(current)' = {}
    <3>1. SUFFICES ASSUME NEW i \in Nat, <<n, i>> \in acked' PROVE FALSE
      BY <1>1, WalAssumption DEF Unsafe
    <3>. DEFINE w == <<n, i>>
    <3>2. w \in acked' /\ w[1] = n
      BY <3>1
    <3>3. n < n
      BY <3>2
    <3>. QED  BY <1>1, <3>3
  <2>. QED  BY <2>2, <2>3, FS_EmptySet
<1>. QED  BY <1>2, <1>3

LEMMA NewFileKeeps ==
    ASSUME WalInv, NewFile
    PROVE  WalInv'
<1>. USE DEF WalInv
<1>1. /\ Opened(current + 1) /\ current + 1 \in File /\ current' = current + 1 /\ unsynced' = 0
      /\ UNCHANGED <<policy, appended, durable, linked, synced, syncing, pc, token, acked>>
  BY DEF NewFile, Opened
<1>2. current \in Nat /\ \A w \in acked : w[1] <= current /\ w[1] \in Nat
  BY DEF WalType, AckedWritten, File
<1>3. WalType'
  BY <1>1 DEF WalType
<1>4. DurableOK'
  <2>1. \A t \in Thread : token[t].file <= current /\ token[t].file \in Nat
    BY DEF DurableOK, WalType, File
  <2>2. \A t \in Thread : token[t].file <= current'
    BY <1>1, <1>2, <2>1
  <2>. QED  BY <1>1, <2>2 DEF DurableOK
<1>5. AckedDurable'
  BY <1>1 DEF AckedDurable
<1>6. \A w \in acked' : w[1] < current + 1
  BY <1>1, <1>2
<1>7. \A w \in acked' : durable[w[1]] <= durable'[w[1]]
  BY <1>1 DEF WalType
<1>. QED  BY <1>1, <1>3, <1>4, <1>5, <1>6, <1>7, OpenedKeeps

\* The next process finds at least what was on disk of the files that are there.
LEMMA RestartedKeeps ==
    ASSUME WalInv, NEW n \in File, Restarted(n), acked' \subseteq acked,
           \A w \in acked' : w[1] < n /\ durable[w[1]] <= durable'[w[1]],
           appended' \in [File -> Nat], durable' \in [File -> Nat], linked' \in Nat,
           \A f \in File : durable'[f] <= appended'[f]
    PROVE  WalInv'
<1>. USE DEF WalInv
<1>1. /\ Opened(n) /\ current' = n /\ unsynced' = 0
      /\ synced' = Zero /\ syncing' = [f \in File |-> FALSE]
      /\ pc' = [t \in Thread |-> "idle"] /\ token' = [t \in Thread |-> NoToken]
      /\ policy' = policy
  BY DEF Restarted, Opened
<1>2. WalType'
  BY <1>1, NoTokenType DEF WalType, Zero, Places
<1>3. DurableOK'
  <2>1. 1 <= current'
    BY <1>1 DEF File
  <2>2. \A f \in File : 0 <= durable'[f]
    OBVIOUS
  <2>. QED  BY <1>1, <2>1, <2>2, NoTokenType DEF DurableOK, Zero
<1>4. AckedDurable'
  <2>1. SUFFICES ASSUME policy # EveryN, NEW w \in acked'
                 PROVE  w[2] <= durable'[w[1]]
    BY <1>1 DEF AckedDurable
  <2>2. w[2] <= durable[w[1]] /\ w[1] \in File /\ w[2] \in Nat
    BY <2>1 DEF AckedDurable, WalType
  <2>3. durable[w[1]] <= durable'[w[1]] /\ durable[w[1]] \in Nat /\ durable'[w[1]] \in Nat
    BY <2>2 DEF WalType
  <2>. QED  BY <2>2, <2>3
<1>. QED  BY <1>1, <1>2, <1>3, <1>4, OpenedKeeps

LEMMA RestartKeeps ==
    ASSUME WalInv, Restart
    PROVE  WalInv'
<1>. USE DEF WalInv
<1>1. /\ Restarted(current + 1) /\ current + 1 \in File
      /\ UNCHANGED <<appended, durable, linked, acked>>
  BY DEF Restart, Restarted, Opened
<1>2. \A w \in acked : w[1] < current + 1
  BY DEF WalType, AckedWritten, File
<1>3. \A w \in acked' : w[1] < current + 1 /\ durable[w[1]] <= durable'[w[1]]
  BY <1>1, <1>2 DEF WalType
<1>4. \A f \in File : durable'[f] <= appended'[f]
  BY <1>1 DEF DurableOK
<1>5. /\ acked' \subseteq acked /\ linked' \in Nat
      /\ appended' \in [File -> Nat] /\ durable' \in [File -> Nat]
  BY <1>1 DEF WalType
<1>. QED  BY <1>1, <1>3, <1>4, <1>5, RestartedKeeps

\* An acknowledged write that is not gone is in a file before the new one.
LEMMA PowerLossKeeps ==
    ASSUME WalInv, NEW volatile, NEW covered \in Nat, PowerLoss(volatile, covered)
    PROVE  WalInv' /\ covered < current'
<1>. USE DEF WalInv
<1>1. PICK gone \in SUBSET {f \in volatile : f > covered}, last \in covered..current :
        /\ \A f \in (1..current) \ gone : f <= last \/ f <= covered
        /\ Restarted(last + 1)
        /\ appended' \in [File -> 0..MaxWrites]
        /\ \A f \in File : f \notin gone => \/ appended'[f] = appended[f]
                                            \/ appended'[f] \in durable[f]..appended[f]
        /\ durable' = appended' /\ linked' = last
        /\ acked' = {w \in acked : w[1] \notin gone}
  BY DEF PowerLoss
<1>2. last \in Nat /\ current \in Nat /\ covered <= last /\ last + 1 \in File
      /\ current' = last + 1
  BY <1>1 DEF WalType, File, Restarted, Opened
<1>3. appended' \in [File -> Nat]
  BY <1>1, WalAssumption
<1>4. ASSUME NEW w \in acked'
      PROVE  w[1] < last + 1 /\ durable[w[1]] <= durable'[w[1]]
  <2>1. w \in acked /\ w[1] \notin gone /\ w[1] \in File /\ w[1] \in Nat /\ w[1] >= 1
    BY <1>1, <1>4 DEF WalType, File
  <2>2. w[1] <= current
    BY <2>1 DEF AckedWritten
  <2>3. w[1] \in (1..current) \ gone
    BY <1>2, <2>1, <2>2
  <2>4. w[1] <= last
    BY <1>1, <1>2, <2>1, <2>3
  <2>5. durable[w[1]] <= appended[w[1]] /\ durable[w[1]] \in Nat /\ appended[w[1]] \in Nat
    BY <2>1 DEF DurableOK, WalType
  <2>6. durable[w[1]] <= appended'[w[1]]
    BY <1>1, <2>1, <2>5
  <2>. QED  BY <1>1, <1>2, <2>1, <2>4, <2>6
<1>5. \A f \in File : durable'[f] <= appended'[f]
  BY <1>1, <1>3
<1>6. acked' \subseteq acked /\ linked' \in Nat /\ durable' \in [File -> Nat]
  BY <1>1, <1>2, <1>3
<1>7. WalInv'
  BY <1>1, <1>2, <1>3, <1>4, <1>5, <1>6, RestartedKeeps
<1>. QED  BY <1>2, <1>7

----------------------------------------------------------------------------
(* The manifest *)

LEMMA ManInitOK == Init => ManInv
<1>. SUFFICES ASSUME Init PROVE ManInv
  OBVIOUS
<1>. USE DEF Init, ManInit, WalInit
<1>0. 0 \in Gen
  BY ManifestAssumption DEF Gen
<1>1. ManType
  BY <1>0 DEF ManType, Whole, Absent, NotStoring
<1>2. CoverageBounded
  BY <1>0 DEF CoverageBounded, Whole, Absent
<1>3. StoringOK
  BY DEF StoringOK, NotStoring
<1>4. CursOK /\ CurrentCovers /\ CurrentReadable
  BY <1>0 DEF CursOK, CurrentCovers, CurrentReadable, Whole, NotStoring
<1>. QED  BY <1>1, <1>2, <1>3, <1>4 DEF ManInv

\* A step of the clients leaves the manifest alone.
LEMMA ManUnchanged ==
    ASSUME ManInv, UNCHANGED <<manVars, fileVars>>, current' = current
    PROVE  ManInv'
BY DEF ManInv, ManType, CoverageBounded, StoringOK, CursOK, CurrentCovers, CurrentReadable,
       manVars, fileVars

LEMMA RotateKeeps ==
    ASSUME ManInv, WalType, Rotate
    PROVE  ManInv'
<1>. USE DEF ManInv
<1>1. /\ UNCHANGED manVars /\ firstWal' = firstWal /\ crashes' = crashes
      /\ storing.at = "idle" /\ pending' = current /\ current' = current + 1
      /\ current \in Nat
  BY DEF Rotate, LockFree, NewFile, Opened, WalType, File
<1>2. UNCHANGED <<manFiles, cur, curs, stale, mem, storing, late>>
  BY <1>1 DEF manVars
<1>3. ManType'
  BY <1>1, <1>2 DEF ManType
<1>4. CoverageBounded'
  <2>1. \A g \in Gen : manFiles[g].walSeq <= current + 1
    BY <1>1 DEF CoverageBounded, ManType
  <2>2. mem.walSeq \in Nat /\ mem.walSeq <= current
    BY DEF CoverageBounded, ManType
  <2>. QED  BY <1>1, <1>2, <2>1, <2>2 DEF CoverageBounded
<1>5. StoringOK' /\ CursOK' /\ CurrentCovers' /\ CurrentReadable'
  BY <1>1, <1>2 DEF StoringOK, CursOK, CurrentCovers, CurrentReadable
<1>. QED  BY <1>3, <1>4, <1>5

\* store begins: the file it creates is not the one the store runs on.
LEMMA CreateKeeps ==
    ASSUME ManInv, NEW seq \in {pending, mem.walSeq}, mem.walSeq <= seq, StoreCreate(seq),
           UNCHANGED <<fileVars, current>>, current \in Nat
    PROVE  ManInv'
<1>. USE DEF ManInv
<1>. DEFINE n == mem.gen + 1
<1>1. /\ storing.at = "idle" /\ mem.gen < MaxGen
      /\ storing' = [at |-> "created", gen |-> n, walSeq |-> seq]
      /\ manFiles' = [manFiles EXCEPT ![n] = Torn]
      /\ UNCHANGED <<cur, curs, stale, mem, late, pending, firstWal, crashes, current>>
  BY DEF StoreCreate, fileVars
<1>2. n \in Gen /\ mem.gen \in Gen /\ mem.gen # n /\ seq \in Nat
  BY <1>1, ManifestAssumption DEF ManType, Gen
<1>3. \A g \in Gen : manFiles'[g] = IF g = n THEN Torn ELSE manFiles[g]
  BY <1>1, <1>2 DEF ManType
<1>4. ManType'
  <2>1. Torn \in [is : {"absent", "torn", "whole"}, walSeq : Nat]
    BY DEF Torn
  <2>2. manFiles' \in [Gen -> [is : {"absent", "torn", "whole"}, walSeq : Nat]]
    BY <1>1, <2>1 DEF ManType
  <2>. QED  BY <1>1, <1>2, <2>2 DEF ManType
<1>5. CoverageBounded'
  <2>1. \A g \in Gen : manFiles'[g].walSeq <= current
    BY <1>3 DEF CoverageBounded, Torn
  <2>. QED  BY <1>1, <2>1 DEF CoverageBounded
<1>6. StoringOK'
  BY <1>1, <1>2, <1>3 DEF StoringOK, Torn
<1>7. CurrentCovers'
  BY <1>1, <1>3 DEF CurrentCovers, ManType, Torn
<1>8. CursOK' /\ CurrentReadable'
  <2>1. ASSUME NEW g \in curs, g <= mem.gen PROVE g # n /\ manFiles'[g] = manFiles[g]
    <3>0. curs \subseteq Gen
      BY DEF ManType
    <3>1. g \in Gen /\ g \in Nat /\ mem.gen \in Nat /\ n = mem.gen + 1
      BY <1>2, <3>0 DEF Gen
    <3>2. g # n
      BY <2>1, <3>1
    <3>. QED  BY <1>3, <3>1, <3>2
  <2>. QED  BY <1>1, <2>1 DEF CursOK, CurrentReadable
<1>. QED  BY <1>4, <1>5, <1>6, <1>7, <1>8

LEMMA StoreWriteKeeps ==
    ASSUME ManInv, StoreWrite, UNCHANGED <<fileVars, current>>, current \in Nat
    PROVE  ManInv'
<1>. USE DEF ManInv
<1>. DEFINE n == storing.gen
<1>1. /\ storing.at = "created"
      /\ manFiles' = [manFiles EXCEPT ![n] = Whole(storing.walSeq)]
      /\ storing' = [storing EXCEPT !.at = "written"]
      /\ UNCHANGED <<cur, curs, stale, mem, late, pending, firstWal, crashes, current>>
  BY DEF StoreWrite, Reach, fileVars
<1>2. /\ n \in Gen /\ n = mem.gen + 1 /\ mem.gen \in Gen /\ storing.walSeq \in Nat
      /\ storing.walSeq <= current /\ mem.walSeq <= storing.walSeq
  BY <1>1 DEF ManType, StoringOK, CoverageBounded
<1>3. \A g \in Gen : manFiles'[g] = IF g = n THEN Whole(storing.walSeq) ELSE manFiles[g]
  BY <1>1, <1>2 DEF ManType
<1>4. storing'.at = "written" /\ storing'.gen = n /\ storing'.walSeq = storing.walSeq
  BY <1>1 DEF ManType
<1>5. ManType'
  <2>1. Whole(storing.walSeq) \in [is : {"absent", "torn", "whole"}, walSeq : Nat]
    BY <1>2 DEF Whole
  <2>2. manFiles' \in [Gen -> [is : {"absent", "torn", "whole"}, walSeq : Nat]]
    BY <1>1, <2>1 DEF ManType
  <2>3. storing' \in [at : {"idle", "created", "written", "renamed"}, gen : Gen, walSeq : Nat]
    BY <1>1 DEF ManType
  <2>. QED  BY <1>1, <2>2, <2>3 DEF ManType
<1>6. CoverageBounded'
  <2>1. \A g \in Gen : manFiles'[g].walSeq <= current
    BY <1>2, <1>3 DEF CoverageBounded, Whole
  <2>. QED  BY <1>1, <2>1 DEF CoverageBounded
<1>7. StoringOK'
  BY <1>1, <1>2, <1>3, <1>4 DEF StoringOK
<1>8. CurrentCovers'
  BY <1>1, <1>2, <1>3 DEF CurrentCovers, ManType, Whole
<1>9. CursOK' /\ CurrentReadable'
  <2>1. ASSUME NEW g \in curs, g <= mem.gen PROVE g # n /\ manFiles'[g] = manFiles[g]
    <3>0. curs \subseteq Gen
      BY DEF ManType
    <3>1. g \in Gen /\ g \in Nat /\ mem.gen \in Nat /\ n = mem.gen + 1
      BY <1>2, <3>0 DEF Gen
    <3>2. g # n
      BY <2>1, <3>1
    <3>. QED  BY <1>3, <3>1, <3>2
  <2>. QED  BY <1>1, <1>4, <2>1 DEF CursOK, CurrentReadable
<1>. QED  BY <1>5, <1>6, <1>7, <1>8, <1>9

LEMMA StoreRenameKeeps ==
    ASSUME ManInv, StoreRename, UNCHANGED <<fileVars, current>>
    PROVE  ManInv'
<1>. USE DEF ManInv
<1>1. /\ storing.at = "written" /\ cur' = storing.gen /\ curs' = curs \cup {storing.gen}
      /\ storing' = [storing EXCEPT !.at = "renamed"]
      /\ UNCHANGED <<manFiles, stale, mem, late, pending, firstWal, crashes, current>>
  BY DEF StoreRename, Reach, fileVars
<1>2. /\ storing.gen \in Gen /\ storing.gen = mem.gen + 1 /\ mem.walSeq <= storing.walSeq
      /\ manFiles[storing.gen] = Whole(storing.walSeq)
  BY <1>1 DEF ManType, StoringOK
<1>3. storing'.at = "renamed" /\ storing'.gen = storing.gen /\ storing'.walSeq = storing.walSeq
  BY <1>1 DEF ManType
<1>4. ManType'
  <2>1. storing' \in [at : {"idle", "created", "written", "renamed"}, gen : Gen, walSeq : Nat]
    BY <1>1 DEF ManType
  <2>. QED  BY <1>1, <1>2, <2>1 DEF ManType
<1>5. CoverageBounded'
  BY <1>1 DEF CoverageBounded
<1>6. StoringOK'
  BY <1>1, <1>2, <1>3 DEF StoringOK
<1>7. CurrentCovers'
  BY <1>1, <1>2 DEF CurrentCovers, Whole
<1>8. CursOK' /\ CurrentReadable'
  <2>1. mem.gen \in Nat
    BY DEF ManType, Gen
  <2>. QED  BY <1>1, <1>2, <1>3, <2>1 DEF CursOK, CurrentReadable
<1>. QED  BY <1>4, <1>5, <1>6, <1>7, <1>8

LEMMA StoreFailsKeeps ==
    ASSUME ManInv, StoreFails, UNCHANGED <<fileVars, current>>
    PROVE  ManInv'
<1>. USE DEF ManInv
<1>1. /\ storing.at \in {"created", "written", "renamed"} /\ storing' = NotStoring
      /\ late' = (late \/ storing.at = "renamed")
      /\ UNCHANGED <<manFiles, cur, curs, stale, mem, pending, firstWal, crashes, current>>
  BY DEF StoreFails, fileVars
<1>2. NotStoring.at = "idle"
  BY DEF NotStoring
<1>3. ManType'
  <2>1. NotStoring \in [at : {"idle", "created", "written", "renamed"}, gen : Gen, walSeq : Nat]
    BY ManifestAssumption DEF NotStoring, Gen
  <2>2. late' \in BOOLEAN
    BY <1>1
  <2>. QED  BY <1>1, <2>1, <2>2 DEF ManType
<1>4. CoverageBounded'
  BY <1>1 DEF CoverageBounded
<1>5. StoringOK'
  BY <1>1, <1>2 DEF StoringOK
<1>6. CursOK' /\ CurrentCovers'
  BY <1>1 DEF CursOK, CurrentCovers
<1>7. CurrentReadable'
  BY <1>1 DEF CurrentReadable
<1>. QED  BY <1>3, <1>4, <1>5, <1>6, <1>7

\* The store takes over what it has stored, and the files it covers go.
LEMMA CommitReturnsKeeps ==
    ASSUME ManInv, CommitReturns, current \in Nat
    PROVE  ManInv'
<1>. USE DEF ManInv
<1>1. /\ storing.at = "renamed" /\ curs' = {cur} /\ stale' = {} /\ cur' = cur
      /\ mem' = [gen |-> storing.gen, walSeq |-> storing.walSeq]
      /\ manFiles' = Collected({cur}) /\ storing' = NotStoring /\ late' = FALSE
      /\ pending' = (IF storing.walSeq = pending THEN 0 ELSE pending)
      /\ firstWal' = storing.walSeq + 1 /\ crashes' = crashes /\ current' = current
  BY DEF CommitReturns, StoreReturns, walVars
<1>2. /\ storing.gen \in Gen /\ storing.walSeq \in Nat /\ cur = storing.gen
      /\ storing.walSeq \in {pending, mem.walSeq}
      /\ manFiles[cur] = Whole(storing.walSeq)
  BY <1>1 DEF ManType, StoringOK
<1>3. \A g \in Gen : manFiles'[g] = IF g = cur THEN manFiles[g] ELSE Absent
  BY <1>1 DEF Collected
<1>4. manFiles'[cur] = Whole(storing.walSeq)
  BY <1>2, <1>3
<1>5. ManType'
  <2>1. Absent \in [is : {"absent", "torn", "whole"}, walSeq : Nat]
    BY DEF Absent
  <2>2. manFiles' \in [Gen -> [is : {"absent", "torn", "whole"}, walSeq : Nat]]
    BY <1>1, <2>1 DEF ManType, Collected
  <2>3. NotStoring \in [at : {"idle", "created", "written", "renamed"}, gen : Gen, walSeq : Nat]
    BY ManifestAssumption DEF NotStoring, Gen
  <2>4. pending' \in Nat /\ firstWal' \in Nat
    BY <1>1, <1>2 DEF ManType
  <2>. QED  BY <1>1, <1>2, <2>2, <2>3, <2>4 DEF ManType
<1>6. CoverageBounded'
  <2>1. \A g \in Gen : manFiles'[g].walSeq <= current
    BY <1>3 DEF CoverageBounded, Absent
  <2>2. storing.walSeq <= current
    BY <1>2 DEF CoverageBounded
  <2>3. mem'.walSeq = storing.walSeq
    BY <1>1
  <2>4. pending' <= current
    BY <1>1 DEF CoverageBounded
  <2>5. pending' # 0 => storing.walSeq = mem.walSeq /\ pending' = pending
    BY <1>1, <1>2
  <2>6. pending' # 0 => storing.walSeq <= pending'
    BY <2>5 DEF CoverageBounded
  <2>. QED  BY <1>1, <2>1, <2>2, <2>3, <2>4, <2>6 DEF CoverageBounded
<1>7. StoringOK'
  BY <1>1 DEF StoringOK, NotStoring
<1>8. CurrentCovers'
  <2>1. \A g \in curs' \ stale' : g = cur
    BY <1>1
  <2>2. mem'.walSeq = storing.walSeq /\ manFiles'[cur].walSeq = storing.walSeq
    BY <1>1, <1>4 DEF Whole
  <2>. QED  BY <1>2, <2>1, <2>2 DEF CurrentCovers
<1>9. CursOK' /\ CurrentReadable'
  <2>1. cur \in Nat /\ mem'.gen = cur
    BY <1>1, <1>2 DEF Gen
  <2>. QED  BY <1>1, <1>4, <2>1 DEF CursOK, CurrentReadable, Whole
<1>. QED  BY <1>5, <1>6, <1>7, <1>8, <1>9

\* A new process runs on the manifest it has loaded; the others a loss of power
\* may bring back are older, and whole.
LEMMA LoadKeeps ==
    ASSUME ManInv, NEW g \in Gen, NEW others \in SUBSET Gen, LoadFrom(g, others),
           \A h \in others : h < g /\ manFiles[h].is = "whole",
           current' \in Nat, \A h \in others \cup {g} : manFiles[h].walSeq <= current',
           pending' = 0, firstWal' = manFiles[g].walSeq + 1, crashes' \in Nat
    PROVE  ManInv'
<1>. USE DEF ManInv
<1>1. /\ manFiles[g].is = "whole" /\ cur' = g /\ curs' = others \cup {g} /\ stale' = others
      /\ mem' = [gen |-> g, walSeq |-> manFiles[g].walSeq]
      /\ manFiles' = Collected(others \cup {g})
      /\ storing' = NotStoring /\ late' = FALSE
  BY DEF LoadFrom
<1>2. manFiles[g].walSeq \in Nat /\ manFiles[g].walSeq <= current' /\ g \in Nat
  BY DEF ManType, Gen
<1>3. \A h \in Gen : manFiles'[h] = IF h \in others \cup {g} THEN manFiles[h] ELSE Absent
  BY <1>1 DEF Collected
<1>4. ManType'
  <2>1. Absent \in [is : {"absent", "torn", "whole"}, walSeq : Nat]
    BY DEF Absent
  <2>2. manFiles' \in [Gen -> [is : {"absent", "torn", "whole"}, walSeq : Nat]]
    BY <1>1, <2>1 DEF ManType, Collected
  <2>3. NotStoring \in [at : {"idle", "created", "written", "renamed"}, gen : Gen, walSeq : Nat]
    BY ManifestAssumption DEF NotStoring, Gen
  <2>4. mem' \in [gen : Gen, walSeq : Nat]
    BY <1>1, <1>2
  <2>5. firstWal' \in Nat /\ pending' \in Nat
    BY <1>2
  <2>. QED  BY <1>1, <2>2, <2>3, <2>4, <2>5 DEF ManType
<1>5. CoverageBounded'
  <2>1. \A h \in Gen : manFiles'[h].walSeq <= current'
    BY <1>2, <1>3 DEF Absent
  <2>2. mem'.walSeq = manFiles[g].walSeq
    BY <1>1
  <2>. QED  BY <1>2, <2>1, <2>2 DEF CoverageBounded
<1>6. StoringOK'
  BY <1>1 DEF StoringOK, NotStoring
<1>7. CurrentCovers'
  <2>1. \A h \in curs' \ stale' : h = g
    BY <1>1
  <2>2. mem'.walSeq = manFiles[g].walSeq /\ manFiles'[g] = manFiles[g]
    BY <1>1, <1>3
  <2>. QED  BY <1>2, <2>1, <2>2 DEF CurrentCovers
<1>8. CursOK' /\ CurrentReadable'
  <2>1. mem'.gen = g
    BY <1>1
  <2>2. \A h \in curs' : h \in Nat /\ h <= g /\ manFiles'[h].is = "whole"
    BY <1>1, <1>2, <1>3 DEF Gen
  <2>3. g + 1 \notin curs'
    BY <1>2, <2>2
  <2>4. g \in curs' /\ cur' = g /\ g <= g
    BY <1>1, <1>2
  <2>7. \A h \in stale' : h < g
    BY <1>1
  <2>5. \A h \in curs' : h <= g + 1
    BY <1>2, <2>2
  <2>6. CursOK'
    BY <2>1, <2>2, <2>3, <2>4, <2>5, <2>7 DEF CursOK
  <2>. QED  BY <2>1, <2>4, <2>6 DEF CurrentReadable
<1>. QED  BY <1>4, <1>5, <1>6, <1>7, <1>8

\* After a death the others are those CURRENT has left behind.
LEMMA ProcessDeathKeeps ==
    ASSUME ManInv, ProcessDeath, current \in Nat, current' = current + 1
    PROVE  ManInv'
<1>. USE DEF ManInv
<1>. DEFINE others == curs \ {cur}
<1>1. /\ LoadFrom(cur, others) /\ pending' = 0 /\ firstWal' = manFiles[cur].walSeq + 1
      /\ crashes' = crashes + 1
  BY DEF ProcessDeath, Crashes
<1>2. cur \in Gen /\ others \in SUBSET Gen /\ crashes' \in Nat /\ mem.gen \in Nat
  BY <1>1 DEF ManType, Gen
<1>3. ASSUME NEW h \in others PROVE h < cur /\ manFiles[h].is = "whole"
  <2>1. h \in Nat /\ cur \in Nat /\ h # cur
    BY <1>2 DEF Gen
  <2>2. h # mem.gen + 1
    BY <2>1 DEF CursOK
  <2>. QED  BY <1>2, <2>1, <2>2 DEF CursOK
<1>4. \A h \in others \cup {cur} : manFiles[h].walSeq <= current'
  BY <1>2 DEF CoverageBounded, ManType
<1>. QED  BY <1>1, <1>2, <1>3, <1>4, LoadKeeps

LEMMA PowerFailureKeeps ==
    ASSUME ManInv, WalInv, PowerFailure
    PROVE  ManInv' /\ WalInv'
<1>1. PICK g \in curs : /\ LoadFrom(g, {}) /\ PowerLoss(Volatile, manFiles[g].walSeq)
                        /\ firstWal' = manFiles[g].walSeq + 1
  BY DEF PowerFailure
<1>2. /\ pending' = 0 /\ crashes' \in Nat /\ g \in Gen /\ manFiles[g].walSeq \in Nat
  BY DEF PowerFailure, Crashes, ManInv, ManType
<1>3. WalInv' /\ manFiles[g].walSeq < current'
  BY <1>1, <1>2, PowerLossKeeps
<1>4. current' \in Nat
  BY <1>3 DEF WalInv, WalType, File
<1>5. manFiles[g].walSeq <= current'
  BY <1>2, <1>3, <1>4
<1>. QED  BY <1>1, <1>2, <1>3, <1>4, <1>5, LoadKeeps

----------------------------------------------------------------------------
(* Every step keeps the invariant *)

LEMMA InitOK == Init => IInv
BY WalInitOK, ManInitOK DEF IInv

LEMMA NextKeeps == IInv /\ [Next]_vars => IInv'
<1>. SUFFICES ASSUME IInv, [Next]_vars PROVE IInv'
  OBVIOUS
<1>. USE DEF IInv
<1>0. WalType /\ current \in Nat /\ crashes \in Nat /\ cur \in Gen /\ mem.walSeq \in Nat
  BY DEF WalInv, WalType, File, ManInv, ManType
<1>1. ASSUME NEW t \in Thread, ClientWrite(t) PROVE IInv'
  <2>1. current' = current
    BY <1>1 DEF ClientWrite, Write, WriteAlways, WriteEveryN, WriteBatch, Append
  <2>. QED  BY <1>1, <2>1, WriteKeeps, ManUnchanged DEF ClientWrite
<1>2. ASSUME NEW t \in Thread, ClientWait(t) PROVE IInv'
  <2>1. current' = current
    BY <1>2 DEF ClientWait, Wait, WaitDone, WaitLead, WaitSleep, LeaderSync, LeaderDone,
                LeaderFailed
  <2>. QED  BY <1>2, <2>1, WaitKeeps, ManUnchanged DEF ClientWait
<1>3. ASSUME Rotate PROVE IInv'
  BY <1>0, <1>3, NewFileKeeps, RotateKeeps DEF Rotate
<1>4. ASSUME UNCHANGED walVars PROVE WalInv' /\ current' = current
  <2>1. UNCHANGED <<policy, current, appended, durable, linked, unsynced, synced, syncing, pc,
                    token, acked>>
    BY <1>4 DEF walVars
  <2>2. WalType' /\ DurableOK' /\ AckedDurable' /\ AckedWritten'
    BY <2>1 DEF WalInv, WalType, DurableOK, AckedDurable, AckedWritten
  <2>3. UnsafeCounted'
    BY <2>1 DEF WalInv, UnsafeCounted, Unsafe
  <2>. QED  BY <2>1, <2>2, <2>3 DEF WalInv
<1>5. ASSUME FlushCommit PROVE IInv'
  <2>1. mem.walSeq <= pending /\ StoreCreate(pending) /\ UNCHANGED <<walVars, fileVars>>
    BY <1>5 DEF FlushCommit, ManInv, CoverageBounded
  <2>2. WalInv' /\ current' = current
    BY <1>4, <2>1
  <2>. QED  BY <1>0, <2>1, <2>2, CreateKeeps
<1>6. ASSUME CompactCommit PROVE IInv'
  <2>1. mem.walSeq <= mem.walSeq
    BY <1>0
  <2>2. WalInv' /\ current' = current
    BY <1>4, <1>6 DEF CompactCommit
  <2>. QED  BY <1>0, <1>6, <2>1, <2>2, CreateKeeps DEF CompactCommit
<1>7. ASSUME Commit PROVE IInv'
  <2>1. WalInv' /\ current' = current
    BY <1>4, <1>7 DEF Commit
  <2>. QED  BY <1>0, <1>7, <2>1, StoreWriteKeeps, StoreRenameKeeps, StoreFailsKeeps
            DEF Commit, StoreStep
<1>8. ASSUME CommitReturns PROVE IInv'
  <2>1. WalInv'
    BY <1>4, <1>8 DEF CommitReturns
  <2>. QED  BY <1>0, <1>8, <2>1, CommitReturnsKeeps
<1>9. ASSUME ProcessDeath PROVE IInv'
  <2>1. Restart /\ current' = current + 1
    BY <1>9 DEF ProcessDeath, Restart, Restarted, Opened
  <2>. QED  BY <1>0, <1>9, <2>1, RestartKeeps, ProcessDeathKeeps
<1>10. ASSUME PowerFailure PROVE IInv'
  BY <1>10, PowerFailureKeeps
<1>11. ASSUME UNCHANGED vars PROVE IInv'
  <2>1. UNCHANGED walVars /\ UNCHANGED <<manVars, fileVars>>
    BY <1>11 DEF vars
  <2>. QED  BY <1>4, <2>1, ManUnchanged
<1>. QED  BY <1>1, <1>2, <1>3, <1>5, <1>6, <1>7, <1>8, <1>9, <1>10, <1>11
          DEF Next, Maintenance, Process

THEOREM Invariance == Spec => []IInv
<1>1. Init => IInv
  BY InitOK
<1>2. IInv /\ [Next]_vars => IInv'
  BY NextKeeps
<1>. QED  BY <1>1, <1>2, PTL DEF Spec

\* What Always and Batch acknowledged is on disk in a log that is there, or
\* covered, whichever CURRENT a loss of power leaves: after any number of deaths
\* and losses, but for the logs whose entry a loss takes and for a CURRENT that an
\* open has gone by.
THEOREM AckedSurvivesAlways == Spec => []AckedSurvives
<1>1. IInv => AckedSurvives
  <2>. SUFFICES ASSUME IInv, policy # EveryN, NEW w \in acked, NEW g \in curs \ stale,
                       manFiles[g].is = "whole"
                PROVE  \/ w[1] <= manFiles[g].walSeq
                       \/ w[1] >= firstWal /\ w[2] <= durable[w[1]]
    BY DEF AckedSurvives
  <2>. USE DEF IInv, WalInv, ManInv
  <2>1. w[2] <= durable[w[1]] /\ w[1] \in Nat
    BY DEF AckedDurable, WalType, File
  <2>2. /\ mem.walSeq <= manFiles[g].walSeq /\ firstWal = mem.walSeq + 1
        /\ mem.walSeq \in Nat /\ manFiles[g].walSeq \in Nat
    BY DEF CurrentCovers, CoverageBounded, ManType
  <2>. QED  BY <2>1, <2>2
<1>. QED  BY <1>1, Invariance, PTL

\* EveryN(n) loses less than n acknowledged writes of a file that is there.
THEOREM LossBoundedAlways == Spec => []LossBounded
<1>1. IInv => LossBounded
  BY DEF IInv, WalInv, UnsafeCounted, Unsafe, LossBounded
<1>. QED  BY <1>1, Invariance, PTL

\* The manifest an open reads is whole, after any number of deaths and losses of
\* power between any two calls, unless a store failed after its rename.
THEOREM ManifestAlwaysReadable == Spec => []ManifestReadable
<1>1. IInv => ManifestReadable
  <2>. SUFFICES ASSUME IInv, ~late, NEW g \in curs
                PROVE  manFiles[g].is = "whole"
    BY DEF ManifestReadable
  <2>. USE DEF IInv, ManInv
  <2>0. g \in Nat /\ mem.gen \in Nat
    BY DEF ManType, Gen
  <2>1. ASSUME g # mem.gen + 1 PROVE manFiles[g].is = "whole"
    BY <2>0, <2>1 DEF CursOK
  <2>2. ASSUME g = mem.gen + 1 PROVE manFiles[g].is = "whole"
    <3>1. cur # mem.gen
      BY <2>0, <2>2 DEF CursOK
    <3>2. storing.at = "renamed"
      BY <3>1 DEF CurrentReadable
    <3>3. manFiles[g] = Whole(storing.walSeq)
      BY <2>2, <3>2 DEF StoringOK
    <3>. QED  BY <3>3 DEF Whole
  <2>. QED  BY <2>1, <2>2
<1>. QED  BY <1>1, Invariance, PTL

\* What an open replays after moves with the rename of a commit only.
THEOREM CoverageMovesAtRenameAlways == Spec => CoverageMovesAtRename
<1>. DEFINE Moves == Loadable /\ Loadable' /\ Covered' # Covered =>
                        \/ storing.at = "written" /\ Covered' = storing.walSeq
                        \/ crashes' # crashes /\ \E g \in curs : Covered' = manFiles[g].walSeq
<1>1. IInv /\ [Next]_vars => [Moves]_vars
  <2>. SUFFICES ASSUME IInv, Next, Loadable, Loadable', Covered' # Covered
                PROVE  \/ storing.at = "written" /\ Covered' = storing.walSeq
                       \/ crashes' # crashes /\ \E g \in curs : Covered' = manFiles[g].walSeq
    OBVIOUS
  <2>. USE DEF IInv, ManInv, Loadable, Covered
  <2>0. cur \in Gen /\ cur \in curs /\ curs \subseteq Gen /\ crashes \in Nat
    BY DEF ManType, CursOK
  <2>1. ~UNCHANGED <<manFiles, cur>>
    OBVIOUS
  <2>2. ASSUME NEW seq, StoreCreate(seq) PROVE FALSE
    <3>1. manFiles' = [manFiles EXCEPT ![mem.gen + 1] = Torn] /\ cur' = cur
      BY <2>2 DEF StoreCreate
    <3>. QED  BY <2>0, <3>1 DEF ManType, Torn
  <2>3. ASSUME StoreWrite PROVE FALSE
    <3>1. /\ manFiles' = [manFiles EXCEPT ![storing.gen] = Whole(storing.walSeq)]
          /\ cur' = cur /\ manFiles[storing.gen].is = "torn" /\ storing.gen \in Gen
      BY <2>3 DEF StoreWrite, StoringOK, ManType
    <3>. QED  BY <2>0, <3>1 DEF ManType
  <2>4. ASSUME StoreRename PROVE storing.at = "written" /\ Covered' = storing.walSeq
    BY <2>4 DEF StoreRename, StoringOK, Whole
  <2>5. ASSUME StoreFails PROVE FALSE
    BY <2>1, <2>5 DEF StoreFails
  <2>6. ASSUME CommitReturns PROVE FALSE
    <3>1. manFiles' = Collected({cur}) /\ cur' = cur
      BY <2>6 DEF CommitReturns, StoreReturns
    <3>. QED  BY <2>0, <3>1 DEF Collected
  <2>7. ASSUME NEW g \in Gen, NEW others, LoadFrom(g, others)
        PROVE  cur' = g /\ Covered' = manFiles[g].walSeq
    BY <2>7 DEF LoadFrom, Collected
  <2>8. ASSUME ProcessDeath PROVE FALSE
    BY <2>0, <2>7, <2>8 DEF ProcessDeath
  <2>9. ASSUME PowerFailure
        PROVE  crashes' # crashes /\ \E g \in curs : Covered' = manFiles[g].walSeq
    <3>1. crashes' # crashes
      BY <2>0, <2>9 DEF PowerFailure, Crashes
    <3>2. \E g \in curs : Covered' = manFiles[g].walSeq
      BY <2>0, <2>7, <2>9 DEF PowerFailure
    <3>. QED  BY <3>1, <3>2
  <2>10. ASSUME UNCHANGED manVars PROVE FALSE
    BY <2>1, <2>10 DEF manVars
  <2>. QED
    BY <2>2, <2>3, <2>4, <2>5, <2>6, <2>8, <2>9, <2>10
       DEF Next, ClientWrite, ClientWait, Rotate, Maintenance, FlushCommit, CompactCommit,
           Commit, StoreStep, Process
<1>. QED  BY <1>1, Invariance, PTL DEF Spec, CoverageMovesAtRename
============================================================================
