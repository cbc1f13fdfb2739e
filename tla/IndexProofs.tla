----------------------------- MODULE IndexProofs -----------------------------
(***************************************************************************)
(* The two concurrent parts of the index.  The parallel construction of an *)
(* HNSW graph, for any vectors, any number of threads and any levels:      *)
(* every list that a search may read is well formed at every moment, a     *)
(* finished graph has lost edges only in full lists, and its entry is a    *)
(* row of the highest level.  The search pool, for any callers, any number *)
(* of workers and whatever the parts of a search find: a search merges     *)
(* each part once, none waits for a result that cannot come, and closing   *)
(* leaves no job undone.                                                   *)
(***************************************************************************)
EXTENDS HnswBuild, Pool, FiniteSetTheorems, FunctionTheorems, SequenceTheorems,
        WellFoundedInduction, TLAPS

-----------------------------------------------------------------------------
(* Induction *)

LEMMA LeastNatural ==
    ASSUME NEW S, S \subseteq Nat, S # {}
    PROVE  \E m \in S : \A n \in S : m <= n
<1>1. PICK m \in S : \A n \in S : ~(<<n, m>> \in OpToRel(<, Nat))
  BY NatLessThanWellFounded, WFMin
<1>2. ASSUME NEW n \in S PROVE m <= n
  <2>1. n \in Nat /\ m \in Nat
    OBVIOUS
  <2>2. ASSUME n < m PROVE FALSE
    <3>1. <<n, m>> \in OpToRel(<, Nat)
      BY <2>1, <2>2 DEF OpToRel
    <3> QED BY <1>1, <3>1
  <2> QED BY <2>1, <2>2
<1> QED BY <1>2

\* A set of numbers up to n with 0 and with every successor has them all.
LEMMA UpToAll ==
    ASSUME NEW n \in Nat, NEW S, 0 \in S, \A i \in 1..n : i - 1 \in S => i \in S
    PROVE  n \in S
<1> SUFFICES ASSUME n \notin S PROVE FALSE
  OBVIOUS
<1> DEFINE missing == {i \in 0..n : i \notin S}
<1>1. missing \subseteq Nat /\ missing # {}
  OBVIOUS
<1>2. PICK m \in missing : \A k \in missing : m <= k
  <2> HIDE DEF missing
  <2> QED BY <1>1, LeastNatural
<1>3. m \in 1..n /\ m - 1 \in 0..n
  OBVIOUS
<1>4. m - 1 \in S
  BY <1>2, <1>3
<1> QED BY <1>3, <1>4

LEMMA MaxIs ==
    ASSUME NEW n \in Nat, NEW s \in SUBSET (1..n), s # {}
    PROVE  Max(s) \in s /\ \A i \in s : i <= Max(s)
<1> DEFINE below == {n - i : i \in s}
<1>1. below \subseteq Nat /\ below # {}
  OBVIOUS
<1>2. PICK b \in below : \A k \in below : b <= k
  <2> HIDE DEF below
  <2> QED BY <1>1, LeastNatural
<1>3. PICK m \in s : b = n - m
  OBVIOUS
<1>4. ASSUME NEW i \in s PROVE m >= i
  <2>1. n - i \in below
    OBVIOUS
  <2>2. b <= n - i
    <3> HIDE DEF below
    <3> QED BY <1>2, <2>1
  <2>3. i \in Int /\ m \in Int
    OBVIOUS
  <2> QED BY <1>3, <2>2, <2>3
<1>5. \E x \in s : \A y \in s : x >= y
  BY <1>4
<1> QED BY <1>5 DEF Max

LEMMA MaxOfPrefix ==
    ASSUME NEW n \in Nat, NEW i \in 1..n
    PROVE  Max(1..i) = i /\ (1..i) \ {i} = 1..(i - 1) /\ 1..i # {} /\ 1..i \in SUBSET (1..n)
<1>1. 1..i # {} /\ 1..i \in SUBSET (1..n) /\ i \in 1..i
  OBVIOUS
<1>2. Max(1..i) \in 1..i /\ \A k \in 1..i : k <= Max(1..i)
  BY <1>1, MaxIs
<1>3. Max(1..i) = i
  BY <1>1, <1>2
<1>4. (1..i) \ {i} = 1..(i - 1)
  OBVIOUS
<1> QED BY <1>1, <1>3, <1>4

-----------------------------------------------------------------------------
(* Folds.  FoldLeft is the value at the whole domain of a function over    *)
(* sets of positions; that there is such a function has to be proved.      *)

IsFold(it, n, base, step) ==
    it = [s \in SUBSET (1..n) |->
            IF s = {} THEN base ELSE step[<<it[s \ {Max(s)}], Max(s)>>]]

LEMMA FoldExists ==
    ASSUME NEW n \in Nat, NEW V, NEW base \in V, NEW step,
           \A y \in V, i \in 1..n : step[<<y, i>>] \in V
    PROVE  \E it \in [SUBSET (1..n) -> V] : IsFold(it, n, base, step)
<1> DEFINE Small(k) == {s \in SUBSET (1..n) : Cardinality(s) <= k}
           Next(it, s) == IF s = {} THEN base ELSE step[<<it[s \ {Max(s)}], Max(s)>>]
           Good(k, it) == it \in [Small(k) -> V] /\ \A s \in Small(k) : it[s] = Next(it, s)
           good == {k \in Nat : \E it : Good(k, it)}
<1>1. \A s \in SUBSET (1..n) : IsFiniteSet(s) /\ Cardinality(s) \in Nat /\ Cardinality(s) <= n
  <2>1. IsFiniteSet(1..n) /\ Cardinality(1..n) = n
    BY FS_Interval
  <2> QED BY <2>1, FS_Subset, FS_CardinalityType
<1>2. 0 \in good
  <2>1. \A s \in Small(0) : s = {}
    BY <1>1, FS_EmptySet
  <2>2. Good(0, [s \in Small(0) |-> base])
    BY <2>1
  <2> QED BY <2>2
<1>3. ASSUME NEW k \in 1..n, k - 1 \in good PROVE k \in good
  <2>1. PICK it : Good(k - 1, it)
    BY <1>3
  <2> DEFINE more == [s \in Small(k) |-> Next(it, s)]
  <2>2. ASSUME NEW s \in Small(k), s # {}
        PROVE  /\ Max(s) \in 1..n /\ s \ {Max(s)} \in Small(k - 1) /\ s \ {Max(s)} \in Small(k)
    <3>1. Max(s) \in s /\ Max(s) \in 1..n
      BY <2>2, MaxIs
    <3>2. Cardinality(s \ {Max(s)}) = Cardinality(s) - 1
      BY <1>1, <3>1, FS_RemoveElement
    <3>3. s \ {Max(s)} \in SUBSET (1..n) /\ Cardinality(s) <= k /\ Cardinality(s) \in Nat
      BY <1>1
    <3>4. Cardinality(s) - 1 <= k - 1 /\ Cardinality(s) - 1 <= k
      BY <3>3
    <3> QED BY <3>1, <3>2, <3>3, <3>4
  <2>3. ASSUME NEW s \in Small(k) PROVE more[s] \in V /\ more[s] = Next(more, s)
    <3>1. CASE s = {}
      BY <3>1
    <3>2. CASE s # {}
      <4> DEFINE rest == s \ {Max(s)}
      <4>1. rest \in Small(k - 1) /\ rest \in Small(k) /\ Max(s) \in 1..n
        BY <2>2, <3>2
      <4>2. it[rest] = Next(it, rest) /\ it[rest] \in V
        BY <2>1, <4>1
      <4>3. more[rest] = it[rest]
        <5> HIDE DEF rest, Small
        <5> QED BY <4>1, <4>2
      <4>4. more[s] = step[<<it[rest], Max(s)>>]
        BY <3>2
      <4> QED BY <3>2, <4>1, <4>2, <4>3, <4>4
    <3> QED BY <3>1, <3>2
  <2>4. Good(k, more)
    BY <2>3
  <2>5. k \in Nat
    OBVIOUS
  <2> HIDE DEF Good
  <2> QED BY <2>4, <2>5
<1>4. n \in good
  <2> HIDE DEF good
  <2> QED BY <1>2, <1>3, UpToAll
<1>5. PICK it : Good(n, it)
  BY <1>4
<1>6. Small(n) = SUBSET (1..n)
  BY <1>1
<1>7. it \in [SUBSET (1..n) -> V] /\ IsFold(it, n, base, step)
  BY <1>5, <1>6 DEF IsFold
<1> QED BY <1>7

\* What holds of the base and is kept by every step holds of the result.
LEMMA FoldKeeps ==
    ASSUME NEW n \in Nat, NEW it, NEW T, it[{}] \in T[0],
           \A i \in 1..n : it[1..(i - 1)] \in T[i - 1] => it[1..i] \in T[i]
    PROVE  it[1..n] \in T[n]
<1> DEFINE S == {i \in 0..n : it[1..i] \in T[i]}
<1>1. 1..0 = {} /\ 0 \in S
  <2>1. 1..0 = {}
    OBVIOUS
  <2> QED BY <2>1
<1>2. \A i \in 1..n : i - 1 \in S => i \in S
  OBVIOUS
<1>3. n \in S
  <2> HIDE DEF S
  <2> QED BY <1>1, <1>2, UpToAll
<1> QED BY <1>3

-----------------------------------------------------------------------------
(* Keys and the order of rows *)

LEMMA RowsAre ==
    /\ IsFiniteSet(Rows) /\ Rows \subseteq Nat /\ 0 \in Rows
    /\ \A r \in Rows : \A i \in 0..r : i \in Rows
    /\ \A r \in Rows : Vec[r] \in Seq(Int) /\ Len(Vec[r]) = Len(Vec[0])
<1>1. Cardinality(DOMAIN Vec) \in Nat
  BY HnswAssumption, FS_CardinalityType
<1>2. PICK n \in Nat : n = Cardinality(DOMAIN Vec)
  BY <1>1
<1>3. Rows = 0..(n - 1) /\ Rows # {}
  BY <1>2, HnswAssumption DEF Rows
<1> QED BY <1>3, HnswAssumption DEF Rows

LEMMA DistanceIs ==
    ASSUME NEW a \in Seq(Int), NEW b \in Seq(Int), Len(a) = Len(b)
    PROVE  DistanceKey(a, b) \in Int
<1> DEFINE term(i) == IF Metric = "L2" THEN (a[i] - b[i]) * (a[i] - b[i]) ELSE -(a[i] * b[i])
           terms == [i \in DOMAIN a |-> term(i)]
           n == Len(a)
           step == [x \in Int \X (1..n) |-> x[1] + terms[x[2]]]
<1>1. n \in Nat /\ DOMAIN terms = 1..n /\ \A i \in 1..n : terms[i] \in Int
  OBVIOUS
<1>2. \A y \in Int, i \in 1..n : step[<<y, i>>] = y + terms[i] /\ step[<<y, i>>] \in Int
  <2> HIDE DEF terms, n
  <2> QED BY <1>1
<1> DEFINE Is(it) == it = [s \in SUBSET DOMAIN terms |->
                            IF s = {} THEN 0 ELSE it[s \ {Max(s)}] + terms[Max(s)]]
           sum == CHOOSE it : Is(it)
<1>3. DistanceKey(a, b) = sum[DOMAIN terms]
  BY DEF DistanceKey, FoldLeft, MapThenFoldSet
<1>4. \E it : Is(it)
  <2>1. PICK it \in [SUBSET (1..n) -> Int] : IsFold(it, n, 0, step)
    <3>0. 0 \in Int
      OBVIOUS
    <3> HIDE DEF step, n, terms
    <3>1. n \in Nat /\ 0 \in Int /\ \A y \in Int, i \in 1..n : step[<<y, i>>] \in Int
      BY <1>1, <1>2, <3>0, Zenon
    <3> QED BY <3>1, FoldExists
  <2>2. ASSUME NEW s \in SUBSET (1..n), s # {}
        PROVE  step[<<it[s \ {Max(s)}], Max(s)>>] = it[s \ {Max(s)}] + terms[Max(s)]
    <3>1. Max(s) \in 1..n /\ s \ {Max(s)} \in SUBSET (1..n)
      BY <1>1, <2>2, MaxIs
    <3> HIDE DEF step, terms, n
    <3> QED BY <1>2, <3>1
  <2>3. Is(it)
    <3> HIDE DEF step, terms, n
    <3> QED BY <1>1, <2>1, <2>2 DEF IsFold
  <2> QED BY <2>3
<1>5. Is(sum)
  <2> HIDE DEF Is
  <2> QED BY <1>4
<1>6. sum[{}] \in Int
  <2> HIDE DEF sum, terms
  <2> QED BY <1>5
<1>7. ASSUME NEW i \in 1..n, sum[1..(i - 1)] \in Int PROVE sum[1..i] \in Int
  <2> HIDE DEF sum, terms, n
  <2>0. Max(1..i) = i /\ (1..i) \ {i} = 1..(i - 1) /\ 1..i # {} /\ 1..i \in SUBSET (1..n)
    BY <1>1, MaxOfPrefix
  <2>1. sum[1..i] = sum[1..(i - 1)] + terms[i]
    BY <1>1, <1>5, <2>0
  <2> QED BY <1>1, <1>7, <2>1
<1>8. sum[1..n] \in Int
  <2> DEFINE T == [i \in 0..n |-> Int]
  <2> HIDE DEF sum, n
  <2>1. sum[{}] \in T[0] /\ \A i \in 1..n : sum[1..(i - 1)] \in T[i - 1] => sum[1..i] \in T[i]
    BY <1>1, <1>6, <1>7
  <2>2. sum[1..n] \in T[n]
    <3> HIDE DEF T
    <3> QED BY <1>1, <2>1, FoldKeeps
  <2> QED BY <1>1, <2>2
<1> QED BY <1>1, <1>3, <1>8

LEMMA KeysAre ==
    ASSUME NEW r \in Rows
    PROVE  Keys(Vec[r]) \in [Rows -> Int]
BY RowsAre, DistanceIs DEF Keys

LEMMA BeforeIs ==
    ASSUME NEW key \in [Rows -> Int]
    PROVE  /\ \A u \in Rows : ~Before(key, u, u)
           /\ \A u, v \in Rows : u = v \/ Before(key, u, v) \/ Before(key, v, u)
           /\ \A u, v, w \in Rows : Before(key, u, v) /\ Before(key, v, w) => Before(key, u, w)
<1>1. \A u \in Rows : u \in Int /\ key[u] \in Int
  BY RowsAre
<1> QED BY <1>1 DEF Before

LEMMA RankIs ==
    ASSUME NEW key \in [Rows -> Int], NEW S \in SUBSET Rows
    PROVE  /\ IsFiniteSet(S) /\ Cardinality(S) \in Nat
           /\ \A u \in S : Rank(key, S, u) \in 0..(Cardinality(S) - 1)
           /\ \A u, v \in S : Before(key, u, v) => Rank(key, S, u) < Rank(key, S, v)
           /\ \A u, v \in S : Rank(key, S, u) = Rank(key, S, v) => u = v
           /\ \A k \in 0..(Cardinality(S) - 1) : \E u \in S : Rank(key, S, u) = k
<1> DEFINE ahead(u) == {v \in S : Before(key, v, u)}
<1>0. IsFiniteSet(S) /\ Cardinality(S) \in Nat
  BY RowsAre, FS_Subset, FS_CardinalityType
<1>1. ASSUME NEW u \in S PROVE Rank(key, S, u) \in 0..(Cardinality(S) - 1)
  <2>1. ahead(u) \in SUBSET S /\ u \notin ahead(u)
    BY BeforeIs
  <2>2. ahead(u) # S
    BY <2>1
  <2>3. IsFiniteSet(ahead(u)) /\ Cardinality(ahead(u)) <= Cardinality(S)
        /\ Cardinality(S) # Cardinality(ahead(u))
    <3> HIDE DEF ahead
    <3> QED BY <1>0, <2>1, <2>2, FS_Subset
  <2>4. Cardinality(ahead(u)) \in Nat
    BY <2>3, FS_CardinalityType
  <2>5. Rank(key, S, u) = Cardinality(ahead(u))
    BY DEF Rank
  <2> HIDE DEF ahead
  <2> QED BY <1>0, <2>3, <2>4, <2>5
<1>2. ASSUME NEW u \in S, NEW v \in S, Before(key, u, v) PROVE Rank(key, S, u) < Rank(key, S, v)
  <2>1. ahead(u) \in SUBSET ahead(v)
    BY <1>2, BeforeIs
  <2>2. u \in ahead(v) /\ u \notin ahead(u)
    BY <1>2, BeforeIs
  <2>3. ahead(v) \in SUBSET S
    OBVIOUS
  <2>4. Rank(key, S, u) = Cardinality(ahead(u)) /\ Rank(key, S, v) = Cardinality(ahead(v))
    BY DEF Rank
  <2> HIDE DEF ahead
  <2>5. IsFiniteSet(ahead(v))
    BY <1>0, <2>3, FS_Subset
  <2>6. Cardinality(ahead(u)) <= Cardinality(ahead(v)) /\ Cardinality(ahead(u)) # Cardinality(ahead(v))
    BY <2>1, <2>2, <2>5, FS_Subset
  <2>7. Rank(key, S, u) \in Int /\ Rank(key, S, v) \in Int
    BY <1>0, <1>1
  <2> QED BY <2>4, <2>6, <2>7
<1>3. ASSUME NEW u \in S, NEW v \in S, Rank(key, S, u) = Rank(key, S, v) PROVE u = v
  <2>1. Rank(key, S, u) \in Int /\ Rank(key, S, v) \in Int
    BY <1>0, <1>1
  <2>2. ~Before(key, u, v) /\ ~Before(key, v, u)
    BY <1>2, <1>3, <2>1
  <2> QED BY <2>2, BeforeIs
<1>4. ASSUME NEW k \in 0..(Cardinality(S) - 1) PROVE \E u \in S : Rank(key, S, u) = k
  <2> DEFINE places == 0..(Cardinality(S) - 1)
             f == [u \in S |-> Rank(key, S, u)]
  <2>1. IsFiniteSet(places) /\ Cardinality(places) = Cardinality(S)
    BY <1>0, FS_Interval
  <2>2. \A u \in S : f[u] \in places
    BY <1>1
  <2>3. f \in Injection(S, places)
    BY <1>3, <2>2, Fun_IsInj
  <2>4. f \in Surjection(S, places)
    BY <1>0, <2>1, <2>3, FS_Injection
  <2>5. \E u \in S : f[u] = k
    BY <2>4 DEF Surjection
  <2> QED BY <2>5
<1> QED BY <1>0, <1>1, <1>2, <1>3, <1>4

LEMMA NearestIs ==
    ASSUME NEW key \in [Rows -> Int], NEW S \in SUBSET Rows, S # {}
    PROVE  Nearest(key, S) \in S
<1>1. IsFiniteSet(S) /\ Cardinality(S) \in Nat /\ Cardinality(S) # 0
  BY RankIs, FS_EmptySet
<1>2. PICK u \in S : Rank(key, S, u) = 0
  BY <1>1, RankIs
<1>3. ASSUME NEW v \in S \ {u} PROVE Before(key, u, v)
  <2>1. ~Before(key, v, u)
    <3>1. Rank(key, S, v) \in 0..(Cardinality(S) - 1)
      BY RankIs
    <3>2. Before(key, v, u) => Rank(key, S, v) < Rank(key, S, u)
      BY RankIs
    <3> QED BY <1>1, <1>2, <3>1, <3>2
  <2> QED BY <2>1, BeforeIs
<1> QED BY <1>3 DEF Nearest

\* The rows of a sequence, each once
Arranges(seq, S) ==
    /\ seq \in Seq(S) /\ ToSet(seq) = S
    /\ \A i, j \in DOMAIN seq : seq[i] = seq[j] => i = j

LEMMA SortedIs ==
    ASSUME NEW key \in [Rows -> Int], NEW S \in SUBSET Rows
    PROVE  Arranges(Sorted(key, S), S) /\ Len(Sorted(key, S)) = Cardinality(S)
<1> DEFINE n == Cardinality(S)
           seq == Sorted(key, S)
<1>1. n \in Nat
  BY RankIs
<1>2. seq = [i \in 1..n |-> CHOOSE u \in S : Rank(key, S, u) = i - 1]
  BY DEF Sorted
<1>3. ASSUME NEW i \in 1..n PROVE seq[i] \in S /\ Rank(key, S, seq[i]) = i - 1
  <2>1. i - 1 \in 0..(n - 1)
    BY <1>1
  <2>2. \E u \in S : Rank(key, S, u) = i - 1
    <3> HIDE DEF n
    <3> QED BY <2>1, RankIs DEF n
  <2>3. seq[i] = CHOOSE u \in S : Rank(key, S, u) = i - 1
    <3> HIDE DEF seq, n
    <3> QED BY <1>2
  <2> HIDE DEF seq
  <2> QED BY <2>2, <2>3
<1>4. seq \in Seq(S) /\ Len(seq) = n /\ DOMAIN seq = 1..n
  <2> HIDE DEF n, seq
  <2>1. seq \in [1..n -> S]
    BY <1>2, <1>3
  <2> QED BY <1>1, <2>1
<1>5. ASSUME NEW u \in S PROVE u \in ToSet(seq)
  <2>1. Rank(key, S, u) \in 0..(n - 1)
    BY RankIs
  <2>2. PICK i \in 1..n : i - 1 = Rank(key, S, u)
    <3> HIDE DEF n
    <3>1. Rank(key, S, u) + 1 \in 1..n /\ (Rank(key, S, u) + 1) - 1 = Rank(key, S, u)
      BY <1>1, <2>1
    <3> QED BY <3>1
  <2> HIDE DEF seq, n
  <2>3. seq[i] \in S /\ Rank(key, S, seq[i]) = Rank(key, S, u)
    BY <1>3, <2>2
  <2>4. \A x, y \in S : Rank(key, S, x) = Rank(key, S, y) => x = y
    BY RankIs
  <2>5. seq[i] = u
    BY <2>3, <2>4
  <2> QED BY <1>4, <2>5 DEF ToSet
<1>6. ToSet(seq) \subseteq S
  <2> HIDE DEF seq, n
  <2> QED BY <1>3, <1>4 DEF ToSet
<1>7. ASSUME NEW i \in 1..n, NEW j \in 1..n, seq[i] = seq[j] PROVE i = j
  <2> HIDE DEF seq, n
  <2>1. i - 1 = j - 1 /\ i \in Int /\ j \in Int
    BY <1>3, <1>7
  <2> QED BY <2>1
<1> HIDE DEF seq, n
<1>8. ToSet(seq) = S
  BY <1>5, <1>6
<1>9. Arranges(seq, S) /\ Len(seq) = n
  BY <1>4, <1>7, <1>8 DEF Arranges
<1> QED BY <1>9 DEF seq, n

-----------------------------------------------------------------------------
(* Lists of neighbours *)

\* A list of rows of C without repetition, of at most m
Picks(list, C, m) == list \in Seq(C) /\ Len(list) <= m /\ IsInjective(list)

LEMMA AppendIs ==
    ASSUME NEW C, NEW list \in Seq(C), NEW c \in C
    PROVE  /\ Append(list, c) \in Seq(C) /\ Len(Append(list, c)) = Len(list) + 1
           /\ ToSet(Append(list, c)) = ToSet(list) \cup {c}
<1> DEFINE more == Append(list, c)
<1>1. more \in Seq(C) /\ Len(more) = Len(list) + 1 /\ Len(list) \in Nat
      /\ DOMAIN more = 1..(Len(list) + 1) /\ DOMAIN list = 1..Len(list)
      /\ more[Len(list) + 1] = c /\ \A i \in 1..Len(list) : more[i] = list[i]
  OBVIOUS
<1>2. ToSet(more) = ToSet(list) \cup {c}
  <2> HIDE DEF more
  <2>1. \A i \in DOMAIN more : more[i] \in ToSet(list) \cup {c}
    BY <1>1 DEF ToSet
  <2>2. \A i \in DOMAIN list : list[i] \in ToSet(more)
    <3> SUFFICES ASSUME NEW i \in 1..Len(list) PROVE list[i] \in ToSet(more)
      BY <1>1
    <3>1. i \in DOMAIN more /\ more[i] = list[i]
      BY <1>1
    <3> QED BY <3>1 DEF ToSet
  <2>3. c \in ToSet(more)
    <3>1. Len(list) + 1 \in DOMAIN more
      BY <1>1
    <3> QED BY <1>1, <3>1 DEF ToSet
  <2> QED BY <2>1, <2>2, <2>3 DEF ToSet
<1> QED BY <1>1, <1>2

LEMMA TailIs ==
    ASSUME NEW C, NEW list \in Seq(C), list # <<>>
    PROVE  /\ Head(list) \in C /\ Tail(list) \in Seq(C)
           /\ Tail(list) = <<>> => Len(list) = 1
           /\ ToSet(list) = {Head(list)} \cup ToSet(Tail(list))
<1> DEFINE tail == Tail(list)
           n    == Len(list)
<1>1. n \in Nat \ {0} /\ DOMAIN list = 1..n /\ Head(list) = list[1]
  OBVIOUS
<1>2. tail \in Seq(C) /\ Len(tail) = n - 1 /\ DOMAIN tail = 1..(n - 1)
      /\ \A i \in 1..(n - 1) : tail[i] = list[i + 1]
  OBVIOUS
<1>3. Head(list) \in C
  BY <1>1
<1>4. tail = <<>> => n = 1
  <2>1. Len(<<>>) = 0
    OBVIOUS
  <2> HIDE DEF tail, n
  <2> QED BY <1>1, <1>2, <2>1
<1> HIDE DEF tail, n
<1>5. \A i \in 1..n : i = 1 \/ (i - 1 \in 1..(n - 1) /\ list[i] = tail[i - 1])
  BY <1>1, <1>2
<1>6. \A i \in 1..(n - 1) : i + 1 \in 1..n
  BY <1>1
<1>7. ToSet(list) \subseteq {Head(list)} \cup ToSet(tail)
  <2>1. ASSUME NEW i \in 1..n PROVE list[i] \in {Head(list)} \cup ToSet(tail)
    <3>1. CASE i = 1
      BY <1>1, <3>1
    <3>2. CASE i # 1
      <4>1. list[i] = tail[i - 1] /\ i - 1 \in DOMAIN tail
        BY <1>2, <1>5, <3>2
      <4> QED BY <4>1 DEF ToSet
    <3> QED BY <3>1, <3>2
  <2> QED BY <1>1, <2>1 DEF ToSet
<1>8. Head(list) \in ToSet(list)
  BY <1>1 DEF ToSet
<1>9. ToSet(tail) \subseteq ToSet(list)
  <2>1. ASSUME NEW i \in 1..(n - 1) PROVE tail[i] \in ToSet(list)
    <3>1. tail[i] = list[i + 1] /\ i + 1 \in DOMAIN list
      BY <1>1, <1>2, <1>6
    <3> QED BY <3>1 DEF ToSet
  <2> QED BY <1>2, <2>1 DEF ToSet
<1> QED BY <1>2, <1>3, <1>4, <1>7, <1>8, <1>9 DEF tail, n

LEMMA AppendPicks ==
    ASSUME NEW C, NEW m \in Nat, NEW list, Picks(list, C, m), NEW c \in C,
           Len(list) < m, c \notin ToSet(list)
    PROVE  Picks(Append(list, c), C, m)
<1> DEFINE more == Append(list, c)
<1>1. list \in Seq(C) /\ IsInjective(list)
  BY DEF Picks
<1>2. more \in Seq(C) /\ Len(more) = Len(list) + 1 /\ Len(list) \in Nat
      /\ DOMAIN more = 1..(Len(list) + 1) /\ DOMAIN list = 1..Len(list)
      /\ more[Len(list) + 1] = c /\ \A i \in 1..Len(list) : more[i] = list[i]
  BY <1>1
<1>3. \A i \in 1..Len(list) : list[i] # c
  BY <1>2 DEF ToSet
<1>4. ASSUME NEW i \in DOMAIN more, NEW j \in DOMAIN more, more[i] = more[j] PROVE i = j
  <2> HIDE DEF more
  <2>1. CASE i \in 1..Len(list) /\ j \in 1..Len(list)
    BY <1>1, <1>2, <1>4, <2>1 DEF IsInjective
  <2>2. CASE i = Len(list) + 1 \/ j = Len(list) + 1
    BY <1>2, <1>3, <1>4, <2>2
  <2> QED BY <1>2, <2>1, <2>2
<1>5. Len(more) <= m
  BY <1>2
<1> QED BY <1>2, <1>4, <1>5 DEF Picks, IsInjective

LEMMA EmptyPicks ==
    ASSUME NEW C, NEW m \in Nat
    PROVE  Picks(<<>>, C, m) /\ ToSet(<<>>) = {}
BY DEF Picks, IsInjective, ToSet

\* select_heuristic picks m candidates, or all when there are not that many.
LEMMA SelectIs ==
    ASSUME NEW key, NEW C \in SUBSET Rows, NEW cands, Arranges(cands, C), NEW m \in Nat
    PROVE  LET sel == SelectHeuristic(key, cands, m)
           IN  Picks(sel, C, m) /\ (Len(sel) = m \/ ToSet(sel) = C)
<1> DEFINE n == Len(cands)
           V == Seq(C)
           diverse(sel, c) ==
             IF Len(sel) < m
                /\ \A i \in DOMAIN sel : DistanceKey(Vec[c], Vec[sel[i]]) > key[c]
             THEN Append(sel, c) ELSE sel
           fill(sel, c) ==
             IF Len(sel) < m /\ ~Contains(sel, c) THEN Append(sel, c) ELSE sel
           IsDiverse(it) == it = [s \in SUBSET DOMAIN cands |->
             IF s = {} THEN <<>> ELSE diverse(it[s \ {Max(s)}], cands[Max(s)])]
           first == (CHOOSE it : IsDiverse(it))[DOMAIN cands]
           IsFilled(it) == it = [s \in SUBSET DOMAIN cands |->
             IF s = {} THEN first ELSE fill(it[s \ {Max(s)}], cands[Max(s)])]
           sel == (CHOOSE it : IsFilled(it))[DOMAIN cands]
<1>1. SelectHeuristic(key, cands, m) = sel
  BY DEF SelectHeuristic, FoldLeft, MapThenFoldSet
<1>2. n \in Nat /\ DOMAIN cands = 1..n /\ \A i \in 1..n : cands[i] \in C
  BY DEF Arranges
<1>3. \A i, j \in 1..n : cands[i] = cands[j] => i = j
  BY <1>2 DEF Arranges
<1>4. \A y \in V, i \in 1..n : diverse(y, cands[i]) \in V /\ fill(y, cands[i]) \in V
  <2> SUFFICES ASSUME NEW y \in V, NEW i \in 1..n
               PROVE  diverse(y, cands[i]) \in V /\ fill(y, cands[i]) \in V
    OBVIOUS
  <2>1. Append(y, cands[i]) \in V
    BY <1>2
  <2> QED BY <2>1
<1>5. Picks(first, C, m)
  <2> DEFINE step == [x \in V \X (1..n) |-> diverse(x[1], cands[x[2]])]
             f == CHOOSE it : IsDiverse(it)
             T == [i \in 0..n |-> {list \in Seq(C) : Picks(list, C, m) /\ \A j \in DOMAIN list : \E k \in 1..i : list[j] = cands[k]}]
  <2>1. \A y \in V, i \in 1..n : step[<<y, i>>] = diverse(y, cands[i]) /\ step[<<y, i>>] \in V
    <3> HIDE DEF V, n, diverse
    <3> QED BY <1>4
  <2>2. PICK it \in [SUBSET (1..n) -> V] : IsFold(it, n, <<>>, step)
    <3>1. <<>> \in V /\ \A y \in V, i \in 1..n : step[<<y, i>>] \in V
      <4> HIDE DEF step
      <4> QED BY <2>1
    <3> HIDE DEF V, n, step
    <3> QED BY <1>2, <3>1, FoldExists
  <2>3. \A s \in SUBSET (1..n) : s # {} =>
          /\ Max(s) \in 1..n
          /\ step[<<it[s \ {Max(s)}], Max(s)>>] = diverse(it[s \ {Max(s)}], cands[Max(s)])
    <3> SUFFICES ASSUME NEW s \in SUBSET (1..n), s # {}
                 PROVE  /\ Max(s) \in 1..n
                        /\ step[<<it[s \ {Max(s)}], Max(s)>>] = diverse(it[s \ {Max(s)}], cands[Max(s)])
      OBVIOUS
    <3>1. Max(s) \in 1..n /\ it[s \ {Max(s)}] \in V
      <4> HIDE DEF V, n
      <4> QED BY <1>2, MaxIs
    <3> HIDE DEF V, n, step, diverse
    <3> QED BY <2>1, <3>1
  <2>4. IsDiverse(it)
    <3> HIDE DEF V, step, diverse
    <3> QED BY <1>2, <2>2, <2>3 DEF IsFold
  <2>5. IsDiverse(f)
    <3> HIDE DEF IsDiverse
    <3> QED BY <2>4
  <2>6. f[{}] = <<>> /\ \A i \in 1..n : f[1..i] = diverse(f[1..(i - 1)], cands[i])
    <3> HIDE DEF f, diverse, n
    <3>1. f[{}] = <<>>
      BY <2>5
    <3>2. ASSUME NEW i \in 1..n PROVE f[1..i] = diverse(f[1..(i - 1)], cands[i])
      <4>1. Max(1..i) = i /\ (1..i) \ {i} = 1..(i - 1) /\ 1..i # {} /\ 1..i \in SUBSET (1..n)
        BY <1>2, MaxOfPrefix
      <4> QED BY <1>2, <2>5, <4>1
    <3> QED BY <3>1, <3>2
  <2>7. f[{}] \in T[0]
    <3> HIDE DEF f, diverse
    <3> QED BY <1>2, <2>6, EmptyPicks
  <2>8. ASSUME NEW i \in 1..n, f[1..(i - 1)] \in T[i - 1] PROVE f[1..i] \in T[i]
    <3> DEFINE old == f[1..(i - 1)]
               c == cands[i]
    <3>1. Picks(old, C, m) /\ old \in Seq(C) /\ i \in 0..n /\ c \in C
          /\ \A j \in DOMAIN old : \E k \in 1..(i - 1) : old[j] = cands[k]
      <4>1. i - 1 \in 0..n /\ i \in 0..n /\ c \in C
        <5> HIDE DEF T, f, n
        <5> QED BY <1>2
      <4>2. T[i - 1] = {list \in Seq(C) :
                          Picks(list, C, m) /\ \A j \in DOMAIN list : \E k \in 1..(i - 1) : list[j] = cands[k]}
        <5> HIDE DEF f, n
        <5> QED BY <4>1
      <4>3. old \in T[i - 1]
        <5> HIDE DEF f, T
        <5> QED BY <2>8
      <4> HIDE DEF f, T, n, old
      <4> QED BY <4>1, <4>2, <4>3
    <3>2. f[1..i] = diverse(old, c)
      <4> HIDE DEF f, diverse
      <4> QED BY <2>6
    <3> HIDE DEF f, old, c, n
    <3>3. CASE diverse(old, c) = old
      BY <3>1, <3>2, <3>3
    <3>4. CASE diverse(old, c) # old
      <4>1. Len(old) < m /\ diverse(old, c) = Append(old, c)
        BY <3>4
      <4>2. c \notin ToSet(old)
        <5>1. \A k \in 1..(i - 1) : cands[k] # c
          BY <1>3 DEF c, n
        <5> QED BY <3>1, <5>1 DEF ToSet
      <4>3. Picks(Append(old, c), C, m)
        BY <3>1, <4>1, <4>2, AppendPicks
      <4>4. \A j \in DOMAIN Append(old, c) : Append(old, c)[j] = c \/ \E k \in 1..(i - 1) : Append(old, c)[j] = cands[k]
        BY <3>1
      <4>5. \A j \in DOMAIN Append(old, c) : \E k \in 1..i : Append(old, c)[j] = cands[k]
        BY <4>4 DEF c
      <4>6. Append(old, c) \in Seq(C)
        BY <3>1
      <4>7. Append(old, c) \in T[i]
        <5> DEFINE more == Append(old, c)
        <5> HIDE DEF more
        <5> QED BY <3>1, <4>3, <4>5, <4>6 DEF more
      <4> HIDE DEF T, diverse
      <4> QED BY <3>2, <4>1, <4>7
    <3> QED BY <3>3, <3>4
  <2>9. f[1..n] \in T[n]
    <3> HIDE DEF f, T, n
    <3> QED BY <1>2, <2>7, <2>8, FoldKeeps
  <2> QED
    <3>1. first = f[1..n]
      BY <1>2
    <3>2. n \in 0..n
      BY <1>2
    <3> HIDE DEF f, first, n
    <3> QED BY <2>9, <3>1, <3>2
<1>6. Picks(sel, C, m) /\ (Len(sel) = m \/ ToSet(sel) = C)
  <2> DEFINE step == [x \in V \X (1..n) |-> fill(x[1], cands[x[2]])]
             f == CHOOSE it : IsFilled(it)
             T == [i \in 0..n |-> {list \in Seq(C) : Picks(list, C, m) /\ (Len(list) = m \/ \A j \in 1..i : cands[j] \in ToSet(list))}]
  <2>1. \A y \in V, i \in 1..n : step[<<y, i>>] = fill(y, cands[i]) /\ step[<<y, i>>] \in V
    <3> HIDE DEF V, n, fill
    <3> QED BY <1>4
  <2>2. PICK it \in [SUBSET (1..n) -> V] : IsFold(it, n, first, step)
    <3>1. first \in V /\ \A y \in V, i \in 1..n : step[<<y, i>>] \in V
      <4> HIDE DEF step, first
      <4> QED BY <1>5, <2>1 DEF Picks
    <3> HIDE DEF V, n, step, first
    <3> QED BY <1>2, <3>1, FoldExists
  <2>3. \A s \in SUBSET (1..n) : s # {} =>
          /\ Max(s) \in 1..n
          /\ step[<<it[s \ {Max(s)}], Max(s)>>] = fill(it[s \ {Max(s)}], cands[Max(s)])
    <3> SUFFICES ASSUME NEW s \in SUBSET (1..n), s # {}
                 PROVE  /\ Max(s) \in 1..n
                        /\ step[<<it[s \ {Max(s)}], Max(s)>>] = fill(it[s \ {Max(s)}], cands[Max(s)])
      OBVIOUS
    <3>1. Max(s) \in 1..n /\ it[s \ {Max(s)}] \in V
      <4> HIDE DEF V, n
      <4> QED BY <1>2, MaxIs
    <3> HIDE DEF V, n, step, fill
    <3> QED BY <2>1, <3>1
  <2>4. IsFilled(it)
    <3> HIDE DEF V, step, fill, first
    <3> QED BY <1>2, <2>2, <2>3 DEF IsFold
  <2>5. IsFilled(f)
    <3> HIDE DEF IsFilled
    <3> QED BY <2>4
  <2>6. f[{}] = first /\ \A i \in 1..n : f[1..i] = fill(f[1..(i - 1)], cands[i])
    <3> HIDE DEF f, fill, n, first
    <3>1. f[{}] = first
      BY <2>5
    <3>2. ASSUME NEW i \in 1..n PROVE f[1..i] = fill(f[1..(i - 1)], cands[i])
      <4>1. Max(1..i) = i /\ (1..i) \ {i} = 1..(i - 1) /\ 1..i # {} /\ 1..i \in SUBSET (1..n)
        BY <1>2, MaxOfPrefix
      <4> QED BY <1>2, <2>5, <4>1
    <3> QED BY <3>1, <3>2
  <2>7. f[{}] \in T[0]
    <3> HIDE DEF f, fill, first
    <3> QED BY <1>2, <1>5, <2>6 DEF Picks
  <2>8. ASSUME NEW i \in 1..n, f[1..(i - 1)] \in T[i - 1] PROVE f[1..i] \in T[i]
    <3> DEFINE old == f[1..(i - 1)]
               c == cands[i]
    <3>1. Picks(old, C, m) /\ old \in Seq(C) /\ i \in 0..n /\ c \in C /\ Len(old) \in Nat
          /\ (Len(old) = m \/ \A j \in 1..(i - 1) : cands[j] \in ToSet(old))
      <4>1. i - 1 \in 0..n /\ i \in 0..n /\ c \in C
        <5> HIDE DEF T, f, n
        <5> QED BY <1>2
      <4>2. T[i - 1] = {list \in Seq(C) :
                          /\ Picks(list, C, m)
                          /\ Len(list) = m \/ \A j \in 1..(i - 1) : cands[j] \in ToSet(list)}
        <5> HIDE DEF f, n
        <5> QED BY <4>1
      <4>3. old \in T[i - 1]
        <5> HIDE DEF f, T
        <5> QED BY <2>8
      <4> HIDE DEF f, T, n, old
      <4>4. /\ old \in Seq(C) /\ Picks(old, C, m)
            /\ Len(old) = m \/ \A j \in 1..(i - 1) : cands[j] \in ToSet(old)
        BY <4>2, <4>3
      <4>5. Len(old) \in Nat
        BY <4>4
      <4> QED BY <4>1, <4>4, <4>5
    <3>2. f[1..i] = fill(old, c)
      <4> HIDE DEF f, fill
      <4> QED BY <2>6
    <3>3. Contains(old, c) <=> c \in ToSet(old)
      <4> HIDE DEF old
      <4> QED BY <3>1 DEF Contains, ToSet
    <3>4. \A j \in 1..i : j \in 1..(i - 1) \/ j = i
      OBVIOUS
    <3> HIDE DEF f, old, c, n
    <3>5. CASE Len(old) < m /\ c \notin ToSet(old)
      <4>1. fill(old, c) = Append(old, c)
        BY <3>3, <3>5
      <4>2. Picks(Append(old, c), C, m)
        BY <3>1, <3>5, AppendPicks
      <4>3. Append(old, c) \in Seq(C) /\ ToSet(Append(old, c)) = ToSet(old) \cup {c}
        BY <3>1, AppendIs
      <4>4. \A j \in 1..i : cands[j] \in ToSet(Append(old, c))
        BY <3>1, <3>4, <3>5, <4>3 DEF c
      <4> QED BY <3>1, <3>2, <4>1, <4>2, <4>3, <4>4
    <3>6. CASE ~(Len(old) < m /\ c \notin ToSet(old))
      <4>1. fill(old, c) = old
        BY <3>3, <3>6
      <4>2. Len(old) <= m
        BY <3>1 DEF Picks
      <4>3. Len(old) = m \/ \A j \in 1..i : cands[j] \in ToSet(old)
        BY <3>1, <3>4, <3>6, <4>2 DEF c
      <4> QED BY <3>1, <3>2, <4>1, <4>3
    <3> QED BY <3>5, <3>6
  <2>9. f[1..n] \in T[n]
    <3> HIDE DEF f, T, n
    <3> QED BY <1>2, <2>7, <2>8, FoldKeeps
  <2>10. Picks(sel, C, m) /\ (Len(sel) = m \/ \A j \in 1..n : cands[j] \in ToSet(sel))
    <3>1. sel = f[1..n]
      BY <1>2
    <3>2. n \in 0..n
      BY <1>2
    <3> HIDE DEF f, sel, n
    <3> QED BY <2>9, <3>1, <3>2
  <2>11. ToSet(sel) \subseteq C
    <3> HIDE DEF sel
    <3> QED BY <2>10 DEF Picks, ToSet
  <2>12. \A c \in C : \E j \in 1..n : c = cands[j]
    BY <1>2 DEF Arranges, ToSet
  <2> HIDE DEF sel, n
  <2> QED BY <2>10, <2>11, <2>12
<1> QED BY <1>1, <1>6

LEMMA SizeIs ==
    ASSUME NEW C, NEW list \in Seq(C), IsInjective(list)
    PROVE  IsFiniteSet(ToSet(list)) /\ Cardinality(ToSet(list)) = Len(list)
<1> DEFINE n == Len(list)
<1>1. n \in Nat /\ list \in [1..n -> C] /\ DOMAIN list = 1..n
  OBVIOUS
<1>2. \A i \in 1..n : list[i] \in ToSet(list)
  BY <1>1 DEF ToSet
<1>3. list \in Bijection(1..n, ToSet(list))
  <2>1. list \in [1..n -> ToSet(list)]
    <3> HIDE DEF n
    <3> QED BY <1>1, <1>2
  <2>2. \A i, j \in 1..n : list[i] = list[j] => i = j
    BY <1>1 DEF IsInjective
  <2>3. \A x \in ToSet(list) : \E i \in 1..n : list[i] = x
    BY <1>1 DEF ToSet
  <2> HIDE DEF n
  <2> QED BY <2>1, <2>2, <2>3, Fun_IsBij
<1>4. IsFiniteSet(1..n) /\ Cardinality(1..n) = n
  BY <1>1, FS_Interval
<1>5. IsFiniteSet(ToSet(list)) /\ Cardinality(ToSet(list)) = n
  <2> HIDE DEF n
  <2> QED BY <1>3, <1>4, FS_Bijection DEF ExistsBijection
<1> QED BY <1>5

LEMMA PruneIs ==
    ASSUME NEW v \in Rows, NEW C \in SUBSET Rows, NEW m \in Nat,
           NEW list \in Seq(C), IsInjective(list), Len(list) > m
    PROVE  LET left == Prune(v, list, m)
           IN  Picks(left, C, m) /\ Len(left) = m /\ ToSet(left) \subseteq ToSet(list)
<1> DEFINE S == ToSet(list)
           left == Prune(v, list, m)
<1>1. S \in SUBSET Rows /\ S \subseteq C
  BY DEF ToSet
<1>2. Picks(left, S, m) /\ (Len(left) = m \/ ToSet(left) = S)
  <2>1. Keys(Vec[v]) \in [Rows -> Int]
    BY KeysAre
  <2>2. Arranges(Sorted(Keys(Vec[v]), S), S)
    BY <1>1, <2>1, SortedIs
  <2> HIDE DEF S
  <2> QED BY <1>1, <2>2, SelectIs DEF Prune, S
<1>3. left \in Seq(S) /\ IsInjective(left) /\ Len(left) <= m /\ Len(left) \in Nat
  BY <1>2 DEF Picks
<1>4. Len(left) = m
  <2>1. Cardinality(S) = Len(list) /\ Cardinality(ToSet(left)) = Len(left)
    <3> HIDE DEF left
    <3> QED BY <1>3, SizeIs
  <2>2. Len(list) \in Nat
    OBVIOUS
  <2> HIDE DEF left, S
  <2> QED BY <1>2, <1>3, <2>1, <2>2
<1>5. left \in Seq(C) /\ ToSet(left) \subseteq S
  <2> HIDE DEF left, S
  <2> QED BY <1>1, <1>3 DEF ToSet
<1> QED BY <1>3, <1>4, <1>5 DEF Picks

\* A list of v after others were merged into it: it has them all, or it is full.
LEMMA MergedIs ==
    ASSUME NEW v \in Rows, NEW C \in SUBSET Rows, NEW m \in Nat,
           NEW list, Picks(list, C, m), NEW new \in Seq(C)
    PROVE  LET merged == Merged(v, list, new, m)
           IN  /\ Picks(merged, C, m)
               /\ ToSet(merged) \subseteq ToSet(list) \cup ToSet(new)
               /\ Len(merged) = m \/ ToSet(list) \cup ToSet(new) \subseteq ToSet(merged)
               /\ Len(list) = m => Len(merged) = m
<1> DEFINE n == Len(new)
           V == Seq(C)
           add(acc, u) == IF Contains(acc, u) THEN acc ELSE Append(acc, u)
           IsAll(it) == it = [s \in SUBSET DOMAIN new |->
             IF s = {} THEN list ELSE add(it[s \ {Max(s)}], new[Max(s)])]
           all == (CHOOSE it : IsAll(it))[DOMAIN new]
           merged == Merged(v, list, new, m)
<1>1. merged = IF Len(all) > m THEN Prune(v, all, m) ELSE all
  BY DEF Merged, FoldLeft, MapThenFoldSet
<1>2. n \in Nat /\ DOMAIN new = 1..n /\ (\A i \in 1..n : new[i] \in C)
      /\ list \in V /\ Len(list) \in Nat /\ Len(list) <= m
  BY DEF Picks
<1>3. ToSet(new) = {new[j] : j \in 1..n}
  BY <1>2 DEF ToSet
<1>4. \A y \in V, i \in 1..n : add(y, new[i]) \in V
  <2> SUFFICES ASSUME NEW y \in V, NEW i \in 1..n PROVE add(y, new[i]) \in V
    OBVIOUS
  <2>1. Append(y, new[i]) \in V
    BY <1>2
  <2> QED BY <2>1
<1>5. /\ all \in Seq(C) /\ IsInjective(all) /\ Len(all) >= Len(list)
      /\ ToSet(all) = ToSet(list) \cup ToSet(new)
  <2> DEFINE step == [x \in V \X (1..n) |-> add(x[1], new[x[2]])]
             f == CHOOSE it : IsAll(it)
             T == [i \in 0..n |-> {acc \in Seq(C) : IsInjective(acc) /\ Len(acc) >= Len(list) /\ ToSet(acc) = ToSet(list) \cup {new[j] : j \in 1..i}}]
  <2>1. \A y \in V, i \in 1..n : step[<<y, i>>] = add(y, new[i]) /\ step[<<y, i>>] \in V
    <3> HIDE DEF V, n, add
    <3> QED BY <1>4
  <2>2. PICK it \in [SUBSET (1..n) -> V] : IsFold(it, n, list, step)
    <3>1. list \in V /\ \A y \in V, i \in 1..n : step[<<y, i>>] \in V
      <4> HIDE DEF step
      <4> QED BY <1>2, <2>1
    <3> HIDE DEF V, n, step
    <3> QED BY <1>2, <3>1, FoldExists
  <2>3. \A s \in SUBSET (1..n) : s # {} =>
          /\ Max(s) \in 1..n
          /\ step[<<it[s \ {Max(s)}], Max(s)>>] = add(it[s \ {Max(s)}], new[Max(s)])
    <3> SUFFICES ASSUME NEW s \in SUBSET (1..n), s # {}
                 PROVE  /\ Max(s) \in 1..n
                        /\ step[<<it[s \ {Max(s)}], Max(s)>>] = add(it[s \ {Max(s)}], new[Max(s)])
      OBVIOUS
    <3>1. Max(s) \in 1..n /\ it[s \ {Max(s)}] \in V
      <4> HIDE DEF V, n
      <4> QED BY <1>2, MaxIs
    <3> HIDE DEF V, n, step, add
    <3> QED BY <2>1, <3>1
  <2>4. IsAll(it)
    <3> HIDE DEF V, step, add
    <3> QED BY <1>2, <2>2, <2>3 DEF IsFold
  <2>5. IsAll(f)
    <3> HIDE DEF IsAll
    <3> QED BY <2>4
  <2>6. f[{}] = list /\ \A i \in 1..n : f[1..i] = add(f[1..(i - 1)], new[i])
    <3> HIDE DEF f, add, n
    <3>1. f[{}] = list
      BY <2>5
    <3>2. ASSUME NEW i \in 1..n PROVE f[1..i] = add(f[1..(i - 1)], new[i])
      <4>1. Max(1..i) = i /\ (1..i) \ {i} = 1..(i - 1) /\ 1..i # {} /\ 1..i \in SUBSET (1..n)
        BY <1>2, MaxOfPrefix
      <4> QED BY <1>2, <2>5, <4>1
    <3> QED BY <3>1, <3>2
  <2>7. f[{}] \in T[0]
    <3>1. list \in Seq(C) /\ IsInjective(list) /\ {new[j] : j \in 1..0} = {}
      BY DEF Picks
    <3> HIDE DEF f, add
    <3> QED BY <1>2, <2>6, <3>1
  <2>8. ASSUME NEW i \in 1..n, f[1..(i - 1)] \in T[i - 1] PROVE f[1..i] \in T[i]
    <3> DEFINE old == f[1..(i - 1)]
               c == new[i]
    <3>1. old \in Seq(C) /\ IsInjective(old) /\ i \in 0..n /\ c \in C /\ Len(old) \in Nat
          /\ Len(old) >= Len(list) /\ ToSet(old) = ToSet(list) \cup {new[j] : j \in 1..(i - 1)}
      <4>1. i - 1 \in 0..n /\ i \in 0..n /\ c \in C
        <5> HIDE DEF T, f, n
        <5> QED BY <1>2
      <4>2. T[i - 1] = {acc \in Seq(C) :
                          /\ IsInjective(acc) /\ Len(acc) >= Len(list)
                          /\ ToSet(acc) = ToSet(list) \cup {new[j] : j \in 1..(i - 1)}}
        <5> HIDE DEF f, n
        <5> QED BY <4>1
      <4>3. old \in T[i - 1]
        <5> HIDE DEF f, T
        <5> QED BY <2>8
      <4> HIDE DEF f, T, n, old
      <4>4. /\ old \in Seq(C) /\ IsInjective(old) /\ Len(old) >= Len(list)
            /\ ToSet(old) = ToSet(list) \cup {new[j] : j \in 1..(i - 1)}
        BY <4>2, <4>3
      <4>5. Len(old) \in Nat
        BY <4>4
      <4> QED BY <4>1, <4>4, <4>5
    <3>2. f[1..i] = add(old, c)
      <4> HIDE DEF f, add
      <4> QED BY <2>6
    <3>3. Contains(old, c) <=> c \in ToSet(old)
      <4> HIDE DEF old
      <4> QED BY <3>1 DEF Contains, ToSet
    <3>4. {new[j] : j \in 1..i} = {new[j] : j \in 1..(i - 1)} \cup {c}
      <4>1. \A j \in 1..i : j \in 1..(i - 1) \/ j = i
        OBVIOUS
      <4> QED BY <4>1
    <3> HIDE DEF f, old, c, n
    <3>5. CASE c \notin ToSet(old)
      <4>1. add(old, c) = Append(old, c)
        BY <3>3, <3>5
      <4>2. Picks(old, C, Len(old) + 1) /\ Len(old) + 1 \in Nat /\ Len(old) < Len(old) + 1
        BY <3>1 DEF Picks
      <4>3. IsInjective(Append(old, c))
        BY <3>1, <3>5, <4>2, AppendPicks DEF Picks
      <4>4. Append(old, c) \in Seq(C) /\ Len(Append(old, c)) = Len(old) + 1
            /\ ToSet(Append(old, c)) = ToSet(old) \cup {c}
        BY <3>1, AppendIs
      <4>5. Append(old, c) \in T[i]
        <5> DEFINE more == Append(old, c)
        <5>1. ToSet(more) = ToSet(list) \cup {new[j] : j \in 1..i}
          BY <3>1, <3>4, <4>4
        <5>2. Len(more) >= Len(list)
          BY <1>2, <3>1, <4>4
        <5> HIDE DEF more
        <5> QED BY <3>1, <4>3, <4>4, <5>1, <5>2 DEF more
      <4> HIDE DEF T, add
      <4> QED BY <3>2, <4>1, <4>5
    <3>6. CASE c \in ToSet(old)
      <4>1. add(old, c) = old
        BY <3>3, <3>6
      <4>2. ToSet(old) = ToSet(list) \cup {new[j] : j \in 1..i}
        BY <3>1, <3>4, <3>6
      <4>3. old \in T[i]
        BY <3>1, <4>2
      <4> HIDE DEF T, add
      <4> QED BY <3>2, <4>1, <4>3
    <3> QED BY <3>5, <3>6
  <2>9. f[1..n] \in T[n]
    <3> HIDE DEF f, T, n
    <3> QED BY <1>2, <2>7, <2>8, FoldKeeps
  <2>10. all = f[1..n] /\ n \in 0..n
    BY <1>2
  <2> HIDE DEF f, all, n
  <2> QED BY <1>3, <2>9, <2>10
<1>6. CASE Len(all) > m
  <2> HIDE DEF all
  <2>1. Picks(Prune(v, all, m), C, m) /\ Len(Prune(v, all, m)) = m
        /\ ToSet(Prune(v, all, m)) \subseteq ToSet(all)
    BY <1>5, <1>6, PruneIs
  <2> QED BY <1>1, <1>5, <1>6, <2>1
<1>7. CASE ~(Len(all) > m)
  <2> HIDE DEF all
  <2>1. Len(all) \in Nat
    BY <1>5
  <2> QED BY <1>1, <1>2, <1>5, <1>7, <2>1 DEF Picks
<1> QED BY <1>6, <1>7

-----------------------------------------------------------------------------
(* The search of a layer *)

\* A search that has found something, among the rows of C
Searches(C) ==
    {s \in [visited : SUBSET C, candidates : SUBSET C, results : SUBSET C] : s.results # {}}

LEMMA VisitIs ==
    ASSUME NEW key, NEW ef \in Nat \ {0}, NEW C \in SUBSET Rows, NEW s \in Searches(C), NEW v \in C
    PROVE  Visit(key, ef, Rows, s, v) \in Searches(C)
<1> DEFINE seen == [s EXCEPT !.visited = @ \cup {v}]
           kept == s.results \cup {v}
           results == IF Cardinality(kept) > ef THEN kept \ {Furthest(key, kept)} ELSE kept
           more == [seen EXCEPT !.candidates = @ \cup {v}, !.results = results]
<1>1. s \in [visited : SUBSET C, candidates : SUBSET C, results : SUBSET C] /\ s.results # {}
      /\ v \in Rows
  BY DEF Searches
<1>2. seen \in Searches(C)
  BY <1>1 DEF Searches
<1>3. results \in SUBSET C /\ results # {}
  <2>1. kept \in SUBSET C /\ kept # {}
    BY <1>1
  <2>2. ASSUME NEW x, Cardinality(kept) > ef PROVE kept \ {x} # {}
    <3>1. SUFFICES ASSUME kept \subseteq {x} PROVE FALSE
      OBVIOUS
    <3>2. IsFiniteSet({x}) /\ Cardinality({x}) = 1
      BY FS_Singleton
    <3> HIDE DEF kept
    <3>3. Cardinality(kept) <= 1 /\ Cardinality(kept) \in Nat
      BY <3>1, <3>2, FS_Subset, FS_CardinalityType
    <3> QED BY <2>2, <3>3
  <2> HIDE DEF kept
  <2> QED BY <2>1, <2>2
<1>4. more \in Searches(C)
  <2> HIDE DEF results
  <2> QED BY <1>1, <1>3 DEF Searches
<1>5. \/ Visit(key, ef, Rows, s, v) = s
      \/ Visit(key, ef, Rows, s, v) = seen
      \/ Visit(key, ef, Rows, s, v) = more
  BY <1>1 DEF Visit
<1> QED BY <1>2, <1>4, <1>5

LEMMA ExpandIs ==
    ASSUME NEW key, NEW ef \in Nat \ {0}, NEW C \in SUBSET Rows, NEW at \in Searches(C), NEW u,
           NEW list \in Seq(C)
    PROVE  Expand(key, ef, Rows, at, u, list) \in Searches(C)
<1> DEFINE n == Len(list)
           V == Searches(C)
           popped == [at EXCEPT !.candidates = @ \ {u}]
           visit(x, v) == Visit(key, ef, Rows, x, v)
           IsVisit(it) == it = [p \in SUBSET DOMAIN list |->
             IF p = {} THEN popped ELSE visit(it[p \ {Max(p)}], list[Max(p)])]
           last == (CHOOSE it : IsVisit(it))[DOMAIN list]
<1>1. Expand(key, ef, Rows, at, u, list) = last
  BY DEF Expand, FoldLeft, MapThenFoldSet
<1>2. n \in Nat /\ DOMAIN list = 1..n /\ \A i \in 1..n : list[i] \in C
  OBVIOUS
<1>3. popped \in V
  BY DEF Searches
<1>4. \A y \in V, i \in 1..n : visit(y, list[i]) \in V
  BY <1>2, VisitIs
<1>5. last \in V
  <2> DEFINE step == [x \in V \X (1..n) |-> visit(x[1], list[x[2]])]
             f == CHOOSE it : IsVisit(it)
             T == [i \in 0..n |-> V]
  <2>1. \A y \in V, i \in 1..n : step[<<y, i>>] = visit(y, list[i]) /\ step[<<y, i>>] \in V
    <3> HIDE DEF V, n, visit
    <3> QED BY <1>4
  <2>2. PICK it \in [SUBSET (1..n) -> V] : IsFold(it, n, popped, step)
    <3>1. popped \in V /\ \A y \in V, i \in 1..n : step[<<y, i>>] \in V
      <4> HIDE DEF step, V, popped
      <4> QED BY <1>3, <2>1
    <3> HIDE DEF V, n, step, popped
    <3> QED BY <1>2, <3>1, FoldExists
  <2>3. \A s \in SUBSET (1..n) : s # {} =>
          /\ Max(s) \in 1..n
          /\ step[<<it[s \ {Max(s)}], Max(s)>>] = visit(it[s \ {Max(s)}], list[Max(s)])
    <3> SUFFICES ASSUME NEW s \in SUBSET (1..n), s # {}
                 PROVE  /\ Max(s) \in 1..n
                        /\ step[<<it[s \ {Max(s)}], Max(s)>>] = visit(it[s \ {Max(s)}], list[Max(s)])
      OBVIOUS
    <3>1. Max(s) \in 1..n /\ it[s \ {Max(s)}] \in V
      <4> HIDE DEF V, n
      <4> QED BY <1>2, MaxIs
    <3> HIDE DEF V, n, step, visit
    <3> QED BY <2>1, <3>1
  <2>4. IsVisit(it)
    <3> HIDE DEF V, step, visit, popped
    <3> QED BY <1>2, <2>2, <2>3 DEF IsFold
  <2>5. IsVisit(f)
    <3> HIDE DEF IsVisit
    <3> QED BY <2>4
  <2>6. f[{}] = popped /\ \A i \in 1..n : f[1..i] = visit(f[1..(i - 1)], list[i])
    <3> HIDE DEF f, visit, n, popped
    <3>1. f[{}] = popped
      BY <2>5
    <3>2. ASSUME NEW i \in 1..n PROVE f[1..i] = visit(f[1..(i - 1)], list[i])
      <4>1. Max(1..i) = i /\ (1..i) \ {i} = 1..(i - 1) /\ 1..i # {} /\ 1..i \in SUBSET (1..n)
        BY <1>2, MaxOfPrefix
      <4> QED BY <1>2, <2>5, <4>1
    <3> QED BY <3>1, <3>2
  <2>7. f[{}] \in T[0]
    <3> HIDE DEF f, visit, V, popped
    <3> QED BY <1>2, <1>3, <2>6
  <2>8. ASSUME NEW i \in 1..n, f[1..(i - 1)] \in T[i - 1] PROVE f[1..i] \in T[i]
    <3>1. i - 1 \in 0..n /\ i \in 0..n
      BY <1>2
    <3> HIDE DEF f, visit, V, n
    <3> QED BY <1>4, <2>6, <2>8, <3>1
  <2>9. f[1..n] \in T[n]
    <3> HIDE DEF f, T, n
    <3> QED BY <1>2, <2>7, <2>8, FoldKeeps
  <2>10. last = f[1..n] /\ n \in 0..n
    BY <1>2
  <2> HIDE DEF f, last, n, V
  <2> QED BY <2>9, <2>10
<1> QED BY <1>1, <1>5

-----------------------------------------------------------------------------
(* The inductive invariant *)

\* The rows that have a layer, their neighbours on it, and whether a list has
\* no room left
Layer(l) == {v \in Rows : levels[v] >= l}
Links(v, l) == ToSet(adj[v][l])
Full(v, l) == Len(adj[v][l]) = MAt(l)

BuildType ==
    /\ levels \in [Rows -> Nat]
    /\ adj = [v \in Rows |-> [l \in 0..levels[v] |-> adj[v][l]]]
    /\ entry \in [row : Rows, level : Nat] /\ entry.level = levels[entry.row]
    /\ next \in Nat \ {0}
    /\ th = [t \in Threads |-> th[t]]

ListsFit == \A v \in Rows : \A l \in 0..levels[v] : Picks(adj[v][l], Layer(l) \ {v}, MAt(l))

\* A thread that inserts a row goes down from the level of the entry, and what
\* it searches from, has found and will link to are rows of its layer.
Busy(w) == w.pc \in {"entry", "search", "extend", "own", "back", "raise"}
InSearch == {"pc", "row", "top", "layer", "s"}
InExtend == {"pc", "row", "top", "layer", "found", "left", "pool"}
InLink   == {"pc", "row", "top", "layer", "found", "sel"}
WorkFits(w) ==
    /\ w.pc \in {"take", "done"} \/ Busy(w)
    /\ w.pc = "done" => next \notin Rows
    /\ Busy(w) => w.row \in Rows
    /\ w.pc \in {"search", "extend", "own", "back"} =>
          w.layer \in Nat /\ w.top \in Nat /\ w.layer <= w.top /\ w.top <= entry.level
    /\ w.pc = "search" =>
          DOMAIN w = InSearch /\ w.s \in Searches(Layer(w.layer)) /\ w.s.candidates # {}
    /\ w.pc \in {"extend", "own", "back"} =>
          w.layer <= levels[w.row] /\ w.found \in SUBSET Layer(w.layer) /\ w.found # {}
    /\ w.pc = "extend" =>
          DOMAIN w = InExtend /\ w.left \in Seq(Layer(w.layer)) /\ w.left # <<>> /\ w.pool \in SUBSET Layer(w.layer)
    /\ w.pc \in {"own", "back"} => DOMAIN w = InLink /\ w.sel \in Seq(Layer(w.layer) \ {w.row})
    /\ w.pc = "back" => w.sel # <<>>

\* The rows it has still to put itself into are in its list, unless that is full.
BackFits(w) ==
    w.pc = "back" =>
        \A u \in ToSet(w.sel) : u \in Links(w.row, w.layer) \/ Full(w.row, w.layer)

\* An edge without its reverse leads to a full list, or is being linked back.
LinkingBack(u, l, v) ==
    \E t \in Threads :
        th[t].pc = "back" /\ th[t].row = u /\ th[t].layer = l /\ v \in ToSet(th[t].sel)
EdgesFit ==
    \A u \in Rows : \A l \in 0..levels[u] : \A v \in Links(u, l) :
        u \in Links(v, l) \/ Full(v, l) \/ LinkingBack(u, l, v)

\* No row is higher than the entry, except those being inserted.
EntryFits ==
    \A v \in Rows : v < next =>
        levels[v] <= entry.level \/ \E t \in Threads : Busy(th[t]) /\ th[t].row = v

BuildInv ==
    /\ BuildType /\ ListsFit /\ EdgesFit /\ EntryFits
    /\ \A t \in Threads : WorkFits(th[t]) /\ BackFits(th[t])

LEMMA LayersAre ==
    ASSUME levels \in [Rows -> Nat], NEW l \in Nat
    PROVE  /\ Layer(l) \in SUBSET Rows
           /\ \A k \in 0..l : Layer(l) \subseteq Layer(k)
           /\ MAt(l) \in Nat \ {0}
<1>1. \A v \in Rows : levels[v] \in Int
  OBVIOUS
<1> QED BY <1>1, HnswAssumption DEF Layer, MAt

LEMMA WidthIs ==
    ASSUME NEW row, NEW l
    PROVE  Width(row, l) \in Nat \ {0}
BY HnswAssumption DEF Width

-----------------------------------------------------------------------------
(* Where a thread goes on *)

\* A thread inserts a row from a layer on that the entry has.
Inserts(row, top, l) ==
    row \in Rows /\ l \in Nat /\ top \in Nat /\ l <= top /\ top <= entry.level

LEMMA SearchFits ==
    ASSUME NEW w, Inserts(w.row, w.top, w.layer), w.pc = "search", DOMAIN w = InSearch,
           w.s \in Searches(Layer(w.layer)), w.s.candidates # {}
    PROVE  WorkFits(w) /\ Busy(w)
BY DEF WorkFits, Inserts, Busy

LEMMA ExtendFits ==
    ASSUME NEW w, Inserts(w.row, w.top, w.layer), w.pc = "extend", DOMAIN w = InExtend,
           w.layer <= levels[w.row],
           w.found \in SUBSET Layer(w.layer), w.found # {},
           w.left \in Seq(Layer(w.layer)), w.left # <<>>, w.pool \in SUBSET Layer(w.layer)
    PROVE  WorkFits(w) /\ Busy(w)
BY DEF WorkFits, Inserts, Busy

LEMMA LinkFits ==
    ASSUME NEW w, Inserts(w.row, w.top, w.layer), w.pc \in {"own", "back"}, DOMAIN w = InLink,
           w.layer <= levels[w.row], w.found \in SUBSET Layer(w.layer), w.found # {},
           w.sel \in Seq(Layer(w.layer) \ {w.row}), w.pc = "back" => w.sel # <<>>
    PROVE  WorkFits(w) /\ Busy(w)
BY DEF WorkFits, Inserts, Busy

LEMMA SearchingFits ==
    ASSUME BuildType, NEW row, NEW top, NEW l, Inserts(row, top, l),
           NEW eps \in SUBSET Layer(l), eps # {}
    PROVE  LET w == Searching(row, top, l, eps)
           IN  WorkFits(w) /\ w.pc = "search" /\ w.row = row
<1> DEFINE w == Searching(row, top, l, eps)
<1>1. /\ w.pc = "search" /\ w.row = row /\ w.top = top /\ w.layer = l
      /\ w.s = [visited |-> eps, candidates |-> eps, results |-> eps \cap Rows]
      /\ DOMAIN w = InSearch
  BY DEF Searching, SearchStart, InSearch
<1>2. eps \cap Rows = eps
  BY DEF Layer
<1>3. w.s \in Searches(Layer(l)) /\ w.s.candidates # {}
  BY <1>1, <1>2 DEF Searches
<1> HIDE DEF w
<1> QED BY <1>1, <1>3, SearchFits DEF w

LEMMA LinkingFits ==
    ASSUME BuildType, NEW row, NEW top, NEW l, Inserts(row, top, l), l <= levels[row],
           NEW found \in SUBSET Layer(l), found # {}, NEW offered \in SUBSET Layer(l)
    PROVE  LET w == Linking(row, top, l, found, offered)
           IN  WorkFits(w) /\ w.pc = "own" /\ w.row = row
<1> DEFINE w == Linking(row, top, l, found, offered)
           key == Keys(Vec[row])
           C == offered \ {row}
           cands == Sorted(key, C)
<1>1. /\ w.pc = "own" /\ w.row = row /\ w.top = top /\ w.layer = l /\ w.found = found
      /\ w.sel = SelectHeuristic(key, cands, MAt(l)) /\ DOMAIN w = InLink
  BY DEF Linking, InLink
<1>2. C \in SUBSET Rows /\ C \subseteq Layer(l) \ {row}
  BY DEF Layer
<1>3. MAt(l) \in Nat
  BY LayersAre DEF BuildType, Inserts
<1>4. key \in [Rows -> Int]
  BY KeysAre DEF Inserts
<1>5. Picks(w.sel, C, MAt(l))
  <2> HIDE DEF C, w, key
  <2>1. Arranges(cands, C)
    BY <1>2, <1>4, SortedIs
  <2> HIDE DEF cands
  <2> QED BY <1>1, <1>2, <1>3, <2>1, SelectIs
<1>6. w.sel \in Seq(Layer(l) \ {row})
  <2> HIDE DEF C, w
  <2> QED BY <1>2, <1>5 DEF Picks
<1>7. WorkFits(w) /\ w.pc = "own" /\ w.row = row
  <2> HIDE DEF w
  <2> QED BY <1>1, <1>6, LinkFits
<1> QED BY <1>7

LEMMA SearchDoneFits ==
    ASSUME BuildType, NEW row, NEW top, NEW l, Inserts(row, top, l),
           NEW found \in SUBSET Layer(l), found # {}
    PROVE  LET w == SearchDone(row, top, l, found)
           IN  WorkFits(w) /\ Busy(w) /\ w.pc # "back" /\ w.row = row
<1>0. levels[row] \in Nat /\ row \in Rows /\ l \in Nat /\ Layer(l) \in SUBSET Rows
  BY LayersAre DEF BuildType, Inserts
<1>1. CASE l > levels[row]
  <2>1. SearchDone(row, top, l, found) = Searching(row, top, l - 1, found)
    <3>1. ~(l <= levels[row])
      BY <1>0, <1>1
    <3> QED BY <1>1, <3>1 DEF SearchDone
  <2>2. Inserts(row, top, l - 1)
    BY <1>0, <1>1 DEF Inserts
  <2>3. Layer(l) \subseteq Layer(l - 1)
    <3>1. l - 1 \in 0..l
      BY <1>0, <1>1
    <3> QED BY <1>0, <3>1, LayersAre DEF BuildType
  <2>4. LET w == Searching(row, top, l - 1, found)
        IN  WorkFits(w) /\ w.pc = "search" /\ w.row = row
    BY <2>2, <2>3, SearchingFits
  <2> QED BY <2>1, <2>4 DEF Busy
<1>2. CASE l <= levels[row] /\ ExtendCandidates
  <2> DEFINE left == Sorted(Keys(Vec[row]), found)
             w == [pc |-> "extend", row |-> row, top |-> top, layer |-> l, found |-> found,
                   left |-> left, pool |-> found]
  <2>1. SearchDone(row, top, l, found) = w
    BY <1>0, <1>2 DEF SearchDone
  <2>2. left \in Seq(found) /\ ToSet(left) = found
    <3>1. found \in SUBSET Rows
      BY <1>0
    <3> QED BY <1>0, <3>1, KeysAre, SortedIs DEF Arranges
  <2>3. left # <<>>
    BY <2>2, EmptyPicks
  <2>4. left \in Seq(Layer(l))
    <3> HIDE DEF left
    <3> QED BY <2>2
  <2>5. /\ w.pc = "extend" /\ w.row = row /\ w.top = top /\ w.layer = l /\ w.found = found
        /\ w.left = left /\ w.pool = found /\ DOMAIN w = InExtend
    BY DEF InExtend
  <2>6. WorkFits(w) /\ Busy(w) /\ w.pc # "back" /\ w.row = row
    <3> HIDE DEF w, left
    <3> QED BY <1>2, <2>3, <2>4, <2>5, ExtendFits
  <2> QED BY <2>1, <2>6
<1>3. CASE l <= levels[row] /\ ~ExtendCandidates
  <2>1. SearchDone(row, top, l, found) = Linking(row, top, l, found, found)
    BY <1>0, <1>3 DEF SearchDone
  <2>2. LET w == Linking(row, top, l, found, found)
        IN  WorkFits(w) /\ w.pc = "own" /\ w.row = row
    BY <1>3, LinkingFits
  <2> QED BY <2>1, <2>2 DEF Busy
<1> QED BY <1>0, <1>1, <1>2, <1>3 DEF Inserts

LEMMA LayerDoneFits ==
    ASSUME BuildType, NEW w, Inserts(w.row, w.top, w.layer),
           w.found \in SUBSET Layer(w.layer), w.found # {}
    PROVE  /\ WorkFits(LayerDone(w)) /\ LayerDone(w).pc # "back"
           /\ \/ Busy(LayerDone(w)) /\ LayerDone(w).row = w.row
              \/ levels[w.row] <= entry.level
<1>0. levels[w.row] \in Nat /\ w.layer \in Nat /\ w.top \in Nat /\ w.top <= entry.level
      /\ entry.level \in Nat
  BY DEF BuildType, Inserts
<1>1. CASE w.layer > 0
  <2>1. LayerDone(w) = Searching(w.row, w.top, w.layer - 1, w.found)
    BY <1>1 DEF LayerDone
  <2>2. Inserts(w.row, w.top, w.layer - 1)
    BY <1>0, <1>1 DEF Inserts
  <2>3. Layer(w.layer) \subseteq Layer(w.layer - 1)
    <3>1. w.layer - 1 \in 0..w.layer
      BY <1>0, <1>1
    <3> QED BY <1>0, <3>1, LayersAre DEF BuildType
  <2>4. LET x == Searching(w.row, w.top, w.layer - 1, w.found)
        IN  WorkFits(x) /\ x.pc = "search" /\ x.row = w.row
    BY <2>2, <2>3, SearchingFits
  <2> QED BY <2>1, <2>4 DEF Busy
<1>2. CASE w.layer = 0 /\ levels[w.row] > w.top
  <2>1. LayerDone(w) = [pc |-> "raise", row |-> w.row]
    BY <1>2 DEF LayerDone
  <2>2. LayerDone(w).pc = "raise" /\ LayerDone(w).row = w.row
    BY <2>1
  <2> QED BY <2>2 DEF WorkFits, Busy, Inserts
<1>3. CASE w.layer = 0 /\ ~(levels[w.row] > w.top)
  <2>1. LayerDone(w) = [pc |-> "take"]
    BY <1>3 DEF LayerDone
  <2>2. LayerDone(w).pc = "take"
    BY <2>1
  <2>3. levels[w.row] <= entry.level
    BY <1>0, <1>3
  <2> QED BY <2>2, <2>3 DEF WorkFits, Busy
<1> QED BY <1>0, <1>1, <1>2, <1>3

LEMMA LinkedFits ==
    ASSUME BuildType, NEW w, Inserts(w.row, w.top, w.layer), w.pc = "back",
           w.layer <= levels[w.row], w.found \in SUBSET Layer(w.layer), w.found # {},
           w.sel \in Seq(Layer(w.layer) \ {w.row}), DOMAIN w = InLink
    PROVE  /\ WorkFits(Linked(w))
           /\ Linked(w).pc = "back" => Linked(w) = w
           /\ Linked(w) # w => w.sel = <<>>
           /\ \/ Busy(Linked(w)) /\ Linked(w).row = w.row
              \/ levels[w.row] <= entry.level
<1>1. CASE w.sel = <<>>
  BY <1>1, LayerDoneFits DEF Linked
<1>2. CASE w.sel # <<>>
  BY <1>2 DEF Linked, WorkFits, Inserts, Busy
<1> QED BY <1>1, <1>2

-----------------------------------------------------------------------------
(* What every step leaves alone *)

\* A list loses a neighbour only by becoming full, and stays full.
Kept ==
    /\ levels' = levels
    /\ \A v \in Rows : \A l \in 0..levels[v] :
          (Full(v, l) => Full(v, l)') /\ (Full(v, l)' \/ Links(v, l) \subseteq Links(v, l)')
Later ==
    /\ Kept /\ entry.level <= entry.level'
    /\ next \notin Rows => next' \notin Rows

LEMMA SameListsAreKept ==
    ASSUME UNCHANGED <<levels, adj>>
    PROVE  Kept
BY DEF Kept, Full, Links

LEMMA TypeStays ==
    ASSUME BuildType, levels' = levels,
           adj' = [v \in Rows |-> [l \in 0..levels[v] |-> adj'[v][l]]],
           entry' \in [row : Rows, level : Nat], entry'.level = levels[entry'.row],
           next' \in Nat \ {0}, NEW t \in Threads, NEW W, th' = [th EXCEPT ![t] = W]
    PROVE  BuildType' /\ th'[t] = W /\ \A x \in Threads \ {t} : th'[x] = th[x]
BY DEF BuildType

LEMMA WorkStays ==
    ASSUME BuildType, BuildType', Later, NEW x \in Threads, NEW W, th'[x] = W, WorkFits(W)
    PROVE  WorkFits(th[x])'
<1>1. levels' = levels /\ entry.level <= entry'.level /\ (next \notin Rows => next' \notin Rows)
      /\ entry.level \in Nat /\ entry'.level \in Nat
  BY DEF Later, Kept, BuildType
<1>2. ASSUME NEW l PROVE Layer(l)' = Layer(l)
  BY <1>1 DEF Layer
<1>3. W.pc \in {"search", "extend", "own", "back"} =>
        W.layer \in Nat /\ W.top \in Nat /\ W.layer <= W.top /\ W.top <= entry'.level
  BY <1>1 DEF WorkFits
<1>4. WorkFits(th[x])'
  BY <1>1, <1>2, <1>3 DEF WorkFits, Busy
<1> QED BY <1>4

LEMMA BackStays ==
    ASSUME BuildType, Later, NEW x \in Threads, NEW W, th'[x] = W, WorkFits(W), BackFits(W)
    PROVE  BackFits(th[x])'
<1> SUFFICES ASSUME W.pc = "back", NEW u \in ToSet(W.sel)
             PROVE  u \in Links(W.row, W.layer)' \/ Full(W.row, W.layer)'
  BY DEF BackFits
<1>1. W.row \in Rows /\ W.layer \in 0..levels[W.row]
  BY DEF WorkFits, Busy, BuildType
<1>2. u \in Links(W.row, W.layer) \/ Full(W.row, W.layer)
  BY DEF BackFits
<1> QED BY <1>1, <1>2 DEF Later, Kept

LEMMA EdgesStay ==
    ASSUME EdgesFit, UNCHANGED <<levels, adj>>, NEW t \in Threads, th[t].pc # "back",
           \A x \in Threads \ {t} : th'[x] = th[x]
    PROVE  EdgesFit'
<1> SUFFICES ASSUME NEW u \in Rows, NEW l \in 0..levels[u], NEW v \in Links(u, l)
             PROVE  u \in Links(v, l) \/ Full(v, l) \/ LinkingBack(u, l, v)'
  BY DEF EdgesFit, Links, Full
<1>1. CASE LinkingBack(u, l, v)
  <2>1. PICK x \in Threads : th[x].pc = "back" /\ th[x].row = u /\ th[x].layer = l
                             /\ v \in ToSet(th[x].sel)
    BY <1>1 DEF LinkingBack
  <2>2. th'[x] = th[x]
    BY <2>1
  <2> QED BY <2>1, <2>2 DEF LinkingBack
<1>2. CASE u \in Links(v, l) \/ Full(v, l)
  BY <1>2
<1> QED BY <1>1, <1>2 DEF EdgesFit

LEMMA EntryStays ==
    ASSUME BuildType, BuildType', EntryFits, Later, next' = next, NEW t \in Threads,
           \A x \in Threads \ {t} : th'[x] = th[x],
           Busy(th[t]) => \/ Busy(th'[t]) /\ th'[t].row = th[t].row
                          \/ levels[th[t].row] <= entry'.level
    PROVE  EntryFits'
<1>1. levels' = levels /\ entry.level <= entry'.level /\ entry.level \in Nat /\ entry'.level \in Nat
      /\ \A v \in Rows : levels[v] \in Nat
  BY DEF Later, Kept, BuildType
<1> SUFFICES ASSUME NEW v \in Rows, v < next
             PROVE  levels[v] <= entry'.level \/ \E x \in Threads : Busy(th'[x]) /\ th'[x].row = v
  BY <1>1 DEF EntryFits, Busy
<1>2. CASE levels[v] <= entry.level
  BY <1>1, <1>2
<1>3. ASSUME NEW x \in Threads, Busy(th[x]), th[x].row = v
      PROVE  levels[v] <= entry'.level \/ \E y \in Threads : Busy(th'[y]) /\ th'[y].row = v
  BY <1>3
<1> QED BY <1>2, <1>3 DEF EntryFits

LEMMA InvStays ==
    ASSUME BuildInv, BuildType', ListsFit', EdgesFit', EntryFits', Later, NEW t \in Threads,
           \A x \in Threads \ {t} : th'[x] = th[x],
           WorkFits(th'[t]), BackFits(th[t])'
    PROVE  BuildInv'
<1>1. ASSUME NEW x \in Threads PROVE WorkFits(th[x])'
  <2>1. WorkFits(th'[x])
    BY DEF BuildInv
  <2> QED BY <2>1, WorkStays DEF BuildInv
<1>2. ASSUME NEW x \in Threads PROVE BackFits(th[x])'
  <2>1. CASE x # t
    <3>1. th'[x] = th[x]
      BY <2>1
    <3> QED BY <3>1, BackStays DEF BuildInv
  <2>2. CASE x = t
    BY <2>2
  <2> QED BY <2>1, <2>2
<1> QED BY <1>1, <1>2 DEF BuildInv

-----------------------------------------------------------------------------
(* The steps that write no list *)

\* A step of thread t that leaves the lists alone, the counter and the entry too.
LEMMA LocalStep ==
    ASSUME BuildInv, NEW t \in Threads, NEW W, UNCHANGED <<levels, adj, entry, next>>,
           th' = [th EXCEPT ![t] = W], th[t].pc # "back",
           WorkFits(W), Busy(W), W.row = th[t].row, W.pc # "back"
    PROVE  BuildInv'
<1>1. BuildType /\ EdgesFit /\ EntryFits /\ ListsFit
  BY DEF BuildInv
<1>2. BuildType' /\ th'[t] = W /\ \A x \in Threads \ {t} : th'[x] = th[x]
  <2>1. /\ entry' \in [row : Rows, level : Nat] /\ entry'.level = levels[entry'.row]
        /\ next' \in Nat \ {0} /\ adj' = [v \in Rows |-> [l \in 0..levels[v] |-> adj'[v][l]]]
    BY <1>1 DEF BuildType
  <2> QED BY <1>1, <2>1, TypeStays
<1>3. Later
  <2>1. entry.level \in Nat
    BY <1>1 DEF BuildType
  <2> QED BY <2>1, SameListsAreKept DEF Later
<1>4. ListsFit'
  BY <1>1 DEF ListsFit, Layer
<1>5. EdgesFit'
  BY <1>1, <1>2, EdgesStay
<1>6. EntryFits'
  BY <1>1, <1>2, <1>3, EntryStays
<1>7. WorkFits(th'[t]) /\ BackFits(th[t])'
  BY <1>2 DEF BackFits
<1> QED BY <1>2, <1>3, <1>4, <1>5, <1>6, <1>7, InvStays

LEMMA TakeKeeps ==
    ASSUME BuildInv, NEW t \in Threads, Take(t)
    PROVE  BuildInv'
<1> DEFINE W == IF next \in Rows THEN [pc |-> "entry", row |-> next] ELSE [pc |-> "done"]
<1>1. BuildType /\ EdgesFit /\ EntryFits /\ ListsFit
  BY DEF BuildInv
<1>2. /\ UNCHANGED <<levels, adj, entry>> /\ th' = [th EXCEPT ![t] = W] /\ next' = next + 1
      /\ th[t].pc = "take" /\ next \in Nat
  BY <1>1 DEF Take, BuildType
<1>3. \/ W.pc = "entry" /\ W.row = next /\ next \in Rows
      \/ W.pc = "done" /\ next \notin Rows
  OBVIOUS
<1>4. BuildType' /\ th'[t] = W /\ \A x \in Threads \ {t} : th'[x] = th[x]
  <2> HIDE DEF W
  <2>1. /\ entry' \in [row : Rows, level : Nat] /\ entry'.level = levels[entry'.row]
        /\ next' \in Nat \ {0} /\ adj' = [v \in Rows |-> [l \in 0..levels[v] |-> adj'[v][l]]]
    BY <1>1, <1>2 DEF BuildType
  <2> QED BY <1>1, <1>2, <2>1, TypeStays
<1> HIDE DEF W
<1>5. Later
  <2>1. entry.level \in Nat
    BY <1>1 DEF BuildType
  <2>2. next' \in Rows => next \in Rows
    BY <1>2, RowsAre
  <2> QED BY <1>2, <2>1, <2>2, SameListsAreKept DEF Later
<1>6. ListsFit'
  BY <1>1, <1>2 DEF ListsFit, Layer
<1>7. EdgesFit'
  BY <1>1, <1>2, <1>4, EdgesStay
<1>8. EntryFits'
  <2> SUFFICES ASSUME NEW v \in Rows, v < next'
               PROVE  levels[v] <= entry.level \/ \E x \in Threads : Busy(th'[x]) /\ th'[x].row = v
    BY <1>2 DEF EntryFits, Busy
  <2>1. v \in Nat
    BY RowsAre
  <2>2. CASE v < next
    <3>1. ASSUME NEW x \in Threads, Busy(th[x]) PROVE th'[x] = th[x]
      BY <1>2, <1>4, <3>1 DEF Busy
    <3> QED BY <1>1, <2>2, <3>1 DEF EntryFits
  <2>3. CASE v = next
    <3>1. Busy(W) /\ W.row = v
      BY <1>3, <2>3 DEF Busy
    <3> QED BY <1>4, <3>1
  <2> QED BY <1>2, <2>1, <2>2, <2>3
<1>9. WorkFits(th'[t]) /\ BackFits(th[t])'
  <2>1. WorkFits(W)
    BY <1>3 DEF WorkFits, Busy
  <2>2. W.pc # "back"
    BY <1>3
  <2> QED BY <1>4, <2>1, <2>2 DEF BackFits
<1> QED BY <1>4, <1>5, <1>6, <1>7, <1>8, <1>9, InvStays

LEMMA ReadEntryKeeps ==
    ASSUME BuildInv, NEW t \in Threads, ReadEntry(t)
    PROVE  BuildInv'
<1> DEFINE W == Searching(th[t].row, entry.level, entry.level, {entry.row})
<1>1. /\ UNCHANGED <<levels, adj, entry, next>> /\ th' = [th EXCEPT ![t] = W]
      /\ th[t].pc = "entry"
  BY DEF ReadEntry
<1>2. BuildType /\ WorkFits(th[t])
  BY DEF BuildInv
<1>3. Inserts(th[t].row, entry.level, entry.level)
  BY <1>1, <1>2 DEF Inserts, BuildType, WorkFits, Busy
<1>4. {entry.row} \in SUBSET Layer(entry.level)
  BY <1>2 DEF Layer, BuildType
<1>5. WorkFits(W) /\ W.pc = "search" /\ W.row = th[t].row
  BY <1>2, <1>3, <1>4, SearchingFits
<1> HIDE DEF W
<1>6. Busy(W) /\ W.pc # "back" /\ th[t].pc # "back"
  BY <1>1, <1>5 DEF Busy
<1> QED BY <1>1, <1>5, <1>6, LocalStep

\* What a thread knows when it searches or links.
LEMMA Inserting ==
    ASSUME BuildInv, NEW t \in Threads, th[t].pc \in {"search", "extend", "own", "back"}
    PROVE  /\ BuildType /\ WorkFits(th[t]) /\ Inserts(th[t].row, th[t].top, th[t].layer)
           /\ th[t].layer \in Nat /\ Layer(th[t].layer) \in SUBSET Rows
           /\ Key(t) \in [Rows -> Int] /\ Key(t) = Keys(Vec[th[t].row])
<1>1. BuildType /\ WorkFits(th[t])
  BY DEF BuildInv
<1>2. Inserts(th[t].row, th[t].top, th[t].layer)
  BY <1>1 DEF Inserts, WorkFits, Busy, BuildType
<1>3. th[t].row \in Rows /\ th[t].layer \in Nat
  BY <1>2 DEF Inserts
<1> QED BY <1>1, <1>2, <1>3, KeysAre, LayersAre DEF Key, BuildType

\* The neighbours a search reads have the layer.
LEMMA ListOfIs ==
    ASSUME BuildType, ListsFit, NEW l \in Nat, NEW v \in Rows
    PROVE  ListOf(l, v) \in Seq(Layer(l))
<1>1. levels[v] \in Nat /\ DOMAIN adj[v] = 0..levels[v]
  BY DEF BuildType
<1>2. CASE l \in 0..levels[v]
  <2>1. adj[v][l] \in Seq(Layer(l) \ {v})
    BY <1>2 DEF ListsFit, Picks
  <2>2. adj[v][l] \in Seq(Layer(l))
    BY <2>1
  <2> QED BY <1>1, <1>2, <2>2 DEF ListOf
<1>3. CASE l \notin 0..levels[v]
  BY <1>1, <1>3 DEF ListOf
<1> QED BY <1>2, <1>3

LEMMA SearchStepKeeps ==
    ASSUME BuildInv, NEW t \in Threads, SearchStep(t)
    PROVE  BuildInv'
<1> DEFINE w  == th[t]
           ef == Width(w.row, w.layer)
           u  == Nearest(Key(t), w.s.candidates)
           s  == Expand(Key(t), ef, Rows, w.s, u, ListOf(w.layer, u))
           C  == Layer(w.layer)
           W  == IF SearchEnded(Key(t), ef, s)
                 THEN SearchDone(w.row, w.top, w.layer, s.results) ELSE [w EXCEPT !.s = s]
<1>1. /\ UNCHANGED <<levels, adj, entry, next>> /\ th' = [th EXCEPT ![t] = W]
      /\ w.pc = "search"
  BY DEF SearchStep
<1>2. /\ BuildType /\ WorkFits(w) /\ Inserts(w.row, w.top, w.layer)
      /\ w.layer \in Nat /\ C \in SUBSET Rows /\ Key(t) \in [Rows -> Int]
  BY <1>1, Inserting
<1>3. w.s \in Searches(C) /\ w.s.candidates # {} /\ w.s.candidates \in SUBSET C
  BY <1>1, <1>2 DEF WorkFits, Searches
<1>4. u \in C
  <2> HIDE DEF C
  <2> QED BY <1>2, <1>3, NearestIs
<1>5. s \in Searches(C)
  <2>1. ListOf(w.layer, u) \in Seq(C)
    BY <1>2, <1>4, ListOfIs DEF BuildInv
  <2>2. ef \in Nat \ {0}
    BY WidthIs
  <2> HIDE DEF C, u, ef, w
  <2> QED BY <1>2, <1>3, <2>1, <2>2, ExpandIs
<1>6. WorkFits(W) /\ Busy(W) /\ W.pc # "back" /\ W.row = w.row
  <2>1. CASE SearchEnded(Key(t), ef, s)
    <3>1. s.results \in SUBSET C /\ s.results # {}
      BY <1>5 DEF Searches
    <3>2. LET x == SearchDone(w.row, w.top, w.layer, s.results)
          IN  WorkFits(x) /\ Busy(x) /\ x.pc # "back" /\ x.row = w.row
      <4> HIDE DEF s, w
      <4> QED BY <1>2, <3>1, SearchDoneFits
    <3> QED BY <2>1, <3>2
  <2>2. CASE ~SearchEnded(Key(t), ef, s)
    <3>1. s.candidates # {}
      <4> HIDE DEF s, ef
      <4> QED BY <2>2 DEF SearchEnded
    <3> DEFINE x == [w EXCEPT !.s = s]
    <3>2. DOMAIN w = InSearch
      BY <1>1, <1>2 DEF WorkFits
    <3>3. /\ x.pc = w.pc /\ x.row = w.row /\ x.top = w.top /\ x.layer = w.layer
          /\ x.s = s /\ DOMAIN x = InSearch
      <4> HIDE DEF s, w
      <4> QED BY <3>2, Zenon DEF InSearch
    <3>4. W = x
      BY <2>2
    <3> HIDE DEF x, s, w, W
    <3>5. Inserts(x.row, x.top, x.layer) /\ x.s \in Searches(Layer(x.layer)) /\ x.s.candidates # {}
          /\ x.pc = "search"
      BY <1>1, <1>2, <1>5, <3>1, <3>3
    <3> QED BY <3>3, <3>4, <3>5, SearchFits
  <2> QED BY <2>1, <2>2
<1> HIDE DEF W
<1> QED BY <1>1, <1>6, LocalStep

LEMMA ExtendStepKeeps ==
    ASSUME BuildInv, NEW t \in Threads, ExtendStep(t)
    PROVE  BuildInv'
<1> DEFINE w    == th[t]
           C    == Layer(w.layer)
           list == ListOf(w.layer, Head(w.left))
           offered == w.pool \cup ToSet(list)
           more == [w EXCEPT !.left = Tail(@), !.pool = offered]
           W    == IF Len(w.left) = 1 THEN Linking(w.row, w.top, w.layer, w.found, offered) ELSE more
<1>1. /\ UNCHANGED <<levels, adj, entry, next>> /\ th' = [th EXCEPT ![t] = W]
      /\ w.pc = "extend"
  BY DEF ExtendStep
<1>2. /\ BuildType /\ WorkFits(w) /\ Inserts(w.row, w.top, w.layer)
      /\ w.layer \in Nat /\ C \in SUBSET Rows
  BY <1>1, Inserting
<1>3. /\ w.left \in Seq(C) /\ w.left # <<>> /\ w.pool \in SUBSET C
      /\ w.layer <= levels[w.row] /\ w.found \in SUBSET C /\ w.found # {}
  BY <1>1, <1>2 DEF WorkFits
<1>4. offered \in SUBSET C
  <2>1. Head(w.left) \in C
    <3> HIDE DEF w, C
    <3> QED BY <1>3
  <2>2. list \in Seq(C)
    BY <1>2, <2>1, ListOfIs DEF BuildInv
  <2>3. ToSet(list) \in SUBSET C
    <3> HIDE DEF list, C
    <3> QED BY <2>2 DEF ToSet
  <2> HIDE DEF list, C
  <2> QED BY <1>3, <2>3
<1>5. WorkFits(W) /\ Busy(W) /\ W.pc # "back" /\ W.row = w.row
  <2>1. CASE Len(w.left) = 1
    <3>1. LET x == Linking(w.row, w.top, w.layer, w.found, offered)
          IN  WorkFits(x) /\ x.pc = "own" /\ x.row = w.row
      <4> HIDE DEF offered, w
      <4> QED BY <1>2, <1>3, <1>4, LinkingFits DEF C
    <3> QED BY <2>1, <3>1 DEF Busy
  <2>2. CASE Len(w.left) # 1
    <3>1. Tail(w.left) \in Seq(C) /\ Tail(w.left) # <<>>
      <4> HIDE DEF w, C
      <4> QED BY <1>3, <2>2, TailIs
    <3>2. DOMAIN w = InExtend
      BY <1>1, <1>2 DEF WorkFits
    <3>3. /\ more.pc = w.pc /\ more.row = w.row /\ more.top = w.top /\ more.layer = w.layer
          /\ more.found = w.found /\ more.left = Tail(w.left) /\ more.pool = offered
          /\ DOMAIN more = InExtend
      <4> HIDE DEF offered, w
      <4> QED BY <3>2, Zenon DEF InExtend
    <3>4. W = more
      BY <2>2
    <3> HIDE DEF more, W, w, offered
    <3>5. WorkFits(more) /\ Busy(more)
      BY <1>1, <1>2, <1>3, <1>4, <3>1, <3>3, ExtendFits DEF C
    <3> QED BY <1>1, <3>3, <3>4, <3>5
  <2> QED BY <2>1, <2>2
<1> HIDE DEF W
<1> QED BY <1>1, <1>5, LocalStep

LEMMA RaiseKeeps ==
    ASSUME BuildInv, NEW t \in Threads, Raise(t)
    PROVE  BuildInv'
<1> DEFINE row == th[t].row
           W   == [pc |-> "take"]
<1>1. BuildType /\ EdgesFit /\ EntryFits /\ ListsFit /\ WorkFits(th[t])
  BY DEF BuildInv
<1>2. /\ UNCHANGED <<levels, adj, next>> /\ th' = [th EXCEPT ![t] = W]
      /\ th[t].pc = "raise"
      /\ entry' = IF levels[row] > entry.level THEN [row |-> row, level |-> levels[row]] ELSE entry
  BY DEF Raise
<1>3. row \in Rows
  BY <1>1, <1>2 DEF WorkFits, Busy
<1>4. /\ entry' \in [row : Rows, level : Nat] /\ entry'.level = levels[entry'.row]
      /\ entry.level <= entry'.level /\ levels[row] <= entry'.level
  BY <1>1, <1>2, <1>3 DEF BuildType
<1>5. BuildType' /\ th'[t] = W /\ \A x \in Threads \ {t} : th'[x] = th[x]
  <2> HIDE DEF W
  <2>1. next' \in Nat \ {0} /\ adj' = [v \in Rows |-> [l \in 0..levels[v] |-> adj'[v][l]]]
    BY <1>1, <1>2 DEF BuildType
  <2> QED BY <1>1, <1>2, <1>4, <2>1, TypeStays
<1>6. Later
  BY <1>2, <1>4, SameListsAreKept DEF Later
<1>7. ListsFit'
  BY <1>1, <1>2 DEF ListsFit, Layer
<1>8. EdgesFit'
  BY <1>1, <1>2, <1>5, EdgesStay
<1>9. EntryFits'
  BY <1>1, <1>2, <1>4, <1>5, <1>6, EntryStays
<1>10. WorkFits(th'[t]) /\ BackFits(th[t])'
  <2>1. WorkFits(W) /\ W.pc # "back"
    BY DEF WorkFits, Busy
  <2> QED BY <1>5, <2>1 DEF BackFits
<1> QED BY <1>5, <1>6, <1>7, <1>8, <1>9, <1>10, InvStays

-----------------------------------------------------------------------------
(* The steps that write a list *)

\* One list takes new neighbours in.
LEMMA MergeStep ==
    ASSUME BuildType, ListsFit, NEW r \in Rows, NEW k \in 0..levels[r],
           NEW new \in Seq(Layer(k) \ {r}), levels' = levels,
           adj' = [adj EXCEPT ![r][k] = Merged(r, adj[r][k], new, MAt(k))]
    PROVE  /\ adj' = [v \in Rows |-> [l \in 0..levels[v] |-> adj'[v][l]]]
           /\ ListsFit' /\ Kept
           /\ \A v \in Rows : \A l \in 0..levels[v] :
                 v # r \/ l # k => Links(v, l)' = Links(v, l)
           /\ Links(r, k)' \subseteq Links(r, k) \cup ToSet(new)
           /\ Full(r, k)' \/ ToSet(new) \subseteq Links(r, k)'
<1> DEFINE merged == Merged(r, adj[r][k], new, MAt(k))
           C == Layer(k) \ {r}
<1>1. adj = [v \in Rows |-> [l \in 0..levels[v] |-> adj[v][l]]] /\ levels \in [Rows -> Nat] /\ k \in Nat
  BY DEF BuildType
<1>2. C \in SUBSET Rows /\ MAt(k) \in Nat
  BY <1>1, LayersAre
<1>3. Picks(adj[r][k], C, MAt(k))
  BY DEF ListsFit
<1>4. /\ Picks(merged, C, MAt(k))
      /\ ToSet(merged) \subseteq ToSet(adj[r][k]) \cup ToSet(new)
      /\ Len(merged) = MAt(k) \/ ToSet(adj[r][k]) \cup ToSet(new) \subseteq ToSet(merged)
      /\ Len(adj[r][k]) = MAt(k) => Len(merged) = MAt(k)
  <2> HIDE DEF C
  <2>1. new \in Seq(C)
    BY DEF C
  <2> QED BY <1>2, <1>3, <2>1, MergedIs
<1> HIDE DEF merged
<1>5. adj' = [adj EXCEPT ![r][k] = merged]
  BY DEF merged
<1>6. /\ adj' = [v \in Rows |-> [l \in 0..levels[v] |-> adj'[v][l]]]
      /\ adj'[r][k] = merged
      /\ \A v \in Rows : \A l \in 0..levels[v] : v # r \/ l # k => adj'[v][l] = adj[v][l]
  <2>1. /\ DOMAIN adj = Rows /\ \A v \in Rows : adj[v] = [l \in 0..levels[v] |-> adj[v][l]]
    BY <1>1
  <2>2. /\ adj' = [v \in Rows |-> adj'[v]]
        /\ adj'[r] = [adj[r] EXCEPT ![k] = merged]
        /\ \A v \in Rows \ {r} : adj'[v] = adj[v]
    BY <1>5, <2>1
  <2>3. /\ adj'[r] = [l \in 0..levels[r] |-> adj'[r][l]] /\ adj'[r][k] = merged
        /\ \A l \in 0..levels[r] : l # k => adj'[r][l] = adj[r][l]
    BY <2>1, <2>2
  <2>4. ASSUME NEW v \in Rows PROVE adj'[v] = [l \in 0..levels[v] |-> adj'[v][l]]
    <3>1. CASE v = r
      BY <2>3, <3>1
    <3>2. CASE v # r
      <4>1. adj'[v] = adj[v] /\ adj[v] = [l \in 0..levels[v] |-> adj[v][l]]
        BY <2>1, <2>2, <3>2
      <4> QED BY <4>1
    <3> QED BY <3>1, <3>2
  <2>5. \A v \in Rows : \A l \in 0..levels[v] : v # r \/ l # k => adj'[v][l] = adj[v][l]
    BY <2>2, <2>3
  <2>6. adj' = [v \in Rows |-> [l \in 0..levels[v] |-> adj'[v][l]]]
    BY <2>2, <2>4
  <2> QED BY <2>3, <2>5, <2>6
<1>7. ListsFit'
  <2> SUFFICES ASSUME NEW v \in Rows, NEW l \in 0..levels[v]
               PROVE  Picks(adj'[v][l], Layer(l) \ {v}, MAt(l))
    BY DEF ListsFit, Layer
  <2>1. CASE v = r /\ l = k
    BY <1>4, <1>6, <2>1
  <2>2. CASE v # r \/ l # k
    BY <1>6, <2>2 DEF ListsFit
  <2> QED BY <2>1, <2>2
<1>8. Kept
  <2> SUFFICES ASSUME NEW v \in Rows, NEW l \in 0..levels[v]
               PROVE  /\ Full(v, l) => Full(v, l)'
                      /\ Full(v, l)' \/ Links(v, l) \subseteq Links(v, l)'
    BY DEF Kept
  <2>1. CASE v = r /\ l = k
    BY <1>4, <1>6, <2>1 DEF Full, Links
  <2>2. CASE v # r \/ l # k
    BY <1>6, <2>2 DEF Full, Links
  <2> QED BY <2>1, <2>2
<1> QED BY <1>4, <1>6, <1>7, <1>8 DEF Full, Links

\* What is left to show of the edges when a thread has written a list.
LEMMA EdgesFollow ==
    ASSUME BuildType, ListsFit, EdgesFit, Kept, NEW t \in Threads,
           \A x \in Threads \ {t} : th'[x] = th[x],
           \A u \in Rows : \A l \in 0..levels[u] : \A v \in Links(u, l)' \ Links(u, l) :
              u \in Links(v, l)' \/ Full(v, l)' \/ LinkingBack(u, l, v)',
           th[t].pc = "back" =>
              \A u, l : \A v \in ToSet(th[t].sel) :
                 u = th[t].row /\ l = th[t].layer =>
                    u \in Links(v, l)' \/ Full(v, l)' \/ LinkingBack(u, l, v)'
    PROVE  EdgesFit'
<1>0. levels' = levels
  BY DEF Kept
<1> SUFFICES ASSUME NEW u \in Rows, NEW l \in 0..levels[u], NEW v \in Links(u, l)'
             PROVE  u \in Links(v, l)' \/ Full(v, l)' \/ LinkingBack(u, l, v)'
  BY <1>0 DEF EdgesFit
<1>1. CASE v \notin Links(u, l)
  BY <1>1
<1>2. CASE v \in Links(u, l)
  <2>1. v \in Rows /\ l \in 0..levels[v]
    <3>1. adj[u][l] \in Seq(Layer(l) \ {u})
      BY DEF ListsFit, Picks
    <3>2. v \in Layer(l)
      BY <1>2, <3>1 DEF Links, ToSet
    <3> QED BY <3>2 DEF Layer, BuildType
  <2>2. CASE u \in Links(v, l) \/ Full(v, l)
    BY <2>1, <2>2 DEF Kept
  <2>3. ASSUME NEW x \in Threads, th[x].pc = "back", th[x].row = u, th[x].layer = l,
               v \in ToSet(th[x].sel)
        PROVE  u \in Links(v, l)' \/ Full(v, l)' \/ LinkingBack(u, l, v)'
    <3>1. CASE x = t
      BY <2>3, <3>1
    <3>2. CASE x # t
      <4>1. th'[x] = th[x]
        BY <3>2
      <4> QED BY <2>3, <4>1 DEF LinkingBack
    <3> QED BY <3>1, <3>2
  <2> QED BY <1>2, <2>2, <2>3 DEF EdgesFit, LinkingBack
<1> QED BY <1>1, <1>2

\* The end of a step that writes one list and goes on linking or not.
LEMMA LinkStep ==
    ASSUME BuildInv, NEW t \in Threads, th[t].pc \in {"own", "back"}, NEW x,
           NEW r \in Rows, NEW k, k = th[t].layer, k \in 0..levels[r],
           NEW new \in Seq(Layer(k) \ {r}),
           UNCHANGED <<levels, entry, next>>,
           adj' = [adj EXCEPT ![r][k] = Merged(r, adj[r][k], new, MAt(k))],
           th' = [th EXCEPT ![t] = Linked(x)],
           x.pc = "back", x.row = th[t].row, x.layer = k, x.top = th[t].top,
           x.found = th[t].found, DOMAIN x = InLink, x.sel \in Seq(Layer(k) \ {x.row}),
           \A u \in ToSet(x.sel) : u \in Links(x.row, k)' \/ Full(x.row, k)',
           EdgesFit'
    PROVE  BuildInv'
<1> DEFINE W == Linked(x)
<1>1. /\ BuildType /\ EntryFits /\ ListsFit /\ WorkFits(th[t])
      /\ Inserts(th[t].row, th[t].top, th[t].layer)
  BY Inserting DEF BuildInv
<1>2. /\ Inserts(x.row, x.top, x.layer) /\ x.layer <= levels[x.row]
      /\ x.found \in SUBSET Layer(x.layer) /\ x.found # {}
  BY <1>1 DEF WorkFits
<1>3. /\ WorkFits(W)
      /\ W.pc = "back" => W = x
      /\ \/ Busy(W) /\ W.row = x.row
         \/ levels[x.row] <= entry.level
  BY <1>1, <1>2, LinkedFits
<1> HIDE DEF W
<1>4. th' = [th EXCEPT ![t] = W]
  BY DEF W
<1>5. /\ adj' = [v \in Rows |-> [l \in 0..levels[v] |-> adj'[v][l]]]
      /\ ListsFit' /\ Kept
  BY <1>1, MergeStep
<1>6. BuildType' /\ th'[t] = W /\ \A y \in Threads \ {t} : th'[y] = th[y]
  <2>1. /\ entry' \in [row : Rows, level : Nat] /\ entry'.level = levels[entry'.row]
        /\ next' \in Nat \ {0}
    BY <1>1 DEF BuildType
  <2> QED BY <1>1, <1>4, <1>5, <2>1, TypeStays
<1>7. Later
  <2>1. entry.level \in Nat
    BY <1>1 DEF BuildType
  <2> QED BY <1>5, <2>1 DEF Later
<1>8. EntryFits'
  BY <1>1, <1>3, <1>6, <1>7, EntryStays
<1>9. BackFits(th[t])'
  <2>1. CASE W.pc = "back"
    <3>1. th'[t] = x
      BY <1>3, <1>6, <2>1
    <3> QED BY <3>1 DEF BackFits
  <2>2. CASE W.pc # "back"
    BY <1>6, <2>2 DEF BackFits
  <2> QED BY <2>1, <2>2
<1> QED BY <1>3, <1>5, <1>6, <1>7, <1>8, <1>9, InvStays

LEMMA LinkOwnKeeps ==
    ASSUME BuildInv, NEW t \in Threads, LinkOwn(t)
    PROVE  BuildInv'
<1> DEFINE w == th[t]
           r == w.row
           k == w.layer
           x == [w EXCEPT !.pc = "back"]
<1>1. /\ UNCHANGED <<levels, entry, next>> /\ w.pc = "own"
      /\ adj' = [adj EXCEPT ![r][k] = Merged(r, adj[r][k], w.sel, MAt(k))]
      /\ th' = [th EXCEPT ![t] = Linked(x)]
  BY DEF LinkOwn
<1>2. /\ BuildType /\ EdgesFit /\ ListsFit /\ WorkFits(w) /\ Inserts(r, w.top, k)
  BY <1>1, Inserting DEF BuildInv
<1>3. /\ w.sel \in Seq(Layer(k) \ {r}) /\ r \in Rows /\ k \in 0..levels[r]
      /\ w.found \in SUBSET Layer(k) /\ w.found # {}
  <2>1. /\ w.sel \in Seq(Layer(k) \ {r}) /\ w.found \in SUBSET Layer(k) /\ w.found # {}
        /\ k <= levels[r]
    <3> HIDE DEF w
    <3> QED BY <1>1, <1>2 DEF WorkFits
  <2>2. r \in Rows /\ k \in Nat /\ levels[r] \in Nat
    <3> HIDE DEF w
    <3> QED BY <1>2 DEF Inserts, BuildType
  <2> HIDE DEF w, r, k
  <2> QED BY <2>1, <2>2
<1>4. DOMAIN w = InLink
  BY <1>1, <1>2 DEF WorkFits
<1>5. /\ x.row = r /\ x.layer = k /\ x.top = w.top /\ x.found = w.found /\ x.sel = w.sel
      /\ x.pc = "back" /\ DOMAIN x = InLink
  <2> HIDE DEF w
  <2> QED BY <1>4, Zenon DEF InLink
<1> HIDE DEF x
<1>6. PICK rr, kk, sel, top, found, pc : rr = r /\ kk = k /\ sel = w.sel /\ top = w.top /\ found = w.found /\ pc = w.pc
  OBVIOUS
<1>7. \A y \in Threads \ {t} : th'[y] = th[y]
  BY <1>1, <1>2 DEF BuildType
<1>8. th'[t] = Linked(x)
  BY <1>1, <1>2 DEF BuildType
<1> HIDE DEF w, r, k
<1>9. /\ Kept
      /\ \A v \in Rows : \A l \in 0..levels[v] :
            v # rr \/ l # kk => Links(v, l)' = Links(v, l)
      /\ Links(rr, kk)' \subseteq Links(rr, kk) \cup ToSet(sel)
      /\ Full(rr, kk)' \/ ToSet(sel) \subseteq Links(rr, kk)'
  <2>1. /\ rr \in Rows /\ kk \in 0..levels[rr] /\ sel \in Seq(Layer(kk) \ {rr}) /\ levels' = levels
        /\ adj' = [adj EXCEPT ![rr][kk] = Merged(rr, adj[rr][kk], sel, MAt(kk))]
    BY <1>1, <1>3, <1>6
  <2> QED BY <1>2, <2>1, MergeStep
<1>10. EdgesFit'
  <2>1. ASSUME NEW u \in Rows, NEW l \in 0..levels[u], NEW v \in Links(u, l)' \ Links(u, l)
        PROVE  LinkingBack(u, l, v)'
    <3>1. u = rr /\ l = kk /\ v \in ToSet(sel)
      BY <1>9
    <3>2. sel # <<>>
      BY <3>1, EmptyPicks
    <3>3. Linked(x) = x
      BY <1>5, <1>6, <3>2 DEF Linked
    <3> QED BY <1>5, <1>6, <1>8, <3>1, <3>3 DEF LinkingBack
  <2>2. th[t].pc # "back"
    BY <1>1 DEF w
  <2> QED BY <1>2, <1>7, <1>9, <2>1, <2>2, EdgesFollow
<1>11. \A u \in ToSet(sel) : u \in Links(rr, kk)' \/ Full(rr, kk)'
  BY <1>9
<1> QED BY <1>1, <1>3, <1>5, <1>6, <1>10, <1>11, LinkStep DEF w, r, k

LEMMA LinkBackKeeps ==
    ASSUME BuildInv, NEW t \in Threads, LinkBack(t)
    PROVE  BuildInv'
<1> DEFINE w == th[t]
           x == [w EXCEPT !.sel = Tail(@)]
<1>1. /\ UNCHANGED <<levels, entry, next>> /\ w.pc = "back"
      /\ adj' = IF w.layer \in DOMAIN adj[Head(w.sel)]
                THEN [adj EXCEPT ![Head(w.sel)][w.layer] =
                        Merged(Head(w.sel), adj[Head(w.sel)][w.layer], <<w.row>>, MAt(w.layer))]
                ELSE adj
      /\ th' = [th EXCEPT ![t] = Linked(x)]
  BY DEF LinkBack
<1>2. /\ BuildType /\ EdgesFit /\ ListsFit /\ WorkFits(w) /\ Inserts(w.row, w.top, w.layer)
      /\ BackFits(w)
  BY <1>1, Inserting DEF BuildInv
<1>3. /\ w.sel \in Seq(Layer(w.layer) \ {w.row}) /\ w.sel # <<>> /\ w.row \in Rows
      /\ w.layer \in 0..levels[w.row] /\ w.layer \in Nat
      /\ w.found \in SUBSET Layer(w.layer) /\ w.found # {}
  <2>1. /\ w.sel \in Seq(Layer(w.layer) \ {w.row}) /\ w.sel # <<>>
        /\ w.found \in SUBSET Layer(w.layer) /\ w.found # {}
    <3> HIDE DEF w
    <3> QED BY <1>1, <1>2 DEF WorkFits
  <2>2. w.layer <= levels[w.row]
    <3> HIDE DEF w
    <3> QED BY <1>1, <1>2 DEF WorkFits
  <2>3. w.row \in Rows /\ w.layer \in Nat /\ levels[w.row] \in Nat
    <3> HIDE DEF w
    <3> QED BY <1>2 DEF Inserts, BuildType
  <2> HIDE DEF w
  <2> QED BY <2>1, <2>2, <2>3
<1>4. DOMAIN w = InLink
  BY <1>1, <1>2 DEF WorkFits
<1>5. /\ x.pc = w.pc /\ x.row = w.row /\ x.layer = w.layer /\ x.top = w.top /\ x.found = w.found
      /\ x.sel = Tail(w.sel) /\ DOMAIN x = InLink
  <2> HIDE DEF w
  <2> QED BY <1>4, Zenon DEF InLink
<1>6. PICK row, k, r, sel : row = w.row /\ k = w.layer /\ r = Head(w.sel) /\ sel = w.sel
  OBVIOUS
<1>7. \A y \in Threads \ {t} : th'[y] = th[y]
  BY <1>1, <1>2 DEF BuildType
<1>8. th'[t] = Linked(x)
  BY <1>1, <1>2 DEF BuildType
<1> HIDE DEF w, x
<1>9. /\ r \in Layer(k) \ {row} /\ x.sel \in Seq(Layer(k) \ {row})
      /\ ToSet(sel) = {r} \cup ToSet(x.sel)
  BY <1>3, <1>5, <1>6, TailIs
<1>10. r \in Rows /\ k \in 0..levels[r] /\ DOMAIN adj[r] = 0..levels[r] /\ row \in Layer(k)
       /\ row # r
  BY <1>2, <1>3, <1>6, <1>9 DEF Layer, BuildType
<1>11. adj' = [adj EXCEPT ![r][k] = Merged(r, adj[r][k], <<row>>, MAt(k))]
  BY <1>1, <1>6, <1>10
<1>12. <<row>> \in Seq(Layer(k) \ {r}) /\ ToSet(<<row>>) = {row}
  BY <1>10 DEF ToSet
<1>13. /\ Kept
       /\ \A v \in Rows : \A l \in 0..levels[v] :
             v # r \/ l # k => Links(v, l)' = Links(v, l)
       /\ Links(r, k)' \subseteq Links(r, k) \cup {row}
       /\ Full(r, k)' \/ row \in Links(r, k)'
  BY <1>1, <1>2, <1>10, <1>11, <1>12, MergeStep
<1>14. \A u \in ToSet(sel) : u \in Links(row, k)' \/ Full(row, k)'
  <2>1. \A u \in ToSet(sel) : u \in Links(row, k) \/ Full(row, k)
    BY <1>1, <1>2, <1>6 DEF BackFits
  <2> QED BY <1>3, <1>6, <1>13, <2>1 DEF Kept
<1>15. EdgesFit'
  <2>1. ASSUME NEW u \in Rows, NEW l \in 0..levels[u], NEW v \in Links(u, l)' \ Links(u, l)
        PROVE  u \in Links(v, l)' \/ Full(v, l)'
    <3>1. u = r /\ l = k /\ v = row
      BY <1>13
    <3> QED BY <1>9, <1>14, <3>1
  <2>2. ASSUME NEW v \in ToSet(sel)
        PROVE  row \in Links(v, k)' \/ Full(v, k)' \/ LinkingBack(row, k, v)'
    <3>1. CASE v = r
      BY <1>13, <3>1
    <3>2. CASE v \in ToSet(x.sel)
      <4>1. x.sel # <<>>
        BY <3>2, EmptyPicks
      <4>2. th'[t] = x
        BY <1>8, <4>1 DEF Linked
      <4> QED BY <1>1, <1>5, <1>6, <3>2, <4>2 DEF LinkingBack
    <3> QED BY <1>9, <3>1, <3>2
  <2>3. \A u, l : \A v \in ToSet(th[t].sel) :
           u = th[t].row /\ l = th[t].layer =>
              u \in Links(v, l)' \/ Full(v, l)' \/ LinkingBack(u, l, v)'
    BY <1>6, <2>2 DEF w
  <2> QED BY <1>2, <1>7, <1>13, <2>1, <2>3, EdgesFollow
<1>16. \A u \in ToSet(x.sel) : u \in Links(row, k)' \/ Full(row, k)'
  BY <1>9, <1>14
<1> QED BY <1>1, <1>3, <1>5, <1>6, <1>9, <1>10, <1>11, <1>12, <1>15, <1>16, LinkStep DEF w

-----------------------------------------------------------------------------
(* The construction *)

LEMMA InitFits ==
    ASSUME BuildInit
    PROVE  BuildInv
<1>1. levels \in [Rows -> Nat]
  BY BuildAssumption DEF BuildInit
<1>2. 0 \in Rows /\ Rows \subseteq Nat
  BY RowsAre
<1>3. \A v \in Rows : adj[v] = [l \in 0..levels[v] |-> <<>>]
  BY DEF BuildInit, EmptyLists
<1>4. \A v \in Rows : \A l \in 0..levels[v] : adj[v][l] = <<>>
  BY <1>3
<1>5. BuildType
  <2>1. adj = [v \in Rows |-> [l \in 0..levels[v] |-> adj[v][l]]]
    <3>1. ASSUME NEW v \in Rows PROVE adj[v] = [l \in 0..levels[v] |-> adj[v][l]]
      BY <1>3
    <3>2. adj = [v \in Rows |-> adj[v]]
      BY DEF BuildInit, EmptyLists
    <3> QED BY <3>1, <3>2
  <2> QED BY <1>1, <1>2, <2>1 DEF BuildType, BuildInit
<1>6. ListsFit
  <2> SUFFICES ASSUME NEW v \in Rows, NEW l \in 0..levels[v]
               PROVE  Picks(adj[v][l], Layer(l) \ {v}, MAt(l))
    BY DEF ListsFit
  <2>1. MAt(l) \in Nat
    BY <1>1, LayersAre
  <2> QED BY <1>4, <2>1, EmptyPicks
<1>7. EdgesFit
  BY <1>4, EmptyPicks DEF EdgesFit, Links
<1>8. EntryFits
  <2>1. \A v \in Rows : v < next => v = 0
    BY <1>2 DEF BuildInit
  <2> QED BY <1>1, <1>2, <2>1 DEF EntryFits, BuildInit
<1>9. \A t \in Threads : WorkFits(th[t]) /\ BackFits(th[t])
  <2>1. \A t \in Threads : th[t].pc = "take"
    BY DEF BuildInit
  <2> QED BY <2>1 DEF WorkFits, BackFits, Busy
<1> QED BY <1>5, <1>6, <1>7, <1>8, <1>9 DEF BuildInv

LEMMA StepFits ==
    ASSUME BuildInv, [\E t \in Threads : BuildStep(t)]_buildVars
    PROVE  BuildInv'
<1>1. CASE UNCHANGED buildVars
  <2>1. UNCHANGED levels /\ UNCHANGED adj /\ UNCHANGED entry /\ UNCHANGED next /\ UNCHANGED th
    BY <1>1 DEF buildVars
  <2>2. BuildType' /\ ListsFit' /\ EntryFits'
    <3>1. BuildType'
      BY <2>1 DEF BuildInv, BuildType
    <3>2. ListsFit'
      BY <2>1 DEF BuildInv, ListsFit, Layer
    <3>3. EntryFits'
      BY <2>1 DEF BuildInv, EntryFits, Busy
    <3> QED BY <3>1, <3>2, <3>3
  <2>3. EdgesFit'
    BY <2>1 DEF BuildInv, EdgesFit, LinkingBack, Links, Full
  <2>4. ASSUME NEW t \in Threads PROVE WorkFits(th[t])' /\ BackFits(th[t])'
    <3>1. WorkFits(th[t]) /\ BackFits(th[t]) /\ th'[t] = th[t]
      BY <2>1 DEF BuildInv
    <3>2. Later
      BY <2>1, SameListsAreKept DEF Later, BuildInv, BuildType
    <3> QED BY <2>2, <3>1, <3>2, WorkStays, BackStays DEF BuildInv
  <2> QED BY <2>2, <2>3, <2>4 DEF BuildInv
<1>2. ASSUME NEW t \in Threads, BuildStep(t) PROVE BuildInv'
  BY <1>2, TakeKeeps, ReadEntryKeeps, SearchStepKeeps, ExtendStepKeeps, LinkOwnKeeps,
     LinkBackKeeps, RaiseKeeps DEF BuildStep
<1> QED BY <1>1, <1>2

\* The inductive invariant of the construction: the lists and the entry fit the
\* levels drawn, what a thread searches from, has found and will link to are rows
\* of its layer, and an edge without its reverse leads to a full list or to one
\* that a thread is about to add the row to.
THEOREM BuildInvHolds == BuildSpec => []BuildInv
<1>1. BuildInit => BuildInv
  BY InitFits
<1>2. BuildInv /\ [\E t \in Threads : BuildStep(t)]_buildVars => BuildInv'
  BY StepFits
<1> QED BY <1>1, <1>2, PTL DEF BuildSpec

LEMMA FitsIsWellFormed ==
    ASSUME BuildInv
    PROVE  GraphStaysWellFormed
<1> SUFFICES ASSUME NEW v \in Rows, NEW l \in DOMAIN adj[v]
             PROVE  /\ Len(adj[v][l]) <= MAt(l)
                    /\ \A i \in DOMAIN adj[v][l] : adj[v][l][i] # v /\ l \in DOMAIN adj[adj[v][l][i]]
                    /\ IsInjective(adj[v][l])
  BY DEF GraphStaysWellFormed, WellFormed, BuiltGraph
<1>1. BuildType /\ ListsFit
  BY DEF BuildInv
<1>2. \A u \in Rows : DOMAIN adj[u] = 0..levels[u] /\ levels[u] \in Nat
  BY <1>1 DEF BuildType
<1>3. Picks(adj[v][l], Layer(l) \ {v}, MAt(l))
  BY <1>1, <1>2 DEF ListsFit
<1>4. \A i \in DOMAIN adj[v][l] : adj[v][l][i] \in Layer(l) \ {v}
  BY <1>3 DEF Picks
<1>5. \A u \in Layer(l) : l \in DOMAIN adj[u]
  BY <1>2 DEF Layer
<1> QED BY <1>3, <1>4, <1>5 DEF Picks

\* Whatever the order in which the threads take the locks of the lists, no list
\* that a search may read is longer than its layer allows, names a row twice, names
\* the row itself or a row that lacks the layer.
THEOREM ListsStayWellFormed == BuildSpec => []GraphStaysWellFormed
<1>1. BuildInv => GraphStaysWellFormed
  BY FitsIsWellFormed
<1> QED BY <1>1, BuildInvHolds, PTL

LEMMA FitsIsFinished ==
    ASSUME BuildInv, Built
    PROVE  OnlyFullListsForget(BuiltGraph) /\ EntryIsHighest(BuiltGraph)
<1>1. BuildType /\ ListsFit /\ EdgesFit /\ EntryFits
  BY DEF BuildInv
<1>2. \A u \in Rows : DOMAIN adj[u] = 0..levels[u] /\ levels[u] \in Nat
  BY <1>1 DEF BuildType
<1>3. OnlyFullListsForget(BuiltGraph)
  <2> SUFFICES ASSUME NEW u \in Rows, NEW l \in DOMAIN adj[u], NEW v \in ToSet(adj[u][l])
               PROVE  Contains(adj[v][l], u) \/ Len(adj[v][l]) = MAt(l)
    BY DEF OnlyFullListsForget, BuiltGraph
  <2>1. u \in Links(v, l) \/ Full(v, l)
    <3>1. ~LinkingBack(u, l, v)
      BY DEF LinkingBack, Built
    <3> QED BY <1>1, <1>2, <3>1 DEF EdgesFit, Links
  <2>2. v \in Layer(l)
    <3>1. adj[u][l] \in Seq(Layer(l) \ {u})
      BY <1>1, <1>2 DEF ListsFit, Picks
    <3> QED BY <3>1 DEF ToSet
  <2>3. adj[v][l] \in Seq(Layer(l) \ {v})
    <3>1. v \in Rows /\ l \in 0..levels[v]
      BY <1>2, <2>2 DEF Layer
    <3> QED BY <1>1, <3>1 DEF ListsFit, Picks
  <2>4. DOMAIN adj[v][l] = 1..Len(adj[v][l])
    BY <2>3
  <2> QED BY <2>1, <2>4 DEF Links, Full, ToSet, Contains
<1>4. EntryIsHighest(BuiltGraph)
  <2> SUFFICES ASSUME NEW v \in Rows
               PROVE  levels[v] <= levels[entry.row] /\ entry.level = levels[entry.row]
    BY DEF EntryIsHighest, BuiltGraph
  <2>1. PICK t \in Threads : th[t].pc = "done"
    BY BuildAssumption DEF Built
  <2>2. next \notin Rows /\ next \in Nat
    BY <1>1, <2>1 DEF BuildInv, WorkFits, BuildType
  <2>3. v \in Nat /\ \A i \in 0..v : i \in Rows
    BY RowsAre
  <2>4. v < next
    BY <2>2, <2>3
  <2>5. levels[v] <= entry.level
    BY <1>1, <2>4 DEF EntryFits, Built, Busy
  <2> QED BY <1>1, <2>5 DEF BuildType
<1> QED BY <1>3, <1>4

\* A finished graph: an edge lost its reverse only where a full list was pruned, so
\* that no insertion wiped what another thread had linked, and the entry is a row
\* of the highest level although several threads may raise it at once.
THEOREM FinishedGraphsForgetOnlyFullLists ==
    BuildSpec => [](Built => OnlyFullListsForget(BuiltGraph) /\ EntryIsHighest(BuiltGraph))
<1>1. BuildInv => (Built => OnlyFullListsForget(BuiltGraph) /\ EntryIsHighest(BuiltGraph))
  BY FitsIsFinished
<1> QED BY <1>1, BuildInvHolds, PTL

-----------------------------------------------------------------------------
(* The search pool: the inductive invariant *)

Job(c, i) == [caller |-> c, part |-> i]
Jobs == [caller : Callers, part : Nat]
Running == {w \in Workers : worker[w].pc = "run"}

\* The jobs no worker has finished.
Waiting == ToSet(queue) \cup {worker[w].job : w \in Running}

Collecting(c) == caller[c].pc \in {"own", "recv"}
Messages(c) == {[part |-> i, result |-> caller[c].parts[i]] : i \in DOMAIN caller[c].parts}
Arrived(c) == {m.part : m \in ToSet(caller[c].channel)}

\* Every job is in one place, and its caller has sent it.
JobsFit ==
  /\ queue \in Seq(Jobs)
  /\ IsInjective(queue)
  /\ \A w \in Running : worker[w].job \in Jobs /\ worker[w].job \notin ToSet(queue)
  /\ \A v, w \in Running : worker[v].job = worker[w].job => v = w
  /\ \A j \in Waiting :
       /\ caller[j.caller].pc \in {"own", "recv", "ended"}
       /\ j.part \in 2..Parts(j.caller)

WorkersFit ==
  /\ pool \in {"idle", "running", "closing", "closed"}
  /\ DOMAIN worker = Workers /\ \A w \in Workers : worker[w].pc \in {"absent", "recv", "run", "ended"}
  /\ pool = "idle" => queue = <<>> /\ \A w \in Workers : worker[w].pc = "absent"
  /\ pool = "running" => Workers # {} /\ \A w \in Workers : worker[w].pc \in {"recv", "run"}
  /\ pool = "closing" => Workers # {} /\ \A w \in Workers : worker[w].pc # "absent"
  /\ pool = "closed" => queue = <<>> /\ \A w \in Workers : worker[w].pc \in {"absent", "ended"}
  /\ \A w \in Workers : worker[w].pc = "ended" => queue = <<>>

\* What a caller has of its parts: each is merged, or in its channel, or waits.
MergesFit(c) ==
  /\ DOMAIN caller[c].got \subseteq DOMAIN caller[c].parts
  /\ \A i \in DOMAIN caller[c].got :
       caller[c].got[i] = caller[c].parts[i] /\ ~GivesUp(c, caller[c].got[i])
  /\ IF caller[c].pc = "own" THEN DOMAIN caller[c].got = {} ELSE 1 \in DOMAIN caller[c].got
  /\ caller[c].left \in Nat \ {0}
  /\ caller[c].left = Parts(c) - 1 - Cardinality(DOMAIN caller[c].got \ {1})

ChannelFits(c) ==
  /\ caller[c].channel \in Seq(Messages(c))
  /\ IsInjective(caller[c].channel)
  /\ Arrived(c) \cap (DOMAIN caller[c].got \cup {1}) = {}

PartsFit(c) ==
  \A i \in DOMAIN caller[c].parts \ {1} :
    i \in DOMAIN caller[c].got \cup Arrived(c) <=> Job(c, i) \notin Waiting

CollectFits(c) ==
  /\ DOMAIN caller[c] = {"pc", "rqs", "parts", "channel", "got", "left"}
  /\ pool = "running" /\ Parts(c) > 1
  /\ MergesFit(c) /\ ChannelFits(c) /\ PartsFit(c)

CallFits(c) ==
  /\ caller[c].pc \in {"idle", "plan", "own", "recv", "ended"}
  /\ \E results : caller[c].parts \in Seq(results)
  /\ caller[c].pc \in {"plan", "own", "recv"} => caller[c].rqs # <<>>
  /\ caller[c].pc = "plan" => pool \in {"idle", "running"}
  /\ Collecting(c) => CollectFits(c)
  /\ Ended(c) => MergesAllParts(c)

PoolInv ==
  /\ JobsFit /\ WorkersFit
  /\ DOMAIN caller = Callers /\ \A c \in Callers : CallFits(c)
  /\ pool \in {"closing", "closed"} =>
       \A c \in Callers : Ended(c) \/ caller[c].rqs = <<>>

-----------------------------------------------------------------------------
(* Queues *)

LEMMA SeqDomain ==
    ASSUME NEW S, NEW s \in Seq(S)
    PROVE  /\ Len(s) \in Nat /\ DOMAIN s = 1..Len(s)
           /\ ToSet(s) = {s[i] : i \in 1..Len(s)} /\ ToSet(s) \subseteq S
  BY DEF ToSet

LEMMA Dequeue ==
    ASSUME NEW S, NEW s \in Seq(S), s # <<>>, IsInjective(s)
    PROVE  /\ Head(s) \in ToSet(s) /\ Tail(s) \in Seq(S) /\ IsInjective(Tail(s))
           /\ ToSet(Tail(s)) = ToSet(s) \ {Head(s)}
<1>1. Len(s) \in Nat \ {0} /\ DOMAIN s = 1..Len(s) /\ Head(s) = s[1]
  OBVIOUS
<1>2. /\ Tail(s) \in Seq(S) /\ DOMAIN Tail(s) = 1..(Len(s) - 1)
      /\ \A i \in 1..(Len(s) - 1) : Tail(s)[i] = s[i + 1]
  BY <1>1, HeadTailProperties, LenProperties
<1>3. \A i, j \in 1..Len(s) : s[i] = s[j] => i = j
  BY <1>1 DEF IsInjective
<1>4. Head(s) \in ToSet(s)
  BY <1>1 DEF ToSet
<1>5. IsInjective(Tail(s))
  <2> SUFFICES ASSUME NEW i \in 1..(Len(s) - 1), NEW j \in 1..(Len(s) - 1), Tail(s)[i] = Tail(s)[j]
               PROVE  i = j
    BY <1>2 DEF IsInjective
  <2>1. i + 1 \in 1..Len(s) /\ j + 1 \in 1..Len(s)
    BY <1>1
  <2>2. s[i + 1] = s[j + 1]
    BY <1>2
  <2>3. i + 1 = j + 1
    BY <1>3, <2>1, <2>2
  <2> QED BY <1>1, <2>3
<1>6. ASSUME NEW e \in ToSet(Tail(s)) PROVE e \in ToSet(s) \ {Head(s)}
  <2>1. PICK i \in 1..(Len(s) - 1) : e = s[i + 1]
    BY <1>2, <1>6 DEF ToSet
  <2>2. i + 1 \in 1..Len(s) /\ i + 1 # 1
    BY <1>1
  <2> QED BY <1>1, <1>3, <2>1, <2>2 DEF ToSet
<1>7. ASSUME NEW e \in ToSet(s) \ {Head(s)} PROVE e \in ToSet(Tail(s))
  <2>1. PICK i \in 1..Len(s) : e = s[i]
    BY <1>1, <1>7 DEF ToSet
  <2>2. i # 1
    BY <1>1, <1>7, <2>1
  <2>3. i - 1 \in 1..(Len(s) - 1) /\ (i - 1) + 1 = i
    BY <1>1, <2>2
  <2>4. Tail(s)[i - 1] = e
    BY <1>2, <2>1, <2>3
  <2> QED BY <1>2, <2>3, <2>4 DEF ToSet
<1> QED BY <1>2, <1>4, <1>5, <1>6, <1>7

LEMMA Enqueue ==
    ASSUME NEW S, NEW s \in Seq(S), NEW t \in Seq(S), IsInjective(s), IsInjective(t),
           ToSet(s) \cap ToSet(t) = {}
    PROVE  /\ s \o t \in Seq(S) /\ IsInjective(s \o t)
           /\ ToSet(s \o t) = ToSet(s) \cup ToSet(t)
<1> DEFINE m == Len(s)
           n == Len(t)
           u == s \o t
<1>1. m \in Nat /\ n \in Nat /\ DOMAIN s = 1..m /\ DOMAIN t = 1..n
  OBVIOUS
<1>2. /\ u \in Seq(S) /\ Len(u) = m + n
      /\ \A i \in 1..(m + n) : u[i] = IF i <= m THEN s[i] ELSE t[i - m]
  BY ConcatProperties
<1>3. DOMAIN u = 1..(m + n)
  BY <1>2, LenProperties
<1> HIDE DEF m, n, u
<1>4. ASSUME NEW i \in 1..m PROVE i \in 1..(m + n) /\ u[i] = s[i] /\ s[i] \in ToSet(s)
  <2>1. i \in 1..(m + n) /\ i <= m
    BY <1>1
  <2> QED BY <1>1, <1>2, <2>1 DEF ToSet
<1>5. ASSUME NEW i \in 1..(m + n), i > m
      PROVE  i - m \in 1..n /\ u[i] = t[i - m] /\ t[i - m] \in ToSet(t)
  <2>1. i - m \in 1..n /\ ~(i <= m)
    BY <1>1, <1>5
  <2> QED BY <1>1, <1>2, <2>1 DEF ToSet
<1>6. \A i \in 1..(m + n) : i <= m => i \in 1..m
  BY <1>1
<1>7. IsInjective(u)
  <2> SUFFICES ASSUME NEW i \in 1..(m + n), NEW j \in 1..(m + n), u[i] = u[j] PROVE i = j
    BY <1>3 DEF IsInjective
  <2>1. CASE i <= m /\ j <= m
    BY <1>1, <1>4, <1>6, <2>1 DEF IsInjective
  <2>2. CASE i > m /\ j > m
    <3>1. i - m = j - m
      BY <1>1, <1>5, <2>2 DEF IsInjective
    <3> QED BY <1>1, <3>1
  <2>3. CASE i <= m /\ j > m
    BY <1>4, <1>5, <1>6, <2>3
  <2>4. CASE i > m /\ j <= m
    BY <1>4, <1>5, <1>6, <2>4
  <2> QED BY <1>1, <2>1, <2>2, <2>3, <2>4
<1>8. ToSet(u) \subseteq ToSet(s) \cup ToSet(t)
  <2> SUFFICES ASSUME NEW i \in 1..(m + n) PROVE u[i] \in ToSet(s) \cup ToSet(t)
    BY <1>3 DEF ToSet
  <2> QED BY <1>1, <1>4, <1>5, <1>6
<1>9. ToSet(s) \subseteq ToSet(u)
  BY <1>1, <1>3, <1>4 DEF ToSet
<1>10. ToSet(t) \subseteq ToSet(u)
  <2> SUFFICES ASSUME NEW i \in 1..n PROVE t[i] \in ToSet(u)
    BY <1>1 DEF ToSet
  <2>1. i + m \in 1..(m + n) /\ i + m > m /\ (i + m) - m = i
    BY <1>1
  <2>2. u[i + m] = t[i]
    BY <1>5, <2>1
  <2> QED BY <1>3, <2>1, <2>2 DEF ToSet
<1>11. u \in Seq(S) /\ IsInjective(u) /\ ToSet(u) = ToSet(s) \cup ToSet(t)
  BY <1>2, <1>7, <1>8, <1>9, <1>10
<1> QED BY <1>11 DEF u

LEMMA Deliver ==
    ASSUME NEW S, NEW s \in Seq(S), NEW e \in S, IsInjective(s), e \notin ToSet(s)
    PROVE  /\ Append(s, e) \in Seq(S) /\ IsInjective(Append(s, e))
           /\ ToSet(Append(s, e)) = ToSet(s) \cup {e}
<1> DEFINE t == <<e>>
<1>1. t \in Seq(S) /\ Len(t) = 1 /\ DOMAIN t = {1} /\ t[1] = e
  OBVIOUS
<1>2. IsInjective(t) /\ ToSet(t) = {e}
  BY <1>1 DEF IsInjective, ToSet
<1>3. Append(s, e) = s \o t
  OBVIOUS
<1> HIDE DEF t
<1> QED BY <1>1, <1>2, <1>3, Enqueue

-----------------------------------------------------------------------------
(* What a step leaves alone *)

LEMMA PartsAre ==
    ASSUME NEW c \in Callers, CallFits(c)
    PROVE  /\ Parts(c) \in Nat /\ DOMAIN caller[c].parts = 1..Parts(c)
           /\ caller[c].parts = [i \in 1..Parts(c) |-> caller[c].parts[i]]
<1>1. PICK results : caller[c].parts \in Seq(results)
  BY DEF CallFits
<1> QED BY <1>1 DEF Parts

\* A call keeps its shape when neither it nor its jobs change.
LEMMA CallKeeps ==
    ASSUME NEW c \in Callers, CallFits(c), caller'[c] = caller[c],
           Collecting(c) => pool' = "running",
           caller[c].pc = "plan" => pool' \in {"idle", "running"},
           Collecting(c) => \A i \in DOMAIN caller[c].parts :
                              Job(c, i) \in Waiting' <=> Job(c, i) \in Waiting
    PROVE  CallFits(c)'
<1>1. Parts(c)' = Parts(c) /\ Ended(c)' = Ended(c) /\ Collecting(c)' = Collecting(c)
  BY DEF Parts, Ended, Collecting
<1>2. MergesAllParts(c) => MergesAllParts(c)'
  BY Zenon DEF MergesAllParts, Bad
<1>3. ASSUME Collecting(c), CollectFits(c) PROVE CollectFits(c)'
  <2>1. MergesFit(c)'
    BY <1>1, <1>3, Zenon DEF CollectFits, MergesFit, GivesUp
  <2>2. Messages(c)' = Messages(c) /\ Arrived(c)' = Arrived(c)
    BY Zenon DEF Messages, Arrived, ToSet
  <2>3. ChannelFits(c)'
    BY <2>2, <1>3, Zenon DEF CollectFits, ChannelFits, IsInjective
  <2>4. \A i : Job(c, i)' = Job(c, i)
    BY DEF Job
  <2>5. PartsFit(c)'
    BY <1>3, <2>2, <2>4 DEF CollectFits, PartsFit
  <2> QED BY <1>1, <1>3, <2>1, <2>3, <2>5 DEF CollectFits
<1>4. /\ caller[c].pc \in {"idle", "plan", "own", "recv", "ended"}
      /\ \E results : caller[c].parts \in Seq(results)
      /\ caller[c].pc \in {"plan", "own", "recv"} => caller[c].rqs # <<>>
      /\ Collecting(c) => CollectFits(c)
      /\ Ended(c) => MergesAllParts(c)
  BY Zenon DEF CallFits
<1> QED BY <1>1, <1>2, <1>3, <1>4, Zenon DEF CallFits

LEMMA WaitingAre ==
    ASSUME JobsFit, NEW j \in Waiting
    PROVE  j \in Jobs /\ j.caller \in Callers /\ j = Job(j.caller, j.part)
<1>1. j \in Jobs
  <2>1. CASE j \in ToSet(queue)
    <3>1. ToSet(queue) \subseteq Jobs
      BY SeqDomain DEF JobsFit
    <3> QED BY <2>1, <3>1
  <2>2. CASE j \notin ToSet(queue)
    BY <2>2 DEF Waiting, JobsFit
  <2> QED BY <2>1, <2>2
<1> QED BY <1>1 DEF Jobs, Job

\* The jobs keep their shape when they do not change and their callers go on.
LEMMA JobsKeep ==
    ASSUME JobsFit, UNCHANGED <<queue, worker>>,
           \A c \in Callers :
             /\ caller'[c].parts = caller[c].parts
             /\ caller[c].pc \in {"own", "recv", "ended"} =>
                  caller'[c].pc \in {"own", "recv", "ended"}
    PROVE  JobsFit' /\ Waiting' = Waiting
<1>1. Running' = Running /\ Waiting' = Waiting
  BY DEF Running, Waiting
<1>2. \A j \in Waiting : j.caller \in Callers
  BY WaitingAre
<1>3. \A c \in Callers : Parts(c)' = Parts(c)
  BY DEF Parts
<1>4. Jobs' = Jobs
  BY DEF Jobs
<1>5. ASSUME NEW j \in Waiting
      PROVE  caller'[j.caller].pc \in {"own", "recv", "ended"} /\ j.part \in 2..(Parts(j.caller)')
  <2>1. j.caller \in Callers
    BY <1>2
  <2>2. caller[j.caller].pc \in {"own", "recv", "ended"} /\ j.part \in 2..Parts(j.caller)
    BY DEF JobsFit
  <2>3. Parts(j.caller)' = Parts(j.caller)
    BY <2>1 DEF Parts
  <2> QED BY <2>1, <2>2, <2>3
<1> QED BY <1>1, <1>4, <1>5 DEF JobsFit

LEMMA OneCaller ==
    ASSUME PoolInv, NEW c \in Callers, NEW R, caller' = [caller EXCEPT ![c] = R],
           UNCHANGED <<queue, worker, pool>>, pool \in {"idle", "running"},
           R.parts = caller[c].parts,
           caller[c].pc \in {"own", "recv", "ended"} => R.pc \in {"own", "recv", "ended"},
           CallFits(c)'
    PROVE  PoolInv'
<1>1. /\ caller'[c] = R /\ DOMAIN caller' = Callers
      /\ \A d \in Callers : d # c => caller'[d] = caller[d]
  BY DEF PoolInv
<1>2. JobsFit' /\ Waiting' = Waiting
  <2>1. \A d \in Callers :
          /\ caller'[d].parts = caller[d].parts
          /\ caller[d].pc \in {"own", "recv", "ended"} =>
               caller'[d].pc \in {"own", "recv", "ended"}
    BY <1>1
  <2> QED BY <2>1, JobsKeep DEF PoolInv
<1>3. WorkersFit'
  BY DEF PoolInv, WorkersFit
<1>4. ASSUME NEW d \in Callers, d # c PROVE CallFits(d)'
  <2>1. caller'[d] = caller[d] /\ CallFits(d)
    BY <1>1, <1>4 DEF PoolInv
  <2>2. Collecting(d) => pool = "running"
    BY <2>1 DEF CallFits, CollectFits
  <2>3. \A i \in DOMAIN caller[d].parts : Job(d, i) \in Waiting' <=> Job(d, i) \in Waiting
    BY <1>2
  <2> QED BY <2>1, <2>2, <2>3, CallKeeps
<1> QED BY <1>1, <1>2, <1>3, <1>4 DEF PoolInv

-----------------------------------------------------------------------------
(* The steps of a caller *)

LEMMA BeginKeeps ==
    ASSUME PoolInv, NEW c \in Callers, Begin(c)
    PROVE  PoolInv'
<1> DEFINE R == [pc |-> "plan", rqs |-> caller[c].rqs, parts |-> caller[c].parts]
<1>1. caller' = [caller EXCEPT ![c] = R] /\ UNCHANGED <<queue, worker, pool>>
  BY DEF Begin
<1>2. R.parts = caller[c].parts /\ R.pc = "plan" /\ R.rqs = caller[c].rqs
  OBVIOUS
<1>3. caller'[c] = R
  BY <1>1 DEF PoolInv
<1>4. CallFits(c) /\ caller[c].pc = "idle" /\ caller[c].rqs # <<>> /\ pool \in {"idle", "running"}
  BY DEF PoolInv, Begin
<1> HIDE DEF R
<1>5. CallFits(c)'
  BY <1>1, <1>2, <1>3, <1>4 DEF CallFits, Collecting, Ended
<1> QED BY <1>1, <1>2, <1>4, <1>5, OneCaller

\* A call that ends with the result of a part, or with all of them.
LEMMA EndKeeps ==
    ASSUME PoolInv, NEW c \in Callers, caller[c].pc \in {"plan", "own", "recv"}, NEW outcome,
           caller' = [caller EXCEPT ![c] = End(c, outcome)], UNCHANGED <<queue, worker, pool>>,
           \/ outcome = caller[c].parts /\ \A i \in DOMAIN caller[c].parts : ~Bad(caller[c].parts[i])
           \/ \E i \in DOMAIN caller[c].parts :
                Bad(caller[c].parts[i]) /\ outcome = caller[c].parts[i]
    PROVE  PoolInv'
<1> DEFINE R == End(c, outcome)
<1>1. /\ R.parts = caller[c].parts /\ R.pc = "ended" /\ R.rqs = caller[c].rqs
      /\ R.outcome = outcome
  BY DEF End
<1>2. caller' = [caller EXCEPT ![c] = R] /\ caller'[c] = R
  BY DEF PoolInv
<1>3. CallFits(c)
  BY DEF PoolInv
<1>4. pool \in {"idle", "running"}
  BY <1>3 DEF CallFits, CollectFits, Collecting
<1> HIDE DEF R
<1>5. MergesAllParts(c)'
  BY <1>1, <1>2 DEF MergesAllParts, Bad
<1>6. CallFits(c)'
  BY <1>1, <1>2, <1>3, <1>5 DEF CallFits, Collecting, Ended
<1> QED BY <1>1, <1>2, <1>4, <1>6, OneCaller

LEMMA MinIs ==
    ASSUME NEW S, S \subseteq Nat, S # {}
    PROVE  Min(S) \in S
<1>1. \E m \in S : \A n \in S : m <= n
  BY LeastNatural
<1> QED BY <1>1 DEF Min

LEMMA RunInlineKeeps ==
    ASSUME PoolInv, NEW c \in Callers, RunInline(c)
    PROVE  PoolInv'
<1> DEFINE parts == caller[c].parts
           bad == {i \in DOMAIN parts : Bad(parts[i])}
           outcome == IF bad = {} THEN parts ELSE parts[Min(bad)]
<1>1. /\ caller' = [caller EXCEPT ![c] = End(c, outcome)] /\ UNCHANGED <<queue, worker, pool>>
      /\ caller[c].pc = "plan"
  BY DEF RunInline
<1>2. bad # {} => Min(bad) \in bad
  <2>1. bad \subseteq Nat
    <3>1. DOMAIN parts = 1..Parts(c) /\ Parts(c) \in Nat
      BY PartsAre DEF PoolInv
    <3> QED BY <3>1
  <2> HIDE DEF bad
  <2> QED BY <2>1, MinIs
<1>3. \/ outcome = parts /\ \A i \in DOMAIN parts : ~Bad(parts[i])
      \/ \E i \in DOMAIN parts : Bad(parts[i]) /\ outcome = parts[i]
  BY <1>2
<1> HIDE DEF outcome
<1> QED BY <1>1, <1>3, EndKeeps

\* A call that goes on waiting.
LEMMA ReceivingKeeps ==
    ASSUME PoolInv, NEW c \in Callers, Collecting(c), NEW channel, NEW got, NEW left,
           caller' = [caller EXCEPT ![c] = Receiving(c, channel, got, left)],
           UNCHANGED <<queue, worker, pool>>,
           (MergesFit(c) /\ ChannelFits(c) /\ PartsFit(c))'
    PROVE  PoolInv'
<1> DEFINE R == Receiving(c, channel, got, left)
<1>1. /\ R.parts = caller[c].parts /\ R.pc = "recv" /\ R.rqs = caller[c].rqs
      /\ DOMAIN R = {"pc", "rqs", "parts", "channel", "got", "left"}
  BY DEF Receiving
<1>2. caller' = [caller EXCEPT ![c] = R] /\ caller'[c] = R
  BY DEF PoolInv
<1>3. CallFits(c) /\ CollectFits(c)
  BY DEF PoolInv, CallFits
<1>4. pool = "running" /\ Parts(c) > 1
  BY <1>3 DEF CollectFits
<1> HIDE DEF R
<1>5. CollectFits(c)'
  BY <1>1, <1>2, <1>4 DEF CollectFits, Parts
<1>6. CallFits(c)'
  BY <1>1, <1>2, <1>3, <1>5 DEF CallFits, Collecting, Ended
<1> QED BY <1>1, <1>2, <1>4, <1>6, OneCaller

LEMMA OwnPartKeeps ==
    ASSUME PoolInv, NEW c \in Callers, OwnPart(c)
    PROVE  PoolInv'
<1> DEFINE r == caller[c].parts[1]
           ch == caller[c].channel
           left == caller[c].left
<1>1. Collecting(c) /\ CallFits(c) /\ CollectFits(c) /\ caller[c].pc = "own"
  BY DEF PoolInv, CallFits, OwnPart, Collecting
<1>2. 1 \in DOMAIN caller[c].parts
  <2>1. Parts(c) \in Nat /\ DOMAIN caller[c].parts = 1..Parts(c) /\ Parts(c) > 1
    BY <1>1, PartsAre DEF CollectFits
  <2> QED BY <2>1
<1>3. CASE GivesUp(c, r)
  <2>1. caller' = [caller EXCEPT ![c] = End(c, r)] /\ UNCHANGED <<queue, worker, pool>>
    BY <1>3 DEF OwnPart
  <2>2. Bad(r)
    BY <1>3 DEF GivesUp, Bad
  <2> HIDE DEF r
  <2>3. \E i \in DOMAIN caller[c].parts :
          Bad(caller[c].parts[i]) /\ r = caller[c].parts[i]
    BY <1>2, <2>2 DEF r
  <2> QED BY <1>1, <2>1, <2>3, EndKeeps
<1>4. CASE ~GivesUp(c, r)
  <2>1. caller' = [caller EXCEPT ![c] = Receiving(c, ch, <<r>>, left)] /\ UNCHANGED <<queue, worker, pool>>
    BY <1>4 DEF OwnPart
  <2>2. /\ caller'[c].pc = "recv" /\ caller'[c].parts = caller[c].parts
        /\ caller'[c].channel = ch /\ caller'[c].got = <<r>> /\ caller'[c].left = left
    <3>1. caller'[c] = Receiving(c, ch, <<r>>, left)
      BY <2>1 DEF PoolInv
    <3> QED BY <3>1 DEF Receiving
  <2>3. DOMAIN <<r>> = {1} /\ <<r>>[1] = r /\ DOMAIN caller[c].got = {}
    BY <1>1 DEF CollectFits, MergesFit
  <2>4. Arrived(c)' = Arrived(c) /\ Waiting' = Waiting /\ Messages(c)' = Messages(c)
        /\ Parts(c)' = Parts(c)
    BY <2>1, <2>2 DEF Arrived, Waiting, Running, Messages, Parts
  <2>5. MergesFit(c)'
    <3>1. (DOMAIN caller[c].got) \ {1} = (DOMAIN caller'[c].got) \ {1}
      BY <2>2, <2>3
    <3> QED BY <1>1, <1>2, <1>4, <2>2, <2>3, <2>4, <3>1 DEF CollectFits, MergesFit, GivesUp
  <2>6. ChannelFits(c)'
    BY <1>1, <2>2, <2>3, <2>4 DEF CollectFits, ChannelFits
  <2>7. PartsFit(c)'
    BY <1>1, <2>2, <2>3, <2>4 DEF CollectFits, PartsFit, Job
  <2> HIDE DEF r, ch, left
  <2> QED BY <1>1, <2>1, <2>5, <2>6, <2>7, ReceivingKeeps
<1> QED BY <1>3, <1>4

\* The next message is the result of a part that was not merged yet.
LEMMA NextMessage ==
    ASSUME NEW c \in Callers, CollectFits(c), caller[c].pc = "recv", caller[c].channel # <<>>,
           NEW m, m = Head(caller[c].channel)
    PROVE  /\ m.part \in DOMAIN caller[c].parts /\ m.part # 1
           /\ m.part \notin DOMAIN caller[c].got
           /\ m.result = caller[c].parts[m.part]
           /\ Tail(caller[c].channel) \in Seq(Messages(c)) /\ IsInjective(Tail(caller[c].channel))
           /\ {x.part : x \in ToSet(Tail(caller[c].channel))} = Arrived(c) \ {m.part}
           /\ m.part \in Arrived(c)
<1> DEFINE ch == caller[c].channel
<1>1. ch \in Seq(Messages(c)) /\ IsInjective(ch) /\ ch # <<>>
  BY DEF CollectFits, ChannelFits
<1>2. /\ m \in ToSet(ch) /\ Tail(ch) \in Seq(Messages(c)) /\ IsInjective(Tail(ch))
      /\ ToSet(Tail(ch)) = ToSet(ch) \ {m} /\ ToSet(ch) \subseteq Messages(c)
  <2> HIDE DEF ch
  <2>1. m = Head(ch)
    BY DEF ch
  <2> QED BY <1>1, <2>1, Dequeue, SeqDomain
<1> HIDE DEF ch
<1>3. \A x \in Messages(c) :
        /\ x.part \in DOMAIN caller[c].parts /\ x.result = caller[c].parts[x.part]
        /\ x = [part |-> x.part, result |-> caller[c].parts[x.part]]
  BY DEF Messages
<1>4. \A x, y \in Messages(c) : x.part = y.part => x = y
  BY <1>3
<1>5. m.part \in Arrived(c)
  BY <1>2 DEF Arrived, ch
<1>6. m.part # 1 /\ m.part \notin DOMAIN caller[c].got
  BY <1>5 DEF CollectFits, ChannelFits
<1>7. {x.part : x \in ToSet(Tail(ch))} = Arrived(c) \ {m.part}
  <2>1. \A x \in ToSet(ch) : x # m => x.part # m.part
    BY <1>2, <1>4
  <2> QED BY <1>2, <2>1 DEF Arrived, ch
<1> QED BY <1>2, <1>3, <1>5, <1>6, <1>7 DEF ch

\* What the merged parts become with one more.
LEMMA MergeOne ==
    ASSUME NEW c \in Callers, CallFits(c), CollectFits(c), caller[c].pc = "recv",
           NEW p \in DOMAIN caller[c].parts, p # 1, p \notin DOMAIN caller[c].got,
           ~GivesUp(c, caller[c].parts[p])
    PROVE  LET got == With(caller[c].got, p, caller[c].parts[p])
           IN
           /\ DOMAIN got = DOMAIN caller[c].got \cup {p}
           /\ DOMAIN got \subseteq DOMAIN caller[c].parts /\ 1 \in DOMAIN got
           /\ \A i \in DOMAIN got : got[i] = caller[c].parts[i] /\ ~GivesUp(c, got[i])
           /\ caller[c].left - 1 \in Nat
           /\ caller[c].left - 1 = Parts(c) - 1 - Cardinality(DOMAIN got \ {1})
           /\ caller[c].left = 1 => got = caller[c].parts
<1> DEFINE parts == caller[c].parts
           old == DOMAIN caller[c].got
           n == Parts(c)
           got == With(caller[c].got, p, caller[c].parts[p])
<1>1. /\ n \in Nat /\ n > 1 /\ DOMAIN parts = 1..n /\ parts = [i \in 1..n |-> parts[i]]
  BY PartsAre DEF CollectFits
<1>2. /\ old \subseteq DOMAIN parts /\ 1 \in old
      /\ \A i \in old : caller[c].got[i] = parts[i] /\ ~GivesUp(c, parts[i])
      /\ caller[c].left \in Nat \ {0}
      /\ caller[c].left = n - 1 - Cardinality(old \ {1})
  BY DEF CollectFits, MergesFit
<1>3. got = [i \in old \cup {p} |-> IF i = p THEN parts[p] ELSE caller[c].got[i]]
  BY DEF With
<1> HIDE DEF got
<1>4. DOMAIN got = old \cup {p} /\ \A i \in old \cup {p} : got[i] = parts[i]
  BY <1>2, <1>3
<1>5. Cardinality(DOMAIN got \ {1}) = Cardinality(old \ {1}) + 1
  <2>1. IsFiniteSet(2..n) /\ Cardinality(2..n) = n - 1
    BY <1>1, FS_Interval
  <2>2. old \ {1} \subseteq 2..n
    BY <1>1, <1>2
  <2>3. IsFiniteSet(old \ {1})
    BY <2>1, <2>2, FS_Subset
  <2>4. DOMAIN got \ {1} = (old \ {1}) \cup {p}
    BY <1>4
  <2> QED BY <2>3, <2>4, FS_AddElement
<1>6. Cardinality(old \ {1}) \in Nat
  <2>1. IsFiniteSet(2..n)
    BY <1>1, FS_Interval
  <2>2. old \ {1} \subseteq 2..n
    BY <1>1, <1>2
  <2> QED BY <2>1, <2>2, FS_Subset, FS_CardinalityType
<1>7. ASSUME caller[c].left = 1 PROVE got = parts
  <2>1. IsFiniteSet(2..n) /\ Cardinality(2..n) = n - 1
    BY <1>1, FS_Interval
  <2>2. DOMAIN got \ {1} \subseteq 2..n
    BY <1>1, <1>2, <1>4
  <2>3. Cardinality(DOMAIN got \ {1}) = n - 1
    BY <1>1, <1>2, <1>5, <1>6, <1>7
  <2>4. DOMAIN got \ {1} = 2..n
    BY <2>1, <2>2, <2>3, FS_Subset
  <2>5. DOMAIN got = 1..n
    <3>1. 1..n = (2..n) \cup {1}
      BY <1>1
    <3>2. 1 \in DOMAIN got
      BY <1>2, <1>4
    <3> QED BY <2>4, <3>1, <3>2
  <2> QED BY <1>1, <1>3, <1>4, <2>5
<1>8. caller[c].left - 1 \in Nat /\ caller[c].left - 1 = n - 1 - Cardinality(DOMAIN got \ {1})
  BY <1>1, <1>2, <1>5, <1>6
<1> QED BY <1>1, <1>2, <1>4, <1>7, <1>8 DEF got

LEMMA CollectKeeps ==
    ASSUME PoolInv, NEW c \in Callers, Collect(c)
    PROVE  PoolInv'
<1> DEFINE ch == caller[c].channel
           m == Head(ch)
           parts == caller[c].parts
           got == With(caller[c].got, m.part, m.result)
           left == caller[c].left
<1>1. /\ Collecting(c) /\ CallFits(c) /\ CollectFits(c) /\ caller[c].pc = "recv" /\ ch # <<>>
      /\ UNCHANGED <<queue, worker, pool>>
  BY DEF PoolInv, CallFits, Collect, Collecting
<1>2. /\ m.part \in DOMAIN parts /\ m.part # 1 /\ m.part \notin DOMAIN caller[c].got
      /\ m.result = parts[m.part]
      /\ Tail(ch) \in Seq(Messages(c)) /\ IsInjective(Tail(ch))
      /\ {x.part : x \in ToSet(Tail(ch))} = Arrived(c) \ {m.part} /\ m.part \in Arrived(c)
  <2> HIDE DEF m
  <2>1. m = Head(ch)
    BY DEF m
  <2> QED BY <1>1, <2>1, NextMessage
<1>3. CASE GivesUp(c, m.result)
  <2>1. caller' = [caller EXCEPT ![c] = End(c, m.result)]
    BY <1>3 DEF Collect
  <2>2. Bad(m.result)
    BY <1>3 DEF GivesUp, Bad
  <2> HIDE DEF m
  <2>3. \E i \in DOMAIN caller[c].parts :
          Bad(caller[c].parts[i]) /\ m.result = caller[c].parts[i]
    BY <1>2, <2>2
  <2> QED BY <1>1, <2>1, <2>3, EndKeeps
<1>4. CASE ~GivesUp(c, m.result)
  <2>1. /\ DOMAIN got = DOMAIN caller[c].got \cup {m.part}
        /\ DOMAIN got \subseteq DOMAIN parts /\ 1 \in DOMAIN got
        /\ \A i \in DOMAIN got : got[i] = parts[i] /\ ~GivesUp(c, got[i])
        /\ left - 1 \in Nat /\ left - 1 = Parts(c) - 1 - Cardinality(DOMAIN got \ {1})
        /\ left = 1 => got = parts
    <3>1. got = With(caller[c].got, m.part, parts[m.part])
      BY <1>2
    <3> DEFINE p == m.part
    <3>2. p \in DOMAIN caller[c].parts /\ p # 1 /\ p \notin DOMAIN caller[c].got
      BY <1>2
    <3>3. ~GivesUp(c, caller[c].parts[p])
      BY <1>2, <1>4
    <3>4. got = With(caller[c].got, p, caller[c].parts[p])
      BY <3>1
    <3> HIDE DEF m, p, got
    <3>5. LET g == With(caller[c].got, p, caller[c].parts[p])
          IN /\ DOMAIN g = DOMAIN caller[c].got \cup {p}
             /\ DOMAIN g \subseteq DOMAIN caller[c].parts /\ 1 \in DOMAIN g
             /\ \A i \in DOMAIN g : g[i] = caller[c].parts[i] /\ ~GivesUp(c, g[i])
             /\ caller[c].left - 1 \in Nat
             /\ caller[c].left - 1 = Parts(c) - 1 - Cardinality(DOMAIN g \ {1})
             /\ caller[c].left = 1 => g = caller[c].parts
      BY <1>1, <3>2, <3>3, MergeOne
    <3> QED BY <3>4, <3>5 DEF p
  <2>2. CASE left = 1
    <3> DEFINE bad == {i \in DOMAIN got : got[i] = Failed}
               outcome == IF bad = {} THEN got ELSE Failed
    <3>1. caller' = [caller EXCEPT ![c] = End(c, outcome)]
      BY <1>4, <2>2 DEF Collect, Collected
    <3>2. got = parts /\ \A i \in DOMAIN parts : parts[i] # Panicked
      BY <2>1, <2>2 DEF GivesUp
    <3> HIDE DEF got, m
    <3>3. \/ outcome = parts /\ \A i \in DOMAIN parts : ~Bad(parts[i])
          \/ \E i \in DOMAIN parts : Bad(parts[i]) /\ outcome = parts[i]
      BY <3>2 DEF Bad
    <3> HIDE DEF outcome
    <3> QED BY <1>1, <3>1, <3>3, EndKeeps
  <2>3. CASE left # 1
    <3>1. caller' = [caller EXCEPT ![c] = Receiving(c, Tail(ch), got, left - 1)]
      BY <1>4, <2>3 DEF Collect
    <3> HIDE DEF got
    <3>2. /\ caller'[c].pc = "recv" /\ caller'[c].parts = parts
          /\ caller'[c].channel = Tail(ch) /\ caller'[c].got = got /\ caller'[c].left = left - 1
      <4>1. caller'[c] = Receiving(c, Tail(ch), got, left - 1)
        BY <3>1 DEF PoolInv
      <4> QED BY <4>1 DEF Receiving
    <3>3. /\ Waiting' = Waiting /\ Messages(c)' = Messages(c) /\ Parts(c)' = Parts(c)
          /\ Arrived(c)' = Arrived(c) \ {m.part}
      BY <1>1, <1>2, <3>2 DEF Arrived, Waiting, Running, Messages, Parts
    <3> HIDE DEF m, ch, parts, left
    <3>4. MergesFit(c)'
      <4>1. left - 1 \in Nat \ {0}
        <5>1. left \in Nat
          BY <1>1 DEF CollectFits, MergesFit, left
        <5> QED BY <2>1, <2>3, <5>1
      <4>2. \A i : GivesUp(c, i)' = GivesUp(c, i)
        BY DEF GivesUp
      <4> QED BY <2>1, <3>2, <3>3, <4>1, <4>2 DEF MergesFit
    <3>5. ChannelFits(c)'
      <4>1. Arrived(c) \cap (DOMAIN caller[c].got \cup {1}) = {}
        BY <1>1 DEF CollectFits, ChannelFits
      <4>2. Arrived(c)' \cap (DOMAIN got \cup {1}) = {}
        BY <2>1, <3>3, <4>1
      <4> QED BY <1>2, <3>2, <3>3, <4>2 DEF ChannelFits
    <3>6. PartsFit(c)'
      <4>1. DOMAIN got \cup Arrived(c)' = DOMAIN caller[c].got \cup Arrived(c)
        BY <1>2, <2>1, <3>3
      <4>2. \A i : Job(c, i)' = Job(c, i)
        BY DEF Job
      <4> QED BY <1>1, <3>2, <3>3, <4>1, <4>2 DEF CollectFits, PartsFit, parts
    <3> QED BY <1>1, <3>1, <3>4, <3>5, <3>6, ReceivingKeeps
  <2> QED BY <2>2, <2>3
<1> QED BY <1>3, <1>4

LEMMA SendKeeps ==
    ASSUME PoolInv, NEW c \in Callers, Send(c)
    PROVE  PoolInv'
<1> DEFINE n == Parts(c)
           jobs == [i \in 1..(n - 1) |-> [caller |-> c, part |-> i + 1]]
           R == [pc |-> "own", rqs |-> caller[c].rqs, parts |-> caller[c].parts, channel |-> <<>>,
                 got |-> <<>>, left |-> n - 1]
<1>1. /\ caller[c].pc = "plan" /\ ~Inline(c) /\ queue' = queue \o jobs /\ pool' = "running"
      /\ worker' = IF pool = "idle" THEN [w \in Workers |-> [pc |-> "recv"]] ELSE worker
      /\ caller' = [caller EXCEPT ![c] = R]
  BY DEF Send
<1>2. /\ CallFits(c) /\ JobsFit /\ WorkersFit /\ pool \in {"idle", "running"} /\ caller[c].rqs # <<>>
      /\ DOMAIN caller' = Callers /\ caller'[c] = R
      /\ \A d \in Callers : d # c => caller'[d] = caller[d]
  BY <1>1 DEF PoolInv, CallFits
<1>3. n \in Nat /\ n > 1 /\ DOMAIN caller[c].parts = 1..n /\ Workers # {}
  <2>1. n \in Nat /\ DOMAIN caller[c].parts = 1..n
    BY <1>2, PartsAre
  <2>2. ~(n <= 1) /\ Workers # {}
    BY <1>1 DEF Inline
  <2> QED BY <2>1, <2>2
<1>4. /\ jobs \in Seq(Jobs) /\ IsInjective(jobs)
      /\ ToSet(jobs) = {Job(c, i) : i \in 2..n}
  <2>1. \A i \in 1..(n - 1) : jobs[i] = Job(c, i + 1) /\ jobs[i] \in Jobs /\ jobs[i].part = i + 1
    BY <1>3 DEF Job, Jobs
  <2>2. DOMAIN jobs = 1..(n - 1) /\ n - 1 \in Nat
    BY <1>3
  <2>3. jobs \in Seq(Jobs)
    BY <2>1, <2>2
  <2> HIDE DEF jobs
  <2>4. IsInjective(jobs)
    <3> SUFFICES ASSUME NEW i \in 1..(n - 1), NEW j \in 1..(n - 1), jobs[i] = jobs[j] PROVE i = j
      BY <2>2 DEF IsInjective
    <3>1. i + 1 = j + 1
      BY <2>1
    <3> QED BY <2>2, <3>1
  <2>5. ASSUME NEW i \in 1..(n - 1) PROVE jobs[i] \in {Job(c, k) : k \in 2..n}
    <3>1. i + 1 \in 2..n
      BY <1>3
    <3> QED BY <2>1, <3>1
  <2>6. ASSUME NEW k \in 2..n PROVE Job(c, k) \in ToSet(jobs)
    <3>1. k - 1 \in 1..(n - 1) /\ (k - 1) + 1 = k
      BY <1>3
    <3>2. jobs[k - 1] = Job(c, k)
      BY <2>1, <3>1
    <3> QED BY <2>2, <3>1, <3>2 DEF ToSet
  <2>7. ToSet(jobs) \subseteq {Job(c, k) : k \in 2..n}
    BY <2>2, <2>5 DEF ToSet
  <2> QED BY <2>3, <2>4, <2>6, <2>7
<1>5. \A j \in Waiting : j.caller \in Callers /\ j.caller # c /\ j \in Jobs
  BY <1>1, <1>2, WaitingAre DEF JobsFit
<1>6. \A j \in ToSet(jobs) : j.caller = c /\ j \in Jobs /\ j.part \in 2..n
  BY <1>3, <1>4 DEF Job, Jobs
<1>7. Running' = Running /\ \A w \in Running : worker'[w] = worker[w]
  BY <1>1, <1>2 DEF Running, WorkersFit
<1> HIDE DEF jobs
<1>8. queue' \in Seq(Jobs) /\ IsInjective(queue') /\ ToSet(queue') = ToSet(queue) \cup ToSet(jobs)
  <2>1. ToSet(queue) \cap ToSet(jobs) = {}
    BY <1>5, <1>6 DEF Waiting
  <2> QED BY <1>1, <1>2, <1>4, <2>1, Enqueue DEF JobsFit
<1>9. Waiting' = Waiting \cup ToSet(jobs)
  <2>1. {worker'[w].job : w \in Running'} = {worker[w].job : w \in Running}
    BY <1>7
  <2> QED BY <1>8, <2>1 DEF Waiting, ToSet
<1>10. JobsFit'
  <2>1. \A w \in Running : worker'[w].job \in Jobs /\ worker'[w].job \notin ToSet(queue')
    <3>1. \A w \in Running : worker[w].job \in Waiting
      BY DEF Waiting
    <3> QED BY <1>2, <1>5, <1>6, <1>7, <1>8, <3>1 DEF JobsFit
  <2>2. \A v, w \in Running : worker'[v].job = worker'[w].job => v = w
    BY <1>2, <1>7 DEF JobsFit
  <2>3. ASSUME NEW j \in Waiting'
        PROVE  caller'[j.caller].pc \in {"own", "recv", "ended"} /\ j.part \in 2..(Parts(j.caller)')
    <3>1. CASE j \in Waiting
      BY <1>2, <1>5, <3>1 DEF JobsFit, Parts
    <3>2. CASE j \in ToSet(jobs)
      BY <1>2, <1>6, <3>2 DEF Parts
    <3> QED BY <1>9, <3>1, <3>2
  <2>4. Jobs' = Jobs /\ ToSet(queue)' = ToSet(queue')
    BY DEF Jobs, ToSet
  <2> QED BY <1>7, <1>8, <2>1, <2>2, <2>3, <2>4 DEF JobsFit
<1>11. WorkersFit'
  <2>1. DOMAIN worker' = Workers /\ \A w \in Workers : worker'[w].pc \in {"recv", "run"}
    BY <1>1, <1>2 DEF WorkersFit
  <2> QED BY <1>1, <1>3, <2>1 DEF WorkersFit
<1>12. CallFits(c)'
  <2>1. /\ R.pc = "own" /\ R.rqs = caller[c].rqs /\ R.parts = caller[c].parts /\ R.channel = <<>>
        /\ R.got = <<>> /\ R.left = n - 1
        /\ DOMAIN R = {"pc", "rqs", "parts", "channel", "got", "left"}
    OBVIOUS
  <2> HIDE DEF R
  <2>2. Parts(c)' = n /\ DOMAIN caller'[c].got = {} /\ ToSet(caller'[c].channel) = {}
    BY <1>2, <2>1 DEF Parts, ToSet
  <2>3. MergesFit(c)'
    <3>1. Cardinality({}) = 0 /\ {} \ {1} = {}
      BY FS_EmptySet
    <3>2. n - 1 \in Nat \ {0} /\ n - 1 - 0 = n - 1
      BY <1>3
    <3> HIDE DEF n
    <3> QED BY <1>2, <2>1, <2>2, <3>1, <3>2 DEF MergesFit
  <2>4. Arrived(c)' = {}
    BY <1>2, <2>1 DEF Arrived, ToSet
  <2>5. ChannelFits(c)'
    BY <1>2, <2>1, <2>4 DEF ChannelFits, IsInjective
  <2>6. PartsFit(c)'
    <3>1. \A i \in DOMAIN caller[c].parts \ {1} : Job(c, i) \in Waiting'
      <4>1. \A i \in (1..n) \ {1} : i \in 2..n
        BY <1>3
      <4> QED BY <1>3, <1>4, <1>9, <4>1
    <3>2. \A i : Job(c, i)' = Job(c, i)
      BY DEF Job
    <3> QED BY <1>2, <2>1, <2>2, <2>4, <3>1, <3>2 DEF PartsFit
  <2>7. CollectFits(c)'
    BY <1>1, <1>2, <1>3, <2>1, <2>2, <2>3, <2>5, <2>6 DEF CollectFits
  <2> QED BY <1>2, <2>1, <2>7 DEF CallFits, Collecting, Ended
<1>13. ASSUME NEW d \in Callers, d # c PROVE CallFits(d)'
  <2>1. CallFits(d) /\ caller'[d] = caller[d]
    BY <1>2, <1>13 DEF PoolInv
  <2>2. \A i : Job(d, i).caller = d
    BY DEF Job
  <2>3. \A i \in DOMAIN caller[d].parts : Job(d, i) \in Waiting' <=> Job(d, i) \in Waiting
    BY <1>6, <1>9, <1>13, <2>2
  <2> QED BY <1>1, <2>1, <2>3, CallKeeps
<1> QED BY <1>1, <1>2, <1>10, <1>11, <1>12, <1>13 DEF PoolInv

-----------------------------------------------------------------------------
(* The steps of a worker, and closing *)

LEMMA CallersStay ==
    ASSUME PoolInv, UNCHANGED caller, Waiting' = Waiting,
           \A c \in Callers :
             /\ Collecting(c) => pool' = "running"
             /\ caller[c].pc = "plan" => pool' \in {"idle", "running"}
    PROVE  \A c \in Callers : CallFits(c)'
<1> SUFFICES ASSUME NEW c \in Callers PROVE CallFits(c)'
  OBVIOUS
<1>1. CallFits(c)
  BY DEF PoolInv
<1> QED BY <1>1, CallKeeps

\* A worker that has just taken a job is the only one with it.
LEMMA TakeJobKeeps ==
    ASSUME PoolInv, NEW w \in Workers, TakeJob(w)
    PROVE  PoolInv'
<1> DEFINE j == Head(queue)
<1>1. /\ worker[w].pc = "recv" /\ queue # <<>> /\ queue' = Tail(queue) /\ UNCHANGED <<caller, pool>>
      /\ JobsFit /\ WorkersFit
  BY DEF TakeJob, PoolInv
<1>2. /\ worker'[w] = [pc |-> "run", job |-> j] /\ DOMAIN worker' = Workers
      /\ \A v \in Workers : v # w => worker'[v] = worker[v]
  BY <1>1 DEF TakeJob, WorkersFit
<1>3. /\ j \in ToSet(queue) /\ Tail(queue) \in Seq(Jobs) /\ IsInjective(Tail(queue))
      /\ ToSet(Tail(queue)) = ToSet(queue) \ {j} /\ ToSet(queue) \subseteq Jobs
  <2> HIDE DEF j
  <2>1. j = Head(queue)
    BY DEF j
  <2> QED BY <1>1, <2>1, Dequeue, SeqDomain DEF JobsFit
<1>4. worker'[w].pc = "run" /\ worker'[w].job = j
  BY <1>2
<1> HIDE DEF j
<1>5. Running' = Running \cup {w} /\ w \notin Running
  BY <1>1, <1>2, <1>4 DEF Running
<1>6. \A v \in Running : v # w /\ worker'[v] = worker[v]
  BY <1>2, <1>5 DEF Running
<1>7. ToSet(queue)' = ToSet(queue) \ {j} /\ Jobs' = Jobs
  BY <1>1, <1>3 DEF ToSet, Jobs
<1>8. Waiting' = Waiting
  <2>1. {worker'[v].job : v \in Running'} = {worker[v].job : v \in Running} \cup {j}
    BY <1>4, <1>5, <1>6
  <2> QED BY <1>3, <1>7, <2>1 DEF Waiting
<1>9. JobsFit'
  <2>1. \A v \in Running' : worker'[v].job \in Jobs /\ worker'[v].job \notin ToSet(queue)'
    BY <1>1, <1>3, <1>4, <1>5, <1>6, <1>7 DEF JobsFit
  <2>2. \A u, v \in Running' : worker'[u].job = worker'[v].job => u = v
    BY <1>1, <1>3, <1>4, <1>5, <1>6 DEF JobsFit
  <2>3. \A x \in Waiting : caller'[x.caller].pc \in {"own", "recv", "ended"}
                           /\ x.part \in 2..(Parts(x.caller)')
    BY <1>1 DEF JobsFit, Parts
  <2> QED BY <1>1, <1>3, <1>7, <1>8, <2>1, <2>2, <2>3 DEF JobsFit
<1>10. WorkersFit'
  BY <1>1, <1>2, <1>4 DEF WorkersFit
<1>11. \A c \in Callers : CallFits(c)'
  <2>1. \A c \in Callers : CallFits(c)
    BY DEF PoolInv
  <2>2. \A c \in Callers :
          /\ Collecting(c) => pool' = "running"
          /\ caller[c].pc = "plan" => pool' \in {"idle", "running"}
    BY <1>1, <2>1 DEF CallFits, CollectFits
  <2> QED BY <1>1, <1>8, <2>2, CallersStay
<1> QED BY <1>1, <1>9, <1>10, <1>11 DEF PoolInv, Ended

LEMMA RunJobKeeps ==
    ASSUME PoolInv, NEW w \in Workers, RunJob(w)
    PROVE  PoolInv'
<1>0. PICK j, c, p : j = worker[w].job /\ c = j.caller /\ p = j.part
  OBVIOUS
<1> DEFINE m == [part |-> p, result |-> caller[c].parts[p]]
           ch == caller[c].channel
<1>1. /\ worker[w].pc = "run" /\ worker' = [worker EXCEPT ![w] = [pc |-> "recv"]]
      /\ UNCHANGED <<queue, pool>>
      /\ caller' = IF Ended(c) THEN caller ELSE [caller EXCEPT ![c].channel = Append(@, m)]
  BY <1>0 DEF RunJob
<1>2. JobsFit /\ WorkersFit /\ DOMAIN caller = Callers /\ \A d \in Callers : CallFits(d)
  BY DEF PoolInv
<1>3. /\ worker'[w] = [pc |-> "recv"] /\ DOMAIN worker' = Workers
      /\ \A v \in Workers : v # w => worker'[v] = worker[v]
  BY <1>1, <1>2 DEF WorkersFit
<1>4. w \in Running /\ Running' = Running \ {w} /\ \A v \in Running' : worker'[v] = worker[v]
  BY <1>1, <1>3 DEF Running
<1>5. j \in Waiting
  BY <1>0, <1>4 DEF Waiting
<1>6. c \in Callers /\ j = Job(c, p)
  BY <1>0, <1>2, <1>5, WaitingAre
<1>7. caller[c].pc \in {"own", "recv", "ended"} /\ p \in 2..Parts(c)
  BY <1>0, <1>2, <1>5 DEF JobsFit
<1> HIDE DEF m, ch
<1>8. Waiting' = Waiting \ {j}
  <2>1. \A v \in Running : worker[v].job = j => v = w
    BY <1>0, <1>2, <1>4 DEF JobsFit
  <2>2. {worker'[v].job : v \in Running'} = {worker[v].job : v \in Running} \ {j}
    BY <1>0, <1>4, <2>1
  <2>3. j \notin ToSet(queue)
    BY <1>0, <1>2, <1>4 DEF JobsFit
  <2> QED BY <1>1, <2>2, <2>3 DEF Waiting, ToSet
<1>9. /\ DOMAIN caller' = Callers /\ \A d \in Callers : d # c => caller'[d] = caller[d]
      /\ caller'[c].pc = caller[c].pc /\ caller'[c].parts = caller[c].parts
      /\ caller'[c].rqs = caller[c].rqs
      /\ Ended(c) => caller' = caller
      /\ ~Ended(c) => /\ DOMAIN caller'[c] = DOMAIN caller[c] /\ caller'[c].got = caller[c].got
                      /\ caller'[c].left = caller[c].left /\ caller'[c].channel = Append(ch, m)
  <2>1. CASE Ended(c)
    BY <1>1, <1>2, <2>1
  <2>2. CASE ~Ended(c)
    <3> DEFINE R == [caller[c] EXCEPT !.channel = Append(@, m)]
    <3>1. DOMAIN caller[c] = {"pc", "rqs", "parts", "channel", "got", "left"}
      BY <1>2, <1>6, <1>7, <2>2 DEF CallFits, CollectFits, Collecting, Ended
    <3>2. /\ R.pc = caller[c].pc /\ R.parts = caller[c].parts /\ R.rqs = caller[c].rqs
          /\ DOMAIN R = DOMAIN caller[c] /\ R.got = caller[c].got /\ R.left = caller[c].left
          /\ R.channel = Append(ch, m)
      BY <3>1, Zenon DEF ch
    <3>3. caller' = [caller EXCEPT ![c] = R]
      BY <1>1, <2>2
    <3> HIDE DEF R
    <3>4. caller'[c] = R /\ DOMAIN caller' = Callers /\ \A d \in Callers : d # c => caller'[d] = caller[d]
      BY <1>2, <1>6, <3>3
    <3> QED BY <2>2, <3>2, <3>4
  <2> QED BY <2>1, <2>2
<1>10. JobsFit'
  <2>1. \A d \in Callers : caller'[d].pc = caller[d].pc /\ Parts(d)' = Parts(d)
    BY <1>9 DEF Parts
  <2>2. \A x \in Waiting' : x \in Waiting /\ x.caller \in Callers
    BY <1>2, <1>8, WaitingAre
  <2>3. \A x \in Waiting' : caller'[x.caller].pc \in {"own", "recv", "ended"}
                            /\ x.part \in 2..(Parts(x.caller)')
    BY <1>2, <2>1, <2>2 DEF JobsFit
  <2>4. \A v \in Running' : v \in Running /\ worker'[v].job = worker[v].job
    BY <1>4
  <2>5. queue' = queue /\ ToSet(queue)' = ToSet(queue) /\ Jobs' = Jobs
    BY <1>1 DEF ToSet, Jobs
  <2> QED BY <1>2, <2>3, <2>4, <2>5 DEF JobsFit
<1>11. WorkersFit'
  BY <1>1, <1>2, <1>3 DEF WorkersFit
<1>12. ASSUME NEW d \in Callers, d # c PROVE CallFits(d)'
  <2>1. CallFits(d) /\ caller'[d] = caller[d]
    BY <1>2, <1>9, <1>12
  <2>2. \A i : Job(d, i).caller = d
    BY DEF Job
  <2>3. \A i : Job(d, i) \in Waiting' <=> Job(d, i) \in Waiting
    BY <1>0, <1>8, <1>12, <2>2
  <2>4. /\ Collecting(d) => pool' = "running"
        /\ caller[d].pc = "plan" => pool' \in {"idle", "running"}
    BY <1>1, <2>1 DEF CallFits, CollectFits
  <2> QED BY <2>1, <2>3, <2>4, CallKeeps
<1>13. CallFits(c)'
  <2>1. CASE Ended(c)
    <3>1. caller'[c] = caller[c] /\ ~Collecting(c) /\ caller[c].pc # "plan"
      BY <1>9, <2>1 DEF Ended, Collecting
    <3> QED BY <1>2, <1>6, <3>1, CallKeeps
  <2>2. CASE ~Ended(c)
    <3>1. Collecting(c) /\ CallFits(c) /\ CollectFits(c)
      BY <1>2, <1>6, <1>7, <2>2 DEF Ended, Collecting, CallFits
    <3>2. p \in DOMAIN caller[c].parts /\ p # 1
      <4>1. Parts(c) \in Nat /\ DOMAIN caller[c].parts = 1..Parts(c)
        BY <1>6, <3>1, PartsAre
      <4> QED BY <1>7, <4>1
    <3>3. p \notin DOMAIN caller[c].got /\ p \notin Arrived(c)
      BY <1>5, <1>6, <3>1, <3>2 DEF CollectFits, PartsFit
    <3>4. ch \in Seq(Messages(c)) /\ IsInjective(ch) /\ m \in Messages(c) /\ m.part = p
      BY <3>1, <3>2 DEF CollectFits, ChannelFits, Messages, m, ch
    <3>5. m \notin ToSet(ch) /\ Arrived(c) = {x.part : x \in ToSet(ch)}
      BY <3>3, <3>4 DEF Arrived, ch
    <3>6. /\ Append(ch, m) \in Seq(Messages(c)) /\ IsInjective(Append(ch, m))
          /\ ToSet(Append(ch, m)) = ToSet(ch) \cup {m}
      BY <3>4, <3>5, Deliver
    <3>7. Arrived(c)' = Arrived(c) \cup {p} /\ Messages(c)' = Messages(c) /\ Parts(c)' = Parts(c)
      <4>1. Arrived(c)' = {x.part : x \in ToSet(Append(ch, m))}
        BY <1>9, <2>2 DEF Arrived, ToSet
      <4>2. Messages(c)' = Messages(c) /\ Parts(c)' = Parts(c)
        BY <1>9 DEF Messages, Parts
      <4> QED BY <3>4, <3>5, <3>6, <4>1, <4>2
    <3>8. MergesFit(c)'
      <4>1. \A i : GivesUp(c, i)' = GivesUp(c, i)
        BY DEF GivesUp
      <4> QED BY <1>9, <2>2, <3>1, <3>7, <4>1 DEF CollectFits, MergesFit
    <3>9. ChannelFits(c)'
      BY <1>9, <2>2, <3>1, <3>2, <3>3, <3>6, <3>7 DEF CollectFits, ChannelFits
    <3>10. PartsFit(c)'
      <4>1. \A i : Job(c, i)' = Job(c, i) /\ (Job(c, i) = j <=> i = p)
        BY <1>6 DEF Job
      <4> QED BY <1>8, <1>9, <2>2, <3>1, <3>7, <4>1 DEF CollectFits, PartsFit
    <3>11. CollectFits(c)'
      BY <1>1, <1>9, <2>2, <3>1, <3>7, <3>8, <3>9, <3>10 DEF CollectFits
    <3> QED BY <1>9, <2>2, <3>1, <3>11 DEF CallFits, Collecting, Ended
  <2> QED BY <2>1, <2>2
<1>14. pool' \in {"closing", "closed"} =>
         \A d \in Callers : Ended(d)' \/ caller'[d].rqs = <<>>
  BY <1>1, <1>9 DEF PoolInv, Ended
<1>15. \A d \in Callers : CallFits(d)'
  BY <1>12, <1>13
<1> QED BY <1>9, <1>10, <1>11, <1>14, <1>15 DEF PoolInv

LEMMA EndWorkerKeeps ==
    ASSUME PoolInv, NEW w \in Workers, EndWorker(w)
    PROVE  PoolInv'
<1>1. /\ worker[w].pc = "recv" /\ queue = <<>> /\ pool = "closing"
      /\ worker' = [worker EXCEPT ![w] = [pc |-> "ended"]] /\ UNCHANGED <<caller, queue, pool>>
      /\ JobsFit /\ WorkersFit
  BY DEF EndWorker, PoolInv
<1>2. /\ worker'[w] = [pc |-> "ended"] /\ DOMAIN worker' = Workers
      /\ \A v \in Workers : v # w => worker'[v] = worker[v]
  BY <1>1 DEF WorkersFit
<1>3. Running' = Running /\ \A v \in Running : worker'[v] = worker[v]
  BY <1>1, <1>2 DEF Running
<1>4. Waiting' = Waiting
  BY <1>1, <1>3 DEF Waiting, ToSet
<1>5. JobsFit'
  <2>1. Jobs' = Jobs /\ ToSet(queue)' = ToSet(queue) /\ \A c \in Callers : Parts(c)' = Parts(c)
    BY <1>1 DEF Jobs, ToSet, Parts
  <2>2. \A x \in Waiting : x.part \in 2..(Parts(x.caller)')
    BY <1>1, <2>1, WaitingAre DEF JobsFit
  <2> QED BY <1>1, <1>3, <1>4, <2>1, <2>2 DEF JobsFit
<1>6. WorkersFit'
  BY <1>1, <1>2 DEF WorkersFit
<1>7. \A c \in Callers : CallFits(c)'
  <2>1. \A c \in Callers : CallFits(c)
    BY DEF PoolInv
  <2>2. \A c \in Callers :
          /\ Collecting(c) => pool' = "running"
          /\ caller[c].pc = "plan" => pool' \in {"idle", "running"}
    BY <1>1, <2>1 DEF CallFits, CollectFits
  <2> QED BY <1>1, <1>4, <2>2, CallersStay
<1> QED BY <1>1, <1>5, <1>6, <1>7 DEF PoolInv, Ended

\* The pool closes when no call is under way, so no job waits for an answer.
LEMMA ClosingKeeps ==
    ASSUME PoolInv, Close \/ Join
    PROVE  PoolInv'
<1>1. UNCHANGED <<caller, queue, worker>> /\ pool \in {"idle", "running", "closing"}
      /\ JobsFit /\ WorkersFit /\ DOMAIN caller = Callers
  BY DEF Close, Join, PoolInv
<1>2. \A c \in Callers : CallFits(c) /\ (Ended(c) \/ caller[c].rqs = <<>>)
  BY DEF PoolInv, Close, Join
<1>3. \A c \in Callers : ~Collecting(c) /\ caller[c].pc # "plan"
  BY <1>2 DEF CallFits, Collecting, Ended
<1>4. JobsFit' /\ Waiting' = Waiting
  BY <1>1, JobsKeep
<1>5. WorkersFit'
  <2>1. CASE Close
    BY <1>1, <2>1 DEF Close, WorkersFit
  <2>2. CASE Join
    BY <1>1, <2>2 DEF Join, WorkersFit
  <2> QED BY <2>1, <2>2
<1>6. \A c \in Callers : CallFits(c)'
  BY <1>1, <1>3, <1>4, CallersStay
<1> QED BY <1>1, <1>2, <1>4, <1>5, <1>6 DEF PoolInv, Ended

-----------------------------------------------------------------------------
(* What the pool promises *)

LEMMA PoolStarts ==
    ASSUME PoolInit, NEW rqs, NEW parts, \A c \in Callers : \E results : parts[c] \in Seq(results),
           caller = [c \in Callers |-> Idle(rqs[c], parts[c])]
    PROVE  PoolInv
<1>1. /\ queue = <<>> /\ worker = [w \in Workers |-> [pc |-> "absent"]] /\ pool = "idle"
  BY DEF PoolInit
<1>2. Running = {} /\ ToSet(queue) = {} /\ Waiting = {}
  BY <1>1 DEF Running, ToSet, Waiting
<1>3. JobsFit
  BY <1>1, <1>2 DEF JobsFit, IsInjective
<1>4. WorkersFit
  BY <1>1 DEF WorkersFit
<1>5. ASSUME NEW c \in Callers PROVE CallFits(c)
  <2>1. caller[c].pc = "idle" /\ caller[c].parts = parts[c]
    BY DEF Idle
  <2> QED BY <2>1 DEF CallFits, Collecting, Ended
<1> QED BY <1>1, <1>3, <1>4, <1>5 DEF PoolInv

\* Jobs are neither lost nor done twice: every part of a call under way is merged,
\* in the channel of its caller, with one worker or in the queue, and only once;
\* workers live as long as a call is under way.
THEOREM PoolInvHolds == PoolSpec => []PoolInv
<1> DEFINE Start == \E rqs, parts :
             /\ \A c \in Callers : \E results : parts[c] \in Seq(results)
             /\ caller = [c \in Callers |-> Idle(rqs[c], parts[c])]
<1>1. PoolInit /\ Start => PoolInv
  BY PoolStarts
<1>2. PoolInv /\ [PoolNext]_poolVars => PoolInv'
  <2> SUFFICES ASSUME PoolInv, [PoolNext]_poolVars PROVE PoolInv'
    OBVIOUS
  <2>1. ASSUME NEW c \in Callers, Begin(c) PROVE PoolInv'
    BY <2>1, BeginKeeps
  <2>2. ASSUME NEW c \in Callers, CallerStep(c) PROVE PoolInv'
    BY <2>2, RunInlineKeeps, SendKeeps, OwnPartKeeps, CollectKeeps DEF CallerStep
  <2>3. ASSUME NEW w \in Workers, WorkerStep(w) PROVE PoolInv'
    BY <2>3, TakeJobKeeps, RunJobKeeps, EndWorkerKeeps DEF WorkerStep
  <2>4. CASE Close \/ Join
    BY <2>4, ClosingKeeps
  <2>5. CASE UNCHANGED poolVars
    <3>1. caller' = caller /\ queue' = queue /\ worker' = worker /\ pool' = pool
      BY <2>5 DEF poolVars
    <3>2. JobsFit' /\ Waiting' = Waiting
      BY <3>1, JobsKeep DEF PoolInv
    <3>3. \A c \in Callers : CallFits(c)'
      <4>1. \A c \in Callers : CallFits(c)
        BY DEF PoolInv
      <4>2. \A c \in Callers :
              /\ Collecting(c) => pool' = "running"
              /\ caller[c].pc = "plan" => pool' \in {"idle", "running"}
        BY <3>1, <4>1 DEF CallFits, CollectFits
      <4> QED BY <3>1, <3>2, <4>2, CallersStay
    <3>4. WorkersFit'
      BY <3>1 DEF PoolInv, WorkersFit
    <3> QED BY <3>1, <3>2, <3>3, <3>4 DEF PoolInv, Ended
  <2> QED BY <2>1, <2>2, <2>3, <2>4, <2>5 DEF PoolNext
<1> HIDE DEF Start
<1>3. PoolSpec => PoolInit /\ Start /\ [][PoolNext]_poolVars
  BY DEF PoolSpec, Start
<1> QED BY <1>1, <1>2, <1>3, PTL

\* Whatever the order in which workers finish, and whatever other callers do, a
\* search that returns has merged every part once, and one that fails does so
\* because of a part of its own.
THEOREM SearchesMergeAllParts == PoolSpec => []AnswersMergeAllParts
<1>1. PoolInv => AnswersMergeAllParts
  BY DEF PoolInv, CallFits, AnswersMergeAllParts
<1> QED BY <1>1, PoolInvHolds, PTL

LEMMA SomeIsMissing ==
    ASSUME NEW c \in Callers, CallFits(c), CollectFits(c)
    PROVE  \E i \in DOMAIN caller[c].parts \ {1} : i \notin DOMAIN caller[c].got
<1> DEFINE n == Parts(c)
           rest == DOMAIN caller[c].got \ {1}
<1>1. n \in Nat /\ n > 1 /\ DOMAIN caller[c].parts = 1..n
  BY PartsAre DEF CollectFits
<1>2. /\ DOMAIN caller[c].got \subseteq DOMAIN caller[c].parts
      /\ caller[c].left \in Nat \ {0} /\ caller[c].left = n - 1 - Cardinality(rest)
  BY DEF CollectFits, MergesFit
<1>3. IsFiniteSet(2..n) /\ Cardinality(2..n) = n - 1
  BY <1>1, FS_Interval
<1>4. SUFFICES ASSUME \A i \in DOMAIN caller[c].parts \ {1} : i \in DOMAIN caller[c].got
               PROVE  FALSE
  OBVIOUS
<1>5. rest = 2..n
  BY <1>1, <1>2, <1>4
<1>6. Cardinality(rest) = n - 1
  BY <1>3, <1>5
<1> HIDE DEF n, rest
<1> QED BY <1>1, <1>2, <1>6

\* No caller waits for a result that cannot come: neither a panic of a job nor a
\* caller that gave up takes a job or a worker from it.
THEOREM WaitersAreServed == PoolSpec => []NobodyWaitsInVain
<1>1. PoolInv => NobodyWaitsInVain
  <2> SUFFICES ASSUME PoolInv, NEW c \in Callers, caller[c].pc = "recv"
               PROVE  /\ pool = "running" /\ \A w \in Workers : worker[w].pc \in {"recv", "run"}
                      /\ \/ caller[c].channel # <<>>
                         \/ \E i \in DOMAIN queue : queue[i].caller = c
                         \/ \E w \in Workers : worker[w].pc = "run" /\ worker[w].job.caller = c
    BY DEF NobodyWaitsInVain
  <2>1. CallFits(c) /\ CollectFits(c) /\ WorkersFit
    BY DEF PoolInv, CallFits, Collecting
  <2>2. pool = "running" /\ \A w \in Workers : worker[w].pc \in {"recv", "run"}
    BY <2>1 DEF CollectFits, WorkersFit
  <2>3. PICK i \in DOMAIN caller[c].parts \ {1} : i \notin DOMAIN caller[c].got
    BY <2>1, SomeIsMissing
  <2>4. CASE i \in Arrived(c)
    <3>1. ToSet(<<>>) = {}
      BY DEF ToSet
    <3> QED BY <2>2, <2>4, <3>1 DEF Arrived
  <2>5. CASE Job(c, i) \in ToSet(queue)
    BY <2>2, <2>5 DEF ToSet, Job
  <2>6. CASE Job(c, i) \in {worker[w].job : w \in Running}
    BY <2>2, <2>6 DEF Running, Job
  <2> QED BY <2>1, <2>3, <2>4, <2>5, <2>6 DEF CollectFits, PartsFit, Waiting
<1> QED BY <1>1, PoolInvHolds, PTL

\* Closing the Database never leaves a job undone, nor a call unanswered.
THEOREM ClosingDrainsThePool == PoolSpec => []ClosedPoolIsDrained
<1>1. PoolInv => ClosedPoolIsDrained
  BY DEF PoolInv, WorkersFit, ClosedPoolIsDrained
<1> QED BY <1>1, PoolInvHolds, PTL
=============================================================================
