----------------------- MODULE StreamSelection_proofs -----------------------
(***************************************************************************)
(* What the filters, the ranking and the seed policy promise, for any      *)
(* streams and options, and what is left of it when candidates fail.       *)
(***************************************************************************)
EXTENDS StreamSelection, FiniteSetTheorems, WellFoundedInduction, TLAPS

-----------------------------------------------------------------------------
(* The order of ranks.                                                      *)

(* A set of natural numbers has a least one.                                *)
LEMMA Least ==
  ASSUME NEW S \in SUBSET Nat, S # {}
  PROVE  \E e \in S : \A x \in S : e <= x
<1>1. PICK e \in S : \A x \in S : ~(<<x, e>> \in OpToRel(<, Nat))
  BY NatLessThanWellFounded, WFMin
<1>2. \A x \in S : ~(x < e)
  BY <1>1 DEF OpToRel
<1> QED BY <1>2

(* Different tuples of numbers of one length first differ somewhere.        *)
LEMMA FirstDifference ==
  ASSUME NEW n \in Nat, NEW a \in [1..n -> Int], NEW b \in [1..n -> Int], a # b
  PROVE  \E i \in 1..n : a[i] # b[i] /\ \A j \in 1..(i - 1) : a[j] = b[j]
<1> DEFINE D == {i \in 1..n : a[i] # b[i]}
<1>1. D \in SUBSET Nat /\ D # {}
  OBVIOUS
<1>2. PICK e \in D : \A x \in D : e <= x
  BY <1>1, Least
<1>3. ASSUME NEW j \in 1..(e - 1) PROVE a[j] = b[j]
  <2>1. j \in 1..n /\ ~(e <= j)
    BY <1>2
  <2> QED BY <1>2, <2>1
<1> QED BY <1>2, <1>3

(* Less is a strict and total order of such tuples.                         *)
LEMMA LessIsTotal ==
  ASSUME NEW n \in Nat, NEW a \in [1..n -> Int], NEW b \in [1..n -> Int]
  PROVE  a = b \/ Less(a, b) \/ Less(b, a)
<1> SUFFICES ASSUME a # b PROVE Less(a, b) \/ Less(b, a)
  OBVIOUS
<1>1. PICK i \in 1..n : a[i] # b[i] /\ \A j \in 1..(i - 1) : a[j] = b[j]
  BY FirstDifference
<1>2. a[i] < b[i] \/ b[i] < a[i]
  BY <1>1
<1> QED BY <1>1, <1>2 DEF Less

LEMMA LessIsStrict ==
  ASSUME NEW n \in Nat, NEW a \in [1..n -> Int], NEW b \in [1..n -> Int],
         NEW c \in [1..n -> Int], Less(a, b)
  PROVE  a # b /\ ~Less(b, a) /\ (Less(b, c) => Less(a, c))
<1>1. PICK i \in 1..n : a[i] < b[i] /\ \A j \in 1..(i - 1) : a[j] = b[j]
  BY DEF Less
<1>2. a # b
  BY <1>1
<1>3. ASSUME Less(b, a) PROVE FALSE
  <2>1. PICK k \in 1..n : b[k] < a[k] /\ \A j \in 1..(k - 1) : b[j] = a[j]
    BY <1>3 DEF Less
  <2>2. CASE i < k
    <3>1. i \in 1..(k - 1)
      BY <2>2
    <3> QED BY <1>1, <2>1, <3>1
  <2>3. CASE k < i
    <3>1. k \in 1..(i - 1)
      BY <2>3
    <3> QED BY <1>1, <2>1, <3>1
  <2>4. CASE i = k
    BY <1>1, <2>1, <2>4
  <2> QED BY <2>2, <2>3, <2>4
<1>4. ASSUME Less(b, c) PROVE Less(a, c)
  <2>1. PICK k \in 1..n : b[k] < c[k] /\ \A j \in 1..(k - 1) : b[j] = c[j]
    BY <1>4 DEF Less
  <2>2. CASE i <= k
    <3>1. a[i] < c[i]
      BY <1>1, <2>1, <2>2
    <3>2. \A j \in 1..(i - 1) : j \in 1..(k - 1)
      BY <2>2
    <3>3. \A j \in 1..(i - 1) : a[j] = c[j]
      BY <1>1, <2>1, <3>2
    <3> QED BY <3>1, <3>3 DEF Less
  <2>3. CASE k < i
    <3>1. a[k] < c[k]
      BY <1>1, <2>1, <2>3
    <3>2. \A j \in 1..(k - 1) : j \in 1..(i - 1)
      BY <2>3
    <3>3. \A j \in 1..(k - 1) : a[j] = c[j]
      BY <1>1, <2>1, <3>2
    <3> QED BY <3>1, <3>3 DEF Less
  <2> QED BY <2>2, <2>3
<1> QED BY <1>2, <1>3, <1>4

-----------------------------------------------------------------------------
(* The stable sort.                                                         *)

Precedes(rank, i, j) == Less(rank[i], rank[j]) \/ (rank[i] = rank[j] /\ i < j)

Before(places, rank, i) == {j \in places : Precedes(rank, j, i)}

(* The place from which the n-th element of the result comes.               *)
Origin(places, rank, n) ==
  CHOOSE i \in places : Cardinality(Before(places, rank, i)) = n - 1

(* Precedes is a strict and total order of the places.                      *)
LEMMA PrecedesOrder ==
  ASSUME NEW K \in SUBSET Nat, NEW n \in Nat, NEW rank \in [K -> [1..n -> Int]],
         NEW i \in K, NEW j \in K, NEW k \in K
  PROVE  /\ ~Precedes(rank, i, i)
         /\ i # j => Precedes(rank, i, j) \/ Precedes(rank, j, i)
         /\ Precedes(rank, i, j) => ~Precedes(rank, j, i)
         /\ Precedes(rank, i, j) /\ Precedes(rank, j, k) => Precedes(rank, i, k)
<1>1. rank[i] \in [1..n -> Int] /\ rank[j] \in [1..n -> Int] /\ rank[k] \in [1..n -> Int]
  OBVIOUS
<1>2. i \in Nat /\ j \in Nat /\ k \in Nat
  OBVIOUS
<1>3. ~Less(rank[i], rank[i])
  BY <1>1, LessIsStrict
<1>4. rank[i] = rank[j] \/ Less(rank[i], rank[j]) \/ Less(rank[j], rank[i])
  BY <1>1, LessIsTotal
<1>5. Less(rank[i], rank[j]) => /\ rank[i] # rank[j] /\ ~Less(rank[j], rank[i])
                                /\ Less(rank[j], rank[k]) => Less(rank[i], rank[k])
  BY <1>1, LessIsStrict
<1>6. ~Precedes(rank, i, i)
  BY <1>2, <1>3 DEF Precedes
<1>7. i # j => Precedes(rank, i, j) \/ Precedes(rank, j, i)
  <2>1. i # j => i < j \/ j < i
    BY <1>2
  <2> QED BY <1>4, <2>1 DEF Precedes
<1>8. Precedes(rank, i, j) => ~Precedes(rank, j, i)
  <2>1. i < j => ~(j < i)
    BY <1>2
  <2>2. Less(rank[j], rank[i]) => rank[i] # rank[j]
    BY <1>1, LessIsStrict
  <2> QED BY <1>5, <2>1, <2>2 DEF Precedes
<1>9. Precedes(rank, i, j) /\ Precedes(rank, j, k) => Precedes(rank, i, k)
  <2>1. i < j /\ j < k => i < k
    BY <1>2
  <2> QED BY <1>5, <2>1 DEF Precedes
<1> QED BY <1>6, <1>7, <1>8, <1>9

(* How many places go before one tells where it gets.                       *)
LEMMA PlacesInOrder ==
  ASSUME NEW K \in SUBSET Nat, IsFiniteSet(K), NEW n \in Nat, NEW rank \in [K -> [1..n -> Int]]
  PROVE  /\ Cardinality(K) \in Nat
         /\ \A i \in K : Cardinality(Before(K, rank, i)) \in 0..(Cardinality(K) - 1)
         /\ \A i, j \in K : Precedes(rank, i, j) =>
              Cardinality(Before(K, rank, i)) < Cardinality(Before(K, rank, j))
         /\ \A i, j \in K : Cardinality(Before(K, rank, i)) = Cardinality(Before(K, rank, j))
              => i = j
         /\ \A m \in 0..(Cardinality(K) - 1) :
              \E i \in K : Cardinality(Before(K, rank, i)) = m
<1> DEFINE C(i) == Cardinality(Before(K, rank, i))
<1>1. Cardinality(K) \in Nat
  BY FS_CardinalityType
<1>2. \A i \in K : /\ IsFiniteSet(Before(K, rank, i)) /\ C(i) \in Nat
                   /\ i \notin Before(K, rank, i)
  <2> SUFFICES ASSUME NEW i \in K
               PROVE  /\ IsFiniteSet(Before(K, rank, i)) /\ C(i) \in Nat
                      /\ i \notin Before(K, rank, i)
    OBVIOUS
  <2>1. Before(K, rank, i) \in SUBSET K
    BY DEF Before
  <2>2. ~Precedes(rank, i, i)
    BY PrecedesOrder
  <2> QED BY <2>1, <2>2, FS_Subset, FS_CardinalityType DEF Before
<1>3. ASSUME NEW i \in K, NEW j \in K, Precedes(rank, i, j)
      PROVE  C(i) < C(j)
  <2>1. Before(K, rank, i) \in SUBSET Before(K, rank, j)
    BY <1>3, PrecedesOrder DEF Before
  <2>2. i \in Before(K, rank, j) /\ i \notin Before(K, rank, i)
    BY <1>2, <1>3 DEF Before
  <2>3. C(i) <= C(j) /\ C(i) # C(j)
    BY <1>2, <2>1, <2>2, FS_Subset
  <2> QED BY <1>2, <2>3
<1>4. ASSUME NEW i \in K, NEW j \in K, C(i) = C(j) PROVE i = j
  <2> SUFFICES ASSUME i # j PROVE FALSE
    OBVIOUS
  <2>1. C(i) < C(j) \/ C(j) < C(i)
    BY <1>3, PrecedesOrder
  <2> QED BY <1>2, <1>4, <2>1
<1>5. ASSUME NEW i \in K PROVE C(i) \in 0..(Cardinality(K) - 1)
  <2>1. Before(K, rank, i) \in SUBSET K /\ i \notin Before(K, rank, i)
    BY <1>2 DEF Before
  <2>2. C(i) <= Cardinality(K) /\ C(i) # Cardinality(K)
    BY <2>1, FS_Subset
  <2> QED BY <1>1, <1>2, <2>2
<1>6. ASSUME NEW m \in 0..(Cardinality(K) - 1) PROVE \E i \in K : C(i) = m
  <2> DEFINE T == 0..(Cardinality(K) - 1)
             f == [i \in K |-> C(i)]
  <2> HIDE DEF C
  <2>1. f \in [K -> T]
    BY <1>5
  <2>2. f \in Injection(K, T)
    BY <1>4, <2>1 DEF Injection, IsInjective
  <2>3. IsFiniteSet(T) /\ Cardinality(T) = Cardinality(K)
    BY <1>1, FS_Interval
  <2> HIDE DEF T, f
  <2>4. f \in Surjection(K, T)
    BY <2>2, <2>3, FS_Injection
  <2>5. m \in T
    BY DEF T
  <2>6. \E i \in K : f[i] = m
    BY <2>4, <2>5 DEF Surjection
  <2> QED BY <2>6 DEF f
<1> QED BY <1>1, <1>3, <1>4, <1>5, <1>6

LEMMA OnePlace ==
  ASSUME NEW K \in SUBSET Nat, IsFiniteSet(K), NEW n \in Nat, NEW rank \in [K -> [1..n -> Int]],
         NEW i \in K, NEW j \in K,
         Cardinality(Before(K, rank, i)) = Cardinality(Before(K, rank, j))
  PROVE  i = j
BY PlacesInOrder

(* Which place that is.                                                     *)
LEMMA OriginIs ==
  ASSUME NEW K \in SUBSET Nat, IsFiniteSet(K), NEW n \in Nat, NEW rank \in [K -> [1..n -> Int]],
         NEW m \in 1..Cardinality(K)
  PROVE  /\ Origin(K, rank, m) \in K
         /\ Cardinality(Before(K, rank, Origin(K, rank, m))) = m - 1
<1>1. Cardinality(K) \in Nat
  BY FS_CardinalityType
<1>2. m - 1 \in 0..(Cardinality(K) - 1)
  BY <1>1
<1>3. \E i \in K : Cardinality(Before(K, rank, i)) = m - 1
  BY <1>2, PlacesInOrder
<1> QED BY <1>3 DEF Origin

(* The list has the elements at the places, each once, in their order.      *)
Arranged(list, seq, places, rank) ==
  /\ \A m \in DOMAIN list : /\ Origin(places, rank, m) \in places
                            /\ list[m] = seq[Origin(places, rank, m)]
  /\ \A i \in places : \E m \in DOMAIN list : Origin(places, rank, m) = i
  /\ \A l, m \in DOMAIN list :
       l < m => Precedes(rank, Origin(places, rank, l), Origin(places, rank, m))

LEMMA SortedInOrder ==
  ASSUME NEW S, NEW seq \in Seq(S), NEW K \in SUBSET DOMAIN seq,
         NEW n \in Nat, NEW rank \in [K -> [1..n -> Int]]
  PROVE  /\ Sorted(seq, K, rank) \in Seq(S)
         /\ Len(Sorted(seq, K, rank)) = Cardinality(K)
         /\ Arranged(Sorted(seq, K, rank), seq, K, rank)
<1> DEFINE N    == Cardinality(K)
           C(i) == Cardinality(Before(K, rank, i))
           o(m) == Origin(K, rank, m)
<1>1. K \in SUBSET Nat /\ IsFiniteSet(K) /\ \A i \in K : seq[i] \in S
  <2>1. Len(seq) \in Nat /\ DOMAIN seq = 1..Len(seq)
    OBVIOUS
  <2>2. K \in SUBSET (1..Len(seq))
    BY <2>1
  <2>3. IsFiniteSet(1..Len(seq))
    BY <2>1, FS_Interval
  <2>4. IsFiniteSet(K)
    BY <2>2, <2>3, FS_Subset
  <2> QED BY <2>1, <2>2, <2>4
<1>2. /\ N \in Nat /\ \A i \in K : C(i) \in 0..(N - 1)
      /\ \A i, j \in K : Precedes(rank, i, j) => C(i) < C(j)
      /\ \A i, j \in K : C(i) = C(j) => i = j
  <2>1. IsFiniteSet(K) /\ K \in SUBSET Nat
    BY <1>1
  <2>2. N \in Nat /\ \A i \in K : C(i) \in 0..(N - 1)
    BY <2>1, PlacesInOrder
  <2>3. \A i, j \in K : Precedes(rank, i, j) => C(i) < C(j)
    BY <2>1, PlacesInOrder
  <2>4. \A i, j \in K : C(i) = C(j) => i = j
    BY <2>1, PlacesInOrder
  <2> QED BY <2>2, <2>3, <2>4
<1>3. \A m \in 1..N : o(m) \in K /\ C(o(m)) = m - 1
  BY <1>1, OriginIs
<1>4. Sorted(seq, K, rank) = [m \in 1..N |-> seq[o(m)]]
  BY DEF Sorted, Origin, Before, Precedes
<1> HIDE DEF o, C, N
<1>5. \A m \in 1..N : seq[o(m)] \in S
  BY <1>1, <1>3
<1>6. [m \in 1..N |-> seq[o(m)]] \in Seq(S) /\ Len([m \in 1..N |-> seq[o(m)]]) = N
  BY <1>2, <1>5
<1>7. \A i \in K : \E m \in 1..N : o(m) = i
  <2> SUFFICES ASSUME NEW i \in K PROVE \E m \in 1..N : o(m) = i
    OBVIOUS
  <2>1. C(i) + 1 \in 1..N
    BY <1>2
  <2>2. C(o(C(i) + 1)) = C(i) /\ o(C(i) + 1) \in K
    BY <1>2, <1>3, <2>1
  <2> QED BY <1>2, <2>1, <2>2
<1>8. ASSUME NEW l \in 1..N, NEW m \in 1..N, l < m
      PROVE  Precedes(rank, o(l), o(m))
  <2>1. o(l) \in K /\ o(m) \in K /\ C(o(l)) < C(o(m))
    BY <1>2, <1>3, <1>8
  <2>2. o(l) # o(m) /\ ~Precedes(rank, o(m), o(l))
    BY <1>2, <2>1
  <2> QED BY <1>1, <2>1, <2>2, PrecedesOrder
<1>9. Arranged([m \in 1..N |-> seq[o(m)]], seq, K, rank)
  BY <1>3, <1>7, <1>8 DEF Arranged, o
<1> QED BY <1>4, <1>6, <1>9 DEF N

-----------------------------------------------------------------------------
(* The ranks are tuples of numbers.                                         *)

LEMMA StreamFields ==
  ASSUME NEW s \in Stream, NEW r \in Request
  PROVE  /\ s.key \in Nat /\ s.size \in Nat /\ s.excluded \in BOOLEAN /\ s.tier \in 0..2
         /\ s.fine \in Nat /\ s.quality \in Nat /\ s.seeders \in Nat /\ s.torrent \in BOOLEAN
         /\ s.codec \in {"H.264", "HEVC", "other"} /\ s.url \in {"file", "playlist", "unknown"}
         /\ r.sports \in BOOLEAN /\ r.index \in Nat /\ r.legacy \in Nat /\ r.ideal \in BOOLEAN
         /\ r.cast \in BOOLEAN /\ r.strict \in BOOLEAN /\ r.max \in Nat /\ r.quality \in Nat
         /\ r.minimum \in Nat /\ r.count \in Nat \ {0}
BY DEF Stream, Request

LEMMA CompatibilityType ==
  ASSUME NEW s \in Stream, NEW r \in Request
  PROVE  /\ Compatibility(s, r) = <<Compatibility(s, r)[1], Compatibility(s, r)[2]>>
         /\ Compatibility(s, r)[1] \in 0..2 /\ Compatibility(s, r)[2] \in Nat
BY StreamFields DEF Compatibility

LEMMA FormatType ==
  ASSUME NEW s \in Stream, NEW r \in Request, NEW direct \in BOOLEAN
  PROVE  LET f == Format(s, r, direct)
         IN f = <<f[1], f[2]>> /\ f[1] \in Nat /\ f[2] \in Nat
BY CompatibilityType DEF Format

LEMMA QualityType ==
  ASSUME NEW q \in Nat, NEW w \in Nat
  PROVE  QualityRank(q, w)[1] \in Int /\ QualityRank(q, w)[2] \in Int
BY DEF QualityRank, Lowest, Highest

LEMMA RankType ==
  ASSUME NEW s \in Stream, NEW among, NEW r \in Request, NEW direct \in BOOLEAN
  PROVE  /\ RankOf(s, among, r, direct) \in [1..8 -> Int]
         /\ RankOf(s, among, r, direct)[1] = Format(s, r, direct)[1]
         /\ RankOf(s, among, r, direct)[2] = Format(s, r, direct)[2]
         /\ RankOf(s, among, r, direct)[8] = s.key
<1>1. Format(s, r, direct)[1] \in Int /\ Format(s, r, direct)[2] \in Int
  BY FormatType
<1>2. QualityRank(s.quality, r.quality)[1] \in Int /\ QualityRank(s.quality, r.quality)[2] \in Int
  BY QualityType, StreamFields
<1>3. CodecRank(s, among, r) \in Int
  BY DEF CodecRank
<1>4. -s.seeders \in Int /\ (IF r.smaller THEN s.size ELSE 0) \in Int /\ s.key \in Int
  BY StreamFields
<1> QED BY <1>1, <1>2, <1>3, <1>4 DEF RankOf

LEMMA PolicyRankType ==
  ASSUME NEW s \in Stream, NEW r \in Request, NEW direct \in BOOLEAN
  PROVE  /\ PolicyRank(s, r, direct) \in [1..3 -> Int]
         /\ PolicyRank(s, r, direct)[1] = Format(s, r, direct)[1]
         /\ PolicyRank(s, r, direct)[2] = Format(s, r, direct)[2]
<1>1. Format(s, r, direct)[1] \in Int /\ Format(s, r, direct)[2] \in Int
  BY FormatType
<1>2. HealthRank(s, r) \in Int
  BY DEF HealthRank
<1> QED BY <1>1, <1>2 DEF PolicyRank
-----------------------------------------------------------------------------
(* What is in the lists, and in which order.                                *)

(* No format comes after a better one.                                      *)
Graded(list, r, direct) ==
  \A l, m \in DOMAIN list : l < m => ~Less(Format(list[m], r, direct), Format(list[l], r, direct))

(* A stream is missing for a torrent with the seeders that is there.        *)
Outdone(s, list, r, direct) ==
  /\ Weak(s, r)
  /\ \E t \in Members(list) : /\ t.torrent /\ ~Weak(t, r)
                              /\ Format(t, r, direct) = Format(s, r, direct)

LEMMA UsablePlaces ==
  ASSUME NEW seq, NEW K, NEW r, NEW direct, NEW strict
  PROVE  /\ Filtered(seq, K, r) \in SUBSET K
         /\ Usable(seq, K, r, direct, strict) \in SUBSET Filtered(seq, K, r)
         /\ Usable(seq, K, r, direct, strict) = {} => Filtered(seq, K, r) = {}
BY DEF Filtered, Usable

(* What begins like another is graded like it.                              *)
LEMMA LeadingPair ==
  ASSUME NEW n \in Nat, n >= 2, NEW a \in [1..n -> Int], NEW b \in [1..n -> Int],
         Less(a, b) \/ a = b
  PROVE  ~Less(<<b[1], b[2]>>, <<a[1], a[2]>>)
<1> SUFFICES ASSUME Less(<<b[1], b[2]>>, <<a[1], a[2]>>) PROVE FALSE
  OBVIOUS
<1>1. a[1] \in Int /\ a[2] \in Int /\ b[1] \in Int /\ b[2] \in Int
  OBVIOUS
<1>2. b[1] < a[1] \/ (b[1] = a[1] /\ b[2] < a[2])
  <2>1. PICK i \in 1..2 : /\ <<b[1], b[2]>>[i] < <<a[1], a[2]>>[i]
                          /\ \A j \in 1..(i - 1) : <<b[1], b[2]>>[j] = <<a[1], a[2]>>[j]
    BY DEF Less
  <2>2. CASE i = 1
    BY <2>1, <2>2
  <2>3. CASE i = 2
    <3>1. 1 \in 1..(i - 1)
      BY <2>3
    <3> QED BY <2>1, <2>3, <3>1
  <2> QED BY <2>1, <2>2, <2>3
<1>3. Less(b, a)
  <2>1. CASE b[1] < a[1]
    <3>1. 1 \in DOMAIN b /\ \A j \in 1..(1 - 1) : b[j] = a[j]
      OBVIOUS
    <3> QED BY <2>1, <3>1 DEF Less
  <2>2. CASE b[1] = a[1] /\ b[2] < a[2]
    <3>1. 2 \in DOMAIN b /\ \A j \in 1..(2 - 1) : b[j] = a[j]
      BY <2>2
    <3> QED BY <2>2, <3>1 DEF Less
  <2> QED BY <1>2, <2>1, <2>2
<1> QED BY <1>3, LessIsStrict

(* A list sorted by ranks that begin with the format.                       *)
LEMMA SortedIsGraded ==
  ASSUME NEW seq \in Seq(Stream), NEW K \in SUBSET DOMAIN seq, NEW n \in Nat, n >= 2,
         NEW rank \in [K -> [1..n -> Int]], NEW r \in Request, NEW direct \in BOOLEAN,
         \A i \in K : /\ rank[i][1] = Format(seq[i], r, direct)[1]
                      /\ rank[i][2] = Format(seq[i], r, direct)[2]
  PROVE  /\ Sorted(seq, K, rank) \in Seq(Stream)
         /\ Members(Sorted(seq, K, rank)) = {seq[i] : i \in K}
         /\ Graded(Sorted(seq, K, rank), r, direct)
<1> DEFINE L    == Sorted(seq, K, rank)
           o(m) == Origin(K, rank, m)
<1>1. L \in Seq(Stream)
  BY SortedInOrder
<1>2. Arranged(L, seq, K, rank)
  BY SortedInOrder
<1>3. /\ \A m \in DOMAIN L : o(m) \in K /\ L[m] = seq[o(m)]
      /\ \A i \in K : \E m \in DOMAIN L : o(m) = i
  BY <1>2 DEF Arranged
<1>4. \A l, m \in DOMAIN L : l < m => Precedes(rank, o(l), o(m))
  BY <1>2 DEF Arranged
<1> HIDE DEF L, o
<1>5. Members(L) = {seq[i] : i \in K}
  BY <1>3 DEF Members
<1>6. ASSUME NEW l \in DOMAIN L, NEW m \in DOMAIN L, l < m
      PROVE  ~Less(Format(L[m], r, direct), Format(L[l], r, direct))
  <2> DEFINE a == rank[o(l)]
             b == rank[o(m)]
  <2>1. o(l) \in K /\ o(m) \in K /\ L[l] = seq[o(l)] /\ L[m] = seq[o(m)]
    BY <1>3
  <2>2. seq[o(l)] \in Stream /\ seq[o(m)] \in Stream
    BY <2>1
  <2>3. a \in [1..n -> Int] /\ b \in [1..n -> Int]
    BY <2>1
  <2>4. Less(a, b) \/ a = b
    BY <1>4, <1>6 DEF Precedes
  <2>5. ~Less(<<b[1], b[2]>>, <<a[1], a[2]>>)
    <3> HIDE DEF a, b
    <3> QED BY <2>3, <2>4, LeadingPair
  <2>6. /\ Format(L[l], r, direct) = <<a[1], a[2]>>
        /\ Format(L[m], r, direct) = <<b[1], b[2]>>
    BY <2>1, <2>2, FormatType
  <2> QED BY <2>5, <2>6
<1> QED BY <1>1, <1>5, <1>6 DEF Graded, L

LEMMA OrderHas ==
  ASSUME NEW seq \in Seq(Stream), NEW K \in SUBSET DOMAIN seq, NEW r \in Request,
         NEW direct \in BOOLEAN, NEW strict \in BOOLEAN
  PROVE  /\ Order(seq, K, r, direct, strict) \in Seq(Stream)
         /\ Members(Order(seq, K, r, direct, strict)) =
              {seq[i] : i \in Usable(seq, K, r, direct, strict)}
         /\ Graded(Order(seq, K, r, direct, strict), r, direct)
<1> DEFINE U     == Usable(seq, K, r, direct, strict)
           among == {seq[i] : i \in U}
           rank  == [i \in U |-> RankOf(seq[i], among, r, direct)]
<1>1. U \in SUBSET DOMAIN seq /\ \A i \in U : seq[i] \in Stream
  BY UsablePlaces
<1>2. /\ rank \in [U -> [1..8 -> Int]]
      /\ \A i \in U : /\ rank[i][1] = Format(seq[i], r, direct)[1]
                      /\ rank[i][2] = Format(seq[i], r, direct)[2]
  <2> HIDE DEF U, among
  <2> QED BY <1>1, RankType
<1>3. Order(seq, K, r, direct, strict) = Sorted(seq, U, rank)
  BY DEF Order
<1> HIDE DEF rank, among
<1>4. /\ Sorted(seq, U, rank) \in Seq(Stream)
      /\ Members(Sorted(seq, U, rank)) = {seq[i] : i \in U}
      /\ Graded(Sorted(seq, U, rank), r, direct)
  <2> HIDE DEF U
  <2>1. 8 \in Nat /\ 8 >= 2
    OBVIOUS
  <2>2. Sorted(seq, U, rank) \in Seq(Stream)
    BY <1>1, <1>2, <2>1, SortedIsGraded
  <2>3. Members(Sorted(seq, U, rank)) = {seq[i] : i \in U}
    BY <1>1, <1>2, <2>1, SortedIsGraded
  <2>4. Graded(Sorted(seq, U, rank), r, direct)
    BY <1>1, <1>2, <2>1, SortedIsGraded
  <2> QED BY <2>2, <2>3, <2>4
<1> QED BY <1>3, <1>4

LEMMA SeedPolicyHas ==
  ASSUME NEW seq \in Seq(Stream), NEW r \in Request, NEW direct \in BOOLEAN
  PROVE  /\ SeedPolicy(seq, r, direct) \in Seq(Stream)
         /\ Members(SeedPolicy(seq, r, direct)) \subseteq Members(seq)
         /\ \A s \in Members(seq) \ Members(SeedPolicy(seq, r, direct)) :
              Outdone(s, SeedPolicy(seq, r, direct), r, direct)
         /\ Graded(seq, r, direct) => Graded(SeedPolicy(seq, r, direct), r, direct)
<1>1. CASE SeedPolicy(seq, r, direct) = seq
  BY <1>1
<1>2. CASE SeedPolicy(seq, r, direct) # seq
  <2> DEFINE K    == Kept(seq, r, direct)
             rank == [i \in K |-> PolicyRank(seq[i], r, direct)]
             L    == Sorted(seq, K, rank)
  <2>1. SeedPolicy(seq, r, direct) = L
    BY <1>2 DEF SeedPolicy
  <2>2. K \in SUBSET DOMAIN seq /\ \A i \in K : seq[i] \in Stream
    BY DEF Kept
  <2>3. /\ rank \in [K -> [1..3 -> Int]]
        /\ \A i \in K : /\ rank[i][1] = Format(seq[i], r, direct)[1]
                        /\ rank[i][2] = Format(seq[i], r, direct)[2]
    <3> HIDE DEF K
    <3> QED BY <2>2, PolicyRankType
  <2> HIDE DEF K, rank
  <2>4. 3 \in Nat /\ 3 >= 2
    OBVIOUS
  <2>5. L \in Seq(Stream)
    BY <2>2, <2>3, <2>4, SortedIsGraded
  <2>6. Members(L) = {seq[i] : i \in K}
    BY <2>2, <2>3, <2>4, SortedIsGraded
  <2>7. Graded(L, r, direct)
    BY <2>2, <2>3, <2>4, SortedIsGraded
  <2> HIDE DEF L
  <2>8. ASSUME NEW s \in Members(seq) \ Members(L) PROVE Outdone(s, L, r, direct)
    <3>1. PICK i \in DOMAIN seq : s = seq[i] /\ i \notin K
      BY <2>6 DEF Members
    <3>2. PICK t \in Members(seq) : /\ Weak(s, r) /\ t.torrent /\ ~Weak(t, r)
                                    /\ Format(t, r, direct) = Format(s, r, direct)
      BY <3>1 DEF K, Kept, HealthyTorrent
    <3>3. t \in Members(L)
      BY <2>6, <3>2 DEF K, Kept, Members
    <3> QED BY <3>2, <3>3 DEF Outdone
  <2>9. Members(L) \subseteq Members(seq)
    BY <2>2, <2>6 DEF Members
  <2> QED BY <2>1, <2>5, <2>7, <2>8, <2>9
<1> QED BY <1>1, <1>2

(* The installed order_ideal_streams.                                       *)
LEMMA OrderIdealHas ==
  ASSUME NEW seq \in Seq(Stream), NEW K \in SUBSET DOMAIN seq, NEW r \in Request,
         NEW direct \in BOOLEAN, NEW strict \in BOOLEAN
  PROVE  LET L == OrderIdeal(seq, K, r, direct, strict)
             U == {seq[i] : i \in Usable(seq, K, r, direct, strict)}
         IN /\ L \in Seq(Stream)
            /\ Members(L) \subseteq U
            /\ \A s \in U \ Members(L) : Outdone(s, L, r, direct)
            /\ Graded(L, r, direct)
            /\ L = << >> => Filtered(seq, K, r) = {}
<1> DEFINE O == Order(seq, K, r, direct, strict)
           L == SeedPolicy(O, r, direct)
           P == Usable(seq, K, r, direct, strict)
           U == {seq[i] : i \in P}
<1>1. O \in Seq(Stream)
  BY OrderHas
<1>2. Members(O) = U
  BY OrderHas
<1>3. Graded(O, r, direct)
  BY OrderHas
<1>4. OrderIdeal(seq, K, r, direct, strict) = L
  BY DEF OrderIdeal
<1>5. P = {} => Filtered(seq, K, r) = {}
  BY UsablePlaces
<1> HIDE DEF O, P
<1>6. /\ L \in Seq(Stream) /\ Members(L) \subseteq U
      /\ \A s \in U \ Members(L) : Outdone(s, L, r, direct)
      /\ Graded(L, r, direct)
  <2>1. L \in Seq(Stream)
    BY <1>1, SeedPolicyHas
  <2>2. Members(L) \subseteq Members(O)
    BY <1>1, SeedPolicyHas
  <2>3. \A s \in Members(O) \ Members(L) : Outdone(s, L, r, direct)
    BY <1>1, SeedPolicyHas
  <2>4. Graded(L, r, direct)
    BY <1>1, <1>3, SeedPolicyHas
  <2> HIDE DEF L, U
  <2> QED BY <1>2, <2>1, <2>2, <2>3, <2>4
<1> HIDE DEF L
<1>7. L = << >> => Filtered(seq, K, r) = {}
  <2> SUFFICES ASSUME L = << >> PROVE Filtered(seq, K, r) = {}
    OBVIOUS
  <2>1. Members(L) = {}
    BY DEF Members
  <2>2. U = {}
    BY <1>6, <2>1 DEF Outdone
  <2> QED BY <1>5, <2>2
<1> QED BY <1>4, <1>6, <1>7 DEF L, P
-----------------------------------------------------------------------------
(* The candidates.                                                          *)

(* An ordinary link goes first, and the others follow as they are ordered.  *)
LEMMA FirstAndRest ==
  ASSUME NEW S, NEW x \in S, NEW L \in Seq(S)
  PROVE  /\ <<x>> \o L \in Seq(S)
         /\ <<x>> \o L # << >>
         /\ Members(<<x>> \o L) = {x} \cup Members(L)
<1>1. /\ <<x>> \o L \in Seq(S) /\ Len(<<x>> \o L) = Len(L) + 1 /\ Len(L) \in Nat
      /\ (<<x>> \o L)[1] = x /\ \A i \in 1..Len(L) : (<<x>> \o L)[i + 1] = L[i]
      /\ DOMAIN L = 1..Len(L) /\ DOMAIN (<<x>> \o L) = 1..Len(<<x>> \o L)
  OBVIOUS
<1> DEFINE T == <<x>> \o L
<1> HIDE DEF T
<1>2. /\ Len(T) = Len(L) + 1 /\ T[1] = x /\ \A i \in 1..Len(L) : T[i + 1] = L[i]
      /\ DOMAIN T = 1..Len(T)
  BY <1>1 DEF T
<1>3. Members(T) \subseteq {x} \cup Members(L)
  <2> SUFFICES ASSUME NEW i \in DOMAIN T PROVE T[i] \in {x} \cup Members(L)
    BY DEF Members
  <2>1. CASE i = 1
    BY <1>2, <2>1
  <2>2. CASE i # 1
    <3>1. i - 1 \in 1..Len(L) /\ T[(i - 1) + 1] = L[i - 1] /\ (i - 1) + 1 = i
      BY <1>1, <1>2, <2>2
    <3> QED BY <1>1, <3>1 DEF Members
  <2> QED BY <2>1, <2>2
<1>4. {x} \cup Members(L) \subseteq Members(T)
  <2>1. x \in Members(T)
    BY <1>1, <1>2 DEF Members
  <2>2. \A i \in 1..Len(L) : L[i] \in Members(T)
    BY <1>1, <1>2 DEF Members
  <2> QED BY <1>1, <2>1, <2>2 DEF Members
<1>5. T # << >>
  BY <1>1, <1>2
<1> QED BY <1>1, <1>3, <1>4, <1>5 DEF T

(* Each candidate passed the filters.                                       *)
LEMMA RankedFits ==
  ASSUME NEW seq \in Seq(Stream), NEW r \in Request
  PROVE  /\ Ranked(seq, r) \in Seq(Stream)
         /\ \A s \in Members(Ranked(seq, r)) : \E K \in SUBSET DOMAIN seq :
              /\ \E i \in Filtered(seq, K, r) : s = seq[i]
              /\ r.ideal => K = DOMAIN seq
<1> DEFINE best   == OrderIdeal(seq, DOMAIN seq, r, FALSE, FALSE)
           others == {i \in DOMAIN seq : seq[i] # best[1]}
           fit(K) == {seq[i] : i \in Filtered(seq, K, r)}
           list(K, direct, strict) == OrderIdeal(seq, K, r, direct, strict)
<1>1. \A K \in SUBSET DOMAIN seq, direct, strict \in BOOLEAN :
        /\ list(K, direct, strict) \in Seq(Stream)
        /\ Members(list(K, direct, strict)) \subseteq fit(K)
  <2> SUFFICES ASSUME NEW K \in SUBSET DOMAIN seq, NEW direct \in BOOLEAN, NEW strict \in BOOLEAN
               PROVE  /\ list(K, direct, strict) \in Seq(Stream)
                      /\ Members(list(K, direct, strict)) \subseteq fit(K)
    OBVIOUS
  <2>1. /\ list(K, direct, strict) \in Seq(Stream)
        /\ Members(list(K, direct, strict)) \subseteq
             {seq[i] : i \in Usable(seq, K, r, direct, strict)}
    BY OrderIdealHas
  <2>2. Usable(seq, K, r, direct, strict) \subseteq Filtered(seq, K, r)
    BY UsablePlaces
  <2> QED BY <2>1, <2>2
<1>2. r.cast \in BOOLEAN /\ r.strict \in BOOLEAN /\ DOMAIN seq \in SUBSET DOMAIN seq
  BY StreamFields DEF Request
<1>3. CASE r.ideal
  <2>1. Ranked(seq, r) = list(DOMAIN seq, r.cast, r.strict)
    BY <1>3 DEF Ranked
  <2> QED BY <1>1, <1>2, <2>1
<1>4. CASE ~r.ideal /\ best = << >>
  <2>1. Ranked(seq, r) = << >>
    BY <1>4 DEF Ranked
  <2>2. Members(<< >>) = {}
    BY DEF Members
  <2> QED BY <1>4, <2>1, <2>2
<1>5. CASE ~r.ideal /\ best # << >>
  <2> DEFINE rest == list(others, r.cast, r.strict)
  <2>1. Ranked(seq, r) = <<best[1]>> \o rest
    BY <1>5 DEF Ranked
  <2>2. best \in Seq(Stream) /\ Members(best) \subseteq fit(DOMAIN seq)
    BY <1>1, <1>2
  <2>3. rest \in Seq(Stream) /\ Members(rest) \subseteq fit(others)
    BY <1>1, <1>2
  <2> HIDE DEF best, rest, others, list
  <2>4. 1 \in DOMAIN best
    BY <1>5, <2>2
  <2>5. best[1] \in Stream /\ best[1] \in Members(best)
    BY <2>2, <2>4 DEF Members
  <2>6. /\ Ranked(seq, r) \in Seq(Stream)
        /\ Members(Ranked(seq, r)) = {best[1]} \cup Members(rest)
    BY <2>1, <2>3, <2>5, FirstAndRest
  <2>7. others \in SUBSET DOMAIN seq
    BY DEF others
  <2> QED BY <1>2, <1>5, <2>2, <2>3, <2>5, <2>6, <2>7
<1> QED BY <1>3, <1>4, <1>5

(* What is missing from an ordered list has been outdone, or is risky.      *)
LEMMA MissingForAReason ==
  ASSUME NEW seq \in Seq(Stream), NEW K \in SUBSET DOMAIN seq, NEW r \in Request,
         NEW i \in Filtered(seq, K, r),
         seq[i] \notin Members(OrderIdeal(seq, K, r, r.cast, r.strict))
  PROVE  \/ Outdone(seq[i], OrderIdeal(seq, K, r, r.cast, r.strict), r, r.cast)
         \/ r.cast /\ r.strict /\ Compatibility(seq[i], r)[1] = 2
<1>1. r.cast \in BOOLEAN /\ r.strict \in BOOLEAN /\ i \in K /\ seq[i] \in Stream
  <2>1. Filtered(seq, K, r) \in SUBSET K
    BY DEF Filtered
  <2>2. i \in K /\ seq[i] \in Stream
    BY <2>1
  <2> QED BY <2>2 DEF Request
<1>2. CASE i \in Usable(seq, K, r, r.cast, r.strict)
  BY <1>1, <1>2, OrderIdealHas
<1>3. CASE i \notin Usable(seq, K, r, r.cast, r.strict)
  <2>1. r.cast /\ r.strict /\ ~(Compatibility(seq[i], r)[1] < 2)
    BY <1>3 DEF Usable
  <2>2. Compatibility(seq[i], r)[1] \in 0..2
    BY <1>1, CompatibilityType
  <2>3. \A n \in 0..2 : ~(n < 2) => n = 2
    OBVIOUS
  <2>4. Compatibility(seq[i], r)[1] = 2
    BY <2>1, <2>2, <2>3
  <2> QED BY <2>1, <2>4
<1> QED BY <1>2, <1>3

(* The same of the candidates.                                              *)
LEMMA DroppedForAReason ==
  ASSUME NEW seq \in Seq(Stream), NEW r \in Request,
         NEW i \in Filtered(seq, DOMAIN seq, r), seq[i] \notin Members(Ranked(seq, r))
  PROVE  \/ Outdone(seq[i], Ranked(seq, r), r, r.cast)
         \/ r.cast /\ r.strict /\ Compatibility(seq[i], r)[1] = 2
<1> DEFINE best   == OrderIdeal(seq, DOMAIN seq, r, FALSE, FALSE)
           others == {j \in DOMAIN seq : seq[j] # best[1]}
           rest   == OrderIdeal(seq, others, r, r.cast, r.strict)
<1>1. r.cast \in BOOLEAN /\ r.strict \in BOOLEAN
  BY DEF Request
<1>2. CASE r.ideal
  <2>1. Ranked(seq, r) = OrderIdeal(seq, DOMAIN seq, r, r.cast, r.strict)
    BY <1>2 DEF Ranked
  <2> QED BY <2>1, MissingForAReason
<1>3. CASE ~r.ideal
  <2>1. best # << >> /\ Ranked(seq, r) = <<best[1]>> \o rest
    <3>1. best = << >> => Filtered(seq, DOMAIN seq, r) = {}
      BY OrderIdealHas
    <3>2. best # << >>
      <4> HIDE DEF best
      <4> QED BY <3>1
    <3> QED BY <1>3, <3>2 DEF Ranked
  <2>2. best \in Seq(Stream)
    BY OrderIdealHas
  <2>3. rest \in Seq(Stream)
    BY <1>1, OrderIdealHas
  <2>4. 1 \in DOMAIN best /\ best[1] \in Stream
    <3> HIDE DEF best
    <3> QED BY <2>1, <2>2
  <2>5. Members(Ranked(seq, r)) = {best[1]} \cup Members(rest)
    <3> HIDE DEF best, rest
    <3> QED BY <2>1, <2>3, <2>4, FirstAndRest
  <2>6. i \in others /\ others \in SUBSET DOMAIN seq
    <3>1. i \in DOMAIN seq
      BY UsablePlaces
    <3> QED BY <2>5, <3>1
  <2> HIDE DEF best
  <2>7. i \in Filtered(seq, others, r)
    <3> HIDE DEF others
    <3>1. CASE \E j \in others : ~seq[j].excluded
      BY <2>6, <3>1 DEF Filtered
    <3>2. CASE \A j \in others : seq[j].excluded
      BY <2>6, <3>2 DEF Filtered
    <3> QED BY <3>1, <3>2
  <2>8. \/ Outdone(seq[i], rest, r, r.cast)
        \/ r.cast /\ r.strict /\ Compatibility(seq[i], r)[1] = 2
    <3> HIDE DEF others
    <3> QED BY <2>5, <2>6, <2>7, MissingForAReason
  <2> HIDE DEF rest
  <2> QED BY <2>5, <2>8 DEF Outdone
<1> QED BY <1>2, <1>3

-----------------------------------------------------------------------------
(* The same streams in another order.                                       *)

Permutes(p, n) ==
  p \in [1..n -> 1..n] /\ \A i, j \in 1..n : p[i] = p[j] => i = j

Shuffled(seq, p) == [i \in DOMAIN seq |-> seq[p[i]]]

(* Where some places are now.                                               *)
Pulled(p, K) == {i \in DOMAIN p : p[i] \in K}

Onto(p, n) == \A k \in 1..n : \E i \in 1..n : p[i] = k

LEMMA PermutationIsOnto ==
  ASSUME NEW n \in Nat, NEW p, Permutes(p, n)
  PROVE  Onto(p, n)
<1> DEFINE T == 1..n
<1>1. IsFiniteSet(T)
  BY FS_Interval
<1>2. p \in Injection(T, T)
  BY DEF Permutes, Injection, IsInjective
<1> HIDE DEF T
<1>3. p \in Surjection(T, T)
  BY <1>1, <1>2, FS_Injection
<1> QED BY <1>3 DEF Surjection, T, Onto

LEMMA PulledAreAsMany ==
  ASSUME NEW n \in Nat, NEW p, Permutes(p, n), NEW K \in SUBSET (1..n)
  PROVE  /\ Pulled(p, K) \in SUBSET (1..n)
         /\ IsFiniteSet(K) /\ IsFiniteSet(Pulled(p, K))
         /\ Cardinality(Pulled(p, K)) = Cardinality(K)
<1> DEFINE J == Pulled(p, K)
           f == [i \in J |-> p[i]]
<1>1. IsFiniteSet(1..n)
  BY FS_Interval
<1>2. J \in SUBSET (1..n) /\ \A i \in J : p[i] \in K
  BY DEF Pulled, Permutes
<1>3. IsFiniteSet(K) /\ IsFiniteSet(J)
  BY <1>1, <1>2, FS_Subset
<1>4. ASSUME NEW k \in K PROVE \E i \in J : p[i] = k
  <2>1. PICK i \in 1..n : p[i] = k
    BY PermutationIsOnto DEF Onto
  <2>2. i \in J
    BY <2>1 DEF Pulled, Permutes
  <2> QED BY <2>1, <2>2
<1>5. \A i, j \in J : p[i] = p[j] => i = j
  BY <1>2 DEF Permutes
<1> HIDE DEF J
<1>6. f \in Injection(J, K) /\ f \in Surjection(J, K)
  BY <1>2, <1>4, <1>5 DEF Injection, Surjection, IsInjective
<1>7. Cardinality(J) = Cardinality(K)
  BY <1>3, <1>6, FS_Injection
<1> QED BY <1>2, <1>3, <1>7 DEF J

LEMMA ShuffledSequence ==
  ASSUME NEW S, NEW seq \in Seq(S), NEW p, Permutes(p, Len(seq))
  PROVE  /\ Len(seq) \in Nat /\ DOMAIN seq = 1..Len(seq)
         /\ p \in [DOMAIN seq -> DOMAIN seq]
         /\ Shuffled(seq, p) \in Seq(S)
         /\ DOMAIN Shuffled(seq, p) = DOMAIN seq
         /\ \A i \in DOMAIN seq : Shuffled(seq, p)[i] = seq[p[i]]
         /\ \A k \in DOMAIN seq : \E i \in DOMAIN seq : p[i] = k
<1>1. Len(seq) \in Nat /\ DOMAIN seq = 1..Len(seq) /\ \A i \in 1..Len(seq) : seq[i] \in S
  OBVIOUS
<1>2. p \in [1..Len(seq) -> 1..Len(seq)]
  BY DEF Permutes
<1>3. \A i \in 1..Len(seq) : seq[p[i]] \in S
  BY <1>1, <1>2
<1>4. [i \in 1..Len(seq) |-> seq[p[i]]] \in Seq(S)
  BY <1>1, <1>3
<1>5. Onto(p, Len(seq))
  BY <1>1, PermutationIsOnto
<1> QED BY <1>1, <1>2, <1>4, <1>5 DEF Shuffled, Onto

(* No two streams have one rank, and each takes its own along.              *)
Resorts(seq, p, K, n, rank, place) ==
  /\ seq \in Seq(Stream) /\ Permutes(p, Len(seq)) /\ K \in SUBSET DOMAIN seq
  /\ n \in Nat /\ rank \in [K -> [1..n -> Int]]
  /\ place \in [Pulled(p, K) -> [1..n -> Int]]
  /\ \A i, j \in K : rank[i] = rank[j] => i = j
  /\ \A i \in Pulled(p, K) : place[i] = rank[p[i]]

(* Then the sort does not see the order.                                    *)
LEMMA SortedShuffled ==
  ASSUME NEW seq, NEW p, NEW K, NEW n, NEW rank, NEW place, Resorts(seq, p, K, n, rank, place)
  PROVE  Sorted(Shuffled(seq, p), Pulled(p, K), place) = Sorted(seq, K, rank)
<1> DEFINE J     == Pulled(p, K)
           again == Shuffled(seq, p)
<1>0. /\ seq \in Seq(Stream) /\ Permutes(p, Len(seq)) /\ K \in SUBSET DOMAIN seq
      /\ n \in Nat /\ rank \in [K -> [1..n -> Int]]
      /\ \A i, j \in K : rank[i] = rank[j] => i = j
      /\ place \in [J -> [1..n -> Int]] /\ \A i \in J : place[i] = rank[p[i]]
  BY DEF Resorts
<1>1. /\ Len(seq) \in Nat /\ DOMAIN seq = 1..Len(seq)
      /\ again \in Seq(Stream) /\ DOMAIN again = DOMAIN seq
      /\ \A i \in DOMAIN seq : again[i] = seq[p[i]]
  BY <1>0, ShuffledSequence
<1>2. /\ J \in SUBSET DOMAIN again /\ J \in SUBSET Nat /\ K \in SUBSET Nat
      /\ IsFiniteSet(K) /\ IsFiniteSet(J) /\ Cardinality(J) = Cardinality(K)
  BY <1>0, <1>1, PulledAreAsMany
<1>3. \A i \in J : p[i] \in K
  BY DEF Pulled
<1>4. \A i, j \in J : p[i] = p[j] => i = j
  BY <1>0, <1>1, <1>2 DEF Permutes
<1>7. J = {i \in DOMAIN p : p[i] \in K}
  BY DEF Pulled
<1> HIDE DEF J, again
<1>8. ASSUME NEW i \in J
      PROVE  Cardinality(Before(J, place, i)) = Cardinality(Before(K, rank, p[i]))
  <2>1. Before(J, place, i) = Pulled(p, Before(K, rank, p[i]))
    <3>1. ASSUME NEW j \in J PROVE Precedes(place, j, i) <=> Precedes(rank, p[j], p[i])
      <4>1. place[j] = place[i] => j = i /\ p[j] = p[i]
        BY <1>0, <1>3, <1>4
      <4>2. rank[p[j]] = rank[p[i]] => p[j] = p[i]
        BY <1>0, <1>3
      <4>3. i \in Nat /\ p[i] \in Nat
        BY <1>2, <1>3
      <4>4. ~(i < i) /\ ~(p[i] < p[i])
        BY <4>3
      <4> QED BY <1>0, <4>1, <4>2, <4>4 DEF Precedes
    <3>2. Before(J, place, i) = {j \in J : Precedes(rank, p[j], p[i])}
      BY <3>1 DEF Before
    <3> QED BY <1>7, <3>2 DEF Before, Pulled
  <2>2. Before(K, rank, p[i]) \in SUBSET (1..Len(seq))
    BY <1>0, <1>1 DEF Before
  <2> QED BY <1>0, <1>1, <2>1, <2>2, PulledAreAsMany
<1>9. ASSUME NEW m \in 1..Cardinality(K)
      PROVE  again[Origin(J, place, m)] = seq[Origin(K, rank, m)]
  <2> DEFINE i == Origin(J, place, m)
             k == Origin(K, rank, m)
  <2>1. i \in J /\ Cardinality(Before(J, place, i)) = m - 1
    <3>1. /\ J \in SUBSET Nat /\ IsFiniteSet(J) /\ m \in 1..Cardinality(J)
          /\ n \in Nat /\ place \in [J -> [1..n -> Int]]
      BY <1>0, <1>2
    <3> QED BY <3>1, OriginIs
  <2>2. k \in K /\ Cardinality(Before(K, rank, k)) = m - 1
    <3>1. /\ K \in SUBSET Nat /\ IsFiniteSet(K) /\ m \in 1..Cardinality(K)
          /\ n \in Nat /\ rank \in [K -> [1..n -> Int]]
      BY <1>0, <1>2
    <3> QED BY <3>1, OriginIs
  <2> HIDE DEF i, k
  <2>3. p[i] \in K /\ Cardinality(Before(K, rank, p[i])) = m - 1
    BY <1>3, <1>8, <2>1
  <2>4. p[i] = k
    <3>1. Cardinality(Before(K, rank, p[i])) = Cardinality(Before(K, rank, k))
      BY <2>2, <2>3
    <3>2. /\ K \in SUBSET Nat /\ IsFiniteSet(K) /\ n \in Nat /\ rank \in [K -> [1..n -> Int]]
          /\ p[i] \in K /\ k \in K
      BY <1>0, <1>2, <2>2, <2>3
    <3> QED BY <3>1, <3>2, OnePlace
  <2>5. i \in DOMAIN seq
    BY <1>1, <1>2, <2>1
  <2> QED BY <1>1, <2>4, <2>5 DEF i, k
<1>10. Sorted(again, J, place) = [m \in 1..Cardinality(J) |-> again[Origin(J, place, m)]]
  BY DEF Sorted, Origin, Before, Precedes
<1>11. Sorted(seq, K, rank) = [m \in 1..Cardinality(K) |-> seq[Origin(K, rank, m)]]
  BY DEF Sorted, Origin, Before, Precedes
<1>12. Sorted(again, J, place) = Sorted(seq, K, rank)
  BY <1>2, <1>9, <1>10, <1>11
<1> QED BY <1>12 DEF J, again

(* The filters see each stream by itself, and what the others have.         *)
LEMMA FilteredShuffled ==
  ASSUME NEW seq \in Seq(Stream), NEW p, Permutes(p, Len(seq)), NEW K \in SUBSET DOMAIN seq,
         NEW r
  PROVE  Filtered(Shuffled(seq, p), Pulled(p, K), r) = Pulled(p, Filtered(seq, K, r))
<1> DEFINE J     == Pulled(p, K)
           again == Shuffled(seq, p)
           allowed == {i \in K : ~seq[i].excluded}
<1>1. /\ DOMAIN seq = 1..Len(seq) /\ Len(seq) \in Nat
      /\ DOMAIN p = DOMAIN seq
      /\ \A i \in DOMAIN seq : again[i] = seq[p[i]]
  BY ShuffledSequence
<1>2. \A k \in DOMAIN seq : \E i \in DOMAIN seq : p[i] = k
  BY ShuffledSequence
<1>3. J = {i \in DOMAIN seq : p[i] \in K}
  BY <1>1 DEF Pulled
<1> HIDE DEF J, again
<1>4. {i \in J : ~again[i].excluded} = {i \in DOMAIN seq : p[i] \in allowed}
  BY <1>1, <1>3
<1>5. {i \in J : ~again[i].excluded} = {} <=> allowed = {}
  BY <1>2, <1>4
<1>6. Filtered(again, J, r) = {i \in DOMAIN seq : p[i] \in Filtered(seq, K, r)}
  <2>1. CASE allowed = {}
    <3>1. Filtered(again, J, r) = {i \in J : r.max = 0 \/ again[i].size <= r.max}
      BY <1>5, <2>1 DEF Filtered
    <3>2. Filtered(seq, K, r) = {i \in K : r.max = 0 \/ seq[i].size <= r.max}
      BY <2>1 DEF Filtered
    <3> QED BY <1>1, <1>3, <3>1, <3>2
  <2>2. CASE allowed # {}
    <3>1. Filtered(again, J, r) = {i \in J : ~again[i].excluded /\ (r.max = 0 \/ again[i].size <= r.max)}
      BY <1>5, <2>2 DEF Filtered
    <3>2. Filtered(seq, K, r) = {i \in K : ~seq[i].excluded /\ (r.max = 0 \/ seq[i].size <= r.max)}
      BY <2>2 DEF Filtered
    <3> QED BY <1>1, <1>3, <3>1, <3>2
  <2> QED BY <2>1, <2>2
<1> QED BY <1>1, <1>6 DEF J, again, Pulled

LEMMA UsableShuffled ==
  ASSUME NEW seq \in Seq(Stream), NEW p, Permutes(p, Len(seq)), NEW K \in SUBSET DOMAIN seq,
         NEW r, NEW direct, NEW strict
  PROVE  Usable(Shuffled(seq, p), Pulled(p, K), r, direct, strict)
           = Pulled(p, Usable(seq, K, r, direct, strict))
<1> DEFINE again == Shuffled(seq, p)
           F     == Filtered(seq, K, r)
           G     == Filtered(again, Pulled(p, K), r)
           safe  == {i \in F : Compatibility(seq[i], r)[1] < 2}
<1>1. /\ DOMAIN seq = 1..Len(seq) /\ Len(seq) \in Nat
      /\ DOMAIN p = DOMAIN seq /\ p \in [DOMAIN seq -> DOMAIN seq]
      /\ \A i \in DOMAIN seq : again[i] = seq[p[i]]
  BY ShuffledSequence
<1>2. \A k \in DOMAIN seq : \E i \in DOMAIN seq : p[i] = k
  BY ShuffledSequence
<1>3. G = Pulled(p, F) /\ F \in SUBSET DOMAIN seq
  <2>1. F \in SUBSET DOMAIN seq
    BY UsablePlaces
  <2> QED BY <2>1, FilteredShuffled
<1> HIDE DEF F, G, again
<1>4. {i \in G : Compatibility(again[i], r)[1] < 2} = Pulled(p, safe)
  BY <1>1, <1>3 DEF Pulled
<1>5. Pulled(p, safe) = {} <=> safe = {}
  BY <1>1, <1>2, <1>3 DEF Pulled
<1> HIDE DEF safe
<1>6. Usable(again, Pulled(p, K), r, direct, strict)
        = IF direct /\ strict /\ Pulled(p, safe) # {} THEN Pulled(p, safe) ELSE G
  BY <1>4 DEF Usable, G
<1>7. Usable(seq, K, r, direct, strict) = IF direct /\ strict /\ safe # {} THEN safe ELSE F
  BY DEF Usable, F, safe
<1> QED BY <1>3, <1>5, <1>6, <1>7 DEF again

LEMMA OrderShuffled ==
  ASSUME NEW seq \in Seq(Stream), \A i, j \in DOMAIN seq : seq[i].key = seq[j].key => i = j,
         NEW p, Permutes(p, Len(seq)), NEW K \in SUBSET DOMAIN seq,
         NEW r \in Request, NEW direct \in BOOLEAN, NEW strict \in BOOLEAN
  PROVE  OrderIdeal(Shuffled(seq, p), Pulled(p, K), r, direct, strict)
           = OrderIdeal(seq, K, r, direct, strict)
<1> DEFINE again == Shuffled(seq, p)
           U     == Usable(seq, K, r, direct, strict)
           W     == Usable(again, Pulled(p, K), r, direct, strict)
           among == {seq[i] : i \in U}
           rank  == [i \in U |-> RankOf(seq[i], among, r, direct)]
<1>1. /\ DOMAIN seq = 1..Len(seq) /\ Len(seq) \in Nat
      /\ DOMAIN p = DOMAIN seq /\ p \in [DOMAIN seq -> DOMAIN seq]
      /\ \A i \in DOMAIN seq : again[i] = seq[p[i]]
  BY ShuffledSequence
<1>2. \A k \in DOMAIN seq : \E i \in DOMAIN seq : p[i] = k
  BY ShuffledSequence
<1>3. W = Pulled(p, U)
  BY UsableShuffled
<1>4. U \in SUBSET DOMAIN seq
  BY UsablePlaces
<1> HIDE DEF U, W, again
<1>5. {again[i] : i \in W} = among
  <2>1. \A i \in W : p[i] \in U /\ again[i] = seq[p[i]]
    BY <1>1, <1>3 DEF Pulled
  <2>2. \A k \in U : \E i \in W : p[i] = k
    BY <1>1, <1>2, <1>3, <1>4 DEF Pulled
  <2>3. \A k \in U : \E i \in W : again[i] = seq[k]
    BY <2>1, <2>2
  <2> QED BY <2>1, <2>3
<1> HIDE DEF among
<1>6. rank \in [U -> [1..8 -> Int]] /\ \A i \in U : rank[i][8] = seq[i].key
  <2>1. \A i \in U : seq[i] \in Stream
    BY <1>4
  <2>2. \A i \in U : RankOf(seq[i], among, r, direct) \in [1..8 -> Int]
    BY <2>1, RankType
  <2>3. \A i \in U : RankOf(seq[i], among, r, direct)[8] = seq[i].key
    BY DEF RankOf
  <2> QED BY <2>2, <2>3
<1>7. \A i, j \in U : rank[i] = rank[j] => i = j
  BY <1>4, <1>6
<1> DEFINE place == [i \in W |-> RankOf(again[i], among, r, direct)]
<1>8. /\ place \in [Pulled(p, U) -> [1..8 -> Int]]
      /\ \A i \in Pulled(p, U) : place[i] = rank[p[i]]
  <2>1. \A i \in W : p[i] \in U /\ place[i] = rank[p[i]]
    BY <1>1, <1>3 DEF Pulled
  <2>2. place \in [W -> [1..8 -> Int]]
    <3> HIDE DEF rank
    <3>1. \A i \in W : rank[p[i]] \in [1..8 -> Int]
      BY <1>6, <2>1
    <3> QED BY <2>1, <3>1
  <2> QED BY <1>3, <2>1, <2>2
<1> HIDE DEF rank, place
<1>9. Sorted(again, W, place) = Sorted(seq, U, rank)
  <2>1. Resorts(seq, p, U, 8, rank, place)
    BY <1>4, <1>6, <1>7, <1>8 DEF Resorts
  <2>2. Sorted(Shuffled(seq, p), Pulled(p, U), place) = Sorted(seq, U, rank)
    BY <2>1, SortedShuffled
  <2> QED BY <1>3, <2>2 DEF again
<1>10. Order(again, Pulled(p, K), r, direct, strict) = Order(seq, K, r, direct, strict)
  <2>1. Order(again, Pulled(p, K), r, direct, strict) = Sorted(again, W, place)
    BY <1>5 DEF Order, W, place
  <2>2. Order(seq, K, r, direct, strict) = Sorted(seq, U, rank)
    BY DEF Order, U, rank, among
  <2> QED BY <1>9, <2>1, <2>2
<1> QED BY <1>10 DEF OrderIdeal, again

LEMMA RankedShuffled ==
  ASSUME NEW seq \in Seq(Stream), \A i, j \in DOMAIN seq : seq[i].key = seq[j].key => i = j,
         NEW p, Permutes(p, Len(seq)), NEW r \in Request
  PROVE  Ranked(Shuffled(seq, p), r) = Ranked(seq, r)
<1> DEFINE again  == Shuffled(seq, p)
           list(s, K, direct, strict) == OrderIdeal(s, K, r, direct, strict)
           best   == list(seq, DOMAIN seq, FALSE, FALSE)
           others == {i \in DOMAIN seq : seq[i] # best[1]}
<1>1. /\ DOMAIN p = DOMAIN seq /\ DOMAIN again = DOMAIN seq
      /\ p \in [DOMAIN seq -> DOMAIN seq]
      /\ \A i \in DOMAIN seq : again[i] = seq[p[i]]
  BY ShuffledSequence
<1>2. r.cast \in BOOLEAN /\ r.strict \in BOOLEAN
  BY DEF Request
<1>3. DOMAIN again = Pulled(p, DOMAIN seq)
  BY <1>1 DEF Pulled
<1>4. \A direct, strict \in BOOLEAN :
        list(again, DOMAIN again, direct, strict) = list(seq, DOMAIN seq, direct, strict)
  BY <1>3, OrderShuffled
<1>5. list(again, DOMAIN again, FALSE, FALSE) = best
  BY <1>4
<1>6. {i \in DOMAIN again : again[i] # best[1]} = Pulled(p, others)
  <2> HIDE DEF best, again
  <2> QED BY <1>1 DEF Pulled
<1>7. list(again, Pulled(p, others), r.cast, r.strict) = list(seq, others, r.cast, r.strict)
  <2>1. others \in SUBSET DOMAIN seq
    OBVIOUS
  <2> HIDE DEF others
  <2> QED BY <1>2, <2>1, OrderShuffled
<1>8. list(again, DOMAIN again, r.cast, r.strict) = list(seq, DOMAIN seq, r.cast, r.strict)
  BY <1>2, <1>4
<1>9. Ranked(again, r) =
        IF r.ideal THEN list(again, DOMAIN again, r.cast, r.strict)
        ELSE IF best = << >> THEN << >>
        ELSE <<best[1]>> \o list(again, Pulled(p, others), r.cast, r.strict)
  <2> HIDE DEF best, others
  <2>1. Ranked(again, r) =
          IF r.ideal THEN list(again, DOMAIN again, r.cast, r.strict)
          ELSE IF best = << >> THEN << >>
          ELSE <<best[1]>> \o list(again, {i \in DOMAIN again : again[i] # best[1]}, r.cast, r.strict)
    BY <1>5 DEF Ranked
  <2> QED BY <1>6, <2>1
<1>10. Ranked(seq, r) =
        IF r.ideal THEN list(seq, DOMAIN seq, r.cast, r.strict)
        ELSE IF best = << >> THEN << >>
        ELSE <<best[1]>> \o list(seq, others, r.cast, r.strict)
  BY DEF Ranked
<1> HIDE DEF list, best, others, again
<1>11. Ranked(again, r) = Ranked(seq, r)
  BY <1>7, <1>8, <1>9, <1>10
<1> QED BY <1>11 DEF again

-----------------------------------------------------------------------------
(* The choice, and what is left of it.                                      *)

(* The candidates that are prepared, one after the other.                   *)
Picked == Limited(Chosen, request)

(* Those that are left are the last ones: the own URL of each one before    *)
(* them was refused, or it has none.                                        *)
Exhausted ==
  stage # "choose" =>
    \E k \in 0..Len(Picked) :
      /\ Len(ranked) = Len(Picked) - k
      /\ \A n \in 1..Len(ranked) : ranked[n] = Picked[k + n]
      /\ \A i \in 1..k : Picked[i].url = "unknown" \/ Picked[i].key \in refused

IInv ==
  /\ TypeOK
  /\ Exhausted
  /\ stage = "failed" => ranked = << >>

LEMMA Given ==
  ASSUME TypeOK
  PROVE  /\ streams \in Seq(Stream) /\ request \in Request
         /\ \A i, j \in DOMAIN streams : streams[i].key = streams[j].key => i = j
BY RequestsOK DEF TypeOK

LEMMA LimitedType ==
  ASSUME NEW S, NEW seq \in Seq(S), NEW r \in Request
  PROVE  Limited(seq, r) \in Seq(S)
<1>1. r.count \in Nat /\ Len(seq) \in Nat
  BY DEF Request
<1> DEFINE m == IF Len(seq) < r.count THEN Len(seq) ELSE r.count
<1>2. m \in 0..Len(seq)
  BY <1>1
<1> HIDE DEF m
<1>3. SubSeq(seq, 1, m) \in Seq(S)
  BY <1>2
<1> QED BY <1>3 DEF Limited, m

LEMMA CandidatesType ==
  ASSUME NEW seq \in Seq(Stream), NEW r \in Request
  PROVE  /\ Candidates(seq, r) \in Seq(Stream)
         /\ r.index = 0 /\ r.legacy = 0 /\ ~r.sports => Candidates(seq, r) = Ranked(seq, r)
<1>1. r.index \in Nat /\ r.legacy \in Nat /\ Len(seq) \in Nat /\ DOMAIN seq = 1..Len(seq)
  BY DEF Request
<1>2. Ranked(seq, r) \in Seq(Stream)
  BY RankedFits
<1>3. \A i \in DOMAIN seq : <<seq[i]>> \in Seq(Stream)
  OBVIOUS
<1>4. Candidates(seq, r) \in {<< >>, seq, Ranked(seq, r)} \cup {<<seq[i]>> : i \in DOMAIN seq}
  BY DEF Candidates
<1>5. r.index = 0 /\ r.legacy = 0 /\ ~r.sports => Candidates(seq, r) = Ranked(seq, r)
  BY <1>1 DEF Candidates
<1>6. << >> \in Seq(Stream)
  OBVIOUS
<1> HIDE DEF Candidates
<1>7. Candidates(seq, r) \in Seq(Stream)
  BY <1>2, <1>3, <1>4, <1>6
<1> QED BY <1>5, <1>7

LEMMA ChosenType ==
  ASSUME TypeOK
  PROVE  Chosen \in Seq(Stream) /\ Picked \in Seq(Stream)
<1>1. Chosen \in Seq(Stream)
  BY Given, CandidatesType DEF Chosen
<1> QED BY <1>1, Given, LimitedType DEF Picked

LEMMA ChosenIsRanked ==
  ASSUME TypeOK, Automatic
  PROVE  Chosen = Ranked(streams, request)
BY Given, CandidatesType DEF Automatic, Chosen

LEMMA InitIInv == Init => IInv
<1> SUFFICES ASSUME Init PROVE IInv
  OBVIOUS
<1>1. TypeOK
  <2>1. << >> \in Seq(Stream) /\ {} \in SUBSET Nat /\ 0 \in Nat
    OBVIOUS
  <2> QED BY <2>1 DEF Init, TypeOK
<1> QED BY <1>1 DEF Init, IInv, Exhausted

LEMMA FirstKey ==
  ASSUME TypeOK, stage = "prepare"
  PROVE  ranked[1].key \in Nat
<1>1. ranked[1] \in Stream
  BY DEF TypeOK
<1> QED BY <1>1 DEF Stream

(* What Prepare leaves is well formed.                                      *)
LEMMA Prepared ==
  ASSUME NEW rest \in Seq(Stream), Prepare(rest)
  PROVE  /\ ranked' = rest /\ stage' \in {"failed", "prepare"} /\ convert' \in BOOLEAN
         /\ convert' => rest # << >> /\ rest[1].url = "file"
         /\ stage' = "prepare" <=> rest # << >>
BY DEF Prepare, Converts, Forced

(* The first candidate is given up.                                         *)
LEMMA OneLess ==
  ASSUME IInv, stage = "prepare", Prepare(Tail(ranked)), UNCHANGED <<request, streams, served>>,
         refused' \in SUBSET Nat, refused \subseteq refused',
         ranked[1].url = "unknown" \/ ranked[1].key \in refused'
  PROVE  IInv'
<1>1. /\ TypeOK /\ ranked \in Seq(Stream) /\ ranked # << >>
      /\ Picked' = Picked /\ Picked \in Seq(Stream)
  BY ChosenType DEF IInv, TypeOK, Picked, Chosen
<1> DEFINE rest == Tail(ranked)
<1>2. /\ rest \in Seq(Stream) /\ Len(ranked) \in Nat \ {0} /\ Len(rest) = Len(ranked) - 1
      /\ \A n \in 1..Len(rest) : rest[n] = ranked[n + 1]
  BY <1>1
<1> HIDE DEF rest
<1>3. /\ ranked' = rest /\ stage' \in {"failed", "prepare"} /\ convert' \in BOOLEAN
      /\ convert' => rest # << >> /\ rest[1].url = "file"
      /\ stage' = "prepare" <=> rest # << >>
  BY <1>2, Prepared DEF rest
<1>4. TypeOK'
  BY <1>1, <1>2, <1>3 DEF TypeOK
<1>5. PICK k \in 0..Len(Picked) :
        /\ Len(ranked) = Len(Picked) - k
        /\ \A n \in 1..Len(ranked) : ranked[n] = Picked[k + n]
        /\ \A i \in 1..k : Picked[i].url = "unknown" \/ Picked[i].key \in refused
  BY DEF IInv, Exhausted
<1>6. Len(Picked) \in Nat
  BY <1>1
<1>7. k + 1 \in 0..Len(Picked) /\ Len(rest) = Len(Picked) - (k + 1)
  BY <1>2, <1>5, <1>6
<1>8. \A n \in 1..Len(rest) : rest[n] = Picked[(k + 1) + n]
  <2> SUFFICES ASSUME NEW n \in 1..Len(rest) PROVE rest[n] = Picked[(k + 1) + n]
    OBVIOUS
  <2>1. n + 1 \in 1..Len(ranked) /\ k + (n + 1) = (k + 1) + n
    BY <1>2
  <2> QED BY <1>2, <1>5, <2>1
<1>9. ranked[1] = Picked[k + 1]
  BY <1>2, <1>5
<1>10. \A i \in 1..(k + 1) : Picked[i].url = "unknown" \/ Picked[i].key \in refused'
  <2>1. \A i \in 1..(k + 1) : i \in 1..k \/ i = k + 1
    OBVIOUS
  <2> QED BY <1>5, <1>9, <2>1
<1>11. Exhausted'
  BY <1>1, <1>3, <1>7, <1>8, <1>10 DEF Exhausted
<1> QED BY <1>3, <1>4, <1>11 DEF IInv

LEMMA NextIInv == IInv /\ [Next]_vars => IInv'
<1> SUFFICES ASSUME IInv, [Next]_vars PROVE IInv'
  OBVIOUS
<1>1. TypeOK /\ Picked \in Seq(Stream) /\ request \in Request
  BY ChosenType, Given DEF IInv
<1>2. CASE Choose
  <2> DEFINE rest == Picked
  <2>1. Prepare(rest) /\ UNCHANGED <<request, streams, served, refused>>
    BY <1>2 DEF Choose, Picked, Chosen
  <2>2. Picked' = Picked
    BY <2>1 DEF Picked, Chosen
  <2>3. /\ ranked' = rest /\ stage' \in {"failed", "prepare"} /\ convert' \in BOOLEAN
        /\ convert' => rest # << >> /\ rest[1].url = "file"
        /\ stage' = "prepare" <=> rest # << >>
    BY <1>1, <2>1, Prepared
  <2> HIDE DEF rest
  <2>4. TypeOK'
    BY <1>1, <2>1, <2>3 DEF TypeOK, rest
  <2>5. Exhausted'
    <3>1. Len(Picked) \in Nat /\ 0 \in 0..Len(Picked) /\ Len(Picked) = Len(Picked) - 0
      BY <1>1
    <3>2. \A n \in 1..Len(Picked) : Picked[n] = Picked[0 + n]
      BY <3>1
    <3>3. \A i \in 1..0 : Picked[i].url = "unknown" \/ Picked[i].key \in refused'
      OBVIOUS
    <3>4. Picked' = Picked /\ ranked' = Picked
      BY <2>2, <2>3 DEF rest
    <3> HIDE DEF Picked
    <3>5. \E k \in 0..Len(Picked) :
            /\ Len(Picked) = Len(Picked) - k
            /\ \A n \in 1..Len(Picked) : Picked[n] = Picked[k + n]
            /\ \A i \in 1..k : Picked[i].url = "unknown" \/ Picked[i].key \in refused'
      BY <3>1, <3>2, <3>3
    <3> QED BY <3>4, <3>5 DEF Exhausted
  <2> QED BY <2>3, <2>4, <2>5 DEF IInv
<1>3. CASE Unsupported
  BY <1>1, <1>3, OneLess DEF Unsupported, TypeOK
<1>4. CASE Accept
  <2>1. TypeOK'
    <3>1. ranked[1].key \in Nat
      BY <1>1, <1>4, FirstKey DEF Accept
    <3> QED BY <1>1, <1>4, <3>1 DEF Accept, TypeOK
  <2>2. Picked' = Picked
    BY <1>4 DEF Accept, Picked, Chosen
  <2> QED BY <1>4, <2>1, <2>2 DEF Accept, IInv, Exhausted
<1>5. CASE RefuseConversion
  <2>1. TypeOK'
    BY <1>1, <1>5 DEF RefuseConversion, TypeOK
  <2>2. Picked' = Picked
    BY <1>5 DEF RefuseConversion, Picked, Chosen
  <2> QED BY <1>5, <2>1, <2>2 DEF RefuseConversion, IInv, Exhausted
<1>6. CASE Refuse
  <2>1. ranked[1].key \in Nat
    BY <1>1, <1>6, FirstKey DEF Refuse
  <2> QED BY <1>1, <1>6, <2>1, OneLess DEF Refuse, TypeOK
<1>7. CASE UNCHANGED vars
  BY <1>7 DEF vars, IInv, TypeOK, Exhausted, Picked, Chosen
<1> QED BY <1>2, <1>3, <1>4, <1>5, <1>6, <1>7 DEF Next

LEMMA Invariance == Spec => []IInv
BY InitIInv, NextIInv, PTL DEF Spec

-----------------------------------------------------------------------------
(* The variables of a selection have their types: what is prepared is never *)
(* an empty list, and only a file is ever wrapped in a conversion.          *)
(* (prepare_first_playable, prepare_playback)                               *)
THEOREM TypeCorrect == Spec => []TypeOK
<1>1. IInv => TypeOK
  BY DEF IInv
<1> QED BY <1>1, Invariance, PTL

(* A request with candidates fails only when none of those that may be      *)
(* tried has an own URL that was not refused, whatever became of their      *)
(* conversions.  (prepare_first_playable)                                   *)
THEOREM NothingLost == Spec => []NothingPlayableIsLost
<1>1. IInv => NothingPlayableIsLost
  <2> SUFFICES ASSUME IInv, stage = "failed"
               PROVE  \A s \in Members(Picked) : s.url = "unknown" \/ s.key \in refused
    BY DEF NothingPlayableIsLost, Picked
  <2>1. Picked \in Seq(Stream)
    BY ChosenType DEF IInv
  <2> HIDE DEF Picked
  <2>2. PICK k \in 0..Len(Picked) :
          /\ Len(ranked) = Len(Picked) - k
          /\ \A i \in 1..k : Picked[i].url = "unknown" \/ Picked[i].key \in refused
    BY DEF IInv, Exhausted
  <2>3. Len(ranked) = 0
    BY DEF IInv
  <2>4. k = Len(Picked)
    BY <2>1, <2>2, <2>3
  <2> QED BY <2>1, <2>2, <2>4 DEF Members
<1> QED BY <1>1, Invariance, PTL

(* The configured size is a limit for every candidate, also for the         *)
(* fallbacks and when all releases are excluded; an ideal link is an        *)
(* excluded one only when all are.  (_filtered_candidates)                  *)
THEOREM SizeHard == Spec => []SizeIsHard
<1>1. IInv => SizeIsHard
  <2> SUFFICES ASSUME IInv, Automatic, NEW s \in Members(Ranked(streams, request))
               PROVE  /\ request.max > 0 => s.size <= request.max
                      /\ request.ideal /\ s.excluded => \A t \in Members(streams) : t.excluded
    BY ChosenIsRanked DEF SizeIsHard, IInv
  <2>1. streams \in Seq(Stream) /\ request \in Request
    BY Given DEF IInv
  <2>2. PICK K \in SUBSET DOMAIN streams :
          /\ \E i \in Filtered(streams, K, request) : s = streams[i]
          /\ request.ideal => K = DOMAIN streams
    BY <2>1, RankedFits
  <2>3. PICK i \in Filtered(streams, K, request) : s = streams[i]
    BY <2>2
  <2>4. request.max > 0 => s.size <= request.max
    <3>1. request.max = 0 \/ streams[i].size <= request.max
      BY DEF Filtered
    <3>2. request.max \in Nat
      BY <2>1, StreamFields DEF Request
    <3> QED BY <2>3, <3>1, <3>2
  <2>5. s.excluded => \A k \in K : streams[k].excluded
    BY <2>3 DEF Filtered
  <2> QED BY <2>2, <2>4, <2>5 DEF Members
<1> QED BY <1>1, Invariance, PTL

(* On a Cast target no ideal link is tried after one of a worse format.     *)
(* (order_ideal_streams, _apply_seed_policy)                                *)
THEOREM Safest == Spec => []SafestFirst
<1>1. IInv => SafestFirst
  <2> SUFFICES ASSUME IInv, Automatic, request.ideal, request.cast
               PROVE  \A i, j \in DOMAIN Chosen : i < j =>
                        ~Less(Compatibility(Chosen[j], request), Compatibility(Chosen[i], request))
    BY DEF SafestFirst
  <2>1. streams \in Seq(Stream) /\ request \in Request /\ request.strict \in BOOLEAN
    BY Given DEF IInv, Request
  <2>2. Chosen = OrderIdeal(streams, DOMAIN streams, request, TRUE, request.strict)
    <3>1. Chosen = Ranked(streams, request)
      BY ChosenIsRanked DEF IInv
    <3>2. request.cast = TRUE
      BY <2>1 DEF Request
    <3>3. Ranked(streams, request)
            = OrderIdeal(streams, DOMAIN streams, request, request.cast, request.strict)
      BY DEF Ranked
    <3> QED BY <3>1, <3>2, <3>3
  <2>3. Graded(Chosen, request, TRUE)
    BY <2>1, <2>2, OrderIdealHas
  <2> HIDE DEF Chosen
  <2> QED BY <2>3 DEF Graded, Format
<1> QED BY <1>1, Invariance, PTL

(* What the minimum of seeders takes away is outdone by a torrent that is   *)
(* kept, in the same format where the format counts; otherwise it was too   *)
(* risky for a strict target.  (_apply_seed_policy, order_ideal_streams)    *)
THEOREM NothingDropped == Spec => []NothingDroppedInVain
<1>1. IInv => NothingDroppedInVain
  <2> SUFFICES ASSUME IInv, Automatic,
                      NEW i \in Filtered(streams, DOMAIN streams, request),
                      streams[i] \notin Members(Chosen)
               PROVE  \/ /\ Weak(streams[i], request)
                         /\ \E t \in Members(Chosen) :
                              /\ t.torrent /\ ~Weak(t, request)
                              /\ request.cast =>
                                   Compatibility(t, request) = Compatibility(streams[i], request)
                      \/ /\ request.cast /\ request.strict
                         /\ Compatibility(streams[i], request)[1] = 2
    BY DEF NothingDroppedInVain
  <2>1. streams \in Seq(Stream) /\ request \in Request
    BY Given DEF IInv
  <2>2. Chosen = Ranked(streams, request)
    BY ChosenIsRanked DEF IInv
  <2>3. \/ Outdone(streams[i], Chosen, request, request.cast)
        \/ /\ request.cast /\ request.strict
           /\ Compatibility(streams[i], request)[1] = 2
    <3> HIDE DEF Chosen
    <3> QED BY <2>1, <2>2, DroppedForAReason
  <2> HIDE DEF Chosen
  <2> QED BY <2>3 DEF Outdone, Format
<1> QED BY <1>1, Invariance, PTL

(* The providers may answer in any order: the candidates are the same, for  *)
(* the ranking leaves no two streams equal.  (order_ideal_streams,          *)
(* _apply_seed_policy, choose_best_stream)                                  *)
THEOREM AnyOrder == Spec => []SameInAnyOrder
<1>1. IInv => SameInAnyOrder
  <2> SUFFICES ASSUME IInv, Automatic, NEW p \in [DOMAIN streams -> DOMAIN streams],
                      \A i, j \in DOMAIN streams : p[i] = p[j] => i = j
               PROVE  Candidates(Shuffled(streams, p), request) = Chosen
    BY DEF SameInAnyOrder, Shuffled
  <2>1. streams \in Seq(Stream) /\ request \in Request
    BY Given DEF IInv
  <2>2. \A i, j \in DOMAIN streams : streams[i].key = streams[j].key => i = j
    BY Given DEF IInv
  <2>3. Permutes(p, Len(streams))
    <3>1. DOMAIN streams = 1..Len(streams)
      BY <2>1
    <3> QED BY <3>1 DEF Permutes
  <2>4. Shuffled(streams, p) \in Seq(Stream)
    BY <2>1, <2>3, ShuffledSequence
  <2>5. Ranked(Shuffled(streams, p), request) = Ranked(streams, request)
    BY <2>1, <2>2, <2>3, RankedShuffled
  <2>6. request.index = 0 /\ request.legacy = 0 /\ ~request.sports
    BY DEF Automatic
  <2>7. Candidates(Shuffled(streams, p), request) = Ranked(Shuffled(streams, p), request)
    BY <2>1, <2>4, <2>6, CandidatesType
  <2>8. Chosen = Ranked(streams, request)
    BY ChosenIsRanked DEF IInv
  <2> QED BY <2>5, <2>7, <2>8
<1> QED BY <1>1, Invariance, PTL
=============================================================================
