--------------------------- MODULE SequenceProofs ---------------------------
(***************************************************************************)
(* Lemmas about positions and sequences that the other proofs share: the   *)
(* least and the greatest member of a set of numbers, InOrder, FlattenSeq, *)
(* and cutting a flattened sequence where its members end.                 *)
(*                                                                         *)
(* Facts that need an induction are proved by looking at the least number  *)
(* for which they fail.                                                    *)
(***************************************************************************)
EXTENDS Naturals, Sequences, FiniteSets, SequencesExt, Positions,
        FiniteSetTheorems, SequenceTheorems, WellFoundedInduction, TLAPS

-----------------------------------------------------------------------------
(* The order of a set of positions.                                        *)

\* A set of numbers that is not empty has a least member.
LEMMA LeastMember ==
  ASSUME NEW S \in SUBSET Nat, S # {}
  PROVE  \E x \in S : \A y \in S : x <= y
<1>1. PICK x \in S : \A y \in S : ~(<<y, x>> \in OpToRel(<, Nat))
  BY NatLessThanWellFounded, WFMin
<1>2. ASSUME NEW y \in S PROVE x <= y
  <2>1. ~(y < x)
    BY <1>1 DEF OpToRel
  <2> QED BY <2>1
<1> QED BY <1>2

\* A set of positions that is not empty has a greatest member.
LEMMA GreatestMember ==
  ASSUME NEW N \in Nat, NEW S \in SUBSET (1..N), S # {}
  PROVE  \E x \in S : \A y \in S : y <= x
<1> DEFINE T == {k \in Nat : N - k \in S}
<1>1. PICK s \in S : TRUE
  OBVIOUS
<1>2. N - s \in Nat /\ N - (N - s) = s
  OBVIOUS
<1>3. N - s \in T
  BY <1>2, N - (N - s) \in S
<1>4. PICK k \in T : \A j \in T : k <= j
  BY <1>3, LeastMember
<1>5. ASSUME NEW y \in S PROVE y <= N - k
  <2>1. N - y \in Nat /\ N - (N - y) = y
    OBVIOUS
  <2>2. N - y \in T
    BY <2>1, N - (N - y) \in S
  <2>3. k <= N - y
    BY <1>4, <2>2
  <2> QED BY <2>3, <1>4
<1>6. N - k \in S
  BY <1>4
<1> QED BY <1>5, <1>6

\* Every position of InOrder holds a member of the set: for w up to the size of the set
\* there is a member with exactly w members up to it.
LEMMA InOrderRank ==
  ASSUME NEW N \in Nat, NEW S \in SUBSET (1..N)
  PROVE  /\ Cardinality(S) \in 0..N
         /\ DOMAIN InOrder(S) = 1..Cardinality(S)
         /\ \A w \in 1..Cardinality(S) : /\ InOrder(S)[w] \in S
                                         /\ Cardinality({m \in S : m <= InOrder(S)[w]}) = w
<1> DEFINE Upto(n) == {m \in S : m <= n}
<1>1. IsFiniteSet(S) /\ Cardinality(S) \in 0..N
  <2>1. IsFiniteSet(1..N) /\ Cardinality(1..N) = N
    BY FS_Interval
  <2>2. IsFiniteSet(S) /\ Cardinality(S) <= N
    BY <2>1, FS_Subset
  <2>3. Cardinality(S) \in Nat
    BY <2>2, FS_CardinalityType
  <2> QED BY <2>2, <2>3
<1>2. ASSUME NEW n \in Nat PROVE IsFiniteSet(Upto(n)) /\ Cardinality(Upto(n)) \in Nat
  BY <1>1, FS_Subset, FS_CardinalityType
<1>3. ASSUME NEW w \in 1..Cardinality(S)
      PROVE  \E n \in S : Cardinality(Upto(n)) = w
  <2> DEFINE T == {n \in Nat : Cardinality(Upto(n)) >= w}
  <2>1. N \in T
    <3>1. \A m \in S : m <= N
      OBVIOUS
    <3>2. Upto(N) = S
      BY <3>1
    <3> QED BY <3>2, <1>1
  <2>2. PICK n \in T : \A k \in T : n <= k
    <3> HIDE DEF T
    <3>1. T \in SUBSET Nat
      BY DEF T
    <3> QED BY <2>1, <3>1, LeastMember
  <2>3. n # 0
    <3>1. \A m \in S : ~(m <= 0)
      OBVIOUS
    <3>2. Upto(0) = {}
      BY <3>1
    <3>3. Cardinality(Upto(0)) = 0
      BY <3>2, FS_EmptySet
    <3> QED BY <3>3
  <2>4. n - 1 \in Nat /\ n \in Nat
    BY <2>3
  <2>5. Cardinality(Upto(n - 1)) < w
    <3>1. n - 1 \notin T
      <4> HIDE DEF T
      <4>1. ~(n <= n - 1)
        BY <2>4
      <4> QED BY <2>2, <4>1
    <3>2. Cardinality(Upto(n - 1)) \in Nat
      BY <1>2, <2>4
    <3>3. ~(Cardinality(Upto(n - 1)) >= w)
      BY <3>1, <2>4
    <3> HIDE DEF Upto
    <3> QED BY <3>2, <3>3, <1>1
  <2>6. n \in S
    <3>1. SUFFICES ASSUME n \notin S PROVE FALSE
      OBVIOUS
    <3>2. Upto(n) = Upto(n - 1)
      <4>1. \A m \in S : m <= n <=> m <= n - 1
        BY <3>1, <2>4
      <4> QED BY <4>1
    <3>3. Cardinality(Upto(n)) >= w
      BY <2>2
    <3>4. Cardinality(Upto(n)) \in Nat
      BY <1>2, <2>4
    <3> HIDE DEF Upto
    <3> QED BY <3>2, <3>3, <3>4, <2>5, <1>1
  <2>7. Cardinality(Upto(n)) = Cardinality(Upto(n - 1)) + 1
    <3>1. Upto(n) = Upto(n - 1) \cup {n}
      <4>1. \A m \in S : m <= n <=> m <= n - 1 \/ m = n
        BY <2>4
      <4> QED BY <4>1, <2>6
    <3>2. n \notin Upto(n - 1)
      BY <2>4
    <3>3. IsFiniteSet(Upto(n - 1))
      BY <1>2, <2>4
    <3> HIDE DEF Upto
    <3> QED BY <3>1, <3>2, <3>3, FS_AddElement
  <2>8. Cardinality(Upto(n)) >= w
    BY <2>2
  <2>9. Cardinality(Upto(n - 1)) \in Nat
    BY <1>2, <2>4
  <2>10. Cardinality(Upto(n)) = w
    <3> HIDE DEF Upto
    <3> QED BY <2>5, <2>7, <2>8, <2>9, <1>1
  <2> QED BY <2>6, <2>10
<1>4. ASSUME NEW w \in 1..Cardinality(S)
      PROVE  InOrder(S)[w] \in S /\ Cardinality(Upto(InOrder(S)[w])) = w
  <2>1. InOrder(S)[w] = CHOOSE n \in S : Cardinality(Upto(n)) = w
    BY DEF InOrder
  <2> HIDE DEF Upto
  <2> QED BY <1>3, <2>1
<1>5. DOMAIN InOrder(S) = 1..Cardinality(S)
  BY DEF InOrder
<1> QED BY <1>1, <1>4, <1>5

\* The members alone.
LEMMA InOrderMember ==
  ASSUME NEW N \in Nat, NEW S \in SUBSET (1..N)
  PROVE  /\ Cardinality(S) \in 0..N
         /\ DOMAIN InOrder(S) = 1..Cardinality(S)
         /\ \A w \in 1..Cardinality(S) : InOrder(S)[w] \in S
  BY InOrderRank

\* Every member has one place, and a beginning of which nothing is left out keeps its places.
LEMMA InOrderExact ==
  ASSUME NEW N \in Nat, NEW S \in SUBSET (1..N)
  PROVE  /\ \A w, x \in 1..Cardinality(S) : InOrder(S)[w] = InOrder(S)[x] => w = x
         /\ \A n \in S : \E w \in 1..Cardinality(S) : InOrder(S)[w] = n
         /\ \A n \in S : 1..n \subseteq S => n <= Cardinality(S) /\ InOrder(S)[n] = n
<1> DEFINE Upto(n) == {m \in S : m <= n}
<1>1. IsFiniteSet(S) /\ Cardinality(S) \in Nat
  <2>1. IsFiniteSet(1..N)
    BY FS_Interval
  <2> QED BY <2>1, FS_Subset, FS_CardinalityType
<1>2. PICK f : f = InOrder(S)
  OBVIOUS
<1>3. \A w \in 1..Cardinality(S) : f[w] \in S /\ Cardinality(Upto(f[w])) = w
  BY <1>2, InOrderRank
<1>4. ASSUME NEW n \in S
      PROVE  /\ IsFiniteSet(Upto(n)) /\ Cardinality(Upto(n)) \in 1..Cardinality(S)
             /\ \A x \in S : Cardinality(Upto(x)) = Cardinality(Upto(n)) => x = n
  <2>1. \A x \in S : IsFiniteSet(Upto(x)) /\ Cardinality(Upto(x)) \in Nat /\ Cardinality(Upto(x)) <= Cardinality(S)
    BY <1>1, FS_Subset, FS_CardinalityType
  <2>2. n \in Upto(n)
    OBVIOUS
  <2>3. Cardinality(Upto(n)) # 0
    <3> HIDE DEF Upto
    <3> QED BY <2>1, <2>2, FS_EmptySet
  <2>4. \A x, y \in S : x < y => Cardinality(Upto(x)) # Cardinality(Upto(y))
    <3> SUFFICES ASSUME NEW x \in S, NEW y \in S, x < y PROVE Cardinality(Upto(x)) # Cardinality(Upto(y))
      OBVIOUS
    <3>0. \A m \in S : m \in Nat
      OBVIOUS
    <3>1. Upto(x) \in SUBSET Upto(y) /\ y \in Upto(y) /\ y \notin Upto(x)
      <4>1. \A m \in S : m <= x => m <= y
        BY <3>0
      <4>2. y <= y /\ ~ (y <= x)
        BY <3>0
      <4> QED BY <4>1, <4>2
    <3>2. IsFiniteSet(Upto(y))
      BY <2>1
    <3> HIDE DEF Upto
    <3> QED BY <3>1, <3>2, FS_Subset
  <2>5. ASSUME NEW x \in S, x # n PROVE Cardinality(Upto(x)) # Cardinality(Upto(n))
    <3>1. x < n \/ n < x
      BY <2>5
    <3> HIDE DEF Upto
    <3> QED BY <2>4, <3>1
  <2> HIDE DEF Upto
  <2> QED BY <1>1, <2>1, <2>3, <2>5
<1>5. ASSUME NEW n \in S PROVE f[Cardinality(Upto(n))] = n
  <2> HIDE DEF Upto
  <2>1. PICK w \in 1..Cardinality(S) : w = Cardinality(Upto(n))
    BY <1>4
  <2>2. f[w] \in S /\ Cardinality(Upto(f[w])) = w
    BY <1>3
  <2> QED BY <1>4, <2>1, <2>2
<1>6. ASSUME NEW n \in S, 1..n \subseteq S PROVE Cardinality(Upto(n)) = n
  <2>0. \A m \in S : m \in Nat /\ m # 0
    OBVIOUS
  <2>1. Upto(n) = 1..n
    <3>1. \A m \in S : m <= n => m \in 1..n
      BY <2>0
    <3>2. \A m \in 1..n : m \in S /\ m <= n
      BY <1>6, <2>0
    <3> QED BY <3>1, <3>2
  <2>2. Cardinality(1..n) = n
    BY FS_Interval, 1 <= n + 1
  <2> QED BY <2>1, <2>2
<1>7. \A w, x \in 1..Cardinality(S) : f[w] = f[x] => w = x
  BY <1>3
<1>8. \A n \in S : \E w \in 1..Cardinality(S) : f[w] = n
  <2> HIDE DEF Upto
  <2> QED BY <1>4, <1>5
<1>9. \A n \in S : 1..n \subseteq S => n <= Cardinality(S) /\ f[n] = n
  <2> HIDE DEF Upto
  <2>1. \A n \in S : n \in Nat
    OBVIOUS
  <2> QED BY <1>1, <1>4, <1>5, <1>6, <2>1
<1>10. QED
  BY <1>2, <1>7, <1>8, <1>9

\* If nothing is left out, every position keeps its place.
LEMMA InOrderAll ==
  ASSUME NEW N \in Nat
  PROVE  InOrder(1..N) = [w \in 1..N |-> w]
<1>1. Cardinality(1..N) = N
  BY FS_Interval
<1>2. ASSUME NEW w \in 1..N, NEW n \in 1..N
      PROVE  Cardinality({m \in 1..N : m <= n}) = n
  <2>1. {m \in 1..N : m <= n} = 1..n
    OBVIOUS
  <2>2. Cardinality(1..n) = n
    BY FS_Interval
  <2> QED BY <2>1, <2>2
<1>3. ASSUME NEW w \in 1..N
      PROVE  (CHOOSE n \in 1..N : Cardinality({m \in 1..N : m <= n}) = w) = w
  BY <1>2
<1> QED BY <1>1, <1>3 DEF InOrder

-----------------------------------------------------------------------------
(* FlattenSeq.                                                             *)

\* the first n members
Firsts(ss, n) == [j \in 1..n |-> ss[j]]

\* g holds the flattened prefixes of ss
Flat(ss, g) ==
  g = [j \in 1..Len(ss) |-> IF j = 1 THEN ss[j] ELSE g[j - 1] \o ss[j]]

\* The flattened prefixes exist.
LEMMA FlatExists ==
  ASSUME NEW ss, Len(ss) \in Nat
  PROVE  \E g : Flat(ss, g)
<1> DEFINE Part(n, g) == g = [j \in 1..n |-> IF j = 1 THEN ss[j] ELSE g[j - 1] \o ss[j]]
           Stuck == {n \in Nat : ~ \E g : Part(n, g)}
<1>1. SUFFICES ASSUME Stuck # {} PROVE FALSE
  BY DEF Flat
<1>2. PICK n \in Stuck : \A k \in Stuck : n <= k
  <2>1. Stuck \in SUBSET Nat
    OBVIOUS
  <2> HIDE DEF Stuck
  <2> QED BY <1>1, <2>1, LeastMember
<1>3. n # 0
  <2> DEFINE g == [j \in 1..0 |-> 0]
  <2>1. 1..0 = {}
    OBVIOUS
  <2>2. Part(0, g)
    BY <2>1
  <2> QED BY <2>2
<1>4. n - 1 \in Nat /\ n - 1 \notin Stuck /\ n \in Nat
  <2>1. n \in Nat
    OBVIOUS
  <2>2. n - 1 \in Nat /\ ~(n <= n - 1)
    BY <2>1, <1>3
  <2> HIDE DEF Stuck
  <2> QED BY <2>1, <2>2, <1>2
<1>5. PICK g : Part(n - 1, g)
  BY <1>4
<1> DEFINE h == [j \in 1..n |-> IF j = n THEN (IF j = 1 THEN ss[j] ELSE g[n - 1] \o ss[n]) ELSE g[j]]
<1>6. ASSUME NEW j \in 1..n PROVE h[j] = IF j = 1 THEN ss[j] ELSE h[j - 1] \o ss[j]
  <2>1. CASE j = 1
    <3>1. j # n => j \in 1..(n - 1)
      BY <1>4
    <3> QED BY <2>1, <3>1, <1>5
  <2>2. CASE j # 1
    <3>1. j - 1 \in 1..n /\ j - 1 # n /\ h[j - 1] = g[j - 1]
      BY <1>4, <2>2
    <3>2. j # n => j \in 1..(n - 1)
      BY <1>4
    <3> QED BY <2>2, <3>1, <3>2, <1>5
  <2> QED BY <2>1, <2>2
<1>7. h = [j \in 1..n |-> h[j]]
  OBVIOUS
<1> HIDE DEF h
<1>8. Part(n, h)
  BY <1>6, <1>7
<1> QED BY <1>2, <1>8

\* FlattenSeq is the last of them.
LEMMA FlattenUnfold ==
  ASSUME NEW ss, Len(ss) \in Nat, Len(ss) # 0
  PROVE  \E g : Flat(ss, g) /\ FlattenSeq(ss) = g[Len(ss)]
<1>1. PICK f : Flat(ss, f)
  BY FlatExists
<1> DEFINE g == CHOOSE h : Flat(ss, h)
<1>2. Flat(ss, g)
  BY <1>1
<1>3. FlattenSeq(ss) = g[Len(ss)]
  BY DEF FlattenSeq, Flat
<1> HIDE DEF g
<1> QED BY <1>2, <1>3

\* two sequences agree up to n
SameUpto(ss, rr, n) == \A j \in 1..n : ss[j] = rr[j]

\* Two sequences with a common prefix have common flattened prefixes.
LEMMA FlatAgrees ==
  ASSUME NEW ss, NEW rr, NEW g, NEW h, Flat(ss, g), Flat(rr, h),
         Len(ss) \in Nat, Len(rr) \in Nat, NEW n \in Nat, n <= Len(ss), n <= Len(rr),
         SameUpto(ss, rr, n)
  PROVE  SameUpto(g, h, n)
<1> USE DEF SameUpto
<1> DEFINE Bad == {j \in Nat : j \in 1..n /\ g[j] # h[j]}
<1>1. SUFFICES ASSUME Bad # {} PROVE FALSE
  OBVIOUS
<1>2. PICK j \in Bad : \A k \in Bad : j <= k
  <2>1. Bad \in SUBSET Nat
    OBVIOUS
  <2> HIDE DEF Bad
  <2> QED BY <1>1, <2>1, LeastMember
<1>3. j \in 1..n /\ j \in 1..Len(ss) /\ j \in 1..Len(rr) /\ g[j] # h[j]
  BY <1>2
<1>4. g[j] = (IF j = 1 THEN ss[j] ELSE g[j - 1] \o ss[j])
      /\ h[j] = (IF j = 1 THEN rr[j] ELSE h[j - 1] \o rr[j])
  BY <1>3 DEF Flat
<1>5. j # 1 => j - 1 \in 1..n /\ j - 1 \notin Bad
  BY <1>2, <1>3
<1>6. j # 1 => g[j - 1] = h[j - 1]
  BY <1>5
<1> QED BY <1>3, <1>4, <1>6

\* Flattening one more sequence appends it.
LEMMA FlattenAppend ==
  ASSUME NEW T, NEW ss \in Seq(Seq(T)), NEW x \in Seq(T)
  PROVE  FlattenSeq(Append(ss, x)) = FlattenSeq(ss) \o x
<1>1. PICK n, rr : n = Len(ss) /\ rr = Append(ss, x)
  OBVIOUS
<1>2. n \in Nat /\ Len(rr) = n + 1 /\ rr[n + 1] = x /\ \A j \in 1..n : ss[j] = rr[j]
  BY <1>1
<1>3. Len(rr) \in Nat /\ Len(rr) # 0 /\ Len(ss) \in Nat /\ n + 1 \in 1..Len(rr)
      /\ n <= Len(ss) /\ n <= Len(rr) /\ n + 1 - 1 = n
  BY <1>1, <1>2
<1>4. PICK h : Flat(rr, h) /\ FlattenSeq(rr) = h[Len(rr)]
  BY <1>3, FlattenUnfold
<1>5. PICK m \in Nat : m = n + 1
  BY <1>2
<1>10. m - 1 = n
  BY <1>2, <1>5
<1>8. h[m] = IF m = 1 THEN rr[m] ELSE h[m - 1] \o rr[m]
  <2>1. \A j \in 1..Len(rr) : h[j] = IF j = 1 THEN rr[j] ELSE h[j - 1] \o rr[j]
    BY <1>4 DEF Flat
  <2>2. m \in 1..Len(rr)
    BY <1>3, <1>5
  <2> HIDE <1>5
  <2> QED BY <2>1, <2>2
<1>9. FlattenSeq(rr) = h[m] /\ rr[m] = x
  BY <1>2, <1>4, <1>5
<1>6. CASE n = 0
  <2>1. ss = <<>>
    <3>1. PICK S : S = Seq(T)
      OBVIOUS
    <3>2. ss \in Seq(S) /\ Len(ss) = 0
      BY <3>1, <1>1, <1>6
    <3> HIDE <3>1
    <3> QED BY <3>2, EmptySeq
  <2>2. FlattenSeq(ss) = <<>>
    BY <2>1 DEF FlattenSeq
  <2>3. <<>> \o x = x
    BY ConcatEmptySeq
  <2>4. m = 1
    BY <1>5, <1>6
  <2> QED BY <1>1, <1>8, <1>9, <2>2, <2>3, <2>4
<1>7. CASE n # 0
  <2>1. PICK g : Flat(ss, g) /\ FlattenSeq(ss) = g[Len(ss)]
    BY <1>1, <1>3, <1>7, FlattenUnfold
  <2>2. SameUpto(g, h, n)
    <3>1. SameUpto(ss, rr, n)
      BY <1>2 DEF SameUpto
    <3>2. Flat(ss, g) /\ Flat(rr, h) /\ n \in Nat
      BY <2>1, <1>4, <1>2
    <3> QED BY <3>1, <3>2, <1>3, FlatAgrees, Zenon
  <2>3. n \in 1..n /\ m # 1
    BY <1>2, <1>5, <1>7
  <2>4. g[n] = h[n]
    BY <2>2, <2>3 DEF SameUpto
  <2>5. h[m] = h[n] \o x
    BY <1>8, <1>9, <1>10, <2>3, Zenon
  <2> QED BY <1>1, <1>9, <2>1, <2>4, <2>5, Zenon
<1> QED BY <1>6, <1>7

\* A prefix is the shorter prefix and one more member.
LEMMA FirstsNext ==
  ASSUME NEW S, NEW ss \in Seq(S), NEW n \in 1..Len(ss)
  PROVE  /\ Firsts(ss, n) \in Seq(S) /\ Firsts(ss, n - 1) \in Seq(S) /\ Len(Firsts(ss, n - 1)) = n - 1
         /\ Firsts(ss, n) = Append(Firsts(ss, n - 1), ss[n])
<1>1. n \in Nat /\ n - 1 \in Nat /\ Len(ss) \in Nat
  OBVIOUS
<1>2. Firsts(ss, n) \in Seq(S) /\ Len(Firsts(ss, n)) = n
  BY <1>1 DEF Firsts
<1>3. Firsts(ss, n - 1) \in Seq(S) /\ Len(Firsts(ss, n - 1)) = n - 1
  BY <1>1 DEF Firsts
<1>4. Len(Append(Firsts(ss, n - 1), ss[n])) = n /\ Append(Firsts(ss, n - 1), ss[n]) \in Seq(S)
  BY <1>1, <1>3
<1>5. \A j \in 1..n : Firsts(ss, n)[j] = Append(Firsts(ss, n - 1), ss[n])[j]
  BY <1>1, <1>3 DEF Firsts
<1> QED BY <1>2, <1>3, <1>4, <1>5

\* The prefixes of no and of all members.
LEMMA FirstsEnds ==
  ASSUME NEW S, NEW ss \in Seq(S)
  PROVE  Firsts(ss, 0) = <<>> /\ Firsts(ss, Len(ss)) = ss
  BY DEF Firsts

\* Flattening gives a sequence.
LEMMA FlattenType ==
  ASSUME NEW T, NEW ss \in Seq(Seq(T))
  PROVE  FlattenSeq(ss) \in Seq(T)
<1> DEFINE Bad == {n \in Nat : n <= Len(ss) /\ FlattenSeq(Firsts(ss, n)) \notin Seq(T)}
<1>1. Len(ss) \in Nat
  OBVIOUS
<1>2. Bad = {}
  <2>1. SUFFICES ASSUME Bad # {} PROVE FALSE
    OBVIOUS
  <2>2. PICK n \in Bad : \A k \in Bad : n <= k
    <3>1. Bad \in SUBSET Nat
      OBVIOUS
    <3> HIDE DEF Bad
    <3> QED BY <2>1, <3>1, LeastMember
  <2>3. n # 0
    <3>1. <<>> \in Seq(T) /\ FlattenSeq(<<>>) = <<>>
      BY DEF FlattenSeq
    <3>2. FlattenSeq(Firsts(ss, n)) \notin Seq(T)
      BY <2>2
    <3>3. Firsts(ss, 0) = <<>>
      BY FirstsEnds
    <3> QED BY <3>1, <3>2, <3>3
  <2>4. n \in 1..Len(ss) /\ n - 1 \in Nat /\ ~(n <= n - 1) /\ n - 1 <= Len(ss)
    BY <1>1, <2>2, <2>3
  <2>5. FlattenSeq(Firsts(ss, n - 1)) \in Seq(T)
    BY <2>2, <2>4
  <2>6. /\ Firsts(ss, n - 1) \in Seq(Seq(T)) /\ ss[n] \in Seq(T)
        /\ Firsts(ss, n) = Append(Firsts(ss, n - 1), ss[n])
    <3>1. PICK S : S = Seq(T)
      OBVIOUS
    <3>2. ss \in Seq(S)
      BY <3>1
    <3>3. ss[n] \in S
      BY <3>2, <2>4
    <3> QED BY <3>1, <3>2, <3>3, <2>4, FirstsNext
  <2>7. FlattenSeq(Firsts(ss, n)) = FlattenSeq(Firsts(ss, n - 1)) \o ss[n]
    BY <2>6, FlattenAppend
  <2>8. FlattenSeq(Firsts(ss, n)) \in Seq(T)
    <3>1. PICK f : f = FlattenSeq(Firsts(ss, n - 1))
      OBVIOUS
    <3>2. f \in Seq(T) /\ ss[n] \in Seq(T) /\ FlattenSeq(Firsts(ss, n)) = f \o ss[n]
      BY <3>1, <2>5, <2>6, <2>7, Zenon
    <3>3. f \o ss[n] \in Seq(T)
      BY <3>2, ConcatProperties, Zenon
    <3> QED BY <3>2, <3>3, Zenon
  <2> QED BY <2>2, <2>8
<1>3. Len(ss) \notin Bad
  BY <1>2
<1> QED BY <1>1, <1>3, FirstsEnds

\* What the first sequences give is the beginning of what more of them give.
LEMMA FlattenBegins ==
  ASSUME NEW T, NEW ss \in Seq(Seq(T)), NEW e \in Nat, e <= Len(ss)
  PROVE  \A n \in Nat : e <= n /\ n <= Len(ss) =>
           LET a == FlattenSeq(Firsts(ss, e))
               b == FlattenSeq(Firsts(ss, n))
           IN  /\ a \in Seq(T) /\ b \in Seq(T) /\ Len(a) <= Len(b)
               /\ \A j \in 1..Len(a) : b[j] = a[j]
<1> DEFINE F(n) == FlattenSeq(Firsts(ss, n))
           Begins(a, b) == Len(a) <= Len(b) /\ \A j \in 1..Len(a) : b[j] = a[j]
           Bad == {n \in Nat : e <= n /\ n <= Len(ss) /\ ~ Begins(F(e), F(n))}
<1>1. PICK S : S = Seq(T)
  OBVIOUS
<1>2. ss \in Seq(S) /\ Len(ss) \in Nat
  BY <1>1
<1>3. ASSUME NEW n \in Nat, n <= Len(ss)
      PROVE  F(n) \in Seq(T)
  <2>1. Firsts(ss, n) \in Seq(S)
    BY <1>2, <1>3 DEF Firsts
  <2> QED BY <2>1, <1>1, FlattenType
<1>4. Bad = {}
  <2>1. SUFFICES ASSUME Bad # {} PROVE FALSE
    OBVIOUS
  <2>2. PICK n \in Bad : \A k \in Bad : n <= k
    <3>1. Bad \in SUBSET Nat
      OBVIOUS
    <3> HIDE DEF Bad
    <3> QED BY <2>1, <3>1, LeastMember
  <2>3. n \in Nat /\ e <= n /\ n <= Len(ss) /\ ~ Begins(F(e), F(n))
    BY <2>2
  <2>4. n # e
    <3>1. F(e) \in Seq(T)
      BY <1>3
    <3> QED BY <2>3, <3>1
  <2>5. PICK m : m = n - 1
    OBVIOUS
  <2>6. m \in Nat /\ e <= m /\ m <= Len(ss) /\ ~(n <= m) /\ n \in 1..Len(ss)
    BY <1>2, <2>3, <2>4, <2>5
  <2>7. m \notin Bad
    <3> HIDE DEF Bad
    <3> QED BY <2>2, <2>6
  <2>8. Begins(F(e), F(m))
    BY <2>6, <2>7
  <2>9. Firsts(ss, m) \in Seq(S) /\ Firsts(ss, n) = Append(Firsts(ss, m), ss[n]) /\ ss[n] \in S
    <3>1. ss[n] \in S
      BY <1>2, <2>6
    <3>2. Firsts(ss, n - 1) \in Seq(S) /\ Firsts(ss, n) = Append(Firsts(ss, n - 1), ss[n])
      BY <1>2, <2>6, FirstsNext
    <3> QED BY <3>1, <3>2, <2>5, Zenon
  <2>10. F(n) = F(m) \o ss[n]
    BY <2>9, <1>1, FlattenAppend
  <2>11. PICK a, b, x : a = F(e) /\ b = F(m) /\ x = ss[n]
    OBVIOUS
  <2>12. a \in Seq(T) /\ b \in Seq(T) /\ x \in Seq(T)
    BY <1>1, <1>3, <2>6, <2>9, <2>11
  <2>13. Len(a) <= Len(b) /\ (\A j \in 1..Len(a) : b[j] = a[j]) /\ F(n) = b \o x
    BY <2>8, <2>10, <2>11
  <2> HIDE DEF F
  <2>14. Begins(a, b \o x)
    BY <2>12, <2>13
  <2> QED BY <2>3, <2>11, <2>13, <2>14, Zenon
<1>5. ASSUME NEW n \in Nat, e <= n, n <= Len(ss)
      PROVE  F(e) \in Seq(T) /\ F(n) \in Seq(T) /\ Begins(F(e), F(n))
  <2>1. Begins(F(e), F(n))
    BY <1>4, <1>5
  <2> QED BY <2>1, <1>3, <1>5
<1> QED BY <1>5

\* every element of f is an element of one of the first n sequences
From(f, ss, n) == \A j \in 1..Len(f) : \E k \in 1..n : \E l \in 1..Len(ss[k]) : f[j] = ss[k][l]

\* The elements come from the sequences.
LEMMA FlattenFrom ==
  ASSUME NEW T, NEW ss \in Seq(Seq(T)), NEW e \in Nat, e <= Len(ss)
  PROVE  From(FlattenSeq(Firsts(ss, e)), ss, e)
<1> DEFINE F(n) == FlattenSeq(Firsts(ss, n))
           Bad == {n \in Nat : n <= Len(ss) /\ ~ From(F(n), ss, n)}
<1>1. PICK S : S = Seq(T)
  OBVIOUS
<1>2. ss \in Seq(S) /\ Len(ss) \in Nat
  BY <1>1
<1>3. Bad = {}
  <2>1. SUFFICES ASSUME Bad # {} PROVE FALSE
    OBVIOUS
  <2>2. PICK n \in Bad : \A k \in Bad : n <= k
    <3>1. Bad \in SUBSET Nat
      OBVIOUS
    <3> HIDE DEF Bad
    <3> QED BY <2>1, <3>1, LeastMember
  <2>3. n \in Nat /\ n <= Len(ss) /\ ~ From(F(n), ss, n)
    BY <2>2
  <2>4. n # 0
    <3>1. F(0) = <<>>
      <4>1. Firsts(ss, 0) = <<>>
        BY FirstsEnds
      <4> QED BY <4>1 DEF FlattenSeq
    <3>2. From(<<>>, ss, 0)
      BY DEF From
    <3> HIDE DEF F
    <3> QED BY <2>3, <3>1, <3>2
  <2>5. PICK m : m = n - 1
    OBVIOUS
  <2>6. m \in Nat /\ m <= Len(ss) /\ ~(n <= m) /\ n \in 1..Len(ss)
    BY <1>2, <2>3, <2>4, <2>5
  <2>7. m \notin Bad
    <3> HIDE DEF Bad
    <3> QED BY <2>2, <2>6
  <2>8. From(F(m), ss, m)
    BY <2>6, <2>7
  <2>9. Firsts(ss, m) \in Seq(S) /\ Firsts(ss, n) = Append(Firsts(ss, m), ss[n]) /\ ss[n] \in S
    <3>1. ss[n] \in S
      BY <1>2, <2>6
    <3>2. Firsts(ss, n - 1) \in Seq(S) /\ Firsts(ss, n) = Append(Firsts(ss, n - 1), ss[n])
      BY <1>2, <2>6, FirstsNext
    <3> QED BY <3>1, <3>2, <2>5, Zenon
  <2>10. F(n) = F(m) \o ss[n]
    BY <2>9, <1>1, FlattenAppend
  <2>11. PICK b, x : b = F(m) /\ x = ss[n]
    OBVIOUS
  <2>12. b \in Seq(T) /\ x \in Seq(T)
    BY <1>1, <2>9, <2>11, FlattenType
  <2>13. From(b, ss, m) /\ F(n) = b \o x
    BY <2>8, <2>10, <2>11
  <2> HIDE DEF F
  <2>14. ASSUME NEW j \in 1..Len(b \o x)
         PROVE  \E k \in 1..n : \E l \in 1..Len(ss[k]) : (b \o x)[j] = ss[k][l]
    <3>1. Len(b) \in Nat /\ Len(x) \in Nat /\ Len(b \o x) = Len(b) + Len(x)
      BY <2>12
    <3>2. CASE j \in 1..Len(b)
      <4>1. (b \o x)[j] = b[j]
        BY <3>2, <2>12
      <4>2. PICK k \in 1..m : \E l \in 1..Len(ss[k]) : b[j] = ss[k][l]
        BY <3>2, <2>13 DEF From
      <4>3. k \in 1..n
        BY <2>5, <2>6
      <4> QED BY <4>1, <4>2, <4>3
    <3>3. CASE j \notin 1..Len(b)
      <4>1. PICK l : l = j - Len(b)
        OBVIOUS
      <4>2. l \in 1..Len(x) /\ (b \o x)[j] = x[l]
        BY <3>1, <3>3, <4>1, <2>12
      <4>3. n \in 1..n
        BY <2>6
      <4> QED BY <4>2, <4>3, <2>11
    <3> QED BY <3>2, <3>3
  <2>15. From(b \o x, ss, n)
    BY <2>14 DEF From
  <2> QED BY <2>3, <2>13, <2>15, Zenon
<1>4. e \notin Bad
  BY <1>3
<1> QED BY <1>4

-----------------------------------------------------------------------------
(* Cutting a flattened sequence at the ends of its members.                *)

\* A piece of the first sequence, and the second sequence, of two put together.
LEMMA CutConcat ==
  ASSUME NEW T, NEW s \in Seq(T), NEW x \in Seq(T)
  PROVE  /\ \A a \in Nat, b \in Nat : 1 <= a /\ b <= Len(s) => SubSeq(s \o x, a, b) = SubSeq(s, a, b)
         /\ SubSeq(s \o x, Len(s) + 1, Len(s) + Len(x)) = x
<1>1. PICK r : r = s \o x
  OBVIOUS
<1>2. /\ r \in Seq(T) /\ Len(r) = Len(s) + Len(x) /\ Len(s) \in Nat /\ Len(x) \in Nat
      /\ \A j \in 1..(Len(s) + Len(x)) : r[j] = IF j <= Len(s) THEN s[j] ELSE x[j - Len(s)]
  BY <1>1, ConcatProperties
<1>3. ASSUME NEW a \in Nat, NEW b \in Nat, 1 <= a, b <= Len(s)
      PROVE  SubSeq(r, a, b) = SubSeq(s, a, b)
  BY <1>2, <1>3
<1>4. SubSeq(r, Len(s) + 1, Len(s) + Len(x)) = x
  BY <1>2
<1> QED BY <1>1, <1>3, <1>4

\* where the members of ss begin in the flattened sequence
Offsets(ss, off) ==
  /\ off[1] = 0
  /\ \A j \in 1..Len(ss) : off[j] \in Nat
  /\ \A j \in 1..Len(ss) : j # 1 => off[j] = off[j - 1] + Len(ss[j - 1])

\* flattening the first n members of ss has put them where off says
CutUpto(T, ss, off, n) ==
  LET data == FlattenSeq(Firsts(ss, n))
  IN  /\ data \in Seq(T)
      /\ Len(data) = IF n = 0 THEN 0 ELSE off[n] + Len(ss[n])
      /\ \A j \in 1..n : SubSeq(data, off[j] + 1, off[j] + Len(ss[j])) = ss[j]

\* One more member.
LEMMA CutNext ==
  ASSUME NEW T, NEW ss \in Seq(Seq(T)), NEW off, Offsets(ss, off),
         NEW n \in Nat, n + 1 <= Len(ss), CutUpto(T, ss, off, n)
  PROVE  CutUpto(T, ss, off, n + 1)
<1>1. PICK m, S : m = n + 1 /\ S = Seq(T)
  OBVIOUS
<1>2. m \in 1..Len(ss) /\ m - 1 = n /\ ss \in Seq(S) /\ Len(ss) \in Nat /\ m # 0
  BY <1>1
<1>3. ss[m] \in S /\ \A j \in 1..Len(ss) : ss[j] \in S
  BY <1>2
<1>4. \A j \in 1..Len(ss) : Len(ss[j]) \in Nat
  BY <1>1, <1>3
<1>5. /\ Firsts(ss, n) \in Seq(S) /\ Firsts(ss, m) = Append(Firsts(ss, n), ss[m])
  BY <1>2, FirstsNext
<1>6. PICK s, x, d : s = FlattenSeq(Firsts(ss, n)) /\ x = ss[m] /\ d = FlattenSeq(Firsts(ss, m))
  OBVIOUS
<1>7. d = s \o x
  BY <1>1, <1>3, <1>5, <1>6, FlattenAppend
<1>8. /\ s \in Seq(T) /\ x \in Seq(T)
      /\ Len(s) = IF n = 0 THEN 0 ELSE off[n] + Len(ss[n])
      /\ \A j \in 1..n : SubSeq(s, off[j] + 1, off[j] + Len(ss[j])) = ss[j]
  BY <1>1, <1>3, <1>6 DEF CutUpto
<1>9. d \in Seq(T) /\ Len(d) = Len(s) + Len(x) /\ Len(s) \in Nat /\ Len(x) \in Nat
  BY ONLY <1>7, <1>8, ConcatProperties, LenProperties
<1>10. /\ \A a \in Nat, b \in Nat : 1 <= a /\ b <= Len(s) => SubSeq(d, a, b) = SubSeq(s, a, b)
       /\ SubSeq(d, Len(s) + 1, Len(s) + Len(x)) = x
  <2>1. /\ \A a \in Nat, b \in Nat : 1 <= a /\ b <= Len(s) => SubSeq(s \o x, a, b) = SubSeq(s, a, b)
        /\ SubSeq(s \o x, Len(s) + 1, Len(s) + Len(x)) = x
    BY <1>8, CutConcat, Zenon
  <2> QED BY <2>1, <1>7, Zenon
<1>11. off[m] = Len(s)
  <2>1. CASE n = 0
    BY <2>1, <1>1, <1>8 DEF Offsets
  <2>2. CASE n # 0
    <3>1. m # 1
      BY <2>2, <1>1
    <3> QED BY <3>1, <2>2, <1>2, <1>8 DEF Offsets
  <2> QED BY <2>1, <2>2
<1>12. \A j \in 1..n : /\ off[j] \in Nat /\ Len(ss[j]) \in Nat
                       /\ off[j] + Len(ss[j]) <= Len(s)
  <2> DEFINE Bad == {k \in Nat : k \in 1..n /\ ~(off[k] + Len(ss[k]) <= Len(s))}
  <2>1. \A j \in 1..n : j \in 1..Len(ss)
    BY <1>1, <1>2
  <2>2. \A j \in 1..n : off[j] \in Nat /\ Len(ss[j]) \in Nat
    BY <2>1, <1>4 DEF Offsets
  <2>3. SUFFICES ASSUME NEW j \in 1..n, ~(off[j] + Len(ss[j]) <= Len(s)) PROVE FALSE
    BY <2>2
  <2>4. \E k \in Bad : \A i1 \in Bad : i1 <= k
    <3>1. Bad \in SUBSET (1..n) /\ j \in Bad
      BY <2>3
    <3> HIDE DEF Bad
    <3> QED BY <3>1, GreatestMember
  <2>5. PICK k \in Bad : \A i1 \in Bad : i1 <= k
    BY <2>4
  <2>6. k \in 1..n /\ k \in Nat /\ ~(off[k] + Len(ss[k]) <= Len(s))
    OBVIOUS
  <2>7. k # n
    BY <2>2, <2>6, <1>8, <1>9
  <2>8. PICK l : l = k + 1
    OBVIOUS
  <2>9. l \in 1..n /\ l \in Nat /\ l # 1 /\ l - 1 = k /\ ~(l <= k)
    BY <2>6, <2>7, <2>8
  <2>10. l \notin Bad
    <3> HIDE DEF Bad
    <3> QED BY <2>5, <2>9
  <2>11. off[l] + Len(ss[l]) <= Len(s)
    BY <2>9, <2>10
  <2>12. off[l] = off[k] + Len(ss[k])
    BY <2>1, <2>9 DEF Offsets
  <2>13. off[l] \in Nat /\ Len(ss[l]) \in Nat /\ off[k] \in Nat /\ Len(ss[k]) \in Nat
    BY <2>2, <2>6, <2>9
  <2>14. PICK p, q, u, v, len : p = off[l] /\ q = Len(ss[l]) /\ u = off[k] /\ v = Len(ss[k]) /\ len = Len(s)
    OBVIOUS
  <2>15. p \in Nat /\ q \in Nat /\ u \in Nat /\ v \in Nat /\ len \in Nat
         /\ p + q <= len /\ p = u + v /\ ~(u + v <= len)
    BY <2>6, <2>11, <2>12, <2>13, <2>14, <1>9, Zenon
  <2> QED BY ONLY <2>15
<1>13. ASSUME NEW j \in 1..m
       PROVE  SubSeq(d, off[j] + 1, off[j] + Len(ss[j])) = ss[j]
  <2>1. CASE j = m
    BY <2>1, <1>6, <1>10, <1>11
  <2>2. CASE j # m
    <3>1. j \in 1..n
      BY <2>2, <1>1
    <3>2. PICK a, b : a = off[j] + 1 /\ b = off[j] + Len(ss[j])
      OBVIOUS
    <3>3. a \in Nat /\ b \in Nat /\ 1 <= a /\ b <= Len(s)
      <4>1. off[j] \in Nat /\ Len(ss[j]) \in Nat /\ off[j] + Len(ss[j]) <= Len(s)
        BY <3>1, <1>12
      <4> QED BY ONLY <4>1, <3>2
    <3>4. SubSeq(d, a, b) = SubSeq(s, a, b)
      BY <3>3, <1>10
    <3>5. SubSeq(s, off[j] + 1, off[j] + Len(ss[j])) = ss[j]
      BY <3>1, <1>8
    <3> QED BY <3>2, <3>4, <3>5
  <2> QED BY <2>1, <2>2
<1>14. Len(d) = off[m] + Len(ss[m])
  BY <1>6, <1>9, <1>11
<1>15. CutUpto(T, ss, off, m)
  BY <1>2, <1>6, <1>9, <1>13, <1>14 DEF CutUpto
<1> QED BY <1>1, <1>15

\* Cutting a flattened sequence where its members begin gives the members back.
LEMMA CutFlatten ==
  ASSUME NEW T, NEW ss \in Seq(Seq(T)), NEW off, Offsets(ss, off), Len(ss) # 0
  PROVE  /\ FlattenSeq(ss) \in Seq(T)
         /\ Len(FlattenSeq(ss)) = off[Len(ss)] + Len(ss[Len(ss)])
         /\ \A j \in 1..Len(ss) :
              SubSeq(FlattenSeq(ss), off[j] + 1, off[j] + Len(ss[j])) = ss[j]
<1> DEFINE Bad == {n \in Nat : n <= Len(ss) /\ ~ CutUpto(T, ss, off, n)}
<1>1. Len(ss) \in Nat
  OBVIOUS
<1>2. Firsts(ss, 0) = <<>> /\ Firsts(ss, Len(ss)) = ss
  <2>1. PICK S : S = Seq(T)
    OBVIOUS
  <2>2. ss \in Seq(S)
    BY <2>1
  <2> QED BY <2>2, FirstsEnds
<1>3. CutUpto(T, ss, off, 0)
  <2>1. <<>> \in Seq(T) /\ FlattenSeq(<<>>) = <<>> /\ Len(<<>>) = 0
    BY DEF FlattenSeq
  <2>2. \A j \in 1..0 : FALSE
    OBVIOUS
  <2>3. FlattenSeq(Firsts(ss, 0)) = <<>>
    BY <1>2, <2>1
  <2>4. PICK data : data = FlattenSeq(Firsts(ss, 0))
    OBVIOUS
  <2>5. /\ data \in Seq(T) /\ Len(data) = 0
        /\ \A j \in 1..0 : SubSeq(data, off[j] + 1, off[j] + Len(ss[j])) = ss[j]
    BY <2>1, <2>2, <2>3, <2>4
  <2> QED BY <2>4, <2>5 DEF CutUpto
<1>4. Bad = {}
  <2>1. SUFFICES ASSUME Bad # {} PROVE FALSE
    OBVIOUS
  <2>2. PICK n \in Bad : \A k \in Bad : n <= k
    <3>1. Bad \in SUBSET Nat
      OBVIOUS
    <3> HIDE DEF Bad
    <3> QED BY <2>1, <3>1, LeastMember
  <2>3. n \in Nat /\ n <= Len(ss) /\ ~ CutUpto(T, ss, off, n) /\ n # 0
    BY <1>3
  <2>4. PICK m : m = n - 1
    OBVIOUS
  <2>5. m \in Nat /\ m + 1 = n /\ m + 1 <= Len(ss) /\ m <= Len(ss) /\ ~(n <= m)
    BY <1>1, <2>3, <2>4
  <2>6. m \notin Bad
    <3> HIDE DEF Bad
    <3> QED BY <2>2, <2>5
  <2>7. CutUpto(T, ss, off, m)
    BY <2>5, <2>6
  <2>8. CutUpto(T, ss, off, m + 1)
    BY <2>5, <2>7, CutNext
  <2> QED BY <2>3, <2>5, <2>8
<1>5. CutUpto(T, ss, off, Len(ss))
  BY <1>1, <1>4
<1> QED BY <1>2, <1>5 DEF CutUpto

\* Multiples of g.
LEMMA Multiples ==
  ASSUME NEW g \in Nat
  PROVE  /\ \A j \in Nat : j * g \in Nat
         /\ \A j \in Nat \ {0} : j * g = (j - 1) * g + g
         /\ \A j \in Nat, k \in Nat : j <= k => j * g <= k * g
         /\ 0 * g = 0
<1>1. \A j \in Nat : j * g \in Nat
  OBVIOUS
<1>2. \A j \in Nat \ {0} : j * g = (j - 1) * g + g
  OBVIOUS
<1>3. ASSUME NEW j \in Nat, NEW k \in Nat, j <= k PROVE j * g <= k * g
  <2>1. PICK d \in Nat : k = j + d
    <3>1. k - j \in Nat /\ k = j + (k - j)
      BY <1>3
    <3> QED BY <3>1
  <2>2. d * g \in Nat /\ j * g \in Nat
    BY <1>1
  <2>3. (j + d) * g = j * g + d * g
    OBVIOUS
  <2> QED BY <2>1, <2>2, <2>3
<1> QED BY <1>1, <1>2, <1>3

\* The number of pieces of n - 1 times g and at most g more.
LEMMA PieceCount ==
  ASSUME NEW g \in Nat \ {0}, NEW n \in Nat \ {0}, NEW l \in 1..g, NEW len, len = (n - 1) * g + l
  PROVE  (len + g - 1) \div g = n
<1>1. PICK a, q : a = len + g - 1 /\ q = a \div g
  OBVIOUS
<1>2. n * g \in Nat /\ n * g = (n - 1) * g + g /\ (n - 1) * g \in Nat
  BY Multiples
<1>3. PICK ng : ng = n * g
  OBVIOUS
<1>4. ng \in Nat /\ a = ng + (l - 1) /\ a \in Nat
  BY <1>1, <1>2, <1>3
<1>5. q \in Nat /\ q * g <= a /\ a < q * g + g
  <2>1. a % g \in 0..(g - 1) /\ a = g * (a \div g) + (a % g) /\ a \div g \in Nat
    BY <1>4
  <2>2. g * q = q * g /\ q * g \in Nat
    BY <2>1, <1>1
  <2> QED BY <2>1, <2>2, <1>1
<1>6. ~(q < n)
  <2>1. SUFFICES ASSUME q + 1 <= n PROVE FALSE
    BY <1>5
  <2>2. q + 1 \in Nat /\ q + 1 # 0 /\ q + 1 - 1 = q
    BY <1>5
  <2>3. (q + 1) * g <= ng /\ (q + 1) * g = q * g + g /\ q * g \in Nat
    <3>1. PICK m : m = q + 1
      OBVIOUS
    <3>2. m \in Nat \ {0} /\ m - 1 = q /\ m <= n
      BY <3>1, <2>1, <2>2, <1>5
    <3>3. m * g <= n * g /\ m * g = (m - 1) * g + g /\ q * g \in Nat
      BY <3>2, <1>5, Multiples
    <3> QED BY <3>1, <3>2, <3>3, <1>3
  <2> QED BY <2>3, <1>4, <1>5
<1>7. ~(n < q)
  <2>1. SUFFICES ASSUME n <= q - 1 PROVE FALSE
    BY <1>5
  <2>2. q \in Nat \ {0} /\ q - 1 \in Nat
    BY <1>5, <2>1
  <2>3. n * g <= (q - 1) * g /\ q * g = (q - 1) * g + g /\ (q - 1) * g \in Nat
    BY <2>1, <2>2, Multiples
  <2> QED BY <2>3, <1>3, <1>4, <1>5
<1> QED BY <1>1, <1>5, <1>6, <1>7

\* datagrams that UDP_SEGMENT and UDP_GRO put together: all of size g but the last
Even(ss, g) ==
  /\ \A j \in 1..Len(ss) : IF j < Len(ss) THEN Len(ss[j]) = g ELSE Len(ss[j]) \in 1..g

\* data cut at g
CutAt(data, g) ==
  [j \in 1..((Len(data) + g - 1) \div g) |->
     SubSeq(data, (j - 1) * g + 1, IF j * g > Len(data) THEN Len(data) ELSE j * g)]

\* Cutting what was put together gives the datagrams back.
LEMMA CutEven ==
  ASSUME NEW T, NEW ss \in Seq(Seq(T)), Len(ss) # 0, NEW g \in Nat \ {0}, Even(ss, g)
  PROVE  /\ CutAt(FlattenSeq(ss), g) = ss
         /\ FlattenSeq(ss) \in Seq(T)
         /\ Len(FlattenSeq(ss)) = (Len(ss) - 1) * g + Len(ss[Len(ss)])
<1>1. PICK n, S, data : n = Len(ss) /\ S = Seq(T) /\ data = FlattenSeq(ss)
  OBVIOUS
<1>2. n \in Nat \ {0} /\ ss \in Seq(S) /\ n \in 1..n
  BY <1>1
<1>3. \A j \in 1..n : ss[j] \in Seq(T) /\ Len(ss[j]) \in Nat
  <2>1. \A j \in 1..n : ss[j] \in S
    BY <1>1, <1>2
  <2> QED BY <1>1, <2>1
<1>4. \A j \in 1..n : (j < n => Len(ss[j]) = g) /\ (j = n => Len(ss[j]) \in 1..g)
  BY <1>1, <1>2 DEF Even
<1> DEFINE off == [j \in 1..n |-> (j - 1) * g]
<1>5. \A j \in 1..n : off[j] = (j - 1) * g /\ (j - 1) * g \in Nat /\ j * g = (j - 1) * g + g
  <2>1. \A j \in 1..n : j \in Nat \ {0} /\ j - 1 \in Nat
    BY <1>2
  <2> QED BY <2>1, Multiples
<1>6. Offsets(ss, off)
  <2>1. off[1] = 0
    <3>1. 1 \in 1..n /\ (1 - 1) * g = 0
      BY <1>2, Multiples
    <3> QED BY <3>1
  <2>2. \A j \in 1..n : off[j] \in Nat
    BY <1>5
  <2>3. ASSUME NEW j \in 1..n, j # 1 PROVE off[j] = off[j - 1] + Len(ss[j - 1])
    <3>1. PICK k : k = j - 1
      OBVIOUS
    <3>2. k \in 1..n /\ k < n
      BY <3>1, <2>3, <1>2
    <3>3. off[k] = (k - 1) * g /\ k * g = (k - 1) * g + g /\ off[j] = k * g
      BY <3>1, <3>2, <1>5
    <3> QED BY <3>1, <3>2, <3>3, <1>4
  <2> HIDE DEF off
  <2> QED BY <2>1, <2>2, <2>3, <1>1 DEF Offsets
<1> HIDE DEF off
<1>7. /\ data \in Seq(T) /\ Len(data) = off[n] + Len(ss[n])
      /\ \A j \in 1..n : SubSeq(data, off[j] + 1, off[j] + Len(ss[j])) = ss[j]
  BY <1>1, <1>6, CutFlatten
<1>8. Len(data) = (n - 1) * g + Len(ss[n]) /\ Len(ss[n]) \in 1..g /\ Len(data) \in Nat
  <2>1. off[n] = (n - 1) * g /\ (n - 1) * g \in Nat
    BY <1>2, <1>5
  <2>2. Len(ss[n]) \in 1..g
    BY <1>2, <1>4
  <2>3. PICK o, l : o = (n - 1) * g /\ l = Len(ss[n])
    OBVIOUS
  <2>4. o \in Nat /\ l \in 1..g /\ Len(data) = o + l
    BY <2>1, <2>2, <2>3, <1>7
  <2>5. o + l \in Nat
    BY <2>4
  <2> QED BY <2>3, <2>4, <2>5
<1>9. (Len(data) + g - 1) \div g = n
  BY <1>2, <1>8, PieceCount
<1>10. ASSUME NEW j \in 1..n
       PROVE  SubSeq(data, (j - 1) * g + 1, IF j * g > Len(data) THEN Len(data) ELSE j * g) = ss[j]
  <2>1. SubSeq(data, off[j] + 1, off[j] + Len(ss[j])) = ss[j]
    BY <1>7
  <2>2. PICK e : e = IF j * g > Len(data) THEN Len(data) ELSE j * g
    OBVIOUS
  <2>3. e = off[j] + Len(ss[j])
    <3>1. CASE j = n
      <4>1. off[n] = (n - 1) * g /\ (n - 1) * g \in Nat /\ n * g = (n - 1) * g + g
        BY <1>2, <1>5
      <4>2. PICK o, l, ng, len : o = (n - 1) * g /\ l = Len(ss[n]) /\ ng = n * g /\ len = Len(data)
        OBVIOUS
      <4>3. o \in Nat /\ l \in 1..g /\ len = o + l /\ ng = o + g
        BY <4>1, <4>2, <1>8
      <4>4. (IF ng > len THEN len ELSE ng) = o + l
        BY <4>3
      <4>5. e = IF ng > len THEN len ELSE ng
        BY <3>1, <4>2, <2>2
      <4> QED BY <3>1, <4>1, <4>2, <4>4, <4>5
    <3>2. CASE j # n
      <4>1. j < n /\ j <= n - 1 /\ j \in Nat /\ n - 1 \in Nat
        BY <3>2, <1>2
      <4>2. Len(ss[j]) = g /\ j * g = off[j] + g /\ off[j] \in Nat
        BY <4>1, <1>4, <1>5
      <4>3. j * g <= (n - 1) * g /\ (n - 1) * g \in Nat /\ j * g \in Nat
        BY <4>1, Multiples
      <4>4. j * g <= Len(data)
        BY <4>3, <1>8
      <4> QED BY <4>2, <4>3, <4>4, <1>8, <2>2
    <3> QED BY <3>1, <3>2
  <2>4. off[j] = (j - 1) * g
    BY <1>5
  <2> QED BY <2>1, <2>2, <2>3, <2>4
<1>11. CutAt(data, g) = [j \in 1..n |-> ss[j]]
  BY <1>9, <1>10 DEF CutAt
<1>12. ss = [j \in 1..n |-> ss[j]]
  BY <1>1, <1>2
<1> QED BY <1>1, <1>7, <1>8, <1>11, <1>12

-----------------------------------------------------------------------------
(* Parts of a sequence.                                                    *)

\* the members after lo, up to hi
Part(ss, lo, hi) == SubSeq(ss, lo + 1, hi)

\* A part of a sequence.
LEMMA PartShape ==
  ASSUME NEW S, NEW ss \in Seq(S), NEW lo \in Nat, NEW hi \in Nat, lo <= hi, hi <= Len(ss)
  PROVE  /\ Part(ss, lo, hi) \in Seq(S) /\ Len(Part(ss, lo, hi)) = hi - lo
         /\ \A j \in 1..(hi - lo) : Part(ss, lo, hi)[j] = ss[lo + j]
  BY DEF Part

\* One more member.
LEMMA PartNext ==
  ASSUME NEW S, NEW ss \in Seq(S), NEW lo \in Nat, NEW hi \in Nat, lo <= hi, hi + 1 <= Len(ss)
  PROVE  Part(ss, lo, hi + 1) = Append(Part(ss, lo, hi), ss[hi + 1])
<1>1. PICK p, q, m : p = Part(ss, lo, hi) /\ q = Part(ss, lo, m) /\ m = hi + 1
  OBVIOUS
<1>2. m \in Nat /\ lo <= m /\ m <= Len(ss) /\ hi <= Len(ss) /\ m \in 1..Len(ss)
  BY <1>1
<1>3. p \in Seq(S) /\ Len(p) = hi - lo /\ \A j \in 1..(hi - lo) : p[j] = ss[lo + j]
  <2>1. /\ Part(ss, lo, hi) \in Seq(S) /\ Len(Part(ss, lo, hi)) = hi - lo
        /\ \A j \in 1..(hi - lo) : Part(ss, lo, hi)[j] = ss[lo + j]
    BY <1>2, PartShape
  <2> QED BY <2>1, <1>1
<1>4. q \in Seq(S) /\ Len(q) = m - lo /\ \A j \in 1..(m - lo) : q[j] = ss[lo + j]
  <2>1. /\ Part(ss, lo, m) \in Seq(S) /\ Len(Part(ss, lo, m)) = m - lo
        /\ \A j \in 1..(m - lo) : Part(ss, lo, m)[j] = ss[lo + j]
    BY <1>2, PartShape
  <2> QED BY <2>1, <1>1, Zenon
<1>5. ss[m] \in S
  BY <1>2
<1>6. PICK r : r = Append(p, ss[m])
  OBVIOUS
<1>7. /\ r \in Seq(S) /\ Len(r) = m - lo /\ r[m - lo] = ss[m]
      /\ \A j \in 1..(hi - lo) : r[j] = p[j]
  <2>1. /\ r \in Seq(S) /\ Len(r) = Len(p) + 1 /\ r[Len(p) + 1] = ss[m]
        /\ \A j \in 1..Len(p) : r[j] = p[j]
    <3>1. p \in Seq(S) /\ Len(p) \in Nat
      BY <1>3
    <3> QED BY <3>1, <1>5, <1>6
  <2>2. Len(p) + 1 = m - lo
    BY <1>1, <1>2, <1>3
  <2> QED BY <2>1, <2>2, <1>3, Zenon
<1>8. ASSUME NEW j \in 1..(m - lo) PROVE q[j] = r[j]
  <2>1. q[j] = ss[lo + j]
    BY <1>4
  <2>2. CASE j = m - lo
    <3>1. lo + j = m
      BY <2>2, <1>2
    <3> QED BY <2>1, <2>2, <3>1, <1>7
  <2>3. CASE j # m - lo
    <3>1. j \in 1..(hi - lo)
      BY <2>3, <1>1, <1>2
    <3> QED BY <2>1, <3>1, <1>3, <1>7
  <2> QED BY <2>2, <2>3
<1>9. q = r
  BY <1>4, <1>7, <1>8, SeqEqual
<1> QED BY <1>1, <1>6, <1>9

\* Two parts that follow one another.
LEMMA PartsJoin ==
  ASSUME NEW S, NEW ss \in Seq(S), NEW lo \in Nat, NEW mid \in Nat, NEW hi \in Nat,
         lo <= mid, mid <= hi, hi <= Len(ss)
  PROVE  Part(ss, lo, mid) \o Part(ss, mid, hi) = Part(ss, lo, hi)
<1>1. PICK p, q, r, c : /\ p = Part(ss, lo, mid) /\ q = Part(ss, mid, hi) /\ r = Part(ss, lo, hi)
                        /\ c = p \o q
  OBVIOUS
<1>2. lo <= hi /\ mid <= Len(ss)
  OBVIOUS
<1>3. p \in Seq(S) /\ Len(p) = mid - lo /\ \A j \in 1..(mid - lo) : p[j] = ss[lo + j]
  BY <1>1, <1>2, PartShape
<1>4. q \in Seq(S) /\ Len(q) = hi - mid /\ \A j \in 1..(hi - mid) : q[j] = ss[mid + j]
  BY <1>1, <1>2, PartShape
<1>5. r \in Seq(S) /\ Len(r) = hi - lo /\ \A j \in 1..(hi - lo) : r[j] = ss[lo + j]
  BY <1>1, <1>2, PartShape
<1>6. /\ c \in Seq(S) /\ Len(c) = Len(p) + Len(q)
      /\ \A j \in 1..(Len(p) + Len(q)) : c[j] = IF j <= Len(p) THEN p[j] ELSE q[j - Len(p)]
  <2>1. /\ p \o q \in Seq(S) /\ Len(p \o q) = Len(p) + Len(q)
        /\ \A j \in 1..(Len(p) + Len(q)) :
             (p \o q)[j] = IF j <= Len(p) THEN p[j] ELSE q[j - Len(p)]
    BY <1>3, <1>4, ConcatProperties
  <2> QED BY <2>1, <1>1, Zenon
<1>7. Len(c) = hi - lo /\ Len(p) + Len(q) = hi - lo
  BY <1>3, <1>4, <1>6
<1>8. ASSUME NEW j \in 1..(hi - lo) PROVE c[j] = r[j]
  <2>1. r[j] = ss[lo + j] /\ c[j] = IF j <= mid - lo THEN p[j] ELSE q[j - (mid - lo)]
    BY <1>3, <1>5, <1>6, <1>7
  <2>2. CASE j <= mid - lo
    <3>1. j \in 1..(mid - lo)
      BY <2>2
    <3> QED BY <2>1, <2>2, <3>1, <1>3
  <2>3. CASE ~(j <= mid - lo)
    <3>1. PICK k : k = j - (mid - lo)
      OBVIOUS
    <3>2. k \in 1..(hi - mid) /\ mid + k = lo + j
      BY <2>3, <3>1
    <3> QED BY <2>1, <2>3, <3>1, <3>2, <1>4
  <2> QED BY <2>2, <2>3
<1>9. c = r
  BY <1>5, <1>6, <1>7, <1>8, SeqEqual
<1> QED BY <1>1, <1>9

\* The parts of nothing and of everything.
LEMMA PartEnds ==
  ASSUME NEW S, NEW ss \in Seq(S)
  PROVE  /\ Part(ss, 0, Len(ss)) = ss
         /\ \A k \in Nat : Part(ss, k, k) = <<>>
  BY DEF Part

\* the members of pp are n parts of ss that follow one another
PartsOf(ss, n, e, pp) ==
  /\ e \in [0..n -> 0..Len(ss)]
  /\ \A j \in 1..n : e[j - 1] <= e[j]
  /\ Len(pp) = n /\ \A j \in 1..n : pp[j] = Part(ss, e[j - 1], e[j])

\* Parts that follow one another, flattened.
LEMMA FlattenParts ==
  ASSUME NEW S, NEW ss \in Seq(S), NEW n \in Nat, NEW e,
         NEW pp \in Seq(Seq(S)), PartsOf(ss, n, e, pp)
  PROVE  FlattenSeq(pp) = Part(ss, e[0], e[n]) /\ e[0] <= e[n]
<1>0. /\ e \in [0..n -> 0..Len(ss)]
      /\ \A j \in 1..n : e[j - 1] <= e[j]
      /\ Len(pp) = n /\ \A j \in 1..n : pp[j] = Part(ss, e[j - 1], e[j])
  BY DEF PartsOf
<1> DEFINE Bad == {k \in Nat : k <= n /\ ~(/\ FlattenSeq(Firsts(pp, k)) = Part(ss, e[0], e[k])
                                           /\ e[0] <= e[k])}
<1>1. PICK Q : Q = Seq(S)
  OBVIOUS
<1>2. pp \in Seq(Q) /\ Len(ss) \in Nat /\ \A j \in 0..n : e[j] \in Nat /\ e[j] <= Len(ss)
  BY <1>0, <1>1
<1>3. Bad = {}
  <2>1. SUFFICES ASSUME Bad # {} PROVE FALSE
    OBVIOUS
  <2>2. PICK k \in Bad : \A m \in Bad : k <= m
    <3>1. Bad \in SUBSET Nat
      OBVIOUS
    <3> HIDE DEF Bad
    <3> QED BY <2>1, <3>1, LeastMember
  <2>3. k \in Nat /\ k <= n /\ ~(FlattenSeq(Firsts(pp, k)) = Part(ss, e[0], e[k]) /\ e[0] <= e[k])
    BY <2>2
  <2>4. k # 0
    <3>1. Firsts(pp, 0) = <<>> /\ FlattenSeq(<<>>) = <<>>
      BY <1>2, FirstsEnds DEF FlattenSeq
    <3>2. e[0] \in Nat
      BY <1>2
    <3>3. Part(ss, e[0], e[0]) = <<>> /\ e[0] <= e[0]
      BY <3>2, PartEnds
    <3> QED BY <2>3, <3>1, <3>3
  <2>5. PICK m : m = k - 1
    OBVIOUS
  <2>6. m \in Nat /\ m <= n /\ ~(k <= m) /\ k \in 1..n /\ m \in 0..n /\ k \in 0..n /\ 0 \in 0..n
    BY <2>3, <2>4, <2>5
  <2>7. m \notin Bad
    <3> HIDE DEF Bad
    <3> QED BY <2>2, <2>6
  <2>8. FlattenSeq(Firsts(pp, m)) = Part(ss, e[0], e[m]) /\ e[0] <= e[m]
    BY <2>6, <2>7
  <2>9. pp[k] = Part(ss, e[m], e[k]) /\ e[m] <= e[k] /\ pp[k] \in Q /\ k \in 1..Len(pp)
    BY <2>5, <2>6, <1>0, <1>2
  <2>10. Firsts(pp, m) \in Seq(Q) /\ Firsts(pp, k) = Append(Firsts(pp, m), pp[k])
    <3>1. Firsts(pp, k - 1) \in Seq(Q) /\ Firsts(pp, k) = Append(Firsts(pp, k - 1), pp[k])
      BY <2>9, <1>2, FirstsNext
    <3> QED BY <3>1, <2>5, Zenon
  <2>11. FlattenSeq(Firsts(pp, k)) = FlattenSeq(Firsts(pp, m)) \o pp[k]
    BY <2>9, <2>10, <1>1, FlattenAppend
  <2>12. PICK x, y, z : x = e[0] /\ y = e[m] /\ z = e[k]
    OBVIOUS
  <2>13. x \in Nat /\ y \in Nat /\ z \in Nat /\ x <= y /\ y <= z /\ z <= Len(ss)
    BY <2>6, <2>8, <2>9, <2>12, <1>2
  <2>14. Part(ss, x, y) \o Part(ss, y, z) = Part(ss, x, z) /\ x <= z
    <3>1. Part(ss, x, y) \o Part(ss, y, z) = Part(ss, x, z)
      BY <2>13, PartsJoin
    <3>2. x <= z
      BY <2>13
    <3> QED BY <3>1, <3>2
  <2> QED BY <2>3, <2>8, <2>9, <2>11, <2>12, <2>14
<1>4. FlattenSeq(Firsts(pp, n)) = Part(ss, e[0], e[n]) /\ e[0] <= e[n]
  <2>1. n \in Nat /\ n <= n
    OBVIOUS
  <2>2. n \notin Bad
    <3> HIDE DEF Bad
    <3> QED BY <1>3
  <2> QED BY <2>1, <2>2
<1>5. Firsts(pp, n) = pp
  BY <1>0, <1>2, FirstsEnds
<1> QED BY <1>4, <1>5
=============================================================================
