----------------------------- MODULE ListingProofs -----------------------------
(***************************************************************************)
(* Lemmas about lists: what Sorted and EntriesAt of Listing return, and    *)
(* FlattenSeq of the community modules, which is recursive; and that what  *)
(* is defined by the same step, over and over, exists.  The induction goes *)
(* over a set of numbers that holds the first and, with every number, the  *)
(* next (CountUp, from a least counterexample).  At the end, lists that    *)
(* have the members of a set in the order of some number: they are joined  *)
(* to such a list, and there is one only.                                  *)
(***************************************************************************)
EXTENDS Listing, SequencesExt, FiniteSetTheorems, SequenceTheorems, WellFoundedInduction, TLAPS

-----------------------------------------------------------------------------
(* Counting.                                                               *)

\* A set of natural numbers has a least one.
LEMMA Least ==
  ASSUME NEW A \in SUBSET Nat, A # {}
  PROVE  \E n \in A : \A m \in A : n <= m
<1>1. PICK a \in A : TRUE
  OBVIOUS
<1> DEFINE R == StrictSubsetOrdering(0 .. a)
           F == {0 .. n : n \in A \cap (0 .. a)}
<1>2. IsWellFoundedOn(R, SUBSET (0 .. a))
  <2>1. IsFiniteSet(0 .. a)
    BY FS_Interval
  <2> QED BY <2>1, FS_StrictSubsetOrderingWellFounded, FS_FiniteSubsetsOfFinite
<1>3. F \subseteq SUBSET (0 .. a) /\ F # {}
  OBVIOUS
<1>4. \E M \in F : \A N \in F : <<N, M>> \notin R
  <2> HIDE DEF R, F
  <2> QED BY <1>2, <1>3, WFMin
<1>5. PICK n \in A \cap (0 .. a) : \A m \in A \cap (0 .. a) : <<0 .. m, 0 .. n>> \notin R
  BY <1>4
<1>6. ASSUME NEW m \in A, m < n PROVE FALSE
  <2>1. m \in A \cap (0 .. a) /\ (0 .. m) \subseteq (0 .. n) /\ n \in (0 .. n) /\ n \notin (0 .. m)
    BY <1>6
  <2>2. <<0 .. m, 0 .. n>> \in R
    BY <2>1 DEF StrictSubsetOrdering
  <2> QED BY <1>5, <2>1, <2>2
<1> QED BY <1>6

\* A list without duplicates that is as long as the set has all its members.
LEMMA AllListed ==
  ASSUME NEW S, IsFiniteSet(S), NEW s \in [1 .. Cardinality(S) -> S],
         \A i, j \in 1 .. Cardinality(S) : i # j => s[i] # s[j]
  PROVE  \A x \in S : \E i \in 1 .. Cardinality(S) : s[i] = x
<1> DEFINE n == Cardinality(S)
           T == {s[i] : i \in 1 .. n}
<1>1. n \in Nat /\ IsFiniteSet(1 .. n) /\ Cardinality(1 .. n) = n
  BY FS_CardinalityType, FS_Interval
<1>2. s \in Bijection(1 .. n, T)
  BY DEF Bijection, Injection, Surjection, IsInjective
<1>3. IsFiniteSet(T) /\ Cardinality(T) = n
  <2>1. ExistsBijection(1 .. n, T)
    BY <1>2 DEF ExistsBijection
  <2> HIDE DEF n, T
  <2> QED BY <1>1, <2>1, FS_Bijection
<1>4. T \subseteq S
  OBVIOUS
<1>5. T = S
  BY <1>3, <1>4, FS_Subset
<1> QED BY <1>5

\* Counting from one number to another reaches all between.
LEMMA CountUp ==
  ASSUME NEW m \in Nat, NEW n \in Nat, NEW A \in SUBSET (m .. n),
         m <= n, m \in A, \A k \in A : k < n => k + 1 \in A
  PROVE  A = m .. n
<1>1. (m .. n) \ A \in SUBSET Nat
  OBVIOUS
<1>2. ASSUME (m .. n) \ A # {} PROVE FALSE
  <2>1. PICK k \in (m .. n) \ A : \A j \in (m .. n) \ A : k <= j
    BY <1>1, <1>2, Least
  <2>2. k \in m .. n /\ k # m
    BY <2>1
  <2>3. k - 1 \in m .. n /\ ~(k <= k - 1)
    BY <2>2
  <2>4. k - 1 \in A
    BY <2>1, <2>3
  <2>5. k - 1 < n /\ (k - 1) + 1 = k
    BY <2>2
  <2> QED BY <2>1, <2>4, <2>5
<1> QED BY <1>2

-----------------------------------------------------------------------------
(* Sorted sets.                                                            *)

IsSortOf(s, S) ==
  /\ s \in [1 .. Cardinality(S) -> S] /\ \A x \in S : \E i \in 1 .. Cardinality(S) : s[i] = x
  /\ \A i, j \in 1 .. Cardinality(S) : i < j => s[i] < s[j]

\* The rank of a member is at most the number of members, and the ranks of two
\* members are as the members.
LEMMA RankFacts ==
  ASSUME NEW S \in SUBSET Nat, IsFiniteSet(S)
  PROVE  /\ \A x \in S : Rank(x, S) \in 1 .. Cardinality(S)
         /\ \A x, y \in S : Rank(x, S) < Rank(y, S) <=> x < y
<1>1. \A x \in S : /\ IsFiniteSet({m \in S : m <= x}) /\ Rank(x, S) \in Nat
                   /\ Rank(x, S) <= Cardinality(S) /\ Cardinality(S) \in Nat
  BY FS_Subset, FS_CardinalityType DEF Rank
<1>0. \A m \in S : m \in Nat
  OBVIOUS
<1>2. \A x \in S : Rank(x, S) # 0
  <2> TAKE x \in S
  <2>1. x \in {m \in S : m <= x}
    BY <1>0
  <2> QED BY <1>1, <2>1, FS_EmptySet DEF Rank
<1>3. ASSUME NEW x \in S, NEW y \in S, x <= y PROVE Rank(x, S) <= Rank(y, S)
  <2>1. \A m \in S : m <= x => m <= y
    BY <1>3, <1>0
  <2>2. {m \in S : m <= x} \subseteq {m \in S : m <= y}
    BY <2>1
  <2> QED BY <1>1, <2>2, FS_Subset DEF Rank
<1>4. ASSUME NEW x \in S, NEW y \in S, x < y PROVE Rank(x, S) # Rank(y, S)
  <2>1. \A m \in S : m <= x => m <= y
    BY <1>4, <1>0
  <2>2. y \in {m \in S : m <= y} /\ y \notin {m \in S : m <= x}
    BY <1>4, <1>0
  <2>3. {m \in S : m <= x} \subseteq {m \in S : m <= y}
    BY <2>1
  <2> QED BY <1>1, <2>2, <2>3, FS_Subset DEF Rank
<1>5. ASSUME NEW x \in S, NEW y \in S PROVE Rank(x, S) < Rank(y, S) <=> x < y
  <2>1. x \in Nat /\ y \in Nat /\ Rank(x, S) \in Nat /\ Rank(y, S) \in Nat
    BY <1>1
  <2>2. x < y => Rank(x, S) <= Rank(y, S) /\ Rank(x, S) # Rank(y, S)
    BY <1>3, <1>4, <2>1
  <2>3. ~(x < y) => Rank(y, S) <= Rank(x, S)
    BY <1>3, <2>1
  <2> QED BY <2>1, <2>2, <2>3
<1>6. ASSUME NEW x \in S PROVE Rank(x, S) \in 1 .. Cardinality(S)
  <2>1. /\ Rank(x, S) \in Nat /\ Rank(x, S) <= Cardinality(S) /\ Cardinality(S) \in Nat
        /\ Rank(x, S) # 0
    BY <1>1, <1>2
  <2> QED BY <2>1
<1> QED BY <1>5, <1>6

\* Sorted lists the members of a set of numbers in order.
LEMMA SortedFacts ==
  ASSUME NEW S \in SUBSET Nat, IsFiniteSet(S)
  PROVE  IsSortOf(Sorted(S), S)
<1> DEFINE n == Cardinality(S)
           rank == [x \in S |-> Rank(x, S)]
           s == Sorted(S)
<1>1. n \in Nat /\ IsFiniteSet(1 .. n) /\ Cardinality(1 .. n) = n
  BY FS_CardinalityType, FS_Interval
<1> HIDE DEF n
<1>2. \A x \in S : Rank(x, S) \in 1 .. n
  BY RankFacts DEF n
<1>3. \A x, y \in S : Rank(x, S) < Rank(y, S) <=> x < y
  BY RankFacts
<1>4. rank \in Injection(S, 1 .. n)
  <2>1. rank \in [S -> 1 .. n]
    BY <1>2
  <2>2. ASSUME NEW x \in S, NEW y \in S, rank[x] = rank[y] PROVE x = y
    <3>1. x \in Nat /\ y \in Nat /\ Rank(x, S) = Rank(y, S) /\ Rank(x, S) \in Nat
      BY <1>2, <2>2
    <3> QED BY <1>3, <3>1
  <2> QED BY <2>1, <2>2 DEF Injection, IsInjective
<1>5. rank \in Surjection(S, 1 .. n)
  <2> HIDE DEF rank
  <2> QED BY <1>1, <1>4, FS_Injection DEF n
<1>6. \A k \in 1 .. n : \E x \in S : Rank(x, S) = k
  BY <1>5 DEF Surjection
<1>7. s = [k \in 1 .. n |-> CHOOSE x \in S : Rank(x, S) = k]
  BY DEF Sorted, n
<1> HIDE DEF s
<1>8. \A k \in 1 .. n : s[k] \in S /\ Rank(s[k], S) = k
  BY <1>6, <1>7
<1>9. s \in [1 .. n -> S]
  BY <1>7, <1>8
<1>10. ASSUME NEW x \in S PROVE \E k \in 1 .. n : s[k] = x
  <2>1. Rank(x, S) \in 1 .. n /\ s[Rank(x, S)] \in S /\ Rank(s[Rank(x, S)], S) = Rank(x, S)
    BY <1>2, <1>8
  <2>2. x \in Nat /\ s[Rank(x, S)] \in Nat
    BY <2>1
  <2>3. Rank(x, S) \in Nat
    BY <1>1, <2>1
  <2>4. s[Rank(x, S)] = x
    BY <1>3, <2>1, <2>2, <2>3
  <2> QED BY <2>1, <2>4
<1>11. \A i, j \in 1 .. n : i < j => s[i] < s[j]
  BY <1>3, <1>8
<1> QED BY <1>9, <1>10, <1>11 DEF IsSortOf, n, s

\* EntriesAt lists the entries at the positions, in their order.
LEMMA EntriesAtFacts ==
  ASSUME NEW E, NEW s \in Seq(E), NEW P \in SUBSET DOMAIN s, NEW t, t = EntriesAt(s, P)
  PROVE  /\ t \in Seq(E)
         /\ \A k \in DOMAIN t : \E i \in P : t[k] = s[i]
         /\ \A i \in P : \E k \in DOMAIN t : t[k] = s[i]
         /\ \A k, l \in DOMAIN t : k # l => \E i, j \in P : i # j /\ t[k] = s[i] /\ t[l] = s[j]
<1> DEFINE n == Cardinality(P)
           sorted == Sorted(P)
<1>1. DOMAIN s = 1 .. Len(s) /\ Len(s) \in Nat /\ \A i \in DOMAIN s : s[i] \in E
  OBVIOUS
<1>2. P \in SUBSET Nat /\ IsFiniteSet(P) /\ n \in Nat
  <2>1. P \in SUBSET (1 .. Len(s)) /\ IsFiniteSet(1 .. Len(s))
    BY <1>1, FS_Interval
  <2>2. IsFiniteSet(P)
    BY <2>1, FS_Subset
  <2> QED BY <2>1, <2>2, FS_CardinalityType
<1>3. IsSortOf(sorted, P)
  BY <1>2, SortedFacts
<1> HIDE DEF sorted, n
<1>4. /\ sorted \in [1 .. n -> P] /\ \A x \in P : \E i \in 1 .. n : sorted[i] = x
      /\ \A i, j \in 1 .. n : i < j => sorted[i] < sorted[j]
  BY <1>3 DEF IsSortOf, n
<1>5. t = [k \in 1 .. n |-> s[sorted[k]]]
  BY <1>4 DEF EntriesAt, sorted
<1>6. t \in Seq(E)
  <2>1. t \in [1 .. n -> E]
    BY <1>1, <1>4, <1>5
  <2> QED BY <1>2, <2>1, SeqDef
<1>7. DOMAIN t = 1 .. n /\ \A k \in 1 .. n : sorted[k] \in P /\ t[k] = s[sorted[k]]
  BY <1>4, <1>5
<1>8. ASSUME NEW k \in 1 .. n, NEW l \in 1 .. n, k # l PROVE sorted[k] # sorted[l]
  <2>1. k < l \/ l < k
    BY <1>2, <1>8
  <2>2. sorted[k] \in Nat /\ sorted[l] \in Nat
    BY <1>2, <1>4
  <2> QED BY <1>4, <2>1, <2>2
<1>9. \A i \in P : \E k \in 1 .. n : t[k] = s[i]
  BY <1>4, <1>7
<1> QED BY <1>6, <1>7, <1>8, <1>9

-----------------------------------------------------------------------------
(* Flattened sequences.                                                    *)

\* The sequence f has the first n sequences of ss joined, and one fewer, and so on.
JoinsTo(f, ss, n) == \A i \in 1 .. n : f[i] = IF i = 1 THEN ss[i] ELSE f[i - 1] \o ss[i]

\* What FlattenSeq defines by recursion exists.
LEMMA JoinsExist ==
  ASSUME NEW S, NEW ss \in Seq(Seq(S)), Len(ss) # 0
  PROVE  \E f \in [1 .. Len(ss) -> Seq(S)] : JoinsTo(f, ss, Len(ss))
<1> DEFINE N == Len(ss)
           A == {n \in 1 .. N : \E f \in [1 .. n -> Seq(S)] : JoinsTo(f, ss, n)}
<1>1. N \in Nat /\ 1 <= N /\ \A i \in 1 .. N : ss[i] \in Seq(S)
  OBVIOUS
<1> HIDE DEF N
<1>2. 1 \in A
  <2> DEFINE f == [i \in 1 .. 1 |-> ss[i]]
  <2>1. f \in [1 .. 1 -> Seq(S)] /\ JoinsTo(f, ss, 1)
    BY <1>1 DEF JoinsTo
  <2> HIDE DEF f
  <2> QED BY <1>1, <2>1
<1>3. ASSUME NEW n \in A, n < N PROVE n + 1 \in A
  <2>1. n \in 1 .. N
    OBVIOUS
  <2>2. PICK f \in [1 .. n -> Seq(S)] : JoinsTo(f, ss, n)
    OBVIOUS
  <2> DEFINE g == [i \in 1 .. n + 1 |-> IF i = n + 1 THEN f[n] \o ss[n + 1] ELSE f[i]]
  <2>3. n + 1 \in 1 .. N /\ n + 1 # 1 /\ f[n] \in Seq(S) /\ ss[n + 1] \in Seq(S)
    BY <1>1, <1>3, <2>1, <2>2
  <2>4. f[n] \o ss[n + 1] \in Seq(S)
    BY <2>3, ConcatProperties
  <2>5. ASSUME NEW i \in 1 .. n PROVE g[i] = f[i] /\ f[i] \in Seq(S)
    BY <1>1, <2>1, <2>2
  <2>6. g[n + 1] = f[n] \o ss[n + 1]
    BY <1>1, <2>1
  <2>7. n + 1 \in 1 .. n + 1 /\ \A i \in 1 .. n + 1 : i = n + 1 \/ i \in 1 .. n
    BY <1>1, <2>1
  <2>8. g = [i \in 1 .. n + 1 |-> g[i]]
    OBVIOUS
  <2> HIDE DEF g
  <2>9. g \in [1 .. n + 1 -> Seq(S)]
    BY <2>4, <2>5, <2>6, <2>7, <2>8
  <2>10. ASSUME NEW i \in 1 .. n + 1 PROVE g[i] = IF i = 1 THEN ss[i] ELSE g[i - 1] \o ss[i]
    <3>1. CASE i = n + 1
      <4>1. i - 1 = n /\ n \in 1 .. n /\ i # 1
        BY <1>1, <2>1, <3>1
      <4> QED BY <2>5, <2>6, <3>1, <4>1
    <3>2. CASE i # n + 1
      <4>1. i \in 1 .. n /\ (i # 1 => i - 1 \in 1 .. n)
        BY <1>1, <2>1, <3>2
      <4>2. f[i] = IF i = 1 THEN ss[i] ELSE f[i - 1] \o ss[i]
        BY <2>2, <4>1 DEF JoinsTo
      <4> QED BY <2>5, <4>1, <4>2
    <3> QED BY <3>1, <3>2
  <2> QED BY <2>3, <2>9, <2>10 DEF JoinsTo
<1>4. A = 1 .. N
  <2> HIDE DEF A
  <2>1. A \in SUBSET (1 .. N)
    BY DEF A
  <2> QED BY <1>1, <1>2, <1>3, <2>1, CountUp
<1>5. N \in A
  <2>1. N \in 1 .. N
    BY <1>1
  <2> QED BY <1>4, <2>1
<1> QED BY <1>5 DEF N

\* The beginnings of a flattened sequence, from none to all of its parts.
IsJoin(f, ss, S) ==
  /\ f \in [0 .. Len(ss) -> Seq(S)] /\ f[0] = <<>>
  /\ \A i \in 1 .. Len(ss) : f[i] = f[i - 1] \o ss[i]

\* FlattenSeq joins all the parts.
LEMMA FlattenJoins ==
  ASSUME NEW S, NEW ss \in Seq(Seq(S))
  PROVE  \E f : IsJoin(f, ss, S) /\ FlattenSeq(ss) = f[Len(ss)]
<1>1. Len(ss) \in Nat /\ \A i \in 1 .. Len(ss) : ss[i] \in Seq(S)
  OBVIOUS
<1>2. <<>> \in Seq(S)
  BY EmptySeq
<1>3. CASE Len(ss) = 0
  <2>1. FlattenSeq(ss) = <<>>
    BY <1>3 DEF FlattenSeq
  <2> DEFINE f == [i \in 0 .. 0 |-> <<>>]
  <2>2. IsJoin(f, ss, S) /\ f[Len(ss)] = <<>>
    BY <1>2, <1>3 DEF IsJoin
  <2> HIDE DEF f
  <2> QED BY <2>1, <2>2
<1>4. CASE Len(ss) # 0
  <2> DEFINE Step(f) == [i \in 1 .. Len(ss) |-> IF i = 1 THEN ss[i] ELSE f[i - 1] \o ss[i]]
             F == CHOOSE f : f = Step(f)
  <2>1. FlattenSeq(ss) = F[Len(ss)]
    BY <1>4 DEF FlattenSeq
  <2>2. PICK f \in [1 .. Len(ss) -> Seq(S)] : JoinsTo(f, ss, Len(ss))
    BY <1>4, JoinsExist
  <2>3. f = Step(f)
    BY <2>2 DEF JoinsTo
  <2>4. F = Step(F)
    BY <2>3
  <2> HIDE DEF F
  <2>5. /\ F = [i \in 1 .. Len(ss) |-> F[i]]
        /\ \A i \in 1 .. Len(ss) : F[i] = IF i = 1 THEN ss[i] ELSE F[i - 1] \o ss[i]
    <3> DEFINE G == Step(F)
    <3>1. /\ G = [i \in 1 .. Len(ss) |-> G[i]]
          /\ \A i \in 1 .. Len(ss) : G[i] = IF i = 1 THEN ss[i] ELSE F[i - 1] \o ss[i]
      OBVIOUS
    <3>2. F = G
      BY <2>4
    <3> HIDE DEF G
    <3> QED BY <3>1, <3>2
  <2>6. 1 \in 1 .. Len(ss) /\ F[1] = ss[1] /\ ss[1] \in Seq(S)
    <3>1. 1 \in 1 .. Len(ss)
      BY <1>1, <1>4
    <3> QED BY <1>1, <2>5, <3>1
  <2>7. \A i \in 1 .. Len(ss) : F[i] \in Seq(S)
    <3> DEFINE A == {i \in 1 .. Len(ss) : F[i] \in Seq(S)}
    <3>1. 1 \in A /\ 1 <= Len(ss)
      BY <1>1, <2>6
    <3>2. ASSUME NEW i \in A, i < Len(ss) PROVE i + 1 \in A
      <4>1. i + 1 \in 1 .. Len(ss) /\ i + 1 # 1 /\ (i + 1) - 1 = i
        BY <1>1, <3>2
      <4>2. F[i + 1] = F[i] \o ss[i + 1]
        BY <2>5, <4>1
      <4>3. F[i] \in Seq(S) /\ ss[i + 1] \in Seq(S)
        BY <1>1, <4>1
      <4>4. F[i] \o ss[i + 1] \in Seq(S)
        BY <4>3, ConcatProperties
      <4> QED BY <4>1, <4>2, <4>4
    <3>3. A \in SUBSET (1 .. Len(ss))
      OBVIOUS
    <3> HIDE DEF A
    <3>4. A = 1 .. Len(ss)
      BY <1>1, <3>1, <3>2, <3>3, CountUp
    <3> QED BY <3>4 DEF A
  <2> DEFINE g == [i \in 0 .. Len(ss) |-> IF i = 0 THEN <<>> ELSE F[i]]
  <2>8. g[0] = <<>> /\ \A i \in 1 .. Len(ss) : g[i] = F[i]
    BY <1>1
  <2>9. g \in [0 .. Len(ss) -> Seq(S)]
    BY <1>1, <1>2, <2>7
  <2> HIDE DEF g
  <2>10. ASSUME NEW i \in 1 .. Len(ss) PROVE g[i] = g[i - 1] \o ss[i]
    <3>1. CASE i = 1
      <4>1. i - 1 = 0 /\ ss[i] \in Seq(S) /\ g[i] = ss[i]
        BY <2>6, <2>8, <3>1
      <4>2. <<>> \o ss[i] = ss[i]
        BY <4>1, ConcatEmptySeq
      <4> QED BY <2>8, <4>1, <4>2
    <3>2. CASE i # 1
      <4>1. i - 1 \in 1 .. Len(ss)
        BY <1>1, <3>2
      <4> QED BY <2>5, <2>8, <3>2, <4>1
    <3> QED BY <3>1, <3>2
  <2>11. Len(ss) \in 1 .. Len(ss)
    BY <1>1, <1>4
  <2> QED BY <2>1, <2>8, <2>9, <2>10, <2>11 DEF IsJoin
<1> QED BY <1>3, <1>4

\* The entries of t are those of the first n parts of ss, each once, in the
\* order of the parts.
Lists(t, ss, n) ==
  /\ \A p \in 1 .. Len(t) : \E i \in 1 .. n : t[p] \in ToSet(ss[i])
  /\ \A i \in 1 .. n : \A x \in ToSet(ss[i]) : \E p \in 1 .. Len(t) : t[p] = x
  /\ \A p, q \in 1 .. Len(t) : p < q =>
       /\ t[p] # t[q]
       /\ \A i, j \in 1 .. n : t[p] \in ToSet(ss[i]) /\ t[q] \in ToSet(ss[j]) => i <= j

\* No part has an entry twice, and no two parts share one.
Apart(ss) ==
  /\ \A i \in 1 .. Len(ss) : IsInjective(ss[i])
  /\ \A i, j \in 1 .. Len(ss) : i # j => ToSet(ss[i]) \cap ToSet(ss[j]) = {}

\* With one more part joined.
LEMMA ListsMore ==
  ASSUME NEW S, NEW ss \in Seq(Seq(S)), Apart(ss), NEW n \in Nat, n < Len(ss),
         NEW t \in Seq(S), Lists(t, ss, n)
  PROVE  Lists(t \o ss[n + 1], ss, n + 1)
<1> DEFINE b == ss[n + 1]
           u == t \o b
<1>1. n + 1 \in 1 .. Len(ss) /\ b \in Seq(S) /\ IsInjective(b)
  BY DEF Apart
<1> HIDE DEF b
<1>2. /\ Len(t) \in Nat /\ Len(b) \in Nat /\ DOMAIN b = 1 .. Len(b)
      /\ Len(u) = Len(t) + Len(b)
      /\ \A p \in 1 .. Len(t) + Len(b) : u[p] = IF p <= Len(t) THEN t[p] ELSE b[p - Len(t)]
  BY <1>1, ConcatProperties, LenProperties
<1> HIDE DEF u
<1>3. ASSUME NEW p \in 1 .. Len(u)
      PROVE  \/ p \in 1 .. Len(t) /\ u[p] = t[p] /\ \E i \in 1 .. n : u[p] \in ToSet(ss[i])
             \/ p > Len(t) /\ p - Len(t) \in 1 .. Len(b) /\ u[p] = b[p - Len(t)] /\ u[p] \in ToSet(b)
  <2>1. CASE p <= Len(t)
    <3>1. p \in 1 .. Len(t) /\ u[p] = t[p]
      BY <1>2, <2>1
    <3> QED BY <3>1 DEF Lists
  <2>2. CASE ~(p <= Len(t))
    <3>1. p > Len(t) /\ p - Len(t) \in 1 .. Len(b) /\ u[p] = b[p - Len(t)]
      BY <1>2, <2>2
    <3> QED BY <1>2, <3>1 DEF ToSet
  <2> QED BY <2>1, <2>2
<1>4. \A i \in 1 .. n + 1 : i \in 1 .. Len(ss) /\ (i \in 1 .. n \/ i = n + 1)
  BY <1>1
<1>5. ASSUME NEW i \in 1 .. n + 1, NEW x \in ToSet(ss[i]) PROVE \E p \in 1 .. Len(u) : u[p] = x
  <2>1. CASE i \in 1 .. n
    <3>1. PICK p \in 1 .. Len(t) : t[p] = x
      BY <2>1 DEF Lists
    <3>2. p \in 1 .. Len(t) + Len(b) /\ p <= Len(t)
      BY <1>2
    <3>3. p \in 1 .. Len(u) /\ u[p] = t[p]
      BY <1>2, <3>2
    <3> QED BY <3>1, <3>3
  <2>2. CASE i = n + 1
    <3>1. PICK p \in 1 .. Len(b) : b[p] = x
      BY <1>2, <2>2 DEF ToSet, b
    <3>2. /\ Len(t) + p \in 1 .. Len(u) /\ ~(Len(t) + p <= Len(t)) /\ (Len(t) + p) - Len(t) = p
          /\ Len(t) + p \in 1 .. Len(t) + Len(b)
      BY <1>2
    <3>3. u[Len(t) + p] = b[p]
      BY <1>2, <3>2
    <3> QED BY <3>1, <3>2, <3>3
  <2> QED BY <1>4, <2>1, <2>2
<1>6. ASSUME NEW i \in 1 .. n PROVE ToSet(ss[i]) \cap ToSet(b) = {}
  <2>1. i \in 1 .. Len(ss) /\ i # n + 1
    BY <1>1
  <2> QED BY <1>1, <2>1 DEF Apart, b
<1>7. ASSUME NEW p \in 1 .. Len(u), NEW q \in 1 .. Len(u), p < q
      PROVE  /\ u[p] # u[q]
             /\ \A i, j \in 1 .. n + 1 : u[p] \in ToSet(ss[i]) /\ u[q] \in ToSet(ss[j]) => i <= j
  <2>1. CASE q <= Len(t)
    <3>1. p \in 1 .. Len(t) /\ q \in 1 .. Len(t) /\ u[p] = t[p] /\ u[q] = t[q]
      BY <1>2, <1>7, <2>1
    <3>2. /\ u[p] # u[q]
          /\ \A i, j \in 1 .. n : u[p] \in ToSet(ss[i]) /\ u[q] \in ToSet(ss[j]) => i <= j
      BY <1>7, <3>1 DEF Lists
    <3>3. u[p] \notin ToSet(b) /\ u[q] \notin ToSet(b)
      BY <1>6, <3>1 DEF Lists
    <3> QED BY <1>4, <3>2, <3>3 DEF b
  <2>2. CASE p <= Len(t) /\ q > Len(t)
    <3>1. u[q] \in ToSet(b) /\ \E i \in 1 .. n : u[p] \in ToSet(ss[i])
      <4>1. ~(p > Len(t))
        BY <1>2, <2>2
      <4>2. q \notin 1 .. Len(t)
        BY <1>2, <2>2
      <4> QED BY <1>3, <4>1, <4>2
    <3>2. u[p] \notin ToSet(b) /\ \A j \in 1 .. n : u[q] \notin ToSet(ss[j])
      BY <1>6, <3>1
    <3>3. ASSUME NEW i \in 1 .. n + 1, NEW j \in 1 .. n + 1,
                 u[p] \in ToSet(ss[i]), u[q] \in ToSet(ss[j])
          PROVE  i <= j
      BY <1>4, <3>2, <3>3 DEF b
    <3> QED BY <3>1, <3>2, <3>3
  <2>3. CASE p > Len(t)
    <3>1. /\ p - Len(t) \in 1 .. Len(b) /\ q - Len(t) \in 1 .. Len(b) /\ p - Len(t) # q - Len(t)
          /\ u[p] = b[p - Len(t)] /\ u[q] = b[q - Len(t)]
      <4>1. p \in Nat /\ q \in Nat /\ p \in 1 .. Len(t) + Len(b) /\ q \in 1 .. Len(t) + Len(b)
        BY <1>2
      <4>2. ~(p <= Len(t)) /\ ~(q <= Len(t)) /\ p # q
        BY <1>2, <1>7, <2>3, <4>1
      <4>3. p - Len(t) \in 1 .. Len(b) /\ q - Len(t) \in 1 .. Len(b) /\ p - Len(t) # q - Len(t)
        BY <1>2, <4>1, <4>2
      <4>4. u[p] = b[p - Len(t)] /\ u[q] = b[q - Len(t)]
        BY <1>2, <4>1, <4>2
      <4> QED BY <4>3, <4>4
    <3>2. u[p] # u[q] /\ u[p] \in ToSet(b) /\ u[q] \in ToSet(b)
      BY <1>1, <1>2, <3>1 DEF IsInjective, ToSet
    <3>3. \A i \in 1 .. n : u[p] \notin ToSet(ss[i]) /\ u[q] \notin ToSet(ss[i])
      BY <1>6, <3>2
    <3>4. ASSUME NEW i \in 1 .. n + 1, NEW j \in 1 .. n + 1,
                 u[p] \in ToSet(ss[i]), u[q] \in ToSet(ss[j])
          PROVE  i <= j
      BY <1>4, <3>3, <3>4
    <3> QED BY <3>2, <3>4
  <2> QED BY <1>2, <1>7, <2>1, <2>2, <2>3
<1>8. ASSUME NEW p \in 1 .. Len(u) PROVE \E i \in 1 .. n + 1 : u[p] \in ToSet(ss[i])
  <2>1. n + 1 \in 1 .. n + 1 /\ \A i \in 1 .. n : i \in 1 .. n + 1
    OBVIOUS
  <2> QED BY <1>3, <2>1 DEF b
<1> QED BY <1>5, <1>7, <1>8 DEF Lists, u, b

\* A flattened sequence has the entries of all its parts, each once, those of an
\* earlier part before those of a later one.
LEMMA FlattenLists ==
  ASSUME NEW S, NEW ss \in Seq(Seq(S)), Apart(ss)
  PROVE  FlattenSeq(ss) \in Seq(S) /\ Lists(FlattenSeq(ss), ss, Len(ss))
<1>1. PICK f : IsJoin(f, ss, S) /\ FlattenSeq(ss) = f[Len(ss)]
  BY FlattenJoins
<1> DEFINE N == Len(ss)
           A == {n \in 0 .. N : Lists(f[n], ss, n)}
<1>2. N \in Nat
  OBVIOUS
<1>3. f \in [0 .. N -> Seq(S)] /\ f[0] = <<>> /\ \A i \in 1 .. N : f[i] = f[i - 1] \o ss[i]
  BY <1>1 DEF IsJoin
<1> HIDE DEF N
<1>4. 0 \in A
  <2>1. Lists(<<>>, ss, 0)
    BY DEF Lists
  <2> QED BY <1>2, <1>3, <2>1
<1>5. ASSUME NEW n \in A, n < N PROVE n + 1 \in A
  <2> n \in 0 .. N
    OBVIOUS
  <2> HIDE DEF A
  <2>5. n \in Nat /\ n + 1 \in 1 .. N /\ (n + 1) - 1 = n
    BY <1>2, <1>5
  <2>6. f[n] \in Seq(S)
    BY <1>3
  <2>7. n < Len(ss)
    BY <1>5 DEF N
  <2>1. n \in Nat /\ n + 1 \in 1 .. N /\ (n + 1) - 1 = n /\ f[n] \in Seq(S) /\ n < Len(ss)
    BY <2>5, <2>6, <2>7
  <2>2. Lists(f[n] \o ss[n + 1], ss, n + 1)
    BY <2>1, ListsMore DEF A
  <2>3. f[n + 1] = f[n] \o ss[n + 1]
    BY <1>3, <2>1
  <2>4. n + 1 \in 0 .. N
    BY <1>2, <2>1
  <2> QED BY <2>2, <2>3, <2>4 DEF A
<1>6. A \in SUBSET (0 .. N)
  OBVIOUS
<1>7. A = 0 .. N
  <2> HIDE DEF A
  <2>1. 0 \in Nat /\ 0 <= N
    BY <1>2
  <2> QED BY <1>2, <1>4, <1>5, <1>6, <2>1, CountUp
<1>8. N \in 0 .. N
  BY <1>2
<1>9. N \in A
  BY <1>7, <1>8
<1> QED BY <1>1, <1>3, <1>8, <1>9 DEF N

\* Empty parts can be left out.
LEMMA FlattenKept ==
  ASSUME NEW S, NEW ss \in Seq(Seq(S)),
         NEW kept, IsSortOf(kept, {i \in 1 .. Len(ss) : ss[i] # <<>>})
  PROVE  FlattenSeq([k \in DOMAIN kept |-> ss[kept[k]]]) = FlattenSeq(ss)
<1> DEFINE N == Len(ss)
           K == {i \in 1 .. N : ss[i] # <<>>}
           m == Cardinality(K)
           gs == [k \in DOMAIN kept |-> ss[kept[k]]]
<1>1. N \in Nat /\ \A i \in 1 .. N : ss[i] \in Seq(S)
  OBVIOUS
<1>2. m \in Nat
  <2>1. IsFiniteSet(1 .. N) /\ K \in SUBSET (1 .. N)
    BY <1>1, FS_Interval
  <2> QED BY <2>1, FS_Subset, FS_CardinalityType
<1>3. /\ kept \in [1 .. m -> K] /\ \A i \in K : \E k \in 1 .. m : kept[k] = i
      /\ \A k, l \in 1 .. m : k < l => kept[k] < kept[l]
  BY DEF IsSortOf
<1> HIDE DEF m
<1>4. gs = [k \in 1 .. m |-> ss[kept[k]]]
  BY <1>3
<1>5. \A k \in 1 .. m : kept[k] \in 1 .. N /\ kept[k] \in K /\ gs[k] = ss[kept[k]] /\ gs[k] \in Seq(S)
  BY <1>1, <1>3
<1>6. gs \in Seq(Seq(S)) /\ Len(gs) = m
  <2>1. gs \in [1 .. m -> Seq(S)]
    BY <1>4, <1>5
  <2> HIDE DEF gs
  <2> QED BY <1>2, <2>1
<1>7. PICK f : IsJoin(f, ss, S) /\ FlattenSeq(ss) = f[N]
  BY FlattenJoins
<1>8. PICK g : IsJoin(g, gs, S) /\ FlattenSeq(gs) = g[m]
  BY <1>6, FlattenJoins
<1>9. /\ f \in [0 .. N -> Seq(S)] /\ f[0] = <<>> /\ \A i \in 1 .. N : f[i] = f[i - 1] \o ss[i]
      /\ g[0] = <<>> /\ \A k \in 1 .. m : g[k] = g[k - 1] \o gs[k]
  BY <1>6, <1>7, <1>8 DEF IsJoin
<1> HIDE DEF gs, N

\* Of the first n parts k are kept.
<1> DEFINE Upto(n, k) == /\ \A l \in 1 .. m : l <= k <=> kept[l] <= n
                         /\ f[n] = g[k]
           A == {n \in 0 .. N : \E k \in 0 .. m : Upto(n, k)}
<1>10. 0 \in A
  <2>1. \A l \in 1 .. m : ~(l <= 0) /\ ~(kept[l] <= 0)
    BY <1>1, <1>2, <1>5
  <2>2. Upto(0, 0) /\ 0 \in 0 .. m /\ 0 \in 0 .. N
    BY <1>1, <1>2, <1>9, <2>1
  <2> HIDE DEF Upto
  <2> QED BY <2>2
<1>11. ASSUME NEW n \in A, n < N PROVE n + 1 \in A
  <2>1. n \in 0 .. N /\ n + 1 \in 1 .. N /\ (n + 1) - 1 = n /\ n + 1 \in 0 .. N
    BY <1>1, <1>11
  <2>2. PICK k \in 0 .. m : Upto(n, k)
    OBVIOUS
  <2>3. f[n + 1] = f[n] \o ss[n + 1] /\ f[n] \in Seq(S)
    BY <1>9, <2>1
  <2>4. CASE n + 1 \notin K
    <3>1. ss[n + 1] = <<>>
      BY <2>1, <2>4
    <3>2. f[n + 1] = f[n]
      BY <2>3, <3>1, ConcatEmptySeq
    <3>3. \A l \in 1 .. m : kept[l] <= n <=> kept[l] <= n + 1
      BY <1>1, <1>5, <2>1, <2>4
    <3>4. Upto(n + 1, k)
      BY <2>2, <3>2, <3>3
    <3> HIDE DEF Upto
    <3> QED BY <2>1, <3>4
  <2>5. CASE n + 1 \in K
    <3>1. PICK j \in 1 .. m : kept[j] = n + 1
      BY <1>3, <2>5
    <3>2. \A l \in 1 .. m : kept[l] \in Nat /\ (kept[l] <= n + 1 <=> l <= j)
      BY <1>1, <1>2, <1>3, <1>5, <3>1
    <3>3. \A l \in 1 .. m : l <= k <=> kept[l] <= n
      BY <2>2
    <3>4. ~(j <= k)
      BY <2>1, <3>1, <3>3
    <3>5. j = k + 1
      <4>1. SUFFICES ASSUME k + 1 < j PROVE FALSE
        BY <1>2, <3>4
      <4>2. k + 1 \in 1 .. m /\ ~(k + 1 <= k)
        BY <1>2, <4>1
      <4>3. kept[k + 1] < n + 1 /\ ~(kept[k + 1] <= n) /\ kept[k + 1] \in Nat
        BY <1>3, <3>1, <3>2, <3>3, <4>1, <4>2
      <4> QED BY <2>1, <4>3
    <3>6. g[j] = g[k] \o ss[n + 1]
      <4>1. j - 1 = k
        BY <1>2, <3>5
      <4> QED BY <1>5, <1>9, <3>1, <4>1
    <3>7. f[n] = g[k]
      BY <2>2
    <3>8. Upto(n + 1, j)
      BY <2>3, <3>2, <3>6, <3>7
    <3>9. j \in 0 .. m
      BY <1>2
    <3> HIDE DEF Upto
    <3> QED BY <2>1, <3>8, <3>9
  <2> QED BY <2>4, <2>5
<1>12. A = 0 .. N
  <2>1. A \in SUBSET (0 .. N) /\ 0 \in Nat /\ 0 <= N
    BY <1>1
  <2> HIDE DEF A
  <2> QED BY <1>1, <1>10, <1>11, <2>1, CountUp
<1>13. N \in A
  <2> HIDE DEF A
  <2> QED BY <1>1, <1>12
<1>14. PICK k \in 0 .. m : Upto(N, k)
  BY <1>13
<1>15. k = m
  <2>1. SUFFICES ASSUME k < m PROVE FALSE
    BY <1>2
  <2>2. m \in 1 .. m /\ ~(m <= k)
    BY <1>2, <2>1
  <2>3. kept[m] <= N
    BY <1>1, <1>5, <2>2
  <2> QED BY <1>14, <2>2, <2>3
<1> QED BY <1>7, <1>8, <1>14, <1>15 DEF gs

-----------------------------------------------------------------------------
(* Steps, and parts of a sequence.                                         *)

\* A function with a first value and the same step from every value to the next.
Steps(f, S, first, n, step) ==
  f \in [0 .. n -> S] /\ f[0] = first /\ \A i \in 1 .. n : f[i] = step[f[i - 1]]

\* There is one for every step.
LEMMA StepsExist ==
  ASSUME NEW S, NEW first \in S, NEW n \in Nat, NEW step \in [S -> S]
  PROVE  \E f : Steps(f, S, first, n, step)
<1> DEFINE IsUpTo(f, m) == /\ f \in [0 .. m -> S] /\ f[0] = first
                           /\ \A i \in 1 .. m : f[i] = step[f[i - 1]]
           A == {m \in 0 .. n : \E f : IsUpTo(f, m)}
<1>1. 0 \in A
  <2> DEFINE f == [i \in 0 .. 0 |-> first]
  <2>1. IsUpTo(f, 0)
    OBVIOUS
  <2> HIDE DEF f, IsUpTo
  <2> QED BY <2>1
<1>2. ASSUME NEW m \in A, m < n PROVE m + 1 \in A
  <2>1. m \in Nat /\ m + 1 \in 0 .. n /\ m \in 0 .. m
    BY <1>2
  <2>2. PICK f : IsUpTo(f, m)
    OBVIOUS
  <2> DEFINE g == [i \in 0 .. m + 1 |-> IF i = m + 1 THEN step[f[m]] ELSE f[i]]
  <2>3. f[m] \in S /\ \A i \in 0 .. m : f[i] \in S
    BY <2>1, <2>2
  <2>4. /\ \A i \in 0 .. m : i \in 0 .. m + 1 /\ i # m + 1
        /\ \A i \in 0 .. m + 1 : i \in 0 .. m \/ i = m + 1
        /\ m + 1 \in 0 .. m + 1 /\ 0 \in 0 .. m
    BY <2>1
  <2>5. (\A i \in 0 .. m : g[i] = f[i]) /\ g[m + 1] = step[f[m]]
    BY <2>4
  <2>6. g \in [0 .. m + 1 -> S]
    BY <2>3
  <2> HIDE DEF g
  <2>7. ASSUME NEW i \in 1 .. m + 1 PROVE g[i] = step[g[i - 1]]
    <3>1. CASE i = m + 1
      <4>1. i - 1 = m
        BY <2>1, <3>1
      <4> QED BY <2>1, <2>5, <3>1, <4>1
    <3>2. CASE i # m + 1
      <4>1. i \in 1 .. m /\ i \in 0 .. m /\ i - 1 \in 0 .. m
        BY <2>1, <3>2
      <4> QED BY <2>2, <2>5, <4>1
    <3> QED BY <3>1, <3>2
  <2>8. g[0] = first
    BY <2>2, <2>4, <2>5
  <2>9. IsUpTo(g, m + 1)
    BY <2>6, <2>7, <2>8
  <2> HIDE DEF IsUpTo
  <2> QED BY <2>1, <2>9
<1>3. A \in SUBSET (0 .. n) /\ n \in 0 .. n
  OBVIOUS
<1> HIDE DEF A, IsUpTo
<1>4. A = 0 .. n
  BY <1>1, <1>2, <1>3, CountUp
<1>5. PICK f : IsUpTo(f, n)
  BY <1>3, <1>4 DEF A
<1> QED BY <1>5 DEF IsUpTo, Steps

\* Two functions take the same step where they were the same.
StepAlike(f, g, n) == \A i \in 1 .. n : f[i - 1] = g[i - 1] => f[i] = g[i]

\* What is the same at first and stays so step by step is the same all along.
LEMMA SameSteps ==
  ASSUME NEW n \in Nat, NEW f, NEW g, f[0] = g[0], StepAlike(f, g, n)
  PROVE  \A i \in 0 .. n : f[i] = g[i]
<1> DEFINE A == {i \in 0 .. n : f[i] = g[i]}
<1>1. 0 \in A
  OBVIOUS
<1>2. ASSUME NEW i \in A, i < n PROVE i + 1 \in A
  <2>1. i + 1 \in 1 .. n /\ (i + 1) - 1 = i /\ i + 1 \in 0 .. n
    BY <1>2
  <2> QED BY <2>1 DEF StepAlike
<1>3. A \in SUBSET (0 .. n) /\ 0 \in Nat /\ 0 <= n
  OBVIOUS
<1> HIDE DEF A
<1>4. A = 0 .. n
  BY <1>1, <1>2, <1>3, CountUp
<1> QED BY <1>4 DEF A

\* A sequence is what another has after some place and up to another.
IsMiddle(b, s, l, a, S) ==
  /\ b \in Seq(S) /\ Len(b) = a - l /\ a - l \in Nat
  /\ \A m \in 1 .. a - l : b[m] = s[l + m]

\* SubSeq takes it.
LEMMA Middle ==
  ASSUME NEW S, NEW s \in Seq(S), NEW l \in Nat, NEW a \in Nat, l <= a, a <= Len(s)
  PROVE  IsMiddle(SubSeq(s, l + 1, a), s, l, a, S)
<1>0. PICK b : b = SubSeq(s, l + 1, a)
  OBVIOUS
<1>1. \A j \in l + 1 .. a : s[j] \in S
  OBVIOUS
<1>2. l + 1 \in Int /\ a \in Int
  OBVIOUS
<1>3. PICK k : k = l + 1
  OBVIOUS
<1>4. k \in Int /\ b = SubSeq(s, k, a) /\ \A j \in k .. a : s[j] \in S
  BY <1>0, <1>1, <1>2, <1>3
<1>5. /\ SubSeq(s, k, a) \in Seq(S)
      /\ Len(SubSeq(s, k, a)) = IF k <= a THEN a - k + 1 ELSE 0
      /\ \A i \in 1 .. a - k + 1 : SubSeq(s, k, a)[i] = s[k + i - 1]
  BY <1>2, <1>4, SubSeqProperties
<1>6. /\ b \in Seq(S) /\ Len(b) = IF k <= a THEN a - k + 1 ELSE 0
      /\ \A i \in 1 .. a - k + 1 : b[i] = s[k + i - 1]
  BY <1>4, <1>5
<1>7. a - k + 1 = a - l /\ (k <= a \/ a - l = 0)
  BY <1>3
<1>9. a - l \in Nat
  OBVIOUS
<1>8. \A i \in 1 .. a - l : k + i - 1 = l + i
  BY <1>3
<1> QED BY <1>0, <1>6, <1>7, <1>8, <1>9 DEF IsMiddle

-----------------------------------------------------------------------------
(* Lists in the order of the numbers of their members.                     *)

\* A list has the members of a set, in increasing order of their numbers.
Ascends(t, T, number) ==
  /\ t \in Seq(T) /\ \A x \in T : \E i \in DOMAIN t : t[i] = x
  /\ \A i, j \in DOMAIN t : i < j => number[t[i]] < number[t[j]]

\* Functions with the same values are the same.
LEMMA SameValues ==
  ASSUME NEW A, NEW S, NEW s \in [A -> S], NEW t \in [A -> S], \A k \in A : s[k] = t[k]
  PROVE  s = t
OBVIOUS

\* A set of numbers is sorted in one way.
LEMMA SortUnique ==
  ASSUME NEW S \in SUBSET Nat, IsFiniteSet(S), NEW s, IsSortOf(s, S), NEW t, IsSortOf(t, S)
  PROVE  s = t
<1>1. PICK n : n = Cardinality(S)
  OBVIOUS
<1>2. n \in Nat
  BY <1>1, FS_CardinalityType
<1>3. /\ s \in [1 .. n -> S] /\ t \in [1 .. n -> S]
      /\ \A x \in S : (\E i \in 1 .. n : s[i] = x) /\ \E i \in 1 .. n : t[i] = x
      /\ \A i, j \in 1 .. n : i < j => s[i] < s[j] /\ t[i] < t[j]
  BY <1>1 DEF IsSortOf
<1> DEFINE A == {k \in 1 .. n : s[k] # t[k]}
<1>4. ASSUME A # {} PROVE FALSE
  <2>1. A \in SUBSET Nat
    BY <1>2
  <2>2. PICK k \in A : \A m \in A : k <= m
    <3> HIDE DEF A
    <3> QED BY <1>4, <2>1, Least
  <2>3. k \in 1 .. n /\ s[k] \in Nat /\ t[k] \in Nat /\ s[k] # t[k] /\ s[k] \in S /\ t[k] \in S
    BY <1>3
  <2>4. \A j \in 1 .. n : j < k => s[j] = t[j]
    BY <1>2, <2>2, <2>3
  <2>5. PICK i \in 1 .. n : t[i] = s[k]
    BY <1>3, <2>3
  <2>6. PICK j \in 1 .. n : s[j] = t[k]
    BY <1>3, <2>3
  <2>7. i # k /\ j # k
    BY <2>3, <2>5, <2>6
  <2>8. i > k
    <3>1. ASSUME i < k PROVE FALSE
      <4>1. s[i] = s[k] /\ s[i] < s[k]
        BY <1>3, <2>3, <2>4, <2>5, <3>1
      <4> QED BY <2>3, <4>1
    <3> QED BY <1>2, <2>3, <2>7, <3>1
  <2>9. j > k
    <3>1. ASSUME j < k PROVE FALSE
      <4>1. t[j] = t[k] /\ t[j] < t[k]
        BY <1>3, <2>3, <2>4, <2>6, <3>1
      <4> QED BY <2>3, <4>1
    <3> QED BY <1>2, <2>3, <2>7, <3>1
  <2>10. t[k] < s[k] /\ s[k] < t[k]
    BY <1>3, <2>3, <2>5, <2>6, <2>8, <2>9
  <2> QED BY <2>3, <2>10
<1>5. \A k \in 1 .. n : s[k] = t[k]
  BY <1>4
<1> HIDE DEF A
<1>6. PICK I : I = 1 .. n
  OBVIOUS
<1>7. s \in [I -> S]
  BY <1>3, <1>6
<1>8. t \in [I -> S]
  BY <1>3, <1>6
<1>9. \A k \in I : s[k] = t[k]
  BY <1>5, <1>6
<1> QED BY <1>7, <1>8, <1>9, SameValues

\* The members of a set in the order of their numbers.
ByNumber(T, number) ==
  LET sorted == Sorted({number[x] : x \in T})
  IN [k \in DOMAIN sorted |-> CHOOSE x \in T : number[x] = sorted[k]]

\* So is a set with numbers.
LEMMA AscendsFacts ==
  ASSUME NEW C, NEW T \in SUBSET C, IsFiniteSet(T), NEW number \in [C -> Nat],
         NEW t, Ascends(t, T, number)
  PROVE  t = ByNumber(T, number)
<1> DEFINE S == {number[x] : x \in T}
           sorted == Sorted(S)
<1>1. /\ t \in Seq(T) /\ Len(t) \in Nat /\ DOMAIN t = 1 .. Len(t)
      /\ \A i \in 1 .. Len(t) : t[i] \in T
  BY DEF Ascends
<1>19. ASSUME NEW x \in T, NEW y \in T, number[x] = number[y] PROVE x = y
  <2>1. PICK i \in 1 .. Len(t) : t[i] = x
    BY <1>1 DEF Ascends
  <2>2. PICK j \in 1 .. Len(t) : t[j] = y
    BY <1>1 DEF Ascends
  <2>3. number[x] \in Nat /\ ~(number[x] < number[x])
    OBVIOUS
  <2>4. ~(i < j) /\ ~(j < i)
    BY <1>1, <1>19, <2>1, <2>2, <2>3 DEF Ascends
  <2>5. i = j
    BY <1>1, <2>4
  <2> QED BY <2>1, <2>2, <2>5
<1>2. PICK n : n = Len(t)
  OBVIOUS
<1>3. PICK s : s = [i \in 1 .. n |-> number[t[i]]]
  OBVIOUS
<1>4. S \in SUBSET Nat /\ IsFiniteSet(S)
  <2>1. IsFiniteSet(S)
    <3>1. PICK f : f = [x \in T |-> number[x]]
      OBVIOUS
    <3>2. f \in Surjection(T, S)
      BY <3>1 DEF Surjection
    <3> HIDE DEF S
    <3> QED BY <3>2, FS_Surjection
  <2> QED BY <2>1
<1>5. n = Cardinality(S)
  <2>1. s \in Bijection(1 .. n, S)
    <3>1. s \in [1 .. n -> S]
      BY <1>1, <1>2, <1>3
    <3>2. \A i, j \in 1 .. n : i # j => s[i] # s[j]
      <4>1. \A i, j \in 1 .. n : i < j => s[i] < s[j]
        BY <1>1, <1>2, <1>3 DEF Ascends
      <4>2. \A i \in 1 .. n : s[i] \in Nat
        BY <1>4, <3>1
      <4>3. \A i, j \in 1 .. n : i # j => i < j \/ j < i
        OBVIOUS
      <4> QED BY <4>1, <4>2, <4>3
    <3>3. \A y \in S : \E i \in 1 .. n : s[i] = y
      BY <1>1, <1>2, <1>3 DEF Ascends
    <3> HIDE DEF S
    <3> QED BY <3>1, <3>2, <3>3 DEF Bijection, Injection, Surjection, IsInjective
  <2>2. ExistsBijection(1 .. n, S)
    BY <2>1 DEF ExistsBijection
  <2>3. IsFiniteSet(1 .. n) /\ Cardinality(1 .. n) = n
    <3>1. n \in Nat /\ 1 \in Nat
      BY <1>1, <1>2
    <3> QED BY <3>1, FS_Interval
  <2> HIDE DEF S
  <2> QED BY <1>4, <2>2, <2>3, FS_Bijection
<1>6. IsSortOf(s, S)
  <2>1. s \in [1 .. n -> S]
    BY <1>1, <1>2, <1>3
  <2>2. \A y \in S : \E i \in 1 .. n : s[i] = y
    BY <1>1, <1>2, <1>3 DEF Ascends
  <2>3. \A i, j \in 1 .. n : i < j => s[i] < s[j]
    BY <1>1, <1>2, <1>3 DEF Ascends
  <2> HIDE DEF S
  <2> QED BY <1>5, <2>1, <2>2, <2>3 DEF IsSortOf
<1>7. IsSortOf(sorted, S)
  <2> HIDE DEF S
  <2> QED BY <1>4, SortedFacts
<1> HIDE DEF sorted
<1>8. sorted = s
  <2> HIDE DEF S
  <2> QED BY <1>4, <1>6, <1>7, SortUnique
<1>9. DOMAIN sorted = 1 .. n /\ \A k \in 1 .. n : sorted[k] = number[t[k]]
  BY <1>3, <1>8
<1>10. \A k \in 1 .. n : t[k] = CHOOSE x \in T : number[x] = sorted[k]
  <2> TAKE k \in 1 .. n
  <2>1. t[k] \in T /\ number[t[k]] = sorted[k]
    BY <1>1, <1>2, <1>9
  <2>2. \A x \in T : number[x] = sorted[k] => x = t[k]
    BY <1>19, <2>1
  <2> QED BY <2>1, <2>2
<1> HIDE DEF S
<1>11. PICK I : I = 1 .. n
  OBVIOUS
<1>12. PICK u : u = [k \in I |-> CHOOSE x \in T : number[x] = sorted[k]]
  OBVIOUS
<1>13. \A k \in I : t[k] = u[k]
  BY <1>10, <1>11, <1>12
<1>16. \A k \in I : t[k] \in T
  BY <1>1, <1>2, <1>11
<1>17. t \in [I -> T]
  <2>1. t \in [1 .. Len(t) -> T]
    BY <1>1
  <2> QED BY <1>2, <1>11, <2>1
<1>18. u \in [I -> T]
  BY <1>12, <1>13, <1>16
<1>14. t = u
  BY <1>13, <1>17, <1>18, SameValues
<1>15. DOMAIN sorted = I
  BY <1>9, <1>11
<1> QED BY <1>12, <1>14, <1>15 DEF ByNumber, sorted, S

\* Two ascending lists, one after the other.
LEMMA AscendsOn ==
  ASSUME NEW C, NEW T \in SUBSET C, NEW U \in SUBSET C, NEW number \in [C -> Nat],
         \A x \in T, y \in U : number[x] < number[y],
         NEW t, Ascends(t, T, number), NEW u, Ascends(u, U, number)
  PROVE  Ascends(t \o u, T \cup U, number)
<1>1. PICK V : V = T \cup U
  OBVIOUS
<1>2. /\ t \in Seq(T) /\ u \in Seq(U) /\ t \in Seq(V) /\ u \in Seq(V)
      /\ Len(t) \in Nat /\ Len(u) \in Nat
      /\ DOMAIN t = 1 .. Len(t) /\ DOMAIN u = 1 .. Len(u)
      /\ \A i \in 1 .. Len(t) : t[i] \in T
      /\ \A i \in 1 .. Len(u) : u[i] \in U
  BY <1>1 DEF Ascends
<1>3. PICK m, n : m = Len(t) /\ n = Len(u)
  OBVIOUS
<1>4. PICK v : v = t \o u
  OBVIOUS
<1>5. /\ v \in Seq(V) /\ Len(v) = m + n /\ DOMAIN v = 1 .. m + n
      /\ \A i \in 1 .. m + n : v[i] = IF i <= m THEN t[i] ELSE u[i - m]
  BY <1>2, <1>3, <1>4, ConcatProperties
<1>6. ASSUME NEW x \in V PROVE \E i \in DOMAIN v : v[i] = x
  <2>1. CASE x \in T
    <3>1. PICK i \in 1 .. m : t[i] = x
      BY <1>2, <1>3, <2>1 DEF Ascends
    <3>2. i \in 1 .. m + n /\ i <= m
      BY <1>2, <1>3
    <3> QED BY <1>5, <3>1, <3>2
  <2>2. CASE x \in U
    <3>1. PICK i \in 1 .. n : u[i] = x
      BY <1>2, <1>3, <2>2 DEF Ascends
    <3>2. m + i \in 1 .. m + n /\ ~(m + i <= m) /\ (m + i) - m = i
      BY <1>2, <1>3
    <3> QED BY <1>5, <3>1, <3>2
  <2> QED BY <1>1, <2>1, <2>2
<1>7. ASSUME NEW i \in 1 .. m + n, NEW j \in 1 .. m + n, i < j
      PROVE  number[v[i]] < number[v[j]]
  <2>1. CASE j <= m
    <3>1. i \in 1 .. m /\ j \in 1 .. m /\ i <= m
      BY <1>2, <1>3, <1>7, <2>1
    <3>2. v[i] = t[i] /\ v[j] = t[j]
      BY <1>5, <2>1, <3>1
    <3>3. number[t[i]] < number[t[j]]
      BY <1>2, <1>3, <1>7, <3>1 DEF Ascends
    <3> QED BY <3>2, <3>3
  <2>2. CASE i <= m /\ ~(j <= m)
    <3>1. i \in 1 .. m /\ j - m \in 1 .. n
      BY <1>2, <1>3, <2>2
    <3>2. v[i] = t[i] /\ v[j] = u[j - m]
      BY <1>5, <2>2
    <3>3. t[i] \in T /\ u[j - m] \in U
      BY <1>2, <1>3, <3>1
    <3> QED BY <3>2, <3>3
  <2>3. CASE ~(i <= m)
    <3>1. i - m \in 1 .. n /\ j - m \in 1 .. n /\ i - m < j - m /\ ~(j <= m)
      BY <1>2, <1>3, <1>7, <2>3
    <3>2. v[i] = u[i - m] /\ v[j] = u[j - m]
      BY <1>5, <2>3, <3>1
    <3>3. number[u[i - m]] < number[u[j - m]]
      BY <1>2, <1>3, <3>1 DEF Ascends
    <3> QED BY <3>2, <3>3
  <2> QED BY <2>1, <2>2, <2>3
<1> QED BY <1>1, <1>4, <1>5, <1>6, <1>7 DEF Ascends

\* Lists, each ascending, in the order of their numbers.
AscendInTurn(ss, L, C, number) ==
  /\ ss \in Seq(Seq(C)) /\ L \in [1 .. Len(ss) -> SUBSET C] /\ number \in [C -> Nat]
  /\ \A i \in 1 .. Len(ss) : Ascends(ss[i], L[i], number)
  /\ \A i, j \in 1 .. Len(ss) : i < j => \A x \in L[i], y \in L[j] : number[x] < number[y]

\* FlattenSeq makes an ascending list of them.
LEMMA JoinAscends ==
  ASSUME NEW C, NEW number, NEW ss, NEW L, AscendInTurn(ss, L, C, number)
  PROVE  Ascends(FlattenSeq(ss), UNION {L[i] : i \in 1 .. Len(ss)}, number)
<1> DEFINE N == Len(ss)
           U(n) == UNION {L[i] : i \in 1 .. n}
<1>0. /\ ss \in Seq(Seq(C)) /\ L \in [1 .. N -> SUBSET C] /\ number \in [C -> Nat]
      /\ \A i \in 1 .. N : Ascends(ss[i], L[i], number)
      /\ \A i, j \in 1 .. N : i < j => \A x \in L[i], y \in L[j] : number[x] < number[y]
  BY DEF AscendInTurn
<1>1. N \in Nat /\ \A i \in 1 .. N : L[i] \in SUBSET C
  <2>1. N \in Nat
    BY <1>0
  <2> HIDE DEF N
  <2> QED BY <1>0, <2>1
<1>2. PICK f : IsJoin(f, ss, C) /\ FlattenSeq(ss) = f[N]
  BY <1>0, FlattenJoins
<1>3. f[0] = <<>> /\ \A i \in 1 .. N : f[i] = f[i - 1] \o ss[i]
  BY <1>2 DEF IsJoin
<1> HIDE DEF N
<1> DEFINE A == {n \in 0 .. N : Ascends(f[n], U(n), number)}
<1>4. 0 \in A
  <2>1. U(0) = {}
    OBVIOUS
  <2>2. Ascends(<<>>, {}, number)
    BY EmptySeq DEF Ascends
  <2> HIDE DEF U
  <2>3. Ascends(f[0], U(0), number)
    BY <1>3, <2>1, <2>2
  <2>4. 0 \in 0 .. N
    BY <1>1
  <2> QED BY <2>3, <2>4
<1>5. ASSUME NEW n \in A, n < N PROVE n + 1 \in A
  <2>1. n \in 0 .. N /\ Ascends(f[n], U(n), number)
    OBVIOUS
  <2>2. n + 1 \in 1 .. N /\ (n + 1) - 1 = n /\ n + 1 \in 0 .. N
    BY <1>1, <1>5, <2>1
  <2>3. \A i \in 1 .. n : i \in 1 .. N /\ i < n + 1
    BY <1>1, <2>1
  <2>4. U(n) \in SUBSET C /\ L[n + 1] \in SUBSET C
    BY <1>1, <2>2, <2>3
  <2>5. \A x \in U(n), y \in L[n + 1] : number[x] < number[y]
    BY <1>0, <2>2, <2>3
  <2>6. U(n + 1) = U(n) \cup L[n + 1]
    <3>1. \A i : i \in 1 .. n + 1 <=> i \in 1 .. n \/ i = n + 1
      BY <2>1
    <3> QED BY <3>1
  <2> HIDE DEF U
  <2>7. PICK T : T = U(n)
    OBVIOUS
  <2>8. Ascends(f[n] \o ss[n + 1], T \cup L[n + 1], number)
    BY <1>0, <2>1, <2>2, <2>4, <2>5, <2>7, AscendsOn
  <2> QED BY <1>3, <2>2, <2>6, <2>7, <2>8
<1>6. A \in SUBSET (0 .. N) /\ 0 \in Nat /\ 0 <= N /\ N \in 0 .. N
  BY <1>1
<1>7. A = 0 .. N
  <2> HIDE DEF A
  <2> QED BY <1>1, <1>4, <1>5, <1>6, CountUp
<1>8. N \in A
  BY <1>6, <1>7
<1> QED BY <1>2, <1>8 DEF N

\* What a function gives for each member of a list, joined.
Found(visit, list) == FlattenSeq([i \in DOMAIN list |-> visit[list[i]]])

\* Lists joined are a list.
LEMMA FoundType ==
  ASSUME NEW C, NEW S, NEW list \in Seq(C), NEW visit \in [C -> Seq(S)]
  PROVE  Found(visit, list) \in Seq(S)
<1>1. PICK ss : ss = [i \in DOMAIN list |-> visit[list[i]]]
  OBVIOUS
<1>2. ss \in Seq(Seq(S))
  <2>1. PICK n : n = Len(list)
    OBVIOUS
  <2>2. n \in Nat /\ DOMAIN list = 1 .. n /\ \A i \in 1 .. n : list[i] \in C
    BY <2>1
  <2>3. ss = [i \in 1 .. n |-> visit[list[i]]]
    BY <1>1, <2>2
  <2>4. ss \in [1 .. n -> Seq(S)]
    BY <2>2, <2>3
  <2> QED BY <2>2, <2>4
<1>3. PICK f : IsJoin(f, ss, S) /\ FlattenSeq(ss) = f[Len(ss)]
  BY <1>2, FlattenJoins
<1>4. Len(ss) \in 0 .. Len(ss)
  BY <1>2
<1>5. f[Len(ss)] \in Seq(S)
  BY <1>3, <1>4 DEF IsJoin
<1> QED BY <1>1, <1>3, <1>5 DEF Found

\* A list of one.
LEMMA OneListed ==
  ASSUME NEW C, NEW s \in C
  PROVE  <<s>> \in Seq(C)
OBVIOUS
=============================================================================
