------------------------ MODULE MemoryPressure_proofs ------------------------
(***************************************************************************)
(* Proofs about KVCache and MemoryPressure, for every set of prefixes and  *)
(* their sizes, every limit of the cache and every number of threads.      *)
(***************************************************************************)
EXTENDS MemoryPressure, SequenceTheorems, FiniteSetTheorems, WellFoundedInduction, TLAPS

(***************************************************************************)
(* Induction over the numbers.  The set of those for which a fact holds    *)
(* takes the place of a predicate.                                         *)
(***************************************************************************)
LEMMA LeastNumber ==
    ASSUME NEW T, T \subseteq Nat, T # {}
    PROVE  /\ Min(T) \in T
           /\ \A m \in T : Min(T) <= m
<1>1. PICK n \in T : \A m \in T : ~(<<m, n>> \in OpToRel(<, Nat))
    BY WFMin, NatLessThanWellFounded
<1>2. ASSUME NEW m \in T PROVE n <= m
    <2>1. n \in Nat /\ m \in Nat
        OBVIOUS
    <2>2. m < n => <<m, n>> \in OpToRel(<, Nat)
        BY <2>1 DEF OpToRel
    <2>3. ~(m < n)
        BY <1>1, <2>2, Zenon
    <2> QED
        BY <2>1, <2>3
<1> QED
    BY <1>2 DEF Min

LEMMA NumberInduction ==
    ASSUME NEW G, 0 \in G, \A n \in Nat : n \in G => n + 1 \in G
    PROVE  Nat \subseteq G
<1> DEFINE Bad == Nat \ G
           n == Min(Bad)
<1>1. SUFFICES ASSUME Bad # {} PROVE FALSE
    OBVIOUS
<1>2. n \in Bad /\ \A m \in Bad : n <= m
    <2>1. Bad \subseteq Nat
        OBVIOUS
    <2> HIDE DEF Bad
    <2> QED
        BY <1>1, <2>1, LeastNumber
<1> HIDE DEF n
<1>3. n \in Nat /\ n # 0 /\ n \notin G
    BY <1>2
<1>4. n - 1 \in Nat /\ ~(n <= n - 1) /\ (n - 1) + 1 = n
    BY <1>3
<1>5. n - 1 \in G
    BY <1>2, <1>4
<1> QED
    BY <1>3, <1>4, <1>5

-----------------------------------------------------------------------------
(***************************************************************************)
(* Sums of bytes.  BytesOf is what Accounting compares the counter with.   *)
(***************************************************************************)
Pick(s) == CHOOSE x \in s : TRUE

BytesOf(size, S) == MapThenSumSet(LAMBDA k : size[k], S)

\* A function that sums over all sets of D, taking their elements one by one.
Adds(size, g, D) == g = [s \in D |-> IF s = {} THEN 0 ELSE size[Pick(s)] + g[s \ {Pick(s)}]]

Sums(size, S) == CHOOSE g : Adds(size, g, SUBSET S)

LEMMA PickIn == \A s : s # {} => Pick(s) \in s
BY DEF Pick

LEMMA BytesOfIsSum == \A size, S : BytesOf(size, S) = Sums(size, S)[S]
BY DEF BytesOf, MapThenSumSet, MapThenFoldSet, Sums, Adds, Pick

\* A subset without its first element is smaller.
LEMMA WithoutPick ==
    ASSUME NEW s, IsFiniteSet(s), s # {}
    PROVE  /\ IsFiniteSet(s \ {Pick(s)})
           /\ Cardinality(s \ {Pick(s)}) = Cardinality(s) - 1
           /\ Cardinality(s) \in Nat \ {0}
<1> DEFINE x == Pick(s)
<1>1. x \in s
    BY PickIn
<1> HIDE DEF x
<1>2. IsFiniteSet(s \ {x}) /\ Cardinality(s \ {x}) = Cardinality(s) - 1
    BY <1>1, FS_RemoveElement
<1>3. Cardinality(s) \in Nat \ {0}
    BY FS_EmptySet, FS_CardinalityType
<1> QED
    BY <1>2, <1>3 DEF x

LEMMA SumsDefined ==
    ASSUME NEW size, NEW S, IsFiniteSet(S)
    PROVE  Adds(size, Sums(size, S), SUBSET S)
<1> DEFINE D(n) == {s \in SUBSET S : Cardinality(s) <= n}
           N == {n \in Nat : \E g : Adds(size, g, D(n))}
<1>1. \A s \in SUBSET S : IsFiniteSet(s) /\ Cardinality(s) \in Nat
    BY FS_Subset, FS_CardinalityType
<1>2. 0 \in N
    <2> DEFINE g == [s \in D(0) |-> 0]
    <2>1. \A s \in D(0) : s = {}
        BY <1>1, FS_EmptySet
    <2>2. Adds(size, g, D(0))
        BY <2>1 DEF Adds
    <2> QED
        BY <2>2
<1>3. ASSUME NEW n \in Nat, n \in N
      PROVE  n + 1 \in N
    <2>1. PICK g : Adds(size, g, D(n))
        BY <1>3
    <2> DEFINE h == [s \in D(n + 1) |-> IF s = {} THEN 0 ELSE size[Pick(s)] + g[s \ {Pick(s)}]]
    <2>2. \A s \in D(n) : g[s] = IF s = {} THEN 0 ELSE size[Pick(s)] + g[s \ {Pick(s)}]
        BY <2>1, Zenon DEF Adds
    <2>3. D(n) \subseteq D(n + 1)
        BY <1>1
    <2>4. \A s \in D(n) : h[s] = g[s]
        BY <2>2, <2>3
    <2>5. \A s \in D(n + 1) : s # {} => s \ {Pick(s)} \in D(n)
        BY <1>1, WithoutPick
    <2>6. \A s \in D(n + 1) : s # {} => h[s \ {Pick(s)}] = g[s \ {Pick(s)}]
        BY <2>4, <2>5
    <2>7. Adds(size, h, D(n + 1))
        BY <2>6 DEF Adds
    <2>8. \E f : Adds(size, f, D(n + 1))
        BY <2>7
    <2> HIDE DEF D
    <2> QED
        BY <2>8
<1> HIDE DEF N
<1>4. Nat \subseteq N
    BY <1>2, <1>3, NumberInduction
<1>5. \E g : Adds(size, g, D(Cardinality(S)))
    BY <1>1, <1>4 DEF N
<1>6. D(Cardinality(S)) = SUBSET S
    BY FS_Subset
<1>7. \E g : Adds(size, g, SUBSET S)
    BY <1>5, <1>6
<1> QED
    BY <1>7 DEF Sums

LEMMA SumStep ==
    ASSUME NEW size, NEW S, IsFiniteSet(S), NEW s \in SUBSET S
    PROVE  Sums(size, S)[s] = IF s = {} THEN 0 ELSE size[Pick(s)] + Sums(size, S)[s \ {Pick(s)}]
<1> DEFINE g == Sums(size, S)
<1>1. g = [t \in SUBSET S |-> IF t = {} THEN 0 ELSE size[Pick(t)] + g[t \ {Pick(t)}]]
    <2>1. Adds(size, Sums(size, S), SUBSET S)
        BY SumsDefined
    <2> QED
        BY <2>1 DEF Adds
<1> HIDE DEF g
<1>2. g[s] = IF s = {} THEN 0 ELSE size[Pick(s)] + g[s \ {Pick(s)}]
    BY <1>1, Zenon
<1> QED
    BY <1>2 DEF g

\* The sum over a subset does not depend on the set it is a subset of.
LEMMA SumsAgree ==
    ASSUME NEW size, NEW S, IsFiniteSet(S), NEW s \in SUBSET S
    PROVE  Sums(size, S)[s] = BytesOf(size, s)
<1> DEFINE G == {n \in Nat : \A t \in SUBSET S : \A T \in SUBSET S :
                     Cardinality(t) = n /\ t \subseteq T => Sums(size, T)[t] = Sums(size, S)[t]}
<1>1. \A t \in SUBSET S : IsFiniteSet(t) /\ Cardinality(t) \in Nat
    BY FS_Subset, FS_CardinalityType
<1>2. 0 \in G
    <2>1. ASSUME NEW t \in SUBSET S, NEW T \in SUBSET S, Cardinality(t) = 0, t \subseteq T
          PROVE  Sums(size, T)[t] = Sums(size, S)[t]
        <3>1. t = {} /\ IsFiniteSet(T) /\ t \in SUBSET T
            BY <1>1, <2>1, FS_EmptySet
        <3>2. Sums(size, T)[t] = 0 /\ Sums(size, S)[t] = 0
            BY <3>1, SumStep
        <3> QED
            BY <3>2
    <2> QED
        BY <2>1
<1>3. ASSUME NEW n \in Nat, n \in G
      PROVE  n + 1 \in G
    <2>1. ASSUME NEW t \in SUBSET S, NEW T \in SUBSET S, Cardinality(t) = n + 1, t \subseteq T
          PROVE  Sums(size, T)[t] = Sums(size, S)[t]
        <3> DEFINE u == t \ {Pick(t)}
        <3>1. t # {} /\ IsFiniteSet(t) /\ IsFiniteSet(T) /\ t \in SUBSET T
            BY <1>1, <2>1, FS_EmptySet
        <3>2. u \in SUBSET S /\ u \subseteq T /\ Cardinality(u) = n
            BY <2>1, <3>1, WithoutPick
        <3>3. Sums(size, T)[u] = Sums(size, S)[u]
            BY <1>3, <2>1, <3>2
        <3>4. Sums(size, T)[t] = size[Pick(t)] + Sums(size, T)[u]
            BY <3>1, SumStep
        <3>5. Sums(size, S)[t] = size[Pick(t)] + Sums(size, S)[u]
            BY <3>1, SumStep
        <3> QED
            BY <3>3, <3>4, <3>5
    <2> QED
        BY <2>1
<1> HIDE DEF G
<1>4. Nat \subseteq G
    BY <1>2, <1>3, NumberInduction
<1>5. Sums(size, s)[s] = Sums(size, S)[s]
    BY <1>1, <1>4 DEF G
<1> QED
    BY <1>5, BytesOfIsSum

LEMMA BytesOfStep ==
    ASSUME NEW size, NEW S, IsFiniteSet(S)
    PROVE  BytesOf(size, S) = IF S = {} THEN 0 ELSE size[Pick(S)] + BytesOf(size, S \ {Pick(S)})
<1> DEFINE u == S \ {Pick(S)}
<1>1. Sums(size, S)[S] = IF S = {} THEN 0 ELSE size[Pick(S)] + Sums(size, S)[u]
    BY SumStep
<1>2. Sums(size, S)[S] = BytesOf(size, S) /\ Sums(size, S)[u] = BytesOf(size, u)
    BY SumsAgree
<1> QED
    BY <1>1, <1>2

LEMMA BytesOfNat ==
    ASSUME NEW size \in [PrefixHashes -> Nat], NEW S, IsFiniteSet(S), S \subseteq PrefixHashes
    PROVE  BytesOf(size, S) \in Nat
<1> DEFINE G == {n \in Nat : \A s \in SUBSET S : Cardinality(s) = n => BytesOf(size, s) \in Nat}
<1>1. \A s \in SUBSET S : IsFiniteSet(s) /\ Cardinality(s) \in Nat
    BY FS_Subset, FS_CardinalityType
<1>2. 0 \in G
    BY <1>1, FS_EmptySet, BytesOfStep
<1>3. ASSUME NEW n \in Nat, n \in G
      PROVE  n + 1 \in G
    <2>1. ASSUME NEW s \in SUBSET S, Cardinality(s) = n + 1
          PROVE  BytesOf(size, s) \in Nat
        <3> DEFINE u == s \ {Pick(s)}
        <3>1. s # {} /\ IsFiniteSet(s)
            BY <1>1, <2>1, FS_EmptySet
        <3>2. u \in SUBSET S /\ Cardinality(u) = n
            <4>1. Cardinality(u) = Cardinality(s) - 1
                BY <3>1, WithoutPick
            <4> QED
                BY <2>1, <4>1
        <3>3. BytesOf(size, u) \in Nat
            BY <1>3, <3>2
        <3>4. BytesOf(size, s) = size[Pick(s)] + BytesOf(size, u)
            BY <3>1, BytesOfStep
        <3>5. size[Pick(s)] \in Nat
            BY <3>1, PickIn
        <3> QED
            BY <3>3, <3>4, <3>5
    <2> QED
        BY <2>1
<1> HIDE DEF G
<1>4. Nat \subseteq G
    BY <1>2, <1>3, NumberInduction
<1> QED
    BY <1>1, <1>4 DEF G

\* Any element may be taken out of a sum.
LEMMA BytesOfRemove ==
    ASSUME NEW size \in [PrefixHashes -> Nat], NEW S, IsFiniteSet(S), S \subseteq PrefixHashes, NEW x \in S
    PROVE  BytesOf(size, S) = size[x] + BytesOf(size, S \ {x})
<1> DEFINE G == {n \in Nat : \A s \in SUBSET S : \A y \in s :
                     Cardinality(s) = n => BytesOf(size, s) = size[y] + BytesOf(size, s \ {y})}
<1>1. \A s \in SUBSET S : IsFiniteSet(s) /\ Cardinality(s) \in Nat /\ BytesOf(size, s) \in Nat
    BY FS_Subset, FS_CardinalityType, BytesOfNat
<1>2. 0 \in G
    BY <1>1, FS_EmptySet
<1>3. ASSUME NEW n \in Nat, n \in G
      PROVE  n + 1 \in G
    <2>1. ASSUME NEW s \in SUBSET S, NEW y \in s, Cardinality(s) = n + 1
          PROVE  BytesOf(size, s) = size[y] + BytesOf(size, s \ {y})
        <3> DEFINE p == Pick(s)
                   u == s \ {p}
                   v == s \ {y}
        <3>1. IsFiniteSet(s) /\ p \in s
            BY <1>1, <2>1, PickIn
        <3>2. u \in SUBSET S /\ Cardinality(u) = n /\ IsFiniteSet(u)
            BY <1>1, <2>1, <3>1, WithoutPick
        <3>3. BytesOf(size, s) = size[p] + BytesOf(size, u)
            BY <3>1, BytesOfStep
        <3>4. CASE y = p
            BY <3>3, <3>4
        <3>5. CASE y # p
            <4>0. y \in u /\ p \in v
                BY <3>1, <3>5
            <4>1. BytesOf(size, u) = size[y] + BytesOf(size, u \ {y})
                BY <1>3, <3>2, <4>0
            <4>2. v \in SUBSET S /\ Cardinality(v) = n
                <5>1. Cardinality(v) = Cardinality(s) - 1
                    BY <3>1, FS_RemoveElement
                <5> QED
                    BY <2>1, <5>1
            <4>3. BytesOf(size, v) = size[p] + BytesOf(size, v \ {p})
                BY <1>3, <4>0, <4>2
            <4>4. u \ {y} = v \ {p} /\ u \ {y} \in SUBSET S
                BY <3>2
            <4>5. size[p] \in Nat /\ size[y] \in Nat /\ BytesOf(size, u \ {y}) \in Nat
                BY <1>1, <3>1, <4>4
            <4> HIDE DEF p, u, v
            <4>6. BytesOf(size, v) = size[p] + BytesOf(size, u \ {y})
                BY <4>3, <4>4
            <4>7. BytesOf(size, s) = size[y] + BytesOf(size, v)
                BY <3>3, <4>1, <4>5, <4>6
            <4> QED
                BY <4>7 DEF v
        <3> QED
            BY <3>4, <3>5
    <2> QED
        BY <2>1
<1> HIDE DEF G
<1>4. Nat \subseteq G
    BY <1>2, <1>3, NumberInduction
<1> QED
    BY <1>1, <1>4 DEF G

\* A sum depends on the sizes of its elements only.
LEMMA BytesOfSame ==
    ASSUME NEW S, IsFiniteSet(S), NEW f, NEW g, \A x \in S : f[x] = g[x]
    PROVE  BytesOf(f, S) = BytesOf(g, S)
<1> DEFINE G == {n \in Nat : \A s \in SUBSET S : Cardinality(s) = n => BytesOf(f, s) = BytesOf(g, s)}
<1>1. \A s \in SUBSET S : IsFiniteSet(s) /\ Cardinality(s) \in Nat
    BY FS_Subset, FS_CardinalityType
<1>2. 0 \in G
    <2>1. ASSUME NEW s \in SUBSET S, Cardinality(s) = 0
          PROVE  BytesOf(f, s) = BytesOf(g, s)
        <3>1. s = {} /\ IsFiniteSet(s)
            BY <1>1, <2>1, FS_EmptySet
        <3>2. BytesOf(f, s) = 0 /\ BytesOf(g, s) = 0
            BY <3>1, BytesOfStep
        <3> QED
            BY <3>2
    <2> QED
        BY <2>1
<1>3. ASSUME NEW n \in Nat, n \in G
      PROVE  n + 1 \in G
    <2>1. ASSUME NEW s \in SUBSET S, Cardinality(s) = n + 1
          PROVE  BytesOf(f, s) = BytesOf(g, s)
        <3> DEFINE u == s \ {Pick(s)}
        <3>1. s # {} /\ IsFiniteSet(s)
            BY <1>1, <2>1, FS_EmptySet
        <3>2. u \in SUBSET S /\ Cardinality(u) = n
            <4>1. Cardinality(u) = Cardinality(s) - 1
                BY <3>1, WithoutPick
            <4> QED
                BY <2>1, <4>1
        <3>3. BytesOf(f, u) = BytesOf(g, u)
            BY <1>3, <3>2
        <3>4. BytesOf(f, s) = f[Pick(s)] + BytesOf(f, u) /\ BytesOf(g, s) = g[Pick(s)] + BytesOf(g, u)
            BY <3>1, BytesOfStep
        <3>5. f[Pick(s)] = g[Pick(s)]
            BY <3>1, PickIn
        <3> QED
            BY <3>3, <3>4, <3>5
    <2> QED
        BY <2>1
<1> HIDE DEF G
<1>4. Nat \subseteq G
    BY <1>2, <1>3, NumberInduction
<1> QED
    BY <1>1, <1>4 DEF G
-----------------------------------------------------------------------------
(***************************************************************************)
(* Sequences without duplicates, as the keys of an OrderedDict and the     *)
(* history of uses are.                                                    *)
(***************************************************************************)
Distinct(s) == \A i, j \in 1 .. Len(s) : s[i] = s[j] => i = j

Precedes(s, x, y) == \E i, j \in 1 .. Len(s) : i < j /\ s[i] = x /\ s[j] = y

LEMMA ToSetDef ==
    ASSUME NEW S, NEW s \in Seq(S)
    PROVE  /\ Len(s) \in Nat
           /\ ToSet(s) = {s[i] : i \in 1 .. Len(s)}
           /\ ToSet(s) \subseteq S
BY LenProperties DEF ToSet

\* What is left when an element is taken out.
LEMMA Removed ==
    ASSUME NEW S, NEW s \in Seq(S), NEW e \in ToSet(s)
    PROVE  \E n \in 1 .. Len(s) :
              LET r == RemoveFirst(s, e) IN
              /\ s[n] = e
              /\ r \in Seq(S)
              /\ Len(r) = Len(s) - 1
              /\ \A i \in 1 .. Len(r) : r[i] = IF i < n THEN s[i] ELSE s[i + 1]
<1> DEFINE I == {i \in 1 .. Len(s) : s[i] = e}
           n == Min(I)
           a == SubSeq(s, 1, n - 1)
           b == SubSeq(s, n + 1, Len(s))
<1>1. I # {} /\ I \subseteq Nat /\ Len(s) \in Nat
    BY ToSetDef
<1>2. n \in I
    <2> HIDE DEF I
    <2> QED
        BY <1>1, LeastNumber
<1>3. n \in 1 .. Len(s) /\ s[n] = e
    BY <1>2
<1>4. RemoveFirst(s, e) = a \o b
    <2>1. \E i \in 1 .. Len(s) : s[i] = e
        BY <1>3
    <2> QED
        BY <1>1, <2>1 DEF RemoveFirst, RemoveAt, SelectInSeq
<1> HIDE DEF n
<1>5. \A i \in 1 .. Len(s) : s[i] \in S
    BY ElementOfSeq
<1>6. /\ a \in Seq(S) /\ Len(a) = n - 1
      /\ \A i \in 1 .. n - 1 : a[i] = s[i]
    <2>1. n - 1 \in Int /\ \A i \in 1 .. n - 1 : s[i] \in S
        BY <1>1, <1>3, <1>5
    <2> QED
        BY <1>3, <2>1, SubSeqProperties
<1>7. /\ b \in Seq(S) /\ Len(b) = Len(s) - n
      /\ \A i \in 1 .. Len(s) - n : b[i] = s[i + n]
    <2>1. n + 1 \in Int /\ Len(s) \in Int /\ \A i \in n + 1 .. Len(s) : s[i] \in S
        BY <1>1, <1>3, <1>5
    <2>2. /\ b \in Seq(S)
          /\ Len(b) = IF n + 1 <= Len(s) THEN Len(s) - (n + 1) + 1 ELSE 0
          /\ \A i \in 1 .. Len(s) - (n + 1) + 1 : b[i] = s[(n + 1) + i - 1]
        BY <2>1, SubSeqProperties
    <2>3. \A i \in 1 .. Len(s) - n : (n + 1) + i - 1 = i + n /\ i \in 1 .. Len(s) - (n + 1) + 1
        BY <1>1, <1>3
    <2>4. Len(b) = Len(s) - n
        BY <1>1, <1>3, <2>2
    <2> HIDE DEF b
    <2> QED
        BY <2>2, <2>3, <2>4
<1> HIDE DEF a, b
<1>8. /\ a \o b \in Seq(S)
      /\ Len(a \o b) = Len(a) + Len(b)
      /\ \A i \in 1 .. Len(a) + Len(b) : (a \o b)[i] = IF i <= Len(a) THEN a[i] ELSE b[i - Len(a)]
    BY <1>6, <1>7, ConcatProperties
<1> DEFINE r == a \o b
<1>9. Len(r) = Len(s) - 1
    BY <1>1, <1>3, <1>6, <1>7, <1>8
<1>10. ASSUME NEW i \in 1 .. Len(r)
       PROVE  r[i] = IF i < n THEN s[i] ELSE s[i + 1]
    <2>1. CASE i < n
        BY <1>1, <1>3, <1>6, <1>7, <1>8, <1>9, <2>1
    <2>2. CASE ~(i < n)
        <3>1. i - (n - 1) \in 1 .. Len(s) - n /\ (i - (n - 1)) + n = i + 1
            BY <1>1, <1>3, <1>9, <2>2
        <3>2. b[i - (n - 1)] = s[i + 1]
            BY <1>7, <3>1
        <3>3. r[i] = b[i - (n - 1)]
            <4>1. i \in 1 .. Len(a) + Len(b) /\ ~(i <= Len(a)) /\ i - Len(a) = i - (n - 1)
                BY <1>1, <1>3, <1>6, <1>7, <1>9, <2>2
            <4>2. r[i] = b[i - Len(a)]
                BY <1>8, <4>1
            <4> QED
                BY <4>1, <4>2
        <3> QED
            BY <2>2, <3>2, <3>3
    <2> QED
        BY <2>1, <2>2
<1> HIDE DEF r
<1> QED
    BY <1>3, <1>4, <1>8, <1>9, <1>10 DEF r

LEMMA NotRemoved ==
    ASSUME NEW S, NEW s \in Seq(S), NEW e, e \notin ToSet(s)
    PROVE  RemoveFirst(s, e) = s
BY ToSetDef DEF RemoveFirst

\* Taking an element out leaves the order of the others.
LEMMA RemoveKeepsOrder ==
    ASSUME NEW S, NEW s \in Seq(S), Distinct(s), NEW e
    PROVE  LET r == RemoveFirst(s, e) IN
           /\ r \in Seq(S) /\ Distinct(r)
           /\ ToSet(r) = ToSet(s) \ {e}
           /\ Len(r) = IF e \in ToSet(s) THEN Len(s) - 1 ELSE Len(s)
           /\ \A x, y : Precedes(r, x, y) <=> x # e /\ y # e /\ Precedes(s, x, y)
<1> DEFINE r == RemoveFirst(s, e)
<1>0. Len(s) \in Nat /\ ToSet(s) = {s[i] : i \in 1 .. Len(s)}
    BY ToSetDef
<1>1. CASE e \notin ToSet(s)
    <2>1. r = s
        BY <1>1, NotRemoved
    <2> HIDE DEF r
    <2>2. \A x, y : Precedes(s, x, y) => x # e /\ y # e
        BY <1>0, <1>1 DEF Precedes
    <2> QED
        BY <1>1, <2>1, <2>2 DEF r
<1>2. CASE e \in ToSet(s)
    <2>1. PICK n \in 1 .. Len(s) :
              /\ s[n] = e
              /\ r \in Seq(S)
              /\ Len(r) = Len(s) - 1
              /\ \A i \in 1 .. Len(r) : r[i] = IF i < n THEN s[i] ELSE s[i + 1]
        BY <1>2, Removed
    <2> HIDE DEF r
    <2> DEFINE up(i) == IF i < n THEN i ELSE i + 1
               down(i) == IF i < n THEN i ELSE i - 1
    <2>2. \A i \in 1 .. Len(r) : up(i) \in 1 .. Len(s) /\ up(i) # n /\ r[i] = s[up(i)]
        BY <1>0, <2>1
    <2>3. \A i \in 1 .. Len(s) : i # n => down(i) \in 1 .. Len(r) /\ r[down(i)] = s[i]
        BY <1>0, <2>1
    <2>4. \A i, j \in 1 .. Len(r) : i < j => up(i) < up(j)
        BY <1>0, <2>1
    <2>5. \A i, j \in 1 .. Len(s) : i # n /\ j # n /\ i < j => down(i) < down(j)
        BY <1>0, <2>1
    <2>6. \A i \in 1 .. Len(s) : s[i] = e <=> i = n
        BY <2>1 DEF Distinct
    <2>7. \A i, j \in 1 .. Len(r) : up(i) = up(j) => i = j
        BY <1>0, <2>1
    <2> HIDE DEF up, down
    <2>8. Distinct(r)
        BY <2>2, <2>7 DEF Distinct
    <2>9. ToSet(r) = ToSet(s) \ {e}
        <3>1. ToSet(r) = {r[i] : i \in 1 .. Len(r)}
            BY <2>1, ToSetDef
        <3>2. \A i \in 1 .. Len(r) : r[i] \in ToSet(s) \ {e}
            BY <1>0, <2>2, <2>6
        <3>3. \A i \in 1 .. Len(s) : s[i] # e => s[i] \in ToSet(r)
            BY <2>1, <2>3, <3>1
        <3> QED
            BY <1>0, <3>1, <3>2, <3>3
    <2>10. ASSUME NEW x, NEW y
           PROVE  Precedes(r, x, y) <=> x # e /\ y # e /\ Precedes(s, x, y)
        <3>1. Precedes(r, x, y) => x # e /\ y # e /\ Precedes(s, x, y)
            BY <2>2, <2>4, <2>6 DEF Precedes
        <3>2. x # e /\ y # e /\ Precedes(s, x, y) => Precedes(r, x, y)
            BY <2>1, <2>3, <2>5 DEF Precedes
        <3> QED
            BY <3>1, <3>2
    <2> QED
        BY <1>2, <2>1, <2>8, <2>9, <2>10 DEF r
<1> QED
    BY <1>1, <1>2

\* A new last element.
LEMMA AppendKeepsOrder ==
    ASSUME NEW S, NEW s \in Seq(S), Distinct(s), NEW e \in S, e \notin ToSet(s)
    PROVE  LET t == Append(s, e) IN
           /\ t \in Seq(S) /\ Distinct(t)
           /\ ToSet(t) = ToSet(s) \cup {e}
           /\ Len(t) = Len(s) + 1
           /\ \A x, y : Precedes(t, x, y) <=> Precedes(s, x, y) \/ (x \in ToSet(s) /\ y = e)
<1> DEFINE t == Append(s, e)
<1>0. Len(s) \in Nat /\ ToSet(s) = {s[i] : i \in 1 .. Len(s)}
    BY ToSetDef
<1>1. /\ t \in Seq(S) /\ Len(t) = Len(s) + 1
      /\ \A i \in 1 .. Len(s) : t[i] = s[i]
      /\ t[Len(s) + 1] = e
    BY AppendProperties
<1> HIDE DEF t
<1>2. \A i \in 1 .. Len(t) : i \in 1 .. Len(s) \/ i = Len(s) + 1
    BY <1>0, <1>1
<1>3. 1 .. Len(s) \subseteq 1 .. Len(t) /\ Len(s) + 1 \in 1 .. Len(t)
    BY <1>0, <1>1
<1>4. \A i \in 1 .. Len(s) : s[i] # e
    BY <1>0
<1>5. Distinct(t)
    BY <1>1, <1>2, <1>4 DEF Distinct
<1>6. ToSet(t) = ToSet(s) \cup {e}
    <2>1. ToSet(t) = {t[i] : i \in 1 .. Len(t)}
        BY <1>1, ToSetDef
    <2> QED
        BY <1>0, <1>1, <1>2, <1>3, <2>1
<1>7. ASSUME NEW x, NEW y
      PROVE  Precedes(t, x, y) <=> Precedes(s, x, y) \/ (x \in ToSet(s) /\ y = e)
    <2>1. \A i, j \in 1 .. Len(t) : i < j => i \in 1 .. Len(s)
        BY <1>0, <1>1
    <2>2. \A i \in 1 .. Len(s) : i < Len(s) + 1
        BY <1>0
    <2>3. Precedes(t, x, y) => Precedes(s, x, y) \/ (x \in ToSet(s) /\ y = e)
        BY <1>0, <1>1, <1>2, <2>1 DEF Precedes
    <2>4. Precedes(s, x, y) => Precedes(t, x, y)
        BY <1>1, <1>3 DEF Precedes
    <2>5. x \in ToSet(s) /\ y = e => Precedes(t, x, y)
        BY <1>0, <1>1, <1>3, <2>2 DEF Precedes
    <2> QED
        BY <2>3, <2>4, <2>5
<1> QED
    BY <1>1, <1>5, <1>6, <1>7 DEF t

\* Without its first element.
LEMMA TailKeepsOrder ==
    ASSUME NEW S, NEW s \in Seq(S), Distinct(s), s # <<>>
    PROVE  LET t == Tail(s) IN
           /\ t \in Seq(S) /\ Distinct(t)
           /\ Head(s) \in ToSet(s) /\ Head(s) \in S
           /\ ToSet(t) = ToSet(s) \ {Head(s)}
           /\ Len(t) = Len(s) - 1 /\ Len(s) > 0
           /\ \A x, y : Precedes(t, x, y) => Precedes(s, x, y)
           /\ \A y \in ToSet(t) : Precedes(s, Head(s), y)
<1> DEFINE t == Tail(s)
<1>0. Len(s) \in Nat \ {0} /\ ToSet(s) = {s[i] : i \in 1 .. Len(s)}
    BY ToSetDef, EmptySeq
<1>1. /\ t \in Seq(S) /\ Len(t) = Len(s) - 1 /\ Head(s) \in S /\ Head(s) = s[1]
      /\ \A i \in 1 .. Len(t) : t[i] = s[i + 1]
    BY HeadTailProperties
<1> HIDE DEF t
<1>2. ToSet(t) = {t[i] : i \in 1 .. Len(t)}
    BY <1>1, ToSetDef
<1>3. \A i \in 1 .. Len(t) : i + 1 \in 1 .. Len(s) /\ 1 \in 1 .. Len(s) /\ 1 < i + 1
    BY <1>0, <1>1
<1>4. \A i \in 1 .. Len(s) : i = 1 \/ (i - 1 \in 1 .. Len(t) /\ (i - 1) + 1 = i)
    BY <1>0, <1>1
<1>5. Distinct(t)
    <2> SUFFICES ASSUME NEW i \in 1 .. Len(t), NEW j \in 1 .. Len(t), t[i] = t[j]
                 PROVE  i = j
        BY DEF Distinct
    <2>1. i + 1 = j + 1
        BY <1>1, <1>3 DEF Distinct
    <2> QED
        BY <1>0, <1>1, <2>1
<1>6. ToSet(t) = ToSet(s) \ {Head(s)}
    <2>1. \A i \in 1 .. Len(t) : t[i] \in ToSet(s)
        BY <1>0, <1>1, <1>3
    <2>2. \A i \in 1 .. Len(t) : t[i] # s[1]
        BY <1>1, <1>3 DEF Distinct
    <2>3. ASSUME NEW i \in 1 .. Len(s), i # 1
          PROVE  s[i] \in ToSet(t)
        <3>1. i - 1 \in 1 .. Len(t) /\ (i - 1) + 1 = i
            BY <1>4, <2>3
        <3>2. t[i - 1] = s[i]
            BY <1>1, <3>1
        <3> QED
            BY <1>2, <3>1, <3>2
    <2>4. ASSUME NEW x \in ToSet(t) PROVE x \in ToSet(s) \ {Head(s)}
        <3>1. PICK i \in 1 .. Len(t) : x = t[i]
            BY <1>2, Zenon
        <3> QED
            BY <1>1, <2>1, <2>2, <3>1
    <2>5. ASSUME NEW x \in ToSet(s) \ {Head(s)} PROVE x \in ToSet(t)
        <3>1. PICK i \in 1 .. Len(s) : x = s[i]
            BY <1>0, Zenon
        <3>2. i # 1
            BY <1>1, <3>1
        <3> QED
            BY <2>3, <3>1, <3>2
    <2> QED
        BY <2>4, <2>5
<1>7. ASSUME NEW x, NEW y, Precedes(t, x, y)
      PROVE  Precedes(s, x, y)
    <2>1. PICK i \in 1 .. Len(t), j \in 1 .. Len(t) : i < j /\ t[i] = x /\ t[j] = y
        BY <1>7 DEF Precedes
    <2>2. /\ i + 1 \in 1 .. Len(s) /\ j + 1 \in 1 .. Len(s) /\ i + 1 < j + 1
          /\ s[i + 1] = x /\ s[j + 1] = y
        BY <1>1, <1>3, <2>1
    <2> QED
        BY <2>2 DEF Precedes
<1>8. ASSUME NEW y \in ToSet(t) PROVE Precedes(s, Head(s), y)
    <2>1. PICK i \in 1 .. Len(t) : y = t[i]
        BY <1>2, Zenon
    <2>2. /\ 1 \in 1 .. Len(s) /\ i + 1 \in 1 .. Len(s) /\ 1 < i + 1
          /\ s[1] = Head(s) /\ s[i + 1] = y
        BY <1>1, <1>3, <2>1
    <2> QED
        BY <2>2 DEF Precedes
<1>9. Head(s) \in ToSet(s)
    BY <1>0, <1>1
<1> QED
    BY <1>0, <1>1, <1>5, <1>6, <1>7, <1>8, <1>9 DEF t

LEMMA PrecedesIn ==
    ASSUME NEW S, NEW s \in Seq(S), NEW x, NEW y, Precedes(s, x, y)
    PROVE  x \in ToSet(s) /\ y \in ToSet(s)
BY ToSetDef DEF Precedes

-----------------------------------------------------------------------------
(***************************************************************************)
(* The operations of the cache.                                            *)
(***************************************************************************)

\* A cache whose keys are distinct and whose counter is the sum of its entries.
Counted(c) ==
    /\ c \in [order : Seq(PrefixHashes), size : [PrefixHashes -> Nat], bytes : Nat]
    /\ Distinct(c.order)
    /\ IsFiniteSet(Cached(c))
    /\ Cardinality(Cached(c)) = Len(c.order)
    /\ c.bytes = BytesOf(c.size, Cached(c))

\* The counter is at least the size of each entry, and goes down by it.
LEMMA OneEntryLess ==
    ASSUME NEW c, Counted(c), NEW x \in Cached(c)
    PROVE  /\ x \in PrefixHashes
           /\ c.size[x] \in Nat
           /\ [c.size EXCEPT ![x] = 0] \in [PrefixHashes -> Nat]
           /\ IsFiniteSet(Cached(c) \ {x})
           /\ Cardinality(Cached(c) \ {x}) = Len(c.order) - 1
           /\ c.bytes - c.size[x] = BytesOf([c.size EXCEPT ![x] = 0], Cached(c) \ {x})
           /\ c.bytes - c.size[x] \in Nat
           /\ c.bytes - c.size[x] <= c.bytes
<1> DEFINE S == Cached(c)
           size == c.size
           less == [size EXCEPT ![x] = 0]
<1>1. /\ IsFiniteSet(S) /\ S \subseteq PrefixHashes /\ x \in S
      /\ size \in [PrefixHashes -> Nat] /\ c.bytes = BytesOf(size, S) /\ c.bytes \in Nat
    BY ToSetDef DEF Counted, Cached
<1>2. Cardinality(S) = Len(c.order)
    BY DEF Counted
<1> HIDE DEF S, size
<1>3. IsFiniteSet(S \ {x}) /\ Cardinality(S \ {x}) = Cardinality(S) - 1
    BY <1>1, FS_RemoveElement
<1>4. BytesOf(size, S) = size[x] + BytesOf(size, S \ {x})
    BY <1>1, BytesOfRemove
<1>5. BytesOf(size, S \ {x}) \in Nat /\ size[x] \in Nat
    BY <1>1, <1>3, BytesOfNat
<1>6. less \in [PrefixHashes -> Nat] /\ \A y \in S \ {x} : less[y] = size[y]
    BY <1>1
<1> HIDE DEF less
<1>7. BytesOf(less, S \ {x}) = BytesOf(size, S \ {x})
    BY <1>3, <1>6, BytesOfSame
<1>8. c.bytes - size[x] = BytesOf(less, S \ {x}) /\ c.bytes - size[x] \in Nat /\ c.bytes - size[x] <= c.bytes
    BY <1>1, <1>4, <1>5, <1>7
<1> QED
    BY <1>1, <1>2, <1>3, <1>5, <1>6, <1>8 DEF S, size, less

LEMMA WithoutCounted ==
    ASSUME NEW c, Counted(c), NEW k \in PrefixHashes
    PROVE  LET w == Without(c, k) IN
           /\ Counted(w)
           /\ Cached(w) = Cached(c) \ {k}
           /\ w.bytes = IF k \in Cached(c) THEN c.bytes - c.size[k] ELSE c.bytes
           /\ Len(w.order) = IF k \in Cached(c) THEN Len(c.order) - 1 ELSE Len(c.order)
           /\ \A x, y : Precedes(w.order, x, y) => x # k /\ y # k /\ Precedes(c.order, x, y)
<1> DEFINE w == Without(c, k)
           r == RemoveFirst(c.order, k)
<1>1. c.order \in Seq(PrefixHashes) /\ Distinct(c.order)
    BY DEF Counted
<1>2. /\ r \in Seq(PrefixHashes) /\ Distinct(r)
      /\ ToSet(r) = Cached(c) \ {k}
      /\ Len(r) = IF k \in Cached(c) THEN Len(c.order) - 1 ELSE Len(c.order)
      /\ \A x, y : Precedes(r, x, y) <=> x # k /\ y # k /\ Precedes(c.order, x, y)
    BY <1>1, RemoveKeepsOrder DEF Cached
<1>3. CASE k \in Cached(c)
    <2> DEFINE less == [c.size EXCEPT ![k] = 0]
    <2>1. w = [order |-> r, size |-> less, bytes |-> c.bytes - c.size[k]]
        BY <1>3 DEF Without
    <2>2. w.order = r /\ w.size = less /\ w.bytes = c.bytes - c.size[k]
        BY <2>1
    <2>3. /\ w.bytes \in Nat /\ w.bytes = BytesOf(w.size, Cached(c) \ {k})
          /\ w.size \in [PrefixHashes -> Nat]
          /\ IsFiniteSet(Cached(c) \ {k})
          /\ Cardinality(Cached(c) \ {k}) = Len(c.order) - 1
        <3>1. /\ IsFiniteSet(Cached(c) \ {k})
              /\ Cardinality(Cached(c) \ {k}) = Len(c.order) - 1
              /\ less \in [PrefixHashes -> Nat]
              /\ c.bytes - c.size[k] = BytesOf(less, Cached(c) \ {k})
              /\ c.bytes - c.size[k] \in Nat
            BY <1>3, OneEntryLess, Zenon
        <3> QED
            BY <2>2, <3>1, Zenon
    <2>4. w \in [order : Seq(PrefixHashes), size : [PrefixHashes -> Nat], bytes : Nat]
        BY <1>2, <2>1, <2>2, <2>3
    <2> HIDE DEF less
    <2>5. Cached(w) = Cached(c) \ {k}
        BY <1>2, <2>2 DEF Cached
    <2>6. Counted(w)
        BY <1>2, <1>3, <2>2, <2>3, <2>4, <2>5 DEF Counted
    <2> HIDE DEF w, r
    <2> QED
        BY <1>2, <1>3, <2>2, <2>5, <2>6 DEF w
<1>4. CASE k \notin Cached(c)
    <2>1. w = c
        BY <1>4 DEF Without
    <2>2. r = c.order
        BY <1>1, <1>4, NotRemoved DEF Cached
    <2> HIDE DEF w, r
    <2> QED
        BY <1>2, <1>4, <2>1, <2>2 DEF w
<1> QED
    BY <1>3, <1>4

\* A cache that has lost some of its oldest entries.
Trimmed(e, c) ==
    /\ Counted(e)
    /\ Cached(e) \subseteq Cached(c)
    /\ e.bytes <= c.bytes
    /\ Len(e.order) <= Len(c.order)
    /\ \A x, y : Precedes(e.order, x, y) => Precedes(c.order, x, y)
    /\ \A gone \in Cached(c) \ Cached(e) : \A kept \in Cached(e) : Precedes(c.order, gone, kept)

LEMMA EvictOneTrims ==
    ASSUME NEW c, Counted(c), c.order # <<>>
    PROVE  Trimmed(EvictOne(c), c) /\ Len(EvictOne(c).order) = Len(c.order) - 1
<1> DEFINE h == Head(c.order)
           r == Tail(c.order)
           e == EvictOne(c)
<1>1. c.order \in Seq(PrefixHashes) /\ Distinct(c.order) /\ Len(c.order) \in Nat
    BY ToSetDef DEF Counted
<1>2. /\ r \in Seq(PrefixHashes) /\ Distinct(r)
      /\ h \in Cached(c)
      /\ ToSet(r) = Cached(c) \ {h}
      /\ Len(r) = Len(c.order) - 1
      /\ \A x, y : Precedes(r, x, y) => Precedes(c.order, x, y)
      /\ \A y \in ToSet(r) : Precedes(c.order, h, y)
    BY <1>1, TailKeepsOrder DEF Cached
<1> HIDE DEF h, r
<1> DEFINE less == [c.size EXCEPT ![h] = 0]
<1>3. e = [order |-> r, size |-> less, bytes |-> c.bytes - c.size[h]]
    BY DEF EvictOne, h, r
<1>4. e.order = r /\ e.size = less /\ e.bytes = c.bytes - c.size[h] /\ Cached(e) = Cached(c) \ {h}
    BY <1>2, <1>3 DEF Cached
<1>5. /\ IsFiniteSet(Cached(e)) /\ Cardinality(Cached(e)) = Len(r) /\ less \in [PrefixHashes -> Nat]
      /\ e.bytes = BytesOf(less, Cached(e)) /\ e.bytes \in Nat /\ e.bytes <= c.bytes
    <2>1. /\ less \in [PrefixHashes -> Nat]
          /\ IsFiniteSet(Cached(c) \ {h}) /\ Cardinality(Cached(c) \ {h}) = Len(c.order) - 1
          /\ c.bytes - c.size[h] = BytesOf(less, Cached(c) \ {h})
          /\ c.bytes - c.size[h] \in Nat /\ c.bytes - c.size[h] <= c.bytes
        BY <1>2, OneEntryLess
    <2> HIDE DEF less, e
    <2> QED
        BY <1>2, <1>4, <2>1
<1> HIDE DEF less
<1>6. e \in [order : Seq(PrefixHashes), size : [PrefixHashes -> Nat], bytes : Nat]
    BY <1>2, <1>3, <1>4, <1>5
<1> HIDE DEF e
<1>7. Counted(e)
    BY <1>2, <1>4, <1>5, <1>6 DEF Counted
<1>8. Cached(e) \subseteq Cached(c) /\ Len(e.order) <= Len(c.order)
    BY <1>1, <1>2, <1>4
<1>9. \A gone \in Cached(c) \ Cached(e) : \A kept \in Cached(e) : Precedes(c.order, gone, kept)
    BY <1>2, <1>4
<1>10. Trimmed(e, c)
    BY <1>2, <1>4, <1>5, <1>7, <1>8, <1>9 DEF Trimmed
<1> QED
    BY <1>2, <1>4, <1>10 DEF e

LEMMA TrimmedAgain ==
    ASSUME NEW c, NEW e, NEW f, Trimmed(e, c), Trimmed(f, e), Counted(c)
    PROVE  Trimmed(f, c)
<1>1. Counted(f) /\ Cached(f) \subseteq Cached(c)
    BY DEF Trimmed
<1>2. f.bytes <= c.bytes /\ Len(f.order) <= Len(c.order)
    <2>1. c.bytes \in Nat /\ e.bytes \in Nat /\ f.bytes \in Nat
        BY DEF Trimmed, Counted
    <2>2. Len(c.order) \in Nat /\ Len(e.order) \in Nat /\ Len(f.order) \in Nat
        BY ToSetDef DEF Trimmed, Counted
    <2> QED
        BY <2>1, <2>2 DEF Trimmed
<1>3. \A x, y : Precedes(f.order, x, y) => Precedes(c.order, x, y)
    BY DEF Trimmed
<1>4. ASSUME NEW gone \in Cached(c) \ Cached(f), NEW kept \in Cached(f)
      PROVE  Precedes(c.order, gone, kept)
    <2>1. CASE gone \in Cached(e)
        <3>1. Precedes(e.order, gone, kept)
            BY <1>4, <2>1 DEF Trimmed
        <3> QED
            BY <3>1 DEF Trimmed
    <2>2. CASE gone \notin Cached(e)
        BY <1>4, <2>2 DEF Trimmed
    <2> QED
        BY <2>1, <2>2
<1> QED
    BY <1>1, <1>2, <1>3, <1>4 DEF Trimmed

(***************************************************************************)
(* The eviction loops.                                                     *)
(***************************************************************************)
Evicts(f, c, n) == f = [i \in 0 .. n |-> IF i = 0 THEN c ELSE EvictOne(f[i - 1])]

Rounds(c, n) == CHOOSE f : Evicts(f, c, n)

LEMMA EvictManyIsRounds == \A c, n : EvictMany(c, n) = Rounds(c, n)[n]
BY DEF EvictMany, Rounds, Evicts

LEMMA RoundsDefined ==
    ASSUME NEW c, NEW n \in Nat
    PROVE  Evicts(Rounds(c, n), c, n)
<1> DEFINE N == {m \in Nat : \E f : Evicts(f, c, m)}
<1>1. 0 \in N
    <2> DEFINE f == [i \in 0 .. 0 |-> c]
    <2>1. Evicts(f, c, 0)
        BY DEF Evicts
    <2> QED
        BY <2>1
<1>2. ASSUME NEW m \in Nat, m \in N
      PROVE  m + 1 \in N
    <2>1. PICK f : Evicts(f, c, m)
        BY <1>2
    <2> DEFINE g == [i \in 0 .. m + 1 |-> IF i = 0 THEN c ELSE EvictOne(f[i - 1])]
    <2>2. \A i \in 0 .. m : f[i] = IF i = 0 THEN c ELSE EvictOne(f[i - 1])
        BY <2>1, Zenon DEF Evicts
    <2>3. \A i \in 0 .. m + 1 : i # 0 => i - 1 \in 0 .. m /\ i - 1 \in 0 .. m + 1
        OBVIOUS
    <2>4. \A i \in 0 .. m : i \in 0 .. m + 1
        OBVIOUS
    <2>5. \A i \in 0 .. m : g[i] = f[i]
        BY <2>2, <2>4
    <2>6. \A i \in 0 .. m + 1 : i # 0 => g[i - 1] = f[i - 1]
        BY <2>3, <2>5
    <2>7. Evicts(g, c, m + 1)
        BY <2>6 DEF Evicts
    <2> QED
        BY <2>7
<1> HIDE DEF N
<1>3. n \in N
    BY <1>1, <1>2, NumberInduction
<1>4. \E f : Evicts(f, c, n)
    BY <1>3 DEF N
<1> QED
    BY <1>4 DEF Rounds

LEMMA RoundsStep ==
    ASSUME NEW c, NEW n \in Nat, NEW i \in 0 .. n
    PROVE  Rounds(c, n)[i] = IF i = 0 THEN c ELSE EvictOne(Rounds(c, n)[i - 1])
<1> DEFINE f == Rounds(c, n)
<1>1. f = [j \in 0 .. n |-> IF j = 0 THEN c ELSE EvictOne(f[j - 1])]
    BY RoundsDefined DEF Evicts
<1> HIDE DEF f
<1>2. f[i] = IF i = 0 THEN c ELSE EvictOne(f[i - 1])
    BY <1>1, Zenon
<1> QED
    BY <1>2 DEF f

LEMMA EvictManyStep ==
    ASSUME NEW c
    PROVE  /\ EvictMany(c, 0) = c
           /\ \A n \in Nat : EvictMany(c, n + 1) = EvictOne(EvictMany(c, n))
<1> DEFINE G == {m \in Nat : \A n \in Nat : m <= n => Rounds(c, n)[m] = EvictMany(c, m)}
<1>0. \A m \in Nat : EvictMany(c, m) = Rounds(c, m)[m]
    BY EvictManyIsRounds
<1>1. \A n \in Nat : Rounds(c, n)[0] = c
    BY RoundsStep
<1>2. 0 \in G
    BY <1>0, <1>1
<1>3. ASSUME NEW m \in Nat, m \in G
      PROVE  m + 1 \in G
    <2>1. ASSUME NEW n \in Nat, m + 1 <= n
          PROVE  Rounds(c, n)[m + 1] = EvictOne(EvictMany(c, m))
        <3>1. m + 1 \in 0 .. n /\ m + 1 # 0 /\ (m + 1) - 1 = m /\ m <= n
            BY <2>1
        <3>2. Rounds(c, n)[m + 1] = EvictOne(Rounds(c, n)[(m + 1) - 1])
            BY <3>1, RoundsStep
        <3>3. Rounds(c, n)[m] = EvictMany(c, m)
            BY <1>3, <3>1
        <3> QED
            BY <3>1, <3>2, <3>3
    <2>2. EvictMany(c, m + 1) = EvictOne(EvictMany(c, m))
        BY <1>0, <2>1
    <2> QED
        BY <2>1, <2>2
<1> HIDE DEF G
<1>4. Nat \subseteq G
    BY <1>2, <1>3, NumberInduction
<1>5. ASSUME NEW n \in Nat
      PROVE  EvictMany(c, n + 1) = EvictOne(EvictMany(c, n))
    <2>1. n + 1 \in Nat /\ n + 1 \in 0 .. n + 1 /\ n + 1 # 0 /\ (n + 1) - 1 = n /\ n <= n + 1
        OBVIOUS
    <2>2. Rounds(c, n + 1)[n + 1] = EvictOne(Rounds(c, n + 1)[(n + 1) - 1])
        BY <2>1, RoundsStep
    <2>3. Rounds(c, n + 1)[n] = EvictMany(c, n)
        BY <1>4, <2>1 DEF G
    <2> QED
        BY <1>0, <2>1, <2>2, <2>3
<1> QED
    BY <1>0, <1>1, <1>5

LEMMA EvictManyTrims ==
    ASSUME NEW c, Counted(c), NEW n \in 0 .. Len(c.order)
    PROVE  Trimmed(EvictMany(c, n), c) /\ Len(EvictMany(c, n).order) = Len(c.order) - n
<1> DEFINE L == Len(c.order)
           G == {m \in Nat : m <= L => Trimmed(EvictMany(c, m), c) /\ Len(EvictMany(c, m).order) = L - m}
<1>0. L \in Nat /\ c.bytes \in Nat
    BY ToSetDef DEF Counted
<1> HIDE DEF L
<1>1. 0 \in G
    <2>1. Trimmed(c, c)
        BY <1>0 DEF Trimmed, L
    <2> QED
        BY <1>0, <2>1, EvictManyStep DEF L
<1>2. ASSUME NEW m \in Nat, m \in G
      PROVE  m + 1 \in G
    <2> SUFFICES ASSUME m + 1 <= L
                 PROVE  Trimmed(EvictMany(c, m + 1), c) /\ Len(EvictMany(c, m + 1).order) = L - (m + 1)
        OBVIOUS
    <2> DEFINE e == EvictMany(c, m)
    <2>1. Trimmed(e, c) /\ Len(e.order) = L - m
        BY <1>0, <1>2
    <2>2. EvictMany(c, m + 1) = EvictOne(e)
        BY EvictManyStep
    <2> HIDE DEF e
    <2>3. Counted(e) /\ e.order # <<>>
        BY <1>0, <2>1, EmptySeq DEF Trimmed
    <2>4. Trimmed(EvictOne(e), e) /\ Len(EvictOne(e).order) = Len(e.order) - 1
        BY <2>3, EvictOneTrims
    <2>5. Trimmed(EvictOne(e), c)
        BY <2>1, <2>4, TrimmedAgain
    <2> QED
        BY <1>0, <2>1, <2>2, <2>4, <2>5
<1> HIDE DEF G
<1>3. n \in G
    BY <1>1, <1>2, NumberInduction
<1> QED
    BY <1>0, <1>3 DEF G, L

LEMMA EvictLruTrims ==
    ASSUME NEW c, Counted(c), NEW needed
    PROVE  Trimmed(EvictLru(c, needed), c)
<1> DEFINE enough == {i \in 0 .. Len(c.order) : c.bytes - EvictMany(c, i).bytes >= needed}
           T == enough \cup {Len(c.order)}
<1>0. Len(c.order) \in Nat
    BY ToSetDef DEF Counted
<1>1. T \subseteq Nat /\ T # {} /\ T \subseteq 0 .. Len(c.order)
    BY <1>0
<1>2. EvictLru(c, needed) = EvictMany(c, Min(T))
    BY DEF EvictLru
<1> HIDE DEF T
<1>3. Min(T) \in 0 .. Len(c.order)
    BY <1>1, LeastNumber
<1> QED
    BY <1>2, <1>3, EvictManyTrims

\* The limits of the configuration.
Limited(c) ==
    /\ c.bytes <= MaxMemoryBytes
    /\ Len(c.order) <= MaxEntries

\* A cache that was emptied has room: with max_entries = 0 it would not.
LEMMA RoomInTheEnd ==
    ASSUME NEW room, Counted(room), NEW m
    PROVE  HasRoom(EvictMany(room, Len(room.order)), m)
<1> DEFINE e == EvictMany(room, Len(room.order))
<1>1. Len(room.order) \in Nat
    BY ToSetDef DEF Counted
<1>2. Len(room.order) \in 0 .. Len(room.order)
    BY <1>1
<1>3. Counted(e) /\ Len(e.order) = 0
    BY <1>1, <1>2, EvictManyTrims DEF Trimmed
<1>4. e.order = <<>>
    BY <1>3, EmptySeq DEF Counted
<1> HIDE DEF e
<1>5. HasRoom(e, m)
    BY <1>3, <1>4, KVCacheAssumption DEF HasRoom
<1> QED
    BY <1>5 DEF e

\* The eviction loops of put end with room for the new entry.
LEMMA PutRoom ==
    ASSUME NEW c, Counted(c), NEW m
    PROVE  Trimmed(MakeRoom(c, m), c) /\ HasRoom(MakeRoom(c, m), m)
<1> DEFINE T == {i \in 0 .. Len(c.order) : HasRoom(EvictMany(c, i), m)}
           n == Min(T)
<1>1. Len(c.order) \in Nat
    BY ToSetDef DEF Counted
<1>2. Len(c.order) \in T /\ T \subseteq Nat
    BY <1>1, RoomInTheEnd
<1>3. n \in T
    <2> HIDE DEF T
    <2> QED
        BY <1>2, LeastNumber
<1>4. MakeRoom(c, m) = EvictMany(c, n)
    BY DEF MakeRoom
<1> HIDE DEF n
<1> QED
    BY <1>3, <1>4, EvictManyTrims

\* A new last entry.
LEMMA StoreCounted ==
    ASSUME NEW c, Counted(c), NEW k \in PrefixHashes, k \notin Cached(c), NEW m \in Nat
    PROVE  LET p == Store(c, k, m) IN
           /\ Counted(p)
           /\ Cached(p) = Cached(c) \cup {k}
           /\ Len(p.order) = Len(c.order) + 1
           /\ p.bytes = c.bytes + m
           /\ \A x, y : Precedes(p.order, x, y) <=>
                            Precedes(c.order, x, y) \/ (x \in Cached(c) /\ y = k)
<1> DEFINE s == Append(c.order, k)
           size == [c.size EXCEPT ![k] = m]
           p == Store(c, k, m)
<1>1. /\ c.order \in Seq(PrefixHashes) /\ Distinct(c.order) /\ c.bytes \in Nat
      /\ c.size \in [PrefixHashes -> Nat]
    BY DEF Counted
<1>2. /\ s \in Seq(PrefixHashes) /\ Distinct(s)
      /\ ToSet(s) = Cached(c) \cup {k}
      /\ Len(s) = Len(c.order) + 1
      /\ \A x, y : Precedes(s, x, y) <=> Precedes(c.order, x, y) \/ (x \in Cached(c) /\ y = k)
    BY <1>1, AppendKeepsOrder DEF Cached
<1>3. p.order = s /\ p.size = size /\ p.bytes = c.bytes + m /\ p = [order |-> s, size |-> size, bytes |-> c.bytes + m]
    BY DEF Store
<1>4. size \in [PrefixHashes -> Nat] /\ size[k] = m /\ \A x \in Cached(c) : size[x] = c.size[x]
    BY <1>1, ToSetDef DEF Cached
<1> HIDE DEF s, size
<1>5. Cached(p) = Cached(c) \cup {k} /\ p \in [order : Seq(PrefixHashes), size : [PrefixHashes -> Nat], bytes : Nat]
    <2>1. Cached(p) = Cached(c) \cup {k}
        BY <1>2, <1>3 DEF Cached
    <2>2. c.bytes + m \in Nat
        BY <1>1
    <2> HIDE DEF p
    <2> QED
        BY <1>2, <1>3, <1>4, <2>1, <2>2
<1> HIDE DEF p
<1>6. IsFiniteSet(Cached(p)) /\ Cardinality(Cached(p)) = Len(p.order)
    <2>1. IsFiniteSet(Cached(c)) /\ Cardinality(Cached(c)) = Len(c.order)
        BY DEF Counted
    <2>2. IsFiniteSet(Cached(c) \cup {k}) /\ Cardinality(Cached(c) \cup {k}) = Cardinality(Cached(c)) + 1
        BY <2>1, FS_AddElement
    <2> QED
        BY <1>2, <1>3, <1>5, <2>1, <2>2
<1>7. p.bytes = BytesOf(p.size, Cached(p))
    <2> DEFINE S == Cached(p)
               R == S \ {k}
    <2>1. S \subseteq PrefixHashes /\ R = Cached(c) /\ k \in S
        BY <1>1, <1>5, ToSetDef DEF Cached
    <2>2. BytesOf(size, S) = size[k] + BytesOf(size, R)
        BY <1>4, <1>6, <2>1, BytesOfRemove
    <2> HIDE DEF S, R
    <2>3. BytesOf(size, Cached(c)) = BytesOf(c.size, Cached(c))
        BY <1>4, BytesOfSame DEF Counted
    <2>4. BytesOf(c.size, Cached(c)) = c.bytes
        BY DEF Counted
    <2>5. BytesOf(size, S) = c.bytes + m
        BY <1>1, <1>4, <2>1, <2>2, <2>3, <2>4
    <2> QED
        BY <1>3, <2>5 DEF S
<1>8. Counted(p)
    BY <1>2, <1>3, <1>5, <1>6, <1>7 DEF Counted
<1> QED
    BY <1>2, <1>3, <1>5, <1>8 DEF p

\* What put leaves, and in which order; who is evicted precedes who stays.
LEMMA PutResult ==
    ASSUME NEW c, Counted(c), Limited(c), NEW k \in PrefixHashes, NEW m \in Nat
    PROVE  LET p == Put(c, k, m) IN
           /\ Counted(p) /\ Limited(p)
           /\ m > MaxMemoryBytes => p = c
           /\ m <= MaxMemoryBytes =>
                  /\ k \in Cached(p) /\ Cached(p) \subseteq Cached(c) \cup {k}
                  /\ \A gone \in Cached(c) \ Cached(p) : \A kept \in Cached(p) :
                         kept = k \/ Precedes(c.order, gone, kept)
                  /\ \A x, y : Precedes(p.order, x, y) =>
                                    x # k /\ (y = k \/ Precedes(c.order, x, y))
<1> DEFINE p == Put(c, k, m)
<1>1. /\ MaxMemoryBytes \in Nat /\ MaxEntries \in Nat \ {0}
      /\ c.bytes \in Nat /\ c.order \in Seq(PrefixHashes)
    BY KVCacheAssumption DEF Counted
<1>2. CASE m > MaxMemoryBytes
    <2>1. p = c
        BY <1>2 DEF Put
    <2>2. ~(m <= MaxMemoryBytes)
        BY <1>1, <1>2
    <2> HIDE DEF p
    <2> QED
        BY <2>1, <2>2 DEF p
<1>3. CASE ~(m > MaxMemoryBytes)
    <2> DEFINE room == Without(c, k)
               kept == MakeRoom(room, m)
    <2>0. p = Store(kept, k, m)
        BY <1>3 DEF Put
    <2>1. /\ Counted(room)
          /\ Cached(room) = Cached(c) \ {k}
          /\ \A x, y : Precedes(room.order, x, y) => x # k /\ y # k /\ Precedes(c.order, x, y)
        BY WithoutCounted
    <2> HIDE DEF room
    <2>2. Trimmed(kept, room) /\ HasRoom(kept, m)
        BY <2>1, PutRoom
    <2> HIDE DEF kept
    <2>3. Counted(kept) /\ k \notin Cached(kept) /\ Cached(kept) \subseteq Cached(c)
        BY <2>1, <2>2 DEF Trimmed
    <2>4. /\ Counted(p)
          /\ Cached(p) = Cached(kept) \cup {k}
          /\ Len(p.order) = Len(kept.order) + 1
          /\ p.bytes = kept.bytes + m
          /\ \A x, y : Precedes(p.order, x, y) <=>
                           Precedes(kept.order, x, y) \/ (x \in Cached(kept) /\ y = k)
        BY <2>0, <2>3, StoreCounted
    <2> HIDE DEF p
    <2>6. Limited(p)
        <3>1. kept.bytes \in Nat /\ kept.order \in Seq(PrefixHashes) /\ Len(kept.order) \in Nat
            BY <2>3, ToSetDef DEF Counted
        <3>2. Len(p.order) <= MaxEntries
            BY <1>1, <2>2, <2>4, <3>1 DEF HasRoom
        <3>3. p.bytes <= MaxMemoryBytes
            <4>1. CASE kept.order = <<>>
                <5>1. Len(kept.order) = 0 /\ 1 .. 0 = {}
                    BY <4>1
                <5>2. Cached(kept) = {}
                    BY <3>1, <5>1, ToSetDef DEF Cached
                <5>3. kept.bytes = 0
                    BY <2>3, <5>2, BytesOfStep, FS_EmptySet DEF Counted
                <5> QED
                    BY <1>1, <1>3, <2>4, <5>3
            <4>2. CASE kept.order # <<>>
                BY <2>2, <2>4, <4>2 DEF HasRoom
            <4> QED
                BY <4>1, <4>2
        <3> QED
            BY <3>2, <3>3 DEF Limited
    <2>7. ASSUME NEW x, NEW y, Precedes(p.order, x, y)
          PROVE  x # k /\ (y = k \/ Precedes(c.order, x, y))
        <3>1. CASE Precedes(kept.order, x, y)
            BY <2>1, <2>2, <3>1 DEF Trimmed
        <3>2. CASE x \in Cached(kept) /\ y = k
            BY <2>3, <3>2
        <3> QED
            BY <2>4, <2>7, <3>1, <3>2
    <2>8. ASSUME NEW gone \in Cached(c) \ Cached(p), NEW stays \in Cached(p), stays # k
          PROVE  Precedes(c.order, gone, stays)
        <3>1. gone \in Cached(room) /\ gone \notin Cached(kept) /\ stays \in Cached(kept)
            BY <2>1, <2>4, <2>8
        <3>2. Precedes(room.order, gone, stays)
            BY <2>2, <3>1 DEF Trimmed
        <3> QED
            BY <2>1, <3>2
    <2>9. Cached(p) \subseteq Cached(c) \cup {k} /\ k \in Cached(p)
        BY <2>3, <2>4
    <2>10. \A gone \in Cached(c) \ Cached(p) : \A stays \in Cached(p) :
               stays = k \/ Precedes(c.order, gone, stays)
        BY <2>8
    <2> QED
        BY <1>3, <2>4, <2>6, <2>7, <2>9, <2>10 DEF p
<1> QED
    BY <1>2, <1>3

LEMMA GetResult ==
    ASSUME NEW c, Counted(c), Limited(c), NEW k \in Cached(c)
    PROVE  LET g == Get(c, k) IN
           /\ Counted(g) /\ Limited(g)
           /\ Cached(g) = Cached(c)
           /\ \A x, y : Precedes(g.order, x, y) => x # k /\ (y = k \/ Precedes(c.order, x, y))
<1> DEFINE w == Without(c, k)
           m == c.size[k]
           g == Get(c, k)
<1>1. k \in PrefixHashes /\ m \in Nat /\ c.bytes \in Nat
    BY OneEntryLess DEF Counted
<1>2. /\ Counted(w) /\ Cached(w) = Cached(c) \ {k}
      /\ w.bytes = c.bytes - m
      /\ Len(w.order) = Len(c.order) - 1
      /\ \A x, y : Precedes(w.order, x, y) => x # k /\ y # k /\ Precedes(c.order, x, y)
    BY <1>1, WithoutCounted
<1>3. /\ w.order = RemoveFirst(c.order, k)
      /\ w.size = [c.size EXCEPT ![k] = 0]
    BY DEF Without
<1>4. g = Store(w, k, m)
    <2>1. c \in [order : Seq(PrefixHashes), size : [PrefixHashes -> Nat], bytes : Nat]
        BY DEF Counted
    <2>2. g = [c EXCEPT !.order = Append(w.order, k)]
        BY <1>3 DEF Get
    <2> HIDE DEF w, g
    <2>3. g = [order |-> Append(w.order, k), size |-> c.size, bytes |-> c.bytes]
        BY <2>1, <2>2
    <2>4. [w.size EXCEPT ![k] = m] = c.size
        BY <1>1, <1>3, <2>1
    <2>5. w.bytes + m = c.bytes
        BY <1>1, <1>2
    <2> QED
        BY <2>3, <2>4, <2>5 DEF Store
<1> HIDE DEF w, g, m
<1>5. /\ Counted(g)
      /\ Cached(g) = Cached(w) \cup {k}
      /\ Len(g.order) = Len(w.order) + 1
      /\ g.bytes = w.bytes + m
      /\ \A x, y : Precedes(g.order, x, y) <=>
                       Precedes(w.order, x, y) \/ (x \in Cached(w) /\ y = k)
    BY <1>1, <1>2, <1>4, StoreCounted
<1>6. g.bytes = c.bytes /\ Len(g.order) = Len(c.order)
    <2>1. Len(c.order) \in Nat
        BY ToSetDef DEF Counted
    <2> QED
        BY <1>1, <1>2, <1>5, <2>1
<1>7. Limited(g)
    BY <1>6 DEF Limited
<1>8. Cached(g) = Cached(c)
    BY <1>2, <1>5
<1> QED
    BY <1>2, <1>5, <1>7, <1>8 DEF g

\* The order of the cache is that of the last uses, as far as it goes.
Ordered(c, r) ==
    /\ r \in Seq(PrefixHashes)
    /\ Distinct(r)
    /\ Cached(c) \subseteq ToSet(r)
    /\ \A x, y : Precedes(c.order, x, y) => Precedes(r, x, y)

LEMMA UsedOrdered ==
    ASSUME NEW c, NEW d, NEW r, NEW k \in PrefixHashes,
           Ordered(c, r), Counted(d), Cached(d) \subseteq Cached(c) \cup {k},
           \A x, y : Precedes(d.order, x, y) => x # k /\ (y = k \/ Precedes(c.order, x, y))
    PROVE  Ordered(d, Append(RemoveFirst(r, k), k))
<1> DEFINE s == RemoveFirst(r, k)
           u == Append(s, k)
<1>1. /\ s \in Seq(PrefixHashes) /\ Distinct(s)
      /\ ToSet(s) = ToSet(r) \ {k}
      /\ \A x, y : Precedes(s, x, y) <=> x # k /\ y # k /\ Precedes(r, x, y)
    BY RemoveKeepsOrder DEF Ordered
<1> HIDE DEF s
<1>2. /\ u \in Seq(PrefixHashes) /\ Distinct(u)
      /\ ToSet(u) = ToSet(s) \cup {k}
      /\ \A x, y : Precedes(u, x, y) <=> Precedes(s, x, y) \/ (x \in ToSet(s) /\ y = k)
    BY <1>1, AppendKeepsOrder
<1> HIDE DEF u
<1>3. Cached(d) \subseteq ToSet(u)
    BY <1>1, <1>2 DEF Ordered
<1>4. ASSUME NEW x, NEW y, Precedes(d.order, x, y)
      PROVE  Precedes(u, x, y)
    <2>1. x # k /\ (y = k \/ Precedes(c.order, x, y))
        BY <1>4
    <2>2. CASE y = k
        <3>1. x \in Cached(d)
            BY <1>4, PrecedesIn DEF Cached, Counted
        <3> QED
            BY <1>1, <1>2, <2>1, <2>2, <3>1 DEF Ordered
    <2>3. CASE y # k
        BY <1>1, <1>2, <2>1, <2>3 DEF Ordered
    <2> QED
        BY <2>2, <2>3
<1> QED
    BY <1>2, <1>3, <1>4 DEF Ordered, u, s

-----------------------------------------------------------------------------
(***************************************************************************)
(* The inductive invariant.  The order of the cache has to follow the last *)
(* uses, or an eviction could take the wrong entry; the counter has to be  *)
(* the sum of the sizes, or an entry that goes would leave it wrong.       *)
(***************************************************************************)
Inv ==
    /\ TypeOK
    /\ Counted(cache)
    /\ Limited(cache)
    /\ Ordered(cache, recency)
    /\ RejectingSinceCritical

LEMMA NewCacheFits == Counted(NewCache) /\ Limited(NewCache) /\ Cached(NewCache) = {}
<1> DEFINE c == NewCache
<1>1. c.order = <<>> /\ c.bytes = 0
      /\ c \in [order : Seq(PrefixHashes), size : [PrefixHashes -> Nat], bytes : Nat]
    BY DEF NewCache
<1> HIDE DEF c
<1>2. Len(c.order) = 0 /\ 1 .. 0 = {}
    BY <1>1
<1>3. Cached(c) = {}
    BY <1>1, <1>2, ToSetDef DEF Cached
<1>4. BytesOf(c.size, Cached(c)) = 0 /\ IsFiniteSet(Cached(c)) /\ Cardinality(Cached(c)) = 0
    BY <1>3, BytesOfStep, FS_EmptySet
<1>5. Counted(c)
    BY <1>1, <1>2, <1>4 DEF Counted, Distinct
<1>6. Limited(c)
    BY <1>1, <1>2, KVCacheAssumption DEF Limited
<1> QED
    BY <1>3, <1>5, <1>6 DEF c

LEMMA NewCacheOrdered ==
    ASSUME NEW r \in Seq(PrefixHashes), Distinct(r)
    PROVE  Ordered(NewCache, r)
<1>1. \A x, y : ~Precedes(NewCache.order, x, y)
    BY DEF Precedes, NewCache
<1> QED
    BY <1>1, NewCacheFits DEF Ordered

LEMMA InitInv == Init => Inv
<1> SUFFICES ASSUME Init PROVE Inv
    OBVIOUS
<1>1. Min(OtherBytes) \in OtherBytes
    BY LeastNumber, PressureAssumption
<1>2. Counted(cache) /\ Limited(cache)
    BY NewCacheFits DEF Init
<1>3. Ordered(cache, recency)
    <2>1. recency = <<>> /\ cache = NewCache
        BY DEF Init
    <2>2. recency \in Seq(PrefixHashes) /\ Len(recency) = 0
        BY <2>1, EmptySeq
    <2>3. Distinct(recency)
        BY <2>2 DEF Distinct
    <2> QED
        BY <2>1, <2>2, <2>3, NewCacheOrdered
<1>4. cache \in [order : Seq(PrefixHashes), size : [PrefixHashes -> Nat], bytes : Nat]
    BY <1>2 DEF Counted
<1>5. 0 \in 0 .. MaxMemoryBytes \div 2 /\ 1 \in 1 .. Len(Ratios)
    BY KVCacheAssumption DEF Ratios
<1>6. TypeOK
    <2>1. /\ prefix \in [Threads -> PrefixHashes \cup {NoPrefix}]
          /\ pc \in [Threads -> {"idle", "forwarding", "generating"}]
          /\ \A t \in Threads : pc[t] # "forwarding"
        BY DEF Init
    <2>2. recency \in Seq(PrefixHashes)
        BY <1>3 DEF Ordered
    <2> QED
        BY <1>1, <1>4, <1>5, <2>1, <2>2 DEF Init, TypeOK, Level
<1>7. RejectingSinceCritical
    BY DEF Init, RejectingSinceCritical
<1> QED
    BY <1>2, <1>3, <1>6, <1>7 DEF Inv

\* What a change of the cache has to keep.
Fits(c, r) == Counted(c) /\ Limited(c) /\ Ordered(c, r)

LEMMA TrimmedFits ==
    ASSUME NEW c, NEW e, NEW r, Fits(c, r), Trimmed(e, c)
    PROVE  Fits(e, r)
<1>1. Counted(e)
    BY DEF Trimmed
<1>2. Limited(e)
    <2>1. /\ c.bytes \in Nat /\ e.bytes \in Nat /\ MaxMemoryBytes \in Nat /\ MaxEntries \in Nat
          /\ Len(c.order) \in Nat /\ Len(e.order) \in Nat
        BY <1>1, ToSetDef, KVCacheAssumption DEF Counted, Fits
    <2> QED
        BY <2>1 DEF Trimmed, Fits, Limited
<1>3. Ordered(e, r)
    BY DEF Trimmed, Fits, Ordered
<1> QED
    BY <1>1, <1>2, <1>3 DEF Fits

\* Storing an entry: it is the last used, and who is evicted was used before the rest.
LEMMA StoreFits ==
    ASSUME NEW c, NEW r, Fits(c, r), NEW k \in PrefixHashes, NEW m \in Nat, m <= MaxMemoryBytes
    PROVE  LET p == Put(c, k, m)
               u == Append(RemoveFirst(r, k), k)
           IN  /\ Fits(p, u)
               /\ \A gone \in Cached(c) \ Cached(p) : \A kept \in Cached(p) : Precedes(u, gone, kept)
<1> DEFINE p == Put(c, k, m)
           s == RemoveFirst(r, k)
           u == Append(s, k)
<1>1. /\ Counted(p) /\ Limited(p)
      /\ k \in Cached(p) /\ Cached(p) \subseteq Cached(c) \cup {k}
      /\ \A gone \in Cached(c) \ Cached(p) : \A kept \in Cached(p) :
             kept = k \/ Precedes(c.order, gone, kept)
      /\ \A x, y : Precedes(p.order, x, y) => x # k /\ (y = k \/ Precedes(c.order, x, y))
    BY PutResult DEF Fits
<1> HIDE DEF p
<1>2. Ordered(p, u)
    BY <1>1, UsedOrdered DEF Fits
<1>3. r \in Seq(PrefixHashes) /\ Distinct(r) /\ Cached(c) \subseteq ToSet(r)
    BY DEF Fits, Ordered
<1>4. /\ s \in Seq(PrefixHashes) /\ Distinct(s) /\ ToSet(s) = ToSet(r) \ {k}
      /\ \A x, y : Precedes(s, x, y) <=> x # k /\ y # k /\ Precedes(r, x, y)
    BY <1>3, RemoveKeepsOrder
<1> HIDE DEF s
<1>5. \A x, y : Precedes(u, x, y) <=> Precedes(s, x, y) \/ (x \in ToSet(s) /\ y = k)
    BY <1>4, AppendKeepsOrder
<1> HIDE DEF u
<1>6. ASSUME NEW gone \in Cached(c) \ Cached(p), NEW kept \in Cached(p)
      PROVE  Precedes(u, gone, kept)
    <2>1. gone # k /\ gone \in ToSet(s)
        BY <1>1, <1>3, <1>4
    <2>2. CASE kept = k
        BY <1>5, <2>1, <2>2
    <2>3. CASE kept # k
        <3>1. Precedes(c.order, gone, kept)
            BY <1>1, <2>3
        <3>2. Precedes(r, gone, kept)
            BY <3>1 DEF Fits, Ordered
        <3> QED
            BY <1>4, <1>5, <2>1, <2>3, <3>2
    <2> QED
        BY <2>2, <2>3
<1> QED
    BY <1>1, <1>2, <1>6 DEF Fits, p, s, u

\* What each step makes of the cache and the history of uses.
LEMMA StepFits ==
    ASSUME Inv, [Next]_vars
    PROVE  /\ Fits(cache', recency')
           /\ \A gone \in Cached(cache) \ Cached(cache') :
                  \A kept \in Cached(cache) \cap Cached(cache') : Precedes(recency', gone, kept)
<1>0. Fits(cache, recency)
    BY DEF Inv, Fits
<1>1. CASE cache' = cache /\ recency' = recency
    BY <1>0, <1>1
<1>2. ASSUME NEW t \in Threads, NEW p \in PrefixHashes, Hit(t, p)
      PROVE  Fits(cache', recency') /\ Cached(cache') = Cached(cache)
    <2>1. p \in Cached(cache) /\ cache' = Get(cache, p) /\ recency' = Append(RemoveFirst(recency, p), p)
        BY <1>2 DEF Hit, Used
    <2>2. /\ Counted(cache') /\ Limited(cache')
          /\ Cached(cache') = Cached(cache)
          /\ \A x, y : Precedes(cache'.order, x, y) =>
                           x # p /\ (y = p \/ Precedes(cache.order, x, y))
        BY <1>0, <2>1, GetResult DEF Fits
    <2>3. Ordered(cache', recency')
        BY <1>0, <2>1, <2>2, UsedOrdered DEF Fits
    <2> QED
        BY <2>2, <2>3 DEF Fits
<1>3. ASSUME NEW t \in Threads, StorePrefix(t)
      PROVE  /\ Fits(cache', recency')
             /\ \A gone \in Cached(cache) \ Cached(cache') :
                    \A kept \in Cached(cache') : Precedes(recency', gone, kept)
    <2> DEFINE p == prefix[t]
    <2>1. p \in PrefixHashes
        BY <1>3 DEF StorePrefix, Inv, TypeOK
    <2>2. PICK m \in Sizes[p] :
              /\ cache' = Put(cache, p, m)
              /\ IF m <= MaxMemoryBytes THEN recency' = Append(RemoveFirst(recency, p), p)
                                        ELSE recency' = recency
        BY <1>3 DEF StorePrefix, Used
    <2> HIDE DEF p
    <2>3. m \in Nat /\ MaxMemoryBytes \in Nat
        BY <2>1, KVCacheAssumption
    <2>4. CASE m <= MaxMemoryBytes
        <3> DEFINE q == Put(cache, p, m)
                   u == Append(RemoveFirst(recency, p), p)
        <3>1. cache' = q /\ recency' = u
            BY <2>2, <2>4
        <3>2. Fits(q, u) /\ \A gone \in Cached(cache) \ Cached(q) : \A kept \in Cached(q) : Precedes(u, gone, kept)
            BY <1>0, <2>1, <2>3, <2>4, StoreFits
        <3> HIDE DEF q, u
        <3> QED
            BY <3>1, <3>2
    <2>5. CASE m > MaxMemoryBytes
        <3>1. cache' = cache /\ recency' = recency
            BY <2>2, <2>3, <2>5 DEF Put
        <3> QED
            BY <1>0, <3>1
    <2> QED
        BY <2>3, <2>4, <2>5
<1>4. ASSUME Trimmed(cache', cache), recency' = recency
      PROVE  /\ Fits(cache', recency')
             /\ \A gone \in Cached(cache) \ Cached(cache') :
                    \A kept \in Cached(cache') : Precedes(recency', gone, kept)
    <2>1. Fits(cache', recency')
        BY <1>0, <1>4, TrimmedFits
    <2> QED
        BY <1>0, <1>4, <2>1 DEF Trimmed, Fits, Ordered
<1>5. CASE Evict
    <2>1. cache' = EvictLru(cache, toEvict) /\ recency' = recency
        BY <1>5 DEF Evict
    <2>2. Trimmed(cache', cache)
        BY <1>0, <2>1, EvictLruTrims DEF Fits
    <2> QED
        BY <1>4, <2>1, <2>2
<1>6. CASE Clear
    <2>1. cache' = NewCache /\ recency' = recency
        BY <1>6 DEF Clear
    <2> QED
        BY <1>0, <2>1, NewCacheFits, NewCacheOrdered DEF Fits, Ordered
<1>7. ASSUME Next, ~Evict, ~Clear,
             \A t \in Threads : ~StorePrefix(t) /\ \A p \in PrefixHashes : ~Hit(t, p)
      PROVE  cache' = cache /\ recency' = recency
    BY <1>7 DEF Next, ThreadStep, ShouldAdmit, Miss, Finish, OtherChanges, CheckUnchanged,
                EnterNormal, EnterHigh, Measure, EnterCritical, vars
<1>8. CASE UNCHANGED vars
    BY <1>1, <1>8 DEF vars
<1> QED
    BY <1>1, <1>2, <1>3, <1>5, <1>6, <1>7, <1>8, Zenon

\* A tenth, a quarter or a half of the bytes cached is at most half of the limit.
PartOf(b, ratio) == (b * ratio) \div 100

LEMMA PartOfTheBytes ==
    ASSUME NEW b \in Nat, NEW max \in Nat, b <= max, NEW ratio \in {10, 25, 50}
    PROVE  PartOf(b, ratio) \in 0 .. max \div 2
<1>1. CASE ratio = 10
    <2>1. (b * 10) \div 100 \in 0 .. max \div 2
        OBVIOUS
    <2> QED
        BY <1>1, <2>1 DEF PartOf
<1>2. CASE ratio = 25
    <2>1. (b * 25) \div 100 \in 0 .. max \div 2
        OBVIOUS
    <2> QED
        BY <1>2, <2>1 DEF PartOf
<1>3. CASE ratio = 50
    <2>1. (b * 50) \div 100 \in 0 .. max \div 2
        OBVIOUS
    <2> QED
        BY <1>3, <2>1 DEF PartOf
<1> QED
    BY <1>1, <1>2, <1>3

\* What a measurement asks the cache to evict.
LEMMA BytesToEvict ==
    ASSUME Fits(cache, recency), escalation \in 1 .. Len(Ratios)
    PROVE  (cache.bytes * Ratios[escalation]) \div 100 \in 0 .. MaxMemoryBytes \div 2
<1>1. cache.bytes \in Nat /\ cache.bytes <= MaxMemoryBytes /\ MaxMemoryBytes \in Nat
    BY KVCacheAssumption DEF Fits, Counted, Limited
<1>2. Ratios[escalation] \in {10, 25, 50}
    BY DEF Ratios
<1>3. PartOf(cache.bytes, Ratios[escalation]) \in 0 .. MaxMemoryBytes \div 2
    BY <1>1, <1>2, PartOfTheBytes
<1> QED
    BY <1>3 DEF PartOf

LEMMA StepTypeOK == TypeOK /\ Fits(cache, recency) /\ Fits(cache', recency') /\ [Next]_vars => TypeOK'
<1> SUFFICES ASSUME TypeOK, Fits(cache, recency), Fits(cache', recency'), [Next]_vars
             PROVE  TypeOK'
    OBVIOUS
<1> USE DEF TypeOK
<1>0. cache' \in [order : Seq(PrefixHashes), size : [PrefixHashes -> Nat], bytes : Nat] /\ recency' \in Seq(PrefixHashes)
    BY DEF Fits, Counted, Ordered
<1>1. ASSUME NEW t \in Threads, NEW p \in PrefixHashes, Hit(t, p)
      PROVE  TypeOK'
    BY <1>0, <1>1 DEF Hit, pressureVars
<1>2. ASSUME NEW t \in Threads, NEW p \in PrefixHashes, Miss(t, p)
      PROVE  TypeOK'
    BY <1>0, <1>2 DEF Miss, pressureVars
<1>3. ASSUME NEW t \in Threads, StorePrefix(t)
      PROVE  TypeOK'
    BY <1>0, <1>3 DEF StorePrefix, pressureVars
<1>4. ASSUME NEW t \in Threads, Finish(t)
      PROVE  TypeOK'
    BY <1>0, <1>4 DEF Finish, pressureVars
<1>5. CASE OtherChanges
    BY <1>0, <1>5 DEF OtherChanges, threadVars, pressureVars
<1>6. CASE CheckUnchanged
    BY <1>0, <1>6 DEF CheckUnchanged, vars, threadVars, pressureVars
<1>7. CASE EnterNormal
    <2>1. 1 \in 1 .. Len(Ratios)
        BY DEF Ratios
    <2> QED
        BY <1>0, <1>7, <2>1 DEF EnterNormal, threadVars, Level
<1>8. CASE EnterHigh
    BY <1>0, <1>8 DEF EnterHigh, threadVars, Level
<1>9. CASE Measure
    <2>1. (cache.bytes * Ratios[escalation]) \div 100 \in 0 .. MaxMemoryBytes \div 2
        BY BytesToEvict
    <2> QED
        BY <1>0, <1>9, <2>1 DEF Measure, threadVars
<1>10. CASE Evict
    <2>1. Min({escalation + 1, Len(Ratios)}) \in 1 .. Len(Ratios)
        <3> DEFINE T == {escalation + 1, Len(Ratios)}
        <3>1. Len(Ratios) = 3 /\ escalation \in 1 .. 3
            BY DEF Ratios
        <3>2. T \subseteq Nat /\ T # {} /\ \A m \in T : m >= 1
            BY <3>1
        <3> HIDE DEF T
        <3>3. Min(T) \in T /\ Min(T) <= Len(Ratios)
            <4>1. Min(T) \in T /\ \A m \in T : Min(T) <= m
                BY <3>2, LeastNumber
            <4>2. Len(Ratios) \in T
                BY DEF T
            <4> QED
                BY <4>1, <4>2
        <3>4. Min(T) \in 1 .. Len(Ratios)
            <4>1. Min(T) \in Nat /\ Min(T) >= 1
                BY <3>2, <3>3
            <4> QED
                BY <3>1, <3>3, <4>1
        <3> QED
            BY <3>4 DEF T
    <2>2. 0 \in 0 .. MaxMemoryBytes \div 2
        BY KVCacheAssumption
    <2> QED
        BY <1>0, <1>10, <2>1, <2>2 DEF Evict, threadVars
<1>11. CASE EnterCritical
    BY <1>0, <1>11 DEF EnterCritical, threadVars, Level
<1>12. CASE Clear
    BY <1>0, <1>12 DEF Clear, threadVars
<1>13. CASE UNCHANGED vars
    BY <1>13 DEF vars, threadVars, pressureVars
<1> QED
    BY <1>1, <1>2, <1>3, <1>4, <1>5, <1>6, <1>7, <1>8, <1>9, <1>10, <1>11, <1>12, <1>13
       DEF Next, ThreadStep, ShouldAdmit

LEMMA StepRejecting == TypeOK /\ RejectingSinceCritical /\ [Next]_vars => RejectingSinceCritical'
BY DEF TypeOK, RejectingSinceCritical, Next, ThreadStep, ShouldAdmit, Hit, Miss, StorePrefix, Finish,
       OtherChanges, CheckUnchanged, EnterNormal, EnterHigh, Measure, Evict, EnterCritical, Clear,
       vars, threadVars, pressureVars

LEMMA StepInv == Inv /\ [Next]_vars => Inv'
<1> SUFFICES ASSUME Inv, [Next]_vars PROVE Inv'
    OBVIOUS
<1>1. Fits(cache, recency) /\ TypeOK /\ RejectingSinceCritical
    BY DEF Inv, Fits
<1>2. Fits(cache', recency')
    BY StepFits
<1>3. TypeOK'
    BY <1>1, <1>2, StepTypeOK
<1>4. RejectingSinceCritical'
    BY <1>1, StepRejecting
<1> QED
    BY <1>2, <1>3, <1>4 DEF Inv, Fits

\* The invariant holds in every reachable state.
THEOREM InvHolds == Spec => []Inv
<1>1. Init => Inv
    BY InitInv
<1>2. Inv /\ [Next]_vars => Inv'
    BY StepInv
<1> QED
    BY <1>1, <1>2, PTL DEF Spec

\* Type correctness; the bytes to evict are bounded by half of the budget
\* because the cache was within it when it was measured.
THEOREM TypeCorrect == Spec => []TypeOK
<1>1. Inv => TypeOK
    BY DEF Inv
<1> QED
    BY <1>1, InvHolds, PTL

\* The memory counter is the sum of the entries and within the budget, whatever
\* threads put, hit, evict and clear in between.
THEOREM AccountingHolds == Spec => []Accounting
<1>1. Inv => Accounting
    BY DEF Inv, Counted, Limited, Accounting, BytesOf
<1> QED
    BY <1>1, InvHolds, PTL

\* A number of evictions after which the loops of put end.
PutEnds(c, k, m) ==
    LET room == Without(c, k) IN
    \E n \in 0 .. Len(room.order) :
        /\ HasRoom(EvictMany(room, n), m)
        /\ \A i \in 0 .. n - 1 : ~HasRoom(EvictMany(room, i), m) /\ EvictMany(room, i).order # <<>>

\* Whatever the threads left in the cache, the eviction loops of put end, and before
\* they would evict from an empty cache: nobody waits for the lock for ever.
THEOREM PutAlwaysEnds == Spec => [](\A k \in PrefixHashes, m \in Nat : PutEnds(cache, k, m))
<1>1. Inv => \A k \in PrefixHashes, m \in Nat : PutEnds(cache, k, m)
    <2> SUFFICES ASSUME Inv, NEW k \in PrefixHashes, NEW m \in Nat PROVE PutEnds(cache, k, m)
        OBVIOUS
    <2> DEFINE room == Without(cache, k)
               T == {i \in 0 .. Len(room.order) : HasRoom(EvictMany(room, i), m)}
    <2>1. Counted(room)
        BY WithoutCounted DEF Inv, Fits
    <2> HIDE DEF room
    <2>2. Len(room.order) \in Nat
        BY <2>1, ToSetDef DEF Counted
    <2>3. T \subseteq Nat /\ Len(room.order) \in T
        BY <2>1, <2>2, RoomInTheEnd
    <2> DEFINE n == Min(T)
    <2>4. n \in T /\ \A l \in T : n <= l
        <3> HIDE DEF T
        <3> QED
            BY <2>3, LeastNumber
    <2> HIDE DEF n
    <2>5. n \in 0 .. Len(room.order) /\ HasRoom(EvictMany(room, n), m)
        BY <2>4
    <2>6. ASSUME NEW i \in 0 .. n - 1
          PROVE  ~HasRoom(EvictMany(room, i), m) /\ EvictMany(room, i).order # <<>>
        <3>1. i \in 0 .. Len(room.order) /\ i # Len(room.order) /\ ~(n <= i)
            BY <2>2, <2>5
        <3>2. Len(EvictMany(room, i).order) = Len(room.order) - i /\ Counted(EvictMany(room, i))
            BY <2>1, <3>1, EvictManyTrims DEF Trimmed
        <3>3. EvictMany(room, i).order # <<>>
            BY <2>2, <3>1, <3>2, EmptySeq DEF Counted
        <3>4. ~HasRoom(EvictMany(room, i), m)
            BY <2>4, <3>1
        <3> QED
            BY <3>3, <3>4
    <2> QED
        BY <2>5, <2>6 DEF PutEnds, room
<1> QED
    BY <1>1, InvHolds, PTL

\* evict_lru frees what it is asked for or leaves nothing.
LEMMA EvictLruFrees ==
    ASSUME NEW c, Counted(c), NEW needed
    PROVE  \/ c.bytes - EvictLru(c, needed).bytes >= needed
           \/ EvictLru(c, needed).order = <<>>
<1> DEFINE enough == {i \in 0 .. Len(c.order) : c.bytes - EvictMany(c, i).bytes >= needed}
           T == enough \cup {Len(c.order)}
           n == Min(T)
<1>1. Len(c.order) \in Nat
    BY ToSetDef DEF Counted
<1>2. T \subseteq Nat /\ T # {}
    BY <1>1
<1>3. EvictLru(c, needed) = EvictMany(c, n)
    BY DEF EvictLru
<1>4. n \in T
    <2> HIDE DEF T
    <2> QED
        BY <1>2, LeastNumber
<1> HIDE DEF n
<1>5. CASE n \in enough
    BY <1>3, <1>5
<1>6. CASE n = Len(c.order)
    <2>1. n \in 0 .. Len(c.order)
        BY <1>1, <1>6
    <2>2. Counted(EvictMany(c, n)) /\ Len(EvictMany(c, n).order) = 0
        BY <1>1, <1>6, <2>1, EvictManyTrims DEF Trimmed
    <2>3. EvictMany(c, n).order = <<>>
        BY <2>2, EmptySeq DEF Counted
    <2> QED
        BY <1>3, <2>3
<1> QED
    BY <1>4, <1>5, <1>6

\* The pressure callback frees the bytes it measured, or the whole cache, also when
\* threads put and evicted between its measurement and its eviction.
THEOREM HighFreesEnough ==
    Spec => [][Evict => cache.bytes - cache'.bytes >= toEvict \/ cache'.order = <<>>]_vars
<1>1. Inv => (Evict => cache.bytes - cache'.bytes >= toEvict \/ cache'.order = <<>>)
    BY EvictLruFrees DEF Inv, Fits, Evict
<1> QED
    BY <1>1, InvHolds, PTL DEF Spec

\* The server rejects exactly since the level was CRITICAL, until it is NORMAL.
THEOREM RejectsSinceCritical == Spec => []RejectingSinceCritical
<1>1. Inv => RejectingSinceCritical
    BY DEF Inv
<1> QED
    BY <1>1, InvHolds, PTL

\* The positions of the last uses are in their order.
LEMMA StepEvictsOldest ==
    ASSUME Inv, [Next]_vars,
           NEW gone \in Cached(cache) \ Cached(cache'),
           NEW kept \in Cached(cache) \cap Cached(cache')
    PROVE  LastUse(gone)' < LastUse(kept)'
<1>1. Ordered(cache', recency') /\ Precedes(recency', gone, kept)
    BY StepFits DEF Fits
<1>2. recency' \in Seq(PrefixHashes) /\ Distinct(recency')
    BY <1>1 DEF Ordered
<1>3. DOMAIN recency' = 1 .. Len(recency')
    BY <1>2, LenProperties
<1>4. PICK i, j \in 1 .. Len(recency') : i < j /\ recency'[i] = gone /\ recency'[j] = kept
    BY <1>1 DEF Precedes
<1>5. LastUse(gone)' = i /\ LastUse(kept)' = j
    BY <1>2, <1>3, <1>4 DEF LastUse, Distinct
<1> QED
    BY <1>4, <1>5

\* Whoever evicts takes the entries whose last use is the longest ago.
THEOREM EvictsOldestHolds == Spec => EvictsOldest
<1>1. Inv /\ [Next]_vars =>
        [\A gone \in Cached(cache) \ Cached(cache') :
             \A kept \in Cached(cache) \cap Cached(cache') : LastUse(gone)' < LastUse(kept)']_vars
    BY StepEvictsOldest
<1> QED
    BY <1>1, InvHolds, PTL DEF Spec, EvictsOldest
=============================================================================
