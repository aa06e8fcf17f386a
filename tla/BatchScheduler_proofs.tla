------------------------- MODULE BatchScheduler_proofs -------------------------
(***************************************************************************)
(* Proofs about BatchScheduler, for every number of requests, every batch  *)
(* size, with cancelled callers and stop() at any moment, and for all      *)
(* prompts, limits, temperatures and continuations.                        *)
(***************************************************************************)
EXTENDS BatchScheduler, SequenceTheorems, WellFoundedInduction, TLAPS

USE DEF CallerState, Settled, FutureState, CollectorState, collectorVars, stopVars

-----------------------------------------------------------------------------
(***************************************************************************)
(* Sequences.                                                              *)
(***************************************************************************)
LEMMA FunctionIsSeq ==
    ASSUME NEW S, NEW n \in Nat, NEW f \in [1 .. n -> S]
    PROVE  f \in Seq(S) /\ Len(f) = n
<1>1. f = [i \in 1 .. n |-> f[i]] /\ \A i \in 1 .. n : f[i] \in S
    OBVIOUS
<1> DEFINE g == [i \in 1 .. n |-> f[i]]
<1>2. g \in Seq(S) /\ Len(g) = n
    BY <1>1
<1> QED
    BY <1>1, <1>2

LEMMA PrefixElements ==
    ASSUME NEW S, NEW s \in Seq(S), NEW n \in 0 .. Len(s)
    PROVE  /\ SubSeq(s, 1, n) \in Seq(S) /\ Len(SubSeq(s, 1, n)) = n
           /\ \A i \in 1 .. n : SubSeq(s, 1, n)[i] = s[i]
<1> DEFINE k == 1
           l == Len(s)
<1>0. l \in Nat /\ n \in 0 .. l /\ \A i \in 1 .. l : s[i] \in S
    BY LenProperties, ElementOfSeq
<1> HIDE DEF l
<1>1. k \in Int /\ n \in Int /\ \A i \in k .. n : s[i] \in S
    BY <1>0
<1>2. \A i \in 1 .. n : i \in 1 .. n - k + 1 /\ k + i - 1 = i
    BY <1>0
<1>3. (k <= n => n - k + 1 = n) /\ (~(k <= n) => n = 0)
    BY <1>0
<1> HIDE DEF k
<1> DEFINE u == SubSeq(s, k, n)
<1>4. /\ u \in Seq(S) /\ Len(u) = IF k <= n THEN n - k + 1 ELSE 0
      /\ \A i \in 1 .. n - k + 1 : u[i] = s[k + i - 1]
    BY <1>1, SubSeqProperties
<1> HIDE DEF u
<1>5. ASSUME NEW i \in 1 .. n
      PROVE  u[i] = s[i]
    <2>1. i \in 1 .. n - k + 1 /\ k + i - 1 = i
        BY <1>2
    <2>2. u[i] = s[k + i - 1]
        BY <1>4, <2>1, Zenon
    <2> QED
        BY <2>1, <2>2
<1>6. Len(u) = IF k <= n THEN n - k + 1 ELSE 0
    BY <1>4
<1>7. Len(u) = n
    BY <1>3, <1>6, Zenon
<1> QED
    BY <1>4, <1>5, <1>7, Zenon DEF u, k

LEMMA SuffixElements ==
    ASSUME NEW S, NEW s \in Seq(S), NEW m \in 0 .. Len(s)
    PROVE  /\ SubSeq(s, m + 1, Len(s)) \in Seq(S)
           /\ Len(SubSeq(s, m + 1, Len(s))) = Len(s) - m
           /\ \A i \in 1 .. Len(s) - m : SubSeq(s, m + 1, Len(s))[i] = s[m + i]
<1> DEFINE l == Len(s)
<1>1. l \in Nat /\ m \in Nat /\ m <= l
    BY LenProperties
<1>2. \A i \in 1 .. l : s[i] \in S
    BY ElementOfSeq
<1> HIDE DEF l
<1>3. m + 1 \in Int /\ l \in Int /\ \A i \in m + 1 .. l : s[i] \in S
    BY <1>1, <1>2
<1>4. /\ SubSeq(s, m + 1, l) \in Seq(S)
      /\ Len(SubSeq(s, m + 1, l)) = IF m + 1 <= l THEN l - (m + 1) + 1 ELSE 0
      /\ \A i \in 1 .. l - (m + 1) + 1 : SubSeq(s, m + 1, l)[i] = s[(m + 1) + i - 1]
    BY <1>3, SubSeqProperties
<1>5. /\ l - (m + 1) + 1 = l - m /\ (~(m + 1 <= l) => l - m = 0)
      /\ \A i \in 1 .. l - m : (m + 1) + i - 1 = m + i
    BY <1>1
<1> QED
    BY <1>4, <1>5 DEF l

\* c is a and then b.
Joins(c, a, b) ==
    /\ Len(c) = Len(a) + Len(b)
    /\ \A i \in 1 .. Len(a) : c[i] = a[i]
    /\ \A i \in 1 .. Len(b) : c[Len(a) + i] = b[i]

LEMMA ConcatJoins ==
    ASSUME NEW S, NEW a \in Seq(S), NEW b \in Seq(S)
    PROVE  Joins(a \o b, a, b)
<1> DEFINE c == a \o b
<1>1. Len(a) \in Nat /\ Len(b) \in Nat
    BY LenProperties
<1>2. /\ c \in Seq(S) /\ Len(c) = Len(a) + Len(b)
      /\ \A i \in 1 .. Len(a) + Len(b) : c[i] = IF i <= Len(a) THEN a[i] ELSE b[i - Len(a)]
    BY ConcatProperties
<1> HIDE DEF c
<1>3. \A i \in 1 .. Len(a) : i \in 1 .. Len(a) + Len(b) /\ i <= Len(a)
    BY <1>1
<1>4. \A i \in 1 .. Len(b) : /\ Len(a) + i \in 1 .. Len(a) + Len(b)
                             /\ ~(Len(a) + i <= Len(a)) /\ (Len(a) + i) - Len(a) = i
    BY <1>1
<1>5. \A i \in 1 .. Len(b) : c[Len(a) + i] = b[i]
    BY <1>2, <1>4
<1>6. \A i \in 1 .. Len(a) : c[i] = a[i]
    BY <1>2, <1>3
<1> QED
    BY <1>2, <1>5, <1>6 DEF Joins, c

LEMMA SuffixOfConcat ==
    ASSUME NEW S, NEW a \in Seq(S), NEW b \in Seq(S)
    PROVE  SubSeq(a \o b, Len(a) + 1, Len(a \o b)) = b
<1> DEFINE c == a \o b
           rest == SubSeq(c, Len(a) + 1, Len(c))
<1>1. /\ Len(a) \in Nat /\ Len(b) \in Nat /\ c \in Seq(S) /\ Len(c) = Len(a) + Len(b)
      /\ \A i \in 1 .. Len(b) : c[Len(a) + i] = b[i]
    <2>1. Joins(c, a, b)
        BY ConcatJoins
    <2> QED
        BY <2>1, LenProperties DEF Joins
<1> HIDE DEF c
<1>2. Len(a) \in 0 .. Len(c) /\ Len(c) - Len(a) = Len(b)
    BY <1>1
<1>3. /\ rest \in Seq(S) /\ Len(rest) = Len(c) - Len(a)
      /\ \A i \in 1 .. Len(c) - Len(a) : rest[i] = c[Len(a) + i]
    BY <1>1, <1>2, SuffixElements
<1> HIDE DEF rest
<1>4. Len(rest) = Len(b) /\ \A i \in 1 .. Len(rest) : rest[i] = b[i]
    BY <1>1, <1>2, <1>3
<1>5. rest = b
    BY <1>3, <1>4, SeqEqual
<1> QED
    BY <1>5 DEF rest, c

-----------------------------------------------------------------------------
(***************************************************************************)
(* What the executor does with a batch (BatchForward).  First, induction   *)
(* over the numbers: the set of those for which a fact holds takes the     *)
(* place of a predicate.                                                   *)
(***************************************************************************)
LEMMA LeastNumber ==
    ASSUME NEW T, T \subseteq Nat, T # {}
    PROVE  /\ Min(T) \in T
           /\ \A m \in T : Min(T) <= m
<1>1. PICK n \in T : \A m \in T : ~(<<m, n>> \in OpToRel(<, Nat))
    BY WFMin, NatLessThanWellFounded
<1>2. ASSUME NEW m \in T PROVE n <= m
    <2>1. n \in Nat /\ m \in Nat
        OBVIOUS
    <2>2. m < n => <<m, n>> \in OpToRel(<, Nat)
        BY <2>1 DEF OpToRel
    <2>3. ~(m < n)
        BY <1>1, <2>2, Zenon
    <2> QED
        BY <2>1, <2>3
<1> QED
    BY <1>2 DEF Min

LEMMA NumberInduction ==
    ASSUME NEW G, 0 \in G, \A n \in Nat : n \in G => n + 1 \in G
    PROVE  Nat \subseteq G
<1> DEFINE Bad == Nat \ G
           n == Min(Bad)
<1>1. SUFFICES ASSUME Bad # {} PROVE FALSE
    OBVIOUS
<1>2. n \in Bad /\ \A m \in Bad : n <= m
    <2>1. Bad \subseteq Nat
        OBVIOUS
    <2> HIDE DEF Bad
    <2> QED
        BY <1>1, <2>1, LeastNumber
<1> HIDE DEF n
<1>3. n \in Nat /\ n # 0 /\ n \notin G
    BY <1>2
<1>4. n - 1 \in Nat /\ ~(n <= n - 1) /\ (n - 1) + 1 = n
    BY <1>3
<1>5. n - 1 \in G
    BY <1>2, <1>4
<1> QED
    BY <1>3, <1>4, <1>5

LEMMA InductionTo ==
    ASSUME NEW m \in Nat, NEW G, 0 \in G, \A n \in 0 .. m - 1 : n \in G => n + 1 \in G
    PROVE  0 .. m \subseteq G
<1> DEFINE H == {n \in Nat : n <= m => n \in G}
<1>1. 0 \in H
    OBVIOUS
<1>2. ASSUME NEW n \in Nat, n \in H PROVE n + 1 \in H
    <2> SUFFICES ASSUME n + 1 <= m PROVE n + 1 \in G
        OBVIOUS
    <2>1. n \in 0 .. m - 1 /\ n <= m
        OBVIOUS
    <2> QED
        BY <1>2, <2>1
<1> HIDE DEF H
<1>3. Nat \subseteq H
    BY <1>1, <1>2, NumberInduction
<1> QED
    BY <1>3 DEF H

-----------------------------------------------------------------------------
(***************************************************************************)
(* The elements that are picked from a sequence.                           *)
(***************************************************************************)
Picks(f, s, keep, m) ==
    f = [n \in 0 .. m |-> IF n = 0 THEN <<>>
                          ELSE IF keep[n] THEN Append(f[n - 1], s[n])
                          ELSE f[n - 1]]

UpTo(s, keep) == CHOOSE f : Picks(f, s, keep, Len(s))

LEMMA PickedIsUpTo == \A s, keep : Picked(s, keep) = UpTo(s, keep)[Len(s)]
BY DEF Picked, UpTo, Picks

\* u[n] is what is picked of the first n elements.
Collects(u, s, keep) ==
    /\ u[0] = <<>>
    /\ \A n \in 0 .. Len(s) - 1 :
           u[n + 1] = IF keep[n + 1] THEN Append(u[n], s[n + 1]) ELSE u[n]

LEMMA UpToCollects ==
    ASSUME NEW s, Len(s) \in Nat, NEW keep
    PROVE  Collects(UpTo(s, keep), s, keep)
<1> DEFINE N == {m \in Nat : \E f : Picks(f, s, keep, m)}
           u == UpTo(s, keep)
<1>1. 0 \in N
    <2> DEFINE f == [n \in 0 .. 0 |-> <<>>]
    <2>1. Picks(f, s, keep, 0)
        BY DEF Picks
    <2> QED
        BY <2>1
<1>2. ASSUME NEW m \in Nat, m \in N
      PROVE  m + 1 \in N
    <2>1. PICK f : Picks(f, s, keep, m)
        BY <1>2
    <2> DEFINE g == [n \in 0 .. m + 1 |-> IF n = 0 THEN <<>>
                                          ELSE IF keep[n] THEN Append(f[n - 1], s[n])
                                          ELSE f[n - 1]]
    <2>2. \A n \in 0 .. m : f[n] = IF n = 0 THEN <<>>
                                   ELSE IF keep[n] THEN Append(f[n - 1], s[n])
                                   ELSE f[n - 1]
        BY <2>1, Zenon DEF Picks
    <2>3. \A n \in 0 .. m : n \in 0 .. m + 1
        OBVIOUS
    <2>4. \A n \in 0 .. m : g[n] = f[n]
        BY <2>2, <2>3, Zenon
    <2>5. \A n \in 0 .. m + 1 : n # 0 => n - 1 \in 0 .. m
        OBVIOUS
    <2>6. \A n \in 0 .. m + 1 : n # 0 => g[n - 1] = f[n - 1]
        BY <2>4, <2>5
    <2>7. g = [n \in 0 .. m + 1 |-> IF n = 0 THEN <<>>
                                    ELSE IF keep[n] THEN Append(g[n - 1], s[n])
                                    ELSE g[n - 1]]
        BY <2>6
    <2>8. \E h : Picks(h, s, keep, m + 1)
        BY <2>7 DEF Picks
    <2> QED
        BY <2>8
<1> HIDE DEF N
<1>3. Len(s) \in N
    BY <1>1, <1>2, NumberInduction
<1>4. \E f : Picks(f, s, keep, Len(s))
    BY <1>3 DEF N
<1>5. u = [n \in 0 .. Len(s) |-> IF n = 0 THEN <<>>
                                 ELSE IF keep[n] THEN Append(u[n - 1], s[n])
                                 ELSE u[n - 1]]
    BY <1>4 DEF UpTo, Picks
<1> HIDE DEF u
<1>6. u[0] = <<>>
    BY <1>5
<1>7. ASSUME NEW n \in 0 .. Len(s) - 1
      PROVE  u[n + 1] = IF keep[n + 1] THEN Append(u[n], s[n + 1]) ELSE u[n]
    <2>1. n + 1 \in 0 .. Len(s) /\ n + 1 # 0 /\ (n + 1) - 1 = n
        OBVIOUS
    <2>2. u[n + 1] = IF n + 1 = 0 THEN <<>>
                     ELSE IF keep[n + 1] THEN Append(u[(n + 1) - 1], s[n + 1])
                     ELSE u[(n + 1) - 1]
        BY <1>5, <2>1, Zenon
    <2> QED
        BY <2>1, <2>2
<1> QED
    BY <1>6, <1>7 DEF Collects, u

\* s is q after p elements, and keep marks the elements of q.
MarkedAfter(s, keep, p, q) ==
    /\ Len(s) = p + Len(q)
    /\ \A j \in 1 .. Len(q) : s[p + j] = q[j]
    /\ \A j \in 1 .. Len(s) : keep[j] = (j > p)

\* Of a sequence whose first p elements are skipped the rest is picked.
LEMMA PickedSuffix ==
    ASSUME NEW S, NEW s \in Seq(S), NEW q \in Seq(S), NEW p \in Nat, NEW keep,
           MarkedAfter(s, keep, p, q)
    PROVE  Picked(s, keep) = q
<1> DEFINE u == UpTo(s, keep)
<1>0. Len(s) \in Nat /\ Len(q) \in Nat
    BY LenProperties
<1>m. /\ Len(s) = p + Len(q)
      /\ \A j \in 1 .. Len(q) : s[p + j] = q[j]
      /\ \A j \in 1 .. Len(s) : keep[j] = (j > p)
    BY DEF MarkedAfter
<1>c. Collects(u, s, keep)
    BY <1>0, UpToCollects
<1> HIDE DEF u
<1>1. /\ u[0] = <<>>
      /\ \A n \in 0 .. Len(s) - 1 : u[n + 1] = IF keep[n + 1] THEN Append(u[n], s[n + 1]) ELSE u[n]
    BY <1>c DEF Collects
<1>2. u[p] = <<>>
    <2> DEFINE G == {n \in 0 .. p : u[n] = <<>>}
    <2>1. 0 \in G
        BY <1>1
    <2>2. ASSUME NEW n \in 0 .. p - 1, n \in G PROVE n + 1 \in G
        <3>1. n \in 0 .. Len(s) - 1 /\ n + 1 \in 1 .. Len(s) /\ ~(n + 1 > p) /\ n + 1 \in 0 .. p
            BY <1>0, <1>m
        <3> QED
            BY <1>m, <1>1, <2>2, <3>1
    <2> HIDE DEF G
    <2>3. 0 .. p \subseteq G
        BY <2>1, <2>2, InductionTo
    <2>4. p \in 0 .. p
        OBVIOUS
    <2> QED
        BY <2>3, <2>4 DEF G
<1>3. u[p + Len(q)] = SubSeq(q, 1, Len(q))
    <2> DEFINE G == {n \in 0 .. Len(q) : u[p + n] = SubSeq(q, 1, n)}
    <2>1. 0 \in G
        <3>1. SubSeq(q, 1, 0) = <<>>
            BY SubSeqEmpty
        <3>2. p + 0 = p /\ 0 \in 0 .. Len(q)
            BY <1>0, <1>m
        <3> QED
            BY <1>2, <3>1, <3>2
    <2>2. ASSUME NEW n \in 0 .. Len(q) - 1, n \in G PROVE n + 1 \in G
        <3>1. /\ p + n \in 0 .. Len(s) - 1 /\ (p + n) + 1 \in 1 .. Len(s) /\ (p + n) + 1 > p
              /\ n + 1 \in 0 .. Len(q) /\ (p + n) + 1 = p + (n + 1) /\ n + 1 \in 1 .. Len(q)
              /\ (n + 1) - 1 = n
            BY <1>0, <1>m
        <3>2. u[(p + n) + 1] = Append(u[p + n], s[(p + n) + 1])
            BY <1>m, <1>1, <3>1
        <3>3. s[(p + n) + 1] = q[n + 1]
            <4>1. s[p + (n + 1)] = q[n + 1]
                BY <1>m, <3>1, Zenon
            <4> QED
                BY <3>1, <4>1
        <3>4. SubSeq(q, 1, n + 1) = Append(SubSeq(q, 1, n), q[n + 1])
            <4>0. 1 \in 1 .. Len(q) /\ n + 1 \in 1 .. Len(q)
                BY <1>0, <3>1
            <4>1. SubSeq(q, 1, n + 1) = SubSeq(q, 1, (n + 1) - 1) \o <<q[n + 1]>>
                BY <4>0, SubSeqRecursiveSecond
            <4>2. SubSeq(q, 1, n) \in Seq(S)
                BY <1>0, <3>1, SubSeqProperties, ElementOfSeq
            <4>3. q[n + 1] \in S
                BY <4>0, ElementOfSeq
            <4>4. Append(SubSeq(q, 1, n), q[n + 1]) = SubSeq(q, 1, n) \o <<q[n + 1]>>
                BY <4>2, <4>3, AppendIsConcat
            <4> QED
                BY <3>1, <4>1, <4>4
        <3> QED
            BY <2>2, <3>1, <3>2, <3>3, <3>4
    <2> HIDE DEF G
    <2>3. 0 .. Len(q) \subseteq G
        BY <1>0, <2>1, <2>2, InductionTo
    <2>4. Len(q) \in 0 .. Len(q)
        BY <1>0, <1>m
    <2> QED
        BY <2>3, <2>4 DEF G
<1>4. SubSeq(q, 1, Len(q)) = q
    BY SubSeqFull
<1>5. u[Len(s)] = q
    BY <1>m, <1>3, <1>4
<1> QED
    BY <1>5, PickedIsUpTo, Zenon DEF u

\* Padding at the end leaves no trace in the text.
LEMMA TextOfPadded ==
    ASSUME NEW S, NEW a \in Seq(S), NEW b \in Seq(S), Len(a) <= Len(b),
           \A j \in 1 .. Len(a) : b[j] = a[j],
           \A j \in Len(a) + 1 .. Len(b) : b[j] = Pad
    PROVE  Text(b) = Text(a)
<1> DEFINE ka == [j \in DOMAIN a |-> a[j] # Pad]
           kb == [j \in DOMAIN b |-> b[j] # Pad]
           u == UpTo(a, ka)
           v == UpTo(b, kb)
<1>0. Len(a) \in Nat /\ Len(b) \in Nat /\ DOMAIN a = 1 .. Len(a) /\ DOMAIN b = 1 .. Len(b)
    BY LenProperties
<1>1. /\ \A j \in 1 .. Len(a) : ka[j] = (a[j] # Pad)
      /\ \A j \in 1 .. Len(b) : kb[j] = (b[j] # Pad)
    BY <1>0
<1> HIDE DEF ka, kb
<1>c. Collects(u, a, ka) /\ Collects(v, b, kb)
    BY <1>0, UpToCollects
<1> HIDE DEF u, v
<1>2. /\ u[0] = <<>>
      /\ \A n \in 0 .. Len(a) - 1 : u[n + 1] = IF ka[n + 1] THEN Append(u[n], a[n + 1]) ELSE u[n]
    BY <1>c DEF Collects
<1>3. /\ v[0] = <<>>
      /\ \A n \in 0 .. Len(b) - 1 : v[n + 1] = IF kb[n + 1] THEN Append(v[n], b[n + 1]) ELSE v[n]
    BY <1>c DEF Collects
<1>4. v[Len(a)] = u[Len(a)]
    <2> DEFINE G == {n \in 0 .. Len(a) : v[n] = u[n]}
    <2>1. 0 \in G
        BY <1>0, <1>2, <1>3
    <2>2. ASSUME NEW n \in 0 .. Len(a) - 1, n \in G PROVE n + 1 \in G
        <3>1. n \in 0 .. Len(b) - 1 /\ n + 1 \in 1 .. Len(a) /\ n + 1 \in 1 .. Len(b) /\ n + 1 \in 0 .. Len(a)
            BY <1>0
        <3>2. b[n + 1] = a[n + 1] /\ kb[n + 1] = ka[n + 1]
            BY <1>1, <3>1
        <3> QED
            BY <1>2, <1>3, <2>2, <3>1, <3>2
    <2> HIDE DEF G
    <2>3. 0 .. Len(a) \subseteq G
        BY <1>0, <2>1, <2>2, InductionTo
    <2>4. Len(a) \in 0 .. Len(a)
        BY <1>0
    <2> QED
        BY <2>3, <2>4 DEF G
<1>5. v[Len(b)] = v[Len(a)]
    <2> DEFINE rest == Len(b) - Len(a)
               G == {n \in 0 .. rest : v[Len(a) + n] = v[Len(a)]}
    <2>0. rest \in Nat
        BY <1>0
    <2>1. 0 \in G
        BY <1>0
    <2>2. ASSUME NEW n \in 0 .. rest - 1, n \in G PROVE n + 1 \in G
        <3>1. /\ Len(a) + n \in 0 .. Len(b) - 1 /\ (Len(a) + n) + 1 \in Len(a) + 1 .. Len(b)
              /\ (Len(a) + n) + 1 \in 1 .. Len(b) /\ (Len(a) + n) + 1 = Len(a) + (n + 1)
              /\ n + 1 \in 0 .. rest
            BY <1>0
        <3>2. ~kb[(Len(a) + n) + 1]
            BY <1>1, <3>1
        <3>3. v[(Len(a) + n) + 1] = v[Len(a) + n]
            BY <1>3, <3>1, <3>2
        <3> QED
            BY <2>2, <3>1, <3>3
    <2> HIDE DEF G
    <2>3. 0 .. rest \subseteq G
        BY <2>0, <2>1, <2>2, InductionTo
    <2>4. rest \in 0 .. rest /\ Len(a) + rest = Len(b)
        BY <1>0
    <2> QED
        <3>1. rest \in G
            BY <2>3, <2>4
        <3>2. v[Len(a) + rest] = v[Len(a)]
            BY <3>1 DEF G
        <3> HIDE DEF rest
        <3> QED
            BY <2>4, <3>2
<1> QED
    BY <1>4, <1>5, PickedIsUpTo DEF Text, u, v, ka, kb

\* What is picked of a sequence is one of the same elements.
LEMMA PickedType ==
    ASSUME NEW S, NEW s \in Seq(S), NEW keep
    PROVE  Picked(s, keep) \in Seq(S)
<1> DEFINE u == UpTo(s, keep)
           G == {n \in 0 .. Len(s) : u[n] \in Seq(S)}
<1>0. Len(s) \in Nat
    BY LenProperties
<1>c. Collects(u, s, keep)
    BY <1>0, UpToCollects
<1> HIDE DEF u
<1>1. u[0] = <<>> /\ <<>> \in Seq(S)
    BY <1>c DEF Collects
<1>2. 0 \in G
    <2>1. 0 \in 0 .. Len(s) /\ u[0] \in Seq(S)
        BY <1>0, <1>1
    <2> QED
        BY <2>1
<1>3. ASSUME NEW n \in 0 .. Len(s) - 1, n \in G PROVE n + 1 \in G
    <2>1. n + 1 \in 0 .. Len(s) /\ n + 1 \in 1 .. Len(s) /\ u[n] \in Seq(S)
        BY <1>0, <1>3
    <2>2. s[n + 1] \in S
        BY <2>1, ElementOfSeq
    <2>3. u[n + 1] = IF keep[n + 1] THEN Append(u[n], s[n + 1]) ELSE u[n]
        BY <1>c DEF Collects
    <2>4. Append(u[n], s[n + 1]) \in Seq(S)
        BY <2>1, <2>2, AppendProperties
    <2> QED
        BY <2>1, <2>3, <2>4
<1> HIDE DEF G
<1>4. 0 .. Len(s) \subseteq G
    BY <1>0, <1>2, <1>3, InductionTo
<1>5. Len(s) \in 0 .. Len(s)
    BY <1>0
<1>6. u[Len(s)] \in Seq(S)
    BY <1>4, <1>5 DEF G
<1> QED
    BY <1>6, PickedIsUpTo, Zenon DEF u

-----------------------------------------------------------------------------
(***************************************************************************)
(* The rows of a batch.                                                    *)
(***************************************************************************)

\* The largest of finitely many numbers.
LEMMA LargestNumber ==
    ASSUME NEW m \in Nat \ {0}, NEW f, \A i \in 1 .. m : f[i] \in Nat
    PROVE  LET T == {f[i] : i \in 1 .. m} IN
           /\ Max(T) \in Nat
           /\ Max(T) \in T
           /\ \A i \in 1 .. m : f[i] <= Max(T)
<1> DEFINE T == {f[i] : i \in 1 .. m}
           G == {n \in 0 .. m - 1 : \E j \in 1 .. n + 1 : \A i \in 1 .. n + 1 : f[i] <= f[j]}
<1>1. 0 \in G
    BY DEF G
<1>2. ASSUME NEW n \in 0 .. (m - 1) - 1, n \in G PROVE n + 1 \in G
    <2>1. PICK j \in 1 .. n + 1 : \A i \in 1 .. n + 1 : f[i] <= f[j]
        BY <1>2
    <2>2. n + 1 \in 0 .. m - 1 /\ j \in 1 .. m /\ (n + 1) + 1 \in 1 .. m /\ j \in 1 .. (n + 1) + 1
            /\ (n + 1) + 1 \in 1 .. (n + 1) + 1
            /\ \A i \in 1 .. (n + 1) + 1 : i \in 1 .. n + 1 \/ i = (n + 1) + 1
        OBVIOUS
    <2>3. f[j] \in Nat /\ f[(n + 1) + 1] \in Nat /\ \A i \in 1 .. n + 1 : f[i] \in Nat
        BY <2>2
    <2>4. CASE f[(n + 1) + 1] <= f[j]
        <3>1. \A i \in 1 .. (n + 1) + 1 : f[i] <= f[j]
            BY <2>1, <2>2, <2>4
        <3> QED
            BY <2>2, <3>1
    <2>5. CASE ~(f[(n + 1) + 1] <= f[j])
        <3>1. \A i \in 1 .. (n + 1) + 1 : f[i] <= f[(n + 1) + 1]
            BY <2>1, <2>2, <2>3, <2>5
        <3> QED
            BY <2>2, <3>1
    <2> QED
        BY <2>4, <2>5
<1> HIDE DEF G
<1>3. m - 1 \in 0 .. m - 1 /\ m - 1 \in Nat /\ (m - 1) + 1 = m
    OBVIOUS
<1>4. m - 1 \in G
    BY <1>1, <1>2, <1>3, InductionTo
<1>5. PICK j \in 1 .. m : \A i \in 1 .. m : f[i] <= f[j]
    BY <1>3, <1>4 DEF G
<1>6. \A x \in T : x \in Nat /\ x <= f[j]
    BY <1>5
<1>7. f[j] \in T
    OBVIOUS
<1> HIDE DEF T
<1>8. Max(T) = f[j]
    BY <1>6, <1>7 DEF Max
<1> QED
    BY <1>5, <1>6, <1>7, <1>8 DEF T

LEMMA Inputs ==
    ASSUME NEW r \in Requests
    PROVE  /\ Prompt[r] \in Seq(Nat) /\ Len(Prompt[r]) \in Nat
           /\ Prompt[r] \in DOMAIN Continuations
           /\ \A t \in Temperatures :
                 Continuations[Prompt[r]][t] # {} /\ Continuations[Prompt[r]][t] \subseteq Seq(Nat)
           /\ Temperature[r] \in Nat /\ Temperature[r] \in Temperatures
           /\ MaxTokens[r] \in Nat \ {0}
           /\ Pad \in Nat
<1>1. /\ Prompt[r] \in Seq(Nat) /\ Prompt[r] \in DOMAIN Continuations
      /\ \A t \in Temperatures :
            Continuations[Prompt[r]][t] # {} /\ Continuations[Prompt[r]][t] \subseteq Seq(Nat)
      /\ Temperature[r] \in Nat /\ MaxTokens[r] \in Nat \ {0} /\ Pad \in Nat
    BY ForwardAssumption
<1>2. Temperature[r] \in Temperatures
    BY DEF Temperatures
<1>3. Len(Prompt[r]) \in Nat
    BY <1>1, LenProperties
<1> QED
    BY <1>1, <1>2, <1>3

LEMMA BatchShape ==
    ASSUME NEW b \in Seq(Requests), NEW i \in DOMAIN b
    PROVE  /\ DOMAIN b = 1 .. Len(b)
           /\ Len(b) \in Nat \ {0}
           /\ \A k \in 1 .. Len(b) : b[k] \in Requests
BY ElementOfSeq, LenProperties

\* No prompt is wider than the batch, no limit larger than its own, no request
\* warmer; and some request is as warm.
LEMMA BatchLimits ==
    ASSUME NEW b \in Seq(Requests), NEW i \in DOMAIN b
    PROVE  /\ Width(b) \in Nat /\ Len(Prompt[b[i]]) <= Width(b)
           /\ MaxNewTokens(b) \in Nat /\ MaxTokens[b[i]] <= MaxNewTokens(b)
           /\ BatchTemperature(b) \in Temperatures /\ BatchTemperature(b) \in Nat
           /\ Temperature[b[i]] <= BatchTemperature(b)
<1>0. DOMAIN b = 1 .. Len(b) /\ Len(b) \in Nat \ {0} /\ \A k \in 1 .. Len(b) : b[k] \in Requests
    BY BatchShape
<1>1. Width(b) \in Nat /\ Len(Prompt[b[i]]) <= Width(b)
    <2> DEFINE f == [k \in 1 .. Len(b) |-> Len(Prompt[b[k]])]
    <2>1. \A k \in 1 .. Len(b) : f[k] \in Nat
        BY <1>0, Inputs
    <2>2. Width(b) = Max({f[k] : k \in 1 .. Len(b)})
        <3>1. {Len(Prompt[b[k]]) : k \in DOMAIN b} = {f[k] : k \in 1 .. Len(b)}
            BY <1>0
        <3> QED
            BY <3>1 DEF Width
    <2>3. f[i] = Len(Prompt[b[i]])
        BY <1>0
    <2> HIDE DEF f
    <2>4. /\ Max({f[k] : k \in 1 .. Len(b)}) \in Nat
          /\ \A k \in 1 .. Len(b) : f[k] <= Max({f[j] : j \in 1 .. Len(b)})
        BY <1>0, <2>1, LargestNumber
    <2> QED
        BY <1>0, <2>2, <2>3, <2>4
<1>2. MaxNewTokens(b) \in Nat /\ MaxTokens[b[i]] <= MaxNewTokens(b)
    <2> DEFINE f == [k \in 1 .. Len(b) |-> MaxTokens[b[k]]]
    <2>1. \A k \in 1 .. Len(b) : f[k] \in Nat
        BY <1>0, Inputs
    <2>2. MaxNewTokens(b) = Max({f[k] : k \in 1 .. Len(b)})
        <3>1. {MaxTokens[b[k]] : k \in DOMAIN b} = {f[k] : k \in 1 .. Len(b)}
            BY <1>0
        <3> QED
            BY <3>1 DEF MaxNewTokens
    <2>3. f[i] = MaxTokens[b[i]]
        BY <1>0
    <2> HIDE DEF f
    <2>4. /\ Max({f[k] : k \in 1 .. Len(b)}) \in Nat
          /\ \A k \in 1 .. Len(b) : f[k] <= Max({f[j] : j \in 1 .. Len(b)})
        BY <1>0, <2>1, LargestNumber
    <2> QED
        BY <1>0, <2>2, <2>3, <2>4
<1>3. /\ BatchTemperature(b) \in Temperatures /\ BatchTemperature(b) \in Nat
      /\ Temperature[b[i]] <= BatchTemperature(b)
    <2> DEFINE f == [k \in 1 .. Len(b) |-> Temperature[b[k]]]
               T == {f[k] : k \in 1 .. Len(b)}
    <2>1. \A k \in 1 .. Len(b) : f[k] \in Nat /\ f[k] \in Temperatures
        BY <1>0, Inputs
    <2>2. BatchTemperature(b) = Max(T)
        <3>1. {Temperature[b[k]] : k \in DOMAIN b} = T
            BY <1>0
        <3> QED
            BY <3>1 DEF BatchTemperature
    <2>3. f[i] = Temperature[b[i]]
        BY <1>0
    <2>4. T \subseteq Temperatures
        BY <2>1
    <2> HIDE DEF f
    <2>5. /\ Max(T) \in Nat /\ Max(T) \in T
          /\ \A k \in 1 .. Len(b) : f[k] <= Max(T)
        BY <1>0, <2>1, LargestNumber
    <2> HIDE DEF T
    <2> QED
        BY <1>0, <2>2, <2>3, <2>4, <2>5
<1> QED
    BY <1>1, <1>2, <1>3

\* What the model may say after the prompt of a row, at the batch's temperature.
May(b, i) == Continuations[Prompt[b[i]]][BatchTemperature(b)]

LEMMA MayType ==
    ASSUME NEW b \in Seq(Requests), NEW i \in DOMAIN b
    PROVE  May(b, i) # {} /\ May(b, i) \subseteq Seq(Nat)
<1>1. b[i] \in Requests /\ BatchTemperature(b) \in Temperatures
    BY BatchShape, BatchLimits
<1> QED
    BY <1>1, Inputs DEF May

\* A row is the prompt after its padding; the mask hides the padding only.
LEMMA RowOfBatch ==
    ASSUME NEW b \in Seq(Requests), NEW i \in DOMAIN b, NEW t
    PROVE  /\ InputIds(b)[i] \in Seq(Nat)
           /\ Len(InputIds(b)[i]) = Width(b)
           /\ Continued(InputIds(b)[i], AttentionMask(b)[i], t) = Continuations[Prompt[b[i]]][t]
<1> DEFINE p == Padding(b, i)
           q == Prompt[b[i]]
           pads == [j \in 1 .. p |-> Pad]
           row == pads \o q
           mask == [j \in 1 .. Width(b) |-> IF j <= p THEN 0 ELSE 1]
<1>0. b[i] \in Requests
    BY BatchShape
<1>1. q \in Seq(Nat) /\ Len(q) \in Nat /\ Pad \in Nat /\ q \in DOMAIN Continuations
    BY <1>0, Inputs
<1>2. Width(b) \in Nat /\ p \in Nat /\ p + Len(q) = Width(b)
    <2>1. Width(b) \in Nat /\ Len(q) <= Width(b)
        BY BatchLimits
    <2>2. p = Width(b) - Len(q)
        BY DEF Padding
    <2> HIDE DEF p, q
    <2> QED
        BY <1>1, <2>1, <2>2
<1>3. InputIds(b)[i] = row /\ AttentionMask(b)[i] = mask
    BY DEF InputIds, AttentionMask
<1> HIDE DEF p, q
<1>4. pads \in Seq(Nat) /\ Len(pads) = p
    BY <1>1, <1>2
<1> HIDE DEF pads
<1>5. /\ row \in Seq(Nat) /\ Len(row) = Len(pads) + Len(q)
      /\ \A j \in 1 .. Len(q) : row[Len(pads) + j] = q[j]
    <2>1. Joins(row, pads, q)
        BY <1>1, <1>4, ConcatJoins
    <2>2. row \in Seq(Nat)
        BY <1>1, <1>4
    <2> QED
        BY <2>1, <2>2 DEF Joins
<1> HIDE DEF row
<1>6. Len(row) = p + Len(q) /\ \A j \in 1 .. Len(q) : row[p + j] = q[j]
    BY <1>4, <1>5
<1> DEFINE keep == [j \in DOMAIN row |-> mask[j] = 1]
<1>7. \A j \in 1 .. Len(row) : keep[j] = (j > p)
    <2>1. ASSUME NEW j \in 1 .. Len(row) PROVE keep[j] = (j > p)
        <3>1. j \in DOMAIN row /\ j \in 1 .. Width(b)
            BY <1>2, <1>5, <1>6, LenProperties
        <3> QED
            BY <1>2, <3>1
    <2> QED
        BY <2>1
<1>8. Visible(row, mask) = Picked(row, keep)
    BY DEF Visible
<1> HIDE DEF keep, mask
<1>9. Picked(row, keep) = q
    <2>1. q \in Seq(Nat) /\ p \in Nat /\ row \in Seq(Nat)
        BY <1>1, <1>2, <1>5
    <2>2. MarkedAfter(row, keep, p, q)
        BY <1>6, <1>7 DEF MarkedAfter
    <2> QED
        BY <2>1, <2>2, PickedSuffix
<1>10. Continued(row, mask, t) = Continuations[q][t]
    BY <1>1, <1>8, <1>9 DEF Continued
<1> QED
    BY <1>2, <1>3, <1>5, <1>6, <1>10 DEF q

\* One draw for each row.
DrawsOf(b) ==
    {said \in [DOMAIN b -> UNION {May(b, i) : i \in DOMAIN b}] :
        \A i \in DOMAIN b : said[i] \in May(b, i)}

LEMMA DrawsOfBatch ==
    ASSUME NEW b \in Seq(Requests)
    PROVE  Draws(InputIds(b), AttentionMask(b), BatchTemperature(b)) = DrawsOf(b)
<1> DEFINE ids == InputIds(b)
           masks == AttentionMask(b)
           t == BatchTemperature(b)
           may(i) == Continued(ids[i], masks[i], t)
<1>1. DOMAIN ids = DOMAIN b
    BY DEF InputIds
<1>2. \A i \in DOMAIN b : may(i) = May(b, i)
    BY RowOfBatch DEF May
<1>3. Draws(ids, masks, t) =
          {said \in [DOMAIN ids -> UNION {may(i) : i \in DOMAIN ids}] :
              \A i \in DOMAIN ids : said[i] \in may(i)}
    BY DEF Draws
<1> HIDE DEF ids, masks, t, may
<1>4. {may(i) : i \in DOMAIN b} = {May(b, i) : i \in DOMAIN b}
    BY <1>2
<1>5. Draws(ids, masks, t) =
          {said \in [DOMAIN b -> UNION {May(b, i) : i \in DOMAIN b}] :
              \A i \in DOMAIN b : said[i] \in may(i)}
    BY <1>1, <1>3, <1>4
<1>6. Draws(ids, masks, t) = DrawsOf(b)
    BY <1>2, <1>5 DEF DrawsOf
<1> QED
    BY <1>6 DEF ids, masks, t

\* Whatever may be said in a row is said in it in some draw.
LEMMA DrawExists ==
    ASSUME NEW b \in Seq(Requests), NEW i \in DOMAIN b, NEW s \in May(b, i)
    PROVE  \E said \in DrawsOf(b) : said[i] = s
<1> DEFINE pick(k) == IF k = i THEN s ELSE CHOOSE c \in May(b, k) : TRUE
           said == [k \in DOMAIN b |-> pick(k)]
<1>1. \A k \in DOMAIN b : pick(k) \in May(b, k)
    BY MayType
<1> HIDE DEF pick
<1>2. said \in [DOMAIN b -> UNION {May(b, k) : k \in DOMAIN b}]
    BY <1>1
<1>3. \A k \in DOMAIN b : said[k] \in May(b, k)
    BY <1>1
<1>4. said[i] = s
    BY DEF pick
<1> QED
    BY <1>2, <1>3, <1>4 DEF DrawsOf

LEMMA DrawType ==
    ASSUME NEW b \in Seq(Requests), NEW i \in DOMAIN b, NEW said \in DrawsOf(b)
    PROVE  said[i] \in May(b, i) /\ said[i] \in Seq(Nat) /\ Len(said[i]) \in Nat
<1>1. said[i] \in May(b, i)
    BY DEF DrawsOf
<1> QED
    BY <1>1, MayType, LenProperties

\* How many tokens model.generate adds to every row.
Steps(b, said) ==
    LET longest == Max({Len(said[k]) : k \in DOMAIN b})
    IN  IF MaxNewTokens(b) < longest THEN MaxNewTokens(b) ELSE longest

\* Enough for each row to end or to reach its limit.
LEMMA StepsEnough ==
    ASSUME NEW b \in Seq(Requests), NEW i \in DOMAIN b, NEW said \in DrawsOf(b)
    PROVE  /\ Steps(b, said) \in Nat
           /\ Len(said[i]) <= Steps(b, said) \/ MaxTokens[b[i]] <= Steps(b, said)
<1> DEFINE longest == Max({Len(said[k]) : k \in DOMAIN b})
<1>0. DOMAIN b = 1 .. Len(b) /\ Len(b) \in Nat \ {0} /\ \A k \in 1 .. Len(b) : b[k] \in Requests
    BY BatchShape
<1>1. longest \in Nat /\ Len(said[i]) <= longest /\ Len(said[i]) \in Nat
    <2> DEFINE f == [k \in 1 .. Len(b) |-> Len(said[k])]
    <2>1. \A k \in 1 .. Len(b) : f[k] \in Nat
        BY <1>0, DrawType
    <2>2. longest = Max({f[k] : k \in 1 .. Len(b)})
        <3>1. {Len(said[k]) : k \in DOMAIN b} = {f[k] : k \in 1 .. Len(b)}
            BY <1>0
        <3> QED
            BY <3>1
    <2>3. f[i] = Len(said[i])
        BY <1>0
    <2> HIDE DEF f, longest
    <2>4. /\ Max({f[k] : k \in 1 .. Len(b)}) \in Nat
          /\ \A k \in 1 .. Len(b) : f[k] <= Max({f[j] : j \in 1 .. Len(b)})
        BY <1>0, <2>1, LargestNumber
    <2> QED
        BY <1>0, <2>1, <2>2, <2>3, <2>4
<1>2. Steps(b, said) = IF MaxNewTokens(b) < longest THEN MaxNewTokens(b) ELSE longest
    BY DEF Steps
<1> HIDE DEF longest
<1>3. MaxNewTokens(b) \in Nat /\ MaxTokens[b[i]] <= MaxNewTokens(b) /\ MaxTokens[b[i]] \in Nat
    BY <1>0, BatchLimits, Inputs
<1> QED
    BY <1>1, <1>2, <1>3

\* What follows the prompt in a row: what is said there, filled up.
Tokens(b, said, i) ==
    [j \in 1 .. Steps(b, said) |-> IF j <= Len(said[i]) THEN said[i][j] ELSE Pad]

\* The output of the model for a batch.
Output(b, said) == ModelGenerate(InputIds(b), said, MaxNewTokens(b))

LEMMA RowOfOutput ==
    ASSUME NEW b \in Seq(Requests), NEW i \in DOMAIN b, NEW said
    PROVE  Output(b, said)[i] = InputIds(b)[i] \o Tokens(b, said, i)
<1> DEFINE ids == InputIds(b)
           longest == Max({Len(said[k]) : k \in DOMAIN ids})
           steps == IF MaxNewTokens(b) < longest THEN MaxNewTokens(b) ELSE longest
<1>1. DOMAIN ids = DOMAIN b
    BY DEF InputIds
<1>2. steps = Steps(b, said)
    BY <1>1 DEF Steps
<1>3. Output(b, said) =
          [k \in DOMAIN ids |->
              ids[k] \o [j \in 1 .. steps |-> IF j <= Len(said[k]) THEN said[k][j] ELSE Pad]]
    BY DEF ModelGenerate, Output
<1> HIDE DEF ids, steps
<1>4. Output(b, said)[i] =
          ids[i] \o [j \in 1 .. steps |-> IF j <= Len(said[i]) THEN said[i][j] ELSE Pad]
    BY <1>1, <1>3
<1> QED
    BY <1>2, <1>4 DEF Tokens, ids

LEMMA TokensType ==
    ASSUME NEW b \in Seq(Requests), NEW i \in DOMAIN b, NEW said \in DrawsOf(b)
    PROVE  Tokens(b, said, i) \in Seq(Nat) /\ Len(Tokens(b, said, i)) = Steps(b, said)
<1>0. said[i] \in Seq(Nat) /\ Len(said[i]) \in Nat /\ Steps(b, said) \in Nat
    BY DrawType, StepsEnough
<1>1. Pad \in Nat
    BY ForwardAssumption
<1>2. \A j \in 1 .. Len(said[i]) : said[i][j] \in Nat
    BY <1>0, ElementOfSeq
<1>3. \A j \in 1 .. Steps(b, said) :
          (IF j <= Len(said[i]) THEN said[i][j] ELSE Pad) \in Nat
    BY <1>0, <1>1, <1>2
<1>4. Tokens(b, said, i) \in [1 .. Steps(b, said) -> Nat]
    BY <1>3 DEF Tokens
<1> QED
    BY <1>0, <1>4, FunctionIsSeq

\* Splitting the row after the padded prompt finds exactly the new tokens.
LEMMA SplitOfRow ==
    ASSUME NEW b \in Seq(Requests), NEW i \in DOMAIN b, NEW said \in DrawsOf(b)
    PROVE  Split(b, Output(b, said))[i] = Answer(Cut(Tokens(b, said, i), MaxTokens[b[i]]))
<1> DEFINE W == Width(b)
           row == InputIds(b)[i]
           toks == Tokens(b, said, i)
           output == Output(b, said)
           new(k) == SubSeq(output[k], W + 1, Len(output[k]))
<1>1. toks \in Seq(Nat)
    BY TokensType
<1>2. row \in Seq(Nat) /\ Len(row) = W
    BY RowOfBatch
<1>3. output[i] = row \o toks
    BY RowOfOutput
<1>4. Split(b, output) = [k \in DOMAIN b |-> Answer(Cut(new(k), MaxTokens[b[k]]))]
    BY DEF Split
<1> HIDE DEF W, row, toks, output
<1>5. SubSeq(row \o toks, W + 1, Len(row \o toks)) = toks
    BY <1>1, <1>2, SuffixOfConcat
<1>6. new(i) = toks
    BY <1>3, <1>5
<1> HIDE DEF new
<1>7. Split(b, output)[i] = Answer(Cut(new(i), MaxTokens[b[i]]))
    BY <1>4
<1> QED
    BY <1>6, <1>7 DEF toks, output

LEMMA CutType ==
    ASSUME NEW s \in Seq(Nat), NEW n \in Nat
    PROVE  /\ Cut(s, n) \in Seq(Nat)
           /\ Len(Cut(s, n)) = IF n < Len(s) THEN n ELSE Len(s)
           /\ \A j \in 1 .. Len(Cut(s, n)) : Cut(s, n)[j] = s[j]
<1>0. Len(s) \in Nat
    BY LenProperties
<1>1. CASE n < Len(s)
    <2>1. n \in 0 .. Len(s)
        BY <1>0, <1>1
    <2>2. Cut(s, n) = SubSeq(s, 1, n)
        BY <1>1 DEF Cut
    <2> QED
        BY <1>1, <2>1, <2>2, PrefixElements
<1>2. CASE ~(n < Len(s))
    BY <1>0, <1>2 DEF Cut
<1> QED
    BY <1>1, <1>2

\* An answer is a text and a number.
LEMMA AnswerType ==
    ASSUME NEW s \in Seq(Nat)
    PROVE  Answer(s) \in Answers
<1>1. Text(s) \in Seq(Nat)
    BY PickedType DEF Text
<1>2. Len(s) \in Nat
    BY LenProperties
<1> QED
    BY <1>1, <1>2 DEF Answer, Answers

\* Each row of a batch has the text of what is said in it, cut to its own limit.
LEMMA RowIsTransparent ==
    ASSUME NEW b \in Seq(Requests), NEW i \in DOMAIN b, NEW said \in DrawsOf(b)
    PROVE  /\ Split(b, Output(b, said))[i] \in Answers
           /\ Split(b, Output(b, said))[i].text = Text(Cut(said[i], MaxTokens[b[i]]))
<1> DEFINE own == said[i]
           M == MaxTokens[b[i]]
           toks == Tokens(b, said, i)
           steps == Steps(b, said)
           B == Cut(toks, M)
           A == Cut(own, M)
           n == Len(A)
           m == Len(B)
<1>0. /\ own \in Seq(Nat) /\ Len(own) \in Nat /\ M \in Nat /\ steps \in Nat
      /\ Len(own) <= steps \/ M <= steps
    BY BatchShape, Inputs, DrawType, StepsEnough
<1>1. toks \in Seq(Nat) /\ Len(toks) = steps
    BY TokensType
<1>2. Split(b, Output(b, said))[i] = Answer(B)
    BY SplitOfRow
<1>3. \A j \in 1 .. steps : toks[j] = IF j <= Len(own) THEN own[j] ELSE Pad
    BY DEF Tokens
<1> HIDE DEF own, M, toks, steps
<1>4. /\ A \in Seq(Nat) /\ n = (IF M < Len(own) THEN M ELSE Len(own))
      /\ \A j \in 1 .. n : A[j] = own[j]
    BY <1>0, CutType
<1>5. /\ B \in Seq(Nat) /\ m = (IF M < Len(toks) THEN M ELSE Len(toks))
      /\ \A j \in 1 .. m : B[j] = toks[j]
    BY <1>0, <1>1, CutType
<1> HIDE DEF A, B, n, m
<1>6. /\ m \in Nat /\ n \in Nat /\ m <= steps /\ n <= Len(own) /\ n <= m
      /\ \A j \in n + 1 .. m : ~(j <= Len(own))
    BY <1>0, <1>1, <1>4, <1>5
<1>7. \A j \in 1 .. n : j \in 1 .. m /\ j \in 1 .. steps /\ j <= Len(own)
    BY <1>0, <1>6
<1>8. \A j \in 1 .. n : B[j] = A[j]
    BY <1>3, <1>4, <1>5, <1>7
<1>9. \A j \in n + 1 .. m : j \in 1 .. m /\ j \in 1 .. steps
    BY <1>0, <1>6
<1>10. \A j \in n + 1 .. m : B[j] = Pad
    BY <1>3, <1>5, <1>6, <1>9
<1>11. Text(B) = Text(A)
    BY <1>4, <1>5, <1>6, <1>8, <1>10, TextOfPadded DEF n, m
<1>12. Answer(B) \in Answers /\ Answer(B).text = Text(B)
    BY <1>5, AnswerType DEF Answer
<1> QED
    BY <1>2, <1>11, <1>12 DEF A, own, M

\* The result at a position, for whatever the model says.
LEMMA ResultAt ==
    ASSUME NEW b \in Seq(Requests), NEW results \in GenerateBatch(b), NEW i \in DOMAIN b
    PROVE  /\ results[i] \in Answers
           /\ \E alone \in GenerateAlone(b[i], BatchTemperature(b)) : results[i].text = alone.text
<1>1. PICK said \in DrawsOf(b) : results = Split(b, Output(b, said))
    BY DrawsOfBatch DEF GenerateBatch, Output
<1>2. results[i] \in Answers /\ results[i].text = Text(Cut(said[i], MaxTokens[b[i]]))
    BY <1>1, RowIsTransparent
<1>3. said[i] \in May(b, i)
    BY DrawType
<1>4. Answer(Cut(said[i], MaxTokens[b[i]])) \in GenerateAlone(b[i], BatchTemperature(b))
    BY <1>3 DEF GenerateAlone, May
<1> QED
    BY <1>2, <1>4 DEF Answer

\* The texts of a row are those of its request alone.
LEMMA TextsOfRow ==
    ASSUME NEW b \in Seq(Requests), NEW i \in DOMAIN b
    PROVE  {results[i].text : results \in GenerateBatch(b)} =
               {alone.text : alone \in GenerateAlone(b[i], BatchTemperature(b))}
<1>1. ASSUME NEW results \in GenerateBatch(b)
      PROVE  results[i].text \in {alone.text : alone \in GenerateAlone(b[i], BatchTemperature(b))}
    BY ResultAt
<1>2. ASSUME NEW alone \in GenerateAlone(b[i], BatchTemperature(b))
      PROVE  alone.text \in {results[i].text : results \in GenerateBatch(b)}
    <2>1. PICK s \in May(b, i) : alone = Answer(Cut(s, MaxTokens[b[i]]))
        BY DEF GenerateAlone, May
    <2>2. PICK said \in DrawsOf(b) : said[i] = s
        BY DrawExists
    <2> DEFINE results == Split(b, Output(b, said))
    <2>3. results \in GenerateBatch(b)
        BY DrawsOfBatch DEF GenerateBatch, Output
    <2>4. results[i].text = Text(Cut(s, MaxTokens[b[i]]))
        BY <2>2, RowIsTransparent
    <2>5. alone.text = results[i].text
        BY <2>1, <2>4 DEF Answer
    <2> HIDE DEF results
    <2> QED
        BY <2>3, <2>5
<1> QED
    BY <1>1, <1>2

-----------------------------------------------------------------------------
(***************************************************************************)
(* The scheduler.                                                          *)
(***************************************************************************)
\* Types, and batches within their bound.
BatchInv == TypeOK /\ BatchBounded

\* The initial state has an empty batch.
LEMMA InitBatch == Init => BatchInv
<1> SUFFICES ASSUME Init PROVE BatchInv
    OBVIOUS
<1>1. <<>> \in Seq(Requests) /\ Len(<<>>) = 0
    OBVIOUS
<1>2. NoAnswer \in Answers
    BY DEF NoAnswer, Answers
<1>3. TypeOK
    BY <1>1, <1>2 DEF Init, TypeOK
<1>4. Len(batch) <= MaxBatchSize
    BY <1>1, BatchAssumption DEF Init
<1> QED
    BY <1>3, <1>4 DEF BatchInv, BatchBounded

\* The drain moves n items from the front of the queue to the end of the batch.
LEMMA DrainEffect ==
    ASSUME queue \in Seq(Requests), batch \in Seq(Requests),
           NEW n \in 0 .. Len(queue), Drain(n)
    PROVE  /\ batch' \in Seq(Requests) /\ queue' \in Seq(Requests)
           /\ Len(batch') = Len(batch) + n
<1>1. SubSeq(queue, 1, n) \in Seq(Requests) /\ Len(SubSeq(queue, 1, n)) = n
    BY SubSeqProperties
<1>2. SubSeq(queue, n + 1, Len(queue)) \in Seq(Requests)
    BY SubSeqProperties
<1> QED
    BY <1>1, <1>2, ConcatProperties DEF Drain

\* The end of a batch resolves the pending futures of its items, all of them with
\* the error or each with a result from its own position.
LEMMA ResolveEffect ==
    ASSUME BatchSucceeds \/ BatchFails, NEW q \in Requests
    PROVE  \/ ~Awaited(q) /\ future'[q] = future[q] /\ result'[q] = result[q]
           \/ Awaited(q) /\ future'[q] = "error" /\ result'[q] = result[q]
           \/ /\ Awaited(q) /\ future'[q] = "result"
              /\ \E results \in GenerateBatch(batch), i \in DOMAIN batch :
                    batch[i] = q /\ result'[q] = results[i]
<1>1. CASE BatchSucceeds
    <2>1. PICK results \in GenerateBatch(batch) : ResolveResults(results)
        BY <1>1 DEF BatchSucceeds
    <2>2. CASE Awaited(q)
        <3>1. Row(q) \in DOMAIN batch /\ batch[Row(q)] = q
            BY <2>2 DEF Awaited, InBatch, Row
        <3>2. future'[q] = "result" /\ result'[q] = results[Row(q)]
            BY <2>1, <2>2 DEF ResolveResults
        <3> QED
            BY <2>2, <3>1, <3>2
    <2>3. CASE ~Awaited(q)
        BY <2>1, <2>3 DEF ResolveResults
    <2> QED
        BY <2>2, <2>3
<1>2. CASE BatchFails
    BY <1>2 DEF BatchFails, ResolveError
<1> QED
    BY <1>1, <1>2

\* Every step keeps types and bound.
LEMMA NextBatch == BatchInv /\ [Next]_vars => BatchInv'
<1> SUFFICES ASSUME BatchInv, [Next]_vars PROVE BatchInv'
    OBVIOUS
<1>t. /\ caller \in [Requests -> CallerState]
      /\ future \in [Requests -> FutureState] /\ result \in [Requests -> Answers]
      /\ queue \in Seq(Requests) /\ batch \in Seq(Requests) /\ submitted \in Seq(Requests)
      /\ pc \in CollectorState
      /\ batch = <<>> <=> pc \in {"first", "stopped"}
      /\ running \in BOOLEAN /\ cancelling \in BOOLEAN
      /\ Len(batch) <= MaxBatchSize
      /\ MaxBatchSize \in Nat \ {0}
    BY BatchAssumption DEF BatchInv, TypeOK, BatchBounded
<1>1. ASSUME NEW r \in Requests, Submit(r) \/ Return(r) \/ CancelCaller(r) PROVE BatchInv'
    <2>1. /\ caller' \in [Requests -> CallerState]
          /\ future' \in [Requests -> FutureState]
        BY <1>t, <1>1 DEF Submit, Return, CancelCaller
    <2>2. queue' \in Seq(Requests) /\ submitted' \in Seq(Requests)
        <3>1. Append(queue, r) \in Seq(Requests) /\ Append(submitted, r) \in Seq(Requests)
            BY <1>t
        <3> QED
            BY <1>t, <1>1, <3>1 DEF Submit, Return, CancelCaller
    <2>3. UNCHANGED <<result, collectorVars, stopVars>>
        BY <1>1 DEF Submit, Return, CancelCaller
    <2> QED
        BY <1>t, <2>1, <2>2, <2>3 DEF BatchInv, TypeOK, BatchBounded
<1>2. CASE Stop
    BY <1>t, <1>2 DEF Stop, BatchInv, TypeOK, BatchBounded
<1>3. CASE TakeFirst
    BY <1>t, <1>3, HeadTailProperties DEF TakeFirst, BatchInv, TypeOK, BatchBounded
<1>4. CASE Fill
    BY <1>t, <1>4, HeadTailProperties, AppendProperties DEF Fill, BatchInv, TypeOK, BatchBounded
<1>5. CASE DispatchFull \/ DispatchOnTimeout
    <2> DEFINE room == MaxBatchSize - Len(batch)
               n == IF Len(queue) < room THEN Len(queue) ELSE room
    <2>1. Drain(n) /\ n \in 0 .. Len(queue) /\ n <= room
        BY <1>t, <1>5 DEF DispatchFull, DispatchOnTimeout, Dispatch
    <2>2. /\ batch' \in Seq(Requests) /\ queue' \in Seq(Requests)
          /\ Len(batch') = Len(batch) + n
        BY <1>t, <2>1, DrainEffect
    <2>3. pc = "filling" /\ batch # <<>> /\ Len(batch) > 0
        BY <1>t, <1>5 DEF DispatchFull, DispatchOnTimeout
    <2>4. Len(batch') <= MaxBatchSize /\ batch' # <<>>
        BY <1>t, <2>1, <2>2, <2>3
    <2>5. pc' = "executing" /\ UNCHANGED <<caller, future, result, running, submitted>> /\ cancelling' \in BOOLEAN
        BY <1>t, <1>5 DEF DispatchFull, DispatchOnTimeout, Dispatch
    <2> QED
        BY <1>t, <2>2, <2>4, <2>5 DEF BatchInv, TypeOK, BatchBounded
<1>6. CASE BatchSucceeds \/ BatchFails
    <2>1. ASSUME NEW q \in Requests PROVE future'[q] \in FutureState /\ result'[q] \in Answers
        <3>1. \A results \in GenerateBatch(batch), i \in DOMAIN batch : results[i] \in Answers
            BY <1>t, ResultAt
        <3>2. future[q] \in FutureState /\ result[q] \in Answers
            BY <1>t, <2>1
        <3>3. \/ ~Awaited(q) /\ future'[q] = future[q] /\ result'[q] = result[q]
              \/ Awaited(q) /\ future'[q] = "error" /\ result'[q] = result[q]
              \/ /\ Awaited(q) /\ future'[q] = "result"
                 /\ \E results \in GenerateBatch(batch), i \in DOMAIN batch :
                       batch[i] = q /\ result'[q] = results[i]
            BY <1>6, <2>1, ResolveEffect
        <3> QED
            BY <3>1, <3>2, <3>3
    <2>2. future' \in [Requests -> FutureState] /\ result' \in [Requests -> Answers]
        <3>1. /\ future' = [r \in Requests |-> future'[r]]
              /\ result' = [r \in Requests |-> result'[r]]
            BY <1>t, <1>6 DEF BatchSucceeds, BatchFails, ResolveResults, ResolveError
        <3> QED
            BY <2>1, <3>1
    <2>3. /\ batch' = <<>> /\ pc' \in {"first", "stopped"}
          /\ UNCHANGED <<caller, queue, stopVars, submitted>>
        BY <1>6 DEF BatchSucceeds, BatchFails, NextRound
    <2>4. batch' \in Seq(Requests) /\ Len(batch') = 0
        BY <2>3
    <2> QED
        BY <1>t, <2>2, <2>3, <2>4 DEF BatchInv, TypeOK, BatchBounded
<1>7. CASE CollectorExits
    <2>1. batch' = <<>> /\ batch' \in Seq(Requests) /\ Len(batch') = 0
        BY <1>7 DEF CollectorExits
    <2>2. /\ pc' = "stopped" /\ cancelling' = FALSE
          /\ UNCHANGED <<caller, future, result, queue, running, submitted>>
        BY <1>7 DEF CollectorExits
    <2>3. TypeOK'
        BY <1>t, <2>1, <2>2 DEF TypeOK
    <2>4. BatchBounded'
        BY <1>t, <2>1 DEF BatchBounded
    <2> QED
        BY <2>3, <2>4 DEF BatchInv
<1>8. CASE UNCHANGED vars
    BY <1>8 DEF vars, BatchInv, TypeOK, BatchBounded
<1> QED
    BY <1>1, <1>2, <1>3, <1>4, <1>5, <1>6, <1>7, <1>8 DEF Next, CallerStep, CollectorStep

\* The invariant holds in every reachable state.
LEMMA BatchInvariant == Spec => []BatchInv
BY InitBatch, NextBatch, PTL DEF Spec

\* Every component of the state keeps its type.
THEOREM TypeCorrect == Spec => []TypeOK
<1>1. BatchInv => TypeOK
    BY DEF BatchInv
<1> QED
    BY <1>1, BatchInvariant, PTL

\* The filling, the timer and the drain together never exceed max_batch_size.
THEOREM NeverTooLarge == Spec => []BatchBounded
<1>1. BatchInv => BatchBounded
    BY DEF BatchInv
<1> QED
    BY <1>1, BatchInvariant, PTL

\* Every caller gets a text that its own prompt may get, whatever else is in its
\* batch: the padding, the splitting and the zip keep the rows apart.
THEOREM NobodyElsesResult == Spec => []OwnResult
<1> DEFINE Own(r, answer) ==
               \E t \in Temperatures :
                   /\ t >= Temperature[r]
                   /\ \E alone \in GenerateAlone(r, t) : answer.text = alone.text
<1>1. Init => OwnResult
    BY DEF Init, OwnResult
<1>2. ASSUME BatchInv, OwnResult, [Next]_vars, NEW q \in Requests, future'[q] = "result"
      PROVE  Own(q, result'[q])
    <2>t. future \in [Requests -> FutureState] /\ batch \in Seq(Requests)
        BY <1>2 DEF BatchInv, TypeOK
    <2>0. future[q] = "result" => Own(q, result[q])
        BY <1>2 DEF OwnResult
    <2>1. ASSUME NEW results \in GenerateBatch(batch), NEW i \in DOMAIN batch, batch[i] = q
          PROVE  Own(q, results[i])
        <3>1. /\ BatchTemperature(batch) \in Temperatures /\ BatchTemperature(batch) \in Nat
              /\ Temperature[q] <= BatchTemperature(batch) /\ Temperature[q] \in Nat
            BY <1>2, <2>t, <2>1, BatchLimits, Inputs
        <3>2. BatchTemperature(batch) >= Temperature[q]
            BY <3>1
        <3>3. \E alone \in GenerateAlone(q, BatchTemperature(batch)) : results[i].text = alone.text
            BY <2>t, <2>1, ResultAt
        <3> QED
            BY <3>1, <3>2, <3>3
    <2> HIDE DEF Own
    <2>2. CASE future'[q] = future[q] /\ result'[q] = result[q]
        BY <1>2, <2>0, <2>2
    <2>3. ASSUME NEW r \in Requests, Submit(r) \/ Return(r) \/ CancelCaller(r)
          PROVE  future'[q] = future[q] /\ result'[q] = result[q]
        BY <1>2, <2>t, <2>3 DEF Submit, Return, CancelCaller
    <2>4. CASE BatchSucceeds \/ BatchFails
        <3>1. \/ future'[q] = future[q] /\ result'[q] = result[q]
              \/ future'[q] = "error"
              \/ \E results \in GenerateBatch(batch), i \in DOMAIN batch :
                    batch[i] = q /\ result'[q] = results[i]
            BY <1>2, <2>4, ResolveEffect
        <3> QED
            BY <1>2, <2>1, <2>2, <3>1
    <2> QED
        BY <1>2, <2>2, <2>3, <2>4
           DEF Next, CallerStep, CollectorStep, vars, TakeFirst, Fill, DispatchFull,
               DispatchOnTimeout, Dispatch, CollectorExits, Stop
<1>3. BatchInv /\ OwnResult /\ [Next]_vars => OwnResult'
    BY <1>2 DEF OwnResult
<1> QED
    BY <1>1, <1>3, BatchInvariant, PTL DEF Spec

\* The other rows of a batch change nothing but its temperature: for batches of
\* every size and for all prompts, limits and continuations.
THEOREM NoTraceOfThePadding == Spec => []PaddingLeavesNoTrace
<1>1. TypeOK => PaddingLeavesNoTrace
    BY TextsOfRow DEF TypeOK, PaddingLeavesNoTrace
<1> QED
    BY <1>1, TypeCorrect, PTL

IdleHasNoFuture == \A r \in Requests : caller[r] = "idle" => future[r] = "none"

\* A caller that has not submitted has no future.
LEMMA IdleInvariant == Spec => [](BatchInv /\ IdleHasNoFuture)
<1>1. Init => IdleHasNoFuture
    BY DEF Init, IdleHasNoFuture
<1>2. ASSUME BatchInv, IdleHasNoFuture, [Next]_vars, NEW q \in Requests, caller'[q] = "idle"
      PROVE  future'[q] = "none"
    <2>t. /\ caller \in [Requests -> CallerState]
          /\ future \in [Requests -> FutureState]
        BY <1>2 DEF BatchInv, TypeOK
    <2>1. ASSUME NEW r \in Requests, Submit(r) \/ Return(r) \/ CancelCaller(r)
          PROVE  future'[q] = future[q] /\ caller[q] = "idle"
        BY <1>2, <2>t, <2>1 DEF Submit, Return, CancelCaller
    <2>2. CASE caller' = caller /\ (BatchSucceeds \/ BatchFails)
        BY <1>2, <2>2, ResolveEffect DEF Awaited, IdleHasNoFuture
    <2> QED
        BY <1>2, <2>1, <2>2
           DEF Next, CallerStep, CollectorStep, vars, TakeFirst, Fill, DispatchFull, BatchSucceeds,
               BatchFails, DispatchOnTimeout, Dispatch, CollectorExits, Stop, IdleHasNoFuture
<1>3. BatchInv /\ IdleHasNoFuture /\ [Next]_vars => IdleHasNoFuture'
    BY <1>2 DEF IdleHasNoFuture
<1> QED
    BY <1>1, <1>3, BatchInvariant, PTL DEF Spec

\* A future that is done, or cancelled with its caller, is never set again.
THEOREM NeverSetTwice == Spec => SettledOnce
<1>1. ASSUME BatchInv, IdleHasNoFuture, [Next]_vars, NEW q \in Requests, future[q] \in Settled
      PROVE  future'[q] = future[q] /\ result'[q] = result[q]
    <2>t. future \in [Requests -> FutureState] /\ future[q] \notin {"none", "pending"}
        BY <1>1 DEF BatchInv, TypeOK
    <2>1. ASSUME NEW r \in Requests, Submit(r) \/ Return(r) \/ CancelCaller(r)
          PROVE  future'[q] = future[q] /\ result'[q] = result[q]
        BY <1>1, <2>t, <2>1 DEF Submit, Return, CancelCaller, IdleHasNoFuture
    <2>2. CASE BatchSucceeds \/ BatchFails
        BY <1>1, <2>t, <2>2, ResolveEffect DEF Awaited
    <2> QED
        BY <1>1, <2>1, <2>2
           DEF Next, CallerStep, CollectorStep, vars, TakeFirst, Fill, DispatchFull,
               DispatchOnTimeout, Dispatch, CollectorExits, Stop
<1>2. BatchInv /\ IdleHasNoFuture /\ [Next]_vars
      => [\A r \in Requests :
             future[r] \in Settled => future'[r] = future[r] /\ result'[r] = result[r]]_vars
    BY <1>1
<1> QED
    BY <1>2, IdleInvariant, PTL DEF Spec, SettledOnce

-----------------------------------------------------------------------------
(***************************************************************************)
(* Nothing is lost while the scheduler runs.  Positions in the order of    *)
(* submission: the first Left have left, the batch and then the queue are  *)
(* the rest.                                                               *)
(***************************************************************************)
Left == Len(submitted) - Len(batch) - Len(queue)

InOrder ==
    /\ Left \in Nat
    /\ \A i \in 1 .. Len(batch) : batch[i] = submitted[Left + i]
    /\ \A i \in 1 .. Len(queue) : queue[i] = submitted[Left + Len(batch) + i]

\* Nothing is submitted without its caller, so nothing is submitted twice.
SubmittedByCaller == \A n \in 1 .. Len(submitted) : caller[submitted[n]] # "idle"

LeftSettled == \A n \in 1 .. Left : future[submitted[n]] # "pending"

OrderInv ==
    /\ BatchInv
    /\ cancelling => ~running
    /\ SubmittedByCaller
    /\ running => InOrder /\ LeftSettled

\* Initially nothing is submitted.
LEMMA InitOrder == Init => OrderInv
<1> SUFFICES ASSUME Init PROVE OrderInv
    OBVIOUS
<1>1. /\ Len(submitted) = 0 /\ Len(batch) = 0 /\ Len(queue) = 0
      /\ cancelling = FALSE
    BY DEF Init
<1>2. BatchInv
    BY InitBatch
<1>3. InOrder /\ LeftSettled /\ SubmittedByCaller
    BY <1>1 DEF InOrder, LeftSettled, SubmittedByCaller, Left
<1> QED
    BY <1>1, <1>2, <1>3 DEF OrderInv

\* A submitted request goes to the end of the queue.
LEMMA SubmitOrder ==
    ASSUME OrderInv, NEW r \in Requests, Submit(r)
    PROVE  SubmittedByCaller' /\ (running => InOrder' /\ LeftSettled')
<1>t. /\ caller \in [Requests -> CallerState]
      /\ future \in [Requests -> FutureState]
      /\ queue \in Seq(Requests) /\ batch \in Seq(Requests) /\ submitted \in Seq(Requests)
    BY DEF OrderInv, BatchInv, TypeOK
<1>1. /\ queue' = Append(queue, r) /\ submitted' = Append(submitted, r) /\ batch' = batch
      /\ caller' = [caller EXCEPT ![r] = "waiting"] /\ future' = [future EXCEPT ![r] = "pending"]
      /\ caller[r] = "idle"
    BY DEF Submit
<1>2. /\ Len(queue') = Len(queue) + 1 /\ queue'[Len(queue) + 1] = r
      /\ \A i \in 1 .. Len(queue) : queue'[i] = queue[i]
      /\ Len(submitted') = Len(submitted) + 1 /\ submitted'[Len(submitted) + 1] = r
      /\ \A i \in 1 .. Len(submitted) : submitted'[i] = submitted[i] /\ submitted[i] \in Requests
      /\ Len(queue) \in Nat /\ Len(batch) \in Nat /\ Len(submitted) \in Nat
    BY <1>t, <1>1, AppendProperties, ElementOfSeq, LenProperties
<1>3. Left' = Left
    BY <1>1, <1>2 DEF Left
<1>4. SubmittedByCaller'
    BY <1>t, <1>1, <1>2 DEF OrderInv, SubmittedByCaller
<1>5. ASSUME running PROVE InOrder' /\ LeftSettled'
    <2>1. InOrder /\ LeftSettled
        BY <1>5 DEF OrderInv
    <2>2. /\ Left \in Nat /\ Left + Len(batch) + Len(queue) = Len(submitted)
        BY <2>1, <1>2 DEF InOrder, Left
    <2>3. \A i \in 1 .. Len(batch) : batch[i] = submitted'[Left + i]
        <3>1. \A i \in 1 .. Len(batch) : Left + i \in 1 .. Len(submitted)
            BY <2>2, <1>2
        <3> QED
            BY <2>1, <3>1, <1>2 DEF InOrder
    <2>4. \A i \in 1 .. Len(queue') : queue'[i] = submitted'[Left + Len(batch) + i]
        <3>1. \A i \in 1 .. Len(queue) : Left + Len(batch) + i \in 1 .. Len(submitted)
            BY <2>2, <1>2
        <3>2. \A i \in 1 .. Len(queue) : queue'[i] = submitted'[Left + Len(batch) + i]
            BY <2>1, <3>1, <1>2 DEF InOrder
        <3>3. queue'[Len(queue) + 1] = submitted'[Left + Len(batch) + (Len(queue) + 1)]
            BY <2>2, <1>2
        <3> SUFFICES ASSUME NEW i \in 1 .. Len(queue')
                     PROVE  queue'[i] = submitted'[Left + Len(batch) + i]
            OBVIOUS
        <3>4. i \in 1 .. Len(queue) \/ i = Len(queue) + 1
            BY <1>2
        <3> QED
            BY <3>2, <3>3, <3>4
    <2>5. InOrder'
        BY <1>1, <1>3, <2>2, <2>3, <2>4 DEF InOrder
    <2>6. \A n \in 1 .. Left : n \in 1 .. Len(submitted)
        BY <2>2, <1>2
    <2>7. \A n \in 1 .. Left : submitted'[n] = submitted[n] /\ submitted[n] # r /\ submitted[n] \in Requests
        BY <1>1, <1>2, <2>6 DEF OrderInv, SubmittedByCaller
    <2>8. LeftSettled'
        <3> SUFFICES ASSUME NEW n \in 1 .. Left PROVE future'[submitted'[n]] # "pending"
            BY <1>3 DEF LeftSettled
        <3>1. future[submitted[n]] # "pending"
            BY <2>1 DEF LeftSettled
        <3>2. submitted'[n] = submitted[n] /\ submitted[n] # r /\ submitted[n] \in Requests
            BY <2>7
        <3>3. future'[submitted[n]] = future[submitted[n]]
            BY <1>t, <1>1, <3>2
        <3> QED
            BY <3>1, <3>2, <3>3
    <2> QED
        BY <2>5, <2>8
<1> QED
    BY <1>4, <1>5

\* TakeFirst and Fill move the head of the queue to the end of the batch, the drain
\* a part of it.  The order of submission does not change.
LEMMA MoveOrder ==
    ASSUME OrderInv, InOrder, NEW n \in 0 .. Len(queue),
           batch' \in Seq(Requests), queue' \in Seq(Requests), submitted' = submitted,
           Len(batch') = Len(batch) + n, Len(queue') = Len(queue) - n,
           \A i \in 1 .. Len(batch) : batch'[i] = batch[i],
           \A i \in 1 .. n : batch'[Len(batch) + i] = queue[i],
           \A i \in 1 .. Len(queue) - n : queue'[i] = queue[n + i]
    PROVE  InOrder' /\ Left' = Left
<1>t. Len(queue) \in Nat /\ Len(batch) \in Nat /\ Len(submitted) \in Nat
    BY LenProperties DEF OrderInv, BatchInv, TypeOK
<1>1. Left' = Left /\ Left \in Nat
    BY <1>t DEF Left, InOrder
<1>2. ASSUME NEW i \in 1 .. Len(batch') PROVE batch'[i] = submitted[Left + i]
    <2>1. CASE i \in 1 .. Len(batch)
        BY <2>1 DEF InOrder
    <2>2. CASE i \notin 1 .. Len(batch)
        <3>1. i - Len(batch) \in 1 .. n /\ i - Len(batch) \in 1 .. Len(queue)
              /\ i = Len(batch) + (i - Len(batch))
            BY <1>t, <2>2
        <3>2. batch'[i] = queue[i - Len(batch)]
            BY <3>1
        <3>3. queue[i - Len(batch)] = submitted[Left + Len(batch) + (i - Len(batch))]
            BY <3>1 DEF InOrder
        <3>4. Left + Len(batch) + (i - Len(batch)) = Left + i
            BY <1>t, <1>1
        <3> QED
            BY <3>2, <3>3, <3>4
    <2> QED
        BY <2>1, <2>2
<1>3. ASSUME NEW i \in 1 .. Len(queue') PROVE queue'[i] = submitted[Left + Len(batch') + i]
    <2>1. n + i \in 1 .. Len(queue) /\ i \in 1 .. Len(queue) - n
        <3> DEFINE l == Len(queue)
        <3>1. l \in Nat /\ n \in 0 .. l /\ i \in 1 .. l - n
            BY <1>t
        <3> HIDE DEF l
        <3>2. n + i \in 1 .. l
            BY <3>1
        <3> QED
            BY <3>1, <3>2 DEF l
    <2>2. queue'[i] = submitted[Left + Len(batch) + (n + i)]
        BY <2>1 DEF InOrder
    <2>3. Left + Len(batch) + (n + i) = Left + Len(batch') + i
        BY <1>t, <1>1
    <2> QED
        BY <2>2, <2>3
<1> QED
    BY <1>1, <1>2, <1>3 DEF InOrder

\* The drain as such a move.
LEMMA DrainOrder ==
    ASSUME OrderInv, InOrder, NEW n \in 0 .. Len(queue), Drain(n), submitted' = submitted
    PROVE  InOrder' /\ Left' = Left
<1>t. queue \in Seq(Requests) /\ batch \in Seq(Requests)
      /\ Len(queue) \in Nat /\ Len(batch) \in Nat
    BY LenProperties DEF OrderInv, BatchInv, TypeOK
<1> DEFINE front == SubSeq(queue, 1, n)
           rest == SubSeq(queue, n + 1, Len(queue))
<1>1. /\ front \in Seq(Requests) /\ Len(front) = n
      /\ \A i \in 1 .. n : front[i] = queue[i]
    BY <1>t, SubSeqProperties
<1>2. /\ rest \in Seq(Requests) /\ Len(rest) = Len(queue) - n
      /\ \A i \in 1 .. Len(queue) - n : rest[i] = queue[n + i]
    BY <1>t, SubSeqProperties
<1>3. /\ batch' \in Seq(Requests) /\ Len(batch') = Len(batch) + n
      /\ \A i \in 1 .. Len(batch) : batch'[i] = batch[i]
      /\ \A i \in 1 .. n : batch'[Len(batch) + i] = front[i]
    BY <1>t, <1>1, ConcatProperties DEF Drain
<1>4. queue' = rest
    BY DEF Drain
<1> HIDE DEF front, rest
<1>5. \A i \in 1 .. n : batch'[Len(batch) + i] = queue[i]
    BY <1>1, <1>3
<1> QED
    BY <1>2, <1>3, <1>4, <1>5, MoveOrder

\* One item moves, to the end of the batch.
LEMMA TakeOrder ==
    ASSUME OrderInv, InOrder, TakeFirst \/ Fill
    PROVE  InOrder' /\ Left' = Left
<1>t. queue \in Seq(Requests) /\ batch \in Seq(Requests) /\ queue # <<>>
      /\ Len(queue) \in Nat /\ Len(batch) \in Nat
    BY LenProperties DEF OrderInv, BatchInv, TypeOK, TakeFirst, Fill
<1>1. /\ Head(queue) \in Requests /\ Head(queue) = queue[1]
      /\ Tail(queue) \in Seq(Requests) /\ Len(Tail(queue)) = Len(queue) - 1
      /\ \A i \in 1 .. Len(queue) - 1 : Tail(queue)[i] = queue[1 + i]
      /\ 1 \in 0 .. Len(queue)
    BY <1>t, HeadTailProperties, EmptySeq
<1>2. /\ batch' \in Seq(Requests) /\ Len(batch') = Len(batch) + 1
      /\ \A i \in 1 .. Len(batch) : batch'[i] = batch[i]
      /\ batch'[Len(batch) + 1] = queue[1]
    <2>1. CASE Fill
        BY <1>t, <1>1, <2>1, AppendProperties DEF Fill
    <2>2. CASE TakeFirst
        <3>1. batch = <<>> /\ Len(batch) = 0
            BY <2>2 DEF TakeFirst, OrderInv, BatchInv, TypeOK
        <3>2. batch' = <<Head(queue)>> /\ Len(batch') = 1 /\ batch'[1] = Head(queue)
            BY <2>2 DEF TakeFirst
        <3>3. batch' \in Seq(Requests)
            BY <1>1, <3>2
        <3> QED
            BY <1>1, <3>1, <3>2, <3>3
    <2> QED
        BY <2>1, <2>2
<1>3. queue' = Tail(queue) /\ submitted' = submitted
    BY DEF TakeFirst, Fill
<1>4. \A i \in 1 .. 1 : batch'[Len(batch) + i] = queue[i]
    BY <1>2
<1> QED
    BY <1>1, <1>2, <1>3, <1>4, MoveOrder

\* A batch that ends has settled all its items, and they have left.
LEMMA EndOrder ==
    ASSUME OrderInv, InOrder, LeftSettled, BatchSucceeds \/ BatchFails
    PROVE  InOrder' /\ LeftSettled'
<1>t. Len(queue) \in Nat /\ Len(batch) \in Nat /\ Len(submitted) \in Nat
      /\ Left \in Nat /\ Left + Len(batch) + Len(queue) = Len(submitted)
    BY LenProperties DEF OrderInv, BatchInv, TypeOK, InOrder, Left
<1>1. /\ batch' = <<>> /\ Len(batch') = 0 /\ queue' = queue /\ submitted' = submitted
    BY DEF BatchSucceeds, BatchFails, NextRound
<1>2. Left' = Left + Len(batch)
    BY <1>t, <1>1 DEF Left
<1>3. InOrder'
    <2>1. \A i \in 1 .. Len(queue) : queue[i] = submitted[Left + Len(batch) + i]
        BY DEF InOrder
    <2>2. \A i \in 1 .. Len(queue) : Left + Len(batch) + 0 + i = Left + Len(batch) + i
        BY <1>t
    <2> QED
        BY <1>t, <1>1, <1>2, <2>1, <2>2 DEF InOrder
<1>4. ASSUME NEW n \in 1 .. Left + Len(batch) PROVE future'[submitted[n]] # "pending"
    <2>1. submitted[n] \in Requests
        BY <1>t, ElementOfSeq DEF OrderInv, BatchInv, TypeOK
    <2>2. CASE n \in 1 .. Left
        BY <1>1, <2>1, <2>2, ResolveEffect DEF LeftSettled, Awaited
    <2>3. CASE n \notin 1 .. Left
        <3>1. n - Left \in 1 .. Len(batch) /\ Left + (n - Left) = n
            BY <1>t, <2>3
        <3>2. batch[n - Left] = submitted[n]
            BY <3>1 DEF InOrder
        <3>3. InBatch(submitted[n])
            BY <3>1, <3>2 DEF InBatch, OrderInv, BatchInv, TypeOK
        <3>4. future'[submitted[n]] = future[submitted[n]] => future[submitted[n]] # "pending"
            BY <2>1, <3>3, ResolveEffect DEF Awaited
        <3> QED
            BY <2>1, <3>4, ResolveEffect
    <2> QED
        BY <2>2, <2>3
<1> QED
    BY <1>1, <1>2, <1>3, <1>4 DEF LeftSettled

\* Every step keeps the order and what has left settled.
LEMMA NextOrder ==
    ASSUME OrderInv, [Next]_vars
    PROVE  OrderInv'
<1>t. /\ caller \in [Requests -> CallerState]
      /\ future \in [Requests -> FutureState]
      /\ running \in BOOLEAN /\ cancelling \in BOOLEAN
      /\ \A n \in 1 .. Len(submitted) : submitted[n] \in Requests
      /\ Len(queue) \in Nat /\ Len(batch) \in Nat /\ MaxBatchSize \in Nat
    BY ElementOfSeq, LenProperties, BatchAssumption DEF OrderInv, BatchInv, TypeOK
<1>1. BatchInv'
    BY NextBatch DEF OrderInv
<1>2. cancelling' => ~running'
    BY <1>t DEF OrderInv, Next, CallerStep, CollectorStep, vars, Submit, Return, CancelCaller, TakeFirst,
           Fill, DispatchFull, DispatchOnTimeout, Dispatch, BatchSucceeds, BatchFails, CollectorExits, Stop
<1>3. ASSUME UNCHANGED <<batch, queue, submitted>>,
             \A r \in Requests : caller[r] # "idle" => caller'[r] # "idle",
             \A r \in Requests : future[r] # "pending" => future'[r] # "pending"
      PROVE  SubmittedByCaller' /\ (InOrder /\ LeftSettled => InOrder' /\ LeftSettled')
    <2>1. SubmittedByCaller'
        BY <1>t, <1>3 DEF OrderInv, SubmittedByCaller
    <2>2. Left' = Left
        BY <1>3 DEF Left
    <2>3. InOrder => InOrder'
        BY <1>3, <2>2 DEF InOrder
    <2>4. InOrder /\ LeftSettled => LeftSettled'
        <3>1. InOrder => \A n \in 1 .. Left : submitted[n] \in Requests
            BY <1>t, LenProperties DEF InOrder, Left, OrderInv, BatchInv, TypeOK
        <3> QED
            BY <1>3, <2>2, <3>1 DEF LeftSettled
    <2> QED
        BY <2>1, <2>3, <2>4
<1>4. ASSUME NEW r \in Requests, Submit(r) PROVE OrderInv'
    <2>1. running' = running
        BY <1>4 DEF Submit
    <2> QED
        BY <1>1, <1>2, <1>4, <2>1, SubmitOrder DEF OrderInv
<1>5. ASSUME NEW r \in Requests, Return(r) \/ CancelCaller(r) PROVE OrderInv'
    <2>1. UNCHANGED <<batch, queue, submitted>> /\ running' = running
        BY <1>5 DEF Return, CancelCaller
    <2>2. \A q \in Requests : caller[q] # "idle" => caller'[q] # "idle"
        BY <1>t, <1>5 DEF Return, CancelCaller
    <2>3. \A q \in Requests : future[q] # "pending" => future'[q] # "pending"
        BY <1>t, <1>5 DEF Return, CancelCaller
    <2> QED
        BY <1>1, <1>2, <1>3, <2>1, <2>2, <2>3 DEF OrderInv
<1>6. CASE Stop \/ CollectorExits
    <2>1. ~running'
        BY <1>6 DEF Stop, CollectorExits, OrderInv
    <2>2. UNCHANGED <<caller, submitted>>
        BY <1>6 DEF Stop, CollectorExits
    <2>3. SubmittedByCaller'
        BY <2>2 DEF OrderInv, SubmittedByCaller
    <2> QED
        BY <1>1, <1>2, <2>1, <2>3 DEF OrderInv
<1>7. CASE UNCHANGED vars
    <2>1. UNCHANGED <<batch, queue, submitted, caller, future, running>>
        BY <1>7 DEF vars
    <2> QED
        BY <1>1, <1>2, <1>3, <2>1 DEF OrderInv
<1>8. CASE TakeFirst \/ Fill \/ DispatchFull \/ DispatchOnTimeout
    <2>1. UNCHANGED <<caller, future, running, submitted>>
        BY <1>8 DEF TakeFirst, Fill, DispatchFull, DispatchOnTimeout, Dispatch
    <2>2. SubmittedByCaller'
        BY <2>1 DEF OrderInv, SubmittedByCaller
    <2>3. ASSUME running PROVE InOrder' /\ Left' = Left
        <3>1. InOrder
            BY <2>3 DEF OrderInv
        <3>2. CASE TakeFirst \/ Fill
            BY <3>1, <3>2, TakeOrder
        <3>3. CASE DispatchFull \/ DispatchOnTimeout
            <4> DEFINE room == MaxBatchSize - Len(batch)
                       n == IF Len(queue) < room THEN Len(queue) ELSE room
            <4>1. Drain(n) /\ n \in 0 .. Len(queue)
                BY <1>t, <3>3 DEF DispatchFull, DispatchOnTimeout, Dispatch, OrderInv, BatchInv, BatchBounded
            <4> QED
                BY <2>1, <3>1, <4>1, DrainOrder
        <3> QED
            BY <1>8, <3>2, <3>3
    <2>4. running => LeftSettled'
        BY <2>1, <2>3 DEF OrderInv, LeftSettled
    <2> QED
        BY <1>1, <1>2, <2>1, <2>2, <2>3, <2>4 DEF OrderInv
<1>9. CASE BatchSucceeds \/ BatchFails
    <2>1. UNCHANGED <<caller, running, submitted>>
        BY <1>9 DEF BatchSucceeds, BatchFails
    <2>2. SubmittedByCaller'
        BY <2>1 DEF OrderInv, SubmittedByCaller
    <2>3. running => InOrder' /\ LeftSettled'
        BY <1>9, EndOrder DEF OrderInv
    <2> QED
        BY <1>1, <1>2, <2>1, <2>2, <2>3 DEF OrderInv
<1> QED
    BY <1>4, <1>5, <1>6, <1>7, <1>8, <1>9 DEF Next, CallerStep, CollectorStep

\* The invariant holds in every reachable state.
LEMMA OrderInvariant == Spec => []OrderInv
<1>1. OrderInv /\ [Next]_vars => OrderInv'
    BY NextOrder
<1> QED
    BY <1>1, InitOrder, PTL DEF Spec

\* The batch and then the queue, as one sequence.
LEMMA OpenRequests ==
    ASSUME BatchInv
    PROVE  /\ batch \o queue \in Seq(Requests)
           /\ Len(batch \o queue) = Len(batch) + Len(queue)
           /\ Left = Len(submitted) - Len(batch \o queue)
           /\ Len(batch) \in Nat /\ Len(queue) \in Nat /\ Len(submitted) \in Nat
           /\ \A i \in 1 .. Len(batch) : (batch \o queue)[i] = batch[i]
           /\ \A i \in 1 .. Len(queue) : (batch \o queue)[Len(batch) + i] = queue[i]
<1>1. batch \in Seq(Requests) /\ queue \in Seq(Requests) /\ submitted \in Seq(Requests)
    BY DEF BatchInv, TypeOK
<1>2. Len(batch) \in Nat /\ Len(queue) \in Nat /\ Len(submitted) \in Nat
    BY <1>1, LenProperties
<1>3. /\ batch \o queue \in Seq(Requests)
      /\ Len(batch \o queue) = Len(batch) + Len(queue)
      /\ \A i \in 1 .. Len(batch) + Len(queue) :
            (batch \o queue)[i] = IF i <= Len(batch) THEN batch[i] ELSE queue[i - Len(batch)]
    BY <1>1, ConcatProperties
<1>4. \A i \in 1 .. Len(queue) : (batch \o queue)[Len(batch) + i] = queue[i]
    <2> SUFFICES ASSUME NEW i \in 1 .. Len(queue)
                 PROVE  (batch \o queue)[Len(batch) + i] = queue[i]
        OBVIOUS
    <2>1. /\ Len(batch) + i \in 1 .. Len(batch) + Len(queue) /\ ~(Len(batch) + i <= Len(batch))
          /\ Len(batch) + i - Len(batch) = i
        BY <1>2
    <2> QED
        BY <1>3, <2>1
<1> QED
    BY <1>2, <1>3, <1>4 DEF Left

\* Until stop() nothing is lost, taken twice or overtaken: batch and queue are the
\* tail of what was submitted.
THEOREM NothingIsLost == Spec => []NothingLost
<1>1. ASSUME OrderInv, running
      PROVE  LET open == batch \o queue
             IN  /\ Len(open) <= Len(submitted)
                 /\ open = SubSeq(submitted, Len(submitted) - Len(open) + 1, Len(submitted))
    <2>1. InOrder /\ BatchInv /\ submitted \in Seq(Requests)
        BY <1>1 DEF OrderInv, BatchInv, TypeOK
    <2> DEFINE open == batch \o queue
               rest == SubSeq(submitted, Left + 1, Len(submitted))
    <2>2. /\ open \in Seq(Requests) /\ Len(open) = Len(batch) + Len(queue)
          /\ Left = Len(submitted) - Len(open)
          /\ Len(batch) \in Nat /\ Len(queue) \in Nat /\ Len(submitted) \in Nat
          /\ \A i \in 1 .. Len(batch) : open[i] = batch[i]
          /\ \A i \in 1 .. Len(queue) : open[Len(batch) + i] = queue[i]
        BY <2>1, OpenRequests
    <2>3. /\ rest \in Seq(Requests) /\ Len(rest) = Len(submitted) - Left
          /\ \A i \in 1 .. Len(submitted) - Left : rest[i] = submitted[Left + i]
        <3>1. Left \in 0 .. Len(submitted)
            BY <2>1, <2>2 DEF InOrder
        <3> QED
            BY <2>1, <3>1, SuffixElements
    <2> HIDE DEF open, rest
    <2>4. ASSUME NEW i \in 1 .. Len(open) PROVE open[i] = rest[i]
        <3>1. rest[i] = submitted[Left + i]
            BY <2>2, <2>3
        <3>2. CASE i \in 1 .. Len(batch)
            BY <2>1, <2>2, <3>1, <3>2 DEF InOrder
        <3>3. CASE i \notin 1 .. Len(batch)
            <4>1. i - Len(batch) \in 1 .. Len(queue) /\ i = Len(batch) + (i - Len(batch))
                  /\ Left + Len(batch) + (i - Len(batch)) = Left + i
                BY <2>1, <2>2, <3>3 DEF InOrder
            <4>2. open[i] = queue[i - Len(batch)]
                BY <2>2, <4>1
            <4>3. queue[i - Len(batch)] = submitted[Left + Len(batch) + (i - Len(batch))]
                BY <2>1, <4>1 DEF InOrder
            <4> QED
                BY <3>1, <4>1, <4>2, <4>3
        <3> QED
            BY <3>2, <3>3
    <2>5. open = rest
        BY <2>2, <2>3, <2>4, SeqEqual
    <2>6. Len(open) <= Len(submitted)
        BY <2>1, <2>2 DEF InOrder
    <2> QED
        BY <2>2, <2>5, <2>6 DEF open, rest
<1>2. OrderInv => NothingLost
    BY <1>1 DEF NothingLost
<1> QED
    BY <1>2, OrderInvariant, PTL

\* What has left the batch of a running scheduler is settled, also by a failure.
THEOREM NobodyForgotten == Spec => []LeftMeansSettled
<1>1. ASSUME OrderInv, running
      PROVE  \A n \in 1 .. Len(submitted) - Len(batch \o queue) : future[submitted[n]] # "pending"
    <2>1. Left = Len(submitted) - Len(batch \o queue)
        BY <1>1, OpenRequests DEF OrderInv
    <2> QED
        BY <1>1, <2>1 DEF OrderInv, LeftSettled
<1>2. OrderInv => LeftMeansSettled
    BY <1>1 DEF LeftMeansSettled
<1> QED
    BY <1>2, OrderInvariant, PTL

=============================================================================
