--------------------------- MODULE SequenceLemmas ---------------------------
(***************************************************************************)
(* What the proofs need to know about naturals and sequences beyond the    *)
(* library's theorems: induction by the least element of a set, flattened  *)
(* sequences, families of disjoint sets that a sequence indexes, suffixes, *)
(* and sequences that stand in another one with others in between.         *)
(***************************************************************************)
EXTENDS Integers, SequencesExt, SequenceTheorems, FiniteSetTheorems, WellFoundedInduction, TLAPS

\* Every nonempty set of naturals has a least element.
LEMMA LeastNatural ==
  ASSUME NEW T, T \subseteq Nat, T # {}
  PROVE  \E m \in T : \A k \in T : m <= k
<1> DEFINE R == StrictSubsetOrdering(Nat)
           F == { 0 .. k : k \in T }
<1>1. IsWellFoundedOn(R, FiniteSubsetsOf(Nat))
  BY FS_StrictSubsetOrderingWellFounded
<1>2. F \subseteq FiniteSubsetsOf(Nat)
  <2> SUFFICES ASSUME NEW k \in T PROVE 0 .. k \in FiniteSubsetsOf(Nat)
    OBVIOUS
  <2>1. 0 .. k \in SUBSET Nat
    OBVIOUS
  <2>2. IsFiniteSet(0 .. k)
    BY FS_Interval
  <2> QED BY <2>1, <2>2 DEF FiniteSubsetsOf
<1>3. F # {}
  OBVIOUS
<1>4. \E x \in F : \A y \in F : ~ (<<y, x>> \in R)
  BY <1>1, <1>2, <1>3, WFMin, Zenon
<1>5. PICK m \in T : \A y \in F : ~ (<<y, 0 .. m>> \in R)
  BY <1>4
<1>6. ASSUME NEW k \in T, k < m PROVE FALSE
  <2>1. 0 .. k \in F
    OBVIOUS
  <2>2. 0 .. k \subseteq 0 .. m /\ 0 .. k # 0 .. m /\ 0 .. k \in SUBSET Nat /\ 0 .. m \in SUBSET Nat
    <3>1. m \in 0 .. m /\ m \notin 0 .. k
      BY <1>6
    <3> QED BY <1>6, <3>1
  <2>3. <<0 .. k, 0 .. m>> \in R
    BY <2>2 DEF StrictSubsetOrdering
  <2> QED BY <1>5, <2>1, <2>3
<1> QED BY <1>6

\* g[i] is the concatenation of the first i of the n sequences.
Flattens(g, seqs, n) ==
  g = [i \in 1 .. n |-> IF i = 1 THEN seqs[i] ELSE g[i - 1] \o seqs[i]]

\* FlattenSeq is defined by that recursion, which has one solution.
LEMMA FlattenSeqIs ==
  ASSUME NEW n \in Nat \ {0}, NEW seqs, Len(seqs) = n, NEW g, Flattens(g, seqs, n)
  PROVE  FlattenSeq(seqs) = g[n]
<1>g. g = [i \in 1 .. n |-> IF i = 1 THEN seqs[i] ELSE g[i - 1] \o seqs[i]]
  BY Zenon DEF Flattens
<1> DEFINE flat == CHOOSE f : f = [i \in 1 .. Len(seqs) |->
                                   IF i = 1 THEN seqs[i] ELSE f[i - 1] \o seqs[i]]
<1>1. FlattenSeq(seqs) = flat[Len(seqs)]
  BY DEF FlattenSeq
<1>2. flat = [i \in 1 .. n |-> IF i = 1 THEN seqs[i] ELSE flat[i - 1] \o seqs[i]]
  BY <1>g, Zenon
<1> HIDE DEF flat
<1>3. ASSUME NEW m \in 1 .. n, flat[m] # g[m] PROVE FALSE
  <2> DEFINE T == { i \in 1 .. n : flat[i] # g[i] }
  <2>1. T \subseteq Nat /\ T # {}
    <3>1. m \in T
      BY <1>3
    <3>2. T \subseteq 1 .. n /\ 1 .. n \subseteq Nat
      OBVIOUS
    <3> QED BY <3>1, <3>2
  <2> HIDE DEF T
  <2>2. PICK i \in T : \A k \in T : i <= k
    BY <2>1, LeastNatural
  <2>3. i \in 1 .. n /\ flat[i] # g[i]
    BY <2>2 DEF T
  <2>4. CASE i = 1
    BY <1>g, <1>2, <2>3, <2>4
  <2>5. CASE i # 1
    <3>1. i - 1 \in 1 .. n /\ ~(i <= i - 1)
      BY <2>3, <2>5
    <3>2. flat[i - 1] = g[i - 1]
      BY <2>2, <3>1 DEF T
    <3>3. flat[i] = flat[i - 1] \o seqs[i] /\ g[i] = g[i - 1] \o seqs[i]
      BY <1>g, <1>2, <2>3, <2>5
    <3> QED BY <2>3, <3>2, <3>3
  <2> QED BY <2>4, <2>5
<1> QED BY <1>1, <1>3

\* Whatever is flattened, there are such sequences.
LEMMA FlattenSeqGrows ==
  ASSUME NEW n \in Nat \ {0}, NEW seqs, Len(seqs) = n
  PROVE  \E g : Flattens(g, seqs, n) /\ FlattenSeq(seqs) = g[n]
<1> DEFINE T == { m \in 1 .. n : ~ \E g : Flattens(g, seqs, m) }
<1>1. ASSUME T # {} PROVE FALSE
  <2>1. T \subseteq Nat
    OBVIOUS
  <2> HIDE DEF T
  <2>2. PICK m \in T : \A k \in T : m <= k
    BY <1>1, <2>1, LeastNatural
  <2>3. m \in 1 .. n /\ ~ \E g : Flattens(g, seqs, m)
    BY <2>2 DEF T
  <2>4. CASE m = 1
    <3> DEFINE g == [i \in 1 .. 1 |-> seqs[1]]
    <3>1. g = [i \in 1 .. 1 |-> IF i = 1 THEN seqs[i] ELSE g[i - 1] \o seqs[i]]
      OBVIOUS
    <3> HIDE DEF g
    <3>2. Flattens(g, seqs, m)
      BY <2>4, <3>1 DEF Flattens
    <3> QED BY <2>3, <3>2
  <2>5. CASE m # 1
    <3>1. m - 1 \in 1 .. n /\ m - 1 \in 1 .. m /\ ~(m <= m - 1) /\ m \in Nat
      BY <2>3, <2>5
    <3>2. PICK g : Flattens(g, seqs, m - 1)
      BY <2>2, <3>1 DEF T
    <3> DEFINE h == [i \in 1 .. m |-> IF i = m THEN g[m - 1] \o seqs[m] ELSE g[i]]
               k == [i \in 1 .. m |-> IF i = 1 THEN seqs[i] ELSE h[i - 1] \o seqs[i]]
    <3>3. ASSUME NEW i \in 1 .. m PROVE h[i] = k[i]
      <4>1. CASE i = m
        <5>1. h[m] = g[m - 1] \o seqs[m]
          BY <2>3
        <5>2. h[m - 1] = g[m - 1]
          BY <3>1
        <5>3. k[m] = h[m - 1] \o seqs[m]
          <6> HIDE DEF h
          <6> QED BY <2>3, <2>5
        <5> HIDE DEF h, k
        <5> QED BY <4>1, <5>1, <5>2, <5>3
      <4>2. CASE i # m
        <5>1. i \in 1 .. m - 1 /\ (i # 1 => i - 1 \in 1 .. m /\ i - 1 # m)
          BY <3>1, <4>2
        <5>2. g[i] = IF i = 1 THEN seqs[i] ELSE g[i - 1] \o seqs[i]
          BY <3>2, <5>1 DEF Flattens
        <5> QED BY <4>2, <5>1, <5>2
      <4> QED BY <4>1, <4>2
    <3>4. h = [i \in 1 .. m |-> h[i]] /\ k = [i \in 1 .. m |-> k[i]]
      OBVIOUS
    <3>5. h = [i \in 1 .. m |-> IF i = 1 THEN seqs[i] ELSE h[i - 1] \o seqs[i]]
      <4>1. h = k
        <5> HIDE DEF h, k
        <5> QED BY <3>3, <3>4
      <4> HIDE DEF h
      <4> QED BY <4>1
    <3> HIDE DEF h, k
    <3>6. Flattens(h, seqs, m)
      BY <3>5 DEF Flattens
    <3> QED BY <2>3, <3>6
  <2> QED BY <2>4, <2>5
<1>2. n \notin T /\ n \in 1 .. n
  BY <1>1
<1>3. PICK g : Flattens(g, seqs, n)
  BY <1>2
<1>4. FlattenSeq(seqs) = g[n]
  BY <1>3, FlattenSeqIs
<1> QED BY <1>3, <1>4

-----------------------------------------------------------------------------
(* Sets indexed by a sequence: f gives each element its set *)

Gathered(f, s) == UNION { f[s[i]] : i \in DOMAIN s }
Apart(f, s) == \A i, j \in DOMAIN s : i # j => f[s[i]] \cap f[s[j]] = {}

LEMMA GatheredIs ==
  ASSUME NEW f, NEW s
  PROVE  \A x : x \in Gathered(f, s) <=> \E i \in DOMAIN s : x \in f[s[i]]
  BY DEF Gathered

LEMMA EmptyApart ==
  ASSUME NEW f
  PROVE  Gathered(f, <<>>) = {} /\ Apart(f, <<>>)
  BY DEF Gathered, Apart

LEMMA OneApart ==
  ASSUME NEW f, NEW x
  PROVE  Gathered(f, <<x>>) = f[x] /\ Apart(f, <<x>>)
<1>1. DOMAIN <<x>> = {1} /\ <<x>>[1] = x
  OBVIOUS
<1> QED BY <1>1 DEF Gathered, Apart

LEMMA ConcatApart ==
  ASSUME NEW S, NEW f, NEW s \in Seq(S), NEW t \in Seq(S)
  PROVE  /\ Gathered(f, s \o t) = Gathered(f, s) \cup Gathered(f, t)
         /\ Apart(f, s \o t) <=> /\ Apart(f, s) /\ Apart(f, t)
                                 /\ Gathered(f, s) \cap Gathered(f, t) = {}
<1> DEFINE u == s \o t
<1>m. PICK m \in Nat : m = Len(s) /\ DOMAIN s = 1 .. m
  BY LenProperties
<1>n. PICK n \in Nat : n = Len(t) /\ DOMAIN t = 1 .. n
  BY LenProperties
<1>1. /\ u \in Seq(S) /\ Len(u) = m + n
      /\ \A i \in 1 .. m + n : u[i] = IF i <= m THEN s[i] ELSE t[i - m]
  BY <1>m, <1>n, ConcatProperties
<1> HIDE DEF u
<1>2. DOMAIN u = 1 .. m + n
  BY <1>1, LenProperties
<1>3. \A i \in DOMAIN s : i \in DOMAIN u /\ u[i] = s[i]
  BY <1>m, <1>1, <1>2
<1>4. \A i \in DOMAIN t : i + m \in DOMAIN u /\ u[i + m] = t[i] /\ i + m \notin DOMAIN s
  <2> SUFFICES ASSUME NEW i \in 1 .. n
               PROVE  i + m \in DOMAIN u /\ u[i + m] = t[i] /\ i + m \notin DOMAIN s
    BY <1>n
  <2>1. i + m \in 1 .. m + n /\ ~(i + m <= m) /\ (i + m) - m = i
    OBVIOUS
  <2> QED BY <1>m, <1>1, <1>2, <2>1
<1>5. \A i \in DOMAIN u : \/ i \in DOMAIN s
                          \/ \E j \in DOMAIN t : i = j + m
  <2> SUFFICES ASSUME NEW i \in 1 .. m + n, ~(i \in 1 .. m)
               PROVE  \E j \in 1 .. n : i = j + m
    BY <1>m, <1>n, <1>2, ZenonT(30)
  <2>1. i - m \in 1 .. n /\ i = (i - m) + m
    OBVIOUS
  <2> QED BY <2>1
<1>6. Gathered(f, u) = Gathered(f, s) \cup Gathered(f, t)
  <2>1. \A x : x \in Gathered(f, u) => x \in Gathered(f, s) \/ x \in Gathered(f, t)
    <3> SUFFICES ASSUME NEW x, x \in Gathered(f, u) PROVE x \in Gathered(f, s) \/ x \in Gathered(f, t)
      OBVIOUS
    <3>1. PICK i \in DOMAIN u : x \in f[u[i]]
      BY GatheredIs
    <3>2. CASE i \in DOMAIN s
      BY <1>3, <3>1, <3>2, GatheredIs
    <3>3. CASE i \notin DOMAIN s
      <4>1. PICK j \in DOMAIN t : i = j + m
        BY <1>5, <3>3
      <4> QED BY <1>4, <3>1, <4>1, GatheredIs
    <3> QED BY <3>2, <3>3
  <2>2. \A x : x \in Gathered(f, s) => x \in Gathered(f, u)
    BY <1>3, GatheredIs
  <2>3. \A x : x \in Gathered(f, t) => x \in Gathered(f, u)
    BY <1>4, GatheredIs
  <2> QED BY <2>1, <2>2, <2>3
<1>7. ASSUME Apart(f, u)
      PROVE  Apart(f, s) /\ Apart(f, t) /\ Gathered(f, s) \cap Gathered(f, t) = {}
  <2>1. Apart(f, s)
    BY <1>3, <1>7 DEF Apart
  <2>2. Apart(f, t)
    <3> SUFFICES ASSUME NEW i \in DOMAIN t, NEW j \in DOMAIN t, i # j
                 PROVE  f[t[i]] \cap f[t[j]] = {}
      BY DEF Apart
    <3>1. i + m # j + m
      BY <1>n
    <3> QED BY <1>4, <1>7, <3>1 DEF Apart
  <2>3. ASSUME NEW x, x \in Gathered(f, s), x \in Gathered(f, t) PROVE FALSE
    <3>1. PICK i \in DOMAIN s : x \in f[s[i]]
      BY <2>3, GatheredIs
    <3>2. PICK j \in DOMAIN t : x \in f[t[j]]
      BY <2>3, GatheredIs
    <3>3. i \in DOMAIN u /\ j + m \in DOMAIN u /\ i # j + m /\ u[i] = s[i] /\ u[j + m] = t[j]
      BY <1>3, <1>4
    <3>4. f[u[i]] \cap f[u[j + m]] = {}
      BY <1>7, <3>3 DEF Apart
    <3> QED BY <3>1, <3>2, <3>3, <3>4
  <2> QED BY <2>1, <2>2, <2>3
<1>8. ASSUME Apart(f, s), Apart(f, t), Gathered(f, s) \cap Gathered(f, t) = {}
      PROVE  Apart(f, u)
  <2> SUFFICES ASSUME NEW i \in DOMAIN u, NEW j \in DOMAIN u, i # j
               PROVE  f[u[i]] \cap f[u[j]] = {}
    BY DEF Apart
  <2>1. \A k \in DOMAIN s : f[s[k]] \subseteq Gathered(f, s)
    BY GatheredIs
  <2>2. \A k \in DOMAIN t : f[t[k]] \subseteq Gathered(f, t)
    BY GatheredIs
  <2>3. CASE i \in DOMAIN s /\ j \in DOMAIN s
    BY <1>3, <1>8, <2>3 DEF Apart
  <2>4. CASE i \in DOMAIN s /\ j \notin DOMAIN s
    <3>1. PICK k \in DOMAIN t : j = k + m
      BY <1>5, <2>4
    <3>2. u[i] = s[i] /\ u[j] = t[k]
      BY <1>3, <1>4, <2>4, <3>1
    <3> QED BY <1>8, <2>1, <2>2, <2>4, <3>2
  <2>5. CASE i \notin DOMAIN s /\ j \in DOMAIN s
    <3>1. PICK k \in DOMAIN t : i = k + m
      BY <1>5, <2>5
    <3>2. u[j] = s[j] /\ u[i] = t[k]
      BY <1>3, <1>4, <2>5, <3>1
    <3> QED BY <1>8, <2>1, <2>2, <2>5, <3>2
  <2>6. CASE i \notin DOMAIN s /\ j \notin DOMAIN s
    <3>1. PICK k \in DOMAIN t : i = k + m
      BY <1>5, <2>6
    <3>2. PICK l \in DOMAIN t : j = l + m
      BY <1>5, <2>6
    <3>3. u[i] = t[k] /\ u[j] = t[l] /\ k # l
      BY <1>4, <3>1, <3>2
    <3> QED BY <1>8, <3>3 DEF Apart
  <2> QED BY <2>3, <2>4, <2>5, <2>6
<1> QED BY <1>6, <1>7, <1>8 DEF u

LEMMA AppendApart ==
  ASSUME NEW S, NEW f, NEW s \in Seq(S), NEW x \in S
  PROVE  /\ Gathered(f, Append(s, x)) = Gathered(f, s) \cup f[x]
         /\ Apart(f, Append(s, x)) <=> Apart(f, s) /\ Gathered(f, s) \cap f[x] = {}
<1>1. Append(s, x) = s \o <<x>> /\ <<x>> \in Seq(S)
  BY AppendIsConcat
<1>2. Gathered(f, <<x>>) = f[x] /\ Apart(f, <<x>>)
  BY OneApart
<1> DEFINE t == <<x>>
<1>3. t \in Seq(S) /\ Gathered(f, t) = f[x] /\ Apart(f, t) /\ Append(s, x) = s \o t
  BY <1>1, <1>2
<1> HIDE DEF t
<1>4. /\ Gathered(f, s \o t) = Gathered(f, s) \cup Gathered(f, t)
      /\ Apart(f, s \o t) <=> /\ Apart(f, s) /\ Apart(f, t)
                              /\ Gathered(f, s) \cap Gathered(f, t) = {}
  BY <1>3, ConcatApart, Zenon
<1> QED BY <1>3, <1>4

\* One element is replaced by another, whose set is a part of its set.
LEMMA ReplaceApart ==
  ASSUME NEW S, NEW f, NEW s \in Seq(S), NEW i \in DOMAIN s, NEW x \in S,
         Apart(f, s), f[x] \subseteq f[s[i]]
  PROVE  /\ Gathered(f, [s EXCEPT ![i] = x]) = Gathered(f, s) \ (f[s[i]] \ f[x])
         /\ Apart(f, [s EXCEPT ![i] = x])
<1> DEFINE u == [s EXCEPT ![i] = x]
<1>1. DOMAIN u = DOMAIN s /\ u[i] = x /\ \A j \in DOMAIN s : j # i => u[j] = s[j]
  OBVIOUS
<1> HIDE DEF u
<1>2. \A y : y \in Gathered(f, u) <=> \E j \in DOMAIN s : y \in f[u[j]]
  BY <1>1, GatheredIs
<1>3. \A y : y \in Gathered(f, s) <=> \E j \in DOMAIN s : y \in f[s[j]]
  BY GatheredIs
<1>4. \A j \in DOMAIN s : j # i => f[s[j]] \cap f[s[i]] = {}
  BY DEF Apart
<1>5. ASSUME NEW y
      PROVE  y \in Gathered(f, u) <=> y \in Gathered(f, s) \ (f[s[i]] \ f[x])
  BY <1>1, <1>2, <1>3, <1>4
<1>6. Gathered(f, u) = Gathered(f, s) \ (f[s[i]] \ f[x])
  BY <1>5
<1>7. Apart(f, u)
  BY <1>1 DEF Apart
<1> QED BY <1>6, <1>7 DEF u

\* The sequences of ss have sets apart, and so have any two of them.
AllApart(f, ss) ==
  /\ \A i \in DOMAIN ss : Apart(f, ss[i])
  /\ \A i, j \in DOMAIN ss : i # j => Gathered(f, ss[i]) \cap Gathered(f, ss[j]) = {}

\* What the first i sequences of ss flatten to.
IsFlat(S, f, ss, i, s) ==
  /\ s \in Seq(S)
  /\ \A x : x \in Gathered(f, s) <=> \E j \in 1 .. i : x \in Gathered(f, ss[j])
  /\ AllApart(f, ss) => Apart(f, s)

LEMMA FlatGrows ==
  ASSUME NEW S, NEW f, NEW n \in Nat, NEW ss, DOMAIN ss = 1 .. n,
         NEW i \in 1 .. n, i - 1 \in 1 .. n, ss[i] \in Seq(S),
         NEW s, IsFlat(S, f, ss, i - 1, s)
  PROVE  IsFlat(S, f, ss, i, s \o ss[i])
<1> DEFINE t == ss[i]
<1>1. s \in Seq(S) /\ t \in Seq(S)
  BY DEF IsFlat
<1>2. \A j \in 1 .. i : j = i \/ j \in 1 .. i - 1
  OBVIOUS
<1>3. i \in 1 .. i /\ \A j \in 1 .. i - 1 : j \in 1 .. i /\ j \in 1 .. n /\ j # i
  OBVIOUS
<1>4. /\ s \o t \in Seq(S)
      /\ Gathered(f, s \o t) = Gathered(f, s) \cup Gathered(f, t)
      /\ Apart(f, s \o t) <=> /\ Apart(f, s) /\ Apart(f, t)
                              /\ Gathered(f, s) \cap Gathered(f, t) = {}
  <2> HIDE DEF t
  <2>1. s \o t \in Seq(S)
    BY <1>1, ConcatProperties
  <2>2. /\ Gathered(f, s \o t) = Gathered(f, s) \cup Gathered(f, t)
        /\ Apart(f, s \o t) <=> /\ Apart(f, s) /\ Apart(f, t)
                                /\ Gathered(f, s) \cap Gathered(f, t) = {}
    BY <1>1, ConcatApart, Zenon
  <2> QED BY <2>1, <2>2
<1>5. \A x : x \in Gathered(f, s) <=> \E j \in 1 .. i - 1 : x \in Gathered(f, ss[j])
  BY DEF IsFlat
<1>6. ASSUME NEW x
      PROVE  x \in Gathered(f, s \o t) <=> \E j \in 1 .. i : x \in Gathered(f, ss[j])
  BY <1>2, <1>3, <1>4, <1>5
<1>7. ASSUME AllApart(f, ss) PROVE Apart(f, s \o t)
  <2>1. Apart(f, s) /\ Apart(f, t)
    BY <1>7 DEF IsFlat, AllApart
  <2>2. ASSUME NEW x, x \in Gathered(f, s), x \in Gathered(f, t) PROVE FALSE
    <3>1. PICK j \in 1 .. i - 1 : x \in Gathered(f, ss[j])
      BY <1>5, <2>2
    <3>2. j \in DOMAIN ss /\ i \in DOMAIN ss /\ j # i
      BY <1>3
    <3>3. Gathered(f, ss[j]) \cap Gathered(f, ss[i]) = {}
      BY <1>7, <3>2, Zenon DEF AllApart
    <3> QED BY <2>2, <3>1, <3>3
  <2> QED BY <1>4, <2>1, <2>2
<1> HIDE DEF t
<1>8. IsFlat(S, f, ss, i, s \o t)
  BY <1>4, <1>6, <1>7 DEF IsFlat
<1> QED BY <1>8 DEF t

LEMMA FlattenApart ==
  ASSUME NEW S, NEW f, NEW ss \in Seq(Seq(S))
  PROVE  /\ FlattenSeq(ss) \in Seq(S)
         /\ \A x : x \in Gathered(f, FlattenSeq(ss)) <=> \E j \in DOMAIN ss : x \in Gathered(f, ss[j])
         /\ AllApart(f, ss) => Apart(f, FlattenSeq(ss))
<1>n. PICK n \in Nat : n = Len(ss) /\ DOMAIN ss = 1 .. n /\ \A i \in 1 .. n : ss[i] \in Seq(S)
  BY LenProperties, ElementOfSeq
<1>1. CASE n = 0
  <2>1. ss = <<>> /\ DOMAIN ss = {}
    BY <1>n, <1>1
  <2>2. FlattenSeq(ss) = <<>>
    BY <1>n, <1>1, <2>1 DEF FlattenSeq
  <2> QED BY <2>1, <2>2, EmptyApart, EmptySeq
<1>2. CASE n # 0
  <2>0. n \in Nat \ {0}
    BY <1>2
  <2>1. PICK g : Flattens(g, ss, n) /\ FlattenSeq(ss) = g[n]
    BY <1>n, <2>0, FlattenSeqGrows
  <2>2. \A i \in 1 .. n : g[i] = IF i = 1 THEN ss[i] ELSE g[i - 1] \o ss[i]
    BY <2>1 DEF Flattens
  <2> DEFINE T == { i \in 1 .. n : ~IsFlat(S, f, ss, i, g[i]) }
  <2>3. ASSUME T # {} PROVE FALSE
    <3>1. T \subseteq Nat
      OBVIOUS
    <3> HIDE DEF T
    <3>2. PICK i \in T : \A k \in T : i <= k
      BY <2>3, <3>1, LeastNatural
    <3>3. i \in 1 .. n /\ ~IsFlat(S, f, ss, i, g[i])
      BY <3>2 DEF T
    <3>4. CASE i = 1
      <4>1. g[i] = ss[1] /\ 1 \in 1 .. n /\ \A j \in 1 .. 1 : j = 1
        BY <2>2, <3>3, <3>4
      <4>2. ss[1] \in Seq(S) /\ (AllApart(f, ss) => Apart(f, ss[1]))
        BY <1>n, <4>1 DEF AllApart
      <4>3. \A x : x \in Gathered(f, ss[1]) <=> \E j \in 1 .. 1 : x \in Gathered(f, ss[j])
        BY <4>1
      <4>4. IsFlat(S, f, ss, 1, ss[1])
        BY <4>2, <4>3, Zenon DEF IsFlat
      <4> QED BY <3>3, <3>4, <4>1, <4>4
    <3>5. CASE i # 1
      <4>1. i - 1 \in 1 .. n /\ ~(i <= i - 1)
        BY <3>3, <3>5
      <4>2. IsFlat(S, f, ss, i - 1, g[i - 1])
        BY <3>2, <4>1 DEF T
      <4>3. g[i] = g[i - 1] \o ss[i]
        BY <2>2, <3>3, <3>5
      <4>4. ss[i] \in Seq(S)
        BY <1>n, <3>3
      <4>5. IsFlat(S, f, ss, i, g[i - 1] \o ss[i])
        BY <1>n, <3>3, <4>1, <4>2, <4>4, FlatGrows, Zenon
      <4> QED BY <3>3, <4>3, <4>5
    <3> QED BY <3>4, <3>5
  <2>4. n \notin T /\ n \in 1 .. n
    BY <2>0, <2>3
  <2>5. IsFlat(S, f, ss, n, g[n])
    BY <2>4
  <2> QED BY <1>n, <2>1, <2>5 DEF IsFlat
<1> QED BY <1>1, <1>2

-----------------------------------------------------------------------------
(* The last element *)

LEMMA LastOfAppend ==
  ASSUME NEW S, NEW s \in Seq(S), NEW x \in S
  PROVE  /\ Append(s, x) \in Seq(S) /\ Append(s, x) # <<>>
         /\ Last(Append(s, x)) = x /\ Front(Append(s, x)) = s
<1>1. PICK n \in Nat : n = Len(s)
  BY LenProperties
<1> DEFINE t == Append(s, x)
<1>2. /\ t \in Seq(S) /\ t # <<>> /\ Len(t) = n + 1 /\ t[n + 1] = x
      /\ \A i \in 1 .. n : t[i] = s[i]
  BY <1>1, AppendProperties
<1> HIDE DEF t
<1>3. Last(t) = x
  BY <1>2 DEF Last
<1>4. Front(t) = SubSeq(t, 1, n)
  BY <1>2 DEF Front
<1>5. /\ SubSeq(t, 1, n) \in Seq(S)
      /\ Len(SubSeq(t, 1, n)) = n
      /\ \A i \in 1 .. n : SubSeq(t, 1, n)[i] = t[i]
  <2>1. \A i \in 1 .. n : t[i] \in S
    BY <1>1, <1>2, ElementOfSeq
  <2> QED BY <2>1, SubSeqProperties
<1>6. SubSeq(t, 1, n) = s
  BY <1>1, <1>2, <1>5, SeqEqual
<1> QED BY <1>2, <1>3, <1>4, <1>6 DEF t

LEMMA FrontAndLast ==
  ASSUME NEW S, NEW s \in Seq(S), s # <<>>
  PROVE  Front(s) \in Seq(S) /\ Last(s) \in S /\ s = Append(Front(s), Last(s))
<1>1. PICK f \in Seq(S), x \in S : s = Append(f, x)
  BY SequenceEmptyOrAppend
<1>2. Last(Append(f, x)) = x /\ Front(Append(f, x)) = f
  BY LastOfAppend
<1> QED BY <1>1, <1>2

LEMMA ReplaceLast ==
  ASSUME NEW S, NEW s \in Seq(S), s # <<>>, NEW x \in S
  PROVE  [s EXCEPT ![Len(s)] = x] = Append(Front(s), x)
<1> DEFINE f == Front(s)
           t == [s EXCEPT ![Len(s)] = x]
           u == Append(f, x)
<1>1. f \in Seq(S) /\ Last(s) \in S /\ s = Append(f, Last(s))
  BY FrontAndLast
<1> HIDE DEF f
<1>2. PICK n \in Nat : n = Len(f)
  BY <1>1, LenProperties
<1>3. Len(s) = n + 1 /\ \A i \in 1 .. n : s[i] = f[i]
  BY <1>1, <1>2, AppendProperties
<1>4. t \in Seq(S) /\ Len(t) = n + 1 /\ \A i \in 1 .. n + 1 : t[i] = IF i = n + 1 THEN x ELSE s[i]
  <2>1. Len(s) \in 1 .. Len(s)
    BY <1>3
  <2>2. t \in Seq(S) /\ Len(t) = Len(s) /\ \A i \in 1 .. Len(s) : t[i] = IF i = Len(s) THEN x ELSE s[i]
    BY <2>1, ExceptSeq
  <2> HIDE DEF t
  <2> QED BY <1>3, <2>2
<1>5. /\ u \in Seq(S) /\ Len(u) = n + 1 /\ u[n + 1] = x
      /\ \A i \in 1 .. n : u[i] = f[i]
  BY <1>1, <1>2, AppendProperties
<1> HIDE DEF t, u
<1>6. \A i \in 1 .. n + 1 : t[i] = u[i]
  <2> SUFFICES ASSUME NEW i \in 1 .. n + 1 PROVE t[i] = u[i]
    OBVIOUS
  <2>1. CASE i = n + 1
    BY <1>4, <1>5, <2>1
  <2>2. CASE i # n + 1
    BY <1>3, <1>4, <1>5, <2>2
  <2> QED BY <2>1, <2>2
<1>7. t = u
  BY <1>4, <1>5, <1>6, SeqEqual
<1> QED BY <1>7 DEF f, t, u

-----------------------------------------------------------------------------
(* Parts of sets that are apart *)

\* A part of each of them.
LEMMA PartApart ==
  ASSUME NEW f, NEW g, NEW s, Apart(f, s), \A i \in DOMAIN s : g[s[i]] \subseteq f[s[i]]
  PROVE  Apart(g, s) /\ Gathered(g, s) \subseteq Gathered(f, s)
<1>1. Apart(g, s)
  BY DEF Apart
<1>2. \A x : x \in Gathered(g, s) => x \in Gathered(f, s)
  BY GatheredIs
<1> QED BY <1>1, <1>2

\* Two parts of each of them.
LEMMA TwoPartsApart ==
  ASSUME NEW f, NEW g, NEW h, NEW s, Apart(f, s),
         \A i \in DOMAIN s : /\ g[s[i]] \subseteq f[s[i]] /\ h[s[i]] \subseteq f[s[i]]
                             /\ g[s[i]] \cap h[s[i]] = {}
  PROVE  Gathered(g, s) \cap Gathered(h, s) = {}
<1>1. ASSUME NEW x, x \in Gathered(g, s), x \in Gathered(h, s) PROVE FALSE
  <2>1. PICK i \in DOMAIN s : x \in g[s[i]]
    BY <1>1, GatheredIs
  <2>2. PICK j \in DOMAIN s : x \in h[s[j]]
    BY <1>1, GatheredIs
  <2>3. x \in f[s[i]] /\ x \in f[s[j]]
    BY <2>1, <2>2
  <2>4. i = j
    BY <2>3 DEF Apart
  <2> QED BY <2>1, <2>2, <2>4
<1> QED BY <1>1

\* The same sets, in a sequence of their own.
Identity(S) == [x \in SUBSET S |-> x]

\* A sequence of sequences, one for each element of s.
LEMMA FlattenedParts ==
  ASSUME NEW S, NEW f, NEW ss \in Seq(Seq(S)), NEW g, NEW s, DOMAIN s = DOMAIN ss, Apart(g, s),
         \A i \in DOMAIN s : Apart(f, ss[i]) /\ g[s[i]] = Gathered(f, ss[i])
  PROVE  /\ FlattenSeq(ss) \in Seq(S) /\ Apart(f, FlattenSeq(ss))
         /\ Gathered(f, FlattenSeq(ss)) = Gathered(g, s)
<1>1. /\ FlattenSeq(ss) \in Seq(S)
      /\ \A x : x \in Gathered(f, FlattenSeq(ss)) <=> \E j \in DOMAIN ss : x \in Gathered(f, ss[j])
      /\ AllApart(f, ss) => Apart(f, FlattenSeq(ss))
  BY FlattenApart
<1>2. AllApart(f, ss)
  <2>1. \A i, j \in DOMAIN s : i # j => g[s[i]] \cap g[s[j]] = {}
    BY DEF Apart
  <2>2. \A i, j \in DOMAIN ss : i # j => Gathered(f, ss[i]) \cap Gathered(f, ss[j]) = {}
    BY <2>1
  <2>3. \A i \in DOMAIN ss : Apart(f, ss[i])
    OBVIOUS
  <2> QED BY <2>2, <2>3 DEF AllApart
<1>3. \A x : x \in Gathered(g, s) <=> \E i \in DOMAIN s : x \in g[s[i]]
  BY GatheredIs
<1> DEFINE t == FlattenSeq(ss)
<1>4. \A x : x \in Gathered(f, t) <=> \E j \in DOMAIN ss : x \in Gathered(f, ss[j])
  BY <1>1
<1> HIDE DEF t
<1>5. \A x : x \in Gathered(f, t) <=> x \in Gathered(g, s)
  BY <1>3, <1>4
<1> QED BY <1>1, <1>2, <1>5 DEF t

-----------------------------------------------------------------------------
(* Suffixes *)

LEMMA ReverseIs ==
  ASSUME NEW S, NEW s \in Seq(S), NEW n \in Nat, n = Len(s)
  PROVE  /\ Reverse(s) \in Seq(S) /\ Len(Reverse(s)) = n
         /\ \A i \in 1 .. n : Reverse(s)[i] = s[n - i + 1]
<1>1. \A i \in 1 .. n : n - i + 1 \in 1 .. n
  OBVIOUS
<1>2. Reverse(s) = [i \in 1 .. n |-> s[n - i + 1]]
  BY DEF Reverse
<1>3. \A i \in 1 .. n : s[n - i + 1] \in S
  BY <1>1, ElementOfSeq
<1> QED BY <1>2, <1>3

LEMMA SuffixIs ==
  ASSUME NEW S, NEW s \in Seq(S), NEW t \in Seq(S)
  PROVE  IsSuffix(s, t) <=> /\ Len(s) <= Len(t)
                            /\ \A i \in 1 .. Len(s) : s[Len(s) - i + 1] = t[Len(t) - i + 1]
<1>l. Len(s) \in Nat /\ Len(t) \in Nat
  BY LenProperties
<1>m. PICK m \in Nat : m = Len(s)
  BY <1>l
<1>n. PICK n \in Nat : n = Len(t)
  BY <1>l
<1> DEFINE r == Reverse(s)
           q == Reverse(t)
<1>1. r \in Seq(S) /\ Len(r) = m /\ \A i \in 1 .. m : r[i] = s[m - i + 1]
  BY <1>m, ReverseIs
<1>2. q \in Seq(S) /\ Len(q) = n /\ \A i \in 1 .. n : q[i] = t[n - i + 1]
  BY <1>n, ReverseIs
<1>3. IsSuffix(s, t) <=> IsPrefix(r, q)
  BY DEF IsSuffix
<1> HIDE DEF r, q
<1>4. IsPrefix(r, q) <=> m <= n /\ SubSeq(r, 1, m) = SubSeq(q, 1, m)
  BY <1>1, <1>2 DEF IsPrefix
<1>5. ASSUME m <= n PROVE SubSeq(r, 1, m) = SubSeq(q, 1, m) <=> \A i \in 1 .. m : r[i] = q[i]
  <2>1. SubSeq(r, 1, m) = [i \in 1 .. m |-> r[i]] /\ SubSeq(q, 1, m) = [i \in 1 .. m |-> q[i]]
    BY <1>1, <1>2, <1>5
  <2> QED BY <2>1
<1>6. m <= n => \A i \in 1 .. m : i \in 1 .. n
  OBVIOUS
<1>7. IsSuffix(s, t) <=> m <= n /\ \A i \in 1 .. m : s[m - i + 1] = t[n - i + 1]
  BY <1>1, <1>2, <1>3, <1>4, <1>5, <1>6
<1> QED BY <1>m, <1>n, <1>7

LEMMA SuffixSelf ==
  ASSUME NEW S, NEW s \in Seq(S)
  PROVE  IsSuffix(s, s)
<1>1. Len(s) \in Nat
  BY LenProperties
<1> QED BY <1>1, SuffixIs

\* What is left of a sequence of several elements is not empty.
LEMMA TailOfLonger ==
  ASSUME NEW S, NEW s \in Seq(S), Len(s) > 1
  PROVE  Tail(s) # <<>>
<1>l. Len(s) \in Nat
  BY LenProperties
<1>1. PICK m \in Nat : m = Len(s)
  BY <1>l
<1>2. s # <<>>
  BY <1>l, EmptySeq
<1> DEFINE t == Tail(s)
<1>3. t \in Seq(S) /\ Len(t) = Len(s) - 1
  BY <1>2, HeadTailProperties
<1> HIDE DEF t
<1>4. Len(t) = m - 1 /\ m > 1
  BY <1>1, <1>3
<1>5. Len(t) # 0
  BY <1>4
<1>6. t # <<>>
  BY <1>3, <1>5, EmptySeq
<1> QED BY <1>6 DEF t

\* The rest of a suffix is one.
LEMMA SuffixTail ==
  ASSUME NEW S, NEW s \in Seq(S), NEW t \in Seq(S), IsSuffix(s, t), s # <<>>
  PROVE  IsSuffix(Tail(s), t)
<1>l. Len(s) \in Nat /\ Len(t) \in Nat
  BY LenProperties
<1>1. PICK m \in Nat : m = Len(s)
  BY <1>l
<1>2. PICK n \in Nat : n = Len(t)
  BY <1>l
<1>3. m # 0
  BY <1>1, EmptySeq
<1>4. PICK k \in Nat : m = k + 1
  BY <1>3
<1> DEFINE r == Tail(s)
<1>5. r \in Seq(S) /\ Len(r) = k /\ \A i \in 1 .. k : r[i] = s[i + 1]
  <2>1. r \in Seq(S) /\ Len(r) = Len(s) - 1 /\ \A i \in 1 .. Len(r) : r[i] = s[i + 1]
    BY HeadTailProperties
  <2> QED BY <1>1, <1>4, <2>1
<1> HIDE DEF r
<1>6. m <= n /\ \A i \in 1 .. m : s[m - i + 1] = t[n - i + 1]
  BY <1>1, <1>2, SuffixIs
<1>7. ASSUME NEW i \in 1 .. k PROVE r[k - i + 1] = t[n - i + 1]
  <2>1. k - i + 1 \in 1 .. k /\ i \in 1 .. m /\ (k - i + 1) + 1 = m - i + 1
    BY <1>4
  <2> QED BY <1>5, <1>6, <2>1
<1>8. k <= n
  BY <1>4, <1>6
<1>9. IsSuffix(r, t)
  BY <1>2, <1>5, <1>7, <1>8, SuffixIs
<1> QED BY <1>9 DEF r

-----------------------------------------------------------------------------
(* Flattening longer sequences *)

LEMMA FlattenEmpty == FlattenSeq(<<>>) = <<>>
  BY DEF FlattenSeq

LEMMA FlattenOne ==
  ASSUME NEW S, NEW s \in Seq(Seq(S)), NEW x \in Seq(S)
  PROVE  FlattenSeq(Append(s, x)) = FlattenSeq(s) \o x
<1>n. PICK n \in Nat : n = Len(s)
  BY LenProperties
<1> DEFINE t == Append(s, x)
           m == n + 1
<1>1. t \in Seq(Seq(S)) /\ Len(t) = n + 1 /\ t[n + 1] = x /\ \A i \in 1 .. n : t[i] = s[i]
  BY <1>n, AppendProperties
<1> HIDE DEF t
<1>2. PICK g : Flattens(g, t, m) /\ FlattenSeq(t) = g[m]
  <2>1. m \in Nat \ {0} /\ Len(t) = m
    BY <1>1
  <2> HIDE DEF m
  <2> QED BY <2>1, FlattenSeqGrows
<1>3. g = [i \in 1 .. m |-> IF i = 1 THEN t[i] ELSE g[i - 1] \o t[i]]
  BY <1>2, Zenon DEF Flattens
<1>4. CASE n = 0
  <2>1. s = <<>>
    BY <1>n, <1>4, EmptySeq
  <2>2. g[m] = x
    BY <1>1, <1>3, <1>4
  <2>3. <<>> \o x = x
    BY ConcatEmptySeq
  <2> QED BY <1>2, <2>1, <2>2, <2>3, FlattenEmpty DEF t
<1>5. CASE n # 0
  <2> DEFINE h == [i \in 1 .. n |-> g[i]]
             k == [i \in 1 .. n |-> IF i = 1 THEN s[i] ELSE h[i - 1] \o s[i]]
  <2>1. \A i \in 1 .. n : h[i] = g[i]
    OBVIOUS
  <2>2. h = [i \in 1 .. n |-> h[i]]
    OBVIOUS
  <2> HIDE DEF h
  <2>3. ASSUME NEW i \in 1 .. n PROVE h[i] = IF i = 1 THEN s[i] ELSE h[i - 1] \o s[i]
    <3>1. i \in 1 .. m /\ (i # 1 => i - 1 \in 1 .. n)
      OBVIOUS
    <3>2. h[i] = IF i = 1 THEN t[i] ELSE g[i - 1] \o t[i]
      BY <1>3, <2>1, <3>1
    <3>3. t[i] = s[i]
      BY <1>1
    <3> QED BY <2>1, <3>1, <3>2, <3>3
  <2>4. Flattens(h, s, n)
    BY <2>2, <2>3 DEF Flattens
  <2>5. FlattenSeq(s) = h[n]
    BY <1>n, <1>5, <2>4, FlattenSeqIs
  <2>6. g[m] = g[n] \o x /\ h[n] = g[n]
    <3>1. m \in 1 .. m /\ m # 1 /\ m - 1 = n /\ n \in 1 .. n
      BY <1>5
    <3>2. g[m] = g[m - 1] \o t[m]
      BY <1>3, <3>1
    <3> QED BY <1>1, <2>1, <3>1, <3>2
  <2> QED BY <1>2, <2>5, <2>6 DEF t
<1> QED BY <1>4, <1>5

LEMMA ConcatAssociates ==
  ASSUME NEW S, NEW a \in Seq(S), NEW b \in Seq(S), NEW c \in Seq(S)
  PROVE  /\ (a \o b) \o c = a \o (b \o c)
         /\ a \o b \in Seq(S) /\ b \o c \in Seq(S)
  BY ConcatAssociative, ConcatProperties, SMTT(30)

LEMMA AppendAssociates ==
  ASSUME NEW S, NEW a \in Seq(S), NEW b \in Seq(S), NEW x \in S
  PROVE  /\ a \o Append(b, x) = Append(a \o b, x)
         /\ Append(a, x) = a \o <<x>>
<1>1. <<x>> \in Seq(S) /\ Append(b, x) = b \o <<x>> /\ Append(a, x) = a \o <<x>>
  BY AppendIsConcat
<1>2. a \o b \in Seq(S)
  BY ConcatProperties
<1>3. Append(a \o b, x) = (a \o b) \o <<x>>
  BY <1>2, AppendIsConcat
<1>4. (a \o b) \o <<x>> = a \o (b \o <<x>>)
  BY <1>1, ConcatAssociates
<1> QED BY <1>1, <1>3, <1>4

LEMMA PairConcat ==
  ASSUME NEW S, NEW x \in S, NEW y \in S
  PROVE  /\ <<x>> \o <<y>> = <<x, y>>
         /\ \A z \in S : <<x, y>> \o <<z>> = <<x, y, z>>
<1>1. <<x>> \in Seq(S) /\ <<x, y>> = Append(<<x>>, y)
  OBVIOUS
<1>2. <<x, y>> \in Seq(S) /\ \A z \in S : <<x, y, z>> = Append(<<x, y>>, z)
  OBVIOUS
<1>3. <<x>> \o <<y>> = <<x, y>>
  BY <1>1, AppendIsConcat
<1>4. ASSUME NEW z \in S PROVE <<x, y>> \o <<z>> = <<x, y, z>>
  BY <1>2, AppendIsConcat
<1> QED BY <1>3, <1>4

\* Flattening two sequences one behind the other.
LEMMA FlattenConcat ==
  ASSUME NEW S, NEW a \in Seq(Seq(S)), NEW b \in Seq(Seq(S))
  PROVE  /\ FlattenSeq(a \o b) = FlattenSeq(a) \o FlattenSeq(b)
         /\ FlattenSeq(a) \in Seq(S) /\ FlattenSeq(b) \in Seq(S)
<1> DEFINE Good(c) == /\ FlattenSeq(c) \in Seq(S)
                      /\ FlattenSeq(a) \in Seq(S) => FlattenSeq(a \o c) = FlattenSeq(a) \o FlattenSeq(c)
           T == { k \in Nat : \E c \in Seq(Seq(S)) : Len(c) = k /\ ~Good(c) }
<1>1. Good(<<>>)
  <2>1. a \o <<>> = a
    BY ConcatEmptySeq
  <2>2. <<>> \in Seq(S)
    BY EmptySeq
  <2>3. FlattenSeq(a) \in Seq(S) => FlattenSeq(a) \o <<>> = FlattenSeq(a)
    BY ConcatEmptySeq
  <2> QED BY <2>1, <2>2, <2>3, FlattenEmpty
<1>2. ASSUME NEW c \in Seq(Seq(S)), Good(c), NEW x \in Seq(S) PROVE Good(Append(c, x))
  <2>1. FlattenSeq(Append(c, x)) = FlattenSeq(c) \o x
    BY FlattenOne
  <2>2. FlattenSeq(c) \o x \in Seq(S)
    BY <1>2, ConcatProperties
  <2>3. ASSUME FlattenSeq(a) \in Seq(S)
        PROVE  FlattenSeq(a \o Append(c, x)) = FlattenSeq(a) \o (FlattenSeq(c) \o x)
    <3>1. a \o Append(c, x) = Append(a \o c, x) /\ a \o c \in Seq(Seq(S))
      BY AppendAssociates, ConcatProperties
    <3>2. FlattenSeq(Append(a \o c, x)) = FlattenSeq(a \o c) \o x
      BY <3>1, FlattenOne
    <3>3. FlattenSeq(a \o c) = FlattenSeq(a) \o FlattenSeq(c) /\ FlattenSeq(c) \in Seq(S)
      BY <1>2, <2>3
    <3>4. (FlattenSeq(a) \o FlattenSeq(c)) \o x = FlattenSeq(a) \o (FlattenSeq(c) \o x)
      BY <2>3, <3>3, ConcatAssociates, SMTT(30)
    <3> QED BY <3>1, <3>2, <3>3, <3>4
  <2> QED BY <2>1, <2>2, <2>3
<1> HIDE DEF Good
<1>3. ASSUME NEW c \in Seq(Seq(S)), ~Good(c) PROVE FALSE
  <2>1. T \subseteq Nat /\ T # {}
    <3>1. Len(c) \in Nat
      BY LenProperties
    <3>2. Len(c) \in T
      BY <1>3, <3>1
    <3> QED BY <3>2
  <2> HIDE DEF T
  <2>2. PICK m \in T : \A k \in T : m <= k
    BY <2>1, LeastNatural
  <2>3. PICK d \in Seq(Seq(S)) : Len(d) = m /\ ~Good(d) /\ m \in Nat
    BY <2>2 DEF T
  <2>4. d # <<>>
    BY <1>1, <2>3
  <2>5. Front(d) \in Seq(Seq(S)) /\ Last(d) \in Seq(S) /\ d = Append(Front(d), Last(d))
    BY <2>4, FrontAndLast
  <2>6. ~Good(Front(d))
    BY <1>2, <2>3, <2>5
  <2>7. Len(Front(d)) \in Nat /\ m = Len(Front(d)) + 1
    BY <2>3, <2>5, AppendProperties, LenProperties
  <2>8. Len(Front(d)) \in T
    BY <2>5, <2>6, <2>7 DEF T
  <2> QED BY <2>2, <2>7, <2>8
<1>4. Good(a) /\ Good(b)
  BY <1>3
<1> QED BY <1>4 DEF Good

\* f gives each element of s its sequence.
Images(f, s) == [i \in DOMAIN s |-> f[s[i]]]
Flattened(f, s) == FlattenSeq(Images(f, s))

\* f gives each element of X a sequence over S.
Spells(f, X, S) == f \in [X -> Seq(S)]

LEMMA MapIsSeq ==
  ASSUME NEW S, NEW X, NEW f \in [X -> S], NEW s \in Seq(X)
  PROVE  Images(f, s) \in Seq(S)
<1>n. PICK n \in Nat : n = Len(s)
  BY LenProperties
<1>1. DOMAIN s = 1 .. n /\ \A i \in 1 .. n : s[i] \in X
  BY <1>n, LenProperties, ElementOfSeq
<1>2. \A i \in 1 .. n : f[s[i]] \in S
  BY <1>1
<1> QED BY <1>1, <1>2, IsASeq DEF Images

LEMMA MapConcat ==
  ASSUME NEW X, NEW f, NEW s \in Seq(X), NEW u \in Seq(X)
  PROVE  Images(f, s \o u) = Images(f, s) \o Images(f, u)
<1> DEFINE S == { f[x] : x \in X }
           g == [x \in X |-> f[x]]
           a == Images(f, s)
           b == Images(f, u)
           c == Images(f, s \o u)
<1>1. s \o u \in Seq(X)
  BY ConcatProperties
<1>2. a \in Seq(S) /\ b \in Seq(S) /\ c \in Seq(S)
  <2>1. g \in [X -> S]
    OBVIOUS
  <2>2. ASSUME NEW q \in Seq(X) PROVE Images(f, q) = Images(g, q)
    <3>1. \A i \in DOMAIN q : q[i] \in X
      BY LenProperties, ElementOfSeq
    <3> QED BY <3>1 DEF Images
  <2> HIDE DEF g, S
  <2>3. \A q \in Seq(X) : Images(g, q) \in Seq(S)
    BY <2>1, MapIsSeq
  <2> QED BY <1>1, <2>2, <2>3
<1> HIDE DEF S, g
<1>n. PICK n \in Nat : n = Len(s)
  BY LenProperties
<1>m. PICK m \in Nat : m = Len(u)
  BY LenProperties
<1>3. DOMAIN s = 1 .. n /\ DOMAIN u = 1 .. m /\ DOMAIN (s \o u) = 1 .. n + m
      /\ \A i \in 1 .. n + m : (s \o u)[i] = IF i <= n THEN s[i] ELSE u[i - n]
  BY <1>n, <1>m, ConcatProperties, LenProperties
<1>4. Len(a) = n /\ Len(b) = m /\ Len(c) = n + m
  <2>1. DOMAIN a = 1 .. n /\ DOMAIN b = 1 .. m /\ DOMAIN c = 1 .. n + m
    BY <1>3 DEF Images
  <2> HIDE DEF a, b, c
  <2> QED BY <1>2, <2>1, LenProperties
<1>5. /\ \A i \in 1 .. n + m : c[i] = f[(s \o u)[i]]
      /\ \A i \in 1 .. n : a[i] = f[s[i]]
      /\ \A i \in 1 .. m : b[i] = f[u[i]]
  BY <1>3 DEF Images
<1> HIDE DEF a, b, c
<1>6. a \o b \in Seq(S) /\ Len(a \o b) = n + m
      /\ \A i \in 1 .. n + m : (a \o b)[i] = IF i <= n THEN a[i] ELSE b[i - n]
  BY <1>2, <1>4, ConcatProperties
<1>7. ASSUME NEW i \in 1 .. n + m PROVE c[i] = (a \o b)[i]
  <2> DEFINE su == s \o u
             ab == a \o b
  <2>0. /\ su[i] = IF i <= n THEN s[i] ELSE u[i - n]
        /\ ab[i] = IF i <= n THEN a[i] ELSE b[i - n]
        /\ c[i] = f[su[i]]
    BY <1>3, <1>5, <1>6
  <2> HIDE DEF su, ab
  <2>1. CASE i <= n
    <3>1. i \in 1 .. n
      BY <2>1
    <3>2. c[i] = f[s[i]] /\ ab[i] = a[i] /\ a[i] = f[s[i]]
      BY <1>5, <2>0, <2>1, <3>1
    <3> QED BY <3>2 DEF ab
  <2>2. CASE ~(i <= n)
    <3>1. i - n \in 1 .. m
      BY <2>2
    <3>2. c[i] = f[u[i - n]] /\ ab[i] = b[i - n] /\ b[i - n] = f[u[i - n]]
      BY <1>5, <2>0, <2>2, <3>1
    <3> QED BY <3>2 DEF ab
  <2> QED BY <2>1, <2>2
<1>8. c = a \o b
  BY <1>2, <1>4, <1>6, <1>7, SeqEqual
<1> QED BY <1>8 DEF a, b, c

LEMMA FlattenedConcat ==
  ASSUME NEW S, NEW X, NEW f, Spells(f, X, S)
  PROVE  \A s, u \in Seq(X) : /\ Flattened(f, s \o u) = Flattened(f, s) \o Flattened(f, u)
                              /\ Flattened(f, s) \in Seq(S)
<1> SUFFICES ASSUME NEW s \in Seq(X), NEW u \in Seq(X)
             PROVE  /\ Flattened(f, s \o u) = Flattened(f, s) \o Flattened(f, u)
                    /\ Flattened(f, s) \in Seq(S)
  OBVIOUS
<1> DEFINE a == Images(f, s)
           b == Images(f, u)
<1>1. a \in Seq(Seq(S)) /\ b \in Seq(Seq(S))
  BY MapIsSeq DEF Spells
<1>2. Images(f, s \o u) = a \o b
  BY MapConcat
<1> HIDE DEF a, b
<1>3. FlattenSeq(a \o b) = FlattenSeq(a) \o FlattenSeq(b) /\ FlattenSeq(a) \in Seq(S)
  BY <1>1, FlattenConcat
<1> QED BY <1>2, <1>3 DEF Flattened, a, b

LEMMA FlattenedEmpty ==
  ASSUME NEW f
  PROVE  Flattened(f, <<>>) = <<>>
<1>1. Images(f, <<>>) = <<>>
  BY DEF Images
<1> QED BY <1>1, FlattenEmpty DEF Flattened

LEMMA FlattenedOne ==
  ASSUME NEW S, NEW X, NEW f, Spells(f, X, S), NEW x \in X
  PROVE  Flattened(f, <<x>>) = f[x]
<1>1. Images(f, <<x>>) = <<f[x]>>
  BY DEF Images
<1>2. <<f[x]>> = Append(<<>>, f[x]) /\ <<>> \in Seq(Seq(S))
  BY DEF Spells
<1>3. FlattenSeq(<<f[x]>>) = <<>> \o f[x]
  BY <1>2, FlattenOne, FlattenEmpty DEF Spells
<1>4. <<>> \o f[x] = f[x]
  BY ConcatEmptySeq DEF Spells
<1> QED BY <1>1, <1>3, <1>4 DEF Flattened

LEMMA FlattenedAppend ==
  ASSUME NEW S, NEW X, NEW f, Spells(f, X, S), NEW s \in Seq(X), NEW x \in X
  PROVE  Flattened(f, Append(s, x)) = Flattened(f, s) \o f[x]
<1> DEFINE one == <<x>>
<1>1. one \in Seq(X) /\ Append(s, x) = s \o one
  BY AppendIsConcat
<1>3. Flattened(f, one) = f[x]
  BY FlattenedOne
<1> HIDE DEF one
<1>2. Flattened(f, s \o one) = Flattened(f, s) \o Flattened(f, one)
  BY <1>1, FlattenedConcat
<1> QED BY <1>1, <1>2, <1>3

-----------------------------------------------------------------------------
(* Sequences that stand in another, in their order but not side by side *)

\* s stands in t, behind the first m elements and within the first n, and what it
\* leaves out there is in X.
Between(s, t, m, n, X) ==
  \E f \in [DOMAIN s -> m + 1 .. n] :
    /\ \A i \in DOMAIN s : t[f[i]] = s[i]
    /\ \A i, j \in DOMAIN s : i < j => f[i] < f[j]
    /\ \A p \in m + 1 .. n : t[p] \in X \/ \E i \in DOMAIN s : f[i] = p
StandsIn(s, t, n, X) == Between(s, t, 0, n, X)

LEMMA EmptyBetween ==
  ASSUME NEW t, NEW m, NEW n, NEW X, \A p \in m + 1 .. n : t[p] \in X
  PROVE  Between(<<>>, t, m, n, X)
<1> DEFINE f == [i \in {} |-> 0]
<1>1. f \in [{} -> m + 1 .. n] /\ DOMAIN <<>> = {}
  OBVIOUS
<1> HIDE DEF f
<1> QED BY <1>1 DEF Between

LEMMA OneBetween ==
  ASSUME NEW t, NEW m \in Int, NEW n \in Int, NEW k \in m + 1 .. n, NEW X,
         \A p \in m + 1 .. n : p = k \/ t[p] \in X
  PROVE  Between(<<t[k]>>, t, m, n, X)
<1> DEFINE f == [i \in {1} |-> k]
<1>1. f \in [{1} -> m + 1 .. n] /\ f[1] = k
  OBVIOUS
<1>2. DOMAIN <<t[k]>> = {1} /\ <<t[k]>>[1] = t[k]
  OBVIOUS
<1> HIDE DEF f
<1> QED BY <1>1, <1>2 DEF Between

\* More may be left out.
LEMMA BetweenMore ==
  ASSUME NEW s, NEW t, NEW m, NEW n, NEW X, NEW Y, X \subseteq Y, Between(s, t, m, n, X)
  PROVE  Between(s, t, m, n, Y)
<1> DEFINE P == m + 1 .. n
<1> HIDE DEF P
<1>1. PICK f \in [DOMAIN s -> P] :
        /\ \A i \in DOMAIN s : t[f[i]] = s[i]
        /\ \A i, j \in DOMAIN s : i < j => f[i] < f[j]
        /\ \A p \in P : t[p] \in X \/ \E i \in DOMAIN s : f[i] = p
  BY Zenon DEF Between, P
<1>2. \A p \in P : t[p] \in Y \/ \E i \in DOMAIN s : f[i] = p
  BY <1>1
<1> QED BY <1>1, <1>2, Zenon DEF Between, P

\* When everything may be left out, what is dropped at the end of s was not needed.
LEMMA PartBetween ==
  ASSUME NEW S, NEW s \in Seq(S), NEW a \in Seq(S), NEW t
  PROVE  \A m, n, X : Between(s \o a, t, m, n, X) /\ (\A p \in m + 1 .. n : t[p] \in X)
                         => Between(s, t, m, n, X)
<1> SUFFICES ASSUME NEW m, NEW n, NEW X, Between(s \o a, t, m, n, X),
                    \A p \in m + 1 .. n : t[p] \in X
             PROVE  Between(s, t, m, n, X)
  OBVIOUS
<1> DEFINE u == s \o a
<1>l. Len(s) \in Nat /\ Len(a) \in Nat
  BY LenProperties
<1>m. PICK k \in Nat : k = Len(s)
  BY <1>l
<1>n. PICK l \in Nat : l = Len(a)
  BY <1>l
<1>1. u \in Seq(S) /\ Len(u) = k + l /\ \A i \in 1 .. k + l : i <= k => u[i] = s[i]
  BY <1>m, <1>n, ConcatProperties
<1>2. Between(u, t, m, n, X)
  OBVIOUS
<1> HIDE DEF u
<1>3. DOMAIN u = 1 .. k + l /\ DOMAIN s = 1 .. k
  BY <1>1, <1>m, LenProperties
<1> DEFINE P == m + 1 .. n
<1>p. \A p \in P : t[p] \in X
  OBVIOUS
<1> HIDE DEF P
<1>4. PICK f \in [1 .. k + l -> P] :
        /\ \A i \in 1 .. k + l : t[f[i]] = u[i]
        /\ \A i, j \in 1 .. k + l : i < j => f[i] < f[j]
  BY <1>2, <1>3 DEF Between, P
<1> DEFINE g == [i \in 1 .. k |-> f[i]]
<1>5. \A i \in 1 .. k : i \in 1 .. k + l /\ i <= k
  OBVIOUS
<1>6. g \in [1 .. k -> P]
  BY <1>4, <1>5
<1>7. \A i \in 1 .. k : g[i] = f[i]
  OBVIOUS
<1> HIDE DEF g
<1>8. \A i \in 1 .. k : t[g[i]] = s[i]
  BY <1>1, <1>4, <1>5, <1>7
<1>9. \A i, j \in 1 .. k : i < j => g[i] < g[j]
  BY <1>4, <1>5, <1>7
<1> QED BY <1>3, <1>6, <1>8, <1>9, <1>p DEF Between, P

\* One stands behind the other.
LEMMA ConcatBetween ==
  ASSUME NEW S, NEW s \in Seq(S), NEW a \in Seq(S), NEW t, NEW X
  PROVE  \A m, q, n \in Int :
           m <= q /\ q <= n /\ Between(s, t, m, q, X) /\ Between(a, t, q, n, X)
              => Between(s \o a, t, m, n, X)
<1> SUFFICES ASSUME NEW m \in Int, NEW q \in Int, NEW n \in Int, m <= q, q <= n,
                    Between(s, t, m, q, X), Between(a, t, q, n, X)
             PROVE  Between(s \o a, t, m, n, X)
  OBVIOUS
<1> DEFINE u == s \o a
<1>l. Len(s) \in Nat /\ Len(a) \in Nat
  BY LenProperties
<1>m. PICK k \in Nat : k = Len(s)
  BY <1>l
<1>n. PICK l \in Nat : l = Len(a)
  BY <1>l
<1>1. u \in Seq(S) /\ Len(u) = k + l
      /\ \A i \in 1 .. k + l : u[i] = IF i <= k THEN s[i] ELSE a[i - k]
  BY <1>m, <1>n, ConcatProperties
<1> HIDE DEF u
<1> DEFINE K == 1 .. k
           L == 1 .. l
           A == m + 1 .. q
           B == q + 1 .. n
<1>2. DOMAIN u = 1 .. k + l /\ DOMAIN s = K /\ DOMAIN a = L
  BY <1>1, <1>m, <1>n, LenProperties
<1> HIDE DEF K, L, A, B
<1>3. PICK f \in [K -> A] :
        /\ \A i \in K : t[f[i]] = s[i]
        /\ \A i, j \in K : i < j => f[i] < f[j]
        /\ \A p \in A : t[p] \in X \/ \E i \in K : f[i] = p
  BY <1>2, Zenon DEF Between, A
<1>4. PICK g \in [L -> B] :
        /\ \A i \in L : t[g[i]] = a[i]
        /\ \A i, j \in L : i < j => g[i] < g[j]
        /\ \A p \in B : t[p] \in X \/ \E i \in L : g[i] = p
  BY <1>2, Zenon DEF Between, B
<1> DEFINE h == [i \in 1 .. k + l |-> IF i <= k THEN f[i] ELSE g[i - k]]
<1>5. \A i \in 1 .. k + l : \/ i \in K /\ i <= k
                            \/ i - k \in L /\ ~(i <= k)
  BY DEF K, L
<1>6. /\ \A i \in K : f[i] \in m + 1 .. n /\ f[i] <= q
      /\ \A i \in L : g[i] \in m + 1 .. n /\ q < g[i]
  <2>1. (\A i \in K : f[i] \in A) /\ (\A i \in L : g[i] \in B)
    OBVIOUS
  <2>2. \A x \in A : x \in m + 1 .. n /\ x <= q
    BY DEF A
  <2>3. \A x \in B : x \in m + 1 .. n /\ q < x
    BY DEF B
  <2> QED BY <2>1, <2>2, <2>3
<1>7. \A i \in 1 .. k + l : h[i] = IF i <= k THEN f[i] ELSE g[i - k]
  OBVIOUS
<1>8. h \in [1 .. k + l -> m + 1 .. n]
  <2>1. h = [i \in 1 .. k + l |-> h[i]]
    OBVIOUS
  <2> HIDE DEF h
  <2>2. \A i \in 1 .. k + l : h[i] \in m + 1 .. n
    BY <1>5, <1>6, <1>7
  <2> QED BY <2>1, <2>2
<1> HIDE DEF h
<1>9. ASSUME NEW i \in 1 .. k + l PROVE t[h[i]] = u[i]
  <2>1. CASE i \in K /\ i <= k
    <3>1. h[i] = f[i] /\ u[i] = s[i]
      BY <1>1, <1>7, <2>1
    <3> QED BY <1>3, <2>1, <3>1
  <2>2. CASE i - k \in L /\ ~(i <= k)
    <3>1. h[i] = g[i - k] /\ u[i] = a[i - k]
      BY <1>1, <1>7, <2>2
    <3> QED BY <1>4, <2>2, <3>1
  <2> QED BY <1>5, <2>1, <2>2
<1>10. ASSUME NEW i \in 1 .. k + l, NEW j \in 1 .. k + l, i < j PROVE h[i] < h[j]
  <2>1. CASE i <= k /\ j <= k
    BY <1>3, <1>5, <1>7, <1>10, <2>1
  <2>2. CASE i <= k /\ ~(j <= k)
    <3>1. h[i] = f[i] /\ h[j] = g[j - k] /\ i \in K /\ j - k \in L
      BY <1>5, <1>7, <2>2
    <3>2. f[i] \in m + 1 .. n /\ f[i] <= q /\ g[j - k] \in m + 1 .. n /\ q < g[j - k]
      BY <1>6, <3>1
    <3> QED BY <3>1, <3>2
  <2>3. CASE ~(i <= k) /\ ~(j <= k)
    <3>1. h[i] = g[i - k] /\ h[j] = g[j - k] /\ i - k \in L /\ j - k \in L /\ i - k < j - k
      BY <1>5, <1>7, <1>10, <2>3
    <3> QED BY <1>4, <3>1
  <2>4. CASE ~(i <= k) /\ j <= k
    BY <1>10, <2>4
  <2> QED BY <2>1, <2>2, <2>3, <2>4
<1>c. ASSUME NEW p \in m + 1 .. n, t[p] \notin X PROVE \E i \in 1 .. k + l : h[i] = p
  <2>1. CASE p \in A
    <3>1. PICK i \in K : f[i] = p
      BY <1>3, <1>c, <2>1
    <3>2. i \in 1 .. k + l /\ i <= k
      BY DEF K
    <3> QED BY <1>7, <3>1, <3>2
  <2>2. CASE p \in B
    <3>1. PICK i \in L : g[i] = p
      BY <1>4, <1>c, <2>2
    <3>2. k + i \in 1 .. k + l /\ ~(k + i <= k) /\ (k + i) - k = i
      BY DEF L
    <3>3. h[k + i] = p
      BY <1>7, <3>1, <3>2
    <3> QED BY <3>2, <3>3
  <2>3. p \in A \/ p \in B
    BY DEF A, B
  <2> QED BY <2>1, <2>2, <2>3
<1> DEFINE P == m + 1 .. n
<1>11. h \in [1 .. k + l -> P] /\ \A p \in P : t[p] \in X \/ \E i \in 1 .. k + l : h[i] = p
  BY <1>8, <1>c
<1> HIDE DEF P
<1>12. /\ \A i \in DOMAIN u : t[h[i]] = u[i]
       /\ \A i, j \in DOMAIN u : i < j => h[i] < h[j]
       /\ \A p \in P : t[p] \in X \/ \E i \in DOMAIN u : h[i] = p
       /\ h \in [DOMAIN u -> P]
  BY <1>2, <1>9, <1>10, <1>11
<1>13. Between(u, t, m, n, X)
  BY <1>12, Zenon DEF Between, P
<1> QED BY <1>13 DEF u

\* When t is read from m to n, s gets what was read as its end, or loses an end.
Becomes(S, s, u, t, m, n, X) ==
  \/ \E a \in Seq(S) : u = s \o a /\ Between(a, t, m, n, X)
  \/ (\E a \in Seq(S) : s = u \o a) /\ \A p \in 1 .. n : t[p] \in X

LEMMA StillStands ==
  ASSUME NEW S, NEW s \in Seq(S), NEW u \in Seq(S), NEW t, NEW X
  PROVE  \A m, n \in Nat :
           m <= n /\ StandsIn(s, t, m, X) /\ Becomes(S, s, u, t, m, n, X) => StandsIn(u, t, n, X)
<1> SUFFICES ASSUME NEW m \in Nat, NEW n \in Nat, m <= n, StandsIn(s, t, m, X),
                    Becomes(S, s, u, t, m, n, X)
             PROVE  StandsIn(u, t, n, X)
  OBVIOUS
<1>1. Between(s, t, 0, m, X)
  BY DEF StandsIn
<1>2. CASE (\E a \in Seq(S) : s = u \o a) /\ \A p \in 1 .. n : t[p] \in X
  <2>0. (\A p \in 0 + 1 .. m : t[p] \in X) /\ (\A p \in m + 1 .. n : t[p] \in X)
    BY <1>2
  <2>1. Between(u, t, 0, m, X)
    BY <1>1, <1>2, <2>0, PartBetween
  <2> DEFINE none == <<>>
  <2>2. Between(none, t, m, n, X) /\ none \in Seq(S) /\ u \o none = u
    BY <2>0, EmptyBetween, ConcatEmptySeq
  <2> HIDE DEF none
  <2>3. 0 \in Int /\ m \in Int /\ n \in Int /\ 0 <= m
    OBVIOUS
  <2>4. \A q, r \in Int : 0 <= q /\ q <= r /\ Between(u, t, 0, q, X) /\ Between(none, t, q, r, X)
                           => Between(u \o none, t, 0, r, X)
    BY <2>2, <2>3, ConcatBetween
  <2>5. Between(u \o none, t, 0, n, X)
    BY <2>1, <2>2, <2>3, <2>4
  <2> QED BY <2>2, <2>5 DEF StandsIn
<1>3. CASE \E a \in Seq(S) : u = s \o a /\ Between(a, t, m, n, X)
  <2>1. PICK a \in Seq(S) : u = s \o a /\ Between(a, t, m, n, X)
    BY <1>3
  <2>2. Between(s \o a, t, 0, n, X)
    BY <1>1, <2>1, ConcatBetween
  <2> QED BY <2>1, <2>2 DEF StandsIn
<1> QED BY <1>2, <1>3 DEF Becomes

\* What stands before both does not matter.
LEMMA BecomesBehind ==
  ASSUME NEW S, NEW p \in Seq(S), NEW s \in Seq(S), NEW u \in Seq(S)
  PROVE  \A t, m, n, X : Becomes(S, s, u, t, m, n, X) => Becomes(S, p \o s, p \o u, t, m, n, X)
<1>1. \A a \in Seq(S) : (p \o s) \o a = p \o (s \o a) /\ (p \o u) \o a = p \o (u \o a)
  <2>1. ASSUME NEW a \in Seq(S) PROVE (p \o s) \o a = p \o (s \o a)
    BY ConcatAssociates, SMTT(30)
  <2>2. ASSUME NEW a \in Seq(S) PROVE (p \o u) \o a = p \o (u \o a)
    BY ConcatAssociates, SMTT(30)
  <2> QED BY <2>1, <2>2, Zenon
<1> DEFINE ps == p \o s
           pu == p \o u
<1>2. \A a \in Seq(S) : s = u \o a => ps = pu \o a
  BY <1>1
<1>3. \A a \in Seq(S) : u = s \o a => pu = ps \o a
  BY <1>1
<1> HIDE DEF ps, pu
<1>4. \A t, m, n, X : Becomes(S, s, u, t, m, n, X) => Becomes(S, ps, pu, t, m, n, X)
  BY <1>2, <1>3, Zenon DEF Becomes
<1> QED BY <1>4 DEF ps, pu

Match(s, n, x) == IF n < Len(s) /\ s[n + 1] = x THEN n + 1 ELSE n

\* it[D] is how many of s, from its beginning, are met in t at the places D.
Meets(it, s, t, places) ==
  it = [D \in SUBSET places |-> IF D = {} THEN 0
                                ELSE LET i == Max(D) IN Match(s, it[D \ {i}], t[i])]

\* How many of s are met in t.
Met(s, t) ==
  LET match(n, x) == IF n < Len(s) /\ s[n + 1] = x THEN n + 1 ELSE n IN FoldLeft(match, 0, t)

\* FoldLeft is defined by that recursion.
LEMMA FoldMeets ==
  ASSUME NEW s, NEW t, \E it : Meets(it, s, t, DOMAIN t)
  PROVE  \E it : Meets(it, s, t, DOMAIN t) /\ Met(s, t) = it[DOMAIN t]
<1> DEFINE match(n, x) == IF n < Len(s) /\ s[n + 1] = x THEN n + 1 ELSE n
           iter == CHOOSE it : it = [D \in SUBSET DOMAIN t |->
                     IF D = {} THEN 0 ELSE LET i == Max(D) IN match(it[D \ {i}], t[i])]
<1>1. Met(s, t) = iter[DOMAIN t]
  BY DEF Met, FoldLeft, MapThenFoldSet
<1>2. iter = [D \in SUBSET DOMAIN t |->
                IF D = {} THEN 0 ELSE LET i == Max(D) IN match(iter[D \ {i}], t[i])]
  BY Zenon DEF Meets, Match
<1> QED BY <1>1, <1>2, Zenon DEF Meets, Match

LEMMA MaxOfInterval ==
  ASSUME NEW k \in Nat \ {0}, NEW D \in SUBSET (1 .. k), k \in D
  PROVE  Max(D) = k
<1>1. \A x \in D : x \in 1 .. k
  OBVIOUS
<1>2. k \in D /\ \A y \in D : k >= y
  BY <1>1
<1>3. Max(D) \in D /\ \A y \in D : Max(D) >= y
  <2>1. \E x \in D : \A y \in D : x >= y
    BY <1>2
  <2> QED BY <2>1, Zenon DEF Max
<1> HIDE DEF Max
<1>4. Max(D) \in 1 .. k /\ Max(D) >= k
  BY <1>1, <1>2, <1>3
<1> QED BY <1>4

\* There is such a function.
LEMMA MeetsExists ==
  ASSUME NEW s, NEW t, NEW n \in Nat
  PROVE  \E it : Meets(it, s, t, 1 .. n)
<1> DEFINE T == { m \in 0 .. n : ~ \E it : Meets(it, s, t, 1 .. m) }
<1>1. ASSUME T # {} PROVE FALSE
  <2>1. T \subseteq Nat
    <3>1. T \subseteq 0 .. n /\ 0 .. n \subseteq Nat
      OBVIOUS
    <3> QED BY <3>1
  <2> HIDE DEF T
  <2>2. PICK m \in T : \A k \in T : m <= k
    BY <1>1, <2>1, LeastNatural
  <2>3. m \in 0 .. n /\ ~ \E it : Meets(it, s, t, 1 .. m)
    BY <2>2 DEF T
  <2>4. CASE m = 0
    <3> DEFINE it == [D \in {{}} |-> 0]
    <3>1. SUBSET (1 .. 0) = {{}}
      OBVIOUS
    <3>2. it = [D \in {{}} |-> IF D = {} THEN 0 ELSE LET i == Max(D) IN Match(s, it[D \ {i}], t[i])]
      OBVIOUS
    <3> HIDE DEF it
    <3>3. Meets(it, s, t, 1 .. m)
      BY <2>4, <3>1, <3>2 DEF Meets
    <3> QED BY <2>3, <3>3
  <2>5. CASE m # 0
    <3>1. m - 1 \in 0 .. n /\ ~(m <= m - 1) /\ m \in Nat \ {0}
      BY <2>3, <2>5
    <3>2. PICK it : Meets(it, s, t, 1 .. m - 1)
      BY <2>2, <3>1 DEF T
    <3> DEFINE Q == SUBSET (1 .. m - 1)
               P == SUBSET (1 .. m)
               F(h, D) == IF D = {} THEN 0 ELSE LET i == Max(D) IN Match(s, h[D \ {i}], t[i])
               h == [D \in P |-> IF m \in D THEN Match(s, it[D \ {m}], t[m]) ELSE it[D]]
    <3>3. /\ \A D \in Q : it[D] = F(it, D)
      BY <3>2, Zenon DEF Meets
    <3>4. \A D \in P : /\ D \ {m} \in Q /\ D \ {m} \in P
                       /\ m \notin D => D \in Q
      BY <3>1
    <3>5. \A D \in P : h[D] = IF m \in D THEN Match(s, it[D \ {m}], t[m]) ELSE it[D]
      OBVIOUS
    <3>6. \A D \in P : m \notin D => h[D] = it[D]
      BY <3>5
    <3>7. h = [D \in P |-> h[D]]
      OBVIOUS
    <3> HIDE DEF h, F
    <3>8. ASSUME NEW D \in P PROVE h[D] = F(h, D)
      <4>1. CASE m \in D
        <5>1. Max(D) = m
          BY <3>1, <4>1, MaxOfInterval DEF P
        <5>2. h[D \ {m}] = it[D \ {m}]
          BY <3>4, <3>6
        <5>3. F(h, D) = Match(s, h[D \ {m}], t[m])
          BY <4>1, <5>1, Zenon DEF F
        <5> QED BY <3>5, <4>1, <5>2, <5>3
      <4>2. CASE m \notin D
        <5>1. D \in Q /\ h[D] = it[D]
          BY <3>4, <3>6, <4>2
        <5>2. CASE D = {}
          BY <3>3, <5>1, <5>2, Zenon DEF F
        <5>3. CASE D # {}
          <6>2. D \ {Max(D)} \in P /\ m \notin D \ {Max(D)}
            BY <4>2
          <6>3. h[D \ {Max(D)}] = it[D \ {Max(D)}]
            BY <3>6, <6>2
          <6>4. it[D] = F(it, D)
            BY <3>3, <5>1
          <6> QED BY <5>1, <5>3, <6>3, <6>4, Zenon DEF F
        <5> QED BY <5>2, <5>3
      <4> QED BY <4>1, <4>2
    <3>9. h = [D \in P |-> F(h, D)]
      BY <3>7, <3>8
    <3>10. Meets(h, s, t, 1 .. m)
      BY <3>9, Zenon DEF Meets, F, P
    <3> QED BY <2>3, <3>10
  <2> QED BY <2>4, <2>5
<1>2. n \notin T /\ n \in 0 .. n
  BY <1>1
<1> QED BY <1>2

\* So it counts: all of s is met in t when s stands in it.
LEMMA FoldIsLength ==
  ASSUME NEW S, NEW s \in Seq(S), NEW t, NEW n \in Nat, DOMAIN t = 1 .. n, NEW X, StandsIn(s, t, n, X)
  PROVE  Met(s, t) = Len(s)
<1>l. PICK l \in Nat : l = Len(s)
  BY LenProperties
<1>d. DOMAIN s = 1 .. l
  BY <1>l, LenProperties
<1>1. PICK it : Meets(it, s, t, 1 .. n) /\ Met(s, t) = it[1 .. n]
  <2>1. \E it : Meets(it, s, t, DOMAIN t)
    BY MeetsExists
  <2> QED BY <2>1, FoldMeets
<1>2. PICK f \in [1 .. l -> 1 .. n] :
        /\ \A i \in 1 .. l : t[f[i]] = s[i]
        /\ \A i, j \in 1 .. l : i < j => f[i] < f[j]
  <2>1. 0 + 1 .. n = 1 .. n
    OBVIOUS
  <2> QED BY <1>d, <2>1 DEF StandsIn, Between
<1> DEFINE c(k) == it[1 .. k]
<1>3. c(0) = 0
  <2>1. 1 .. 0 = {} /\ {} \in SUBSET (1 .. n)
    OBVIOUS
  <2>2. it[{}] = 0
    BY <1>1, <2>1, Zenon DEF Meets
  <2> QED BY <2>1, <2>2
<1>4. ASSUME NEW k \in 1 .. n PROVE c(k) = Match(s, c(k - 1), t[k])
  <2>1. 1 .. k \in SUBSET (1 .. n) /\ 1 .. k # {} /\ (1 .. k) \ {k} = 1 .. k - 1
        /\ k \in Nat \ {0} /\ 1 .. k \in SUBSET (1 .. k) /\ k \in 1 .. k
    <3>1. k \in Nat \ {0} /\ k \in 1 .. k /\ \A x \in 1 .. k : x \in 1 .. n
      OBVIOUS
    <3>2. \A x : x \in (1 .. k) \ {k} <=> x \in 1 .. k - 1
      OBVIOUS
    <3>3. (1 .. k) \ {k} = 1 .. k - 1
      BY <3>2
    <3> QED BY <3>1, <3>3
  <2>2. Max(1 .. k) = k
    BY <2>1, MaxOfInterval
  <2>3. it[1 .. k] = Match(s, it[(1 .. k) \ {Max(1 .. k)}], t[Max(1 .. k)])
    BY <1>1, <2>1, Zenon DEF Meets
  <2> QED BY <2>1, <2>2, <2>3
<1> HIDE DEF c
<1> DEFINE Good(k) == c(k) \in 0 .. l /\ \A j \in 1 .. l : f[j] <= k => j <= c(k)
           T == { k \in 0 .. n : ~Good(k) }
<1>5. ASSUME T # {} PROVE FALSE
  <2>1. T \subseteq Nat
    <3>1. T \subseteq 0 .. n /\ 0 .. n \subseteq Nat
      OBVIOUS
    <3> QED BY <3>1
  <2> HIDE DEF T
  <2>2. PICK m \in T : \A k \in T : m <= k
    BY <1>5, <2>1, LeastNatural
  <2>3. m \in 0 .. n /\ ~Good(m)
    BY <2>2, Zenon DEF T
  <2>4. CASE m = 0
    <3>1. \A j \in 1 .. l : ~(f[j] <= 0)
      BY <1>2
    <3> QED BY <1>3, <2>3, <2>4, <3>1
  <2>5. CASE m # 0
    <3>1. m - 1 \in 0 .. n /\ ~(m <= m - 1) /\ m \in 1 .. n
      BY <2>3, <2>5
    <3>2. Good(m - 1)
      BY <2>2, <3>1, Zenon DEF T
    <3>3. PICK p \in 0 .. l : p = c(m - 1)
      BY <3>2
    <3>4. c(m) = IF p < l /\ s[p + 1] = t[m] THEN p + 1 ELSE p
      BY <1>4, <1>l, <3>1, <3>3 DEF Match
    <3>5. c(m) \in 0 .. l /\ p <= c(m)
      BY <3>3, <3>4
    <3>6. ASSUME NEW j \in 1 .. l, f[j] <= m PROVE j <= c(m)
      <4>f. f[j] \in 1 .. n
        BY <1>2
      <4>1. CASE f[j] <= m - 1
        <5>1. j <= p
          BY <3>2, <3>3, <4>1
        <5> QED BY <3>5, <5>1
      <4>2. CASE f[j] = m
        <5>1. j - 1 <= p
          <6>1. CASE j = 1
            BY <3>3, <6>1
          <6>2. CASE j # 1
            <7>1. j - 1 \in 1 .. l /\ j - 1 < j
              BY <6>2
            <7>2. f[j - 1] < m /\ f[j - 1] \in 1 .. n
              BY <1>2, <4>2, <7>1
            <7>3. f[j - 1] <= m - 1
              BY <3>1, <7>2
            <7> QED BY <3>2, <3>3, <7>1, <7>3
          <6> QED BY <6>1, <6>2
        <5>2. CASE j <= p
          BY <3>5, <5>2
        <5>3. CASE p = j - 1
          <6>1. p < l /\ s[p + 1] = t[m] /\ p + 1 = j
            BY <1>2, <4>2, <5>3
          <6> QED BY <3>4, <6>1
        <5>4. j <= p \/ p = j - 1
          BY <5>1
        <5> QED BY <5>2, <5>3, <5>4, Zenon
      <4>3. f[j] <= m - 1 \/ f[j] = m
        BY <3>1, <3>6, <4>f
      <4> QED BY <4>1, <4>2, <4>3
    <3> QED BY <2>3, <3>5, <3>6
  <2> QED BY <2>4, <2>5
<1>6. Good(n)
  <2>1. n \notin T /\ n \in 0 .. n
    BY <1>5, SMTT(30)
  <2> QED BY <2>1
<1>7. c(n) = l
  <2>1. CASE l = 0
    BY <1>6, <2>1
  <2>2. CASE l # 0
    <3>1. l \in 1 .. l /\ f[l] \in 1 .. n
      BY <1>2, <2>2
    <3>2. f[l] <= n
      BY <3>1
    <3> QED BY <1>6, <3>1, <3>2
  <2> QED BY <2>1, <2>2
<1>8. it[1 .. n] = Len(s)
  BY <1>7, <1>l DEF c
<1> QED BY <1>1, <1>8

-----------------------------------------------------------------------------
(* A sequence but for the elements of a set *)

Keep(X, w, x) == IF x \in X THEN w ELSE Append(w, x)

\* it[D] is what is kept of t at the places D.
Keeps(it, X, t, places) ==
  it = [D \in SUBSET places |-> IF D = {} THEN <<>>
                                ELSE LET i == Max(D) IN Keep(X, it[D \ {i}], t[i])]

\* What is kept of t.
Kept(X, t) ==
  LET keep(w, x) == IF x \in X THEN w ELSE Append(w, x) IN FoldLeft(keep, <<>>, t)

\* FoldLeft is defined by that recursion.
LEMMA FoldKeeps ==
  ASSUME NEW X, NEW t, \E it : Keeps(it, X, t, DOMAIN t)
  PROVE  \E it : Keeps(it, X, t, DOMAIN t) /\ Kept(X, t) = it[DOMAIN t]
<1> DEFINE keep(w, x) == IF x \in X THEN w ELSE Append(w, x)
           iter == CHOOSE it : it = [D \in SUBSET DOMAIN t |->
                     IF D = {} THEN <<>> ELSE LET i == Max(D) IN keep(it[D \ {i}], t[i])]
<1>1. Kept(X, t) = iter[DOMAIN t]
  BY DEF Kept, FoldLeft, MapThenFoldSet
<1>2. iter = [D \in SUBSET DOMAIN t |->
                IF D = {} THEN <<>> ELSE LET i == Max(D) IN keep(iter[D \ {i}], t[i])]
  BY Zenon DEF Keeps, Keep
<1> QED BY <1>1, <1>2, Zenon DEF Keeps, Keep

\* There is such a function.
LEMMA KeepsExists ==
  ASSUME NEW X, NEW t, NEW n \in Nat
  PROVE  \E it : Keeps(it, X, t, 1 .. n)
<1> DEFINE T == { m \in 0 .. n : ~ \E it : Keeps(it, X, t, 1 .. m) }
<1>1. ASSUME T # {} PROVE FALSE
  <2>1. T \subseteq Nat
    <3>1. T \subseteq 0 .. n /\ 0 .. n \subseteq Nat
      OBVIOUS
    <3> QED BY <3>1
  <2> HIDE DEF T
  <2>2. PICK m \in T : \A k \in T : m <= k
    BY <1>1, <2>1, LeastNatural
  <2>3. m \in 0 .. n /\ ~ \E it : Keeps(it, X, t, 1 .. m)
    BY <2>2 DEF T
  <2>4. CASE m = 0
    <3> DEFINE it == [D \in {{}} |-> <<>>]
    <3>1. SUBSET (1 .. 0) = {{}}
      OBVIOUS
    <3>2. it = [D \in {{}} |-> IF D = {} THEN <<>> ELSE LET i == Max(D) IN Keep(X, it[D \ {i}], t[i])]
      OBVIOUS
    <3> HIDE DEF it
    <3>3. Keeps(it, X, t, 1 .. m)
      BY <2>4, <3>1, <3>2 DEF Keeps
    <3> QED BY <2>3, <3>3
  <2>5. CASE m # 0
    <3>1. m - 1 \in 0 .. n /\ ~(m <= m - 1) /\ m \in Nat \ {0}
      BY <2>3, <2>5
    <3>2. PICK it : Keeps(it, X, t, 1 .. m - 1)
      BY <2>2, <3>1 DEF T
    <3> DEFINE Q == SUBSET (1 .. m - 1)
               P == SUBSET (1 .. m)
               F(h, D) == IF D = {} THEN <<>> ELSE LET i == Max(D) IN Keep(X, h[D \ {i}], t[i])
               h == [D \in P |-> IF m \in D THEN Keep(X, it[D \ {m}], t[m]) ELSE it[D]]
    <3>3. /\ \A D \in Q : it[D] = F(it, D)
      BY <3>2, Zenon DEF Keeps
    <3>4. \A D \in P : /\ D \ {m} \in Q /\ D \ {m} \in P
                       /\ m \notin D => D \in Q
      BY <3>1
    <3>5. \A D \in P : h[D] = IF m \in D THEN Keep(X, it[D \ {m}], t[m]) ELSE it[D]
      OBVIOUS
    <3>6. \A D \in P : m \notin D => h[D] = it[D]
      BY <3>5
    <3>7. h = [D \in P |-> h[D]]
      OBVIOUS
    <3> HIDE DEF h, F
    <3>8. ASSUME NEW D \in P PROVE h[D] = F(h, D)
      <4>1. CASE m \in D
        <5>1. Max(D) = m
          BY <3>1, <4>1, MaxOfInterval DEF P
        <5>2. h[D \ {m}] = it[D \ {m}]
          BY <3>4, <3>6
        <5>3. F(h, D) = Keep(X, h[D \ {m}], t[m])
          BY <4>1, <5>1, Zenon DEF F
        <5> QED BY <3>5, <4>1, <5>2, <5>3
      <4>2. CASE m \notin D
        <5>1. D \in Q /\ h[D] = it[D]
          BY <3>4, <3>6, <4>2
        <5>2. CASE D = {}
          BY <3>3, <5>1, <5>2, Zenon DEF F
        <5>3. CASE D # {}
          <6>2. D \ {Max(D)} \in P /\ m \notin D \ {Max(D)}
            BY <4>2
          <6>3. h[D \ {Max(D)}] = it[D \ {Max(D)}]
            BY <3>6, <6>2
          <6>4. it[D] = F(it, D)
            BY <3>3, <5>1
          <6> QED BY <5>1, <5>3, <6>3, <6>4, Zenon DEF F
        <5> QED BY <5>2, <5>3
      <4> QED BY <4>1, <4>2
    <3>9. h = [D \in P |-> F(h, D)]
      BY <3>7, <3>8
    <3>10. Keeps(h, X, t, 1 .. m)
      BY <3>9, Zenon DEF Keeps, F, P
    <3> QED BY <2>3, <3>10
  <2> QED BY <2>4, <2>5
<1>2. n \notin T /\ n \in 0 .. n
  BY <1>1
<1> QED BY <1>2

\* w[k] is what is kept of the first k elements of t.
Collects(w, X, t, n) == /\ w[0] = <<>> /\ w[n] = Kept(X, t)
                        /\ \A k \in 1 .. n : w[k] = Keep(X, w[k - 1], t[k])

LEMMA KeptIs ==
  ASSUME NEW X, NEW t, NEW n \in Nat, DOMAIN t = 1 .. n
  PROVE  \E w : Collects(w, X, t, n)
<1>1. PICK it : Keeps(it, X, t, 1 .. n) /\ Kept(X, t) = it[1 .. n]
  <2>1. \E it : Keeps(it, X, t, DOMAIN t)
    BY KeepsExists
  <2> QED BY <2>1, FoldKeeps
<1> DEFINE w == [k \in 0 .. n |-> it[1 .. k]]
<1>w. \A k \in 0 .. n : w[k] = it[1 .. k]
  OBVIOUS
<1> HIDE DEF w
<1>2. w[0] = <<>>
  <2>1. 1 .. 0 = {} /\ {} \in SUBSET (1 .. n)
    OBVIOUS
  <2>2. it[{}] = <<>>
    BY <1>1, <2>1, Zenon DEF Keeps
  <2> QED BY <1>w, <2>1, <2>2
<1>3. w[n] = Kept(X, t)
  BY <1>1, <1>w
<1>4. ASSUME NEW k \in 1 .. n PROVE w[k] = Keep(X, w[k - 1], t[k])
  <2>1. 1 .. k \in SUBSET (1 .. n) /\ 1 .. k # {} /\ (1 .. k) \ {k} = 1 .. k - 1
        /\ k \in Nat \ {0} /\ 1 .. k \in SUBSET (1 .. k) /\ k \in 1 .. k
    <3>1. k \in Nat \ {0} /\ k \in 1 .. k /\ \A x \in 1 .. k : x \in 1 .. n
      OBVIOUS
    <3>2. \A x : x \in (1 .. k) \ {k} <=> x \in 1 .. k - 1
      OBVIOUS
    <3>3. (1 .. k) \ {k} = 1 .. k - 1
      BY <3>2
    <3> QED BY <3>1, <3>3
  <2>2. Max(1 .. k) = k
    BY <2>1, MaxOfInterval
  <2>3. it[1 .. k] = Keep(X, it[(1 .. k) \ {Max(1 .. k)}], t[Max(1 .. k)])
    BY <1>1, <2>1, Zenon DEF Keeps
  <2>4. w[k] = it[1 .. k] /\ w[k - 1] = it[1 .. k - 1]
    BY <1>w
  <2> QED BY <2>1, <2>2, <2>3, <2>4
<1> QED BY <1>2, <1>3, <1>4 DEF Collects

\* When all that s leaves out of t is dropped, the same is kept of both.
LEMMA FilledKept ==
  ASSUME NEW S, NEW s \in Seq(S), NEW t, NEW n \in Nat, DOMAIN t = 1 .. n, NEW X, NEW Y,
         X \subseteq Y, StandsIn(s, t, n, X)
  PROVE  Kept(Y, s) = Kept(Y, t)
<1>l. PICK l \in Nat : l = Len(s)
  BY LenProperties
<1>d. DOMAIN s = 1 .. l
  BY <1>l, LenProperties
<1>1. PICK v : v[0] = <<>> /\ v[l] = Kept(Y, s) /\ \A k \in 1 .. l : v[k] = Keep(Y, v[k - 1], s[k])
  <2>1. \E v : Collects(v, Y, s, l)
    BY <1>d, KeptIs
  <2> QED BY <2>1, Zenon DEF Collects
<1>2. PICK w : w[0] = <<>> /\ w[n] = Kept(Y, t) /\ \A k \in 1 .. n : w[k] = Keep(Y, w[k - 1], t[k])
  <2>1. \E w : Collects(w, Y, t, n)
    BY KeptIs
  <2> QED BY <2>1, Zenon DEF Collects
<1>3. PICK f \in [1 .. l -> 1 .. n] :
        /\ \A i \in 1 .. l : t[f[i]] = s[i]
        /\ \A i, j \in 1 .. l : i < j => f[i] < f[j]
        /\ \A p \in 1 .. n : t[p] \in X \/ \E i \in 1 .. l : f[i] = p
  <2> DEFINE P == 1 .. n
             D == 1 .. l
  <2>1. 0 + 1 .. n = P /\ DOMAIN s = D
    BY <1>d
  <2> HIDE DEF P, D
  <2>2. \E f \in [DOMAIN s -> 0 + 1 .. n] :
          /\ \A i \in DOMAIN s : t[f[i]] = s[i]
          /\ \A i, j \in DOMAIN s : i < j => f[i] < f[j]
          /\ \A p \in 0 + 1 .. n : t[p] \in X \/ \E i \in DOMAIN s : f[i] = p
    BY Zenon DEF StandsIn, Between
  <2>3. \E f \in [D -> P] :
          /\ \A i \in D : t[f[i]] = s[i]
          /\ \A i, j \in D : i < j => f[i] < f[j]
          /\ \A p \in P : t[p] \in X \/ \E i \in D : f[i] = p
    BY <2>1, <2>2
  <2> QED BY <2>3 DEF P, D
<1>f. \A i \in 1 .. l : f[i] \in Nat /\ 1 <= f[i] /\ f[i] <= n
  BY <1>3
\* Of the first k elements of t, the first j of s are met.
<1> DEFINE Upto(k, j) == \A i \in 1 .. l : f[i] <= k <=> i <= j
           Good(k) == \A j \in 0 .. l : Upto(k, j) => w[k] = v[j]
           T == { k \in 0 .. n : ~Good(k) }
<1>4. ASSUME T # {} PROVE FALSE
  <2>1. T \subseteq Nat
    <3>1. T \subseteq 0 .. n /\ 0 .. n \subseteq Nat
      OBVIOUS
    <3> QED BY <3>1
  <2> HIDE DEF T
  <2>2. PICK k \in T : \A m \in T : k <= m
    BY <1>4, <2>1, LeastNatural
  <2>3. k \in 0 .. n /\ ~Good(k)
    BY <2>2, Zenon DEF T
  <2>4. PICK j \in 0 .. l : Upto(k, j) /\ w[k] # v[j]
    BY <2>3
  <2>5. CASE k = 0
    <3>1. j = 0
      <4>1. ASSUME j # 0 PROVE FALSE
        <5>1. j \in 1 .. l
          BY <4>1
        <5> QED BY <1>f, <2>4, <2>5, <5>1
      <4> QED BY <4>1
    <3> QED BY <1>1, <1>2, <2>4, <2>5, <3>1
  <2>6. CASE k # 0
    <3>1. k - 1 \in 0 .. n /\ ~(k <= k - 1) /\ k \in 1 .. n
      BY <2>3, <2>6
    <3>2. Good(k - 1)
      BY <2>2, <3>1, Zenon DEF T
    <3>3. w[k] = Keep(Y, w[k - 1], t[k])
      BY <1>2, <3>1
    <3>4. CASE \E i \in 1 .. l : f[i] = k
      <4>1. PICK i \in 1 .. l : f[i] = k
        BY <3>4
      <4>2. j = i
        <5>1. i <= j
          BY <2>4, <3>1, <4>1
        <5>2. ASSUME i < j PROVE FALSE
          <6>1. j \in 1 .. l
            BY <5>2
          <6>2. f[i] < f[j] /\ f[j] <= k
            BY <1>3, <2>4, <5>2, <6>1
          <6> QED BY <1>f, <4>1, <6>1, <6>2
        <5> QED BY <5>1, <5>2
      <4>3. Upto(k - 1, i - 1)
        <5> SUFFICES ASSUME NEW h \in 1 .. l PROVE f[h] <= k - 1 <=> h <= i - 1
          OBVIOUS
        <5>1. h < i => f[h] < k
          BY <1>3, <4>1
        <5>2. i < h => k < f[h]
          BY <1>3, <4>1
        <5>3. h = i => f[h] = k
          BY <4>1
        <5>4. f[h] \in Nat /\ k \in Nat
          BY <1>f, <3>1
        <5> HIDE DEF T
        <5> QED BY <5>1, <5>2, <5>3, <5>4
      <4>4. i - 1 \in 0 .. l
        OBVIOUS
      <4>5. w[k - 1] = v[i - 1] /\ t[k] = s[i]
        BY <1>3, <3>2, <4>1, <4>3, <4>4
      <4>6. v[i] = Keep(Y, v[i - 1], s[i])
        BY <1>1
      <4> QED BY <2>4, <3>3, <4>2, <4>5, <4>6
    <3>5. CASE ~ \E i \in 1 .. l : f[i] = k
      <4>1. t[k] \in Y
        BY <1>3, <3>1, <3>5
      <4>2. Upto(k - 1, j)
        <5> SUFFICES ASSUME NEW h \in 1 .. l PROVE f[h] <= k - 1 <=> h <= j
          OBVIOUS
        <5>1. f[h] # k /\ (f[h] <= k <=> h <= j) /\ f[h] \in Nat /\ k \in Nat
          BY <1>f, <2>4, <3>1, <3>5
        <5> QED BY <5>1
      <4>3. w[k - 1] = v[j] /\ w[k] = w[k - 1]
        BY <3>2, <3>3, <4>1, <4>2 DEF Keep
      <4> QED BY <2>4, <4>3
    <3> QED BY <3>4, <3>5
  <2> QED BY <2>5, <2>6
<1>5. Good(n)
  <2>1. n \notin T /\ n \in 0 .. n
    BY <1>4, SMTT(30)
  <2> QED BY <2>1
<1>6. Upto(n, l) /\ l \in 0 .. l
  BY <1>f
<1> QED BY <1>1, <1>2, <1>5, <1>6

\* When none of its elements is dropped, all of s is kept.
LEMMA AllKept ==
  ASSUME NEW S, NEW s \in Seq(S), NEW X, X \cap S = {}
  PROVE  Kept(X, s) = s
<1>l. PICK l \in Nat : l = Len(s)
  BY LenProperties
<1>d. DOMAIN s = 1 .. l /\ \A k \in 1 .. l : s[k] \in S /\ s[k] \notin X
  BY <1>l, LenProperties, ElementOfSeq
<1>1. PICK v : v[0] = <<>> /\ v[l] = Kept(X, s) /\ \A k \in 1 .. l : v[k] = Keep(X, v[k - 1], s[k])
  <2>1. \E v : Collects(v, X, s, l)
    BY <1>d, KeptIs
  <2> QED BY <2>1, Zenon DEF Collects
<1> DEFINE Good(k) == v[k] \in Seq(S) /\ Len(v[k]) = k /\ \A i \in 1 .. k : v[k][i] = s[i]
           T == { k \in 0 .. l : ~Good(k) }
<1>2. ASSUME T # {} PROVE FALSE
  <2>1. T \subseteq Nat
    <3>1. T \subseteq 0 .. l /\ 0 .. l \subseteq Nat
      OBVIOUS
    <3> QED BY <3>1
  <2> HIDE DEF T
  <2>2. PICK k \in T : \A m \in T : k <= m
    BY <1>2, <2>1, LeastNatural
  <2>3. k \in 0 .. l /\ ~Good(k)
    BY <2>2, Zenon DEF T
  <2>4. CASE k = 0
    <3>1. <<>> \in Seq(S) /\ Len(<<>>) = 0 /\ \A i \in 1 .. 0 : FALSE
      OBVIOUS
    <3> QED BY <1>1, <2>3, <2>4, <3>1
  <2>5. CASE k # 0
    <3>1. k - 1 \in 0 .. l /\ ~(k <= k - 1) /\ k \in 1 .. l
      BY <2>3, <2>5
    <3>2. Good(k - 1)
      BY <2>2, <3>1, Zenon DEF T
    <3>3. v[k] = Append(v[k - 1], s[k])
      BY <1>1, <1>d, <3>1 DEF Keep
    <3> DEFINE b == v[k - 1]
    <3>4. b \in Seq(S) /\ Len(b) = k - 1 /\ (\A i \in 1 .. k - 1 : b[i] = s[i]) /\ s[k] \in S
          /\ v[k] = Append(b, s[k])
      BY <1>d, <3>1, <3>2, <3>3
    <3> HIDE DEF b
    <3>5. Append(b, s[k]) \in Seq(S) /\ Len(Append(b, s[k])) = (k - 1) + 1
          /\ \A i \in 1 .. (k - 1) + 1 : Append(b, s[k])[i] = IF i = (k - 1) + 1 THEN s[k] ELSE b[i]
      BY <3>4, AppendProperties
    <3>6. Good(k)
      BY <3>1, <3>4, <3>5
    <3> QED BY <2>3, <3>6
  <2> QED BY <2>4, <2>5
<1>3. Good(l)
  <2>1. l \notin T /\ l \in 0 .. l
    BY <1>2, SMTT(30)
  <2> QED BY <2>1
<1> QED BY <1>l, <1>1, <1>3, SeqEqual

=============================================================================
