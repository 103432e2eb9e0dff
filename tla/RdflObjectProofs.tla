-------------------------- MODULE RdflObjectProofs --------------------------
(***************************************************************************)
(* What holds of the memory, the descriptor and the timer of an rdfl       *)
(* object after any sequence of calls, whatever malloc fails, for any      *)
(* number of comments and chunks.                                          *)
(***************************************************************************)
EXTENDS RdflObject, FiniteSetTheorems, TLAPS

USE RdflObjectAssumption

AllSettings == {"MONITORING", "AUTOCLOSE", "FULLEMPTY",
                "LOCAL_OPEN", "LOCAL_ALLOC", "LOCAL_REACHED_EOF"}

ObjectType ==
  [self : Nat, timeout : Nat \cup {-1}, cmts : Seq(Comment), nw : Nat,
   nwtimeout : Nat, tv : [tv_sec : Int, tv_usec : Int],
   settings : SUBSET AllSettings, chunks : Seq(Blist), garbage : BOOLEAN]

\* The blocks of one comment, and of one chunk.
CommentBlock(c) == {c.node, c.beg, c.end}
ChunkBlock(c) == {c.node, c.data}

\* The comments of a list have three blocks each, the chunks two, all of them
\* different.
DistinctComments(cmts) ==
  \A i \in DOMAIN cmts :
    /\ NULL \notin CommentBlock(cmts[i])
    /\ cmts[i].node # cmts[i].beg /\ cmts[i].node # cmts[i].end /\ cmts[i].beg # cmts[i].end
    /\ \A j \in DOMAIN cmts : i # j => CommentBlock(cmts[i]) \cap CommentBlock(cmts[j]) = {}

DistinctChunks(chunks) ==
  \A i \in DOMAIN chunks :
    /\ NULL \notin ChunkBlock(chunks[i])
    /\ chunks[i].node # chunks[i].data
    /\ \A j \in DOMAIN chunks : i # j => ChunkBlock(chunks[i]) \cap ChunkBlock(chunks[j]) = {}

SelfBlock(r) == {r.self} \ {NULL}

\* No two pointers of the object are to the same block.
Distinct(r) ==
  /\ DistinctComments(r.cmts) /\ DistinctChunks(r.chunks)
  /\ r.nw = NULL => r.nwtimeout = NULL
  /\ r.nw # NULL => r.nw # r.nwtimeout
  /\ SelfBlock(r) \cap NetBlocks(r) = {}
  /\ SelfBlock(r) \cap CommentBlocks(r.cmts) = {}
  /\ SelfBlock(r) \cap ChunkBlocks(r.chunks) = {}
  /\ NetBlocks(r) \cap CommentBlocks(r.cmts) = {}
  /\ NetBlocks(r) \cap ChunkBlocks(r.chunks) = {}
  /\ CommentBlocks(r.cmts) \cap ChunkBlocks(r.chunks) = {}

Blocks(r) == SelfBlock(r) \cup NetBlocks(r) \cup CommentBlocks(r.cmts) \cup ChunkBlocks(r.chunks)

\* The inductive invariant, in parts.
Typed ==
  /\ heap \subseteq Nat \ {NULL} /\ IsFiniteSet(heap)
  /\ descr \in {"none", "open", "closed"}
  /\ phase \in {"none", "inited", "loaded", "failed", "cleaned"}
  /\ rdfl \in ObjectType
  /\ last \in [op : Ops, arg : Int, ret : Int]

Owned == phase \in {"inited", "loaded", "failed"} => heap = Blocks(rdfl) /\ Distinct(rdfl)

\* What the phases mean for the object.
Phases ==
  /\ phase = "none" => rdfl = NoObject /\ heap = {}
  /\ phase = "inited" => rdfl.nw = NULL /\ rdfl.nwtimeout = NULL /\ rdfl.chunks = <<>>
  /\ phase = "cleaned" => heap = SelfBlock(rdfl) /\ rdfl.chunks = <<>>
  /\ "LOCAL_ALLOC" \in rdfl.settings => rdfl.garbage

\* A descriptor is the library's as long as LOCAL_OPEN says so.
Descriptor ==
  /\ descr = "open" <=> "LOCAL_OPEN" \in rdfl.settings
  /\ phase \in {"none", "inited", "cleaned"} => descr # "open"

IInv == Typed /\ Owned /\ Phases /\ Descriptor

-----------------------------------------------------------------------------
(* malloc *)

LEMMA FreeIsFree ==
  ASSUME NEW h \in SUBSET (Nat \ {NULL}), IsFiniteSet(h)
  PROVE  Free(h) \in Nat \ {NULL} /\ Free(h) \notin h
<1>1. Cardinality(h) \in Nat
  BY FS_CardinalityType
<1>2. \E p \in 1 .. Cardinality(h) + 1 : p \notin h
  <2> SUFFICES ASSUME \A p \in 1 .. Cardinality(h) + 1 : p \in h PROVE FALSE
    OBVIOUS
  <2>1. 1 .. Cardinality(h) + 1 \in SUBSET h
    OBVIOUS
  <2>2. Cardinality(1 .. Cardinality(h) + 1) = Cardinality(h) + 1
    BY <1>1, FS_Interval
  <2>3. Cardinality(1 .. Cardinality(h) + 1) <= Cardinality(h)
    BY <2>1, FS_Subset
  <2> QED BY <1>1, <2>2, <2>3
<1>3. Free(h) \in 1 .. Cardinality(h) + 1 /\ Free(h) \notin h
  BY <1>2, Zenon DEF Free
<1> QED BY <1>1, <1>3 DEF NULL

\* Up to four mallocs in a row return different blocks that were not in use.
LEMMA FreshIsFree ==
  ASSUME Typed
  PROVE  /\ \A i \in 1 .. 4 : Fresh(i) \in Nat \ {NULL} /\ Fresh(i) \notin heap
         /\ \A i, j \in 1 .. 4 : i # j => Fresh(i) # Fresh(j)
<1> DEFINE p == Free(heap)
           q == Free(heap \cup {p})
           r == Free(heap \cup {p, q})
           s == Free(heap \cup {p, q, r})
<1>h. heap \in SUBSET (Nat \ {NULL}) /\ IsFiniteSet(heap)
  BY DEF Typed
<1>1. p \in Nat \ {NULL} /\ p \notin heap
  BY <1>h, FreeIsFree
<1> HIDE DEF p
<1>2. q \in Nat \ {NULL} /\ q \notin heap \cup {p}
  <2>1. IsFiniteSet(heap \cup {p})
    BY <1>h, FS_AddElement
  <2>2. heap \cup {p} \in SUBSET (Nat \ {NULL})
    BY <1>h, <1>1
  <2> QED BY <2>1, <2>2, FreeIsFree
<1> HIDE DEF q
<1>3. r \in Nat \ {NULL} /\ r \notin heap \cup {p, q}
  <2>1. IsFiniteSet((heap \cup {p}) \cup {q})
    BY <1>h, FS_AddElement
  <2>2. (heap \cup {p}) \cup {q} = heap \cup {p, q}
    OBVIOUS
  <2>3. heap \cup {p, q} \in SUBSET (Nat \ {NULL})
    BY <1>h, <1>1, <1>2
  <2> QED BY <2>1, <2>2, <2>3, FreeIsFree
<1> HIDE DEF r
<1>4. s \in Nat \ {NULL} /\ s \notin heap \cup {p, q, r}
  <2>1. IsFiniteSet(((heap \cup {p}) \cup {q}) \cup {r})
    BY <1>h, FS_AddElement
  <2>2. ((heap \cup {p}) \cup {q}) \cup {r} = heap \cup {p, q, r}
    OBVIOUS
  <2>3. heap \cup {p, q, r} \in SUBSET (Nat \ {NULL})
    BY <1>h, <1>1, <1>2, <1>3
  <2> QED BY <2>1, <2>2, <2>3, FreeIsFree
<1> HIDE DEF s
<1>5. Fresh(1) = p /\ Fresh(2) = q /\ Fresh(3) = r /\ Fresh(4) = s
  BY DEF Fresh, p, q, r, s
<1>6. \A i \in 1 .. 4 : i = 1 \/ i = 2 \/ i = 3 \/ i = 4
  OBVIOUS
<1> QED BY <1>1, <1>2, <1>3, <1>4, <1>5, <1>6

-----------------------------------------------------------------------------
(* Counting the blocks *)

LEMMA CommentsCounted ==
  ASSUME NEW c \in Seq(Comment), DistinctComments(c)
  PROVE  IsFiniteSet(CommentBlocks(c)) /\ Cardinality(CommentBlocks(c)) = 3 * Len(c)
<1> DEFINE n == Len(c)
           S == CommentBlocks(c)
           f == [k \in 1 .. 3 * n |-> IF k <= n THEN c[k].node
                                      ELSE IF k <= 2 * n THEN c[k - n].beg ELSE c[k - 2 * n].end]
<1>1. n \in Nat /\ DOMAIN c = 1 .. n /\ \A i \in 1 .. n : c[i] \in Comment
  OBVIOUS
<1>2. \A x : x \in S <=> \E i \in 1 .. n : x = c[i].node \/ x = c[i].beg \/ x = c[i].end
  BY <1>1 DEF CommentBlocks
<1>3. f \in [1 .. 3 * n -> S]
  <2> SUFFICES ASSUME NEW k \in 1 .. 3 * n PROVE f[k] \in S
    OBVIOUS
  <2>1. k <= n => k \in 1 .. n
    BY <1>1
  <2>2. ~(k <= n) /\ k <= 2 * n => k - n \in 1 .. n
    BY <1>1
  <2>3. ~(k <= 2 * n) => k - 2 * n \in 1 .. n
    BY <1>1
  <2> QED BY <1>2, <2>1, <2>2, <2>3
<1>4. \A j, k \in 1 .. 3 * n : f[j] = f[k] => j = k
  <2> SUFFICES ASSUME NEW j \in 1 .. 3 * n, NEW k \in 1 .. 3 * n, f[j] = f[k] PROVE j = k
    OBVIOUS
  <2> DEFINE row(m) == IF m <= n THEN m ELSE IF m <= 2 * n THEN m - n ELSE m - 2 * n
  <2>1. row(j) \in 1 .. n /\ row(k) \in 1 .. n
    BY <1>1
  <2>2. f[j] \in CommentBlock(c[row(j)]) /\ f[k] \in CommentBlock(c[row(k)])
    BY <1>1 DEF CommentBlock
  <2>3. row(j) = row(k)
    <3> HIDE DEF row, f, n
    <3> QED BY <1>1, <2>1, <2>2 DEF DistinctComments
  <2>4. /\ c[row(j)].node # c[row(j)].beg /\ c[row(j)].node # c[row(j)].end
        /\ c[row(j)].beg # c[row(j)].end
    <3> HIDE DEF row, f, n
    <3> QED BY <1>1, <2>1 DEF DistinctComments
  <2> QED BY <1>1, <2>1, <2>3, <2>4
<1>5. \A x \in S : \E k \in 1 .. 3 * n : f[k] = x
  <2> SUFFICES ASSUME NEW x \in S PROVE \E k \in 1 .. 3 * n : f[k] = x
    OBVIOUS
  <2>1. PICK i \in 1 .. n : x = c[i].node \/ x = c[i].beg \/ x = c[i].end
    BY <1>2
  <2>2. i \in 1 .. 3 * n /\ f[i] = c[i].node
    BY <1>1
  <2>3. i + n \in 1 .. 3 * n /\ f[i + n] = c[i].beg
    BY <1>1
  <2>4. i + 2 * n \in 1 .. 3 * n /\ f[i + 2 * n] = c[i].end
    BY <1>1
  <2> QED BY <2>1, <2>2, <2>3, <2>4
<1> HIDE DEF f, S
<1>6. ExistsBijection(1 .. 3 * n, S)
  BY <1>3, <1>4, <1>5 DEF ExistsBijection, Bijection, Injection, Surjection, IsInjective
<1>7. 3 * n \in Nat
  BY <1>1
<1>8. IsFiniteSet(S)
  BY <1>6, <1>7, FS_NatBijection
<1>9. Cardinality(S) = 3 * n
  BY <1>6, <1>7, FS_CountingElements
<1> QED BY <1>8, <1>9 DEF S

LEMMA ChunksCounted ==
  ASSUME NEW c \in Seq(Blist), DistinctChunks(c)
  PROVE  IsFiniteSet(ChunkBlocks(c)) /\ Cardinality(ChunkBlocks(c)) = 2 * Len(c)
<1> DEFINE n == Len(c)
           S == ChunkBlocks(c)
           f == [k \in 1 .. 2 * n |-> IF k <= n THEN c[k].node ELSE c[k - n].data]
<1>1. n \in Nat /\ DOMAIN c = 1 .. n /\ \A i \in 1 .. n : c[i] \in Blist
  OBVIOUS
<1>2. \A x : x \in S <=> \E i \in 1 .. n : x = c[i].node \/ x = c[i].data
  BY <1>1 DEF ChunkBlocks
<1>3. f \in [1 .. 2 * n -> S]
  <2> SUFFICES ASSUME NEW k \in 1 .. 2 * n PROVE f[k] \in S
    OBVIOUS
  <2>1. k <= n => k \in 1 .. n
    BY <1>1
  <2>2. ~(k <= n) => k - n \in 1 .. n
    BY <1>1
  <2> QED BY <1>2, <2>1, <2>2
<1>4. \A j, k \in 1 .. 2 * n : f[j] = f[k] => j = k
  <2> SUFFICES ASSUME NEW j \in 1 .. 2 * n, NEW k \in 1 .. 2 * n, f[j] = f[k] PROVE j = k
    OBVIOUS
  <2> DEFINE row(m) == IF m <= n THEN m ELSE m - n
  <2>1. row(j) \in 1 .. n /\ row(k) \in 1 .. n
    BY <1>1
  <2>2. f[j] \in ChunkBlock(c[row(j)]) /\ f[k] \in ChunkBlock(c[row(k)])
    BY <1>1 DEF ChunkBlock
  <2>3. row(j) = row(k)
    <3> HIDE DEF row, f, n
    <3> QED BY <1>1, <2>1, <2>2 DEF DistinctChunks
  <2>4. c[row(j)].node # c[row(j)].data
    <3> HIDE DEF row, f, n
    <3> QED BY <1>1, <2>1 DEF DistinctChunks
  <2> QED BY <1>1, <2>1, <2>3, <2>4
<1>5. \A x \in S : \E k \in 1 .. 2 * n : f[k] = x
  <2> SUFFICES ASSUME NEW x \in S PROVE \E k \in 1 .. 2 * n : f[k] = x
    OBVIOUS
  <2>1. PICK i \in 1 .. n : x = c[i].node \/ x = c[i].data
    BY <1>2
  <2>2. i \in 1 .. 2 * n /\ f[i] = c[i].node
    BY <1>1
  <2>3. i + n \in 1 .. 2 * n /\ f[i + n] = c[i].data
    BY <1>1
  <2> QED BY <2>1, <2>2, <2>3
<1> HIDE DEF f, S
<1>6. ExistsBijection(1 .. 2 * n, S)
  BY <1>3, <1>4, <1>5 DEF ExistsBijection, Bijection, Injection, Surjection, IsInjective
<1>7. 2 * n \in Nat
  BY <1>1
<1>8. IsFiniteSet(S)
  BY <1>6, <1>7, FS_NatBijection
<1>9. Cardinality(S) = 2 * n
  BY <1>6, <1>7, FS_CountingElements
<1> QED BY <1>8, <1>9 DEF S

LEMMA DisjointUnion ==
  ASSUME NEW A, NEW B, IsFiniteSet(A), IsFiniteSet(B), A \cap B = {}
  PROVE  IsFiniteSet(A \cup B) /\ Cardinality(A \cup B) = Cardinality(A) + Cardinality(B)
<1>1. /\ IsFiniteSet(A \cup B)
      /\ Cardinality(A \cup B) = Cardinality(A) + Cardinality(B) - Cardinality(A \cap B)
  BY FS_Union
<1>2. Cardinality(A \cap B) = 0 /\ Cardinality(A) \in Nat /\ Cardinality(B) \in Nat
  BY FS_EmptySet, FS_CardinalityType
<1> QED BY <1>1, <1>2

-----------------------------------------------------------------------------
(* Growing and shrinking *)

LEMMA HeapGrows ==
  ASSUME Typed, NEW m \in 0 .. 4
  PROVE  /\ heap \cup {Fresh(i) : i \in 1 .. m} \subseteq Nat \ {NULL}
         /\ IsFiniteSet(heap \cup {Fresh(i) : i \in 1 .. m})
<1>1. IsFiniteSet({} \cup {Fresh(1)})
  BY FS_EmptySet, FS_AddElement
<1>a. IsFiniteSet(({} \cup {Fresh(1)}) \cup {Fresh(2)})
  BY <1>1, FS_AddElement
<1>2. IsFiniteSet((({} \cup {Fresh(1)}) \cup {Fresh(2)}) \cup {Fresh(3)})
  BY <1>a, FS_AddElement
<1>3. IsFiniteSet(((({} \cup {Fresh(1)}) \cup {Fresh(2)}) \cup {Fresh(3)}) \cup {Fresh(4)})
  BY <1>2, FS_AddElement
<1>4. {Fresh(i) : i \in 1 .. m} \in
        SUBSET (((({} \cup {Fresh(1)}) \cup {Fresh(2)}) \cup {Fresh(3)}) \cup {Fresh(4)})
  <2>1. \A i \in 1 .. m : i = 1 \/ i = 2 \/ i = 3 \/ i = 4
    OBVIOUS
  <2> QED BY <2>1
<1>5. IsFiniteSet({Fresh(i) : i \in 1 .. m})
  BY <1>3, <1>4, FS_Subset
<1>h. heap \subseteq Nat \ {NULL} /\ IsFiniteSet(heap)
  BY DEF Typed
<1>6. IsFiniteSet(heap \cup {Fresh(i) : i \in 1 .. m})
  BY <1>5, <1>h, FS_Union
<1>7. \A i \in 1 .. m : Fresh(i) \in Nat \ {NULL}
  BY FreshIsFree
<1> QED BY <1>6, <1>7, <1>h

LEMMA HeapShrinks ==
  ASSUME Typed, NEW S
  PROVE  heap \ S \subseteq Nat \ {NULL} /\ IsFiniteSet(heap \ S)
<1>h. heap \subseteq Nat \ {NULL} /\ IsFiniteSet(heap)
  BY DEF Typed
<1>1. heap \ S \in SUBSET heap
  OBVIOUS
<1>2. IsFiniteSet(heap \ S)
  BY <1>1, <1>h, FS_Subset
<1> QED BY <1>2, <1>h

\* A comment of new blocks in front of the others.
LEMMA CommentAdded ==
  ASSUME NEW c \in Seq(Comment), DistinctComments(c), NEW x \in Comment,
         NULL \notin CommentBlock(x), x.node # x.beg, x.node # x.end, x.beg # x.end,
         CommentBlock(x) \cap CommentBlocks(c) = {}
  PROVE  /\ <<x>> \o c \in Seq(Comment) /\ DistinctComments(<<x>> \o c)
         /\ CommentBlocks(<<x>> \o c) = CommentBlock(x) \cup CommentBlocks(c)
<1> DEFINE d == <<x>> \o c
<1>1. /\ d \in Seq(Comment) /\ Len(d) = Len(c) + 1 /\ DOMAIN d = 1 .. Len(c) + 1
      /\ d[1] = x /\ \A i \in 1 .. Len(c) : d[i + 1] = c[i]
      /\ DOMAIN c = 1 .. Len(c) /\ Len(c) \in Nat
  OBVIOUS
<1> HIDE DEF d
<1>2. \A i \in DOMAIN d : i = 1 \/ \E j \in DOMAIN c : i = j + 1 /\ d[i] = c[j]
  <2> SUFFICES ASSUME NEW i \in DOMAIN d, i # 1
               PROVE  \E j \in DOMAIN c : i = j + 1 /\ d[i] = c[j]
    OBVIOUS
  <2>1. i - 1 \in DOMAIN c /\ i = (i - 1) + 1
    BY <1>1
  <2> QED BY <1>1, <2>1
<1>3. \A i \in DOMAIN c : CommentBlock(c[i]) \subseteq CommentBlocks(c)
  BY DEF CommentBlock, CommentBlocks
<1>4. CommentBlocks(d) = CommentBlock(x) \cup CommentBlocks(c)
  <2>1. \A b : b \in CommentBlocks(d) <=> \E i \in DOMAIN d : b \in CommentBlock(d[i])
    BY DEF CommentBlock, CommentBlocks
  <2>2. \A b : b \in CommentBlocks(c) <=> \E i \in DOMAIN c : b \in CommentBlock(c[i])
    BY DEF CommentBlock, CommentBlocks
  <2>3. 1 \in DOMAIN d /\ \A i \in DOMAIN c : i + 1 \in DOMAIN d /\ d[i + 1] = c[i]
    BY <1>1
  <2>4. \A b : b \in CommentBlocks(d) => b \in CommentBlock(x) \cup CommentBlocks(c)
    BY <1>1, <1>2, <2>1, <2>2
  <2>5. \A b : b \in CommentBlock(x) \cup CommentBlocks(c) => b \in CommentBlocks(d)
    BY <1>1, <2>1, <2>2, <2>3
  <2> QED BY <2>4, <2>5
<1>5. DistinctComments(d)
  <2> SUFFICES ASSUME NEW i \in DOMAIN d
               PROVE  /\ NULL \notin CommentBlock(d[i])
                      /\ d[i].node # d[i].beg /\ d[i].node # d[i].end /\ d[i].beg # d[i].end
                      /\ \A j \in DOMAIN d :
                           i # j => CommentBlock(d[i]) \cap CommentBlock(d[j]) = {}
    BY Zenon DEF DistinctComments
  <2>1. CASE i = 1
    <3>1. \A j \in DOMAIN d : i # j => CommentBlock(d[i]) \cap CommentBlock(d[j]) = {}
      BY <1>1, <1>2, <1>3, <2>1
    <3> QED BY <1>1, <2>1, <3>1
  <2>2. CASE i # 1
    <3>1. PICK k \in DOMAIN c : i = k + 1 /\ d[i] = c[k]
      BY <1>2, <2>2
    <3>2. /\ NULL \notin CommentBlock(c[k])
          /\ c[k].node # c[k].beg /\ c[k].node # c[k].end /\ c[k].beg # c[k].end
          /\ \A j \in DOMAIN c : k # j => CommentBlock(c[k]) \cap CommentBlock(c[j]) = {}
      BY Zenon DEF DistinctComments
    <3>3. \A j \in DOMAIN d : i # j => CommentBlock(d[i]) \cap CommentBlock(d[j]) = {}
      <4> SUFFICES ASSUME NEW j \in DOMAIN d, i # j
                   PROVE  CommentBlock(d[i]) \cap CommentBlock(d[j]) = {}
        OBVIOUS
      <4>1. CASE j = 1
        BY <1>1, <1>3, <3>1, <4>1
      <4>2. CASE j # 1
        <5>1. PICK h \in DOMAIN c : j = h + 1 /\ d[j] = c[h]
          BY <1>2, <4>2
        <5> QED BY <3>1, <3>2, <5>1
      <4> QED BY <4>1, <4>2
    <3> QED BY <3>1, <3>2, <3>3
  <2> QED BY <2>1, <2>2
<1> QED BY <1>1, <1>4, <1>5 DEF d

\* A chunk of new blocks behind the others.
LEMMA ChunkAdded ==
  ASSUME NEW c \in Seq(Blist), DistinctChunks(c), NEW x \in Blist,
         NULL \notin ChunkBlock(x), x.node # x.data, ChunkBlock(x) \cap ChunkBlocks(c) = {}
  PROVE  /\ Append(c, x) \in Seq(Blist) /\ DistinctChunks(Append(c, x))
         /\ ChunkBlocks(Append(c, x)) = ChunkBlocks(c) \cup ChunkBlock(x)
<1> DEFINE d == Append(c, x)
           n == Len(c)
<1>1. /\ d \in Seq(Blist) /\ DOMAIN d = 1 .. n + 1 /\ DOMAIN c = 1 .. n /\ n \in Nat
      /\ d[n + 1] = x /\ \A i \in 1 .. n : d[i] = c[i]
  OBVIOUS
<1> HIDE DEF d, n
<1>2. \A i \in DOMAIN d : i = n + 1 \/ (i \in DOMAIN c /\ d[i] = c[i])
  BY <1>1
<1>3. \A i \in DOMAIN c : ChunkBlock(c[i]) \subseteq ChunkBlocks(c)
  BY DEF ChunkBlock, ChunkBlocks
<1>4. ChunkBlocks(d) = ChunkBlocks(c) \cup ChunkBlock(x)
  <2>1. \A b : b \in ChunkBlocks(d) <=> \E i \in DOMAIN d : b \in ChunkBlock(d[i])
    BY DEF ChunkBlock, ChunkBlocks
  <2>2. \A b : b \in ChunkBlocks(c) <=> \E i \in DOMAIN c : b \in ChunkBlock(c[i])
    BY DEF ChunkBlock, ChunkBlocks
  <2>3. n + 1 \in DOMAIN d /\ \A i \in DOMAIN c : i \in DOMAIN d /\ d[i] = c[i]
    BY <1>1
  <2>4. \A b : b \in ChunkBlocks(d) => b \in ChunkBlocks(c) \cup ChunkBlock(x)
    BY <1>1, <1>2, <2>1, <2>2
  <2>5. \A b : b \in ChunkBlocks(c) \cup ChunkBlock(x) => b \in ChunkBlocks(d)
    BY <1>1, <2>1, <2>2, <2>3
  <2> QED BY <2>4, <2>5
<1>5. DistinctChunks(d)
  <2> SUFFICES ASSUME NEW i \in DOMAIN d
               PROVE  /\ NULL \notin ChunkBlock(d[i]) /\ d[i].node # d[i].data
                      /\ \A j \in DOMAIN d : i # j => ChunkBlock(d[i]) \cap ChunkBlock(d[j]) = {}
    BY Zenon DEF DistinctChunks
  <2>c. \A k \in DOMAIN c :
          /\ NULL \notin ChunkBlock(c[k]) /\ c[k].node # c[k].data
          /\ \A j \in DOMAIN c : k # j => ChunkBlock(c[k]) \cap ChunkBlock(c[j]) = {}
    BY Zenon DEF DistinctChunks
  <2>1. NULL \notin ChunkBlock(d[i]) /\ d[i].node # d[i].data
    BY <1>1, <1>2, <2>c
  <2>2. ASSUME NEW j \in DOMAIN d, i # j
        PROVE  ChunkBlock(d[i]) \cap ChunkBlock(d[j]) = {}
    <3>1. CASE i = n + 1
      BY <1>1, <1>2, <1>3, <2>2, <3>1
    <3>2. CASE j = n + 1
      BY <1>1, <1>2, <1>3, <2>2, <3>2
    <3>3. CASE i # n + 1 /\ j # n + 1
      BY <1>2, <2>c, <2>2, <3>3
    <3> QED BY <3>1, <3>2, <3>3
  <2> QED BY <2>1, <2>2
<1> QED BY <1>1, <1>4, <1>5 DEF d

\* The first of several chunks goes: its blocks are nobody else's.
LEMMA ChunkRemoved ==
  ASSUME NEW c \in Seq(Blist), DistinctChunks(c), Len(c) > 1
  PROVE  /\ Tail(c) \in Seq(Blist) /\ DistinctChunks(Tail(c))
         /\ ChunkBlocks(Tail(c)) = ChunkBlocks(c) \ ChunkBlocks(SubSeq(c, 1, 1))
<1> DEFINE d == Tail(c)
           n == Len(c)
           first == SubSeq(c, 1, 1)
<1>1. /\ d \in Seq(Blist) /\ DOMAIN d = 1 .. n - 1 /\ DOMAIN c = 1 .. n /\ n \in Nat /\ n > 1
      /\ \A i \in 1 .. n - 1 : d[i] = c[i + 1]
      /\ DOMAIN first = {1} /\ first[1] = c[1]
  OBVIOUS
<1> HIDE DEF d, n, first
<1>2. \A i \in DOMAIN d : i + 1 \in DOMAIN c /\ d[i] = c[i + 1] /\ i + 1 # 1
  BY <1>1
<1>c. \A k \in DOMAIN c :
        /\ NULL \notin ChunkBlock(c[k]) /\ c[k].node # c[k].data
        /\ \A j \in DOMAIN c : k # j => ChunkBlock(c[k]) \cap ChunkBlock(c[j]) = {}
  BY Zenon DEF DistinctChunks
<1>3. ChunkBlocks(d) = ChunkBlocks(c) \ ChunkBlocks(first)
  <2>1. \A b : b \in ChunkBlocks(d) <=> \E i \in DOMAIN d : b \in ChunkBlock(d[i])
    BY DEF ChunkBlock, ChunkBlocks
  <2>2. \A b : b \in ChunkBlocks(c) <=> \E i \in DOMAIN c : b \in ChunkBlock(c[i])
    BY DEF ChunkBlock, ChunkBlocks
  <2>3. ChunkBlocks(first) = ChunkBlock(c[1])
    BY <1>1 DEF ChunkBlock, ChunkBlocks
  <2>4. 1 \in DOMAIN c
    BY <1>1
  <2>5. ASSUME NEW b \in ChunkBlocks(d) PROVE b \in ChunkBlocks(c) /\ b \notin ChunkBlock(c[1])
    <3>1. PICK i \in DOMAIN d : b \in ChunkBlock(d[i])
      BY <2>1
    <3> QED BY <1>2, <1>c, <2>2, <2>4, <3>1
  <2>6. ASSUME NEW b \in ChunkBlocks(c), b \notin ChunkBlock(c[1]) PROVE b \in ChunkBlocks(d)
    <3>1. PICK k \in DOMAIN c : b \in ChunkBlock(c[k])
      BY <2>2
    <3>2. k - 1 \in DOMAIN d /\ d[k - 1] = c[k]
      <4>1. k # 1
        BY <2>6, <3>1
      <4>2. k - 1 \in 1 .. n - 1 /\ (k - 1) + 1 = k
        BY <1>1, <4>1
      <4> QED BY <1>1, <4>2
    <3> QED BY <2>1, <3>1, <3>2
  <2> QED BY <2>3, <2>5, <2>6
<1>4. DistinctChunks(d)
  <2>1. \A i, j \in DOMAIN d : i # j => i + 1 # j + 1
    BY <1>1
  <2> QED BY <1>2, <1>c, <2>1 DEF DistinctChunks
<1> QED BY <1>1, <1>3, <1>4 DEF d, first

LEMMA NoChunks ==
  /\ <<>> \in Seq(Blist) /\ DistinctChunks(<<>>) /\ ChunkBlocks(<<>>) = {}
  /\ \A x \in Blist : <<x>> \in Seq(Blist) /\ ChunkBlocks(<<x>>) = ChunkBlock(x)
                      /\ (NULL \notin ChunkBlock(x) /\ x.node # x.data => DistinctChunks(<<x>>))
  BY DEF DistinctChunks, ChunkBlocks, ChunkBlock

LEMMA NoComments ==
  <<>> \in Seq(Comment) /\ DistinctComments(<<>>) /\ CommentBlocks(<<>>) = {}
  BY DEF DistinctComments, CommentBlocks

-----------------------------------------------------------------------------
(* The initial state and the actions *)

LEMMA InitIInv == Init => IInv
<1> SUFFICES ASSUME Init PROVE IInv
  OBVIOUS
<1>1. IsFiniteSet(heap)
  BY FS_EmptySet DEF Init
<1>2. NoObject \in ObjectType
  BY DEF NoObject, NoTimeval, ObjectType, NULL
<1>3. last \in [op : Ops, arg : Int, ret : Int]
  BY DEF Init, ERR_NONE, Ops
<1>4. Typed
  BY <1>1, <1>2, <1>3 DEF Init, Typed
<1>5. Owned
  BY DEF Init, Owned
<1>6. Phases
  BY DEF Init, Phases, NoObject
<1>7. Descriptor
  BY DEF Init, Descriptor, NoObject
<1> QED BY <1>4, <1>5, <1>6, <1>7 DEF IInv

LEMMA Codes ==
  /\ ERR_NONE \in Int /\ ERR_MEMORY_ALLOC \in Int /\ ERR_BADF \in Int /\ ERR_OPEN \in Int
  /\ ERR_CONNECTION \in Int /\ RDFL_DEFAULT_TIMEOUT \in Nat \cup {-1} /\ NULL \in Nat
  /\ NoTimeval \in [tv_sec : Int, tv_usec : Int]
  BY DEF ERR_NONE, ERR_MEMORY_ALLOC, ERR_BADF, ERR_OPEN, ERR_CONNECTION,
         RDFL_DEFAULT_TIMEOUT, NULL, NoTimeval

LEMMA InitObjectKeeps == ASSUME IInv, InitObject PROVE IInv'
<1>t. Typed /\ rdfl \in ObjectType
  BY DEF IInv, Typed
<1>1. /\ rdfl' = [rdfl EXCEPT !.timeout = RDFL_DEFAULT_TIMEOUT, !.cmts = <<>>, !.settings = {},
                              !.nw = NULL, !.nwtimeout = NULL, !.tv = NoTimeval]
      /\ phase' = "inited" /\ descr' = "none" /\ heap' = heap /\ phase \in {"none", "cleaned"}
      /\ Returns("init", 0, ERR_NONE)
  BY DEF InitObject
<1>2. /\ rdfl' \in ObjectType
      /\ rdfl'.self = rdfl.self /\ rdfl'.cmts = <<>> /\ rdfl'.settings = {}
      /\ rdfl'.nw = NULL /\ rdfl'.nwtimeout = NULL /\ rdfl'.chunks = rdfl.chunks
  BY <1>t, <1>1, Codes, NoComments DEF ObjectType
<1>3. last' \in [op : Ops, arg : Int, ret : Int]
  BY Codes DEF InitObject, Returns, Ops
<1>4. Typed'
  BY <1>t, <1>1, <1>2, <1>3, Zenon DEF Typed
<1>5. rdfl.chunks = <<>> /\ heap = SelfBlock(rdfl)
  BY <1>1 DEF IInv, Phases, NoObject, SelfBlock
<1>6. Blocks(rdfl)' = SelfBlock(rdfl) /\ Distinct(rdfl)'
  BY <1>2, <1>5, NoChunks, NoComments DEF Blocks, Distinct, SelfBlock, NetBlocks
<1>7. Owned'
  BY <1>1, <1>5, <1>6 DEF Owned
<1>8. Phases' /\ Descriptor'
  BY <1>1, <1>2, <1>5 DEF Phases, Descriptor
<1> QED BY <1>4, <1>7, <1>8 DEF IInv

LEMMA InitNewKeeps == ASSUME IInv, InitNew PROVE IInv'
<1>t. Typed /\ heap = {} /\ descr' = descr /\ descr # "open"
  BY DEF IInv, Phases, Descriptor, InitNew
<1>1. CASE phase' = "inited"
  <2>1. /\ rdfl' = [NoObject EXCEPT !.self = Fresh(1), !.timeout = RDFL_DEFAULT_TIMEOUT,
                                    !.settings = {"LOCAL_ALLOC"}]
        /\ heap' = heap \cup {Fresh(1)} /\ Returns("init_new", 0, ERR_NONE)
    BY <1>1 DEF InitNew
  <2>2. Fresh(1) \in Nat \ {NULL}
    BY <1>t, FreshIsFree
  <2>3. NoObject \in ObjectType /\ NoObject.cmts = <<>> /\ NoObject.chunks = <<>>
        /\ NoObject.nw = NULL /\ NoObject.nwtimeout = NULL /\ NoObject.garbage = TRUE
    BY Codes, NoComments, NoChunks DEF NoObject, ObjectType
  <2>4. /\ rdfl' \in ObjectType /\ rdfl'.self = Fresh(1) /\ rdfl'.settings = {"LOCAL_ALLOC"}
        /\ rdfl'.cmts = <<>> /\ rdfl'.chunks = <<>> /\ rdfl'.nw = NULL /\ rdfl'.nwtimeout = NULL
        /\ rdfl'.garbage = TRUE
    <3> HIDE DEF NoObject
    <3> QED BY <2>1, <2>2, <2>3, Codes DEF ObjectType, AllSettings
  <2>5. IsFiniteSet(heap') /\ heap' \subseteq Nat \ {NULL}
    BY <1>t, <2>1, <2>2, FS_AddElement, FS_EmptySet
  <2>6. last' \in [op : Ops, arg : Int, ret : Int]
    BY Codes DEF InitNew, Returns, Ops
  <2>7. Typed'
    BY <1>t, <1>1, <2>4, <2>5, <2>6, Zenon DEF Typed
  <2>8. Blocks(rdfl)' = {Fresh(1)} /\ Distinct(rdfl)'
    BY <2>2, <2>4, NoChunks, NoComments DEF Blocks, Distinct, SelfBlock, NetBlocks
  <2>9. Owned' /\ Phases' /\ Descriptor'
    BY <1>t, <1>1, <2>1, <2>4, <2>8 DEF Owned, Phases, Descriptor
  <2> QED BY <2>7, <2>9 DEF IInv
<1>2. CASE phase' # "inited"
  <2>1. UNCHANGED <<heap, phase, rdfl>> /\ Returns("init_new", 0, ERR_MEMORY_ALLOC)
    BY <1>2 DEF InitNew
  <2>2. last' \in [op : Ops, arg : Int, ret : Int]
    BY Codes DEF InitNew, Returns, Ops
  <2> QED BY <1>t, <2>1, <2>2 DEF IInv, Typed, Owned, Phases, Descriptor
<1> QED BY <1>1, <1>2

LEMMA StoredTimeoutType ==
  ASSUME NEW t \in Timeouts
  PROVE  t \in Int /\ StoredTimeout(t) \in Nat \cup {-1}
  BY DEF StoredTimeout, RDFL_DEFAULT_TIMEOUT

LEMMA TimevalType ==
  ASSUME NEW t \in Int
  PROVE  Timeval(t) \in [tv_sec : Int, tv_usec : Int]
<1>1. Quotient(t, Second) \in Int
  BY DEF Quotient, Second
<1>2. Remainder(t, Second) \in Int
  BY <1>1 DEF Remainder, Second
<1> QED BY <1>1, <1>2 DEF Timeval

LEMMA BelowIsWithin ==
  ASSUME NEW x \in Int, NEW n \in Int, 0 <= x, x < n
  PROVE  x \in 0 .. n - 1
  OBVIOUS

\* set_timeout divides a timeout into seconds and microseconds.
LEMMA TimevalExact ==
  ASSUME NEW t \in Nat
  PROVE  /\ Timeval(t).tv_usec \in 0 .. Second - 1
         /\ Timeval(t).tv_sec * Second + Timeval(t).tv_usec = t
<1> DEFINE q == t \div 1000000
<1>1. Quotient(t, Second) = q
  BY DEF Quotient, Second
<1>2. Remainder(t, Second) = t - 1000000 * q
  BY <1>1 DEF Remainder, Second
<1>3. q \in Int /\ 0 <= t - 1000000 * q /\ t - 1000000 * q < 1000000
  BY Z3
<1>4. Timeval(t).tv_sec = q /\ Timeval(t).tv_usec = t - 1000000 * q
  BY <1>1, <1>2 DEF Timeval
<1> HIDE DEF q
<1>5. Second = 1000000
  BY DEF Second
<1>6. Timeval(t).tv_sec * Second + Timeval(t).tv_usec = t
  BY <1>3, <1>4, <1>5, Z3
<1>7. /\ Timeval(t).tv_usec \in Int /\ Second \in Int
      /\ 0 <= Timeval(t).tv_usec /\ Timeval(t).tv_usec < Second
  BY <1>3, <1>4, <1>5, Z3
<1>8. Timeval(t).tv_usec \in 0 .. Second - 1
  BY <1>7, BelowIsWithin
<1> QED BY <1>6, <1>8

\* The object after a change that touches neither comments, chunks, settings nor
\* the object's own block.
SameButTimer(r, s) ==
  /\ s.self = r.self /\ s.cmts = r.cmts /\ s.chunks = r.chunks
  /\ s.settings = r.settings /\ s.garbage = r.garbage

LEMMA SetTimeoutKeeps == ASSUME IInv, SetTimeout PROVE IInv'
<1>t. Typed /\ rdfl \in ObjectType /\ heap = Blocks(rdfl) /\ Distinct(rdfl)
      /\ phase \in {"inited", "loaded"}
  BY DEF IInv, Typed, Owned, SetTimeout, Usable
<1>u. descr' = descr /\ phase' = phase
  BY DEF SetTimeout
<1>p. PICK timeout \in Timeouts :
        \/ /\ rdfl' = WithTimeout(timeout)
           /\ Returns("set_timeout", timeout, ERR_NONE)
           /\ UNCHANGED heap
        \/ /\ rdfl.nw # NULL
           /\ NwInitTimeout(WithTimeout(timeout), timeout)
  BY SMT DEF SetTimeout
<1> DEFINE r == WithTimeout(timeout)
<1>r. r \in ObjectType /\ SameButTimer(rdfl, r) /\ r.nw = rdfl.nw /\ r.nwtimeout = rdfl.nwtimeout
  BY <1>t, StoredTimeoutType DEF ObjectType, SameButTimer, WithTimeout
<1>b. /\ timeout \in Int /\ Timeval(timeout) \in [tv_sec : Int, tv_usec : Int]
      /\ last' \in [op : Ops, arg : Int, ret : Int]
  <2>1. timeout \in Int
    BY StoredTimeoutType
  <2>2. \E ret \in {ERR_NONE, ERR_MEMORY_ALLOC} : Returns("set_timeout", timeout, ret)
    BY <1>p DEF NwInitTimeout
  <2>3. last' \in [op : Ops, arg : Int, ret : Int]
    BY <2>1, <2>2, Codes DEF Returns, Ops
  <2> QED BY <2>1, <2>3, TimevalType
<1> HIDE DEF r
<1>2. /\ rdfl' \in ObjectType /\ SameButTimer(rdfl, rdfl') /\ rdfl'.nw = rdfl.nw
      /\ \/ heap' = heap /\ rdfl'.nwtimeout = rdfl.nwtimeout
         \/ heap' = heap \ {rdfl.nwtimeout} /\ rdfl.nw # NULL /\ rdfl'.nwtimeout = NULL
         \/ heap' = heap \cup {Fresh(1)} /\ rdfl.nw # NULL /\ rdfl.nwtimeout = NULL
              /\ rdfl'.nwtimeout = Fresh(1)
  <2>f. Fresh(1) \in Nat \ {NULL}
    BY <1>t, FreshIsFree
  <2>1. CASE rdfl' = r /\ heap' = heap
    BY <1>r, <2>1
  <2>2. CASE rdfl.nw # NULL /\ rdfl' = TimerOff(r).rdfl /\ heap' = TimerOff(r).heap
    BY <1>r, <2>2, Codes DEF TimerOff, ObjectType, SameButTimer
  <2>3. CASE rdfl.nw # NULL /\ rdfl' = TimerOn(r, Fresh(1), timeout)
             /\ heap' = heap \cup {rdfl'.nwtimeout}
    <3>1. /\ rdfl' \in ObjectType /\ SameButTimer(rdfl, rdfl') /\ rdfl'.nw = rdfl.nw
          /\ rdfl'.nwtimeout = IF r.nwtimeout = NULL THEN Fresh(1) ELSE r.nwtimeout
      BY <1>r, <1>b, <2>3, <2>f DEF TimerOn, ObjectType, SameButTimer
    <3>2. rdfl.nwtimeout # NULL => rdfl.nwtimeout \in heap
      BY <1>t DEF Blocks, NetBlocks
    <3>3. rdfl.nwtimeout # NULL => heap' = heap /\ rdfl'.nwtimeout = rdfl.nwtimeout
      BY <1>r, <2>3, <3>1, <3>2
    <3> QED BY <1>r, <2>3, <3>1, <3>3
  <2> QED BY <1>p, <1>r, <2>1, <2>2, <2>3 DEF r, NwInitTimeout
<1>3. Typed'
  <2>1. heap \cup {Fresh(1)} \subseteq Nat \ {NULL} /\ IsFiniteSet(heap \cup {Fresh(1)})
    <3>1. heap \subseteq Nat \ {NULL} /\ IsFiniteSet(heap)
      BY <1>t DEF Typed
    <3>2. Fresh(1) \in Nat \ {NULL}
      BY <1>t, FreshIsFree
    <3> QED BY <3>1, <3>2, FS_AddElement
  <2>2. heap' \subseteq Nat \ {NULL} /\ IsFiniteSet(heap')
    <3>1. heap \subseteq Nat \ {NULL} /\ IsFiniteSet(heap)
      BY <1>t DEF Typed
    <3>2. /\ heap \ {rdfl.nwtimeout} \subseteq Nat \ {NULL}
          /\ IsFiniteSet(heap \ {rdfl.nwtimeout})
      BY <1>t, HeapShrinks
    <3> QED BY <1>2, <2>1, <3>1, <3>2
  <2> QED BY <1>t, <1>u, <1>b, <1>2, <2>2, Zenon DEF Typed
<1>4. Owned'
  <2>d. /\ Blocks(rdfl') = SelfBlock(rdfl) \cup NetBlocks(rdfl') \cup CommentBlocks(rdfl.cmts)
                              \cup ChunkBlocks(rdfl.chunks)
        /\ SelfBlock(rdfl') = SelfBlock(rdfl)
        /\ rdfl'.cmts = rdfl.cmts /\ rdfl'.chunks = rdfl.chunks
    BY <1>2 DEF Blocks, SelfBlock, SameButTimer
  <2>1. CASE heap' = heap /\ rdfl'.nwtimeout = rdfl.nwtimeout
    BY <1>t, <1>2, <2>1, <2>d DEF Owned, Blocks, Distinct, NetBlocks
  <2>2. CASE heap' = heap \ {rdfl.nwtimeout} /\ rdfl.nw # NULL /\ rdfl'.nwtimeout = NULL
    <3>1. NetBlocks(rdfl') = NetBlocks(rdfl) \ {rdfl.nwtimeout}
      BY <1>t, <1>2, <2>2 DEF NetBlocks, Distinct
    <3>2. rdfl.nwtimeout = NULL \/ rdfl.nwtimeout \in NetBlocks(rdfl)
      BY DEF NetBlocks
    <3>3. NULL \notin Blocks(rdfl)
      BY <1>t DEF Typed
    <3>4. heap' = Blocks(rdfl')
      BY <1>t, <2>2, <2>d, <3>1, <3>2, <3>3 DEF Blocks, Distinct
    <3>5. Distinct(rdfl')
      BY <1>t, <1>2, <2>2, <2>d, <3>1 DEF Distinct
    <3> QED BY <3>4, <3>5 DEF Owned
  <2>3. CASE heap' = heap \cup {Fresh(1)} /\ rdfl.nw # NULL /\ rdfl.nwtimeout = NULL
             /\ rdfl'.nwtimeout = Fresh(1)
    <3>f. Fresh(1) # NULL /\ Fresh(1) \notin Blocks(rdfl)
      BY <1>t, FreshIsFree
    <3>1. NetBlocks(rdfl') = NetBlocks(rdfl) \cup {Fresh(1)}
      BY <1>2, <2>3, <3>f DEF NetBlocks
    <3>2. rdfl.nw \in Blocks(rdfl)
      BY <2>3 DEF Blocks, NetBlocks
    <3>4. heap' = Blocks(rdfl')
      BY <1>t, <2>3, <2>d, <3>1 DEF Blocks
    <3>5. Distinct(rdfl')
      BY <1>t, <1>2, <2>3, <2>d, <3>1, <3>f, <3>2 DEF Distinct, Blocks
    <3> QED BY <3>4, <3>5 DEF Owned
  <2> QED BY <1>2, <2>1, <2>2, <2>3
<1>5. Phases'
  <2>1. phase = "inited" => rdfl.nw = NULL /\ rdfl.nwtimeout = NULL /\ rdfl.chunks = <<>>
    BY DEF IInv, Phases
  <2>2. "LOCAL_ALLOC" \in rdfl.settings => rdfl.garbage
    BY DEF IInv, Phases
  <2> QED BY <1>t, <1>u, <1>2, <2>1, <2>2 DEF Phases, SameButTimer
<1>6. Descriptor'
  BY <1>u, <1>2 DEF IInv, Descriptor, SameButTimer
<1> QED BY <1>3, <1>4, <1>5, <1>6 DEF IInv

\* A call that gives up frees what malloc gave it: the heap is what it was.
LEMMA GivenUpComment ==
  ASSUME Typed, NEW n \in 0 .. 2, heap' = GiveUpComment(n)
  PROVE  heap' = heap
<1>1. Fresh(1) \notin heap /\ Fresh(2) \notin heap
  BY FreshIsFree
<1>2. \A i \in 1 .. n : i = 1 \/ i = 2
  OBVIOUS
<1>3. {Fresh(i) : i \in 1 .. n} \subseteq {Fresh(1), Fresh(2)}
  BY <1>2
<1> QED BY <1>1, <1>3 DEF GiveUpComment

LEMMA GivenUpChunk ==
  ASSUME Typed, NEW n \in 0 .. 1, heap' = GiveUpChunk(n)
  PROVE  heap' = heap
<1>1. Fresh(1) \notin heap
  BY FreshIsFree
<1>2. \A i \in 1 .. n : i = 1
  OBVIOUS
<1>3. {Fresh(i) : i \in 1 .. n} \subseteq {Fresh(1)}
  BY <1>2
<1> QED BY <1>1, <1>3 DEF GiveUpChunk

LEMMA AddCommentKeeps == ASSUME IInv, AddComment PROVE IInv'
<1>t. Typed /\ rdfl \in ObjectType /\ heap = Blocks(rdfl) /\ Distinct(rdfl)
      /\ phase \in {"inited", "loaded"}
  BY DEF IInv, Typed, Owned, AddComment, Usable
<1>u. descr' = descr /\ phase' = phase
  BY DEF AddComment
<1>l. last' \in [op : Ops, arg : Int, ret : Int]
  BY Codes DEF AddComment, Returns, Ops
<1> DEFINE x == [node |-> Fresh(1), beg |-> Fresh(2), end |-> Fresh(3)]
<1>1. CASE /\ rdfl' = [rdfl EXCEPT !.cmts = <<x>> \o @]
           /\ heap' = heap \cup {Fresh(i) : i \in 1 .. 3}
  <2>1. /\ \A i \in 1 .. 3 : Fresh(i) \in Nat \ {NULL} /\ Fresh(i) \notin heap
        /\ Fresh(1) # Fresh(2) /\ Fresh(1) # Fresh(3) /\ Fresh(2) # Fresh(3)
    BY <1>t, FreshIsFree
  <2>2. x \in Comment /\ CommentBlock(x) = {Fresh(1), Fresh(2), Fresh(3)}
    BY <2>1 DEF Comment, CommentBlock
  <2>3. {Fresh(i) : i \in 1 .. 3} = CommentBlock(x)
    <3>1. \A i \in 1 .. 3 : i = 1 \/ i = 2 \/ i = 3
      OBVIOUS
    <3> QED BY <2>2, <3>1
  <2>4. /\ NULL \notin CommentBlock(x) /\ CommentBlock(x) \cap heap = {}
        /\ x.node # x.beg /\ x.node # x.end /\ x.beg # x.end
    BY <2>1, <2>2
  <2> HIDE DEF x
  <2>5. rdfl.cmts \in Seq(Comment) /\ DistinctComments(rdfl.cmts)
        /\ CommentBlock(x) \cap CommentBlocks(rdfl.cmts) = {}
    BY <1>t, <2>4 DEF ObjectType, Distinct, Blocks
  <2>6. /\ <<x>> \o rdfl.cmts \in Seq(Comment) /\ DistinctComments(<<x>> \o rdfl.cmts)
        /\ CommentBlocks(<<x>> \o rdfl.cmts) = CommentBlock(x) \cup CommentBlocks(rdfl.cmts)
    BY <2>2, <2>4, <2>5, CommentAdded
  <2>7. /\ rdfl' \in ObjectType /\ rdfl'.cmts = <<x>> \o rdfl.cmts /\ rdfl'.self = rdfl.self
        /\ rdfl'.nw = rdfl.nw /\ rdfl'.nwtimeout = rdfl.nwtimeout /\ rdfl'.chunks = rdfl.chunks
        /\ rdfl'.settings = rdfl.settings /\ rdfl'.garbage = rdfl.garbage
    BY <1>t, <1>1, <2>6 DEF ObjectType
  <2>8. 3 \in 0 .. 4 /\ heap' \subseteq Nat \ {NULL} /\ IsFiniteSet(heap')
    <3>1. /\ heap \cup {Fresh(i) : i \in 1 .. 3} \subseteq Nat \ {NULL}
          /\ IsFiniteSet(heap \cup {Fresh(i) : i \in 1 .. 3})
      BY <1>t, HeapGrows, 3 \in 0 .. 4, Zenon
    <3> QED BY <1>1, <3>1
  <2>9. Typed'
    BY <1>t, <1>u, <1>l, <2>7, <2>8, Zenon DEF Typed
  <2>10. heap' = Blocks(rdfl')
    BY <1>t, <1>1, <2>3, <2>6, <2>7 DEF Blocks, SelfBlock, NetBlocks
  <2>11. Distinct(rdfl')
    BY <1>t, <2>4, <2>6, <2>7 DEF Distinct, Blocks, SelfBlock, NetBlocks
  <2>12. Owned' /\ Phases' /\ Descriptor'
    BY <1>t, <1>u, <2>7, <2>10, <2>11 DEF IInv, Owned, Phases, Descriptor
  <2> QED BY <2>9, <2>12 DEF IInv
<1>2. CASE (\E n \in 0 .. 2 : heap' = GiveUpComment(n)) /\ UNCHANGED rdfl
  <2>1. heap' = heap
    BY <1>t, <1>2, GivenUpComment
  <2> QED BY <1>t, <1>u, <1>l, <1>2, <2>1 DEF IInv, Typed, Owned, Phases, Descriptor
<1> QED BY <1>1, <1>2 DEF AddComment

LEMMA EndOfFileKeeps == ASSUME IInv, EndOfFile PROVE IInv'
<1>t. Typed /\ rdfl \in ObjectType /\ phase = "loaded" /\ phase' = phase /\ heap' = heap
  BY DEF IInv, Typed, EndOfFile
<1>l. last' \in [op : Ops, arg : Int, ret : Int]
  BY Codes DEF EndOfFile, Returns, Ops
<1>1. /\ rdfl' \in ObjectType
      /\ rdfl'.settings = (rdfl.settings \ {"LOCAL_OPEN"}) \cup {"LOCAL_REACHED_EOF"}
      /\ rdfl'.self = rdfl.self /\ rdfl'.cmts = rdfl.cmts /\ rdfl'.chunks = rdfl.chunks
      /\ rdfl'.nw = rdfl.nw /\ rdfl'.nwtimeout = rdfl.nwtimeout /\ rdfl'.garbage = rdfl.garbage
  BY <1>t DEF EndOfFile, CloseFd, ObjectType, AllSettings
<1>2. descr' \in {"none", "open", "closed"} /\ descr' # "open"
  BY <1>t DEF EndOfFile, DescrClosed, IInv, Typed, Descriptor
<1>3. Typed'
  BY <1>t, <1>l, <1>1, <1>2 DEF Typed
<1>4. Owned'
  BY <1>t, <1>1 DEF IInv, Owned, Blocks, Distinct, SelfBlock, NetBlocks
<1>5. Phases' /\ Descriptor'
  BY <1>t, <1>1, <1>2 DEF IInv, Phases, Descriptor
<1> QED BY <1>3, <1>4, <1>5 DEF IInv

LEMMA AddBufferKeeps == ASSUME IInv, AddBuffer PROVE IInv'
<1>t. Typed /\ rdfl \in ObjectType /\ heap = Blocks(rdfl) /\ Distinct(rdfl) /\ phase = "loaded"
  BY DEF IInv, Typed, Owned, AddBuffer
<1>u. descr' = descr /\ phase' = phase
  BY DEF AddBuffer
<1>l. last' \in [op : Ops, arg : Int, ret : Int]
  BY Codes DEF AddBuffer, Returns, Ops
<1> DEFINE x == NewBlist(1)
<1>1. CASE /\ rdfl' = [rdfl EXCEPT !.chunks = Append(@, x)]
           /\ heap' = heap \cup {Fresh(1), Fresh(2)}
  <2>1. /\ Fresh(1) \in Nat \ {NULL} /\ Fresh(2) \in Nat \ {NULL}
        /\ Fresh(1) \notin heap /\ Fresh(2) \notin heap /\ Fresh(1) # Fresh(2)
    BY <1>t, FreshIsFree
  <2>2. x \in Blist /\ ChunkBlock(x) = {Fresh(1), Fresh(2)} /\ x.node # x.data
    <3>1. x = [node |-> Fresh(1), data |-> Fresh(2)]
      BY DEF NewBlist
    <3> QED BY <2>1, <3>1 DEF Blist, ChunkBlock
  <2> HIDE DEF x
  <2>3. rdfl.chunks \in Seq(Blist) /\ DistinctChunks(rdfl.chunks)
        /\ NULL \notin ChunkBlock(x) /\ ChunkBlock(x) \cap heap = {}
        /\ ChunkBlock(x) \cap ChunkBlocks(rdfl.chunks) = {}
    BY <1>t, <2>1, <2>2 DEF ObjectType, Distinct, Blocks
  <2>4. /\ Append(rdfl.chunks, x) \in Seq(Blist) /\ DistinctChunks(Append(rdfl.chunks, x))
        /\ ChunkBlocks(Append(rdfl.chunks, x)) = ChunkBlocks(rdfl.chunks) \cup ChunkBlock(x)
    BY <2>2, <2>3, ChunkAdded
  <2>5. /\ rdfl' \in ObjectType /\ rdfl'.chunks = Append(rdfl.chunks, x) /\ rdfl'.self = rdfl.self
        /\ rdfl'.nw = rdfl.nw /\ rdfl'.nwtimeout = rdfl.nwtimeout /\ rdfl'.cmts = rdfl.cmts
        /\ rdfl'.settings = rdfl.settings /\ rdfl'.garbage = rdfl.garbage
    BY <1>t, <1>1, <2>4 DEF ObjectType
  <2>6. heap' \subseteq Nat \ {NULL} /\ IsFiniteSet(heap')
    <3>1. heap \subseteq Nat \ {NULL} /\ IsFiniteSet(heap)
      BY <1>t DEF Typed
    <3>2. IsFiniteSet(heap \cup {Fresh(1)})
      BY <3>1, FS_AddElement
    <3>3. IsFiniteSet((heap \cup {Fresh(1)}) \cup {Fresh(2)})
      BY <3>2, FS_AddElement
    <3>4. heap' = (heap \cup {Fresh(1)}) \cup {Fresh(2)}
      BY <1>1
    <3> QED BY <2>1, <3>1, <3>3, <3>4
  <2>7. Typed'
    BY <1>t, <1>u, <1>l, <2>5, <2>6, Zenon DEF Typed
  <2>8. heap' = Blocks(rdfl')
    BY <1>t, <1>1, <2>2, <2>4, <2>5 DEF Blocks, SelfBlock, NetBlocks
  <2>9. Distinct(rdfl')
    BY <1>t, <2>3, <2>4, <2>5 DEF Distinct, Blocks, SelfBlock, NetBlocks
  <2>10. Owned' /\ Phases' /\ Descriptor'
    BY <1>t, <1>u, <2>5, <2>8, <2>9 DEF IInv, Owned, Phases, Descriptor
  <2> QED BY <2>7, <2>10 DEF IInv
<1>2. CASE (\E n \in 0 .. 1 : heap' = GiveUpChunk(n)) /\ UNCHANGED rdfl
  <2>1. heap' = heap
    BY <1>t, <1>2, GivenUpChunk
  <2> QED BY <1>t, <1>u, <1>l, <1>2, <2>1 DEF IInv, Typed, Owned, Phases, Descriptor
<1> QED BY <1>1, <1>2 DEF AddBuffer

LEMMA FreeChunksKeeps == ASSUME IInv, FreeChunks PROVE IInv'
<1>t. Typed /\ rdfl \in ObjectType /\ heap = Blocks(rdfl) /\ Distinct(rdfl) /\ phase = "loaded"
  BY DEF IInv, Typed, Owned, FreeChunks
<1>u. descr' = descr /\ phase' = phase
  BY DEF FreeChunks
<1>l. last' \in [op : Ops, arg : Int, ret : Int]
  BY Codes DEF FreeChunks, Returns, Ops
<1>c. rdfl.chunks \in Seq(Blist) /\ DistinctChunks(rdfl.chunks)
  BY <1>t DEF ObjectType, Distinct
<1>1. PICK rest \in Seq(Blist), freed \in SUBSET ChunkBlocks(rdfl.chunks) :
        /\ DistinctChunks(rest) /\ ChunkBlocks(rest) = ChunkBlocks(rdfl.chunks) \ freed
        /\ rdfl' = [rdfl EXCEPT !.chunks = rest] /\ heap' = heap \ freed
  <2>1. CASE Len(rdfl.chunks) > 1 /\ rdfl' = [rdfl EXCEPT !.chunks = Tail(@)]
             /\ heap' = heap \ ChunkBlocks(SubSeq(rdfl.chunks, 1, 1))
    <3>1. /\ Tail(rdfl.chunks) \in Seq(Blist) /\ DistinctChunks(Tail(rdfl.chunks))
          /\ ChunkBlocks(Tail(rdfl.chunks))
               = ChunkBlocks(rdfl.chunks) \ ChunkBlocks(SubSeq(rdfl.chunks, 1, 1))
      BY <1>c, <2>1, ChunkRemoved
    <3>2. ChunkBlocks(SubSeq(rdfl.chunks, 1, 1)) \subseteq ChunkBlocks(rdfl.chunks)
      <4>1. /\ DOMAIN SubSeq(rdfl.chunks, 1, 1) = {1}
            /\ SubSeq(rdfl.chunks, 1, 1)[1] = rdfl.chunks[1] /\ 1 \in DOMAIN rdfl.chunks
        BY <1>c, <2>1
      <4> QED BY <4>1 DEF ChunkBlocks
    <3> QED BY <2>1, <3>1, <3>2
  <2>2. CASE rdfl' = [rdfl EXCEPT !.chunks = <<>>] /\ heap' = heap \ ChunkBlocks(rdfl.chunks)
    BY <2>2, NoChunks
  <2> QED BY <2>1, <2>2 DEF FreeChunks
<1>2. /\ rdfl' \in ObjectType /\ rdfl'.chunks = rest /\ rdfl'.self = rdfl.self
      /\ rdfl'.nw = rdfl.nw /\ rdfl'.nwtimeout = rdfl.nwtimeout /\ rdfl'.cmts = rdfl.cmts
      /\ rdfl'.settings = rdfl.settings /\ rdfl'.garbage = rdfl.garbage
  BY <1>t, <1>1 DEF ObjectType
<1>3. heap' \subseteq Nat \ {NULL} /\ IsFiniteSet(heap')
  BY <1>t, <1>1, HeapShrinks
<1>4. Typed'
  BY <1>t, <1>u, <1>l, <1>2, <1>3, Zenon DEF Typed
<1>5. heap' = Blocks(rdfl')
  BY <1>t, <1>1, <1>2 DEF Blocks, Distinct, SelfBlock, NetBlocks
<1>6. Distinct(rdfl')
  BY <1>t, <1>1, <1>2 DEF Distinct, SelfBlock, NetBlocks
<1>7. Owned' /\ Phases' /\ Descriptor'
  BY <1>t, <1>u, <1>2, <1>5, <1>6 DEF IInv, Owned, Phases, Descriptor
<1> QED BY <1>4, <1>7 DEF IInv

LEMMA CleanKeeps == ASSUME IInv, Clean PROVE IInv'
<1>t. Typed /\ rdfl \in ObjectType /\ heap = Blocks(rdfl) /\ Distinct(rdfl) /\ ~rdfl.garbage
      /\ "LOCAL_ALLOC" \notin rdfl.settings
  BY DEF IInv, Typed, Owned, Phases, Clean
<1>l. last' \in [op : Ops, arg : Int, ret : Int]
  BY Codes DEF Clean, Returns, Ops
<1>1. /\ rdfl' = [CloseFd(rdfl) EXCEPT !.chunks = <<>>] /\ phase' = "cleaned"
      /\ descr' = DescrClosed
      /\ heap' = heap \ (NetBlocks(rdfl) \cup CommentBlocks(rdfl.cmts) \cup ChunkBlocks(rdfl.chunks))
  BY <1>t DEF Clean
<1>2. /\ rdfl' \in ObjectType /\ rdfl'.chunks = <<>> /\ rdfl'.self = rdfl.self
      /\ rdfl'.settings = (rdfl.settings \ {"LOCAL_OPEN"}) \cup {"LOCAL_REACHED_EOF"}
  BY <1>t, <1>1, NoChunks DEF ObjectType, AllSettings, CloseFd
<1>3. descr' \in {"none", "open", "closed"} /\ descr' # "open"
  BY <1>1 DEF DescrClosed, IInv, Typed, Descriptor
<1>4. heap' \subseteq Nat \ {NULL} /\ IsFiniteSet(heap')
  BY <1>t, <1>1, HeapShrinks
<1>5. heap' = SelfBlock(rdfl')
  BY <1>t, <1>1, <1>2 DEF Blocks, Distinct, SelfBlock
<1>6. Typed'
  BY <1>l, <1>1, <1>2, <1>3, <1>4 DEF Typed
<1>7. Owned' /\ Phases' /\ Descriptor'
  BY <1>t, <1>1, <1>2, <1>3, <1>5 DEF Owned, Phases, Descriptor
<1> QED BY <1>6, <1>7 DEF IInv

LEMMA OpenFailsKeeps == ASSUME IInv, OpenFails PROVE IInv'
<1>1. UNCHANGED <<heap, descr, phase, rdfl>>
  BY DEF OpenFails
<1>2. rdfl.timeout \in Int
  BY DEF IInv, Typed, ObjectType
<1>3. last' \in [op : Ops, arg : Int, ret : Int]
  BY <1>2, Codes DEF OpenFails, Returns, Ops
<1> QED BY <1>1, <1>3 DEF IInv, Typed, Owned, Phases, Descriptor

LEMMA StutterKeeps == ASSUME IInv, UNCHANGED vars PROVE IInv'
  BY DEF vars, IInv, Typed, Owned, Phases, Descriptor

\* New blocks for the network part and for the first chunk, all different, leave
\* no two pointers to the same block.
LEMMA LoadedDistinct ==
  ASSUME NEW r, NEW s, Distinct(r), ChunkBlocks(r.chunks) = {}, NetBlocks(r) = {},
         s.self = r.self, s.cmts = r.cmts, DistinctChunks(s.chunks),
         s.nw = NULL => s.nwtimeout = NULL, s.nw # NULL => s.nw # s.nwtimeout,
         NetBlocks(s) \cap Blocks(r) = {}, ChunkBlocks(s.chunks) \cap Blocks(r) = {},
         NetBlocks(s) \cap ChunkBlocks(s.chunks) = {}
  PROVE  Distinct(s) /\ Blocks(s) = Blocks(r) \cup NetBlocks(s) \cup ChunkBlocks(s.chunks)
BY DEF Distinct, Blocks, SelfBlock

\* A first chunk of two blocks that were free.
LEMMA FirstChunk ==
  ASSUME Typed, NEW i \in 1 .. 3
  PROVE  /\ <<NewBlist(i)>> \in Seq(Blist) /\ DistinctChunks(<<NewBlist(i)>>)
         /\ ChunkBlocks(<<NewBlist(i)>>) = {Fresh(i), Fresh(i + 1)}
<1>1. /\ Fresh(i) \in Nat \ {NULL} /\ Fresh(i + 1) \in Nat \ {NULL} /\ Fresh(i) # Fresh(i + 1)
  BY FreshIsFree, i \in 1 .. 4, i + 1 \in 1 .. 4, i # i + 1
<1>2. NewBlist(i) = [node |-> Fresh(i), data |-> Fresh(i + 1)]
  BY DEF NewBlist
<1>3. /\ NewBlist(i) \in Blist /\ ChunkBlock(NewBlist(i)) = {Fresh(i), Fresh(i + 1)}
      /\ NewBlist(i).node # NewBlist(i).data /\ NULL \notin ChunkBlock(NewBlist(i))
  BY <1>1, <1>2 DEF Blist, ChunkBlock
<1> QED BY <1>3, NoChunks

\* The sets of the first blocks malloc returns.
LEMMA FirstBlocks ==
  /\ {Fresh(i) : i \in 1 .. 0} = {}
  /\ {Fresh(i) : i \in 1 .. 1} = {Fresh(1)}
  /\ {Fresh(i) : i \in 1 .. 2} = {Fresh(1), Fresh(2)}
  /\ {Fresh(i) : i \in 1 .. 3} = {Fresh(1), Fresh(2), Fresh(3)}
  /\ {Fresh(i) : i \in 1 .. 4} = {Fresh(1), Fresh(2), Fresh(3), Fresh(4)}
<1>1. 1 .. 0 = {} /\ 1 .. 1 = {1} /\ 1 .. 2 = {1, 2} /\ 1 .. 3 = {1, 2, 3} /\ 1 .. 4 = {1, 2, 3, 4}
  OBVIOUS
<1> QED BY <1>1

\* rdfl_load, whatever malloc fails: what it allocated is the object's, and
\* settings are the caller's.
LEMMA LoadKeeps ==
  ASSUME IInv, phase = "inited", NEW settings \in SUBSET AllSettings, Load(settings),
         "LOCAL_ALLOC" \notin settings
  PROVE  /\ heap' \subseteq Nat \ {NULL} /\ IsFiniteSet(heap')
         /\ phase' \in {"loaded", "failed"}
         /\ rdfl' \in ObjectType /\ rdfl'.settings = settings
         /\ last' \in [op : Ops, arg : Int, ret : Int]
         /\ heap' = Blocks(rdfl') /\ Distinct(rdfl')
<1>t. /\ Typed /\ rdfl \in ObjectType /\ heap = Blocks(rdfl) /\ Distinct(rdfl)
      /\ rdfl.nw = NULL /\ rdfl.nwtimeout = NULL /\ rdfl.chunks = <<>> /\ rdfl.timeout \in Int
  BY DEF IInv, Typed, Owned, Phases, ObjectType
<1> DEFINE net == NetWanted(settings)
           all == net + ChunkWanted(settings)
<1>w. /\ net \in {0, 1, 2} /\ all \in {net, net + 2}
      /\ Timeval(rdfl.timeout) \in [tv_sec : Int, tv_usec : Int]
  <2>1. net \in {0, 1, 2} /\ ChunkWanted(settings) \in {0, 2}
    BY DEF NetWanted, ChunkWanted
  <2>2. Timeval(rdfl.timeout) \in [tv_sec : Int, tv_usec : Int]
    BY <1>t, TimevalType
  <2> HIDE DEF net
  <2> QED BY <2>1, <2>2
<1>n. PICK n \in 0 .. all :
        /\ rdfl' = LoadedObject(settings, n)
        /\ heap' = heap \cup {Fresh(i) : i \in 1 .. LoadedBlocks(settings, n)}
        /\ phase' \in {"loaded", "failed"}
        /\ \E ret \in {ERR_NONE, ERR_MEMORY_ALLOC} : Returns("load", rdfl.timeout, ret)
  BY SMT DEF Load
<1>l. last' \in [op : Ops, arg : Int, ret : Int]
  BY <1>t, <1>n, Codes DEF Returns, Ops
<1>f. /\ \A i \in 1 .. 4 : Fresh(i) \in Nat \ {NULL} /\ Fresh(i) \notin heap
      /\ \A i, j \in 1 .. 4 : i # j => Fresh(i) # Fresh(j)
  BY <1>t, FreshIsFree
<1> DEFINE k == LoadedBlocks(settings, n)
<1>k. k = (IF n = net + 1 THEN net ELSE n) /\ k \in 0 .. 4
  BY <1>w DEF LoadedBlocks
<1>h. heap' \subseteq Nat \ {NULL} /\ IsFiniteSet(heap')
  <2> HIDE DEF k
  <2>1. /\ heap \cup {Fresh(i) : i \in 1 .. k} \subseteq Nat \ {NULL}
        /\ IsFiniteSet(heap \cup {Fresh(i) : i \in 1 .. k})
    BY <1>t, <1>k, HeapGrows
  <2> QED BY <1>n, <2>1 DEF k
<1> DEFINE nw == IF net = 0 THEN rdfl.nw ELSE IF n > 0 THEN Fresh(1) ELSE NULL
           timer == IF net = 2 /\ n > 1 THEN Fresh(2) ELSE NULL
           chunks == IF n = net + 2 THEN <<NewBlist(net + 1)>> ELSE <<>>
           tv == IF net = 2 /\ n > 1 THEN Timeval(rdfl.timeout) ELSE rdfl.tv
           garbage == n < net /\ rdfl.garbage
<1>c. /\ chunks \in Seq(Blist) /\ DistinctChunks(chunks)
      /\ ChunkBlocks(chunks) = IF n = net + 2 THEN {Fresh(net + 1), Fresh(net + 2)} ELSE {}
  <2> HIDE DEF net
  <2>1. net + 1 \in 1 .. 3 /\ (net + 1) + 1 = net + 2
    BY <1>w
  <2>2. /\ <<NewBlist(net + 1)>> \in Seq(Blist) /\ DistinctChunks(<<NewBlist(net + 1)>>)
        /\ ChunkBlocks(<<NewBlist(net + 1)>>) = {Fresh(net + 1), Fresh((net + 1) + 1)}
    BY <1>t, <2>1, FirstChunk
  <2> QED BY <2>1, <2>2, NoChunks
<1>r. /\ rdfl' \in ObjectType /\ rdfl'.settings = settings /\ rdfl'.self = rdfl.self
      /\ rdfl'.cmts = rdfl.cmts /\ rdfl'.nw = nw /\ rdfl'.nwtimeout = timer
      /\ rdfl'.chunks = chunks
  <2>1. nw \in Nat /\ timer \in Nat
    BY <1>f, <1>t, Codes
  <2>2. /\ rdfl'.settings = settings /\ rdfl'.self = rdfl.self
        /\ rdfl'.cmts = rdfl.cmts /\ rdfl'.nw = nw /\ rdfl'.nwtimeout = timer
        /\ rdfl'.chunks = chunks
    BY <1>t, <1>n, <1>w DEF LoadedObject, ObjectType
  <2>3. rdfl' \in ObjectType
    <3>1. rdfl' = [rdfl EXCEPT !.settings = settings, !.nw = nw, !.nwtimeout = timer, !.tv = tv,
                               !.garbage = garbage, !.chunks = chunks]
      BY <1>t, <1>n DEF LoadedObject
    <3>2. garbage \in BOOLEAN
      OBVIOUS
    <3>3. tv \in [tv_sec : Int, tv_usec : Int]
      BY <1>t, <1>w DEF ObjectType
    <3> HIDE DEF nw, timer, chunks, tv, garbage
    <3> QED BY <1>t, <1>c, <2>1, <3>1, <3>2, <3>3 DEF ObjectType
  <2> QED BY <2>2, <2>3
<1>s. NetBlocks(rdfl) = {} /\ ChunkBlocks(rdfl.chunks) = {}
  BY <1>t, NoChunks DEF NetBlocks
<1>z. nw = IF net > 0 /\ n > 0 THEN Fresh(1) ELSE NULL
  BY <1>t, <1>w
<1>d. NetBlocks(rdfl') = {nw, timer} \ {NULL}
  BY <1>r DEF NetBlocks
<1>b. {Fresh(i) : i \in 1 .. k} = NetBlocks(rdfl') \cup ChunkBlocks(rdfl'.chunks)
  <2>f. Fresh(1) # NULL /\ Fresh(2) # NULL
    BY <1>f
  <2>1. CASE net = 0
    BY <1>w, <1>k, <1>c, <1>r, <1>z, <1>d, <2>1, <2>f, FirstBlocks
  <2>2. CASE net = 1
    BY <1>w, <1>k, <1>c, <1>r, <1>z, <1>d, <2>2, <2>f, FirstBlocks
  <2>3. CASE net = 2
    BY <1>w, <1>k, <1>c, <1>r, <1>z, <1>d, <2>3, <2>f, FirstBlocks, SMTT(30)
  <2> QED BY <1>w, <2>1, <2>2, <2>3
<1>e. /\ rdfl'.nw = NULL => rdfl'.nwtimeout = NULL
      /\ rdfl'.nw # NULL => rdfl'.nw # rdfl'.nwtimeout
      /\ NetBlocks(rdfl') \cap ChunkBlocks(rdfl'.chunks) = {}
  <2>1. CASE net = 0
    BY <1>f, <1>w, <1>c, <1>r, <1>z, <1>d, <2>1
  <2>2. CASE net = 1
    BY <1>f, <1>w, <1>c, <1>r, <1>z, <1>d, <2>2
  <2>3. CASE net = 2
    BY <1>f, <1>w, <1>c, <1>r, <1>z, <1>d, <2>3
  <2> QED BY <1>w, <2>1, <2>2, <2>3
<1>g. /\ NetBlocks(rdfl') \cap Blocks(rdfl) = {} /\ ChunkBlocks(rdfl'.chunks) \cap Blocks(rdfl) = {}
  <2>1. {Fresh(i) : i \in 1 .. k} \cap heap = {}
    BY <1>f, <1>k
  <2> QED BY <1>t, <1>b, <2>1
<1>i. Distinct(rdfl') /\ heap' = Blocks(rdfl')
  <2>1. Distinct(rdfl') /\ Blocks(rdfl') = Blocks(rdfl) \cup NetBlocks(rdfl') \cup ChunkBlocks(rdfl'.chunks)
    <3> HIDE DEF nw, timer, chunks, k, net
    <3>1. DistinctChunks(rdfl'.chunks)
      BY <1>c, <1>r
    <3> QED BY <1>t, <1>r, <1>s, <1>e, <1>g, <3>1, LoadedDistinct
  <2> QED BY <1>t, <1>n, <1>b, <2>1
<1> QED BY <1>n, <1>l, <1>h, <1>r, <1>i

\* A loader that opened the descriptor, or not.
LEMMA LoadedKeeps ==
  ASSUME IInv, phase = "inited", NEW settings \in SUBSET AllSettings, Load(settings),
         "LOCAL_ALLOC" \notin settings, descr' \in {"none", "open", "closed"},
         descr' = "open" <=> "LOCAL_OPEN" \in settings
  PROVE  IInv'
<1>1. /\ heap' \subseteq Nat \ {NULL} /\ IsFiniteSet(heap')
      /\ phase' \in {"loaded", "failed"}
      /\ rdfl' \in ObjectType /\ rdfl'.settings = settings
      /\ last' \in [op : Ops, arg : Int, ret : Int]
      /\ heap' = Blocks(rdfl') /\ Distinct(rdfl')
  BY LoadKeeps
<1>2. Typed'
  BY <1>1, Zenon DEF Typed
<1>3. Owned' /\ Phases' /\ Descriptor'
  BY <1>1 DEF Owned, Phases, Descriptor
<1> QED BY <1>2, <1>3 DEF IInv

\* The settings of the caller are not the library's own.
LEMMA CallersSettings ==
  ASSUME NEW settings \in Settings
  PROVE  /\ settings \in SUBSET AllSettings
         /\ "LOCAL_ALLOC" \notin settings /\ "LOCAL_OPEN" \notin settings
         /\ OpenedSettings(settings) \in SUBSET AllSettings
         /\ "LOCAL_ALLOC" \notin OpenedSettings(settings)
         /\ "LOCAL_OPEN" \in OpenedSettings(settings)
  BY DEF OpenedSettings, AllSettings

LEMMA LoadFdKeeps == ASSUME IInv, LoadFd PROVE IInv'
<1>1. PICK settings \in Settings : Load(settings)
  BY Zenon DEF LoadFd
<1>2. phase = "inited" /\ descr' = descr /\ descr \in {"none", "open", "closed"} /\ descr # "open"
  BY DEF LoadFd, IInv, Typed, Descriptor
<1> QED BY <1>1, <1>2, CallersSettings, LoadedKeeps

LEMMA LoadPathKeeps == ASSUME IInv, LoadPath PROVE IInv'
<1>1. PICK settings \in Settings : Load(OpenedSettings(settings))
  BY Zenon DEF LoadPath
<1>2. phase = "inited" /\ descr' = "open"
  BY DEF LoadPath
<1> QED BY <1>1, <1>2, CallersSettings, LoadedKeeps

LEMMA LoadConnectKeeps == ASSUME IInv, LoadConnect PROVE IInv'
<1>1. phase = "inited" /\ descr \in {"none", "closed"} /\ rdfl.timeout \in Int
  BY DEF LoadConnect, IInv, Typed, Descriptor, ObjectType
<1>2. PICK connection \in OpenConnection :
        /\ descr' = connection.descr
        /\ \/ /\ connection.ret = ERR_NONE
              /\ \E settings \in Settings : Load(OpenedSettings(settings))
           \/ /\ connection.ret # ERR_NONE
              /\ Returns("load", rdfl.timeout, connection.ret)
              /\ UNCHANGED <<heap, phase, rdfl>>
  BY Zenon DEF LoadConnect
<1>3. /\ connection.ret \in {ERR_NONE, ERR_CONNECTION}
      /\ connection.ret = ERR_NONE => connection.descr = "open"
      /\ connection.ret # ERR_NONE => connection.descr \in {"none", "closed"}
  BY <1>1 DEF OpenConnection, ERR_NONE, ERR_CONNECTION
<1>4. CASE connection.ret = ERR_NONE
  <2>1. PICK settings \in Settings : Load(OpenedSettings(settings))
    BY <1>2, <1>4
  <2> QED BY <1>1, <1>2, <1>3, <1>4, <2>1, CallersSettings, LoadedKeeps
<1>5. CASE connection.ret # ERR_NONE
  <2>1. UNCHANGED <<heap, phase, rdfl>> /\ descr' \in {"none", "closed"}
    BY <1>2, <1>3, <1>5
  <2>2. last' \in [op : Ops, arg : Int, ret : Int]
    BY <1>1, <1>2, <1>3, <1>5, Codes DEF Returns, Ops
  <2> QED BY <1>1, <2>1, <2>2 DEF IInv, Typed, Owned, Phases, Descriptor
<1> QED BY <1>4, <1>5

LEMMA StepIInv == ASSUME IInv, [Next]_vars PROVE IInv'
<1>1. CASE UNCHANGED vars
  BY <1>1, StutterKeeps
<1>2. CASE GivenUp
  BY <1>2, StutterKeeps DEF GivenUp
<1> QED BY <1>1, <1>2, InitObjectKeeps, InitNewKeeps, SetTimeoutKeeps, AddCommentKeeps,
           LoadFdKeeps, LoadPathKeeps, LoadConnectKeeps, OpenFailsKeeps,
           EndOfFileKeeps, AddBufferKeeps, FreeChunksKeeps, CleanKeeps DEF Next

LEMMA SpecIInv == Spec => []IInv
  BY InitIInv, StepIInv, PTL DEF Spec

-----------------------------------------------------------------------------
(* Theorems *)

\* The variables keep their types, and a stored timeout is never below -1
\* (rdfl_set_timeout).
THEOREM Typing == Spec => []TypeOK
<1>1. IInv => TypeOK
  BY DEF IInv, Typed, TypeOK, ObjectType, AllSettings
<1> QED BY <1>1, SpecIInv, PTL

\* A descriptor the library opened is open exactly as long as LOCAL_OPEN says so,
\* whatever loader fails and when (rdfl_load_path, rdfl_load_connect, _close_fd).
THEOREM DescriptorIsRemembered == Spec => []DescriptorRemembered
<1>1. IInv => DescriptorRemembered
  BY DEF IInv, Descriptor, DescriptorRemembered
<1> QED BY <1>1, SpecIInv, PTL

\* rdfl_clean leaves no block but the object of rdfl_init_new, and no descriptor.
THEOREM CleanFrees == Spec => []CleanFreesAll
<1>1. IInv => CleanFreesAll
  <2> SUFFICES ASSUME IInv, phase = "cleaned"
               PROVE  heap = {rdfl.self} \ {NULL} /\ descr # "open"
    BY DEF CleanFreesAll
  <2> QED BY DEF IInv, Phases, Descriptor, SelfBlock
<1> QED BY <1>1, SpecIInv, PTL

\* From rdfl_init to rdfl_clean every block malloc gave is the object's, under one
\* pointer, and no pointer is to a block that was freed.
THEOREM HeapIsOwned == Spec => []HeapOwned
<1>1. IInv => HeapOwned
  <2> SUFFICES ASSUME IInv, phase \in {"inited", "loaded", "failed"}
               PROVE  /\ heap = ({rdfl.self} \ {NULL}) \cup NetBlocks(rdfl)
                                  \cup CommentBlocks(rdfl.cmts) \cup ChunkBlocks(rdfl.chunks)
                      /\ Cardinality(heap) = Pointers(rdfl)
    BY DEF HeapOwned
  <2> DEFINE S == SelfBlock(rdfl)
             N == NetBlocks(rdfl)
             C == CommentBlocks(rdfl.cmts)
             K == ChunkBlocks(rdfl.chunks)
             One(p) == IF p = NULL THEN 0 ELSE 1
  <2>t. /\ heap = S \cup N \cup C \cup K /\ Distinct(rdfl) /\ rdfl \in ObjectType
        /\ rdfl.cmts \in Seq(Comment) /\ rdfl.chunks \in Seq(Blist)
    BY DEF IInv, Typed, Owned, Blocks, ObjectType
  <2>d. S \cap N = {} /\ (S \cup N) \cap C = {} /\ (S \cup N \cup C) \cap K = {}
    BY <2>t DEF Distinct
  <2>s. IsFiniteSet(S) /\ Cardinality(S) = One(rdfl.self)
    <3>1. CASE rdfl.self = NULL
      <4>1. S = {}
        BY <3>1 DEF SelfBlock
      <4> QED BY <3>1, <4>1, FS_EmptySet
    <3>2. CASE rdfl.self # NULL
      <4>1. S = {rdfl.self}
        BY <3>2 DEF SelfBlock
      <4>2. IsFiniteSet({rdfl.self}) /\ Cardinality({rdfl.self}) = 1
        BY FS_Singleton
      <4> QED BY <3>2, <4>1, <4>2
    <3> QED BY <3>1, <3>2
  <2>n. IsFiniteSet(N) /\ Cardinality(N) = One(rdfl.nw) + One(rdfl.nwtimeout)
    <3>1. CASE rdfl.nw = NULL
      <4>1. N = {} /\ rdfl.nwtimeout = NULL
        BY <2>t, <3>1 DEF NetBlocks, Distinct
      <4> QED BY <3>1, <4>1, FS_EmptySet
    <3>2. CASE rdfl.nw # NULL /\ rdfl.nwtimeout = NULL
      <4>1. N = {rdfl.nw}
        BY <3>2 DEF NetBlocks
      <4>2. IsFiniteSet({rdfl.nw}) /\ Cardinality({rdfl.nw}) = 1
        BY FS_Singleton
      <4> QED BY <3>2, <4>1, <4>2
    <3>3. CASE rdfl.nw # NULL /\ rdfl.nwtimeout # NULL
      <4>1. N = {rdfl.nw} \cup {rdfl.nwtimeout} /\ rdfl.nwtimeout \notin {rdfl.nw}
        BY <2>t, <3>3 DEF NetBlocks, Distinct
      <4>2. IsFiniteSet({rdfl.nw}) /\ Cardinality({rdfl.nw}) = 1
        BY FS_Singleton
      <4>3. IsFiniteSet({rdfl.nwtimeout}) /\ Cardinality({rdfl.nwtimeout}) = 1
        BY FS_Singleton
      <4>4. {rdfl.nw} \cap {rdfl.nwtimeout} = {}
        BY <4>1
      <4>5. IsFiniteSet(N) /\ Cardinality(N) = 1 + 1
        <5> HIDE DEF N
        <5> QED BY <4>1, <4>2, <4>3, <4>4, DisjointUnion
      <4> QED BY <3>3, <4>5
    <3> QED BY <3>1, <3>2, <3>3
  <2>c. IsFiniteSet(C) /\ Cardinality(C) = 3 * Len(rdfl.cmts)
    BY <2>t, CommentsCounted DEF Distinct
  <2>k. IsFiniteSet(K) /\ Cardinality(K) = 2 * Len(rdfl.chunks)
    BY <2>t, ChunksCounted DEF Distinct
  <2>o. One(rdfl.self) \in Nat /\ One(rdfl.nw) \in Nat /\ One(rdfl.nwtimeout) \in Nat
    OBVIOUS
  <2> HIDE DEF S, N, C, K
  <2>1. IsFiniteSet(S \cup N) /\ Cardinality(S \cup N) = Cardinality(S) + Cardinality(N)
    BY <2>d, <2>s, <2>n, DisjointUnion
  <2>2. /\ IsFiniteSet(S \cup N \cup C)
        /\ Cardinality(S \cup N \cup C) = Cardinality(S \cup N) + Cardinality(C)
    BY <2>d, <2>c, <2>1, DisjointUnion
  <2>3. Cardinality(S \cup N \cup C \cup K) = Cardinality(S \cup N \cup C) + Cardinality(K)
    BY <2>d, <2>k, <2>2, DisjointUnion
  <2>4. Pointers(rdfl) = One(rdfl.self) + One(rdfl.nw) + One(rdfl.nwtimeout)
                           + 3 * Len(rdfl.cmts) + 2 * Len(rdfl.chunks)
    BY DEF Pointers
  <2>5. Len(rdfl.cmts) \in Nat /\ Len(rdfl.chunks) \in Nat
    BY <2>t
  <2>6. Cardinality(heap) = Pointers(rdfl)
    <3> HIDE DEF One
    <3> QED BY <2>t, <2>s, <2>n, <2>c, <2>k, <2>o, <2>1, <2>2, <2>3, <2>4, <2>5
  <2> QED BY <2>t, <2>6 DEF S, N, C, K, SelfBlock
<1> QED BY <1>1, SpecIInv, PTL

-----------------------------------------------------------------------------
(* The timer *)

\* The timer says what the object's timeout says.
TimerRight(r) ==
  IF r.timeout = -1 THEN r.nwtimeout = NULL
  ELSE /\ r.nwtimeout # NULL
       /\ r.tv.tv_usec \in 0 .. Second - 1
       /\ r.tv.tv_sec * Second + r.tv.tv_usec = r.timeout

\* The last call is one that sets the timer, and it succeeded.
TimerSet == last.op \in {"set_timeout", "load"} /\ last.ret = ERR_NONE /\ last.arg >= -1

LEMMA SetTimeoutTimer ==
  ASSUME IInv, SetTimeout, TimerSet', rdfl'.nw # NULL
  PROVE  TimerRight(rdfl')
<1>t. rdfl \in ObjectType /\ Typed
  BY DEF IInv, Typed
<1>p. PICK timeout \in Timeouts :
        \/ /\ rdfl.nw = NULL
           /\ rdfl' = WithTimeout(timeout)
        \/ NwInitTimeout(WithTimeout(timeout), timeout)
  BY SMT DEF SetTimeout
<1> DEFINE r == WithTimeout(timeout)
<1>r. r \in ObjectType /\ r.nw = rdfl.nw /\ r.timeout = StoredTimeout(timeout)
  BY <1>t, StoredTimeoutType DEF ObjectType, WithTimeout
<1> HIDE DEF r
<1>1. CASE rdfl.nw = NULL /\ rdfl' = r
  BY <1>1, <1>r
<1>2. CASE timeout = -1 /\ rdfl' = TimerOff(r).rdfl
  <2>1. rdfl'.nwtimeout = NULL /\ rdfl'.timeout = r.timeout
    BY <1>2, <1>r DEF TimerOff, ObjectType
  <2>2. r.timeout = -1
    BY <1>2, <1>r DEF StoredTimeout, RDFL_DEFAULT_TIMEOUT
  <2> QED BY <2>1, <2>2 DEF TimerRight
<1>3. CASE /\ timeout # -1 /\ rdfl' = TimerOn(r, Fresh(1), timeout)
           /\ Returns("set_timeout", timeout, ERR_NONE)
  <2>1. timeout \in Nat
    <3>1. last'.arg = timeout /\ timeout \in Int
      BY <1>3 DEF Returns
    <3> QED BY <1>3, <3>1 DEF TimerSet
  <2>2. r.timeout = timeout
    BY <1>r, <2>1 DEF StoredTimeout
  <2>3. Fresh(1) # NULL
    BY <1>t, FreshIsFree
  <2>4. rdfl'.nwtimeout # NULL /\ rdfl'.tv = Timeval(timeout) /\ rdfl'.timeout = timeout
    BY <1>3, <1>r, <2>2, <2>3 DEF TimerOn, ObjectType
  <2>5. rdfl'.timeout # -1
    BY <2>1, <2>4
  <2> QED BY <2>1, <2>4, <2>5, TimevalExact DEF TimerRight
<1>4. CASE Returns("set_timeout", timeout, ERR_MEMORY_ALLOC)
  BY <1>4 DEF Returns, TimerSet, ERR_NONE, ERR_MEMORY_ALLOC
<1> QED BY <1>p, <1>1, <1>2, <1>3, <1>4 DEF r, NwInitTimeout

LEMMA LoadTimer ==
  ASSUME IInv, phase = "inited", NEW settings, Load(settings), TimerSet', rdfl'.nw # NULL
  PROVE  TimerRight(rdfl')
<1>t. rdfl \in ObjectType /\ Typed /\ rdfl.nw = NULL /\ rdfl.timeout \in Nat \cup {-1}
  BY DEF IInv, Typed, Phases, ObjectType
<1> DEFINE net == NetWanted(settings)
           n == net + ChunkWanted(settings)
<1>1. rdfl' = LoadedObject(settings, n)
  <2>1. PICK m \in 0 .. n :
          /\ rdfl' = LoadedObject(settings, m)
          /\ m = n \/ Returns("load", rdfl.timeout, ERR_MEMORY_ALLOC)
    BY SMT DEF Load
  <2>2. CASE Returns("load", rdfl.timeout, ERR_MEMORY_ALLOC)
    BY <2>2 DEF Returns, TimerSet, ERR_NONE, ERR_MEMORY_ALLOC
  <2> QED BY <2>1, <2>2
<1>2. /\ net \in {0, 1, 2}
      /\ net = 1 => rdfl.timeout = -1
      /\ net = 2 => rdfl.timeout # -1
      /\ ChunkWanted(settings) \in {0, 2}
  BY DEF NetWanted, ChunkWanted
<1> HIDE DEF net
<1>3. n \in Nat /\ n >= net
  BY <1>2
<1>4. /\ rdfl'.timeout = rdfl.timeout
      /\ rdfl'.nw = IF net = 0 THEN rdfl.nw ELSE IF n > 0 THEN Fresh(1) ELSE NULL
      /\ rdfl'.nwtimeout = IF net = 2 /\ n > 1 THEN Fresh(2) ELSE NULL
      /\ rdfl'.tv = IF net = 2 /\ n > 1 THEN Timeval(rdfl.timeout) ELSE rdfl.tv
  BY <1>1, <1>t DEF LoadedObject, ObjectType, net
<1>5. CASE net = 1
  BY <1>2, <1>4, <1>5 DEF TimerRight
<1>6. CASE net = 2
  <2>1. Fresh(2) # NULL
    BY <1>t, FreshIsFree
  <2>2. rdfl.timeout \in Nat
    BY <1>t, <1>2, <1>6
  <2>3. n > 1
    BY <1>3, <1>6
  <2>4. rdfl'.tv = Timeval(rdfl.timeout) /\ rdfl'.nwtimeout # NULL
    BY <1>4, <1>6, <2>1, <2>3
  <2> QED BY <1>2, <1>4, <1>6, <2>2, <2>4, TimevalExact DEF TimerRight
<1> QED BY <1>t, <1>2, <1>4, <1>5, <1>6

LEMMA StepTimer ==
  ASSUME IInv, Next, TimerSet', rdfl'.nw # NULL, vars' # vars
  PROVE  TimerRight(rdfl')
<1>1. CASE SetTimeout
  BY <1>1, SetTimeoutTimer
<1>2. CASE LoadFd
  BY <1>2, LoadTimer DEF LoadFd
<1>3. CASE LoadPath
  BY <1>3, LoadTimer DEF LoadPath
<1>4. CASE LoadConnect
  <2>1. \/ \E settings \in Settings : Load(OpenedSettings(settings))
        \/ last'.ret # ERR_NONE
    <3>1. PICK connection \in OpenConnection :
            \/ \E settings \in Settings : Load(OpenedSettings(settings))
            \/ connection.ret # ERR_NONE /\ Returns("load", rdfl.timeout, connection.ret)
      BY <1>4, Zenon DEF LoadConnect
    <3> QED BY <3>1 DEF Returns
  <2>2. phase = "inited"
    BY <1>4 DEF LoadConnect
  <2> QED BY <2>1, <2>2, LoadTimer DEF TimerSet
<1>5. CASE OpenFails
  BY <1>5 DEF OpenFails, Returns, TimerSet, ERR_NONE, ERR_BADF, ERR_OPEN
<1>6. CASE InitObject \/ InitNew
  BY <1>6 DEF InitObject, InitNew, Returns, TimerSet
<1>7. CASE AddComment \/ EndOfFile \/ AddBuffer \/ FreeChunks \/ Clean
  BY <1>7 DEF AddComment, EndOfFile, AddBuffer, FreeChunks, Clean, Returns, TimerSet
<1>8. CASE GivenUp
  BY <1>8 DEF GivenUp
<1> QED BY <1>1, <1>2, <1>3, <1>4, <1>5, <1>6, <1>7, <1>8 DEF Next

\* After rdfl_set_timeout or a loader succeeded, select(2) is given the timeout the
\* object holds, exactly, in whatever order they were called.
THEOREM TimerIsRight == Spec => TimerFollows
<1>1. ASSUME IInv, [Next]_vars
      PROVE  [last'.op \in {"set_timeout", "load"} /\ last'.ret = ERR_NONE /\ last'.arg >= -1
              /\ rdfl'.nw # NULL =>
                IF rdfl'.timeout = -1 THEN rdfl'.nwtimeout = NULL
                ELSE /\ rdfl'.nwtimeout # NULL
                     /\ rdfl'.tv.tv_usec \in 0 .. Second - 1
                     /\ rdfl'.tv.tv_sec * Second + rdfl'.tv.tv_usec = rdfl'.timeout]_vars
  <2>1. vars' # vars /\ TimerSet' /\ rdfl'.nw # NULL => TimerRight(rdfl')
    BY <1>1, StepTimer
  <2> QED BY <2>1, Zenon DEF TimerSet, TimerRight
<1> QED BY <1>1, SpecIInv, PTL DEF Spec, TimerFollows

=============================================================================
