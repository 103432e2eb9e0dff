--------------------------- MODULE RdflFifoProofs ---------------------------
(***************************************************************************)
(* An rdfl object is a queue of bytes: the proof that Rdfl implements      *)
(* ByteFifo, for every size, stream and sequence of calls.                 *)
(*                                                                         *)
(* The queue is what the iterator visits, a recursive concatenation over   *)
(* the chunks.  The proof gives it a closed form: under the buffer's       *)
(* invariant it is the stream's bytes from the first unread one on, as     *)
(* many as total says.  That takes two inductions along the list, each     *)
(* made with the least natural number of a set.  A step is then judged by  *)
(* what it does to two numbers, pos and total.                             *)
(***************************************************************************)
EXTENDS RdflFifo, RdflProofs, SequenceLemmas

-----------------------------------------------------------------------------
(* The bytes of the stream, by their offsets *)

\* len bytes of the stream, from offset from on.
Stream(from, len) == [i \in 1 .. len |-> from + i - 1]

LEMMA StreamType ==
  ASSUME NEW from \in Int, NEW len \in Nat
  PROVE  /\ Stream(from, len) \in Seq(Int) /\ Len(Stream(from, len)) = len
         /\ \A i \in 1 .. len : Stream(from, len)[i] = from + i - 1
  BY DEF Stream

\* A sequence is a piece of the stream if its bytes are.
LEMMA IsStream ==
  ASSUME NEW from \in Int, NEW len \in Nat, NEW s \in Seq(Int), Len(s) = len,
         \A i \in 1 .. len : s[i] = from + i - 1
  PROVE  s = Stream(from, len)
<1>1. s = [i \in 1 .. len |-> s[i]]
  BY LenProperties
<1> QED BY <1>1 DEF Stream

LEMMA StreamGoesOn ==
  ASSUME NEW from \in Int, NEW m \in Nat, NEW n \in Nat
  PROVE  Stream(from, m) \o Stream(from + m, n) = Stream(from, m + n)
<1> DEFINE s == Stream(from, m)
           t == Stream(from + m, n)
<1>1. /\ s \in Seq(Int) /\ Len(s) = m /\ t \in Seq(Int) /\ Len(t) = n
      /\ \A i \in 1 .. m : s[i] = from + i - 1
      /\ \A i \in 1 .. n : t[i] = from + m + i - 1
  BY StreamType
<1> HIDE DEF s, t
<1>2. /\ s \o t \in Seq(Int) /\ Len(s \o t) = m + n
      /\ \A i \in 1 .. m + n : (s \o t)[i] = IF i <= m THEN s[i] ELSE t[i - m]
  BY <1>1, ConcatProperties
<1>3. ASSUME NEW i \in 1 .. m + n PROVE (s \o t)[i] = from + i - 1
  <2>1. CASE i <= m
    BY <1>1, <1>2, <2>1
  <2>2. CASE ~(i <= m)
    <3>1. i - m \in 1 .. n
      BY <2>2
    <3>2. t[i - m] = from + m + (i - m) - 1
      BY <1>1, <3>1
    <3> QED BY <1>2, <2>2, <3>2
  <2> QED BY <2>1, <2>2
<1>4. m + n \in Nat
  OBVIOUS
<1>5. s \o t = Stream(from, m + n)
  BY <1>2, <1>3, <1>4, IsStream
<1> QED BY <1>5 DEF s, t

-----------------------------------------------------------------------------
(* The pieces the iterator visits *)

\* The end of chunk k, from the first unread byte on: it grows with k.
LEMMA EndsGrow ==
  ASSUME NEW buf \in BufferType, NEW at \in Nat, Geometry(buf), Stored(buf, at),
         NEW n \in Nat, n = Len(buf.raw)
  PROVE  /\ \A k \in 2 .. n - 1 :
              EndOffset(buf, k, at) = EndOffset(buf, k - 1, at) + Len(buf.raw[k])
         /\ \A k \in 1 .. n - 1 :
              /\ EndOffset(buf, k, at) \in Int
              /\ EndOffset(buf, k, at) - (at - buf.total) \in Nat
<1>0. /\ buf.total \in Nat /\ buf.l_total \in Nat
      /\ \A k \in 1 .. n : buf.raw[k] \in Seq(Int) /\ Len(buf.raw[k]) \in Nat \ {0}
  BY Fields, MaxAllocAssumption DEF Geometry
<1>1. ASSUME NEW k \in 2 .. n - 1
      PROVE  EndOffset(buf, k, at) = EndOffset(buf, k - 1, at) + Len(buf.raw[k])
  <2>1. Len(buf.raw[k]) \in Nat \ {0}
    BY <1>0
  <2>2. \A i \in 0 .. Len(buf.raw[k]) - 1 :
          Cell(buf.raw[k], i) = EndOffset(buf, k - 1, at) + i
    BY DEF Stored
  <2>3. Cell(buf.raw[k], 0) = EndOffset(buf, k - 1, at) + 0
    BY <2>1, <2>2
  <2>4. EndOffset(buf, k - 1, at) \in Int
    BY EndOffsetIsInt
  <2>5. EndOffset(buf, k, at) = Cell(buf.raw[k], 0) + Len(buf.raw[k])
    BY DEF EndOffset
  <2> HIDE DEF Cell
  <2> QED BY <2>1, <2>3, <2>4, <2>5
<1>2. \A k \in 1 .. n - 1 : EndOffset(buf, k, at) \in Int
  BY EndOffsetIsInt
<1> DEFINE T == { k \in 1 .. n - 1 : EndOffset(buf, k, at) - (at - buf.total) \notin Nat }
<1>3. ASSUME T # {} PROVE FALSE
  <2>1. T \subseteq Nat
    OBVIOUS
  <2> HIDE DEF T
  <2>2. PICK k \in T : \A j \in T : k <= j
    BY <1>3, <2>1, LeastNatural
  <2>3. k \in 1 .. n - 1 /\ EndOffset(buf, k, at) - (at - buf.total) \notin Nat
    BY <2>2 DEF T
  <2>4. CASE k = 1
    BY <1>0, <2>3, <2>4 DEF EndOffset
  <2>5. CASE k # 1
    <3>1. k - 1 \in 1 .. n - 1 /\ k \in 2 .. n - 1 /\ ~(k <= k - 1) /\ k \in 1 .. n
      BY <2>3, <2>5
    <3>2. EndOffset(buf, k - 1, at) - (at - buf.total) \in Nat
      BY <2>2, <3>1 DEF T
    <3>3. EndOffset(buf, k, at) = EndOffset(buf, k - 1, at) + Len(buf.raw[k])
      BY <1>1, <3>1
    <3>4. Len(buf.raw[k]) \in Nat
      BY <1>0, <3>1
    <3>5. EndOffset(buf, k - 1, at) \in Int
      BY <1>2, <3>1
    <3> DEFINE e == EndOffset(buf, k - 1, at)
               l == Len(buf.raw[k])
               d == at - buf.total
    <3>6. e \in Int /\ l \in Nat /\ d \in Int /\ e - d \in Nat
      BY <1>0, <3>2, <3>4, <3>5
    <3>7. EndOffset(buf, k, at) - d = (e + l) - d
      BY <3>3
    <3> HIDE DEF e, l, d
    <3>8. (e + l) - d \in Nat
      BY <3>6
    <3> QED BY <2>3, <3>7, <3>8 DEF d
  <2> QED BY <2>4, <2>5
<1> QED BY <1>1, <1>2, <1>3

\* The len cells of chunk c from index from on hold the stream from offset base on.
Holds(c, from, len, base) == \A i \in 0 .. len - 1 : Cell(c, from + i) = base + i

\* A piece of a chunk is a piece of the stream if the chunk's cells are.
LEMMA PieceIsStream ==
  ASSUME NEW c \in Seq(Int), NEW from \in Nat, NEW len \in Nat, from + len <= Len(c),
         NEW base \in Int, Holds(c, from, len, base)
  PROVE  Piece(c, from, len) = Stream(base, len)
<1>0. Len(c) \in Nat
  OBVIOUS
<1>1. \A i \in from + 1 .. from + len : c[i] \in Int
  <2>1. \A i \in from + 1 .. from + len : i \in 1 .. Len(c)
    BY <1>0
  <2> QED BY <2>1
<1> DEFINE s == SubSeq(c, from + 1, from + len)
<1>2. from + 1 \in Int /\ from + len \in Int
  OBVIOUS
<1>3. /\ s \in Seq(Int)
      /\ Len(s) = IF from + 1 <= from + len THEN (from + len) - (from + 1) + 1 ELSE 0
      /\ \A i \in 1 .. (from + len) - (from + 1) + 1 : s[i] = c[(from + 1) + i - 1]
  BY <1>1, <1>2, SubSeqProperties
<1> HIDE DEF s
<1>4. Len(s) = len /\ (from + len) - (from + 1) + 1 = len
  BY <1>3
<1>5. ASSUME NEW i \in 1 .. len PROVE s[i] = base + i - 1
  <2>1. s[i] = c[(from + 1) + i - 1]
    BY <1>3, <1>4
  <2>2. i - 1 \in 0 .. len - 1 /\ (from + 1) + i - 1 = from + (i - 1) + 1
    OBVIOUS
  <2>3. Cell(c, from + (i - 1)) = base + (i - 1)
    BY <2>2 DEF Holds
  <2>4. c[from + (i - 1) + 1] = base + (i - 1)
    BY <2>3 DEF Cell
  <2>5. base + (i - 1) = base + i - 1
    OBVIOUS
  <2> QED BY <2>1, <2>2, <2>4, <2>5
<1>6. s = Stream(base, len)
  BY <1>3, <1>4, <1>5, IsStream
<1> QED BY <1>6 DEF Piece, s

\* What the iterator visits is the stream, piece by piece.
LEMMA PiecesAreStream ==
  ASSUME NEW buf \in BufferType, NEW at \in Nat, Geometry(buf), Stored(buf, at),
         NEW n \in Nat, n = Len(buf.raw), n > 0
  PROVE  LET s == ConsumerPtrSize(buf)
             base == at - buf.total
         IN  /\ s \in 0 .. buf.l_total
             /\ Piece(FirstChunk(buf), buf.cndx, s) = Stream(base, s)
             /\ Piece(FirstChunk(buf), 0, buf.l_total - s) = Stream(base + s, buf.l_total - s)
             /\ \A k \in 2 .. n - 1 :
                  buf.raw[k] = Stream(EndOffset(buf, k - 1, at), Len(buf.raw[k]))
             /\ n > 1 =>
                  Piece(LastChunk(buf), 0, buf.bndx) = Stream(EndOffset(buf, n - 1, at), buf.bndx)
<1> DEFINE c == FirstChunk(buf)
           s == ConsumerPtrSize(buf)
           base == at - buf.total
<1>1. c \in Seq(Int) /\ buf.raw \in Seq(Seq(Int))
  BY Fields DEF FirstChunk
<1>2. PICK z \in Nat : z = Len(c)
  BY <1>1
<1>3. /\ buf.cndx \in Nat /\ buf.l_total \in Nat /\ buf.cndx < z /\ buf.l_total <= z
      /\ buf.total \in Nat /\ buf.bndx \in Nat /\ base \in Int
  BY <1>2, Fields DEF Geometry
<1>4. s = IF buf.cndx + buf.l_total > z THEN z - buf.cndx ELSE buf.l_total
  BY <1>2, Fields DEF ConsumerPtrSize
<1>5. s \in Nat /\ s <= buf.l_total /\ buf.cndx + s <= z /\ buf.l_total - s \in Nat
  BY <1>3, <1>4, SMTT(30)
<1> HIDE DEF s
<1>c. \A i \in 0 .. buf.l_total - 1 : Cell(c, Wrap(buf.cndx + i, z)) = base + i
  BY <1>2 DEF Stored
<1>6. Piece(c, buf.cndx, s) = Stream(base, s)
  <2>1. ASSUME NEW i \in 0 .. s - 1 PROVE Cell(c, buf.cndx + i) = base + i
    <3>1. PICK x \in Nat : x = buf.cndx
      BY <1>3
    <3>2. PICK t \in Nat : t = buf.l_total
      BY <1>3
    <3>3. i \in 0 .. t - 1 /\ Wrap(x + i, z) = x + i
      <4>1. s <= t /\ x + s <= z
        BY <1>5, <3>1, <3>2
      <4> QED BY <1>5, <4>1 DEF Wrap
    <3> QED BY <1>c, <3>1, <3>2, <3>3
  <2>2. buf.cndx + s <= Len(c)
    BY <1>2, <1>5
  <2> DEFINE from == buf.cndx
  <2>3. /\ from \in Nat /\ s \in Nat /\ base \in Int /\ from + s <= Len(c)
        /\ Holds(c, from, s, base)
    BY <1>3, <1>5, <2>1, <2>2 DEF Holds
  <2> HIDE DEF c, base, from
  <2>4. c \in Seq(Int)
    BY <1>1
  <2>5. Piece(c, from, s) = Stream(base, s)
    BY <2>3, <2>4, PieceIsStream, Zenon
  <2> QED BY <2>5 DEF from
<1>7. Piece(c, 0, buf.l_total - s) = Stream(base + s, buf.l_total - s)
  <2>1. ASSUME NEW i \in 0 .. (buf.l_total - s) - 1 PROVE Cell(c, 0 + i) = (base + s) + i
    <3>1. buf.l_total > s /\ s = z - buf.cndx
      BY <1>3, <1>4, <1>5
    <3>i. i \in Nat /\ i < buf.l_total - s
      BY <1>3, <1>5
    <3>2. s + i \in 0 .. buf.l_total - 1 /\ Wrap(buf.cndx + (s + i), z) = 0 + i
      <4>1. PICK x \in Nat, y \in Nat : x = buf.cndx /\ y = buf.l_total
        BY <1>3
      <4>s. s = z - x /\ s \in Nat
        BY <1>5, <3>1, <4>1
      <4>3. x + (s + i) = z + i
        BY <3>i, <4>s
      <4>4. s + i \in 0 .. y - 1
        BY <1>5, <3>i, <4>1
      <4>2. Wrap(z + i, z) = i
        BY <1>2, <3>i DEF Wrap
      <4>5. buf.cndx + (s + i) = z + i
        BY <4>1, <4>3
      <4>6. Wrap(buf.cndx + (s + i), z) = 0 + i
        BY <3>i, <4>2, <4>5
      <4> QED BY <4>1, <4>4, <4>6
    <3>3. Cell(c, 0 + i) = base + (s + i)
      BY <1>c, <3>2
    <3>4. base + (s + i) = (base + s) + i
      BY <1>3, <1>5
    <3> QED BY <3>3, <3>4
  <2>2. 0 + (buf.l_total - s) <= Len(c) /\ base + s \in Int /\ 0 \in Nat
    BY <1>2, <1>3, <1>5, SMTT(30)
  <2> DEFINE len == buf.l_total - s
             from == base + s
  <2>3. /\ len \in Nat /\ from \in Int /\ 0 + len <= Len(c)
        /\ Holds(c, 0, len, from)
    BY <1>5, <2>1, <2>2 DEF Holds
  <2> HIDE DEF len, from, c
  <2>4. Piece(c, 0, len) = Stream(from, len)
    BY <1>1, <2>2, <2>3, PieceIsStream
  <2> QED BY <2>4 DEF len, from
<1>8. ASSUME NEW k \in 2 .. n - 1
      PROVE  buf.raw[k] = Stream(EndOffset(buf, k - 1, at), Len(buf.raw[k]))
  <2> DEFINE r == buf.raw[k]
             e == EndOffset(buf, k - 1, at)
  <2>1. k \in 1 .. n /\ k - 1 \in 1 .. n
    OBVIOUS
  <2>2. r \in Seq(Int) /\ Len(r) \in Nat /\ e \in Int
    BY <2>1, Fields, EndOffsetIsInt
  <2>3. \A i \in 0 .. Len(r) - 1 : Cell(r, i) = e + i
    BY DEF Stored
  <2> HIDE DEF e
  <2>4. ASSUME NEW i \in 1 .. Len(r) PROVE r[i] = e + i - 1
    <3>1. i - 1 \in 0 .. Len(r) - 1 /\ (i - 1) + 1 = i
      BY <2>2
    <3>2. Cell(r, i - 1) = e + (i - 1) /\ e + (i - 1) = e + i - 1
      BY <2>2, <2>3, <3>1
    <3> QED BY <3>1, <3>2 DEF Cell
  <2> HIDE DEF r
  <2>5. r = Stream(e, Len(r))
    BY <2>2, <2>4, IsStream
  <2> QED BY <2>5 DEF r, e
<1>9. ASSUME n > 1
      PROVE  Piece(LastChunk(buf), 0, buf.bndx) = Stream(EndOffset(buf, n - 1, at), buf.bndx)
  <2> DEFINE r == LastChunk(buf)
             e == EndOffset(buf, n - 1, at)
  <2>1. n \in 1 .. n /\ n - 1 \in 1 .. n
    BY <1>9
  <2>2. r \in Seq(Int) /\ buf.bndx <= Len(r) /\ e \in Int /\ 0 + buf.bndx <= Len(r)
    <3>1. e \in Int
      BY <2>1, EndOffsetIsInt
    <3>2. r \in Seq(Int) /\ Len(r) \in Nat
      BY <2>1, Fields DEF LastChunk
    <3>3. buf.bndx <= Len(r)
      BY DEF Geometry
    <3> HIDE DEF r, e
    <3> QED BY <1>3, <3>1, <3>2, <3>3
  <2>3. Holds(r, 0, buf.bndx, e)
    BY <1>9 DEF Stored, Holds
  <2> HIDE DEF r, e
  <2>4. Piece(r, 0, buf.bndx) = Stream(e, buf.bndx)
    BY <1>3, <2>2, <2>3, PieceIsStream
  <2> QED BY <2>4 DEF r, e
<1>10. s \in 0 .. buf.l_total
  BY <1>3, <1>5
<1>11. \A k \in 2 .. n - 1 :
         buf.raw[k] = Stream(EndOffset(buf, k - 1, at), Len(buf.raw[k]))
  BY <1>8
<1>12. n > 1 => Piece(LastChunk(buf), 0, buf.bndx) = Stream(EndOffset(buf, n - 1, at), buf.bndx)
  BY <1>9
<1> QED BY <1>6, <1>7, <1>10, <1>11, <1>12, Zenon DEF s

-----------------------------------------------------------------------------
(* The queue *)

LEMMA PieceType ==
  ASSUME NEW c \in Seq(Int), NEW from \in Nat, NEW len \in Nat, from + len <= Len(c)
  PROVE  Piece(c, from, len) \in Seq(Int)
<1>1. \A i \in from + 1 .. from + len : c[i] \in Int
  <2>1. Len(c) \in Nat
    OBVIOUS
  <2>2. \A i \in from + 1 .. from + len : i \in 1 .. Len(c)
    BY <2>1
  <2> QED BY <2>2
<1>2. from + 1 \in Int /\ from + len \in Int
  OBVIOUS
<1> QED BY <1>1, <1>2, SubSeqProperties DEF Piece

\* u is s, of length m, followed by t, of length n.
Joined(u, s, t, m, n) ==
  /\ Len(u) = m + n
  /\ \A i \in 1 .. m + n : u[i] = IF i <= m THEN s[i] ELSE t[i - m]

LEMMA ConcatJoins ==
  ASSUME NEW S, NEW s \in Seq(S), NEW t \in Seq(S)
  PROVE  s \o t \in Seq(S) /\ Joined(s \o t, s, t, Len(s), Len(t))
  BY ConcatProperties, Zenon DEF Joined

\* Of n chunks, m are neither first nor last, and z are last but not first.
InBetween(n, m, z) ==
  /\ m = IF 2 <= n - 1 THEN n - 2 ELSE 0
  /\ z = IF n > 1 THEN 1 ELSE 0

LEMMA PieceCount ==
  ASSUME NEW n \in Nat, n > 0, NEW m \in Nat, NEW z \in Nat, InBetween(n, m, z)
  PROVE  /\ (2 + m) + z = n + 1
         /\ n > 1 => 2 + m = n /\ z = 1 /\ (n + 1) - (2 + m) = 1
         /\ \A k \in 2 .. n - 1 :
              k + 1 \in 1 .. 2 + m /\ k + 1 \in 1 .. (2 + m) + z /\ ~(k + 1 <= 2)
  BY DEF InBetween

\* The pieces in their order: two of the first chunk, then one of each other chunk.
Shape(segs, raw, n, p, q, r) ==
  /\ Len(segs) = n + 1 /\ segs[1] = p /\ segs[2] = q
  /\ \A k \in 2 .. n - 1 : segs[k + 1] = raw[k]
  /\ n > 1 => segs[n + 1] = r

\* What two joins say of the length, and of a last part of one element.
LastPart(segs, last, n, m, z) ==
  /\ Len(segs) = n + 1
  /\ (2 + m = n /\ z = 1) => segs[n + 1] = last[1]

LEMMA JoinedTwice ==
  ASSUME NEW S, NEW B, NEW Z, NEW n \in Nat, NEW m \in Nat, NEW z \in Nat,
         Joined(S, B, Z, 2 + m, z), (2 + m) + z = n + 1
  PROVE  LastPart(S, Z, n, m, z)
<1>1. /\ Len(S) = (2 + m) + z
      /\ \A i \in 1 .. (2 + m) + z : S[i] = IF i <= 2 + m THEN B[i] ELSE Z[i - (2 + m)]
  BY Zenon DEF Joined
<1>2. Len(S) = n + 1
  BY <1>1
<1>3. ASSUME 2 + m = n, z = 1 PROVE S[n + 1] = Z[1]
  <2>1. n + 1 \in 1 .. (2 + m) + z /\ ~(n + 1 <= 2 + m) /\ (n + 1) - (2 + m) = 1
    BY <1>3
  <2>2. S[n + 1] = IF n + 1 <= 2 + m THEN B[n + 1] ELSE Z[(n + 1) - (2 + m)]
    BY <1>1, <2>1, Zenon
  <2> QED BY <2>1, <2>2
<1> QED BY <1>2, <1>3 DEF LastPart

LEMMA SegmentsShape ==
  ASSUME NEW buf \in BufferType, NEW n \in Nat, n = Len(buf.raw), n > 0,
         NEW p, NEW q, NEW r, p \in Seq(Int), q \in Seq(Int), r \in Seq(Int),
         p = Piece(FirstChunk(buf), buf.cndx, ConsumerPtrSize(buf)),
         q = Piece(FirstChunk(buf), 0, buf.l_total - ConsumerPtrSize(buf)),
         r = IF n > 1 THEN Piece(LastChunk(buf), 0, buf.bndx) ELSE <<>>
  PROVE  Shape(Segments(buf), buf.raw, n, p, q, r)
<1> DEFINE A == <<p, q>>
           M == SubSeq(buf.raw, 2, n - 1)
           Z == IF n > 1 THEN <<r>> ELSE <<>>
<1>1. Segments(buf) = (A \o M) \o Z
  <2>1. buf.raw # <<>>
    BY Fields
  <2>2. Z = IF n > 1 THEN <<Piece(LastChunk(buf), 0, buf.bndx)>> ELSE <<>>
    OBVIOUS
  <2> QED BY <2>1, <2>2 DEF Segments
<1>2. A \in Seq(Seq(Int)) /\ Len(A) = 2 /\ A[1] = p /\ A[2] = q
  OBVIOUS
<1>3. /\ M \in Seq(Seq(Int))
      /\ Len(M) = IF 2 <= n - 1 THEN (n - 1) - 2 + 1 ELSE 0
      /\ \A i \in 1 .. (n - 1) - 2 + 1 : M[i] = buf.raw[2 + i - 1]
  <2>1. \A i \in 2 .. n - 1 : buf.raw[i] \in Seq(Int)
    BY Fields
  <2>2. n - 1 \in Int
    OBVIOUS
  <2> QED BY <2>1, <2>2, SubSeqProperties
<1>4. Z \in Seq(Seq(Int)) /\ Len(Z) = (IF n > 1 THEN 1 ELSE 0) /\ (n > 1 => Z[1] = r)
  OBVIOUS
<1> HIDE DEF A, M, Z
<1>5. PICK m \in Nat : m = Len(M) /\ m = IF 2 <= n - 1 THEN n - 2 ELSE 0
  BY <1>3
<1>6. A \o M \in Seq(Seq(Int)) /\ Joined(A \o M, A, M, Len(A), Len(M))
  BY <1>2, <1>3, ConcatJoins
<1> DEFINE B == A \o M
<1> HIDE DEF B
<1>7. PICK z \in Nat : z = Len(Z) /\ z = IF n > 1 THEN 1 ELSE 0
  BY <1>4
<1>8. B \in Seq(Seq(Int)) /\ Joined(B, A, M, 2, m)
  BY <1>2, <1>5, <1>6 DEF B
<1>b. Len(B) = 2 + m /\ \A i \in 1 .. 2 + m : B[i] = IF i <= 2 THEN A[i] ELSE M[i - 2]
  BY <1>8, Zenon DEF Joined
<1>9. Joined(B \o Z, B, Z, Len(B), Len(Z))
  BY <1>4, <1>8, ConcatJoins
<1> DEFINE S == B \o Z
<1> HIDE DEF S
<1>s. Joined(S, B, Z, 2 + m, z)
  BY <1>7, <1>9, <1>b DEF S
<1>10. /\ Len(S) = (2 + m) + z
       /\ \A i \in 1 .. (2 + m) + z : S[i] = IF i <= 2 + m THEN B[i] ELSE Z[i - (2 + m)]
  BY <1>s, Zenon DEF Joined
<1>c. InBetween(n, m, z)
  BY <1>5, <1>7, Zenon DEF InBetween
<1>m. (2 + m) + z = n + 1
  BY <1>c, PieceCount, SMTT(30)
<1>l. LastPart(S, Z, n, m, z)
  BY <1>s, <1>m, JoinedTwice, Zenon
<1>11. /\ Len(S) = n + 1
       /\ (2 + m = n /\ z = 1) => S[n + 1] = Z[1]
  BY <1>l, Zenon DEF LastPart
<1>12. S[1] = p /\ S[2] = q
  BY <1>2, <1>b, <1>10
<1>13. ASSUME NEW k \in 2 .. n - 1 PROVE S[k + 1] = buf.raw[k]
  <2>1. m = n - 2 /\ k + 1 \in 1 .. 2 + m /\ k - 1 \in 1 .. (n - 1) - 2 + 1
    BY <1>5
  <2>i. PICK i \in Int : i = k + 1
    OBVIOUS
  <2>2. S[k + 1] = B[k + 1] /\ B[k + 1] = M[(k + 1) - 2]
    <3>1. i \in 1 .. 2 + m /\ i \in 1 .. (2 + m) + z /\ ~(i <= 2) /\ i <= 2 + m
      <4>1. /\ i \in 1 .. 2 + m /\ i \in 1 .. (2 + m) + z /\ ~(i <= 2)
        BY <1>c, <2>i, PieceCount
      <4> QED BY <4>1
    <3>2. B[i] = M[i - 2]
      BY <1>b, <3>1
    <3>3. S[i] = B[i]
      BY <1>10, <3>1
    <3> QED BY <2>i, <3>2, <3>3
  <2>3. M[k - 1] = buf.raw[2 + (k - 1) - 1] /\ (k + 1) - 2 = k - 1 /\ 2 + (k - 1) - 1 = k
    <3>1. \A j \in 1 .. (n - 1) - 2 + 1 : M[j] = buf.raw[2 + j - 1]
      BY <1>3
    <3>2. M[k - 1] = buf.raw[2 + (k - 1) - 1]
      BY <2>1, <3>1
    <3> QED BY <3>2
  <2> QED BY <2>2, <2>3
<1>14. ASSUME n > 1 PROVE S[n + 1] = r
  <2>1. 2 + m = n /\ z = 1
    BY <1>c, <1>14, PieceCount
  <2> QED BY <1>4, <1>11, <1>14, <2>1
<1>15. S = Segments(buf)
  BY <1>1 DEF S, B
<1> QED BY <1>11, <1>12, <1>13, <1>14, <1>15 DEF Shape

\* Pieces that follow one another flatten to the stream: len[i] bytes in the
\* first i pieces.
Follow(segs, base, len, n) ==
  /\ segs[1] = Stream(base, len[1])
  /\ \A i \in 2 .. n : \E k \in Nat :
       segs[i] = Stream(base + len[i - 1], k) /\ len[i] = len[i - 1] + k

LEMMA FlattenStream ==
  ASSUME NEW n \in Nat \ {0}, NEW segs, Len(segs) = n, NEW base \in Int,
         NEW len \in [1 .. n -> Nat], Follow(segs, base, len, n)
  PROVE  FlattenSeq(segs) = Stream(base, len[n])
<1> DEFINE g == [i \in 1 .. n |-> Stream(base, len[i])]
           h == [i \in 1 .. n |-> IF i = 1 THEN segs[i] ELSE g[i - 1] \o segs[i]]
<1>1. ASSUME NEW i \in 1 .. n PROVE g[i] = h[i]
  <2>1. CASE i = 1
    BY <2>1 DEF Follow
  <2>2. CASE i # 1
    <3>1. i \in 2 .. n /\ i - 1 \in 1 .. n
      BY <2>2
    <3>2. PICK k \in Nat : segs[i] = Stream(base + len[i - 1], k) /\ len[i] = len[i - 1] + k
      BY <3>1 DEF Follow
    <3>3. len[i - 1] \in Nat
      BY <3>1
    <3>4. PICK m \in Nat : m = len[i - 1]
      BY <3>3
    <3>5. Stream(base, m) \o Stream(base + m, k) = Stream(base, m + k)
      BY StreamGoesOn
    <3>6. h[i] = Stream(base, m) \o Stream(base + m, k)
      BY <2>2, <3>1, <3>2, <3>4
    <3>7. g[i] = Stream(base, m + k)
      BY <3>2, <3>4
    <3> QED BY <3>5, <3>6, <3>7
  <2> QED BY <2>1, <2>2
<1>2. g = h
  <2>1. g = [i \in 1 .. n |-> g[i]] /\ h = [i \in 1 .. n |-> h[i]]
    OBVIOUS
  <2> HIDE DEF g, h
  <2> QED BY <1>1, <2>1
<1>3. g[n] = Stream(base, len[n])
  OBVIOUS
<1>4. Flattens(g, segs, n)
  BY <1>2 DEF Flattens
<1> HIDE DEF g
<1>5. FlattenSeq(segs) = g[n]
  BY <1>4, FlattenSeqIs, Zenon
<1> QED BY <1>3, <1>5

\* What the iterator visits is the unread bytes, in the order of the stream.
LEMMA QueueIsStream ==
  ASSUME NEW buf \in BufferType, NEW at \in Nat, Geometry(buf), Stored(buf, at)
  PROVE  FlattenSeq(Segments(buf)) = Stream(at - buf.total, buf.total)
<1>n. PICK n \in Nat : n = Len(buf.raw)
  BY Fields
<1>f. /\ buf.l_total \in Nat /\ buf.total \in Nat /\ buf.cndx \in Nat /\ buf.bndx \in Nat
      /\ at - buf.total \in Int
  BY Fields
<1>1. CASE n = 0
  <2>0. buf.raw = <<>>
    <3>1. buf.raw = <<>> <=> Len(buf.raw) < 1
      BY Fields, Zenon
    <3> QED BY <1>n, <1>1, <3>1
  <2>t. Single(buf) /\ Len(buf.raw) < 1
    BY <1>n, <1>1 DEF Single
  <2>1. buf.raw = <<>> /\ buf.total = 0
    BY <2>0, <2>t, Zenon DEF Geometry
  <2>2. Segments(buf) = <<>>
    BY <2>1 DEF Segments
  <2>3. FlattenSeq(<<>>) = <<>>
    BY DEF FlattenSeq
  <2>4. Stream(at - buf.total, 0) = <<>>
    BY DEF Stream
  <2> QED BY <2>1, <2>2, <2>3, <2>4
<1>2. CASE n > 0
  <2> DEFINE s == ConsumerPtrSize(buf)
             base == at - buf.total
             e(k) == EndOffset(buf, k, at)
             segs == Segments(buf)
             len == [i \in 1 .. n + 1 |-> IF i = 1 THEN s
                                          ELSE IF i <= n THEN e(i - 1) - base ELSE buf.total]
  <2>1. /\ s \in 0 .. buf.l_total
        /\ Piece(FirstChunk(buf), buf.cndx, s) = Stream(base, s)
        /\ Piece(FirstChunk(buf), 0, buf.l_total - s) = Stream(base + s, buf.l_total - s)
    BY <1>n, <1>2, PiecesAreStream, Zenon
  <2>2. /\ \A k \in 2 .. n - 1 : buf.raw[k] = Stream(e(k - 1), Len(buf.raw[k]))
        /\ n > 1 => Piece(LastChunk(buf), 0, buf.bndx) = Stream(e(n - 1), buf.bndx)
    BY <1>n, <1>2, PiecesAreStream, Zenon
  <2>3. /\ \A k \in 2 .. n - 1 : e(k) = e(k - 1) + Len(buf.raw[k]) /\ Len(buf.raw[k]) \in Nat
        /\ \A k \in 1 .. n - 1 : e(k) \in Int /\ e(k) - base \in Nat
    <3>1. \A k \in 2 .. n - 1 : Len(buf.raw[k]) \in Nat
      <4>1. \A k \in 1 .. n : Len(buf.raw[k]) \in Nat
        BY <1>n, Fields, Zenon
      <4> QED BY <4>1
    <3> QED BY <1>n, <3>1, EndsGrow, Zenon
  <2>4. e(1) = base + buf.l_total
    BY DEF EndOffset
  <2>5. /\ n = 1 => buf.total = buf.l_total
        /\ n > 1 => at = e(n - 1) + buf.bndx
    BY <1>n DEF Geometry, Single, Stored
  <2>6. /\ Len(segs) = n + 1 /\ segs[1] = Stream(base, s)
        /\ segs[2] = Stream(base + s, buf.l_total - s)
        /\ \A k \in 2 .. n - 1 : segs[k + 1] = buf.raw[k]
        /\ n > 1 => segs[n + 1] = Stream(e(n - 1), buf.bndx)
    <3> DEFINE p == Stream(base, s)
               q == Stream(base + s, buf.l_total - s)
               r == IF n > 1 THEN Stream(e(n - 1), buf.bndx) ELSE <<>>
    <3>1. p \in Seq(Int) /\ q \in Seq(Int)
      <4>1. base \in Int /\ s \in Nat /\ base + s \in Int /\ buf.l_total - s \in Nat
        BY <1>f, <2>1
      <4> HIDE DEF base, s
      <4> QED BY <4>1, StreamType, Zenon
    <3>2. r \in Seq(Int)
      <4>1. CASE n > 1
        <5>1. e(n - 1) \in Int
          BY <2>3, <4>1
        <5> QED BY <1>f, <4>1, <5>1, StreamType
      <4>2. CASE ~(n > 1)
        BY <4>2
      <4> QED BY <4>1, <4>2
    <3>3. r = IF n > 1 THEN Piece(LastChunk(buf), 0, buf.bndx) ELSE <<>>
      BY <2>2, Zenon
    <3>4. p = Piece(FirstChunk(buf), buf.cndx, s) /\ q = Piece(FirstChunk(buf), 0, buf.l_total - s)
      BY <2>1
    <3>5. n > 1 => r = Stream(e(n - 1), buf.bndx)
      OBVIOUS
    <3> HIDE DEF p, q, r
    <3>6. Shape(segs, buf.raw, n, p, q, r)
      BY <1>n, <1>2, <3>1, <3>2, <3>3, <3>4, SegmentsShape, Zenon
    <3> HIDE DEF segs, e
    <3> QED BY <3>5, <3>6, Zenon DEF p, q, Shape
  <2> HIDE DEF segs, e
  <2>7. len \in [1 .. n + 1 -> Nat]
    <3>1. ASSUME NEW i \in 1 .. n + 1 PROVE len[i] \in Nat
      <4>1. CASE i = 1
        BY <1>f, <2>1, <4>1
      <4>2. CASE i \in 2 .. n
        <5>1. i - 1 \in 1 .. n - 1 /\ i <= n /\ i # 1
          BY <4>2
        <5> QED BY <2>3, <5>1
      <4>3. CASE i = n + 1
        BY <1>f, <1>2, <4>3
      <4> QED BY <4>1, <4>2, <4>3
    <3>2. len = [i \in 1 .. n + 1 |-> len[i]]
      OBVIOUS
    <3> HIDE DEF len
    <3> QED BY <3>1, <3>2
  <2>8. ASSUME NEW i \in 2 .. n + 1
        PROVE  \E k \in Nat : segs[i] = Stream(base + len[i - 1], k) /\ len[i] = len[i - 1] + k
    <3>s. s \in Nat /\ buf.l_total - s \in Nat /\ base \in Int
      BY <1>f, <2>1
    <3>1. CASE i = 2
      <4>1. len[1] = s /\ i - 1 = 1
        BY <3>1
      <4>2. len[2] = buf.l_total
        <5>1. CASE n = 1
          BY <2>5, <5>1
        <5>2. CASE n > 1
          <6>1. len[2] = e(1) - base
            BY <5>2
          <6>2. (base + buf.l_total) - base = buf.l_total
            BY <1>f, <3>s
          <6> QED BY <2>4, <6>1, <6>2
        <5> QED BY <1>2, <5>1, <5>2
      <4>3. PICK k \in Nat : k = buf.l_total - s /\ buf.l_total = s + k
        BY <1>f, <3>s
      <4> QED BY <2>6, <3>1, <4>1, <4>2, <4>3
    <3>2. CASE i \in 3 .. n
      <4>1. PICK j \in 2 .. n - 1 : i = j + 1 /\ i - 1 = j
        BY <3>2
      <4>2. len[i] = e(j) - base /\ len[i - 1] = e(j - 1) - base
        BY <3>2, <4>1
      <4>3. PICK k \in Nat : k = Len(buf.raw[j]) /\ e(j) = e(j - 1) + k
        BY <2>3, <4>1
      <4>4. segs[i] = Stream(e(j - 1), k)
        BY <2>2, <2>6, <4>1, <4>3
      <4>5. PICK x \in Int : x = e(j - 1)
        BY <2>3, <4>1
      <4>6. base + (x - base) = x /\ (x + k) - base = (x - base) + k
        BY <3>s
      <4> QED BY <4>2, <4>3, <4>4, <4>5, <4>6
    <3>3. CASE i = n + 1 /\ n > 1
      <4>1. len[i] = buf.total /\ len[i - 1] = e(n - 1) - base
        BY <3>3
      <4>2. PICK x \in Int : x = e(n - 1) /\ at = x + buf.bndx
        BY <2>3, <2>5, <3>3
      <4>3. base + (x - base) = x /\ buf.total = (x - base) + buf.bndx
        BY <1>f, <4>2
      <4>4. segs[i] = Stream(x, buf.bndx)
        BY <2>6, <3>3, <4>2
      <4> QED BY <1>f, <4>1, <4>2, <4>3, <4>4
    <3>4. i = 2 \/ i \in 3 .. n \/ (i = n + 1 /\ n > 1)
      OBVIOUS
    <3> QED BY <3>1, <3>2, <3>3, <3>4
  <2>9. len[n + 1] = buf.total /\ len[1] = s
    BY <1>2
  <2> HIDE DEF len, base, s
  <2>10. n + 1 \in Nat \ {0} /\ base \in Int
    BY <1>f DEF base
  <2>11. Len(segs) = n + 1 /\ Follow(segs, base, len, n + 1)
    BY <2>6, <2>8, <2>9 DEF Follow
  <2>12. FlattenSeq(segs) = Stream(base, len[n + 1])
    BY <2>7, <2>10, <2>11, FlattenStream, Zenon
  <2> QED BY <2>9, <2>12 DEF base, segs
<1> QED BY <1>1, <1>2

LEMMA StreamEnd ==
  ASSUME NEW from \in Int, NEW len \in Nat, NEW n \in 0 .. len
  PROVE  SubSeq(Stream(from, len), n + 1, len) = Stream(from + n, len - n)
<1> DEFINE s == Stream(from, len)
<1>1. s \in Seq(Int) /\ \A i \in 1 .. len : s[i] = from + i - 1
  BY StreamType
<1> HIDE DEF s
<1>2. \A i \in n + 1 .. len : s[i] \in Int
  BY <1>1
<1>3. n + 1 \in Int /\ len \in Int /\ len - n \in Nat /\ from + n \in Int
  OBVIOUS
<1> DEFINE t == SubSeq(s, n + 1, len)
<1>4. /\ t \in Seq(Int) /\ Len(t) = (IF n + 1 <= len THEN len - (n + 1) + 1 ELSE 0)
      /\ \A i \in 1 .. len - (n + 1) + 1 : t[i] = s[(n + 1) + i - 1]
  BY <1>2, <1>3, SubSeqProperties
<1> HIDE DEF t
<1>5. Len(t) = len - n
  BY <1>4
<1>6. ASSUME NEW i \in 1 .. len - n PROVE t[i] = (from + n) + i - 1
  <2>1. i \in 1 .. len - (n + 1) + 1 /\ (n + 1) + i - 1 \in 1 .. len
    OBVIOUS
  <2>2. t[i] = s[(n + 1) + i - 1]
    BY <1>4, <2>1
  <2>3. s[(n + 1) + i - 1] = from + ((n + 1) + i - 1) - 1
    BY <1>1, <2>1
  <2>4. from + ((n + 1) + i - 1) - 1 = (from + n) + i - 1
    OBVIOUS
  <2> QED BY <2>2, <2>3, <2>4
<1> DEFINE m == len - n
           f == from + n
<1>7. m \in Nat /\ f \in Int /\ t \in Seq(Int) /\ Len(t) = m /\ \A i \in 1 .. m : t[i] = f + i - 1
  BY <1>3, <1>4, <1>5, <1>6
<1> HIDE DEF m, f
<1>8. t = Stream(f, m)
  BY <1>7, IsStream
<1> QED BY <1>8 DEF m, f, t, s

Queue == FlattenSeq(Segments(b))

LEMMA QueueIs ==
  ASSUME IInv
  PROVE  /\ Queue = Stream(pos - b.total, b.total)
         /\ pos \in Nat /\ b.total \in Nat
<1>1. b \in BufferType /\ Geometry(b) /\ Stored(b, pos) /\ pos \in Nat
  BY DEF IInv, Sound, KernelOK
<1>2. b.total \in Nat
  BY <1>1, Fields
<1> QED BY <1>1, <1>2, QueueIsStream DEF Queue

LEMMA QueueIsNext ==
  ASSUME IInv'
  PROVE  /\ Queue' = Stream(pos' - b'.total, b'.total)
         /\ pos' \in Nat /\ b'.total \in Nat
<1>1. b' \in BufferType /\ Geometry(b') /\ Stored(b', pos') /\ pos' \in Nat
  BY DEF IInv, Sound, KernelOK
<1>2. b'.total \in Nat
  BY <1>1, Fields
<1> QED BY <1>1, <1>2, QueueIsStream DEF Queue

\* The bytes at the front go, or bytes of the stream come in at the back.
DropsOnly == pos' = pos /\ b'.total <= b.total
ReadsOnly == pos' >= pos /\ pos' - b'.total = pos - b.total

LEMMA DropIsFifo ==
  ASSUME IInv, IInv', DropsOnly
  PROVE  Fifo!Drop \/ UNCHANGED <<Queue, pos>>
<1>1. /\ Queue = Stream(pos - b.total, b.total) /\ pos \in Nat /\ b.total \in Nat
  BY QueueIs
<1>2. /\ Queue' = Stream(pos' - b'.total, b'.total) /\ b'.total \in Nat
  BY QueueIsNext
<1>3. pos' = pos /\ b'.total <= b.total
  BY DEF DropsOnly
<1>4. PICK t \in Nat, u \in Nat : t = b.total /\ u = b'.total
  BY <1>1, <1>2
<1>5. u <= t /\ Queue = Stream(pos - t, t) /\ Queue' = Stream(pos - u, u)
  BY <1>1, <1>2, <1>3, <1>4
<1>6. CASE u = t
  BY <1>3, <1>5, <1>6
<1>7. CASE u # t
  <2>1. PICK n \in 1 .. t : n = t - u
    BY <1>5, <1>7
  <2>2. n \in 0 .. t /\ pos - t \in Int
    BY <1>1
  <2>3. SubSeq(Stream(pos - t, t), n + 1, t) = Stream((pos - t) + n, t - n)
    BY <2>2, StreamEnd
  <2>4. (pos - t) + n = pos - u /\ t - n = u
    BY <1>1, <2>1
  <2>5. Len(Stream(pos - t, t)) = t
    BY <2>2, StreamType
  <2>6. Len(Queue) = t
    BY <1>5, <2>5
  <2>7. Queue' = SubSeq(Queue, n + 1, t)
    BY <1>5, <2>3, <2>4
  <2>8. \E k \in 1 .. Len(Queue) : Queue' = SubSeq(Queue, k + 1, Len(Queue))
    BY <2>6, <2>7
  <2> QED BY <1>3, <2>8 DEF Fifo!Drop, Queue
<1> QED BY <1>6, <1>7

LEMMA ReadIsFifo ==
  ASSUME IInv, IInv', ReadsOnly
  PROVE  Fifo!Arrive \/ UNCHANGED <<Queue, pos>>
<1>1. /\ Queue = Stream(pos - b.total, b.total) /\ pos \in Nat /\ b.total \in Nat
  BY QueueIs
<1>2. /\ Queue' = Stream(pos' - b'.total, b'.total) /\ pos' \in Nat /\ b'.total \in Nat
  BY QueueIsNext
<1>3. pos' >= pos /\ pos' - b'.total = pos - b.total
  BY DEF ReadsOnly
<1>4. PICK t \in Nat, u \in Nat, x \in Nat, y \in Nat :
        t = b.total /\ u = b'.total /\ x = pos /\ y = pos'
  BY <1>1, <1>2
<1>5. y >= x /\ y - u = x - t /\ Queue = Stream(x - t, t) /\ Queue' = Stream(x - t, u)
  BY <1>1, <1>2, <1>3, <1>4
<1>6. CASE y = x
  BY <1>4, <1>5, <1>6
<1>7. CASE y # x
  <2>1. PICK k \in Nat : k = y - x
    BY <1>5
  <2>2. x - t \in Int /\ (x - t) + t = x /\ t + k = u
    BY <1>5, <2>1
  <2>3. Stream(x - t, t) \o Stream((x - t) + t, k) = Stream(x - t, t + k)
    BY <2>2, StreamGoesOn
  <2>4. Queue' = Queue \o Stream(x, k)
    BY <1>5, <2>2, <2>3
  <2>5. Stream(x, k) = [i \in 1 .. y - x |-> x + i - 1]
    BY <2>1 DEF Stream
  <2>6. y \in Nat /\ y > x
    BY <1>5, <1>7
  <2> QED BY <1>4, <2>4, <2>5, <2>6 DEF Fifo!Arrive, Queue
<1> QED BY <1>6, <1>7

-----------------------------------------------------------------------------
(* Every step lets bytes in or drops bytes *)

NotReading ==
  CallReader \/ CallConsumeSize \/ CallFlush \/ SetSkip \/ Clean \/ Peer \/ Cleaned
  \/ UNCHANGED vars

\* Only rdfl_clean drops bytes outside of b_consume_size.
LEMMA CallsDrop == ASSUME IInv, NotReading PROVE DropsOnly
<1>t. b \in BufferType /\ b.total \in Nat
  BY Fields DEF IInv, Sound
<1>1. CASE b' = b /\ pos' = pos
  BY <1>1, <1>t DEF DropsOnly
<1>2. CASE SetSkip
  <2>1. pos' = pos
    BY <1>2 DEF SetSkip
  <2>2. b' = b \/ \E v \in Counts : b' = [b EXCEPT !.skip = v]
    BY <1>2 DEF SetSkip
  <2>3. \A v : [b EXCEPT !.skip = v].total = b.total
    BY <1>t DEF BufferType
  <2>4. b'.total = b.total
    BY <2>2, <2>3, Zenon
  <2> QED BY <1>t, <2>1, <2>4 DEF DropsOnly
<1>3. CASE Clean
  <2>1. NullBuffer.total = 0
    BY DEF NullBuffer
  <2> QED BY <1>t, <1>3, <2>1 DEF Clean, DropsOnly
<1>4. CASE CallReader
  <2>1. UNCHANGED <<b, object, kernel, pos>>
    BY <1>4 DEF CallReader
  <2> QED BY <1>1, <2>1
<1>5. CASE CallConsumeSize
  BY <1>1, <1>5 DEF CallConsumeSize
<1>6. CASE CallFlush
  BY <1>1, <1>6 DEF CallFlush
<1>7. CASE Peer \/ Cleaned \/ UNCHANGED vars
  BY <1>1, <1>7 DEF Peer, PeerWrite, PeerClose, Cleaned, vars
<1> QED BY <1>2, <1>3, <1>4, <1>5, <1>6, <1>7 DEF NotReading

\* An iteration of b_consume_size drops what its value goes down by: its ledger
\* of what is left to drop tells.
LEMMA ConsumeDrops ==
  ASSUME IInv, IInv', ConsumeFirst \/ ConsumePart
  PROVE  DropsOnly
<1>1. /\ pc = "consume" /\ pc' = "consume" /\ pos' = pos /\ call \in CallType
      /\ call' \in CallType /\ b \in BufferType /\ b' \in BufferType
      /\ pos \in Nat
  BY DEF ConsumeFirst, ConsumePart, IInv, CallOK, Sound, KernelOK
<1>2. /\ pos - b.total = call.base + call.asked - call.value
      /\ pos' - b'.total = call'.base + call'.asked - call'.value
  BY <1>1 DEF IInv, Ledger
<1>3. /\ call.base \in Nat /\ call.asked \in Nat /\ call.value \in Nat /\ call'.value \in Nat
      /\ b.total \in Nat /\ b'.total \in Nat /\ b.l_total \in Nat
  BY <1>1, Fields DEF CallType
<1>4. call'.base = call.base /\ call'.asked = call.asked
  BY <1>1 DEF ConsumeFirst, ConsumePart, CallType
<1>5. call'.value <= call.value
  <2>1. CASE ConsumeFirst
    <3>1. call'.value = call.value - b.l_total
      BY <1>1, <2>1 DEF ConsumeFirst, CallType
    <3> QED BY <1>3, <3>1
  <2>2. CASE ConsumePart
    <3>1. call'.value = 0
      BY <1>1, <2>2 DEF ConsumePart, CallType
    <3> QED BY <1>3, <3>1
  <2> QED BY <2>1, <2>2
<1>6. PICK p \in Nat, t \in Nat, u \in Nat, x \in Nat, v \in Nat, w \in Nat, z \in Nat :
        /\ p = pos /\ t = b.total /\ u = b'.total /\ x = call.base /\ z = call.asked
        /\ v = call.value /\ w = call'.value
  BY <1>1, <1>3
<1>7. p - t = x + z - v /\ p - u = x + z - w /\ w <= v
  BY <1>1, <1>2, <1>4, <1>5, <1>6
<1>8. u <= t
  BY <1>7
<1> QED BY <1>1, <1>6, <1>8 DEF DropsOnly

\* The end of a call keeps the buffer, or frees it when it is empty.
LEMMA OtherStepsDrop ==
  ASSUME IInv, SizeNoMemory \/ SizeDone \/ AllavailNoMemory \/ ConsumeDone \/ FlushCopy \/ FlushDone
  PROVE  DropsOnly
<1>t. b \in BufferType /\ b.total \in Nat
  BY Fields DEF IInv, Sound
<1>1. CASE b' = b /\ pos' = pos
  BY <1>1, <1>t DEF DropsOnly
<1>2. CASE CleanIfFullempty /\ pos' = pos
  <2>1. NullBuffer.total = 0
    BY DEF NullBuffer
  <2>2. b' = b \/ b' = NullBuffer
    BY <1>2 DEF CleanIfFullempty, FullcleanIfEmpty
  <2> QED BY <1>t, <1>2, <2>1, <2>2 DEF DropsOnly
<1>3. CASE SizeNoMemory \/ SizeDone \/ AllavailNoMemory \/ FlushCopy
  BY <1>1, <1>3 DEF SizeNoMemory, SizeDone, AllavailNoMemory, FlushCopy
<1>4. CASE ConsumeDone \/ FlushDone
  BY <1>1, <1>2, <1>4 DEF ConsumeDone, FlushDone
<1> QED BY <1>3, <1>4

Reading ==
  SizeRead \/ AllavailRead \/ Singlestep \/ NoextendRead \/ MonitoringRead
  \/ MonitoringAllavailRead

\* A reader leaves the bytes at the front alone.
LEMMA ReadersKeepFront ==
  ASSUME IInv, Reading
  PROVE  pos' - b'.total = pos - b.total
<1>a. BuffSize \in Nat /\ BuffSize > 0
  BY ConstantTypes
<1>e. ASSUME UNCHANGED kernel, NEW buf \in Extended(BuffSize),
             NEW r \in ReadResults(BufferPtrSize(buf)), PushRead(buf, r)
      PROVE  pos' - b'.total = pos - b.total
  <2>1. BufferPtrSize(buf) \in Nat
    BY <1>a, ExtendedRoom
  <2>2. BufferPtrSize(buf) <= BufferPtrSize(buf)
    BY <2>1
  <2> QED BY <1>a, <1>e, <2>1, <2>2, ExtendedRead
<1>0. CASE b' = b /\ pos' = pos
  BY <1>0
<1>1. CASE SizeRead
  <2>1. UNCHANGED kernel /\ call.count > 0
    BY <1>1 DEF SizeRead
  <2>2. SizeAmount \in Nat /\ SizeAmount > 0 /\ call.count \in Nat
    BY <1>a, <2>1 DEF SizeAmount, IInv, CallOK, CallType
  <2>3. PICK buf \in Extended(SizeAmount) :
          \E s \in ReadResults(Min2(BufferPtrSize(buf), call.count)) : PushRead(buf, s)
    BY <1>1 DEF SizeRead
  <2>4. BufferPtrSize(buf) \in Nat
    BY <2>2, ExtendedRoom
  <2>5. /\ Min2(BufferPtrSize(buf), call.count) \in Nat
        /\ Min2(BufferPtrSize(buf), call.count) <= BufferPtrSize(buf)
    BY <2>2, <2>4 DEF Min2
  <2> QED BY <2>1, <2>2, <2>3, <2>5, ExtendedRead
<1>2. CASE AllavailRead
  BY <1>e, <1>2 DEF AllavailRead
<1>3. CASE Singlestep
  <2>1. UNCHANGED kernel
    BY <1>3 DEF Singlestep
  <2>2. CASE \E buf \in Extended(BuffSize) :
               \E r \in ReadResults(BufferPtrSize(buf)) : PushRead(buf, r)
    BY <1>e, <2>1, <2>2
  <2> QED BY <1>0, <1>3, <2>2 DEF Singlestep
<1>4. CASE NoextendRead
  <2>1. UNCHANGED kernel
    BY <1>4 DEF NoextendRead
  <2>2. CASE /\ BufferPtrSize(b) # 0
             /\ \E r \in ReadResults(BufferPtrSize(b)) : PushRead(b, r)
    BY <2>1, <2>2, PlainRead
  <2> QED BY <1>0, <1>4, <2>2 DEF NoextendRead
<1>5. CASE MonitoringRead
  <2>1. UNCHANGED kernel /\ \E r \in MonitoringResults :
                               Monitoring(call.op = "monitoring", r)
    BY <1>5 DEF MonitoringRead
  <2> QED BY <2>1, MonitoringReads
<1>6. CASE MonitoringAllavailRead
  <2>1. UNCHANGED kernel /\ \E r \in MonitoringResults : Monitoring(TRUE, r)
    BY <1>6 DEF MonitoringAllavailRead
  <2> QED BY <2>1, MonitoringReads
<1> QED BY <1>1, <1>2, <1>3, <1>4, <1>5, <1>6 DEF Reading

LEMMA ReadersRead == ASSUME IInv, Reading PROVE ReadsOnly
<1>1. pos' - b'.total = pos - b.total
  BY ReadersKeepFront
<1>2. UNCHANGED <<object, pos>> \/ \E r \in Int : ReadOutcome(r)
  BY BodyReads DEF Body, Reading
<1>3. pos \in Nat
  BY DEF IInv, KernelOK
<1>4. pos' >= pos
  BY <1>2, <1>3 DEF ReadOutcome
<1> QED BY <1>1, <1>4 DEF ReadsOnly

\* A step of the object is a step of the queue, or leaves the queue as it is.
LEMMA StepIsFifo ==
  ASSUME IInv, [Next]_vars
  PROVE  Fifo!Next \/ UNCHANGED <<Queue, pos>>
<1>1. IInv'
  BY StepIInv
<1>2. NotReading \/ Reading \/ ConsumeFirst \/ ConsumePart
      \/ SizeNoMemory \/ SizeDone \/ AllavailNoMemory \/ ConsumeDone \/ FlushCopy \/ FlushDone
  BY DEF Next, Calls, Body, NotReading, Reading
<1>3. DropsOnly \/ ReadsOnly
  BY <1>1, <1>2, CallsDrop, ConsumeDrops, OtherStepsDrop, ReadersRead
<1>4. CASE DropsOnly
  BY <1>1, <1>4, DropIsFifo DEF Fifo!Next
<1>5. CASE ReadsOnly
  BY <1>1, <1>5, ReadIsFifo DEF Fifo!Next
<1> QED BY <1>3, <1>4, <1>5

LEMMA InitIsFifo == Init => Fifo!Init
<1> SUFFICES ASSUME Init PROVE Fifo!Init
  OBVIOUS
<1>1. pos = 0 /\ IInv
  BY InitIInv DEF Init
<1>2. Queue = Stream(pos - b.total, b.total) /\ b.total \in Nat
  BY <1>1, QueueIs
<1>3. b.total <= pos
  BY <1>1 DEF IInv, Sound, Stored
<1>4. b.total = 0
  BY <1>1, <1>2, <1>3
<1>5. Stream(0 - 0, 0) = <<>>
  BY DEF Stream
<1> QED BY <1>1, <1>2, <1>4, <1>5 DEF Fifo!Init, Queue

\* Whatever the sizes of its reads, growths, partial consumptions and flushes, an
\* rdfl object is a queue of the bytes of its descriptor: what the iterator would
\* visit, piece by piece, only grows by the stream's next bytes at its end and
\* only shrinks at its front.
THEOREM ObjectIsQueue == Spec => ImplementsByteFifo
<1>1. ASSUME IInv, [Next]_vars PROVE Fifo!Next \/ UNCHANGED <<FlattenSeq(Segments(b)), pos>>
  BY <1>1, StepIsFifo DEF Queue
<1> QED BY <1>1, InitIsFifo, SpecIInv, PTL DEF Spec, ImplementsByteFifo, Fifo!Spec

=============================================================================
