---------------------------- MODULE BufferProofs ----------------------------
(***************************************************************************)
(* What each operator of Buffer does to a sound buffer, for every size of  *)
(* every chunk: it leaves it sound, with the counters the code expects.    *)
(***************************************************************************)
EXTENDS Buffer, TLAPS

USE MaxAllocAssumption

\* The % of b_consume_size meets an index of at most twice the ring's size.
LEMMA ModIsWrap ==
  ASSUME NEW n \in Nat, n > 0, NEW i \in 0 .. 2 * n - 1
  PROVE  i % n = Wrap(i, n)
  BY DEF Wrap

\* memset to 0 leaves a sound buffer, at any point of the stream.
LEMMA NullBufferSound ==
  ASSUME NEW pos \in Nat
  PROVE  /\ NullBuffer \in BufferType
         /\ Geometry(NullBuffer) /\ Stored(NullBuffer, pos)
  BY DEF NullBuffer, BufferType, Geometry, Stored, Chunk, Single

LEMMA Fields ==
  ASSUME NEW b \in BufferType
  PROVE  /\ b.bndx \in Nat /\ b.cndx \in Nat /\ b.skip \in Nat
         /\ b.l_total \in Nat /\ b.total \in Nat
         /\ b.raw \in Seq(Seq(Int)) /\ Len(b.raw) \in Nat
         /\ b.raw = <<>> <=> Len(b.raw) < 1
         /\ \A k \in 1 .. Len(b.raw) : b.raw[k] \in Seq(Int) /\ Len(b.raw[k]) \in Nat
  BY DEF BufferType, Chunk

LEMMA ChunkSizes ==
  ASSUME NEW b \in BufferType, Geometry(b), Len(b.raw) > 0
  PROVE  /\ Len(FirstChunk(b)) \in Nat \ {0} /\ Len(LastChunk(b)) \in Nat \ {0}
         /\ Single(b) => LastChunk(b) = FirstChunk(b)
<1>1. Len(b.raw) \in Nat /\ Len(b.raw) > 0
  BY Fields
<1> QED BY <1>1 DEF Geometry, FirstChunk, LastChunk, Single

\* b_buffer_ptr finds no room only at a full ring or a full last chunk.
LEMMA NoRoomMeansFull ==
  ASSUME NEW b \in BufferType, Geometry(b), Len(b.raw) > 0
  PROVE  /\ BufferPtrSize(b) \in Nat
         /\ BufferPtrSize(b) = 0 <=>
              Len(LastChunk(b)) = IF Single(b) THEN b.l_total ELSE b.bndx
<1>1. /\ Len(FirstChunk(b)) \in Nat \ {0} /\ Len(LastChunk(b)) \in Nat \ {0}
      /\ Single(b) => LastChunk(b) = FirstChunk(b)
  BY ChunkSizes
<1>2. /\ b.bndx \in Nat /\ b.cndx \in Nat /\ b.l_total \in Nat
      /\ Len(b.raw) \in Nat /\ Len(b.raw) > 0
  BY Fields
<1>3. CASE Single(b)
  <2>1. /\ b.cndx < Len(FirstChunk(b)) /\ b.l_total <= Len(FirstChunk(b))
        /\ b.bndx = IF b.l_total = 0 THEN 0
                    ELSE Wrap(b.cndx + b.l_total, Len(FirstChunk(b)))
        /\ b.l_total = 0 => b.cndx = 0
    BY <1>2, <1>3 DEF Geometry
  <2>2. BufferPtrSize(b) = IF b.cndx < b.bndx \/ b.l_total = 0
          THEN Len(FirstChunk(b)) - b.bndx
          ELSE IF b.cndx = b.bndx THEN 0 ELSE b.cndx - b.bndx
    BY <1>1, <1>3, Fields DEF BufferPtrSize
  <2> QED BY <1>1, <1>2, <1>3, <2>1, <2>2 DEF Wrap
<1>4. CASE ~Single(b)
  <2>1. b.bndx <= Len(LastChunk(b)) /\ Len(b.raw) > 1
    BY <1>2, <1>4 DEF Geometry, Single
  <2>2. BufferPtrSize(b) = Len(LastChunk(b)) - b.bndx
    BY <1>4, Fields DEF BufferPtrSize
  <2> QED BY <1>1, <1>2, <1>4, <2>1, <2>2
<1> QED BY <1>3, <1>4

LEMMA EndOffsetIsInt ==
  ASSUME NEW b \in BufferType, NEW pos \in Nat, Geometry(b), NEW k \in 1 .. Len(b.raw)
  PROVE  EndOffset(b, k, pos) \in Int
<1>1. Len(b.raw[k]) \in 1 .. MaxAlloc /\ b.raw[k] \in Seq(Int)
  BY Fields DEF Geometry
<1>2. Cell(b.raw[k], 0) \in Int
  BY <1>1 DEF Cell
<1> QED BY <1>1, <1>2, Fields, SMTT(30) DEF EndOffset

\* What add_buffer does to the fields: a first chunk, or one more at the end.
LEMMA AddBufferFields ==
  ASSUME NEW b \in BufferType, NEW amount \in 1 .. MaxAlloc,
         NEW n \in Nat, n = Len(b.raw)
  PROVE  LET c == AddBuffer(b, amount) IN
         /\ c \in BufferType /\ c.bndx = 0 /\ c.skip = b.skip
         /\ Len(c.raw) = n + 1 /\ Len(c.raw[n + 1]) = amount
         /\ \A k \in 1 .. n : c.raw[k] = b.raw[k]
         /\ n < 1 => c.cndx = 0 /\ c.l_total = 0 /\ c.total = 0
         /\ n > 0 => c.cndx = b.cndx /\ c.l_total = b.l_total /\ c.total = b.total
<1> DEFINE new == NewChunk(amount)
<1>1. new \in Chunk /\ Len(new) = amount
  BY DEF NewChunk, Chunk, Junk
<1>2. b.raw \in Seq(Chunk) /\ (b.raw = <<>> <=> Len(b.raw) < 1)
  BY DEF BufferType
<1> HIDE DEF new
<1>3. CASE n < 1
  <2>1. AddBuffer(b, amount) =
          [b EXCEPT !.raw = <<new>>, !.bndx = 0, !.cndx = 0, !.total = 0, !.l_total = 0]
    BY <1>2, <1>3 DEF AddBuffer, AddBufferFirst, new
  <2>2. /\ <<new>> \in Seq(Chunk) /\ Len(<<new>>) = n + 1 /\ <<new>>[n + 1] = new
    BY <1>1, <1>3
  <2> DEFINE c == [b EXCEPT !.raw = <<new>>, !.bndx = 0, !.cndx = 0, !.total = 0,
                            !.l_total = 0]
  <2>3. /\ c \in BufferType /\ c.raw = <<new>> /\ c.bndx = 0 /\ c.skip = b.skip
        /\ c.cndx = 0 /\ c.l_total = 0 /\ c.total = 0
    BY <2>2 DEF BufferType
  <2> HIDE DEF c
  <2>4. AddBuffer(b, amount) = c
    BY <2>1 DEF c
  <2>5. /\ Len(c.raw) = n + 1 /\ Len(c.raw[n + 1]) = amount
        /\ \A k \in 1 .. n : c.raw[k] = b.raw[k]
    BY <1>1, <1>3, <2>2, <2>3
  <2>6. ~(n > 0)
    BY <1>3
  <2> QED BY <2>3, <2>4, <2>5, <2>6, Zenon
<1>4. CASE n > 0
  <2>1. AddBuffer(b, amount) = [b EXCEPT !.raw = Append(b.raw, new), !.bndx = 0]
    BY <1>2, <1>4 DEF AddBuffer, AddBufferLast, new
  <2>2. /\ Append(b.raw, new) \in Seq(Chunk)
        /\ Len(Append(b.raw, new)) = Len(b.raw) + 1
        /\ Append(b.raw, new)[Len(b.raw) + 1] = new
        /\ \A k \in 1 .. Len(b.raw) : Append(b.raw, new)[k] = b.raw[k]
    BY <1>1, <1>2
  <2> DEFINE c == [b EXCEPT !.raw = Append(b.raw, new), !.bndx = 0]
  <2>3. /\ c \in BufferType /\ c.raw = Append(b.raw, new) /\ c.bndx = 0 /\ c.skip = b.skip
        /\ c.cndx = b.cndx /\ c.l_total = b.l_total /\ c.total = b.total
    BY <2>2 DEF BufferType
  <2> HIDE DEF c
  <2>4. AddBuffer(b, amount) = c
    BY <2>1 DEF c
  <2> QED BY <1>1, <1>4, <2>2, <2>3, <2>4
<1> QED BY <1>3, <1>4

LEMMA AddBufferSound ==
  ASSUME NEW b \in BufferType, NEW pos \in Nat, Geometry(b), Stored(b, pos),
         BufferPtrSize(b) = 0, NEW amount \in 1 .. MaxAlloc
  PROVE  LET c == AddBuffer(b, amount) IN
         /\ c \in BufferType /\ Geometry(c) /\ Stored(c, pos)
         /\ Len(c.raw) > 0 /\ c.total = b.total /\ c.skip = b.skip
         /\ BufferPtrSize(c) = amount
<1> DEFINE c == AddBuffer(b, amount)
<1>n. PICK n \in Nat : n = Len(b.raw)
  BY Fields
<1>0. /\ n \in Nat /\ n = Len(b.raw)
      /\ c \in BufferType /\ c.bndx = 0 /\ c.skip = b.skip
      /\ Len(c.raw) = n + 1 /\ Len(c.raw[n + 1]) = amount
      /\ \A k \in 1 .. n : c.raw[k] = b.raw[k]
      /\ n < 1 => c.cndx = 0 /\ c.l_total = 0 /\ c.total = 0
      /\ n > 0 => c.cndx = b.cndx /\ c.l_total = b.l_total /\ c.total = b.total
  BY <1>n, AddBufferFields, Fields, SMTT(30)
<1>f. Len(LastChunk(c)) = amount
  BY <1>0 DEF LastChunk
<1> HIDE DEF c
<1>1. CASE n < 1
  <2>1. Len(c.raw) <= 1 /\ FirstChunk(c) = LastChunk(c)
    BY <1>0, <1>1 DEF FirstChunk, LastChunk
  <2>2. Geometry(c)
    BY <1>0, <1>1, <1>f, <2>1 DEF Geometry, Single
  <2>3. Stored(c, pos)
    BY <1>0, <1>1, <2>1 DEF Stored
  <2>4. BufferPtrSize(c) = amount
    BY <1>0, <1>1, <1>f, <2>1, Fields DEF BufferPtrSize, Single
  <2>5. b.total = 0
    BY <1>n, <1>1, Fields DEF Geometry, Single
  <2> QED BY <1>0, <1>1, <2>2, <2>3, <2>4, <2>5 DEF c
<1>2. CASE n > 0
  <2>3. Len(LastChunk(b)) = IF Single(b) THEN b.l_total ELSE b.bndx
    BY <1>n, <1>2, NoRoomMeansFull
  <2>1. FirstChunk(c) = FirstChunk(b) /\ ~Single(c)
    BY <1>0, <1>2 DEF FirstChunk, Single
  <2>2. /\ b.l_total \in Nat /\ b.bndx \in Nat /\ b.cndx \in Nat /\ b.total \in Nat
        /\ b.l_total > 0
    <3>1. Len(LastChunk(b)) \in Nat \ {0}
      BY <1>n, <1>2, ChunkSizes
    <3> QED BY <1>n, <1>2, <2>3, <3>1, Fields DEF Geometry, Single
  <2>4. Geometry(c)
    <3>1. ASSUME NEW k \in 1 .. Len(c.raw)
          PROVE  Len(c.raw[k]) \in 1 .. MaxAlloc
      <4>1. CASE k <= n
        BY <1>0, <4>1, SMTT(30) DEF Geometry
      <4>2. CASE k = n + 1
        BY <1>0, <4>2
      <4> QED BY <1>0, <4>1, <4>2
    <3> QED BY <1>0, <1>2, <1>f, <2>1, <2>2, <3>1 DEF Geometry
  <2>c. BufferPtrSize(c) = amount
    BY <1>0, <1>2, <1>f, <2>1, Fields DEF BufferPtrSize
  <2>5. \A k \in 1 .. n - 1 : EndOffset(c, k, pos) = EndOffset(b, k, pos)
    BY <1>0, <1>2, SMTT(30) DEF EndOffset
  <2>6. EndOffset(c, n, pos) = pos
    <3>1. CASE n <= 1
      <4>1. b.total = b.l_total
        BY <1>n, <3>1 DEF Geometry, Single
      <4>2. n = 1
        BY <1>2, <3>1
      <4>3. EndOffset(c, n, pos) = pos - c.total + c.l_total
        BY ONLY <4>2 DEF EndOffset
      <4> QED BY <1>0, <1>2, <2>2, <4>1, <4>3
    <3>2. CASE n > 1
      <4>1. b.bndx = Len(b.raw[n]) /\ Len(b.raw[n]) \in Nat \ {0}
        BY <1>0, <3>2, <2>3, ChunkSizes DEF LastChunk, Single
      <4>2. Cell(b.raw[n], 0) = EndOffset(b, n - 1, pos) + 0
        BY <1>0, <3>2, <4>1 DEF Stored, LastChunk
      <4>3. pos = EndOffset(b, n - 1, pos) + Len(b.raw[n])
        BY <1>0, <3>2, <4>1 DEF Stored
      <4>4. EndOffset(b, n - 1, pos) \in Int
        BY <1>0, <3>2, EndOffsetIsInt
      <4>5. EndOffset(c, n, pos) = Cell(b.raw[n], 0) + Len(b.raw[n])
        BY <1>0, <3>2 DEF EndOffset
      <4> QED BY <4>1, <4>2, <4>3, <4>4, <4>5
    <3> QED BY <1>0, <3>1, <3>2
  <2>7. Stored(c, pos)
    <3>1. ASSUME NEW k \in 1 .. Len(c.raw) - 1
          PROVE  EndOffset(c, k, pos) <= pos
      <4>1. CASE k < n
        BY <1>0, <2>5, <4>1, SMTT(30) DEF Stored
      <4>2. CASE k = n
        BY <2>6, <4>2
      <4> QED BY <1>0, <4>1, <4>2
    <3>4. c.total <= pos
      BY <1>0, <1>2 DEF Stored
    <3>2. \A i \in 0 .. c.l_total - 1 :
            Cell(FirstChunk(c), Wrap(c.cndx + i, Len(FirstChunk(c)))) = pos - c.total + i
      BY <1>0, <1>2, <2>1 DEF Stored
    <3>3. ASSUME NEW k \in 2 .. n, NEW i \in 0 .. Len(c.raw[k]) - 1
          PROVE  Cell(c.raw[k], i) = EndOffset(c, k - 1, pos) + i
      <4>0. /\ c.raw[k] = b.raw[k] /\ k - 1 \in 1 .. n - 1
            /\ EndOffset(c, k - 1, pos) = EndOffset(b, k - 1, pos)
        <5>1. k \in 1 .. n /\ k - 1 \in 1 .. n - 1
          BY <1>0
        <5> QED BY <1>0, <2>5, <5>1
      <4>1. CASE k < n
        <5>1. k \in 2 .. Len(b.raw) - 1 /\ i \in 0 .. Len(b.raw[k]) - 1
          BY <1>0, <4>0, <4>1
        <5>2. Cell(b.raw[k], i) = EndOffset(b, k - 1, pos) + i
          BY <5>1 DEF Stored
        <5> QED BY <4>0, <5>2
      <4>2. CASE k = n
        BY <1>0, <2>3, <4>0, <4>2 DEF Stored, LastChunk, Single
      <4> QED BY <1>0, <4>1, <4>2
    <3> QED BY <1>0, <1>2, <2>6, <3>1, <3>2, <3>3, <3>4 DEF Stored
  <2> QED BY <1>0, <1>2, <2>4, <2>7, <2>c DEF c
<1> QED BY <1>0, <1>1, <1>2

-----------------------------------------------------------------------------

\* The ring's arithmetic: s cells, of which l from cndx on are unread, written at
\* bndx; the room that b_buffer_ptr finds; where the writing end goes.
Ring(cndx, bndx, l, s) ==
  /\ cndx < s /\ l <= s
  /\ l = 0 => bndx = 0 /\ cndx = 0
  /\ l > 0 => bndx = Wrap(cndx + l, s)

Room(cndx, bndx, l, s) ==
  IF cndx < bndx \/ l = 0 THEN s - bndx ELSE IF cndx = bndx THEN 0 ELSE cndx - bndx

NextIndex(i, s) == IF i = s THEN 0 ELSE i

\* Writing nb bytes in that room keeps the ring, ...
LEMMA RingGrows ==
  ASSUME NEW s \in Nat, NEW cndx \in Nat, NEW l \in Nat, NEW bndx \in Nat, NEW nb \in Nat,
         Ring(cndx, bndx, l, s), nb <= Room(cndx, bndx, l, s)
  PROVE  /\ bndx < s /\ bndx + nb <= s
         /\ NextIndex(bndx + nb, s) \in Nat /\ NextIndex(bndx + nb, s) <= s
         /\ Ring(cndx, NextIndex(bndx + nb, s), l + nb, s)
  BY DEF Wrap, Ring, Room, NextIndex

\* ... overwrites none of its l bytes and puts the others behind them: w is the
\* index of the i-th byte of the grown ring.
Lands(w, i, l, bndx, nb, s) ==
  /\ w \in 0 .. s - 1
  /\ i < l => ~(bndx <= w /\ w < bndx + nb)
  /\ i >= l => bndx <= w /\ w < bndx + nb /\ w - bndx = i - l

LEMMA RingWindow ==
  ASSUME NEW s \in Nat, NEW cndx \in Nat, NEW l \in Nat, NEW bndx \in Nat, NEW nb \in Nat,
         Ring(cndx, bndx, l, s), nb <= Room(cndx, bndx, l, s), NEW i \in Nat, i < l + nb
  PROVE  Lands(Wrap(cndx + i, s), i, l, bndx, nb, s)
  BY DEF Wrap, Ring, Room, Lands

\* What push_read does to the n chunks and their counters: nb bytes of the stream
\* in the last chunk, from buffer.ndx on, and the counters moved on by nb.
Written(b, c, n, nb, pos) ==
  /\ Len(c.raw) = n
  /\ \A k \in 1 .. n - 1 : c.raw[k] = b.raw[k]
  /\ Len(c.raw[n]) = Len(b.raw[n])
  /\ \A i \in 0 .. Len(b.raw[n]) - 1 :
       /\ b.bndx <= i /\ i < b.bndx + nb => Cell(c.raw[n], i) = pos + (i - b.bndx)
       /\ ~(b.bndx <= i /\ i < b.bndx + nb) => Cell(c.raw[n], i) = Cell(b.raw[n], i)

Counted(b, c, n, nb) ==
  /\ c.cndx = b.cndx /\ c.skip = b.skip /\ c.total = b.total + nb
  /\ n <= 1 => /\ c.l_total = b.l_total + nb
               /\ c.bndx = NextIndex(b.bndx + nb, Len(b.raw[n]))
  /\ n > 1 => c.l_total = b.l_total /\ c.bndx = b.bndx + nb

LEMMA PushBytesFields ==
  ASSUME NEW b \in BufferType, NEW nb \in Nat, NEW pos \in Nat,
         NEW n \in Nat, n = Len(b.raw), n > 0
  PROVE  /\ PushBytes(b, nb, pos) \in BufferType
         /\ Written(b, PushBytes(b, nb, pos), n, nb, pos)
         /\ Counted(b, PushBytes(b, nb, pos), n, nb)
<1> DEFINE new == [i \in 1 .. Len(b.raw[n]) |->
                     IF i - 1 \in b.bndx .. b.bndx + nb - 1 THEN pos + (i - 1 - b.bndx)
                     ELSE b.raw[n][i]]
           raw == [b.raw EXCEPT ![n] = new]
           d == [b EXCEPT !.raw = raw]
           c == [d EXCEPT !.l_total = IF n <= 1 THEN @ + nb ELSE @,
                          !.total = @ + nb,
                          !.bndx = IF @ + nb = Len(b.raw[n]) /\ n <= 1 THEN 0 ELSE @ + nb]
<1>1. /\ b.raw \in Seq(Chunk) /\ b.raw[n] \in Seq(Int) /\ Len(b.raw[n]) \in Nat
      /\ b.bndx \in Nat
  BY DEF BufferType, Chunk
<1>2. /\ new \in Chunk /\ Len(new) = Len(b.raw[n])
      /\ \A i \in 0 .. Len(b.raw[n]) - 1 :
           /\ b.bndx <= i /\ i < b.bndx + nb => Cell(new, i) = pos + (i - b.bndx)
           /\ ~(b.bndx <= i /\ i < b.bndx + nb) => Cell(new, i) = Cell(b.raw[n], i)
  <2>1. PICK m \in Nat : m = Len(b.raw[n])
    BY <1>1
  <2>2. ASSUME NEW i \in 1 .. m
        PROVE  (IF i - 1 \in b.bndx .. b.bndx + nb - 1 THEN pos + (i - 1 - b.bndx)
                ELSE b.raw[n][i]) \in Int
    BY <1>1, <2>1, SMTT(30)
  <2>3. new \in Seq(Int) /\ Len(new) = m
    BY <2>1, <2>2
  <2>4. ASSUME NEW i \in 0 .. m - 1
        PROVE  new[i + 1] = IF b.bndx <= i /\ i < b.bndx + nb
                            THEN pos + (i - b.bndx) ELSE b.raw[n][i + 1]
    <3>1. i + 1 \in 1 .. m /\ (i + 1) - 1 = i
      OBVIOUS
    <3>2. new[i + 1] = IF (i + 1) - 1 \in b.bndx .. b.bndx + nb - 1
                       THEN pos + ((i + 1) - 1 - b.bndx) ELSE b.raw[n][i + 1]
      BY <2>1, <3>1
    <3>3. i \in b.bndx .. b.bndx + nb - 1 <=> b.bndx <= i /\ i < b.bndx + nb
      BY <1>1
    <3> QED BY <1>1, <3>1, <3>2, <3>3
  <2> HIDE DEF new
  <2> QED BY <2>1, <2>3, <2>4 DEF Chunk, Cell
<1>3. Store(b, nb, pos) = d
  BY <1>1 DEF Store
<1> HIDE DEF new
<1>4. /\ raw \in Seq(Chunk) /\ Len(raw) = n /\ raw[n] = new
      /\ \A k \in 1 .. n - 1 : raw[k] = b.raw[k]
  BY <1>1, <1>2
<1> HIDE DEF raw
<1>5. /\ d \in BufferType /\ d.raw = raw /\ d.bndx = b.bndx /\ d.cndx = b.cndx
      /\ d.skip = b.skip /\ d.l_total = b.l_total /\ d.total = b.total
  BY <1>4 DEF BufferType
<1>6. LastChunk(d) = new /\ (Single(d) <=> n <= 1)
  BY <1>4, <1>5 DEF LastChunk, Single
<1> HIDE DEF d
<1>7. AddSize(d, nb) = c
  BY <1>2, <1>6 DEF AddSize
<1>8. /\ c \in BufferType /\ c.raw = raw
      /\ c.cndx = b.cndx /\ c.skip = b.skip /\ c.total = b.total + nb
      /\ n <= 1 => /\ c.l_total = b.l_total + nb
                   /\ c.bndx = NextIndex(b.bndx + nb, Len(b.raw[n]))
      /\ n > 1 => c.l_total = b.l_total /\ c.bndx = b.bndx + nb
  <2>1. /\ (IF n <= 1 THEN d.l_total + nb ELSE d.l_total) \in Nat
        /\ (IF d.bndx + nb = Len(b.raw[n]) /\ n <= 1 THEN 0 ELSE d.bndx + nb) \in Nat
        /\ d.total + nb \in Nat
    BY <1>5, SMTT(30) DEF BufferType
  <2>2. /\ c \in BufferType /\ c.raw = raw
        /\ c.cndx = b.cndx /\ c.skip = b.skip /\ c.total = b.total + nb
        /\ c.l_total = IF n <= 1 THEN b.l_total + nb ELSE b.l_total
        /\ c.bndx = IF b.bndx + nb = Len(b.raw[n]) /\ n <= 1 THEN 0 ELSE b.bndx + nb
    BY <1>5, <2>1 DEF BufferType
  <2> HIDE DEF c
  <2> QED BY <2>2 DEF NextIndex
<1> HIDE DEF c
<1>9. PushBytes(b, nb, pos) = c
  BY <1>3, <1>7 DEF PushBytes
<1>10. Written(b, c, n, nb, pos)
  BY <1>2, <1>4, <1>8, Zenon DEF Written
<1>11. Counted(b, c, n, nb)
  BY <1>8, Zenon DEF Counted
<1> QED BY <1>8, <1>9, <1>10, <1>11, Zenon

LEMMA PushBytesSound ==
  ASSUME NEW b \in BufferType, NEW pos \in Nat, Geometry(b), Stored(b, pos),
         Len(b.raw) > 0, NEW nb \in 0 .. BufferPtrSize(b)
  PROVE  LET c == PushBytes(b, nb, pos) IN
         /\ c \in BufferType /\ Geometry(c) /\ Stored(c, pos + nb)
         /\ c.total = b.total + nb /\ c.skip = b.skip /\ Len(c.raw) = Len(b.raw)
<1> DEFINE c == PushBytes(b, nb, pos)
<1>n. PICK n \in Nat : n = Len(b.raw)
  BY Fields
<1>p. n \in Nat /\ n > 0
  BY <1>n
<1>m. PICK m \in Nat : m = Len(b.raw[n]) /\ m > 0 /\ m <= MaxAlloc
  <2>1. Len(b.raw[n]) \in 1 .. MaxAlloc
    BY <1>n, <1>p DEF Geometry
  <2> QED BY <2>1, MaxAllocAssumption
<1>0. /\ b.bndx \in Nat /\ b.cndx \in Nat /\ b.l_total \in Nat /\ b.total \in Nat
      /\ b.raw # <<>> /\ BufferPtrSize(b) \in Nat /\ nb \in Nat
  BY <1>n, <1>p, Fields, NoRoomMeansFull
<1>q. /\ b.bndx \in Nat /\ b.cndx \in Nat /\ b.l_total \in Nat /\ b.total \in Nat
      /\ nb \in Nat
  BY <1>0
<1>c. c \in BufferType /\ Written(b, c, n, nb, pos) /\ Counted(b, c, n, nb)
  BY <1>n, <1>p, <1>q, PushBytesFields
<1> HIDE DEF c
<1>1. Len(c.raw) = n /\ \A k \in 1 .. n - 1 : c.raw[k] = b.raw[k]
  BY <1>c DEF Written
<1>w. /\ Len(c.raw[n]) = m
      /\ \A i \in 0 .. m - 1 :
           /\ b.bndx <= i /\ i < b.bndx + nb => Cell(c.raw[n], i) = pos + (i - b.bndx)
           /\ ~(b.bndx <= i /\ i < b.bndx + nb) => Cell(c.raw[n], i) = Cell(b.raw[n], i)
  BY <1>c, <1>m, Zenon DEF Written
<1>k. /\ c.cndx = b.cndx /\ c.skip = b.skip /\ c.total = b.total + nb
      /\ n <= 1 => c.l_total = b.l_total + nb /\ c.bndx = NextIndex(b.bndx + nb, m)
      /\ n > 1 => c.l_total = b.l_total /\ c.bndx = b.bndx + nb
  BY <1>c, <1>m, Zenon DEF Counted
<1>2. LastChunk(b) = b.raw[n] /\ LastChunk(c) = c.raw[n]
  BY <1>n, <1>1 DEF LastChunk
<1>3. ASSUME NEW k \in 1 .. Len(c.raw)
      PROVE  Len(c.raw[k]) \in 1 .. MaxAlloc
  <2>1. CASE k <= n - 1
    <3>1. k \in 1 .. n - 1 /\ k \in 1 .. n
      BY <1>p, <1>1, <2>1
    <3> QED BY <1>n, <1>1, <3>1 DEF Geometry
  <2>2. CASE k = n
    BY <1>m, <1>1, <1>w, <2>2
  <2> QED BY <1>1, <2>1, <2>2
<1>4. CASE n <= 1
  <2>0. n = 1
    BY <1>p, <1>4
  <2>1. FirstChunk(b) = b.raw[n] /\ FirstChunk(c) = c.raw[n]
    BY <2>0 DEF FirstChunk
  <2>2. Ring(b.cndx, b.bndx, b.l_total, m) /\ b.total = b.l_total
    BY <1>n, <1>p, <1>m, <1>4, <2>1 DEF Geometry, Single, Ring
  <2>3. nb <= Room(b.cndx, b.bndx, b.l_total, m)
    BY <1>n, <1>m, <1>0, <1>2, <1>4 DEF BufferPtrSize, Single, Room
  <2>4. /\ c.l_total = b.l_total + nb /\ c.total = c.l_total
        /\ c.bndx = NextIndex(b.bndx + nb, m)
    BY <1>q, <1>k, <1>4, <2>2
  <2>5. Geometry(c)
    <3>1. Ring(c.cndx, c.bndx, c.l_total, m) /\ c.bndx <= m
      <4>1. /\ NextIndex(b.bndx + nb, m) <= m
            /\ Ring(b.cndx, NextIndex(b.bndx + nb, m), b.l_total + nb, m)
        BY <1>q, <2>2, <2>3, RingGrows
      <4> QED BY <1>k, <2>4, <4>1, Zenon
    <3> QED
      BY <1>p, <1>1, <1>c, <1>w, <1>2, <1>3, <1>4, <2>1, <2>4, <3>1 DEF Geometry, Single, Ring
  <2>6. ASSUME NEW i \in 0 .. b.l_total + nb - 1
        PROVE  Cell(c.raw[n], Wrap(c.cndx + i, m)) = (pos + nb) - c.total + i
    <3> DEFINE w == Wrap(b.cndx + i, m)
    <3>0. /\ w \in 0 .. m - 1 /\ c.cndx = b.cndx
          /\ i < b.l_total => ~(b.bndx <= w /\ w < b.bndx + nb)
          /\ i >= b.l_total => /\ b.bndx <= w /\ w < b.bndx + nb
                               /\ w - b.bndx = i - b.l_total
      <4>1. i \in Nat /\ i < b.l_total + nb
        BY <1>q
      <4>2. Lands(w, i, b.l_total, b.bndx, nb, m)
        BY <1>q, <2>2, <2>3, <4>1, RingWindow
      <4> QED BY <1>k, <4>2, Zenon DEF Lands
    <3>c. /\ b.bndx <= w /\ w < b.bndx + nb => Cell(c.raw[n], w) = pos + (w - b.bndx)
          /\ ~(b.bndx <= w /\ w < b.bndx + nb) => Cell(c.raw[n], w) = Cell(b.raw[n], w)
      BY <1>w, <3>0
    <3>1. CASE i < b.l_total
      <4>1. Cell(b.raw[n], w) = pos - b.total + i
        BY <1>n, <1>m, <1>0, <2>1, <3>1 DEF Stored
      <4>2. Cell(c.raw[n], w) = Cell(b.raw[n], w)
        BY <3>0, <3>c, <3>1
      <4>3. (pos + nb) - c.total + i = pos - b.total + i
        BY <1>q, <1>k
      <4> QED BY <3>0, <4>1, <4>2, <4>3
    <3>2. CASE i >= b.l_total
      <4>2. b.bndx <= w /\ w < b.bndx + nb /\ w - b.bndx = i - b.l_total
        BY <3>0, <3>2
      <4>3. Cell(c.raw[n], w) = pos + (w - b.bndx)
        BY <3>c, <4>2
      <4>4. (pos + nb) - c.total + i = pos + (i - b.l_total)
        BY <1>q, <1>k, <2>2
      <4> QED BY <3>0, <4>2, <4>3, <4>4
    <3> QED BY <1>q, <3>1, <3>2
  <2>7. Stored(c, pos + nb)
    <3>1. c.total <= pos + nb
      BY <1>q, <1>k DEF Stored
    <3>2. \A i \in 0 .. c.l_total - 1 :
            Cell(FirstChunk(c), Wrap(c.cndx + i, Len(FirstChunk(c)))) = (pos + nb) - c.total + i
      <4>1. Len(FirstChunk(c)) = m
        BY <1>w, <2>1, Zenon
      <4>2. ASSUME NEW i \in 0 .. c.l_total - 1
            PROVE  Cell(FirstChunk(c), Wrap(c.cndx + i, m)) = (pos + nb) - c.total + i
        <5>1. i \in 0 .. b.l_total + nb - 1
          BY <1>q, <2>4
        <5> QED BY <2>1, <2>6, <5>1, Zenon
      <4> QED BY <4>1, <4>2, Zenon
    <3> QED BY <1>1, <1>4, <3>1, <3>2 DEF Stored
  <2> QED BY <1>n, <1>1, <1>c, <1>k, <2>5, <2>7 DEF c
<1>5. CASE n > 1
  <2>1. FirstChunk(c) = FirstChunk(b)
    BY <1>1, <1>5 DEF FirstChunk
  <2>2. b.bndx + nb <= m /\ c.bndx = b.bndx + nb
    BY <1>n, <1>m, <1>0, <1>k, <1>2, <1>5 DEF BufferPtrSize, Single
  <2>3. Geometry(c)
    <3>1. /\ b.cndx < Len(FirstChunk(b)) /\ b.l_total <= Len(FirstChunk(b))
          /\ b.l_total > 0
      BY <1>n, <1>5 DEF Geometry
    <3>2. /\ c.cndx < Len(FirstChunk(c)) /\ c.l_total <= Len(FirstChunk(c))
          /\ c.l_total > 0
      BY <1>k, <1>5, <2>1, <3>1, Zenon
    <3>3. c.bndx <= Len(LastChunk(c))
      BY <1>w, <1>2, <2>2, Zenon
    <3> QED BY <1>p, <1>1, <1>3, <1>5, <3>2, <3>3 DEF Geometry, Single
  <2>4. ASSUME NEW k \in 1 .. n - 1
        PROVE  EndOffset(c, k, pos + nb) = EndOffset(b, k, pos)
    <3>1. c.l_total = b.l_total /\ c.total = b.total + nb
      BY <1>k, <1>5
    <3>2. c.raw[k] = b.raw[k]
      BY <1>1
    <3>3. CASE k = 1
      <4>1. EndOffset(b, k, pos) = pos - b.total + b.l_total
        BY ONLY <3>3 DEF EndOffset
      <4>2. EndOffset(c, k, pos + nb) = (pos + nb) - c.total + c.l_total
        BY ONLY <3>3 DEF EndOffset
      <4> QED BY <1>q, <3>1, <4>1, <4>2
    <3>4. CASE k # 1
      <4>1. EndOffset(b, k, pos) = Cell(b.raw[k], 0) + Len(b.raw[k])
        BY ONLY <3>4 DEF EndOffset
      <4>2. EndOffset(c, k, pos + nb) = Cell(c.raw[k], 0) + Len(c.raw[k])
        BY ONLY <3>4 DEF EndOffset
      <4> QED BY <3>2, <4>1, <4>2, Zenon
    <3> QED BY <3>3, <3>4
  <2>5. ASSUME NEW k \in 1 .. n - 1
        PROVE  EndOffset(c, k, pos + nb) <= pos + nb
    <3>1. EndOffset(b, k, pos) <= pos /\ EndOffset(b, k, pos) \in Int
      BY <1>n, EndOffsetIsInt, SMTT(30) DEF Stored
    <3> QED BY <1>0, <2>4, <3>1
  <2>6. ASSUME NEW i \in 0 .. c.l_total - 1
        PROVE  Cell(FirstChunk(c), Wrap(c.cndx + i, Len(FirstChunk(c))))
                 = (pos + nb) - c.total + i
    BY <1>q, <1>n, <1>k, <1>5, <2>1, SMTT(30) DEF Stored
  <2>7. ASSUME NEW k \in 2 .. n - 1, NEW i \in 0 .. Len(c.raw[k]) - 1
        PROVE  Cell(c.raw[k], i) = EndOffset(c, k - 1, pos + nb) + i
    <3>1. c.raw[k] = b.raw[k] /\ k \in 2 .. Len(b.raw) - 1 /\ i \in 0 .. Len(b.raw[k]) - 1
      BY <1>n, <1>1
    <3>2. Cell(b.raw[k], i) = EndOffset(b, k - 1, pos) + i
      BY <3>1 DEF Stored
    <3> QED BY <2>4, <3>1, <3>2
  <2>8. /\ pos = EndOffset(b, n - 1, pos) + b.bndx
        /\ \A i \in 0 .. b.bndx - 1 : Cell(b.raw[n], i) = EndOffset(b, n - 1, pos) + i
        /\ EndOffset(b, n - 1, pos) \in Int
    BY <1>n, <1>2, <1>5, EndOffsetIsInt DEF Stored
  <2>9. EndOffset(c, n - 1, pos + nb) = EndOffset(b, n - 1, pos)
    BY <1>5, <2>4
  <2>10. pos + nb = EndOffset(c, n - 1, pos + nb) + c.bndx
    BY <1>0, <2>2, <2>8, <2>9
  <2>11. ASSUME NEW i \in 0 .. c.bndx - 1
         PROVE  Cell(c.raw[n], i) = EndOffset(c, n - 1, pos + nb) + i
    <3>1. i \in 0 .. m - 1 /\ i \in Nat /\ i < b.bndx + nb
      BY <1>q, <2>2
    <3>2. CASE i < b.bndx
      <4>1. Cell(c.raw[n], i) = Cell(b.raw[n], i)
        BY <1>q, <1>w, <3>1, <3>2
      <4>2. Cell(b.raw[n], i) = EndOffset(b, n - 1, pos) + i
        BY <1>q, <2>8, <3>1, <3>2
      <4> QED BY <2>9, <4>1, <4>2
    <3>3. CASE i >= b.bndx
      <4>1. Cell(c.raw[n], i) = pos + (i - b.bndx)
        BY <1>q, <1>w, <3>1, <3>3
      <4>2. pos + (i - b.bndx) = EndOffset(b, n - 1, pos) + i
        BY <1>q, <2>8, <3>1
      <4> QED BY <2>9, <4>1, <4>2
    <3> QED BY <1>q, <3>1, <3>2, <3>3
  <2>12. c.total <= pos + nb
    BY <1>q, <1>k DEF Stored
  <2>13. Stored(c, pos + nb)
    BY <1>1, <1>2, <1>5, <2>5, <2>6, <2>7, <2>10, <2>11, <2>12 DEF Stored
  <2> QED BY <1>n, <1>1, <1>c, <1>k, <2>3, <2>13 DEF c
<1> QED BY <1>4, <1>5

-----------------------------------------------------------------------------

\* consumer.skip after the first chunk is gone.
SkipLeft(b) == IF b.skip >= b.l_total THEN b.skip - b.l_total ELSE 0

\* What delete_consumer_blist_restat does to n > 1 chunks and their counters.
Shifted(b, c, n) ==
  /\ Len(c.raw) = n - 1
  /\ \A k \in 1 .. n - 1 : c.raw[k] = b.raw[k + 1]

Restat(b, c, n) ==
  /\ c.total = b.total - b.l_total /\ c.cndx = 0 /\ c.skip = SkipLeft(b)
  /\ n > 2 => c.l_total = Len(b.raw[2]) /\ c.bndx = b.bndx
  /\ n <= 2 => c.l_total = b.bndx /\ c.bndx = NextIndex(b.bndx, Len(b.raw[2]))

LEMMA DropFirstFields ==
  ASSUME NEW b \in BufferType, NEW n \in Nat, n = Len(b.raw), n > 1, b.l_total <= b.total
  PROVE  /\ DropFirst(b) \in BufferType
         /\ Shifted(b, DropFirst(b), n) /\ Restat(b, DropFirst(b), n)
<1> DEFINE rest == Tail(b.raw)
           d == [b EXCEPT !.skip = SkipLeft(b)]
           c == [d EXCEPT !.raw = rest,
                          !.total = @ - b.l_total,
                          !.cndx = 0,
                          !.l_total = IF n > 2 THEN Len(b.raw[2]) ELSE b.bndx,
                          !.bndx = IF n > 2 THEN @ ELSE NextIndex(b.bndx, Len(b.raw[2]))]
<1>1. /\ b.bndx \in Nat /\ b.cndx \in Nat /\ b.skip \in Nat
      /\ b.l_total \in Nat /\ b.total \in Nat /\ b.raw \in Seq(Chunk)
  BY DEF BufferType
<1>2. /\ rest \in Seq(Chunk) /\ Len(rest) = n - 1
      /\ \A k \in 1 .. n - 1 : rest[k] = b.raw[k + 1]
  BY <1>1
<1>3. b.raw[2] \in Chunk /\ Len(b.raw[2]) \in Nat
  BY <1>1 DEF Chunk
<1> HIDE DEF rest
<1>4. rest[1] = b.raw[2] /\ (Len(rest) > 1 <=> n > 2) /\ rest # <<>>
  <2>1. 1 \in 1 .. n - 1 /\ 1 + 1 = 2
    OBVIOUS
  <2>2. rest[1] = b.raw[1 + 1]
    BY <1>2, <2>1, Zenon
  <2>3. Len(rest) > 0 /\ (Len(rest) > 1 <=> n > 2)
    BY <1>2
  <2> QED BY <2>1, <2>2, <2>3
<1>5. /\ d \in BufferType /\ d.raw = b.raw /\ d.bndx = b.bndx /\ d.cndx = b.cndx
      /\ d.skip = SkipLeft(b) /\ d.l_total = b.l_total /\ d.total = b.total
  <2>1. SkipLeft(b) \in Nat
    BY <1>1 DEF SkipLeft
  <2> QED BY <2>1 DEF BufferType
<1>6. DropFirst(b) = LeaveUniqueConsumerBlist(d)
  BY DEF DropFirst, SkipLeft
<1> HIDE DEF d
<1>7. LeaveUniqueConsumerBlist(d) = c
  <2>1. Len(d.raw) > 1
    BY <1>5
  <2>2. LeaveUniqueConsumerBlist(d) = DeleteConsumerBlistRestat(d)
    BY <2>1 DEF LeaveUniqueConsumerBlist
  <2>3. Tail(d.raw) = rest
    BY <1>5 DEF rest
  <2> QED BY <1>4, <1>5, <2>2, <2>3 DEF DeleteConsumerBlistRestat, NextIndex
<1>8. /\ c \in BufferType /\ c.raw = rest
      /\ c.total = b.total - b.l_total /\ c.cndx = 0 /\ c.skip = SkipLeft(b)
      /\ c.l_total = (IF n > 2 THEN Len(b.raw[2]) ELSE b.bndx)
      /\ c.bndx = IF n > 2 THEN b.bndx ELSE NextIndex(b.bndx, Len(b.raw[2]))
  <2>1. /\ (IF n > 2 THEN Len(b.raw[2]) ELSE b.bndx) \in Nat
        /\ (IF n > 2 THEN d.bndx ELSE NextIndex(b.bndx, Len(b.raw[2]))) \in Nat
        /\ d.total - b.l_total \in Nat
    BY <1>1, <1>3, <1>5 DEF NextIndex
  <2> QED BY <1>2, <1>5, <2>1 DEF BufferType
<1> HIDE DEF c
<1>9. Shifted(b, c, n)
  BY <1>2, <1>8, Zenon DEF Shifted
<1>10. Restat(b, c, n)
  <2>1. CASE n > 2
    BY <1>8, <2>1 DEF Restat
  <2>2. CASE n <= 2
    BY <1>8, <2>2 DEF Restat
  <2> QED BY <2>1, <2>2
<1> QED BY <1>6, <1>7, <1>8, <1>9, <1>10, Zenon

\* Inside b_consume_size's loop: the first chunk is used up.
LEMMA DropFirstSound ==
  ASSUME NEW b \in BufferType, NEW pos \in Nat, Geometry(b), Stored(b, pos),
         Len(b.raw) > 0
  PROVE  LET c == DropFirst(b) IN
         /\ c \in BufferType /\ Geometry(c) /\ Stored(c, pos)
         /\ c.total = b.total - b.l_total /\ c.skip = SkipLeft(b) /\ b.l_total <= b.total
<1> DEFINE c == DropFirst(b)
<1>n. PICK n \in Nat : n = Len(b.raw)
  BY Fields
<1>p. n \in Nat /\ n > 0
  BY <1>n
<1>q. /\ b.bndx \in Nat /\ b.cndx \in Nat /\ b.l_total \in Nat /\ b.total \in Nat
      /\ b.skip \in Nat /\ b.raw \in Seq(Seq(Int))
  BY Fields
<1>1. CASE n <= 1
  <2>1. b.total = b.l_total
    BY <1>n, <1>1 DEF Geometry, Single
  <2> DEFINE d == [b EXCEPT !.skip = SkipLeft(b)]
             e == [d EXCEPT !.cndx = 0, !.total = 0, !.l_total = 0, !.bndx = 0]
  <2>2. SkipLeft(b) \in Nat
    BY <1>q DEF SkipLeft
  <2>3. d \in BufferType /\ d.raw = b.raw /\ d.skip = SkipLeft(b)
    BY <2>2 DEF BufferType
  <2>4. DropFirst(b) = LeaveUniqueConsumerBlist(d)
    BY DEF DropFirst, SkipLeft
  <2> HIDE DEF d
  <2>5. LeaveUniqueConsumerBlist(d) = e
    BY <1>n, <1>1, <2>3 DEF LeaveUniqueConsumerBlist
  <2>6. /\ e \in BufferType /\ e.raw = b.raw /\ e.skip = SkipLeft(b)
        /\ e.cndx = 0 /\ e.total = 0 /\ e.l_total = 0 /\ e.bndx = 0
    BY <2>3 DEF BufferType
  <2> HIDE DEF e
  <2>7. \A k \in 1 .. Len(e.raw) : Len(e.raw[k]) \in 1 .. MaxAlloc
    BY <2>6 DEF Geometry
  <2>8. Len(FirstChunk(e)) \in Nat \ {0} /\ Len(LastChunk(e)) \in Nat \ {0}
    BY <1>n, <1>p, <2>6, ChunkSizes DEF FirstChunk, LastChunk
  <2>9. Len(e.raw) = n
    BY <1>n, <2>6
  <2>10. Geometry(e)
    BY <1>p, <1>1, <2>6, <2>7, <2>8, <2>9 DEF Geometry, Single
  <2>11. Stored(e, pos)
    BY <1>p, <1>1, <2>6, <2>9 DEF Stored
  <2>12. b.total - b.l_total = 0 /\ b.l_total <= b.total
    BY <1>q, <2>1
  <2> QED BY <2>4, <2>5, <2>6, <2>10, <2>11, <2>12, Zenon
<1>2. CASE n > 1
  <2>0. EndOffset(b, 1, pos) <= pos /\ EndOffset(b, 1, pos) = pos - b.total + b.l_total
    BY <1>n, <1>2 DEF Stored, EndOffset
  <2>t. b.l_total <= b.total
    BY <1>q, <2>0
  <2>c. c \in BufferType /\ Shifted(b, c, n) /\ Restat(b, c, n)
    BY <1>n, <1>2, <2>t, DropFirstFields
  <2> HIDE DEF c
  <2>1. /\ Len(c.raw) = n - 1
        /\ \A k \in 1 .. n - 1 : c.raw[k] = b.raw[k + 1]
    BY <2>c DEF Shifted
  <2>k. /\ c.total = b.total - b.l_total /\ c.cndx = 0 /\ c.skip = SkipLeft(b)
        /\ n > 2 => c.l_total = Len(b.raw[2]) /\ c.bndx = b.bndx
        /\ n <= 2 => c.l_total = b.bndx /\ c.bndx = NextIndex(b.bndx, Len(b.raw[2]))
    BY <2>c, Zenon DEF Restat
  <2>m. PICK m \in Nat : m = Len(b.raw[2]) /\ m > 0 /\ m <= MaxAlloc
    <3>1. Len(b.raw[2]) \in 1 .. MaxAlloc
      BY <1>n, <1>2 DEF Geometry
    <3> QED BY <3>1, MaxAllocAssumption
  <2>f. FirstChunk(c) = b.raw[2] /\ LastChunk(c) = b.raw[n] /\ LastChunk(b) = b.raw[n]
    <3>1. 1 \in 1 .. n - 1 /\ n - 1 \in 1 .. n - 1 /\ 1 + 1 = 2 /\ (n - 1) + 1 = n
      BY <1>2
    <3>2. c.raw[1] = b.raw[1 + 1] /\ c.raw[n - 1] = b.raw[(n - 1) + 1]
      BY <2>1, <3>1, Zenon
    <3> QED BY <1>n, <2>1, <3>1, <3>2 DEF FirstChunk, LastChunk
  <2>l. b.bndx <= Len(b.raw[n])
    BY <1>n, <1>2, <2>f DEF Geometry
  <2>g. ASSUME NEW k \in 1 .. n - 1
        PROVE  Len(c.raw[k]) \in 1 .. MaxAlloc
    <3>1. k + 1 \in 1 .. n /\ c.raw[k] = b.raw[k + 1]
      BY <2>1
    <3> QED BY <1>n, <3>1 DEF Geometry
  <2>3. EndOffset(b, 1, pos) \in Int
    BY <1>q, <2>0
  <2>4. CASE n <= 2
    <3>0. n = 2 /\ n - 1 = 1
      BY <1>2, <2>4
    <3>1. /\ pos = EndOffset(b, 1, pos) + b.bndx
          /\ \A i \in 0 .. b.bndx - 1 : Cell(b.raw[2], i) = EndOffset(b, 1, pos) + i
      BY <1>n, <1>2, <2>f, <3>0 DEF Stored
    <3>2. c.l_total = b.bndx /\ c.bndx = NextIndex(b.bndx, m) /\ b.bndx <= m
      BY <2>4, <2>k, <2>m, <2>l, <3>0
    <3>3. c.total = b.bndx
      <4>1. b.total - b.l_total = b.bndx
        <5>1. pos = (pos - b.total + b.l_total) + b.bndx
          BY <2>0, <3>1, Zenon
        <5>2. b.total \in Nat /\ b.l_total \in Nat /\ b.bndx \in Nat
          BY <1>q
        <5> QED BY ONLY <5>1, <5>2, pos \in Nat
      <4> QED BY <2>k, <4>1, Zenon
    <3>4. Ring(c.cndx, c.bndx, c.l_total, m) /\ c.bndx <= m
      <4>1. Ring(0, NextIndex(b.bndx, m), b.bndx, m) /\ NextIndex(b.bndx, m) <= m
        BY <1>q, <2>m, <3>2 DEF Ring, NextIndex, Wrap
      <4> QED BY <2>k, <3>2, <4>1, Zenon
    <3>5. Len(FirstChunk(c)) = m /\ Len(LastChunk(c)) = m
      BY <2>m, <2>f, <3>0
    <3>6. Geometry(c)
      BY <2>1, <2>g, <3>0, <3>2, <3>3, <3>4, <3>5 DEF Geometry, Single, Ring
    <3>7. ASSUME NEW i \in 0 .. c.l_total - 1
          PROVE  Cell(FirstChunk(c), Wrap(c.cndx + i, Len(FirstChunk(c)))) = pos - c.total + i
      <4>1. i \in 0 .. b.bndx - 1 /\ i \in Nat /\ i < m
        BY <1>q, <3>2
      <4>2. Wrap(c.cndx + i, m) = i
        BY <2>k, <4>1 DEF Wrap
      <4>3. Cell(b.raw[2], i) = EndOffset(b, 1, pos) + i
        BY <3>1, <4>1
      <4>4. pos - c.total + i = EndOffset(b, 1, pos) + i
        BY <1>q, <2>3, <3>1, <3>3
      <4> QED BY <2>f, <3>5, <4>2, <4>3, <4>4, Zenon
    <3>8. Stored(c, pos)
      <4>1. c.total <= pos
        BY <1>q, <2>3, <2>0, <3>1, <3>3 DEF Stored
      <4> QED BY <2>1, <3>0, <3>7, <4>1 DEF Stored
    <3> QED BY <2>c, <2>t, <2>k, <3>6, <3>8, Zenon DEF c
  <2>5. CASE n > 2
    <3>a. c.l_total = m /\ c.bndx = b.bndx
      BY <2>5, <2>k, <2>m
    <3>b. b.total - b.l_total \in Nat /\ 2 \in 2 .. n - 1 /\ 0 \in 0 .. m - 1
      BY <1>q, <2>5, <2>t, <2>m, SMTT(30)
    <3>1. \A i \in 0 .. m - 1 : Cell(b.raw[2], i) = EndOffset(b, 1, pos) + i
      <4>1. \A k \in 2 .. n - 1 : \A i \in 0 .. Len(b.raw[k]) - 1 :
              Cell(b.raw[k], i) = EndOffset(b, k - 1, pos) + i
        BY <1>n, Zenon DEF Stored
      <4>2. 2 - 1 = 1
        OBVIOUS
      <4>3. \A i \in 0 .. Len(b.raw[2]) - 1 : Cell(b.raw[2], i) = EndOffset(b, 2 - 1, pos) + i
        BY <3>b, <4>1, Zenon
      <4> QED BY <2>m, <4>2, <4>3, Zenon
    <3>2. ASSUME NEW k \in 1 .. n - 2
          PROVE  EndOffset(c, k, pos) = EndOffset(b, k + 1, pos)
      <4>0. c.raw[k] = b.raw[k + 1] /\ k + 1 # 1
        BY <2>1
      <4>1. CASE k = 1
        <5>1. Cell(b.raw[2], 0) = EndOffset(b, 1, pos) + 0
          BY <3>1, <3>b, Zenon
        <5>2. EndOffset(b, 2, pos) = Cell(b.raw[2], 0) + Len(b.raw[2])
          BY DEF EndOffset
        <5>3. EndOffset(b, 2, pos) = (pos - b.total + b.l_total) + m
          BY <1>q, <2>0, <2>m, <5>1, <5>2
        <5>4. EndOffset(c, 1, pos) = pos - (b.total - b.l_total) + m
          BY <2>k, <3>a DEF EndOffset
        <5>5. pos - (b.total - b.l_total) + m = (pos - b.total + b.l_total) + m
          BY <1>q
        <5> QED BY <4>1, <5>3, <5>4, <5>5
      <4>2. CASE k # 1
        BY <4>0, <4>2, Zenon DEF EndOffset
      <4> QED BY <4>1, <4>2
    <3>3. ASSUME NEW k \in 1 .. n - 2
          PROVE  EndOffset(c, k, pos) <= pos
      <4>1. k + 1 \in 1 .. n - 1
        OBVIOUS
      <4>2. EndOffset(b, k + 1, pos) <= pos
        BY <1>n, <4>1 DEF Stored
      <4> QED BY <3>2, <4>2, Zenon
    <3>4. ASSUME NEW i \in 0 .. c.l_total - 1
          PROVE  Cell(FirstChunk(c), Wrap(c.cndx + i, Len(FirstChunk(c)))) = pos - c.total + i
      <4>1. i \in 0 .. m - 1 /\ i \in Nat /\ i < m
        BY <3>a
      <4>2. Wrap(c.cndx + i, m) = i
        BY <2>k, <4>1 DEF Wrap
      <4>3. Cell(b.raw[2], i) = EndOffset(b, 1, pos) + i
        BY <3>1, <4>1
      <4>4. pos - (b.total - b.l_total) + i = EndOffset(b, 1, pos) + i
        BY <1>q, <2>0, <4>1
      <4>5. Len(FirstChunk(c)) = m
        BY <2>m, <2>f, Zenon
      <4> QED BY <2>f, <2>k, <4>2, <4>3, <4>4, <4>5, Zenon
    <3>5. ASSUME NEW k \in 2 .. n - 2, NEW i \in 0 .. Len(c.raw[k]) - 1
          PROVE  Cell(c.raw[k], i) = EndOffset(c, k - 1, pos) + i
      <4>1. /\ k \in 1 .. n - 1 /\ k + 1 \in 2 .. n - 1 /\ k - 1 \in 1 .. n - 2
            /\ (k + 1) - 1 = k /\ (k - 1) + 1 = k
        OBVIOUS
      <4>2. c.raw[k] = b.raw[k + 1]
        BY <2>1, <4>1, Zenon
      <4>3. Cell(b.raw[k + 1], i) = EndOffset(b, (k + 1) - 1, pos) + i
        BY <1>n, <4>1, <4>2, Zenon DEF Stored
      <4>4. EndOffset(c, k - 1, pos) = EndOffset(b, k, pos)
        BY <3>2, <4>1
      <4> QED BY <4>1, <4>2, <4>3, <4>4, Zenon
    <3>6. /\ pos = EndOffset(c, n - 2, pos) + c.bndx
          /\ \A i \in 0 .. c.bndx - 1 : Cell(LastChunk(c), i) = EndOffset(c, n - 2, pos) + i
      <4>1. n - 2 \in 1 .. n - 2 /\ (n - 2) + 1 = n - 1
        BY <2>5
      <4>2. EndOffset(c, n - 2, pos) = EndOffset(b, n - 1, pos)
        BY <3>2, <4>1
      <4>3. /\ pos = EndOffset(b, n - 1, pos) + b.bndx
            /\ \A i \in 0 .. b.bndx - 1 : Cell(LastChunk(b), i) = EndOffset(b, n - 1, pos) + i
        BY <1>n, <1>2, Zenon DEF Stored
      <4> QED BY <2>f, <3>a, <4>2, <4>3, Zenon
    <3>7. (n - 1) - 1 = n - 2 /\ n - 1 > 1 /\ n - 1 > 0
      BY <2>5
    <3>8. Stored(c, pos)
      <4>1. c.total <= pos
        <5>1. b.total <= pos
          BY DEF Stored
        <5>2. b.total - b.l_total <= pos
          BY <1>q, <5>1
        <5> QED BY <2>k, <5>2, Zenon
      <4> QED BY <2>1, <3>3, <3>4, <3>5, <3>6, <3>7, <4>1, Zenon DEF Stored
    <3>9. Geometry(c)
      <4>1. /\ c.cndx < Len(FirstChunk(c)) /\ c.l_total <= Len(FirstChunk(c)) /\ c.l_total > 0
        BY <2>k, <2>f, <2>m, <3>a
      <4>2. c.bndx <= Len(LastChunk(c))
        BY <2>f, <2>l, <3>a, Zenon
      <4> QED BY <2>1, <2>g, <3>7, <4>1, <4>2 DEF Geometry, Single
    <3> QED BY <2>c, <2>t, <2>k, <3>8, <3>9, Zenon DEF c
  <2> QED BY <1>2, <2>4, <2>5
<1> QED BY <1>1, <1>2, <1>p

-----------------------------------------------------------------------------

\* The first chunk never counts more bytes than there are.
LEMMA FirstBelowTotal ==
  ASSUME NEW b \in BufferType, NEW pos \in Nat, Geometry(b), Stored(b, pos)
  PROVE  b.l_total <= b.total
<1>n. PICK n \in Nat : n = Len(b.raw)
  BY Fields
<1>q. b.l_total \in Nat /\ b.total \in Nat
  BY Fields
<1>1. CASE n <= 1
  BY <1>n, <1>q, <1>1 DEF Geometry, Single
<1>2. CASE n > 1
  <2>1. EndOffset(b, 1, pos) = pos - b.total + b.l_total
    BY DEF EndOffset
  <2>2. EndOffset(b, 1, pos) <= pos
    BY <1>n, <1>2 DEF Stored
  <2>3. pos - b.total + b.l_total <= pos
    BY <2>1, <2>2, Zenon
  <2> QED BY <1>q, <2>3
<1> QED BY <1>n, <1>1, <1>2

\* Moving the reading end by v keeps the place of every byte behind it.
SameCell(x, v, i, s) == Wrap(Wrap(x + v, s) + i, s) = Wrap(x + (v + i), s)

LEMMA WrapMoves ==
  ASSUME NEW s \in Nat, NEW x \in Nat, NEW v \in Nat, NEW i \in Nat, x < s, v + i <= s, v < s
  PROVE  SameCell(x, v, i, s)
<1>1. CASE x + v < s
  BY <1>1 DEF Wrap, SameCell
<1>2. CASE ~(x + v < s)
  BY <1>2 DEF Wrap, SameCell
<1> QED BY <1>1, <1>2

\* Inside b_consume_size's loop: the value ends within the first chunk.
LEMMA DropPartSound ==
  ASSUME NEW b \in BufferType, NEW pos \in Nat, Geometry(b), Stored(b, pos),
         Len(b.raw) > 0, NEW value \in Nat, value < b.l_total
  PROVE  LET c == DropPart(b, value) IN
         /\ c \in BufferType /\ Geometry(c) /\ Stored(c, pos)
         /\ c.total = b.total - value /\ c.skip = 0
<1> DEFINE c == DropPart(b, value)
           index == Wrap(b.cndx + value, Len(FirstChunk(b)))
<1>n. PICK n \in Nat : n = Len(b.raw)
  BY Fields
<1>p. n \in Nat /\ n > 0
  BY <1>n
<1>q. /\ b.bndx \in Nat /\ b.cndx \in Nat /\ b.l_total \in Nat /\ b.total \in Nat
      /\ b.l_total <= b.total
  BY Fields, FirstBelowTotal
<1>s. PICK s \in Nat : s = Len(FirstChunk(b)) /\ s > 0
  BY ChunkSizes
<1>g. b.cndx < s /\ b.l_total <= s
  BY <1>n, <1>p, <1>s DEF Geometry
<1>1. /\ Wrap(b.cndx + value, s) \in 0 .. s - 1
      /\ (b.cndx + value) % s = Wrap(b.cndx + value, s)
  <2>1. b.cndx + value \in 0 .. 2 * s - 1
    BY <1>q, <1>g
  <2>2. (b.cndx + value) % s = Wrap(b.cndx + value, s)
    BY <1>s, <2>1, ModIsWrap
  <2>3. Wrap(b.cndx + value, s) \in 0 .. s - 1
    BY <1>q, <1>g DEF Wrap
  <2> QED BY <2>2, <2>3
<1>i. index \in Nat /\ index < s /\ (b.cndx + value) % Len(FirstChunk(b)) = index
      /\ index = Wrap(b.cndx + value, s)
  <2>1. index = Wrap(b.cndx + value, s) /\ (b.cndx + value) % Len(FirstChunk(b)) = index
    BY <1>1, <1>s, Zenon
  <2> QED BY <1>1, <2>1
<1> HIDE DEF index
<1>2. /\ c \in BufferType /\ c.raw = b.raw /\ c.bndx = b.bndx /\ c.skip = 0
      /\ c.l_total = b.l_total - value /\ c.total = b.total - value /\ c.cndx = index
  <2> DEFINE d == [b EXCEPT !.l_total = @ - value, !.total = @ - value, !.skip = 0,
                            !.cndx = index]
  <2>1. b.l_total - value \in Nat /\ b.total - value \in Nat
    BY <1>q
  <2>2. /\ d \in BufferType /\ d.raw = b.raw /\ d.bndx = b.bndx /\ d.skip = 0
        /\ d.l_total = b.l_total - value /\ d.total = b.total - value /\ d.cndx = index
    BY <1>i, <2>1 DEF BufferType
  <2>3. c = [b EXCEPT !.l_total = @ - value, !.total = @ - value, !.skip = 0,
                      !.cndx = (@ + value) % Len(FirstChunk(b))]
    BY DEF DropPart
  <2>4. c = d
    BY <1>i, <2>3, Zenon
  <2> HIDE DEF c, d
  <2> QED BY <2>2, <2>4, Zenon
<1> HIDE DEF c
<1>3. Len(c.raw) = n /\ FirstChunk(c) = FirstChunk(b) /\ LastChunk(c) = LastChunk(b)
  BY <1>n, <1>2, Zenon DEF FirstChunk, LastChunk
<1>4. c.cndx < s /\ c.l_total <= s /\ c.l_total > 0
  BY <1>q, <1>g, <1>i, <1>2
<1>5. Geometry(c)
  <2>1. \A k \in 1 .. n : Len(c.raw[k]) \in 1 .. MaxAlloc
    BY <1>n, <1>2, Zenon DEF Geometry
  <2>2. c.bndx <= Len(LastChunk(c))
    <3>1. b.bndx <= Len(LastChunk(b))
      BY DEF Geometry
    <3> QED BY <1>2, <1>3, <3>1, Zenon
  <2>3. Len(FirstChunk(c)) = s
    BY <1>s, <1>3, Zenon
  <2>4. CASE n > 1
    BY <1>3, <1>4, <2>1, <2>2, <2>3, <2>4 DEF Geometry, Single
  <2>5. CASE n <= 1
    <3>1. b.total = b.l_total /\ b.bndx = Wrap(b.cndx + b.l_total, s)
      BY <1>n, <1>q, <1>s, <2>5 DEF Geometry, Single
    <3>2. c.total = c.l_total
      BY <1>2, <3>1, Zenon
    <3>3. b.bndx = Wrap(index + (b.l_total - value), s)
      <4>1. /\ b.l_total - value \in Nat /\ value + (b.l_total - value) = b.l_total
            /\ value + (b.l_total - value) <= s /\ value < s
        BY <1>q, <1>g
      <4>2. Wrap(Wrap(b.cndx + value, s) + (b.l_total - value), s)
              = Wrap(b.cndx + (value + (b.l_total - value)), s)
        <5>1. SameCell(b.cndx, value, b.l_total - value, s)
          BY <1>q, <1>g, <4>1, WrapMoves
        <5> QED BY <5>1, Zenon DEF SameCell
      <4> QED BY <1>i, <3>1, <4>1, <4>2, Zenon
    <3>4. c.bndx = Wrap(c.cndx + c.l_total, s)
      BY <1>2, <3>3, Zenon
    <3> QED BY <1>3, <1>4, <1>p, <2>1, <2>2, <2>3, <2>5, <3>2, <3>4 DEF Geometry, Single
  <2> QED BY <2>4, <2>5
<1>6. ASSUME NEW k \in 1 .. n - 1
      PROVE  EndOffset(c, k, pos) = EndOffset(b, k, pos)
  <2>1. CASE k = 1
    <3>1. pos - (b.total - value) + (b.l_total - value) = pos - b.total + b.l_total
      BY <1>q
    <3>2. pos - c.total + c.l_total = pos - b.total + b.l_total
      BY <1>2, <3>1, Zenon
    <3> QED BY <2>1, <3>2, Zenon DEF EndOffset
  <2>2. CASE k # 1
    BY <1>2, <2>2, Zenon DEF EndOffset
  <2> QED BY <2>1, <2>2
<1>7. Stored(c, pos)
  <2>1. b.total <= pos
    BY DEF Stored
  <2>2. c.total <= pos
    BY <1>q, <1>2, <2>1
  <2>3. \A k \in 1 .. n - 1 : EndOffset(c, k, pos) <= pos
    BY <1>n, <1>6, Zenon DEF Stored
  <2>4. ASSUME NEW i \in 0 .. c.l_total - 1
        PROVE  Cell(FirstChunk(c), Wrap(c.cndx + i, Len(FirstChunk(c)))) = pos - c.total + i
    <3>1. /\ i \in Nat /\ i < b.l_total - value
          /\ value + i \in 0 .. b.l_total - 1
      BY <1>q, <1>2
    <3>2. Cell(FirstChunk(b), Wrap(b.cndx + (value + i), Len(FirstChunk(b))))
            = pos - b.total + (value + i)
      BY <1>n, <1>p, <3>1, Zenon DEF Stored
    <3>3. Wrap(index + i, s) = Wrap(b.cndx + (value + i), s)
      <4>1. value + i <= s /\ value < s
        BY <1>q, <1>g, <3>1
      <4>2. Wrap(Wrap(b.cndx + value, s) + i, s) = Wrap(b.cndx + (value + i), s)
        <5>1. SameCell(b.cndx, value, i, s)
          BY <1>q, <1>g, <3>1, <4>1, WrapMoves
        <5> QED BY <5>1, Zenon DEF SameCell
      <4> QED BY <1>i, <4>2, Zenon
    <3>4. pos - (b.total - value) + i = pos - b.total + (value + i)
      BY <1>q, <3>1
    <3> QED BY <1>s, <1>2, <1>3, <3>2, <3>3, <3>4, Zenon
  <2>5. ASSUME NEW k \in 2 .. n - 1, NEW i \in 0 .. Len(c.raw[k]) - 1
        PROVE  Cell(c.raw[k], i) = EndOffset(c, k - 1, pos) + i
    <3>1. k - 1 \in 1 .. n - 1
      OBVIOUS
    <3>2. Cell(b.raw[k], i) = EndOffset(b, k - 1, pos) + i
      BY <1>n, <1>2, Zenon DEF Stored
    <3> QED BY <1>2, <1>6, <3>1, <3>2, Zenon
  <2>6. n > 1 =>
          /\ pos = EndOffset(c, n - 1, pos) + c.bndx
          /\ \A i \in 0 .. c.bndx - 1 : Cell(LastChunk(c), i) = EndOffset(c, n - 1, pos) + i
    <3> SUFFICES ASSUME n > 1
                 PROVE  /\ pos = EndOffset(c, n - 1, pos) + c.bndx
                        /\ \A i \in 0 .. c.bndx - 1 :
                             Cell(LastChunk(c), i) = EndOffset(c, n - 1, pos) + i
      OBVIOUS
    <3>1. n - 1 \in 1 .. n - 1
      OBVIOUS
    <3>2. /\ pos = EndOffset(b, n - 1, pos) + b.bndx
          /\ \A i \in 0 .. b.bndx - 1 : Cell(LastChunk(b), i) = EndOffset(b, n - 1, pos) + i
      BY <1>n, Zenon DEF Stored
    <3>3. EndOffset(c, n - 1, pos) = EndOffset(b, n - 1, pos)
      BY <1>6, <3>1
    <3> QED BY <1>2, <1>3, <3>2, <3>3, Zenon
  <2> QED BY <1>3, <2>2, <2>3, <2>4, <2>5, <2>6, Zenon DEF Stored
<1> QED BY <1>2, <1>5, <1>7, Zenon DEF c

\* b_consumer_ptr shows a byte whenever one is unread, and no more than the
\* first chunk has.
LEMMA ConsumerPtrShows ==
  ASSUME NEW b \in BufferType, NEW pos \in Nat, Geometry(b), Stored(b, pos)
  PROVE  /\ ConsumerPtrSize(b) \in Nat /\ ConsumerPtrSize(b) <= b.l_total
         /\ b.l_total <= b.total
         /\ ConsumerPtrSize(b) = 0 <=> b.total = 0
<1>n. PICK n \in Nat : n = Len(b.raw)
  BY Fields
<1>q. /\ b.cndx \in Nat /\ b.l_total \in Nat /\ b.total \in Nat /\ b.l_total <= b.total
  BY Fields, FirstBelowTotal
<1>1. CASE n < 1
  <2>1. b.l_total = 0 /\ b.total = 0
    BY <1>n, <1>1 DEF Geometry, Single
  <2>2. ConsumerPtrSize(b) = 0
    BY <1>n, <1>1, Fields DEF ConsumerPtrSize
  <2> QED BY <2>1, <2>2
<1>2. CASE n > 0
  <2>1. PICK s \in Nat : s = Len(FirstChunk(b)) /\ s > 0
    BY <1>n, <1>2, ChunkSizes
  <2>2. b.cndx < s /\ b.l_total <= s
    BY <1>n, <1>2, <2>1 DEF Geometry
  <2>3. ConsumerPtrSize(b) = IF b.cndx + b.l_total > s THEN s - b.cndx ELSE b.l_total
    BY <1>n, <1>2, <2>1, Fields DEF ConsumerPtrSize
  <2>4. b.l_total = 0 => b.total = 0
    BY <1>n, <1>2 DEF Geometry, Single
  <2> QED BY <1>q, <2>2, <2>3, <2>4
<1> QED BY <1>n, <1>1, <1>2

=============================================================================
