------------------------------- MODULE Buffer -------------------------------
(***************************************************************************)
(* The elastic buffer of rdfl (t_rdfl_buffer) as operators on its value.   *)
(*                                                                         *)
(* A buffer is a list of chunks.  The first chunk is the one data is       *)
(* consumed from, the last one is the one read(2) writes to.  While they   *)
(* are one and the same chunk it is used as a ring: data wraps at its end. *)
(* Once a second chunk is appended the first one stays a ring holding      *)
(* l_total bytes from cndx on, the chunks in the middle are full, and the  *)
(* last one holds the bndx bytes at its beginning.                         *)
(*                                                                         *)
(* A byte is represented by its offset in the input stream: that is all    *)
(* that distinguishes "the right byte" from any other.  Memory that malloc *)
(* returned and nothing was read into holds Junk.                          *)
(***************************************************************************)
EXTENDS Integers, Sequences

CONSTANT MaxAlloc   \* the largest block malloc() grants; beyond it, it fails

ASSUME MaxAllocAssumption == MaxAlloc \in Nat

Junk == -1

\* The data of a t_rdfl_blist; its size is the length, its next pointer the order
\* of the sequence raw.  The C code's index i is Cell(c, i).
Chunk == Seq(Int)
Cell(c, i) == c[i + 1]

\* t_rdfl_buffer: raw stands for the list that starts at consumer.raw and ends
\* at buffer.raw; bndx is buffer.ndx, the other fields are the consumer's.
BufferType ==
  [raw : Seq(Chunk), bndx : Nat, cndx : Nat, skip : Nat, l_total : Nat, total : Nat]

\* The value memset(b, 0, sizeof(*b)) leaves.
NullBuffer ==
  [raw |-> <<>>, bndx |-> 0, cndx |-> 0, skip |-> 0, l_total |-> 0, total |-> 0]

FirstChunk(b) == b.raw[1]            \* *consumer.raw
LastChunk(b) == b.raw[Len(b.raw)]    \* *buffer.raw
Single(b) == Len(b.raw) <= 1         \* no consumer.raw->next

-----------------------------------------------------------------------------
(* Chunk getters *)

\* What b_consumer_ptr stores in *s: the unread bytes that lie in one piece at
\* consumer.ndx.
ConsumerPtrSize(b) ==
  IF b.raw = <<>> THEN 0
  ELSE IF b.cndx + b.l_total > Len(FirstChunk(b)) THEN Len(FirstChunk(b)) - b.cndx
  ELSE b.l_total

\* Variant for mutation: an emptied ring is taken for a full one.
BufferPtrSizeNoEmpty(b) ==
  IF b.raw = <<>> THEN 0
  ELSE IF ~Single(b) \/ b.cndx < b.bndx THEN Len(LastChunk(b)) - b.bndx
  ELSE b.cndx - b.bndx

\* What b_buffer_ptr stores in *s: the free bytes that lie in one piece at
\* buffer.ndx, which read(2) may overwrite.
BufferPtrSize(b) ==
  IF b.raw = <<>> THEN 0
  ELSE IF ~Single(b) \/ b.cndx < b.bndx \/ b.l_total = 0
         THEN Len(LastChunk(b)) - b.bndx
  ELSE IF b.cndx = b.bndx THEN 0 ELSE b.cndx - b.bndx

-----------------------------------------------------------------------------
(* Growing *)

NewChunk(amount) == [i \in 1 .. amount |-> Junk]

\* add_buffer_first: the one chunk becomes both ends; consumer.skip is not reset.
AddBufferFirst(b, amount) ==
  [b EXCEPT !.raw = <<NewChunk(amount)>>,
            !.bndx = 0, !.cndx = 0, !.total = 0, !.l_total = 0]

\* Variant for mutation: the writing end keeps its index in the new chunk.
AddBufferLastSameNdx(b, amount) == [b EXCEPT !.raw = Append(@, NewChunk(amount))]

\* add_buffer_last: appends a chunk and moves the writing end there.
AddBufferLast(b, amount) ==
  [b EXCEPT !.raw = Append(@, NewChunk(amount)), !.bndx = 0]

AddBuffer(b, amount) ==
  IF b.raw = <<>> THEN AddBufferFirst(b, amount) ELSE AddBufferLast(b, amount)

\* read(2) wrote nb bytes, the stream's next ones from offset pos on, at the
\* pointer b_buffer_ptr returned.
Store(b, nb, pos) ==
  [b EXCEPT !.raw[Len(b.raw)] =
     [i \in 1 .. Len(@) |->
        IF i - 1 \in b.bndx .. b.bndx + nb - 1 THEN pos + (i - 1 - b.bndx) ELSE @[i]]]

\* Variant for mutation: the writing end wraps in every chunk.
AddSizeWraps(b, value) ==
  [b EXCEPT !.l_total = IF Single(b) THEN @ + value ELSE @,
            !.total = @ + value,
            !.bndx = IF @ + value = Len(LastChunk(b)) THEN 0 ELSE @ + value]

\* addsize: the writing end of a ring wraps, that of a later chunk does not.
AddSize(b, value) ==
  [b EXCEPT !.l_total = IF Single(b) THEN @ + value ELSE @,
            !.total = @ + value,
            !.bndx = IF @ + value = Len(LastChunk(b)) /\ Single(b) THEN 0 ELSE @ + value]

\* The successful part of b_push_read.
PushBytes(b, nb, pos) == AddSize(Store(b, nb, pos), nb)

-----------------------------------------------------------------------------
(* Shrinking *)

\* Variant for mutation: total loses the bytes of the chunk that becomes first
\* instead of those of the one that is freed.
DeleteConsumerBlistMixed(b) ==
  LET rest == Tail(b.raw)
      first == IF Len(rest) > 1 THEN Len(rest[1]) ELSE IF rest # <<>> THEN b.bndx ELSE 0
  IN  [b EXCEPT !.raw = rest,
                !.total = @ - first,
                !.cndx = 0,
                !.l_total = first,
                !.bndx = IF Len(rest) > 1 THEN @
                         ELSE IF rest # <<>> /\ @ # Len(rest[1]) THEN @ ELSE 0]

\* delete_consumer_blist_restat: frees the first chunk and recomputes what the
\* consumer's fields say of the one that becomes first.
DeleteConsumerBlistRestat(b) ==
  LET rest == Tail(b.raw) IN
  [b EXCEPT !.raw = rest,
            !.total = @ - b.l_total,
            !.cndx = 0,
            !.l_total = IF Len(rest) > 1 THEN Len(rest[1])
                        ELSE IF rest # <<>> THEN b.bndx ELSE 0,
            !.bndx = IF Len(rest) > 1 THEN @
                     ELSE IF rest # <<>> /\ @ # Len(rest[1]) THEN @ ELSE 0]

\* leave_unique_consumer_blist: the only chunk is emptied, never freed.
LeaveUniqueConsumerBlist(b) ==
  IF Len(b.raw) > 1 THEN DeleteConsumerBlistRestat(b)
  ELSE [b EXCEPT !.cndx = 0, !.total = 0, !.l_total = 0, !.bndx = 0]

\* Variants for mutation: the skipped bytes are forgotten; the value is not capped.
ConsumeValueNoSkip(b, value) == IF value > b.total THEN b.total ELSE value
ConsumeValueUncapped(b, value) == value + b.skip

\* b_consume_size, first statements: the skipped bytes are consumed too, and
\* no more than there is.
ConsumeValue(b, value) ==
  IF value + b.skip > b.total THEN b.total ELSE value + b.skip

\* Variant for mutation: the remaining skip is computed without a comparison.
DropFirstUnchecked(b) ==
  LeaveUniqueConsumerBlist([b EXCEPT !.skip = @ - b.l_total])

\* One iteration of its loop when the value covers the whole first chunk ...
DropFirst(b) ==
  LeaveUniqueConsumerBlist(
    [b EXCEPT !.skip = IF @ >= b.l_total THEN @ - b.l_total ELSE 0])

\* ... and when it ends inside of it.
DropPart(b, value) ==
  [b EXCEPT !.l_total = @ - value,
            !.total = @ - value,
            !.skip = 0,
            !.cndx = (@ + value) % Len(FirstChunk(b))]

\* b_clean frees every chunk; b_fullclean_if_empty does so when nothing is unread.
FullcleanIfEmpty(b) == IF b.total = 0 THEN NullBuffer ELSE b

-----------------------------------------------------------------------------
(* Reading out *)

\* The n bytes of chunk c from index from on.
Piece(c, from, n) == SubSeq(c, from + 1, from + n)

\* The pieces the iterator visits, in its order: the first chunk from
\* consumer.ndx, what wrapped to its beginning, the full chunks in the middle,
\* and the beginning of the last one.
Segments(b) ==
  IF b.raw = <<>> THEN <<>>
  ELSE LET s == ConsumerPtrSize(b)
           n == Len(b.raw)
       IN  <<Piece(FirstChunk(b), b.cndx, s), Piece(FirstChunk(b), 0, b.l_total - s)>>
           \o SubSeq(b.raw, 2, n - 1)
           \o IF n > 1 THEN <<Piece(LastChunk(b), 0, b.bndx)>> ELSE <<>>

-----------------------------------------------------------------------------
(* What makes a buffer well formed *)

\* Index i of a ring of n cells, for i below 2 * n.
Wrap(i, n) == IF i < n THEN i ELSE i - n

\* The counters agree with each other and with the chunks.
Geometry(b) ==
  /\ \A k \in 1 .. Len(b.raw) : Len(b.raw[k]) \in 1 .. MaxAlloc
  /\ Len(b.raw) > 0 => /\ b.cndx < Len(FirstChunk(b))
                       /\ b.l_total <= Len(FirstChunk(b))
                       /\ b.bndx <= Len(LastChunk(b))
  /\ Len(b.raw) > 1 => b.l_total > 0
  /\ Single(b) => /\ b.total = b.l_total
                  /\ Len(b.raw) < 1 => b.l_total = 0
                  /\ b.l_total = 0 => b.bndx = 0 /\ b.cndx = 0
                  /\ b.l_total > 0 =>
                       b.bndx = Wrap(b.cndx + b.l_total, Len(FirstChunk(b)))

\* The stream offset that follows the last byte of chunk k, when that chunk is
\* not the last one and pos bytes of the stream were read.
EndOffset(b, k, pos) ==
  IF k = 1 THEN pos - b.total + b.l_total ELSE Cell(b.raw[k], 0) + Len(b.raw[k])

\* Every unread byte lies where the iterator will look for it: the unread bytes
\* are the stream's from offset pos - total up to pos.
Stored(b, pos) ==
  /\ b.total <= pos
  /\ \A k \in 1 .. Len(b.raw) - 1 : EndOffset(b, k, pos) <= pos
  /\ Len(b.raw) > 0 =>
       \A i \in 0 .. b.l_total - 1 :
         Cell(FirstChunk(b), Wrap(b.cndx + i, Len(FirstChunk(b)))) = pos - b.total + i
  /\ \A k \in 2 .. Len(b.raw) - 1 :
       \A i \in 0 .. Len(b.raw[k]) - 1 :
         Cell(b.raw[k], i) = EndOffset(b, k - 1, pos) + i
  /\ Len(b.raw) > 1 =>
       /\ pos = EndOffset(b, Len(b.raw) - 1, pos) + b.bndx
       /\ \A i \in 0 .. b.bndx - 1 :
            Cell(LastChunk(b), i) = EndOffset(b, Len(b.raw) - 1, pos) + i

=============================================================================
