------------------------------ MODULE RdflFifo ------------------------------
(***************************************************************************)
(* An rdfl object as a queue of bytes.                                     *)
(***************************************************************************)
EXTENDS Rdfl, SequencesExt

\* What the iterator would visit, from the first unread byte on, is a queue of
\* the stream's bytes.
Fifo == INSTANCE ByteFifo WITH queue <- FlattenSeq(Segments(b)), arrived <- pos

\* Every step of the object, seen through the pieces in which the iterator
\* visits its chunks (b_consumer_ptr's piece, the wrapped one, the middle
\* chunks, the last one), is a step of a byte queue or changes nothing of it.
ImplementsByteFifo == Fifo!Spec

=============================================================================
