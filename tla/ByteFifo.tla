------------------------------ MODULE ByteFifo ------------------------------
(***************************************************************************)
(* What the elastic buffer promises: the bytes of the stream, first in     *)
(* first out.  A byte is its offset in the stream; arrived counts those    *)
(* that entered the queue.  A step lets any number of them in at the back, *)
(* or drops any number of them at the front; nothing is reordered,         *)
(* duplicated or lost in between.                                          *)
(***************************************************************************)
EXTENDS Integers, Sequences

VARIABLES queue, arrived

Init == queue = <<>> /\ arrived = 0

Arrive ==
  /\ arrived' \in Nat /\ arrived' > arrived
  /\ queue' = queue \o [i \in 1 .. arrived' - arrived |-> arrived + i - 1]

Drop ==
  /\ \E n \in 1 .. Len(queue) : queue' = SubSeq(queue, n + 1, Len(queue))
  /\ UNCHANGED arrived

Next == Arrive \/ Drop

Spec == Init /\ [][Next]_<<queue, arrived>>

=============================================================================
