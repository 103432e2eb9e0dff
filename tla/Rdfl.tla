-------------------------------- MODULE Rdfl --------------------------------
(***************************************************************************)
(* One t_rdfl object at work: the readers, the consumers, the flushes and  *)
(* the destructor, over its buffer, on one side; the peer that feeds its   *)
(* descriptor through the kernel on the other.                             *)
(*                                                                         *)
(* The library is single threaded: the caller makes one call at a time     *)
(* (call.op), and a call runs from its Call step to its Return.  A call    *)
(* that loops takes one step per iteration; between two of them the peer   *)
(* may write or close.  A read(2) or a select(2) with nothing to report    *)
(* blocks: the step that makes it is disabled.                             *)
(***************************************************************************)
EXTENDS Buffer

CONSTANTS
  BuffSize,       \* v.buffsize
  Counts,         \* the sizes the caller passes to the readers and consumers
  StreamLength,   \* the most bytes the peer ever writes
  Settings,       \* the settings rdfl_load may have been called with
  Timeouts,       \* which of "none" and "finite" the select timeout may be
  Faults,         \* which of "malloc", "read" and "select" may fail
  DevelBuild      \* whether the library was compiled with -DDEVEL

ASSUME RdflAssumption ==
  /\ BuffSize \in 1 .. MaxAlloc
  /\ Counts \subseteq Nat
  /\ StreamLength \in Nat
  /\ Settings \subseteq
       SUBSET {"ADJUST_BUFFSIZE", "FULLEMPTY", "AUTOCLOSE", "LOCAL_OPEN"}
  /\ Timeouts \subseteq {"none", "finite"}
  /\ Faults \subseteq {"malloc", "read", "select"}
  /\ DevelBuild \in BOOLEAN

VARIABLES
  b,          \* obj->data
  settings,   \* obj->settings
  timeout,    \* whether obj->nw->timeout is set
  fd,         \* the descriptor: "open" or "closed"
  closes,     \* how often the library called close() on it
  sent,       \* bytes the peer has written
  peer,       \* the peer's end: "open" or "closed"
  pos,        \* bytes read(2) has handed over
  pc,         \* "idle", "run", "consume" (inside b_consume_size), "cleaned"
  call,       \* the call being executed and its local variables
  ret,        \* what the last call returned
  err         \* what it stored in *err

object == <<settings, timeout, fd, closes>>
kernel == <<sent, peer>>
vars == <<b, object, kernel, pos, pc, call, ret, err>>

\* e_rdflerrors
ERR_NONE            == 0
ERR_READ            == -2
ERR_MEMORY_ALLOC    == -3
ERR_NOSPACELEFT     == -5
ERR_SELECT          == -6
ERRDEV_OUTOFBOUND   == -30
VAL                 == -400
VAL_TIMEOUT_REACHED == -402
VAL_LAST_READ_0     == -403

Errors == {ERR_READ, ERR_MEMORY_ALLOC, ERR_NOSPACELEFT, ERR_SELECT,
           ERRDEV_OUTOFBOUND, VAL_TIMEOUT_REACHED, VAL_LAST_READ_0}

Ops == {"none", "size", "allavail", "singlestep", "noextend", "monitoring",
        "monitoring_noextend", "monitoring_allavail",
        "consume_size", "flush_all", "flush_firstbuffer"}

\* The locals of the calls: count, want and acc are the readers' (count, total
\* of rdflReader_size, total of the *_allavail), count the flushes' *count_value,
\* want the number of chunks when raw_tmp was saved, value b_consume_size's, out
\* the block a flush fills.  The others are history: start, base and skipped are
\* pos, the offset of the first unread byte, and skip at the beginning of the
\* call; asked is what it has passed to b_consume_size so far.
NoCall == [op |-> "none", errp |-> FALSE, count |-> 0, want |-> 0, acc |-> 0,
           value |-> 0, out |-> <<>>, start |-> 0, base |-> 0, skipped |-> FALSE,
           asked |-> 0]

Min2(m, n) == IF m <= n THEN m ELSE n

-----------------------------------------------------------------------------
(* Helpers shared by the calls *)

Idle == pc = "idle"
Running(op) == pc = "run" /\ call.op = op

\* A call begins, with the given locals.
Enter(op, next, locals) ==
  /\ Idle
  /\ pc' = next
  /\ call' = [locals EXCEPT !.op = op, !.start = pos, !.base = pos - b.total,
                            !.skipped = b.skip # 0]
  /\ ret' = 0 /\ err' = ERR_NONE

\* b_consume_size(value) is entered, with the given locals.
Consuming(locals, value) ==
  [locals EXCEPT !.value = ConsumeValue(b, value), !.asked = @ + ConsumeValue(b, value)]

\* A call returns r.
Return(r) == pc' = "idle" /\ call' = NoCall /\ ret' = r

\* Variant for mutation: the descriptor stays marked as the library's own.
CloseFdForgets ==
  /\ settings' = settings \cup {"LOCAL_REACHED_EOF"}
  /\ IF settings \cap {"AUTOCLOSE", "LOCAL_OPEN"} # {}
       THEN fd' = "closed" /\ closes' = closes + 1
       ELSE UNCHANGED <<fd, closes>>
  /\ UNCHANGED timeout

\* _close_fd: marks the end of file whether or not the descriptor is ours.
CloseFd ==
  /\ settings' = (settings \ {"LOCAL_OPEN"}) \cup {"LOCAL_REACHED_EOF"}
  /\ IF settings \cap {"AUTOCLOSE", "LOCAL_OPEN"} # {}
       THEN fd' = "closed" /\ closes' = closes + 1
       ELSE UNCHANGED <<fd, closes>>
  /\ UNCHANGED timeout

EofReached == "LOCAL_REACHED_EOF" \in settings

\* What push_read may return when room bytes are free.  After the end of file it
\* does not read; a read(2) of some bytes on an empty descriptor blocks until the
\* peer writes or closes.
ReadResults(room) ==
  IF EofReached THEN {0}
  ELSE 1 .. Min2(room, sent - pos)
       \cup (IF room = 0 \/ (sent = pos /\ peer = "closed") THEN {0} ELSE {})
       \cup (IF "read" \in Faults THEN {ERR_READ} ELSE {})

\* push_read on buffer buf, with result r.
PushRead(buf, r) ==
  \/ /\ EofReached
     /\ b' = buf
     /\ UNCHANGED <<object, pos>>
  \/ /\ ~EofReached
     /\ b' = IF r >= 0 THEN PushBytes(buf, r, pos) ELSE buf
     /\ pos' = IF r >= 0 THEN pos + r ELSE pos
     /\ IF r <= 0 THEN CloseFd ELSE UNCHANGED object

\* Variant for mutation: a chunk is added only to an empty list.
ExtendedOnce(amount) ==
  IF b.raw # <<>> THEN {b}
  ELSE IF amount <= MaxAlloc THEN {AddBuffer(b, amount)} ELSE {}

\* b_buffer_ptr_extend: the buffers it may leave when it succeeds, and whether
\* it may fail, which leaves the buffer as it was.
Extended(amount) ==
  IF BufferPtrSize(b) # 0 THEN {b}
  ELSE IF amount <= MaxAlloc THEN {AddBuffer(b, amount)} ELSE {}

ExtendMayFail(amount) ==
  BufferPtrSize(b) = 0 /\ (amount > MaxAlloc \/ "malloc" \in Faults)

\* Variant for mutation: the timeout is not passed to select(2).
SelectForEver == FALSE

\* select(2) on the descriptor.
SelectMayFail == fd = "closed" \/ "select" \in Faults
SelectMayTimeOut ==
  fd = "open" /\ timeout = "finite" /\ sent = pos /\ peer = "open"
SelectReady ==
  fd = "open" /\ (sent > pos \/ peer = "closed" \/ "read" \in Faults)

\* nw_monitoring with read_into_chunk_extend (extend) or read_into_chunk as the
\* callback, returning r.
Monitoring(extend, r) ==
  \/ /\ SelectMayFail /\ r = ERR_SELECT
     /\ UNCHANGED <<b, pos, object>>
  \/ /\ SelectMayTimeOut /\ r = VAL_TIMEOUT_REACHED
     /\ UNCHANGED <<b, pos, object>>
  \/ /\ SelectReady /\ extend
     /\ \E buf \in Extended(BuffSize) :
          r \in ReadResults(BufferPtrSize(buf)) /\ PushRead(buf, r)
  \/ /\ SelectReady /\ extend /\ ExtendMayFail(BuffSize) /\ r = ERR_MEMORY_ALLOC
     /\ UNCHANGED <<b, pos, object>>
  \/ /\ SelectReady /\ ~extend /\ BufferPtrSize(b) # 0
     /\ r \in ReadResults(BufferPtrSize(b)) /\ PushRead(b, r)
  \/ /\ SelectReady /\ ~extend /\ BufferPtrSize(b) = 0 /\ r = ERR_NOSPACELEFT
     /\ UNCHANGED <<b, pos, object>>

\* Everything nw_monitoring may return.
MonitoringResults == Errors \cup 0 .. StreamLength

-----------------------------------------------------------------------------
(* The peer *)

PeerWrite ==
  /\ peer = "open" /\ sent < StreamLength
  /\ \E n \in 1 .. StreamLength - sent : sent' = sent + n
  /\ UNCHANGED <<b, object, peer, pos, pc, call, ret, err>>

PeerClose ==
  /\ peer = "open"
  /\ peer' = "closed"
  /\ UNCHANGED <<b, object, sent, pos, pc, call, ret, err>>

-----------------------------------------------------------------------------
(* The readers *)

CallReader ==
  /\ \/ \E n \in Counts :
          Enter("size", "run", [NoCall EXCEPT !.count = n, !.want = n])
     \/ \E op \in {"allavail", "monitoring_allavail"}, errp \in BOOLEAN :
          Enter(op, "run", [NoCall EXCEPT !.errp = errp])
     \/ \E op \in {"singlestep", "monitoring", "monitoring_noextend"} :
          Enter(op, "run", NoCall)
     \/ \E n \in Counts :
          Enter("noextend", "consume", Consuming(NoCall, n))
  /\ UNCHANGED <<b, object, kernel, pos>>

\* The amount rdflReader_size extends the buffer by.
SizeAmount == IF "ADJUST_BUFFSIZE" \in settings THEN call.count ELSE BuffSize

\* Variant for mutation: the last, short read is not counted.
SizeShortForgets(s) == call.want - call.count

\* What it returns when a read gives s bytes, fewer than it asked for.
SizeShort(s) == call.want - (call.count - s)

\* One iteration of rdflReader_size: a short read ends it.
SizeRead ==
  /\ Running("size") /\ call.count > 0
  /\ \E buf \in Extended(SizeAmount) :
       LET available == Min2(BufferPtrSize(buf), call.count) IN
       \E s \in ReadResults(available) :
         /\ PushRead(buf, s)
         /\ IF s < 0 THEN Return(s)
            ELSE IF s # available THEN Return(SizeShort(s))
            ELSE /\ call' = [call EXCEPT !.count = @ - s]
                 /\ UNCHANGED <<pc, ret>>
  /\ UNCHANGED <<kernel, err>>

SizeNoMemory ==
  /\ Running("size") /\ call.count > 0
  /\ ExtendMayFail(SizeAmount)
  /\ Return(ERR_MEMORY_ALLOC)
  /\ UNCHANGED <<b, object, kernel, pos, err>>

SizeDone ==
  /\ Running("size") /\ call.count = 0
  /\ Return(call.want)
  /\ UNCHANGED <<b, object, kernel, pos, err>>

\* One iteration of rdflReader_allavail: it goes on while reads fill the room
\* they were given.
AllavailRead ==
  /\ Running("allavail")
  /\ \E buf \in Extended(BuffSize) :
       \E full \in ReadResults(BufferPtrSize(buf)) :
         /\ PushRead(buf, full)
         /\ \/ /\ full <= 0 /\ call.errp
               /\ err' = (IF full = 0 THEN VAL_LAST_READ_0 ELSE full)
               /\ Return(call.acc)
            \/ /\ full <= 0 /\ ~call.errp
               /\ Return(IF full = 0 \/ full < VAL THEN call.acc ELSE full)
               /\ UNCHANGED err
            \/ /\ full > 0 /\ full # BufferPtrSize(buf)
               /\ Return(call.acc + full)
               /\ UNCHANGED err
            \/ /\ full > 0 /\ full = BufferPtrSize(buf)
               /\ call' = [call EXCEPT !.acc = @ + full]
               /\ UNCHANGED <<pc, ret, err>>
  /\ UNCHANGED kernel

AllavailNoMemory ==
  /\ Running("allavail")
  /\ ExtendMayFail(BuffSize)
  /\ IF call.errp THEN err' = ERR_MEMORY_ALLOC /\ Return(call.acc)
     ELSE Return(ERR_MEMORY_ALLOC) /\ UNCHANGED err
  /\ UNCHANGED <<b, object, kernel, pos>>

\* rdflReader_singlestep
Singlestep ==
  /\ Running("singlestep")
  /\ \/ \E buf \in Extended(BuffSize) :
          \E r \in ReadResults(BufferPtrSize(buf)) : PushRead(buf, r) /\ Return(r)
     \/ /\ ExtendMayFail(BuffSize)
        /\ Return(ERR_MEMORY_ALLOC)
        /\ UNCHANGED <<b, object, pos>>
  /\ UNCHANGED <<kernel, err>>

\* rdflReader_noextend, after its b_consume_size.
NoextendRead ==
  /\ Running("noextend")
  /\ \/ /\ BufferPtrSize(b) = 0
        /\ Return(ERR_NOSPACELEFT)
        /\ UNCHANGED <<b, object, pos>>
     \/ /\ BufferPtrSize(b) # 0
        /\ \E r \in ReadResults(BufferPtrSize(b)) : PushRead(b, r) /\ Return(r)
  /\ UNCHANGED <<kernel, err>>

\* rdflReader_monitoring and rdflReader_monitoring_noextend
MonitoringRead ==
  /\ pc = "run" /\ call.op \in {"monitoring", "monitoring_noextend"}
  /\ \E r \in MonitoringResults :
       Monitoring(call.op = "monitoring", r) /\ Return(r)
  /\ UNCHANGED <<kernel, err>>

\* One iteration of rdflReader_monitoring_allavail.  Without err, an end of file
\* is returned as 0 whatever was read before it.
MonitoringAllavailRead ==
  /\ Running("monitoring_allavail")
  /\ \E r \in MonitoringResults :
       /\ Monitoring(TRUE, r)
       /\ \/ /\ r > 0
             /\ call' = [call EXCEPT !.acc = @ + r]
             /\ UNCHANGED <<pc, ret, err>>
          \/ /\ r <= 0 /\ call.errp
             /\ err' = (IF r = 0 THEN VAL_LAST_READ_0 ELSE r)
             /\ Return(call.acc)
          \/ /\ r <= 0 /\ ~call.errp
             /\ Return(IF r > VAL THEN r ELSE call.acc)
             /\ UNCHANGED err
  /\ UNCHANGED kernel

-----------------------------------------------------------------------------
(* b_consume_size: its loop, on behalf of the call that entered it *)

ConsumeFirst ==
  /\ pc = "consume" /\ call.value > 0 /\ call.value >= b.l_total
  /\ b' = DropFirst(b)
  /\ call' = [call EXCEPT !.value = @ - b.l_total]
  /\ UNCHANGED <<object, kernel, pos, pc, ret, err>>

ConsumePart ==
  /\ pc = "consume" /\ call.value > 0 /\ call.value < b.l_total
  /\ b' = DropPart(b, call.value)
  /\ call' = [call EXCEPT !.value = 0]
  /\ UNCHANGED <<object, kernel, pos, pc, ret, err>>

\* rdfl_consume_size and the flushes end with b_fullclean_if_empty when
\* RDFL_FULLEMPTY is set.
CleanIfFullempty ==
  b' = IF "FULLEMPTY" \in settings THEN FullcleanIfEmpty(b) ELSE b

\* The loop is over: rdfl_consume_size returns, the others go on.
ConsumeDone ==
  /\ pc = "consume" /\ call.value = 0
  /\ \/ /\ call.op = "consume_size"
        /\ CleanIfFullempty
        /\ Return(ERR_NONE)
     \/ /\ call.op # "consume_size"
        /\ pc' = "run"
        /\ UNCHANGED <<b, call, ret>>
  /\ UNCHANGED <<object, kernel, pos, err>>

-----------------------------------------------------------------------------
(* The consumers *)

CallConsumeSize ==
  /\ \E n \in Counts :
       Enter("consume_size", "consume", Consuming(NoCall, n))
  /\ UNCHANGED <<b, object, kernel, pos>>

\* rdfl_flush_all_alloc and rdfl_flush_firstbuffer_alloc, up to their loop: what
\* they are to deliver, and the block malloc'ed for it.
CallFlush ==
  /\ Idle
  /\ \E op \in {"flush_all", "flush_firstbuffer"} :
       LET amount == IF op = "flush_all" THEN b.total ELSE b.l_total IN
       \/ /\ amount = 0 \/ amount > MaxAlloc \/ "malloc" \in Faults
          /\ ret' = IF amount = 0 THEN 0 ELSE ERR_MEMORY_ALLOC
          /\ err' = ERR_NONE
          /\ UNCHANGED <<pc, call>>
       \/ /\ amount \in 1 .. MaxAlloc
          /\ Enter(op, "run", [NoCall EXCEPT !.count = amount, !.want = Len(b.raw)])
  /\ UNCHANGED <<b, object, kernel, pos>>

\* Variants for mutation: the last chunk is left out; the flush of all bytes
\* waits for the list to be empty.
FlushGoesOnEarly == IF call.op = "flush_all" THEN Len(b.raw) > 1 ELSE Len(b.raw) = call.want
FlushGoesOnChunks == IF call.op = "flush_all" THEN b.raw # <<>> ELSE Len(b.raw) = call.want

\* The loop conditions of b_consume_all_alloc and b_consume_firstbuffer_alloc.
\* The latter compares consumer.raw with its value at the beginning: a chunk
\* leaves the list only by being freed.
FlushGoesOn == IF call.op = "flush_all" THEN b.total > 0 ELSE Len(b.raw) = call.want

Flushing == pc = "run" /\ call.op \in {"flush_all", "flush_firstbuffer"}

\* consume_next_chunk, up to its b_consume_size.
FlushCopy ==
  /\ Flushing /\ FlushGoesOn
  /\ LET s == ConsumerPtrSize(b) IN
       call' = Consuming([call EXCEPT !.out = @ \o Piece(FirstChunk(b), b.cndx, s)], s)
  /\ pc' = "consume"
  /\ UNCHANGED <<b, object, kernel, pos, ret, err>>

FlushDone ==
  /\ Flushing /\ ~FlushGoesOn
  /\ CleanIfFullempty
  /\ Return(call.count)
  /\ UNCHANGED <<object, kernel, pos, err>>

\* b_set_skip, which only the DEVEL build checks.  Otherwise it is the caller's duty
\* to skip unread bytes only: a precondition, which the predata skipping of iterate.c
\* itself breaks in the cases that module Iterate shows.
SetSkip ==
  /\ Idle
  /\ \E value \in Counts :
       \/ /\ DevelBuild /\ value >= b.total
          /\ ret' = ERRDEV_OUTOFBOUND
          /\ UNCHANGED b
       \/ /\ value < b.total \/ (~DevelBuild /\ value = b.total)
          /\ ret' = ERR_NONE
          /\ b' = [b EXCEPT !.skip = value]
  /\ UNCHANGED <<object, kernel, pos, pc, call, err>>

\* rdfl_clean: the descriptor once more, then every chunk.
Clean ==
  /\ Idle
  /\ CloseFd
  /\ b' = NullBuffer
  /\ pc' = "cleaned"
  /\ UNCHANGED <<kernel, pos, call, ret, err>>

\* Nothing is called on a cleaned object.
Cleaned == pc = "cleaned" /\ UNCHANGED vars

-----------------------------------------------------------------------------

\* The object as rdfl_load leaves it.
Init ==
  /\ settings \in Settings
  /\ b = IF settings \cap {"ADJUST_BUFFSIZE", "FULLEMPTY"} # {}
         THEN NullBuffer ELSE AddBuffer(NullBuffer, BuffSize)
  /\ timeout \in Timeouts
  /\ fd = "open" /\ closes = 0
  /\ sent = 0 /\ peer = "open" /\ pos = 0
  /\ pc = "idle" /\ call = NoCall /\ ret = 0 /\ err = ERR_NONE

Calls == CallReader \/ CallConsumeSize \/ CallFlush \/ SetSkip \/ Clean

\* The steps of a call under way.
Body ==
  \/ SizeRead \/ SizeNoMemory \/ SizeDone
  \/ AllavailRead \/ AllavailNoMemory
  \/ Singlestep \/ NoextendRead \/ MonitoringRead \/ MonitoringAllavailRead
  \/ ConsumeFirst \/ ConsumePart \/ ConsumeDone
  \/ FlushCopy \/ FlushDone

Peer == PeerWrite \/ PeerClose

Next == Calls \/ Body \/ Peer \/ Cleaned

\* A call under way goes on as long as it is not blocked; the peer eventually
\* closes its end.
\* (With Faults, fairness would force a failure on a blocked call: the liveness
\* properties are for Faults = {}.)
Spec == Init /\ [][Next]_vars
FairSpec == Spec /\ WF_vars(Body) /\ WF_vars(PeerClose)

\* The same, with a peer that may stay silent for ever.
SilentSpec == Spec /\ WF_vars(Body)

-----------------------------------------------------------------------------
(* Correctness *)

AllSettings ==
  {"ADJUST_BUFFSIZE", "FULLEMPTY", "AUTOCLOSE", "LOCAL_OPEN", "LOCAL_REACHED_EOF"}

CallType ==
  [op : Ops, errp : BOOLEAN, count : Nat, want : Nat, acc : Nat, value : Nat,
   out : Seq(Int), start : Nat, base : Nat, skipped : BOOLEAN, asked : Nat]

\* The type of every variable; what was read was sent.
TypeOK ==
  /\ b \in BufferType
  /\ settings \in SUBSET AllSettings
  /\ timeout \in {"none", "finite"}
  /\ fd \in {"open", "closed"}
  /\ closes \in Nat
  /\ sent \in 0 .. StreamLength
  /\ peer \in {"open", "closed"}
  /\ pos \in 0 .. sent
  /\ pc \in {"idle", "run", "consume", "cleaned"}
  /\ call \in CallType
  /\ ret \in Int
  /\ err \in Int

\* Every unread byte lies where b_consumer_ptr and the iterator look for it, in
\* the order of the stream, whatever sequence of reads, growths, wraps and
\* partial consumptions came before: addsize, b_buffer_ptr, b_consume_size and
\* delete_consumer_blist_restat agree on one reading of the counters, so a
\* read(2) never lands on a byte that is still to be consumed.
BufferSound == Geometry(b) /\ Stored(b, pos)

\* The skip offset never passes the unread bytes, and b_consume_size spends it:
\* what is left to consume covers what is left to skip, so that skip is 0 when
\* the loop is over ("skip will never be >total", iterate.c:37).
SkipSound ==
  /\ b.skip <= b.total
  /\ pc = "consume" => b.skip <= call.value /\ call.value <= b.total

\* The bytes that have left the buffer since a call began are those it asked
\* b_consume_size to drop, less those that call has not reached yet: the readers
\* drop nothing, and no chunk boundary, wrap or clean-up drops one byte more.
ConsumesExactly ==
  pc \in {"run", "consume"} =>
    pos - b.total = call.base + call.asked - call.value

\* b_buffer_ptr finds no room only where there is none: at a full ring, or at a
\* full last chunk (buffer.ndx = consumer.ndx is both the empty and the full
\* ring), and b_consumer_ptr shows a byte whenever there is one to consume.
RoomIsExact ==
  /\ b.raw # <<>> =>
       (BufferPtrSize(b) = 0 <=> Len(LastChunk(b)) = IF Single(b) THEN b.l_total ELSE b.bndx)
  /\ ConsumerPtrSize(b) = 0 <=> b.total = 0

\* A flush never writes past the block it allocated; and, unless the buffer had
\* bytes to skip when it was called, it fills the block with the unread bytes in
\* order, all of them when it ends (consume_next_chunk copies from
\* consumer.ndx, then b_consume_size moves on by as much).
FlushExact ==
  pc \in {"run", "consume"} /\ call.op \in {"flush_all", "flush_firstbuffer"} =>
    /\ Len(call.out) <= call.count
    /\ ~call.skipped =>
         /\ call.out = [i \in 1 .. call.asked |-> call.base + i - 1]
         /\ Flushing /\ ~FlushGoesOn => Len(call.out) = call.count

\* Without read errors, the end of file the object records is the peer's: every
\* byte it sent was read before (push_read closes on a read of 0 bytes; a read
\* into an empty window would give one too).
EofMeansAllRead ==
  EofReached /\ pc # "cleaned" => pos = sent /\ peer = "closed"

\* A reader that returns a count returns the bytes that entered the buffer
\* during the call, through every loop and early return; only
\* rdflReader_monitoring_allavail without err forgets them at the end of file.
ReturnsBytesRead ==
  [][ pc = "run" /\ pc' = "idle" /\ ret' >= 0
      /\ call.op \notin {"flush_all", "flush_firstbuffer"}
      /\ ~(call.op = "monitoring_allavail" /\ ~call.errp /\ EofReached')
      => ret' = pos' - call.start ]_vars

\* Unless RDFL_AUTOCLOSE is set, the descriptor is closed at most once, and only
\* if the library opened it: the end of file, a read error and rdfl_clean all
\* close it, in whatever order they come.
ClosesOnlyOpen ==
  [][ closes' # closes /\ "AUTOCLOSE" \notin settings =>
        fd = "open" /\ "LOCAL_OPEN" \in settings /\ "LOCAL_OPEN" \notin settings' ]_vars

\* b_consume_size ends, whatever the chunks are: an iteration frees or empties
\* the first chunk, or is the last.
ConsumeEnds == pc = "consume" ~> pc # "consume"

\* Every call returns once the peer has closed, except
\* rdfl_flush_firstbuffer_alloc on a buffer of one chunk, which loops until
\* consumer.raw changes, and leave_unique_consumer_blist keeps an only chunk.
CallsReturn ==
  pc = "run" /\ ~(call.op = "flush_firstbuffer" /\ call.want = 1) ~> pc = "idle"

\* With a timeout the monitoring readers return even when the peer stays silent
\* and open for ever.
MonitoringReturns ==
  timeout = "finite" /\ pc = "run"
    /\ call.op \in {"monitoring", "monitoring_noextend", "monitoring_allavail"}
  ~> pc = "idle"

=============================================================================
