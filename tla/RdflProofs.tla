----------------------------- MODULE RdflProofs -----------------------------
(***************************************************************************)
(* What holds of an rdfl object after any sequence of calls, for every     *)
(* buffer size, allocation limit, stream length and set of counts: its     *)
(* invariants, and what its calls tell of the stream below it, the end of  *)
(* file it records, the descriptor it closes, the counts its readers       *)
(* return, the blocks its flushes fill.                                    *)
(***************************************************************************)
EXTENDS Rdfl, BufferProofs, SequenceTheorems

USE RdflAssumption

\* The inductive invariant, in the parts that the actions disturb separately.
Sound == b \in BufferType /\ Geometry(b) /\ Stored(b, pos) /\ b.skip <= b.total

ObjectOK ==
  /\ settings \in SUBSET AllSettings
  /\ timeout \in {"none", "finite"}
  /\ fd \in {"open", "closed"}
  /\ closes \in Nat

KernelOK ==
  /\ sent \in 0 .. StreamLength
  /\ peer \in {"open", "closed"}
  /\ pos \in 0 .. sent

CallOK ==
  /\ pc \in {"idle", "run", "consume", "cleaned"}
  /\ call \in CallType
  /\ ret \in Int
  /\ err \in Int

\* The bytes a call has disposed of, those it has still to dispose of; a flush
\* began with a chunk.
Ledger ==
  /\ pc = "consume" => b.skip <= call.value /\ call.value <= b.total
  /\ pc \in {"run", "consume"} => pos - b.total = call.base + call.asked - call.value
  /\ pc = "run" => call.value = 0
  /\ pc \in {"run", "consume"} /\ call.op = "flush_firstbuffer" => call.want > 0

IInv == Sound /\ ObjectOK /\ KernelOK /\ CallOK /\ Ledger

-----------------------------------------------------------------------------
(* The helpers *)

LEMMA NoCallType == NoCall \in CallType /\ NoCall.value = 0 /\ NoCall.asked = 0
  BY DEF NoCall, CallType, Ops

LEMMA ConstantTypes ==
  /\ MaxAlloc \in Nat /\ BuffSize \in 1 .. MaxAlloc /\ BuffSize \in Nat \ {0}
  /\ Counts \subseteq Nat /\ StreamLength \in Nat
  BY MaxAllocAssumption, RdflAssumption

\* _close_fd keeps the object's fields typed.
LEMMA CloseFdOK ==
  ASSUME ObjectOK, CloseFd
  PROVE  ObjectOK'
  BY DEF ObjectOK, CloseFd, AllSettings

LEMMA SameObjectOK ==
  ASSUME ObjectOK, UNCHANGED object
  PROVE  ObjectOK'
  BY DEF ObjectOK, object

\* b_buffer_ptr_extend leaves a sound buffer with room in it and the same bytes.
LEMMA ExtendedSound ==
  ASSUME Sound, pos \in Nat, NEW amount \in Nat, amount > 0, NEW buf \in Extended(amount)
  PROVE  /\ buf \in BufferType /\ Geometry(buf) /\ Stored(buf, pos)
         /\ buf.skip <= buf.total /\ buf.total = b.total
         /\ Len(buf.raw) > 0 /\ BufferPtrSize(buf) \in Nat \ {0}
<1>s. b \in BufferType /\ Geometry(b) /\ Stored(b, pos) /\ b.skip <= b.total
  BY DEF Sound
<1>1. CASE BufferPtrSize(b) # 0
  <2>1. buf = b
    BY <1>1 DEF Extended
  <2>2. Len(b.raw) > 0
    BY <1>s, <1>1, Fields DEF BufferPtrSize
  <2>3. BufferPtrSize(b) \in Nat
    BY <1>s, <2>2, NoRoomMeansFull
  <2> QED BY <1>s, <1>1, <2>1, <2>2, <2>3, Zenon
<1>2. CASE BufferPtrSize(b) = 0
  <2>1. buf = AddBuffer(b, amount) /\ amount \in 1 .. MaxAlloc
    BY <1>2, ConstantTypes DEF Extended
  <2>2. /\ AddBuffer(b, amount) \in BufferType
        /\ Geometry(AddBuffer(b, amount)) /\ Stored(AddBuffer(b, amount), pos)
        /\ Len(AddBuffer(b, amount).raw) > 0
        /\ AddBuffer(b, amount).total = b.total /\ AddBuffer(b, amount).skip = b.skip
        /\ BufferPtrSize(AddBuffer(b, amount)) = amount
    BY <1>s, <1>2, <2>1, AddBufferSound
  <2> QED BY <1>s, <2>1, <2>2
<1> QED BY <1>1, <1>2

\* push_read into the room a sound buffer has: the bytes that enter the buffer
\* are those read, and nothing else moves.
LEMMA PushReadSound ==
  ASSUME Sound, ObjectOK, KernelOK, UNCHANGED kernel,
         NEW buf, buf \in BufferType, Geometry(buf), Stored(buf, pos),
         buf.skip <= buf.total, buf.total = b.total, Len(buf.raw) > 0,
         NEW room \in Nat, room <= BufferPtrSize(buf),
         NEW r \in ReadResults(room), PushRead(buf, r)
  PROVE  /\ r \in Int /\ r <= room
         /\ Sound' /\ ObjectOK' /\ KernelOK'
         /\ pos' - b'.total = pos - b.total
<1>k. /\ sent \in Nat /\ pos \in Nat /\ pos <= sent /\ sent' = sent /\ peer' = peer
      /\ sent \in 0 .. StreamLength /\ peer \in {"open", "closed"}
  BY ConstantTypes DEF KernelOK, kernel
<1>t. /\ b.total \in Nat /\ b \in BufferType /\ buf.total \in Nat /\ buf.skip \in Nat
      /\ BufferPtrSize(buf) \in Nat
  BY Fields, NoRoomMeansFull DEF Sound
<1>r. r \in Int /\ r <= room /\ (~EofReached /\ r >= 0 => r <= sent - pos)
  BY <1>k DEF ReadResults, Min2, ERR_READ
<1>1. CASE EofReached
  <2>1. b' = buf /\ pos' = pos /\ UNCHANGED object
    BY <1>1 DEF PushRead
  <2>2. Sound'
    BY <2>1 DEF Sound
  <2>3. KernelOK'
    BY <1>k, <2>1 DEF KernelOK
  <2>4. pos' - b'.total = pos - b.total
    BY <2>1, Zenon
  <2> QED BY <1>r, <2>1, <2>2, <2>3, <2>4, SameObjectOK
<1>2. CASE ~EofReached
  <2>o. ObjectOK'
    <3>1. CASE r <= 0
      BY <1>2, <3>1, CloseFdOK DEF PushRead
    <3>2. CASE ~(r <= 0)
      BY <1>2, <3>2, SameObjectOK DEF PushRead
    <3> QED BY <3>1, <3>2
  <2>1. CASE r < 0
    <3>1. b' = buf /\ pos' = pos
      BY <1>2, <1>r, <2>1 DEF PushRead
    <3>2. Sound'
      BY <3>1 DEF Sound
    <3>3. KernelOK'
      BY <1>k, <3>1 DEF KernelOK
    <3>4. pos' - b'.total = pos - b.total
      BY <3>1, Zenon
    <3> QED BY <1>r, <2>o, <3>2, <3>3, <3>4
  <2>2. CASE r >= 0
    <3>0. r \in Nat /\ r \in 0 .. BufferPtrSize(buf)
      BY <1>r, <1>t, <2>2
    <3>1. b' = PushBytes(buf, r, pos) /\ pos' = pos + r
      BY <1>2, <1>r, <2>2 DEF PushRead
    <3> DEFINE c == PushBytes(buf, r, pos)
    <3>2. /\ c \in BufferType /\ Geometry(c) /\ Stored(c, pos + r)
          /\ c.total = buf.total + r /\ c.skip = buf.skip
      BY <1>k, <3>0, PushBytesSound
    <3>3. b' = c
      BY <3>1
    <3> HIDE DEF c
    <3>4. b'.total = b.total + r /\ b'.skip <= b'.total
      <4>1. c.skip <= c.total
        BY <1>t, <3>0, <3>2
      <4> QED BY <3>2, <3>3, <4>1, Zenon
    <3>5. Sound'
      BY <3>1, <3>2, <3>3, <3>4, Zenon DEF Sound
    <3>6. KernelOK'
      BY <1>k, <1>r, <1>2, <2>2, <3>0, <3>1 DEF KernelOK
    <3>7. pos' - b'.total = pos - b.total
      <4>1. (pos + r) - (b.total + r) = pos - b.total
        BY <1>k, <1>t, <3>0
      <4> QED BY <3>1, <3>4, <4>1, Zenon
    <3> QED BY <1>r, <2>o, <3>5, <3>6, <3>7
  <2> QED BY <1>r, <2>1, <2>2
<1> QED BY <1>1, <1>2

\* Beginning and ending a call.
LEMMA SameObjectParts ==
  ASSUME IInv, UNCHANGED <<b, object, kernel, pos>>
  PROVE  Sound' /\ ObjectOK' /\ KernelOK'
<1>1. b' = b /\ pos' = pos /\ sent' = sent /\ peer' = peer /\ UNCHANGED object
  BY DEF kernel
<1>2. Sound'
  BY <1>1 DEF IInv, Sound
<1>3. KernelOK'
  BY <1>1 DEF IInv, KernelOK
<1> QED BY <1>1, <1>2, <1>3, SameObjectOK DEF IInv

LEMMA ReturnOK ==
  ASSUME NEW r \in Int, Return(r), err' \in Int
  PROVE  CallOK' /\ Ledger'
<1>1. pc' = "idle" /\ call' = NoCall /\ ret' = r
  BY DEF Return
<1>2. CallOK'
  BY <1>1, NoCallType DEF CallOK
<1>3. Ledger'
  BY <1>1 DEF Ledger
<1> QED BY <1>2, <1>3

LEMMA EnterFields ==
  ASSUME IInv, NEW op \in Ops, NEW next \in {"run", "consume"}, NEW locals \in CallType,
         Enter(op, next, locals)
  PROVE  /\ call' \in CallType /\ CallOK' /\ pc' = next
         /\ call'.op = op /\ call'.base = pos - b.total
         /\ call'.value = locals.value /\ call'.asked = locals.asked
         /\ call'.want = locals.want
<1>1. pos \in Nat /\ pos - b.total \in Nat
  <2>1. b.total \in Nat /\ b.total <= pos
    BY Fields DEF IInv, Sound, Stored
  <2>2. pos \in Nat
    BY DEF IInv, KernelOK
  <2> QED BY <2>1, <2>2
<1>2. (b.skip # 0) \in BOOLEAN
  OBVIOUS
<1> DEFINE c == [locals EXCEPT !.op = op, !.start = pos, !.base = pos - b.total,
                               !.skipped = b.skip # 0]
<1>3. call' = c /\ pc' = next /\ ret' = 0 /\ err' = ERR_NONE
  BY DEF Enter
<1>4. /\ c \in CallType /\ c.op = op /\ c.base = pos - b.total
      /\ c.value = locals.value /\ c.asked = locals.asked /\ c.want = locals.want
  BY <1>1, <1>2 DEF CallType
<1> HIDE DEF c
<1>5. CallOK'
  BY <1>3, <1>4 DEF CallOK, ERR_NONE
<1> QED BY <1>3, <1>4, <1>5, Zenon

LEMMA EnterRunOK ==
  ASSUME IInv, UNCHANGED <<b, object, kernel, pos>>,
         NEW op \in Ops, NEW locals \in CallType, Enter(op, "run", locals),
         locals.value = 0, locals.asked = 0, op = "flush_firstbuffer" => locals.want > 0
  PROVE  IInv'
<1>1. Sound' /\ ObjectOK' /\ KernelOK'
  BY SameObjectParts
<1>2. /\ CallOK' /\ pc' = "run" /\ call'.op = op /\ call'.base = pos - b.total
      /\ call'.value = 0 /\ call'.asked = 0 /\ call'.want = locals.want
  BY EnterFields, Zenon
<1>3. Ledger'
  <2>1. pos - b.total = (pos - b.total) + 0 - 0
    <3>1. pos \in Int /\ b.total \in Int
      BY Fields DEF IInv, Sound, KernelOK
    <3> QED BY <3>1
  <2>2. pos' - b'.total = call'.base + call'.asked - call'.value
    BY <1>2, <2>1, Zenon
  <2>3. call'.op = "flush_firstbuffer" => call'.want > 0
    BY <1>2, Zenon
  <2> QED BY <1>2, <2>2, <2>3 DEF Ledger
<1> QED BY <1>1, <1>2, <1>3 DEF IInv

LEMMA ConsumeValueBounds ==
  ASSUME Sound, NEW v \in Nat
  PROVE  /\ ConsumeValue(b, v) \in Nat
         /\ b.skip <= ConsumeValue(b, v) /\ ConsumeValue(b, v) <= b.total
<1>1. b.skip \in Nat /\ b.total \in Nat /\ b.skip <= b.total
  BY Fields DEF Sound
<1> QED BY <1>1 DEF ConsumeValue

\* What Consuming makes of the locals.
LEMMA ConsumingFields ==
  ASSUME Sound, NEW v \in Nat, NEW locals \in CallType
  PROVE  LET c == Consuming(locals, v) IN
         /\ c \in CallType /\ c.value = ConsumeValue(b, v)
         /\ c.asked = locals.asked + ConsumeValue(b, v)
         /\ c.base = locals.base /\ c.want = locals.want /\ c.op = locals.op
<1>1. ConsumeValue(b, v) \in Nat /\ locals.asked + ConsumeValue(b, v) \in Nat
  <2>1. locals.asked \in Nat
    BY DEF CallType
  <2>2. ConsumeValue(b, v) \in Nat
    BY ConsumeValueBounds
  <2> QED BY <2>1, <2>2
<1> QED BY <1>1 DEF Consuming, CallType

LEMMA EnterConsumeOK ==
  ASSUME IInv, UNCHANGED <<b, object, kernel, pos>>,
         NEW op \in Ops, op # "flush_firstbuffer", NEW v \in Nat,
         Enter(op, "consume", Consuming(NoCall, v))
  PROVE  IInv'
<1> DEFINE n == ConsumeValue(b, v)
           c == Consuming(NoCall, v)
<1>1. Sound' /\ ObjectOK' /\ KernelOK' /\ b' = b /\ pos' = pos
  BY SameObjectParts
<1>2. n \in Nat /\ b.skip <= n /\ n <= b.total
  BY ConsumeValueBounds DEF IInv
<1>3. c \in CallType /\ c.value = n /\ c.asked = NoCall.asked + n
  BY NoCallType, ConsumingFields DEF IInv
<1>4. c.asked = n
  BY <1>2, <1>3 DEF NoCall
<1>5. Enter(op, "consume", c)
  OBVIOUS
<1> HIDE DEF c
<1>6. /\ CallOK' /\ pc' = "consume" /\ call'.op = op /\ call'.base = pos - b.total
      /\ call'.value = c.value /\ call'.asked = c.asked
  BY <1>3, <1>5, EnterFields, Zenon
<1> HIDE DEF n
<1>7. Ledger'
  <2>1. pos - b.total = (pos - b.total) + n - n
    <3>1. pos \in Int /\ b.total \in Int
      BY Fields DEF IInv, Sound, KernelOK
    <3> QED BY <1>2, <3>1
  <2>2. pos' - b'.total = call'.base + call'.asked - call'.value
    BY <1>1, <1>3, <1>4, <1>6, <2>1, Zenon
  <2>3. b'.skip <= call'.value /\ call'.value <= b'.total
    BY <1>1, <1>2, <1>3, <1>6, Zenon
  <2>4. call'.op # "flush_firstbuffer"
    BY <1>6, Zenon
  <2> QED BY <1>6, <2>2, <2>3, <2>4 DEF Ledger
<1> QED BY <1>1, <1>6, <1>7 DEF IInv

-----------------------------------------------------------------------------
(* The calls *)

LEMMA CallReaderKeeps == ASSUME IInv, CallReader PROVE IInv'
<1>u. UNCHANGED <<b, object, kernel, pos>>
  BY DEF CallReader
<1>1. ASSUME NEW n \in Counts, Enter("size", "run", [NoCall EXCEPT !.count = n, !.want = n])
      PROVE  IInv'
  <2> DEFINE locals == [NoCall EXCEPT !.count = n, !.want = n]
  <2>1. locals \in CallType /\ locals.value = 0 /\ locals.asked = 0
    BY ConstantTypes, NoCallType DEF CallType
  <2>2. Enter("size", "run", locals) /\ "size" \in Ops
    BY <1>1 DEF Ops
  <2> HIDE DEF locals
  <2> QED BY <1>u, <2>1, <2>2, EnterRunOK
<1>2. ASSUME NEW op \in {"allavail", "monitoring_allavail"}, NEW errp \in BOOLEAN,
             Enter(op, "run", [NoCall EXCEPT !.errp = errp])
      PROVE  IInv'
  <2> DEFINE locals == [NoCall EXCEPT !.errp = errp]
  <2>1. locals \in CallType /\ locals.value = 0 /\ locals.asked = 0
    BY NoCallType DEF CallType
  <2>2. Enter(op, "run", locals) /\ op \in Ops /\ op # "flush_firstbuffer"
    BY <1>2 DEF Ops
  <2> HIDE DEF locals
  <2> QED BY <1>u, <2>1, <2>2, EnterRunOK
<1>3. ASSUME NEW op \in {"singlestep", "monitoring", "monitoring_noextend"},
             Enter(op, "run", NoCall)
      PROVE  IInv'
  <2>1. NoCall.value = 0 /\ NoCall.asked = 0
    BY DEF NoCall
  <2>2. op \in Ops /\ op # "flush_firstbuffer"
    BY DEF Ops
  <2> QED BY <1>u, <1>3, <2>1, <2>2, NoCallType, EnterRunOK
<1>4. ASSUME NEW n \in Counts, Enter("noextend", "consume", Consuming(NoCall, n))
      PROVE  IInv'
  <2>1. n \in Nat /\ "noextend" \in Ops
    BY ConstantTypes DEF Ops
  <2> QED BY <1>u, <1>4, <2>1, EnterConsumeOK
<1> QED BY <1>1, <1>2, <1>3, <1>4 DEF CallReader

LEMMA CallConsumeSizeKeeps == ASSUME IInv, CallConsumeSize PROVE IInv'
<1>u. UNCHANGED <<b, object, kernel, pos>>
  BY DEF CallConsumeSize
<1>1. PICK n \in Counts : Enter("consume_size", "consume", Consuming(NoCall, n))
  BY DEF CallConsumeSize
<1>2. n \in Nat /\ "consume_size" \in Ops
  BY ConstantTypes DEF Ops
<1> QED BY <1>u, <1>1, <1>2, EnterConsumeOK

LEMMA CallFlushKeeps == ASSUME IInv, CallFlush PROVE IInv'
<1>u. UNCHANGED <<b, object, kernel, pos>>
  BY DEF CallFlush
<1>b. b \in BufferType /\ b.total \in Nat /\ b.l_total \in Nat
  BY Fields DEF IInv, Sound
<1> DEFINE amount(op) == IF op = "flush_all" THEN b.total ELSE b.l_total
<1>1. PICK op \in {"flush_all", "flush_firstbuffer"} :
        \/ /\ ret' = IF amount(op) = 0 THEN 0 ELSE ERR_MEMORY_ALLOC
           /\ err' = ERR_NONE
           /\ UNCHANGED <<pc, call>>
        \/ /\ amount(op) \in 1 .. MaxAlloc
           /\ Enter(op, "run", [NoCall EXCEPT !.count = amount(op), !.want = Len(b.raw)])
  BY DEF CallFlush
<1>2. amount(op) \in Nat
  BY <1>b
<1>3. Idle
  BY DEF CallFlush
<1>4. CASE /\ ret' = IF amount(op) = 0 THEN 0 ELSE ERR_MEMORY_ALLOC
           /\ err' = ERR_NONE
           /\ UNCHANGED <<pc, call>>
  <2>1. Sound' /\ ObjectOK' /\ KernelOK'
    BY <1>u, SameObjectParts
  <2>2. CallOK'
    BY <1>4 DEF IInv, CallOK, ERR_NONE, ERR_MEMORY_ALLOC
  <2>3. Ledger'
    BY <1>3, <1>4 DEF Ledger, Idle
  <2> QED BY <2>1, <2>2, <2>3 DEF IInv
<1>5. CASE /\ amount(op) \in 1 .. MaxAlloc
           /\ Enter(op, "run", [NoCall EXCEPT !.count = amount(op), !.want = Len(b.raw)])
  <2> DEFINE locals == [NoCall EXCEPT !.count = amount(op), !.want = Len(b.raw)]
  <2>n. PICK n \in Nat : n = Len(b.raw)
    BY <1>b, Fields
  <2>1. n > 0
    <3>1. CASE n < 1
      <4>1. b.l_total = 0 /\ b.total = 0
        BY <2>n, <3>1 DEF IInv, Sound, Geometry, Single
      <4> QED BY <1>5, <4>1
    <3> QED BY <3>1
  <2>2. /\ locals \in CallType /\ locals.value = 0 /\ locals.asked = 0
        /\ locals.want = n
    BY <1>2, <2>n, NoCallType DEF CallType
  <2>3. Enter(op, "run", locals) /\ op \in Ops
    BY <1>5 DEF Ops
  <2> HIDE DEF locals
  <2> QED BY <1>u, <2>1, <2>2, <2>3, EnterRunOK
<1> QED BY <1>1, <1>4, <1>5

LEMMA SetSkipKeeps == ASSUME IInv, SetSkip PROVE IInv'
<1>s. /\ b \in BufferType /\ Geometry(b) /\ Stored(b, pos) /\ b.skip <= b.total
      /\ b.total \in Nat
  BY Fields DEF IInv, Sound
<1>u. /\ UNCHANGED object /\ pos' = pos /\ sent' = sent /\ peer' = peer /\ pc' = pc
      /\ call' = call /\ err' = err /\ pc = "idle"
  BY DEF SetSkip, kernel, Idle
<1>1. PICK value \in Counts :
        \/ ret' = ERRDEV_OUTOFBOUND /\ b' = b
        \/ /\ value < b.total \/ (~DevelBuild /\ value = b.total)
           /\ ret' = ERR_NONE
           /\ b' = [b EXCEPT !.skip = value]
  BY DEF SetSkip
<1>2. CallOK'
  <2>1. ret' \in Int
    BY <1>1 DEF ERRDEV_OUTOFBOUND, ERR_NONE
  <2> QED BY <1>u, <2>1 DEF IInv, CallOK
<1>3. Ledger'
  BY <1>u DEF Ledger
<1>4. KernelOK'
  BY <1>u DEF IInv, KernelOK
<1>5. Sound'
  <2>1. CASE b' = b
    BY <1>u, <2>1 DEF IInv, Sound
  <2>2. CASE /\ value < b.total \/ (~DevelBuild /\ value = b.total)
             /\ b' = [b EXCEPT !.skip = value]
    <3> DEFINE c == [b EXCEPT !.skip = value]
    <3>1. value \in Nat /\ value <= b.total
      BY <1>s, <2>2, ConstantTypes
    <3>2. /\ c \in BufferType /\ c.raw = b.raw /\ c.bndx = b.bndx /\ c.cndx = b.cndx
          /\ c.l_total = b.l_total /\ c.total = b.total /\ c.skip = value
      BY <1>s, <3>1 DEF BufferType
    <3>3. b' = c
      BY <2>2
    <3> HIDE DEF c
    <3>4. Geometry(c)
      BY <1>s, <3>2, Zenon DEF Geometry, Single, FirstChunk, LastChunk
    <3>5. Stored(c, pos)
      BY <1>s, <3>2, SMTT(30) DEF Stored, EndOffset, FirstChunk, LastChunk
    <3>6. c.skip <= c.total
      BY <3>1, <3>2, Zenon
    <3> QED BY <1>u, <3>2, <3>3, <3>4, <3>5, <3>6, Zenon DEF Sound
  <2> QED BY <1>1, <2>1, <2>2
<1> QED BY <1>u, <1>2, <1>3, <1>4, <1>5, SameObjectOK DEF IInv

LEMMA CleanKeeps == ASSUME IInv, Clean PROVE IInv'
<1>u. /\ CloseFd /\ b' = NullBuffer /\ pc' = "cleaned" /\ pos' = pos /\ sent' = sent
      /\ peer' = peer /\ call' = call /\ ret' = ret /\ err' = err
  BY DEF Clean, kernel
<1>1. pos \in Nat
  BY DEF IInv, KernelOK
<1>2. Sound'
  <2>1. NullBuffer.skip <= NullBuffer.total
    BY DEF NullBuffer
  <2> QED BY <1>u, <1>1, <2>1, NullBufferSound DEF Sound
<1>3. ObjectOK'
  BY <1>u, CloseFdOK DEF IInv
<1>4. KernelOK'
  BY <1>u DEF IInv, KernelOK
<1>5. CallOK'
  BY <1>u DEF IInv, CallOK
<1>6. Ledger'
  BY <1>u DEF Ledger
<1> QED BY <1>2, <1>3, <1>4, <1>5, <1>6 DEF IInv

LEMMA PeerKeeps == ASSUME IInv, Peer PROVE IInv'
<1>u. UNCHANGED <<b, object, pos, pc, call, ret, err>>
  BY DEF Peer, PeerWrite, PeerClose
<1>1. KernelOK'
  <2>1. sent \in Nat /\ pos \in Nat /\ pos <= sent
    BY ConstantTypes DEF IInv, KernelOK
  <2>2. CASE PeerWrite
    BY <1>u, <2>1, <2>2, ConstantTypes DEF IInv, KernelOK, PeerWrite
  <2>3. CASE PeerClose
    BY <1>u, <2>1, <2>3 DEF IInv, KernelOK, PeerClose
  <2> QED BY <2>2, <2>3 DEF Peer
<1>2. Sound' /\ CallOK' /\ Ledger'
  BY <1>u DEF IInv, Sound, CallOK, Ledger
<1> QED BY <1>u, <1>1, <1>2, SameObjectOK DEF IInv

-----------------------------------------------------------------------------
(* The steps of the readers *)

\* A reader goes on to its next iteration.
LEMMA StaysRunning ==
  ASSUME IInv, pc = "run", UNCHANGED <<pc, ret, err>>, call' \in CallType,
         call'.op = call.op, call'.base = call.base, call'.asked = call.asked,
         call'.value = call.value, call'.want = call.want,
         pos' - b'.total = pos - b.total
  PROVE  CallOK' /\ Ledger'
<1>1. /\ pos - b.total = call.base + call.asked - call.value /\ call.value = 0
      /\ call.op = "flush_firstbuffer" => call.want > 0
  BY DEF IInv, Ledger
<1>2. pos' - b'.total = call'.base + call'.asked - call'.value
  BY <1>1, Zenon
<1>3. call'.value = 0 /\ (call'.op = "flush_firstbuffer" => call'.want > 0)
  BY <1>1, Zenon
<1> QED BY <1>2, <1>3 DEF IInv, CallOK, Ledger

\* Whatever an iteration reads, into a buffer that b_buffer_ptr_extend returned.
LEMMA ExtendedRead ==
  ASSUME IInv, UNCHANGED kernel, NEW amount \in Nat, amount > 0,
         NEW buf \in Extended(amount),
         NEW room \in Nat, room <= BufferPtrSize(buf),
         NEW r \in ReadResults(room), PushRead(buf, r)
  PROVE  /\ r \in Int /\ r <= room
         /\ Sound' /\ ObjectOK' /\ KernelOK' /\ pos' - b'.total = pos - b.total
<1>1. Sound /\ ObjectOK /\ KernelOK /\ pos \in Nat
  BY DEF IInv, KernelOK
<1>2. /\ buf \in BufferType /\ Geometry(buf) /\ Stored(buf, pos)
      /\ buf.skip <= buf.total /\ buf.total = b.total /\ Len(buf.raw) > 0
  BY <1>1, ExtendedSound
<1> QED BY <1>1, <1>2, PushReadSound

LEMMA ExtendedRoom ==
  ASSUME IInv, NEW amount \in Nat, amount > 0, NEW buf \in Extended(amount)
  PROVE  BufferPtrSize(buf) \in Nat
<1>1. Sound /\ pos \in Nat
  BY DEF IInv, KernelOK
<1> QED BY <1>1, ExtendedSound

LEMMA SizeReadKeeps == ASSUME IInv, SizeRead PROVE IInv'
<1>u. UNCHANGED kernel /\ err' = err /\ pc = "run" /\ call.count > 0
  BY DEF SizeRead, Running
<1>c. /\ call \in CallType /\ call.count \in Nat /\ call.want \in Nat /\ err \in Int
  BY DEF IInv, CallOK, CallType
<1>a. SizeAmount \in Nat /\ SizeAmount > 0
  BY <1>u, <1>c, ConstantTypes DEF SizeAmount
<1>1. PICK buf \in Extended(SizeAmount) :
        \E s \in ReadResults(Min2(BufferPtrSize(buf), call.count)) :
          /\ PushRead(buf, s)
          /\ IF s < 0 THEN Return(s)
             ELSE IF s # Min2(BufferPtrSize(buf), call.count) THEN Return(SizeShort(s))
             ELSE /\ call' = [call EXCEPT !.count = @ - s]
                  /\ UNCHANGED <<pc, ret>>
  BY DEF SizeRead
<1> DEFINE available == Min2(BufferPtrSize(buf), call.count)
<1>2. /\ available \in Nat /\ available <= BufferPtrSize(buf)
      /\ available <= call.count
  <2>1. BufferPtrSize(buf) \in Nat
    BY <1>a, ExtendedRoom
  <2> QED BY <1>c, <2>1 DEF Min2
<1> HIDE DEF available
<1>3. PICK s \in ReadResults(available) :
        /\ PushRead(buf, s)
        /\ IF s < 0 THEN Return(s)
           ELSE IF s # available THEN Return(SizeShort(s))
           ELSE /\ call' = [call EXCEPT !.count = @ - s]
                /\ UNCHANGED <<pc, ret>>
  BY <1>1, Zenon DEF available
<1>4. /\ s \in Int /\ s <= available
      /\ Sound' /\ ObjectOK' /\ KernelOK' /\ pos' - b'.total = pos - b.total
  BY <1>u, <1>a, <1>2, <1>3, ExtendedRead
<1>5. CallOK' /\ Ledger'
  <2>1. CASE s < 0
    BY <1>u, <1>c, <1>3, <1>4, <2>1, ReturnOK
  <2>2. CASE ~(s < 0) /\ s # available
    <3>1. Return(SizeShort(s)) /\ SizeShort(s) \in Int
      BY <1>3, <1>c, <1>4, <2>2 DEF SizeShort
    <3> QED BY <1>u, <1>c, <3>1, ReturnOK
  <2>3. CASE ~(s < 0) /\ s = available
    <3>1. call' = [call EXCEPT !.count = @ - s] /\ UNCHANGED <<pc, ret>>
      BY <1>3, <2>3
    <3>2. call.count - s \in Nat
      BY <1>c, <1>2, <1>4, <2>3
    <3>3. /\ call' \in CallType /\ call'.op = call.op /\ call'.base = call.base
          /\ call'.asked = call.asked /\ call'.value = call.value /\ call'.want = call.want
      BY <1>c, <3>1, <3>2 DEF CallType
    <3> QED BY <1>u, <1>4, <3>1, <3>3, StaysRunning
  <2> QED BY <2>1, <2>2, <2>3
<1> QED BY <1>4, <1>5 DEF IInv

\* Returning without having touched anything else.
LEMMA ReturnKeeps ==
  ASSUME IInv, UNCHANGED <<b, object, kernel, pos>>, NEW r \in Int, Return(r), err' \in Int
  PROVE  IInv'
  BY SameObjectParts, ReturnOK DEF IInv

LEMMA SizeOtherKeeps == ASSUME IInv, SizeNoMemory \/ SizeDone PROVE IInv'
<1>1. UNCHANGED <<b, object, kernel, pos>> /\ err' \in Int
  BY DEF SizeNoMemory, SizeDone, IInv, CallOK
<1>2. CASE SizeNoMemory
  BY <1>1, <1>2, ReturnKeeps DEF SizeNoMemory, ERR_MEMORY_ALLOC
<1>3. CASE SizeDone
  <2>1. call.want \in Int
    BY DEF IInv, CallOK, CallType
  <2> QED BY <1>1, <1>3, <2>1, ReturnKeeps DEF SizeDone
<1> QED BY <1>2, <1>3

LEMMA AllavailReadKeeps == ASSUME IInv, AllavailRead PROVE IInv'
<1>u. UNCHANGED kernel /\ pc = "run"
  BY DEF AllavailRead, Running
<1>c. call \in CallType /\ call.acc \in Nat /\ err \in Int
  BY DEF IInv, CallOK, CallType
<1>a. BuffSize \in Nat /\ BuffSize > 0
  BY ConstantTypes
<1>1. PICK buf \in Extended(BuffSize) : \E full \in ReadResults(BufferPtrSize(buf)) :
        /\ PushRead(buf, full)
        /\ \/ /\ full <= 0 /\ call.errp
              /\ err' = (IF full = 0 THEN VAL_LAST_READ_0 ELSE full)
              /\ Return(call.acc)
           \/ /\ full <= 0 /\ ~call.errp
              /\ Return(IF full = 0 \/ full < VAL THEN call.acc ELSE full)
              /\ UNCHANGED err
           \/ /\ full > 0 /\ full # BufferPtrSize(buf)
              /\ Return(call.acc + full)
              /\ UNCHANGED err
           \/ /\ full > 0 /\ full = BufferPtrSize(buf)
              /\ call' = [call EXCEPT !.acc = @ + full]
              /\ UNCHANGED <<pc, ret, err>>
  BY DEF AllavailRead
<1>2. PICK full \in ReadResults(BufferPtrSize(buf)) :
        /\ PushRead(buf, full)
        /\ \/ /\ full <= 0 /\ call.errp
              /\ err' = (IF full = 0 THEN VAL_LAST_READ_0 ELSE full)
              /\ Return(call.acc)
           \/ /\ full <= 0 /\ ~call.errp
              /\ Return(IF full = 0 \/ full < VAL THEN call.acc ELSE full)
              /\ UNCHANGED err
           \/ /\ full > 0 /\ full # BufferPtrSize(buf)
              /\ Return(call.acc + full)
              /\ UNCHANGED err
           \/ /\ full > 0 /\ full = BufferPtrSize(buf)
              /\ call' = [call EXCEPT !.acc = @ + full]
              /\ UNCHANGED <<pc, ret, err>>
  BY <1>1
<1>3. BufferPtrSize(buf) \in Nat /\ BufferPtrSize(buf) <= BufferPtrSize(buf)
  <2>1. BufferPtrSize(buf) \in Nat
    BY <1>a, ExtendedRoom
  <2> QED BY <2>1
<1>4. /\ full \in Int
      /\ Sound' /\ ObjectOK' /\ KernelOK' /\ pos' - b'.total = pos - b.total
  BY <1>u, <1>a, <1>2, <1>3, ExtendedRead
<1>5. CallOK' /\ Ledger'
  <2>1. CASE /\ full <= 0 /\ call.errp
             /\ err' = (IF full = 0 THEN VAL_LAST_READ_0 ELSE full)
             /\ Return(call.acc)
    <3>1. err' \in Int
      BY <1>4, <2>1 DEF VAL_LAST_READ_0
    <3> QED BY <1>c, <2>1, <3>1, ReturnOK
  <2>2. CASE /\ full <= 0 /\ ~call.errp
             /\ Return(IF full = 0 \/ full < VAL THEN call.acc ELSE full)
             /\ UNCHANGED err
    <3>1. (IF full = 0 \/ full < VAL THEN call.acc ELSE full) \in Int
      BY <1>c, <1>4
    <3> QED BY <1>c, <2>2, <3>1, ReturnOK
  <2>3. CASE /\ full > 0 /\ full # BufferPtrSize(buf)
             /\ Return(call.acc + full)
             /\ UNCHANGED err
    <3>1. call.acc + full \in Int
      BY <1>c, <1>4
    <3> QED BY <1>c, <2>3, <3>1, ReturnOK
  <2>4. CASE /\ full > 0 /\ full = BufferPtrSize(buf)
             /\ call' = [call EXCEPT !.acc = @ + full]
             /\ UNCHANGED <<pc, ret, err>>
    <3>1. call.acc + full \in Nat
      BY <1>c, <1>4, <2>4
    <3>2. /\ call' \in CallType /\ call'.op = call.op /\ call'.base = call.base
          /\ call'.asked = call.asked /\ call'.value = call.value /\ call'.want = call.want
      BY <1>c, <2>4, <3>1 DEF CallType
    <3> QED BY <1>u, <1>4, <2>4, <3>2, StaysRunning
  <2> QED BY <1>2, <2>1, <2>2, <2>3, <2>4
<1> QED BY <1>4, <1>5 DEF IInv

LEMMA AllavailNoMemoryKeeps == ASSUME IInv, AllavailNoMemory PROVE IInv'
<1>1. UNCHANGED <<b, object, kernel, pos>>
  BY DEF AllavailNoMemory
<1>2. call.acc \in Int /\ err \in Int /\ ERR_MEMORY_ALLOC \in Int
  BY DEF IInv, CallOK, CallType, ERR_MEMORY_ALLOC
<1>3. CASE call.errp
  BY <1>1, <1>2, <1>3, ReturnKeeps DEF AllavailNoMemory
<1>4. CASE ~call.errp
  BY <1>1, <1>2, <1>4, ReturnKeeps DEF AllavailNoMemory
<1> QED BY <1>3, <1>4

LEMMA SinglestepKeeps == ASSUME IInv, Singlestep PROVE IInv'
<1>u. UNCHANGED kernel /\ err' = err /\ err \in Int
  BY DEF Singlestep, IInv, CallOK
<1>a. BuffSize \in Nat /\ BuffSize > 0
  BY ConstantTypes
<1>1. CASE \E buf \in Extended(BuffSize) :
             \E r \in ReadResults(BufferPtrSize(buf)) : PushRead(buf, r) /\ Return(r)
  <2>1. PICK buf \in Extended(BuffSize) :
             \E r \in ReadResults(BufferPtrSize(buf)) : PushRead(buf, r) /\ Return(r)
    BY <1>1
  <2>2. PICK r \in ReadResults(BufferPtrSize(buf)) : PushRead(buf, r) /\ Return(r)
    BY <2>1
  <2>3. BufferPtrSize(buf) \in Nat /\ BufferPtrSize(buf) <= BufferPtrSize(buf)
    <3>1. BufferPtrSize(buf) \in Nat
      BY <1>a, ExtendedRoom
    <3> QED BY <3>1
  <2>4. r \in Int /\ Sound' /\ ObjectOK' /\ KernelOK'
    BY <1>u, <1>a, <2>2, <2>3, ExtendedRead
  <2> QED BY <1>u, <2>2, <2>4, ReturnOK DEF IInv
<1>2. CASE Return(ERR_MEMORY_ALLOC) /\ UNCHANGED <<b, object, pos>>
  BY <1>u, <1>2, ReturnKeeps DEF ERR_MEMORY_ALLOC
<1> QED BY <1>1, <1>2 DEF Singlestep

\* A read into the room there is, without growing the buffer.
LEMMA PlainRead ==
  ASSUME IInv, UNCHANGED kernel, BufferPtrSize(b) # 0,
         NEW r \in ReadResults(BufferPtrSize(b)), PushRead(b, r)
  PROVE  /\ r \in Int
         /\ Sound' /\ ObjectOK' /\ KernelOK' /\ pos' - b'.total = pos - b.total
<1>1. b \in Extended(BuffSize) /\ BuffSize \in Nat /\ BuffSize > 0
  BY ConstantTypes DEF Extended
<1>2. BufferPtrSize(b) \in Nat /\ BufferPtrSize(b) <= BufferPtrSize(b)
  <2>1. BufferPtrSize(b) \in Nat
    BY <1>1, ExtendedRoom
  <2> QED BY <2>1
<1> QED BY <1>1, <1>2, ExtendedRead

LEMMA NoextendReadKeeps == ASSUME IInv, NoextendRead PROVE IInv'
<1>u. UNCHANGED kernel /\ err' = err /\ err \in Int
  BY DEF NoextendRead, IInv, CallOK
<1>1. CASE Return(ERR_NOSPACELEFT) /\ UNCHANGED <<b, object, pos>>
  BY <1>u, <1>1, ReturnKeeps DEF ERR_NOSPACELEFT
<1>2. CASE /\ BufferPtrSize(b) # 0
           /\ \E r \in ReadResults(BufferPtrSize(b)) : PushRead(b, r) /\ Return(r)
  <2>1. PICK r \in ReadResults(BufferPtrSize(b)) : PushRead(b, r) /\ Return(r)
    BY <1>2
  <2>2. r \in Int /\ Sound' /\ ObjectOK' /\ KernelOK'
    BY <1>u, <1>2, <2>1, PlainRead
  <2> QED BY <1>u, <2>1, <2>2, ReturnOK DEF IInv
<1> QED BY <1>1, <1>2 DEF NoextendRead

\* nw_monitoring, whatever select(2) says and whatever is read after it.
LEMMA MonitoringReads ==
  ASSUME IInv, UNCHANGED kernel, NEW extend, NEW r \in MonitoringResults,
         Monitoring(extend, r)
  PROVE  /\ r \in Int
         /\ Sound' /\ ObjectOK' /\ KernelOK' /\ pos' - b'.total = pos - b.total
<1>r. r \in Int
  BY ConstantTypes DEF MonitoringResults, Errors, ERR_READ, ERR_MEMORY_ALLOC,
     ERR_NOSPACELEFT, ERR_SELECT, ERRDEV_OUTOFBOUND, VAL_TIMEOUT_REACHED, VAL_LAST_READ_0
<1>a. BuffSize \in Nat /\ BuffSize > 0
  BY ConstantTypes
<1>1. CASE UNCHANGED <<b, pos, object>>
  <2>1. Sound' /\ ObjectOK' /\ KernelOK'
    BY <1>1, SameObjectParts
  <2>2. pos' - b'.total = pos - b.total
    BY <1>1
  <2> QED BY <1>r, <2>1, <2>2
<1>2. CASE \E buf \in Extended(BuffSize) :
             r \in ReadResults(BufferPtrSize(buf)) /\ PushRead(buf, r)
  <2>1. PICK buf \in Extended(BuffSize) :
             r \in ReadResults(BufferPtrSize(buf)) /\ PushRead(buf, r)
    BY <1>2
  <2>2. BufferPtrSize(buf) \in Nat /\ BufferPtrSize(buf) <= BufferPtrSize(buf)
    <3>1. BufferPtrSize(buf) \in Nat
      BY <1>a, ExtendedRoom
    <3> QED BY <3>1
  <2> QED BY <1>r, <1>a, <2>1, <2>2, ExtendedRead
<1>3. CASE BufferPtrSize(b) # 0 /\ r \in ReadResults(BufferPtrSize(b)) /\ PushRead(b, r)
  BY <1>3, PlainRead
<1> QED BY <1>1, <1>2, <1>3 DEF Monitoring

LEMMA MonitoringReadKeeps == ASSUME IInv, MonitoringRead PROVE IInv'
<1>u. UNCHANGED kernel /\ err' = err /\ err \in Int
  BY DEF MonitoringRead, IInv, CallOK
<1>1. PICK r \in MonitoringResults :
        Monitoring(call.op = "monitoring", r) /\ Return(r)
  BY DEF MonitoringRead
<1>2. r \in Int /\ Sound' /\ ObjectOK' /\ KernelOK'
  BY <1>u, <1>1, MonitoringReads
<1> QED BY <1>u, <1>1, <1>2, ReturnOK DEF IInv

LEMMA MonitoringAllavailReadKeeps == ASSUME IInv, MonitoringAllavailRead PROVE IInv'
<1>u. UNCHANGED kernel /\ pc = "run"
  BY DEF MonitoringAllavailRead, Running
<1>c. call \in CallType /\ call.acc \in Nat /\ err \in Int
  BY DEF IInv, CallOK, CallType
<1>1. PICK r \in MonitoringResults :
        /\ Monitoring(TRUE, r)
        /\ \/ /\ r > 0
              /\ call' = [call EXCEPT !.acc = @ + r]
              /\ UNCHANGED <<pc, ret, err>>
           \/ /\ r <= 0 /\ call.errp
              /\ err' = (IF r = 0 THEN VAL_LAST_READ_0 ELSE r)
              /\ Return(call.acc)
           \/ /\ r <= 0 /\ ~call.errp
              /\ Return(IF r > VAL THEN r ELSE call.acc)
              /\ UNCHANGED err
  BY DEF MonitoringAllavailRead
<1>2. r \in Int /\ Sound' /\ ObjectOK' /\ KernelOK' /\ pos' - b'.total = pos - b.total
  BY <1>u, <1>1, MonitoringReads
<1>3. CallOK' /\ Ledger'
  <2>1. CASE /\ r > 0
             /\ call' = [call EXCEPT !.acc = @ + r]
             /\ UNCHANGED <<pc, ret, err>>
    <3>1. call.acc + r \in Nat
      BY <1>c, <1>2, <2>1
    <3>2. /\ call' \in CallType /\ call'.op = call.op /\ call'.base = call.base
          /\ call'.asked = call.asked /\ call'.value = call.value /\ call'.want = call.want
      BY <1>c, <2>1, <3>1 DEF CallType
    <3> QED BY <1>u, <1>2, <2>1, <3>2, StaysRunning
  <2>2. CASE /\ r <= 0 /\ call.errp
             /\ err' = (IF r = 0 THEN VAL_LAST_READ_0 ELSE r)
             /\ Return(call.acc)
    <3>1. err' \in Int
      BY <1>2, <2>2 DEF VAL_LAST_READ_0
    <3> QED BY <1>c, <2>2, <3>1, ReturnOK
  <2>3. CASE /\ r <= 0 /\ ~call.errp
             /\ Return(IF r > VAL THEN r ELSE call.acc)
             /\ UNCHANGED err
    <3>1. (IF r > VAL THEN r ELSE call.acc) \in Int
      BY <1>c, <1>2
    <3> QED BY <1>c, <2>3, <3>1, ReturnOK
  <2> QED BY <1>1, <2>1, <2>2, <2>3
<1> QED BY <1>2, <1>3 DEF IInv

-----------------------------------------------------------------------------
(* b_consume_size and the flushes *)

LEMMA ConsumeFirstKeeps == ASSUME IInv, ConsumeFirst PROVE IInv'
<1>s. /\ b \in BufferType /\ Geometry(b) /\ Stored(b, pos) /\ b.skip <= b.total
      /\ b.total \in Nat /\ b.l_total \in Nat /\ b.skip \in Nat /\ pos \in Nat
  BY Fields DEF IInv, Sound, KernelOK
<1>l. /\ b.skip <= call.value /\ call.value <= b.total
      /\ pos - b.total = call.base + call.asked - call.value
      /\ call.op = "flush_firstbuffer" => call.want > 0
  BY DEF IInv, Ledger, ConsumeFirst
<1>c. /\ call \in CallType /\ call.value \in Nat /\ call.base \in Nat /\ call.asked \in Nat
      /\ call.want \in Nat
  BY DEF IInv, CallOK, CallType
<1>u. /\ b' = DropFirst(b) /\ pos' = pos /\ pc' = pc /\ ret' = ret /\ err' = err
      /\ UNCHANGED object /\ sent' = sent /\ peer' = peer
      /\ call.value > 0 /\ call.value >= b.l_total /\ pc = "consume"
      /\ call' = [call EXCEPT !.value = @ - b.l_total]
  BY DEF ConsumeFirst, kernel
<1>n. Len(b.raw) > 0
  <2>n. PICK n \in Nat : n = Len(b.raw)
    BY <1>s, Fields
  <2>1. CASE n < 1
    <3>1. b.total = 0
      BY <1>s, <2>n, <2>1 DEF Geometry, Single
    <3> QED BY <1>c, <1>l, <1>u, <3>1
  <2> QED BY <2>n, <2>1
<1> DEFINE d == DropFirst(b)
<1>1. /\ d \in BufferType /\ Geometry(d) /\ Stored(d, pos)
      /\ d.total = b.total - b.l_total /\ d.skip = SkipLeft(b) /\ b.l_total <= b.total
  BY <1>s, <1>n, DropFirstSound
<1>2. b' = d
  BY <1>u
<1> HIDE DEF d
<1>3. /\ SkipLeft(b) <= call.value - b.l_total
      /\ call.value - b.l_total <= b.total - b.l_total
      /\ call.value - b.l_total \in Nat
  BY <1>s, <1>l, <1>c, <1>u DEF SkipLeft
<1>4. Sound'
  <2>1. SkipLeft(b) <= b.total - b.l_total
    BY <1>s, <1>3, <1>1, <1>c DEF SkipLeft
  <2> QED BY <1>u, <1>1, <1>2, <2>1, Zenon DEF Sound
<1>5. /\ call' \in CallType /\ call'.op = call.op /\ call'.base = call.base
      /\ call'.asked = call.asked /\ call'.value = call.value - b.l_total
      /\ call'.want = call.want
  BY <1>c, <1>u, <1>3 DEF CallType
<1>6. Ledger'
  <2>1. b'.skip <= call'.value /\ call'.value <= b'.total
    BY <1>1, <1>2, <1>3, <1>5, Zenon
  <2>2. pos - (b.total - b.l_total) = call.base + call.asked - (call.value - b.l_total)
    BY <1>s, <1>l, <1>c
  <2>3. pos' - b'.total = call'.base + call'.asked - call'.value
    BY <1>u, <1>1, <1>2, <1>5, <2>2, Zenon
  <2>4. call'.op = "flush_firstbuffer" => call'.want > 0
    BY <1>l, <1>5, Zenon
  <2> QED BY <1>u, <2>1, <2>3, <2>4 DEF Ledger
<1>7. CallOK'
  BY <1>u, <1>5 DEF IInv, CallOK
<1>8. KernelOK'
  BY <1>u DEF IInv, KernelOK
<1> QED BY <1>u, <1>4, <1>6, <1>7, <1>8, SameObjectOK DEF IInv

LEMMA ConsumePartKeeps == ASSUME IInv, ConsumePart PROVE IInv'
<1>s. /\ b \in BufferType /\ Geometry(b) /\ Stored(b, pos)
      /\ b.total \in Nat /\ b.l_total \in Nat /\ pos \in Nat
  BY Fields DEF IInv, Sound, KernelOK
<1>l. /\ call.value <= b.total
      /\ pos - b.total = call.base + call.asked - call.value
      /\ call.op = "flush_firstbuffer" => call.want > 0
  BY DEF IInv, Ledger, ConsumePart
<1>c. /\ call \in CallType /\ call.value \in Nat /\ call.base \in Nat /\ call.asked \in Nat
      /\ call.want \in Nat
  BY DEF IInv, CallOK, CallType
<1>u. /\ b' = DropPart(b, call.value) /\ pos' = pos /\ pc' = pc /\ ret' = ret /\ err' = err
      /\ UNCHANGED object /\ sent' = sent /\ peer' = peer
      /\ call.value > 0 /\ call.value < b.l_total /\ pc = "consume"
      /\ call' = [call EXCEPT !.value = 0]
  BY DEF ConsumePart, kernel
<1>n. Len(b.raw) > 0
  <2>n. PICK n \in Nat : n = Len(b.raw)
    BY <1>s, Fields
  <2>1. CASE n < 1
    <3>1. b.l_total = 0
      BY <1>s, <2>n, <2>1 DEF Geometry, Single
    <3> QED BY <1>c, <1>u, <3>1
  <2> QED BY <2>n, <2>1
<1> DEFINE d == DropPart(b, call.value)
<1>1. /\ d \in BufferType /\ Geometry(d) /\ Stored(d, pos)
      /\ d.total = b.total - call.value /\ d.skip = 0
  BY <1>s, <1>n, <1>c, <1>u, DropPartSound
<1>2. b' = d
  BY <1>u
<1> HIDE DEF d
<1>3. 0 <= b.total - call.value
  BY <1>s, <1>l, <1>c
<1>4. Sound'
  BY <1>u, <1>1, <1>2, <1>3, Zenon DEF Sound
<1>5. /\ call' \in CallType /\ call'.op = call.op /\ call'.base = call.base
      /\ call'.asked = call.asked /\ call'.value = 0 /\ call'.want = call.want
  BY <1>c, <1>u DEF CallType
<1>6. Ledger'
  <2>0. 0 <= 0
    OBVIOUS
  <2>1. b'.skip <= call'.value /\ call'.value <= b'.total
    BY <1>1, <1>2, <1>3, <1>5, <2>0, Zenon
  <2>2. pos - (b.total - call.value) = call.base + call.asked - 0
    BY <1>s, <1>l, <1>c
  <2>3. pos' - b'.total = call'.base + call'.asked - call'.value
    BY <1>u, <1>1, <1>2, <1>5, <2>2, Zenon
  <2>4. call'.op = "flush_firstbuffer" => call'.want > 0
    BY <1>l, <1>5, Zenon
  <2> QED BY <1>u, <2>1, <2>3, <2>4 DEF Ledger
<1>7. CallOK'
  BY <1>u, <1>5 DEF IInv, CallOK
<1>8. KernelOK'
  BY <1>u DEF IInv, KernelOK
<1> QED BY <1>u, <1>4, <1>6, <1>7, <1>8, SameObjectOK DEF IInv

\* b_fullclean_if_empty leaves a sound buffer.
LEMMA CleanIfFullemptySound ==
  ASSUME IInv, CleanIfFullempty, UNCHANGED pos
  PROVE  Sound'
<1>s. /\ b \in BufferType /\ Geometry(b) /\ Stored(b, pos) /\ b.skip <= b.total
      /\ pos \in Nat
  BY DEF IInv, Sound, KernelOK
<1>1. CASE b' = b
  BY <1>1 DEF IInv, Sound
<1>2. CASE b' = NullBuffer
  <2>1. NullBuffer.skip <= NullBuffer.total
    BY DEF NullBuffer
  <2> QED BY <1>s, <1>2, <2>1, NullBufferSound DEF Sound
<1> QED BY <1>1, <1>2 DEF CleanIfFullempty, FullcleanIfEmpty

LEMMA ConsumeDoneKeeps == ASSUME IInv, ConsumeDone PROVE IInv'
<1>u. /\ pos' = pos /\ sent' = sent /\ peer' = peer /\ err' = err /\ UNCHANGED object
      /\ pc = "consume" /\ call.value = 0 /\ err \in Int
  BY DEF ConsumeDone, kernel, IInv, CallOK
<1>1. ObjectOK' /\ KernelOK'
  BY <1>u, SameObjectOK DEF IInv, KernelOK
<1>2. CASE CleanIfFullempty /\ Return(ERR_NONE)
  <2>1. Sound'
    BY <1>u, <1>2, CleanIfFullemptySound
  <2>2. CallOK' /\ Ledger'
    BY <1>u, <1>2, ReturnOK DEF ERR_NONE
  <2> QED BY <1>1, <2>1, <2>2 DEF IInv
<1>3. CASE pc' = "run" /\ UNCHANGED <<b, call, ret>>
  <2>1. Sound' /\ CallOK'
    BY <1>u, <1>3 DEF IInv, Sound, CallOK
  <2>2. Ledger'
    BY <1>u, <1>3 DEF IInv, Ledger
  <2> QED BY <1>1, <2>1, <2>2 DEF IInv
<1> QED BY <1>2, <1>3 DEF ConsumeDone

\* What consume_next_chunk copies lies inside the first chunk.
LEMMA FlushPiece ==
  ASSUME Sound, Len(b.raw) > 0
  PROVE  Piece(FirstChunk(b), b.cndx, ConsumerPtrSize(b)) \in Seq(Int)
<1>n. PICK n \in Nat : n = Len(b.raw)
  BY Fields DEF Sound
<1>1. FirstChunk(b) \in Seq(Int)
  BY <1>n, Fields DEF Sound, FirstChunk
<1>2. PICK s \in Nat : s = Len(FirstChunk(b))
  BY <1>1
<1>3. /\ b.cndx \in Nat /\ b.l_total \in Nat /\ b.cndx < s /\ b.l_total <= s
  BY <1>n, <1>2, Fields DEF Sound, Geometry
<1>4. ConsumerPtrSize(b) \in Nat /\ b.cndx + ConsumerPtrSize(b) <= s
  <2>1. ConsumerPtrSize(b) = IF b.cndx + b.l_total > s THEN s - b.cndx ELSE b.l_total
    BY <1>n, <1>2, Fields DEF Sound, ConsumerPtrSize
  <2> QED BY <1>3, <2>1
<1>5. \A i \in b.cndx + 1 .. b.cndx + ConsumerPtrSize(b) : FirstChunk(b)[i] \in Int
  <2>1. ASSUME NEW i \in b.cndx + 1 .. b.cndx + ConsumerPtrSize(b)
        PROVE  i \in 1 .. s
    BY <1>3, <1>4
  <2>2. \A i \in 1 .. s : FirstChunk(b)[i] \in Int
    BY <1>1, <1>2
  <2> QED BY <2>1, <2>2
<1>6. b.cndx + 1 \in Int /\ b.cndx + ConsumerPtrSize(b) \in Int
  BY <1>3, <1>4
<1> QED BY <1>5, <1>6, SubSeqProperties DEF Piece

LEMMA FlushCopyKeeps == ASSUME IInv, FlushCopy PROVE IInv'
<1>s. /\ b \in BufferType /\ Geometry(b) /\ Stored(b, pos) /\ b.total \in Nat
      /\ pos \in Nat /\ Sound
  BY Fields DEF IInv, Sound, KernelOK
<1> DEFINE s == ConsumerPtrSize(b)
           locals == [call EXCEPT !.out = @ \o Piece(FirstChunk(b), b.cndx, s)]
           n == ConsumeValue(b, s)
<1>u. /\ UNCHANGED <<b, object, kernel, pos>> /\ ret' = ret /\ err' = err
      /\ call' = Consuming(locals, s) /\ pc' = "consume" /\ pc = "run"
      /\ call.op \in {"flush_all", "flush_firstbuffer"} /\ FlushGoesOn
  BY DEF FlushCopy, Flushing
<1>c. /\ call \in CallType /\ call.base \in Nat /\ call.asked \in Nat /\ call.want \in Nat
      /\ call.out \in Seq(Int)
  BY DEF IInv, CallOK, CallType
<1>l. /\ pos - b.total = call.base + call.asked - call.value /\ call.value = 0
      /\ call.op = "flush_firstbuffer" => call.want > 0
  BY <1>u DEF IInv, Ledger
<1>n. Len(b.raw) > 0
  <2>n. PICK m \in Nat : m = Len(b.raw)
    BY <1>s, Fields
  <2>1. CASE m < 1
    <3>1. b.total = 0
      BY <1>s, <2>n, <2>1 DEF Geometry, Single
    <3>2. ~(b.total > 0) /\ ~(call.op = "flush_firstbuffer" /\ Len(b.raw) = call.want)
      BY <1>c, <1>l, <2>n, <2>1, <3>1
    <3> QED BY <1>u, <3>2 DEF FlushGoesOn
  <2> QED BY <2>n, <2>1
<1>1. s \in Nat
  BY <1>s, ConsumerPtrShows
<1>2. Piece(FirstChunk(b), b.cndx, s) \in Seq(Int)
  BY <1>s, <1>n, FlushPiece
<1>3. /\ locals \in CallType /\ locals.base = call.base /\ locals.asked = call.asked
      /\ locals.want = call.want /\ locals.op = call.op
  <2>1. call.out \o Piece(FirstChunk(b), b.cndx, s) \in Seq(Int)
    BY <1>c, <1>2
  <2> QED BY <1>c, <2>1 DEF CallType
<1> HIDE DEF s, locals
<1>4. n \in Nat /\ b.skip <= n /\ n <= b.total
  BY <1>s, <1>1, ConsumeValueBounds
<1>5. /\ call' \in CallType /\ call'.value = n /\ call'.asked = locals.asked + n
      /\ call'.base = locals.base /\ call'.want = locals.want /\ call'.op = locals.op
  <2>1. /\ Consuming(locals, s) \in CallType /\ Consuming(locals, s).value = n
        /\ Consuming(locals, s).asked = locals.asked + n
        /\ Consuming(locals, s).base = locals.base
        /\ Consuming(locals, s).want = locals.want /\ Consuming(locals, s).op = locals.op
    BY <1>s, <1>1, <1>3, ConsumingFields
  <2> QED BY <1>u, <2>1
<1> HIDE DEF n
<1>6. Sound' /\ ObjectOK' /\ KernelOK' /\ b' = b /\ pos' = pos
  BY <1>u, SameObjectParts
<1>7. CallOK'
  BY <1>u, <1>5 DEF IInv, CallOK
<1>8. Ledger'
  <2>1. b'.skip <= call'.value /\ call'.value <= b'.total
    BY <1>4, <1>5, <1>6, Zenon
  <2>2. pos - b.total = call.base + (call.asked + n) - n
    BY <1>s, <1>l, <1>c, <1>4
  <2>3. pos' - b'.total = call'.base + call'.asked - call'.value
    BY <1>3, <1>5, <1>6, <2>2, Zenon
  <2>4. call'.op = "flush_firstbuffer" => call'.want > 0
    BY <1>l, <1>3, <1>5, Zenon
  <2> QED BY <1>u, <2>1, <2>3, <2>4 DEF Ledger
<1> QED BY <1>6, <1>7, <1>8 DEF IInv

LEMMA FlushDoneKeeps == ASSUME IInv, FlushDone PROVE IInv'
<1>u. /\ pos' = pos /\ sent' = sent /\ peer' = peer /\ err' = err /\ UNCHANGED object
      /\ CleanIfFullempty /\ Return(call.count)
  BY DEF FlushDone, kernel
<1>1. ObjectOK' /\ KernelOK'
  BY <1>u, SameObjectOK DEF IInv, KernelOK
<1>2. Sound'
  BY <1>u, CleanIfFullemptySound
<1>3. CallOK' /\ Ledger'
  <2>1. call.count \in Int /\ err \in Int
    BY DEF IInv, CallOK, CallType
  <2> QED BY <1>u, <2>1, ReturnOK
<1> QED BY <1>1, <1>2, <1>3 DEF IInv

-----------------------------------------------------------------------------
(* The theorems *)

LEMMA InitIInv == ASSUME Init PROVE IInv
<1>1. NullBuffer \in BufferType /\ Geometry(NullBuffer) /\ Stored(NullBuffer, 0)
  BY NullBufferSound
<1>2. NullBuffer.skip = 0 /\ NullBuffer.total = 0 /\ BufferPtrSize(NullBuffer) = 0
  BY DEF NullBuffer, BufferPtrSize
<1>3. pos = 0 /\ pc = "idle" /\ call = NoCall
  BY DEF Init
<1>4. Sound
  <2>1. CASE b = NullBuffer
    BY <1>1, <1>2, <1>3, <2>1 DEF Sound
  <2>2. CASE b = AddBuffer(NullBuffer, BuffSize)
    <3> DEFINE c == AddBuffer(NullBuffer, BuffSize)
    <3>1. /\ c \in BufferType /\ Geometry(c) /\ Stored(c, 0)
          /\ c.total = NullBuffer.total /\ c.skip = NullBuffer.skip
      BY <1>1, <1>2, ConstantTypes, AddBufferSound
    <3>2. b = c
      BY <2>2
    <3> HIDE DEF c
    <3> QED BY <1>2, <1>3, <3>1, <3>2 DEF Sound
  <2> QED BY <2>1, <2>2 DEF Init
<1>5. ObjectOK
  <2>1. \A x \in Settings : x \in SUBSET AllSettings
    BY RdflAssumption DEF AllSettings
  <2> QED BY <2>1, RdflAssumption DEF Init, ObjectOK
<1>6. KernelOK
  BY ConstantTypes DEF Init, KernelOK
<1>7. CallOK
  BY <1>3, NoCallType DEF Init, CallOK, ERR_NONE
<1>8. Ledger
  BY <1>3 DEF Ledger
<1> QED BY <1>4, <1>5, <1>6, <1>7, <1>8 DEF IInv

LEMMA StepIInv == ASSUME IInv, [Next]_vars PROVE IInv'
<1>1. CASE Calls
  BY <1>1, CallReaderKeeps, CallConsumeSizeKeeps, CallFlushKeeps, SetSkipKeeps, CleanKeeps
  DEF Calls
<1>2. CASE Body
  BY <1>2, SizeReadKeeps, SizeOtherKeeps, AllavailReadKeeps, AllavailNoMemoryKeeps,
     SinglestepKeeps, NoextendReadKeeps, MonitoringReadKeeps, MonitoringAllavailReadKeeps,
     ConsumeFirstKeeps, ConsumePartKeeps, ConsumeDoneKeeps, FlushCopyKeeps, FlushDoneKeeps
  DEF Body
<1>3. CASE Peer
  BY <1>3, PeerKeeps
<1>4. CASE UNCHANGED vars
  BY <1>4 DEF vars, object, kernel, IInv, Sound, ObjectOK, KernelOK, CallOK, Ledger
<1> QED BY <1>1, <1>2, <1>3, <1>4 DEF Next, Cleaned

LEMMA SpecIInv == Spec => []IInv
  BY InitIInv, StepIInv, PTL DEF Spec

\* Every variable keeps its type, and no more is read than the peer sent.
THEOREM Typing == Spec => []TypeOK
<1>1. IInv => TypeOK
  BY DEF IInv, Sound, ObjectOK, KernelOK, CallOK, TypeOK
<1> QED BY <1>1, SpecIInv, PTL

\* For every sequence of reads of any size, growths, partial consumptions and
\* clean-ups, the counters of t_rdfl_buffer stay consistent and every unread
\* byte stays where b_consumer_ptr and the iterator look for it.
THEOREM BytesStayInPlace == Spec => []BufferSound
<1>1. IInv => BufferSound
  BY DEF IInv, Sound, BufferSound
<1> QED BY <1>1, SpecIInv, PTL

\* consumer.skip never passes what is unread, and b_consume_size's loop spends
\* it before it ends.
THEOREM SkipStaysInside == Spec => []SkipSound
<1>1. IInv => SkipSound
  BY DEF IInv, Sound, Ledger, SkipSound
<1> QED BY <1>1, SpecIInv, PTL

\* A call disposes of exactly the bytes it passed to b_consume_size.
THEOREM NoByteLost == Spec => []ConsumesExactly
<1>1. IInv => ConsumesExactly
  BY DEF IInv, Ledger, ConsumesExactly
<1> QED BY <1>1, SpecIInv, PTL

\* b_buffer_ptr and b_consumer_ptr find nothing only where there is nothing.
THEOREM PointersExact == Spec => []RoomIsExact
<1>1. IInv => RoomIsExact
  <2> SUFFICES ASSUME IInv PROVE RoomIsExact
    OBVIOUS
  <2>1. b \in BufferType /\ Geometry(b) /\ Stored(b, pos) /\ pos \in Nat
    BY DEF IInv, Sound, KernelOK
  <2>2. ConsumerPtrSize(b) = 0 <=> b.total = 0
    BY <2>1, ConsumerPtrShows
  <2>3. b.raw # <<>> =>
          (BufferPtrSize(b) = 0 <=> Len(LastChunk(b)) = IF Single(b) THEN b.l_total ELSE b.bndx)
    <3>1. b.raw # <<>> => Len(b.raw) > 0
      BY <2>1, Fields
    <3> QED BY <2>1, <3>1, NoRoomMeansFull
  <2> QED BY <2>2, <2>3, Zenon DEF RoomIsExact
<1> QED BY <1>1, SpecIInv, PTL

-----------------------------------------------------------------------------
(* What the calls tell of the stream *)

HIDE RdflAssumption

\* What a read(2) of r bytes, by push_read, does to the object and to the stream.
ReadOutcome(r) ==
  \/ EofReached /\ r = 0 /\ UNCHANGED <<object, pos>>
  \/ ~EofReached /\ r > 0 /\ pos' = pos + r /\ UNCHANGED object
  \/ ~EofReached /\ r = 0 /\ pos' = pos /\ CloseFd /\ pos = sent /\ peer = "closed"
  \/ ~EofReached /\ r = ERR_READ /\ pos' = pos /\ CloseFd /\ "read" \in Faults

LEMMA ReadHappens ==
  ASSUME IInv, NEW buf, NEW room \in Nat \ {0}, NEW r \in ReadResults(room), PushRead(buf, r)
  PROVE  r \in Int /\ ReadOutcome(r)
<1>k. pos \in Nat /\ sent \in Nat /\ pos <= sent
  BY ConstantTypes DEF IInv, KernelOK
<1>1. CASE EofReached
  BY <1>1 DEF ReadResults, PushRead, ReadOutcome
<1>2. CASE ~EofReached
  <2>1. CASE r \in 1 .. Min2(room, sent - pos)
    <3>1. r \in Int /\ r > 0 /\ r >= 0 /\ ~(r <= 0)
      BY <1>k, <2>1 DEF Min2
    <3> QED BY <1>2, <3>1 DEF PushRead, ReadOutcome
  <2>2. CASE r = 0 /\ sent = pos /\ peer = "closed"
    <3>1. pos' = pos /\ CloseFd
      BY <1>k, <1>2, <2>2 DEF PushRead
    <3> QED BY <1>2, <2>2, <3>1 DEF ReadOutcome
  <2>3. CASE r = ERR_READ /\ "read" \in Faults
    <3>1. r = -2 /\ r \in Int /\ r < 0 /\ r <= 0 /\ ~(r >= 0)
      BY <2>3 DEF ERR_READ
    <3>2. pos' = pos /\ CloseFd
      BY <1>2, <3>1 DEF PushRead
    <3> QED BY <1>2, <2>3, <3>1, <3>2 DEF ReadOutcome
  <2> QED BY <1>2, <2>1, <2>2, <2>3 DEF ReadResults
<1> QED BY <1>1, <1>2

\* The room b_buffer_ptr_extend gives is not empty, nor is the part of it that
\* rdflReader_size asks for.
LEMMA RoomToRead ==
  ASSUME IInv, NEW amount \in Nat, amount > 0, NEW buf \in Extended(amount)
  PROVE  /\ BufferPtrSize(buf) \in Nat \ {0}
         /\ \A n \in Nat \ {0} : Min2(BufferPtrSize(buf), n) \in Nat \ {0}
<1>1. BufferPtrSize(buf) \in Nat \ {0}
  <2>1. Sound /\ pos \in Nat
    BY DEF IInv, KernelOK
  <2> QED BY <2>1, ExtendedSound
<1> QED BY <1>1 DEF Min2

LEMMA RoomInBuffer ==
  ASSUME IInv, BufferPtrSize(b) # 0
  PROVE  BufferPtrSize(b) \in Nat \ {0}
<1>1. b \in Extended(BuffSize) /\ BuffSize \in Nat /\ BuffSize > 0
  BY ConstantTypes DEF Extended
<1> QED BY <1>1, RoomToRead

\* nw_monitoring reads, or returns an error and does nothing.
LEMMA MonitoringOutcome ==
  ASSUME IInv, NEW extend, NEW r, Monitoring(extend, r)
  PROVE  /\ r \in Int
         /\ \/ ReadOutcome(r)
            \/ r < 0 /\ UNCHANGED <<object, pos>>
<1>1. CASE /\ r \in {ERR_SELECT, VAL_TIMEOUT_REACHED, ERR_MEMORY_ALLOC, ERR_NOSPACELEFT}
           /\ UNCHANGED <<b, pos, object>>
  <2>1. r \in Int /\ r < 0
    BY <1>1 DEF ERR_SELECT, VAL_TIMEOUT_REACHED, ERR_MEMORY_ALLOC, ERR_NOSPACELEFT
  <2> QED BY <1>1, <2>1
<1>2. CASE \E buf \in Extended(BuffSize) :
             r \in ReadResults(BufferPtrSize(buf)) /\ PushRead(buf, r)
  <2>1. PICK buf \in Extended(BuffSize) :
             r \in ReadResults(BufferPtrSize(buf)) /\ PushRead(buf, r)
    BY <1>2
  <2>2. BufferPtrSize(buf) \in Nat \ {0}
    BY ConstantTypes, RoomToRead
  <2> QED BY <2>1, <2>2, ReadHappens
<1>3. CASE BufferPtrSize(b) # 0 /\ r \in ReadResults(BufferPtrSize(b)) /\ PushRead(b, r)
  BY <1>3, RoomInBuffer, ReadHappens
<1> QED BY <1>1, <1>2, <1>3 DEF Monitoring

-----------------------------------------------------------------------------
(* The counts *)

\* The calls that enter b_consume_size.
Consumers == {"noextend", "consume_size", "flush_all", "flush_firstbuffer"}

\* What a reader has read since it was called is what its locals say.
ReadSoFar ==
  /\ pc \in {"run", "consume"} => call.start \in Nat
  /\ pc = "consume" => pos = call.start /\ call.op \in Consumers
  /\ pc = "run" =>
       /\ call.op = "size" => pos = call.start + (call.want - call.count)
       /\ call.op \in {"allavail", "monitoring_allavail"} => pos = call.start + call.acc
       /\ call.op \in Consumers \cup {"singlestep", "monitoring", "monitoring_noextend"} =>
            pos = call.start

\* A reader that returns a count returns what it has read.
CountIsRead ==
  pc = "run" /\ pc' = "idle" /\ ret' >= 0
  /\ call.op \notin {"flush_all", "flush_firstbuffer"}
  /\ ~(call.op = "monitoring_allavail" /\ ~call.errp /\ EofReached')
  => ret' = pos' - call.start

LEMMA EnterCounted ==
  ASSUME IInv, pos' = pos, NEW op, NEW next \in {"run", "consume"}, NEW locals \in CallType,
         Enter(op, next, locals), locals.acc = 0, op = "size" => locals.want = locals.count,
         next = "consume" => op \in Consumers
  PROVE  ReadSoFar' /\ CountIsRead
<1>1. pos \in Nat /\ pc = "idle"
  BY DEF IInv, KernelOK, Enter, Idle
<1>2. /\ pc' = next /\ call'.op = op /\ call'.start = pos /\ call'.acc = locals.acc
      /\ call'.want = locals.want /\ call'.count = locals.count
  BY DEF Enter, CallType
<1>3. locals.want \in Nat /\ locals.acc \in Nat
  BY DEF CallType
<1>4. op = "size" => pos' = call'.start + (call'.want - call'.count)
  BY <1>1, <1>2, <1>3
<1>5. pos' = call'.start + call'.acc
  BY <1>1, <1>2
<1> QED BY <1>1, <1>2, <1>4, <1>5 DEF ReadSoFar, CountIsRead

LEMMA ConsumeEntered ==
  ASSUME IInv, pos' = pos, NEW op \in {"noextend", "consume_size"}, NEW n \in Counts,
         Enter(op, "consume", Consuming(NoCall, n))
  PROVE  ReadSoFar' /\ CountIsRead
<1> DEFINE c == Consuming(NoCall, n)
<1>1. c \in CallType /\ n \in Nat
  BY ConstantTypes, NoCallType, ConsumingFields DEF IInv
<1>2. c.acc = 0
  BY DEF Consuming, NoCall
<1>3. Enter(op, "consume", c)
  OBVIOUS
<1> HIDE DEF c
<1> QED BY <1>1, <1>2, <1>3, EnterCounted DEF Consumers

LEMMA CallsCounted == ASSUME IInv, ReadSoFar, Calls PROVE ReadSoFar' /\ CountIsRead
<1>1. CASE CallReader
  <2>u. pos' = pos
    BY <1>1 DEF CallReader
  <2>1. ASSUME NEW n \in Counts, Enter("size", "run", [NoCall EXCEPT !.count = n, !.want = n])
        PROVE  ReadSoFar' /\ CountIsRead
    <3> DEFINE locals == [NoCall EXCEPT !.count = n, !.want = n]
    <3>1. locals \in CallType /\ locals.acc = 0 /\ locals.want = locals.count
      BY ConstantTypes, NoCallType DEF CallType, NoCall
    <3>2. Enter("size", "run", locals)
      BY <2>1
    <3> HIDE DEF locals
    <3> QED BY <2>u, <3>1, <3>2, EnterCounted
  <2>2. ASSUME NEW op \in {"allavail", "monitoring_allavail"}, NEW errp \in BOOLEAN,
               Enter(op, "run", [NoCall EXCEPT !.errp = errp])
        PROVE  ReadSoFar' /\ CountIsRead
    <3> DEFINE locals == [NoCall EXCEPT !.errp = errp]
    <3>1. locals \in CallType /\ locals.acc = 0 /\ locals.want = locals.count
      BY NoCallType DEF CallType, NoCall
    <3>2. Enter(op, "run", locals)
      BY <2>2
    <3> HIDE DEF locals
    <3> QED BY <2>u, <3>1, <3>2, EnterCounted
  <2>3. ASSUME NEW op \in {"singlestep", "monitoring", "monitoring_noextend"},
               Enter(op, "run", NoCall)
        PROVE  ReadSoFar' /\ CountIsRead
    <3>1. NoCall.acc = 0 /\ NoCall.want = NoCall.count
      BY DEF NoCall
    <3> QED BY <2>u, <2>3, <3>1, NoCallType, EnterCounted
  <2>4. ASSUME NEW n \in Counts, Enter("noextend", "consume", Consuming(NoCall, n))
        PROVE  ReadSoFar' /\ CountIsRead
    BY <2>u, <2>4, ConsumeEntered
  <2> QED BY <1>1, <2>1, <2>2, <2>3, <2>4 DEF CallReader
<1>2. CASE CallConsumeSize
  <2>1. PICK n \in Counts : Enter("consume_size", "consume", Consuming(NoCall, n))
    BY <1>2 DEF CallConsumeSize
  <2>2. pos' = pos
    BY <1>2 DEF CallConsumeSize
  <2> QED BY <2>1, <2>2, ConsumeEntered
<1>3. CASE CallFlush
  <2>u. pos' = pos
    BY <1>3 DEF CallFlush
  <2>1. PICK op \in {"flush_all", "flush_firstbuffer"} :
          \/ UNCHANGED <<pc, call>>
          \/ \E amount \in 1 .. MaxAlloc :
               Enter(op, "run", [NoCall EXCEPT !.count = amount, !.want = Len(b.raw)])
    BY <1>3 DEF CallFlush
  <2>2. CASE UNCHANGED <<pc, call>>
    BY <1>3, <2>u, <2>2 DEF CallFlush, Idle, ReadSoFar, CountIsRead
  <2>3. CASE \E amount \in 1 .. MaxAlloc :
               Enter(op, "run", [NoCall EXCEPT !.count = amount, !.want = Len(b.raw)])
    <3>1. PICK amount \in 1 .. MaxAlloc :
               Enter(op, "run", [NoCall EXCEPT !.count = amount, !.want = Len(b.raw)])
      BY <2>3
    <3> DEFINE locals == [NoCall EXCEPT !.count = amount, !.want = Len(b.raw)]
    <3>2. locals \in CallType /\ locals.acc = 0
      <4>1. Len(b.raw) \in Nat
        BY Fields DEF IInv, Sound
      <4>2. amount \in Nat
        BY ConstantTypes
      <4> QED BY <4>1, <4>2, NoCallType DEF CallType, NoCall
    <3>3. Enter(op, "run", locals)
      BY <3>1
    <3> HIDE DEF locals
    <3> QED BY <2>u, <3>2, <3>3, EnterCounted
  <2> QED BY <2>1, <2>2, <2>3
<1>4. CASE SetSkip \/ Clean
  BY <1>4 DEF SetSkip, Clean, Idle, ReadSoFar, CountIsRead
<1> QED BY <1>1, <1>2, <1>3, <1>4 DEF Calls

\* A step that reads nothing and returns nothing, or an error.
LEMMA NothingRead ==
  ASSUME IInv, ReadSoFar, pos' = pos, pc = "run",
         \/ pc' = "run" /\ call' = call
         \/ \E r \in Int : Return(r) /\ r < 0
  PROVE  ReadSoFar' /\ CountIsRead
<1>1. CASE pc' = "run" /\ call' = call
  BY <1>1 DEF ReadSoFar, CountIsRead
<1>2. CASE \E r \in Int : Return(r) /\ r < 0
  <2>1. pc' = "idle" /\ ret' \in Int /\ ret' < 0
    BY <1>2 DEF Return
  <2> QED BY <2>1 DEF ReadSoFar, CountIsRead
<1> QED BY <1>1, <1>2

\* A call returns what it has read.
LEMMA Returned ==
  ASSUME NEW r, Return(r), r = pos' - call.start
  PROVE  ReadSoFar' /\ CountIsRead
  BY DEF Return, ReadSoFar, CountIsRead

LEMMA SizeCounted ==
  ASSUME IInv, ReadSoFar, SizeRead \/ SizeNoMemory \/ SizeDone
  PROVE  ReadSoFar' /\ CountIsRead
<1>c. /\ pc = "run" /\ call.op = "size" /\ pos \in Nat /\ call.start \in Nat
      /\ call \in CallType /\ call.count \in Nat /\ call.want \in Nat
      /\ pos = call.start + (call.want - call.count)
  BY DEF SizeRead, SizeNoMemory, SizeDone, Running, ReadSoFar, IInv, CallOK, CallType, KernelOK
<1>1. CASE SizeRead
  <2>a. SizeAmount \in Nat /\ SizeAmount > 0 /\ call.count \in Nat \ {0}
    BY <1>1, <1>c, ConstantTypes DEF SizeAmount, SizeRead
  <2>1. PICK buf \in Extended(SizeAmount) :
          \E s \in ReadResults(Min2(BufferPtrSize(buf), call.count)) :
            /\ PushRead(buf, s)
            /\ IF s < 0 THEN Return(s)
               ELSE IF s # Min2(BufferPtrSize(buf), call.count) THEN Return(SizeShort(s))
               ELSE /\ call' = [call EXCEPT !.count = @ - s]
                    /\ UNCHANGED <<pc, ret>>
    BY <1>1 DEF SizeRead
  <2> DEFINE room == Min2(BufferPtrSize(buf), call.count)
  <2>2. room \in Nat \ {0}
    BY <2>a, RoomToRead
  <2> HIDE DEF room
  <2>3. PICK s \in ReadResults(room) :
          /\ PushRead(buf, s)
          /\ IF s < 0 THEN Return(s)
             ELSE IF s # room THEN Return(SizeShort(s))
             ELSE /\ call' = [call EXCEPT !.count = @ - s]
                  /\ UNCHANGED <<pc, ret>>
    BY <2>1, Zenon DEF room
  <2>4. s \in Int /\ ReadOutcome(s)
    BY <2>2, <2>3, ReadHappens
  <2>5. CASE s < 0
    <3>1. pc' = "idle" /\ ret' = s
      BY <2>3, <2>5 DEF Return
    <3> QED BY <2>4, <2>5, <3>1 DEF ReadSoFar, CountIsRead
  <2>6. s >= 0 => pos' = pos + s
    BY <1>c, <2>4 DEF ReadOutcome, ERR_READ
  <2>7. CASE s >= 0 /\ s # room
    <3>1. Return(SizeShort(s))
      BY <2>3, <2>4, <2>7
    <3>2. SizeShort(s) = pos' - call.start
      BY <1>c, <2>4, <2>6, <2>7 DEF SizeShort
    <3> QED BY <3>1, <3>2, Returned
  <2>8. CASE s >= 0 /\ s = room
    <3>1. call' = [call EXCEPT !.count = @ - s] /\ UNCHANGED <<pc, ret>>
      BY <2>3, <2>4, <2>8
    <3>2. /\ call'.op = "size" /\ call'.want = call.want /\ call'.start = call.start
          /\ call'.count = call.count - s
      BY <1>c, <3>1 DEF CallType
    <3>3. pos' = call'.start + (call'.want - call'.count)
      BY <1>c, <2>4, <2>6, <2>8, <3>2
    <3> QED BY <1>c, <3>1, <3>2, <3>3 DEF ReadSoFar, CountIsRead, Consumers
  <2> QED BY <2>4, <2>5, <2>7, <2>8
<1>2. CASE SizeNoMemory
  <2>1. Return(ERR_MEMORY_ALLOC) /\ pos' = pos
    BY <1>2 DEF SizeNoMemory
  <2>2. ERR_MEMORY_ALLOC \in Int /\ ERR_MEMORY_ALLOC < 0
    BY DEF ERR_MEMORY_ALLOC
  <2> QED BY <1>c, <2>1, <2>2, NothingRead
<1>3. CASE SizeDone
  <2>1. Return(call.want) /\ pos' = pos /\ call.count = 0
    BY <1>3 DEF SizeDone
  <2>2. call.want = pos' - call.start
    BY <1>c, <2>1
  <2> QED BY <2>1, <2>2, Returned
<1> QED BY <1>1, <1>2, <1>3

LEMMA AllavailCounted ==
  ASSUME IInv, ReadSoFar, AllavailRead \/ AllavailNoMemory
  PROVE  ReadSoFar' /\ CountIsRead
<1>c. /\ pc = "run" /\ call.op = "allavail" /\ pos \in Nat /\ call.start \in Nat
      /\ call \in CallType /\ call.acc \in Nat /\ pos = call.start + call.acc
  BY DEF AllavailRead, AllavailNoMemory, Running, ReadSoFar, IInv, CallOK, CallType, KernelOK
<1>1. CASE AllavailRead
  <2>1. PICK buf \in Extended(BuffSize) : \E full \in ReadResults(BufferPtrSize(buf)) :
          /\ PushRead(buf, full)
          /\ \/ /\ full <= 0 /\ call.errp
                /\ Return(call.acc)
             \/ /\ full <= 0 /\ ~call.errp
                /\ Return(IF full = 0 \/ full < VAL THEN call.acc ELSE full)
             \/ /\ full > 0 /\ full # BufferPtrSize(buf)
                /\ Return(call.acc + full)
             \/ /\ full > 0 /\ full = BufferPtrSize(buf)
                /\ call' = [call EXCEPT !.acc = @ + full]
                /\ UNCHANGED <<pc, ret>>
    BY <1>1 DEF AllavailRead
  <2>2. BufferPtrSize(buf) \in Nat \ {0}
    BY ConstantTypes, RoomToRead
  <2>3. PICK full \in ReadResults(BufferPtrSize(buf)) :
          /\ PushRead(buf, full)
          /\ \/ /\ full <= 0 /\ call.errp
                /\ Return(call.acc)
             \/ /\ full <= 0 /\ ~call.errp
                /\ Return(IF full = 0 \/ full < VAL THEN call.acc ELSE full)
             \/ /\ full > 0
                /\ Return(call.acc + full)
             \/ /\ full > 0
                /\ call' = [call EXCEPT !.acc = @ + full]
                /\ UNCHANGED <<pc, ret>>
    BY <2>1
  <2>4. full \in Int /\ ReadOutcome(full)
    BY <2>2, <2>3, ReadHappens
  <2>5. full > 0 => pos' = pos + full
    BY <2>4 DEF ReadOutcome, ERR_READ
  <2>6. full <= 0 => pos' = pos /\ full \in {0, -2}
    BY <2>4 DEF ReadOutcome, ERR_READ
  <2>7. CASE full <= 0 /\ Return(call.acc)
    <3>1. call.acc = pos' - call.start
      BY <1>c, <2>6, <2>7
    <3> QED BY <2>7, <3>1, Returned
  <2>8. CASE full <= 0 /\ Return(IF full = 0 \/ full < VAL THEN call.acc ELSE full)
    <3>1. CASE full = 0
      BY <2>7, <2>8, <3>1
    <3>2. CASE full = -2
      <4>1. Return(full) /\ full < 0
        BY <2>8, <3>2 DEF VAL
      <4> QED BY <1>c, <2>4, <2>6, <3>2, <4>1, NothingRead
    <3> QED BY <2>6, <2>8, <3>1, <3>2
  <2>9. CASE full > 0 /\ Return(call.acc + full)
    <3>1. call.acc + full = pos' - call.start
      BY <1>c, <2>4, <2>5, <2>9
    <3> QED BY <2>9, <3>1, Returned
  <2>10. CASE full > 0 /\ call' = [call EXCEPT !.acc = @ + full] /\ UNCHANGED <<pc, ret>>
    <3>1. call'.op = "allavail" /\ call'.start = call.start /\ call'.acc = call.acc + full
      BY <1>c, <2>10 DEF CallType
    <3>2. pos' = call'.start + call'.acc
      BY <1>c, <2>4, <2>5, <2>10, <3>1
    <3> QED BY <1>c, <2>10, <3>1, <3>2 DEF ReadSoFar, CountIsRead, Consumers
  <2> QED BY <2>3, <2>7, <2>8, <2>9, <2>10
<1>2. CASE AllavailNoMemory
  <2>1. pos' = pos /\ (Return(call.acc) \/ Return(ERR_MEMORY_ALLOC))
    BY <1>2 DEF AllavailNoMemory
  <2>2. CASE Return(call.acc)
    <3>1. call.acc = pos' - call.start
      BY <1>c, <2>1
    <3> QED BY <2>2, <3>1, Returned
  <2>3. CASE Return(ERR_MEMORY_ALLOC)
    <3>1. ERR_MEMORY_ALLOC \in Int /\ ERR_MEMORY_ALLOC < 0
      BY DEF ERR_MEMORY_ALLOC
    <3> QED BY <1>c, <2>1, <2>3, <3>1, NothingRead
  <2> QED BY <2>1, <2>2, <2>3
<1> QED BY <1>1, <1>2

\* The readers that read once return what that read gave.
LEMMA OneReadCounted ==
  ASSUME IInv, ReadSoFar, Singlestep \/ NoextendRead \/ MonitoringRead
  PROVE  ReadSoFar' /\ CountIsRead
<1>c. /\ pc = "run" /\ pos \in Nat /\ call.start \in Nat /\ pos = call.start
  BY DEF Singlestep, NoextendRead, MonitoringRead, Running, ReadSoFar, IInv, KernelOK, Consumers
<1>1. PICK r \in Int : Return(r) /\ (ReadOutcome(r) \/ (r < 0 /\ pos' = pos))
  <2>e. ERR_MEMORY_ALLOC \in Int /\ ERR_MEMORY_ALLOC < 0 /\ ERR_NOSPACELEFT \in Int
        /\ ERR_NOSPACELEFT < 0
    BY DEF ERR_MEMORY_ALLOC, ERR_NOSPACELEFT
  <2>1. CASE Singlestep
    <3>1. CASE Return(ERR_MEMORY_ALLOC) /\ pos' = pos
      BY <2>e, <3>1
    <3>2. CASE \E buf \in Extended(BuffSize) :
                 \E r \in ReadResults(BufferPtrSize(buf)) : PushRead(buf, r) /\ Return(r)
      <4>1. PICK buf \in Extended(BuffSize) :
                 \E r \in ReadResults(BufferPtrSize(buf)) : PushRead(buf, r) /\ Return(r)
        BY <3>2
      <4>2. BufferPtrSize(buf) \in Nat \ {0}
        BY ConstantTypes, RoomToRead
      <4> QED BY <4>1, <4>2, ReadHappens
    <3> QED BY <2>1, <3>1, <3>2 DEF Singlestep
  <2>2. CASE NoextendRead
    <3>1. CASE Return(ERR_NOSPACELEFT) /\ pos' = pos
      BY <2>e, <3>1
    <3>2. CASE /\ BufferPtrSize(b) # 0
               /\ \E r \in ReadResults(BufferPtrSize(b)) : PushRead(b, r) /\ Return(r)
      BY <3>2, RoomInBuffer, ReadHappens
    <3> QED BY <2>2, <3>1, <3>2 DEF NoextendRead
  <2>3. CASE MonitoringRead
    BY <2>3, MonitoringOutcome DEF MonitoringRead
  <2> QED BY <2>1, <2>2, <2>3
<1>2. CASE r < 0
  <2>1. pc' = "idle" /\ ret' = r
    BY <1>1 DEF Return
  <2> QED BY <1>2, <2>1 DEF ReadSoFar, CountIsRead
<1>3. CASE ~(r < 0)
  <2>1. pos' = pos + r
    BY <1>c, <1>1, <1>3 DEF ReadOutcome, ERR_READ
  <2>2. r = pos' - call.start
    BY <1>c, <1>1, <2>1
  <2> QED BY <1>1, <2>2, Returned
<1> QED BY <1>2, <1>3

LEMMA MonitoringAllavailCounted ==
  ASSUME IInv, ReadSoFar, MonitoringAllavailRead
  PROVE  ReadSoFar' /\ CountIsRead
<1>c. /\ pc = "run" /\ call.op = "monitoring_allavail" /\ pos \in Nat /\ call.start \in Nat
      /\ call \in CallType /\ call.acc \in Nat /\ pos = call.start + call.acc
  BY DEF MonitoringAllavailRead, Running, ReadSoFar, IInv, CallOK, CallType, KernelOK
<1>1. PICK r \in MonitoringResults :
        /\ Monitoring(TRUE, r)
        /\ \/ /\ r > 0
              /\ call' = [call EXCEPT !.acc = @ + r]
              /\ UNCHANGED <<pc, ret>>
           \/ /\ r <= 0 /\ call.errp
              /\ Return(call.acc)
           \/ /\ r <= 0 /\ ~call.errp
              /\ Return(IF r > VAL THEN r ELSE call.acc)
  BY DEF MonitoringAllavailRead
<1>2. r \in Int /\ (ReadOutcome(r) \/ (r < 0 /\ UNCHANGED <<object, pos>>))
  BY <1>1, MonitoringOutcome
<1>3. /\ r > 0 => pos' = pos + r
      /\ r <= 0 => pos' = pos
  BY <1>2 DEF ReadOutcome, ERR_READ
<1>4. CASE r > 0 /\ call' = [call EXCEPT !.acc = @ + r] /\ UNCHANGED <<pc, ret>>
  <2>1. /\ call'.op = "monitoring_allavail" /\ call'.start = call.start
        /\ call'.acc = call.acc + r
    BY <1>c, <1>4 DEF CallType
  <2>2. pos' = call'.start + call'.acc
    BY <1>c, <1>2, <1>3, <1>4, <2>1
  <2> QED BY <1>c, <1>4, <2>1, <2>2 DEF ReadSoFar, CountIsRead, Consumers
<1>5. CASE r <= 0 /\ Return(call.acc)
  <2>1. call.acc = pos' - call.start
    BY <1>c, <1>3, <1>5
  <2> QED BY <1>5, <2>1, Returned
<1>6. CASE r <= 0 /\ r > VAL /\ ~call.errp /\ Return(r)
  <2>1. CASE r < 0
    BY <1>c, <1>2, <1>3, <1>6, <2>1, NothingRead
  <2>2. CASE r = 0
    <3>1. EofReached'
      <4>1. (EofReached /\ settings' = settings) \/ CloseFd
        BY <1>2, <2>2 DEF ReadOutcome, object, ERR_READ
      <4> QED BY <4>1 DEF EofReached, CloseFd
    <3>2. pc' = "idle"
      BY <1>6 DEF Return
    <3> QED BY <1>c, <1>6, <3>1, <3>2 DEF ReadSoFar, CountIsRead
  <2> QED BY <1>2, <1>6, <2>1, <2>2
<1> QED BY <1>1, <1>4, <1>5, <1>6

\* b_consume_size and the flushes read nothing.
LEMMA ConsumeCounted ==
  ASSUME IInv, ReadSoFar, ConsumeFirst \/ ConsumePart \/ ConsumeDone \/ FlushCopy \/ FlushDone
  PROVE  ReadSoFar' /\ CountIsRead
<1>c. call \in CallType /\ pos \in Nat /\ pos' = pos
  BY DEF IInv, CallOK, KernelOK, ConsumeFirst, ConsumePart, ConsumeDone, FlushCopy, FlushDone
<1>1. CASE ConsumeFirst \/ ConsumePart
  <2>1. pc' = "consume" /\ pc = "consume" /\ call'.start = call.start /\ call'.op = call.op
    BY <1>1, <1>c DEF ConsumeFirst, ConsumePart, CallType
  <2> QED BY <1>c, <2>1 DEF ReadSoFar, CountIsRead
<1>2. CASE ConsumeDone
  <2>1. pc = "consume" /\ pos = call.start /\ call.start \in Nat
    BY <1>2 DEF ConsumeDone, ReadSoFar
  <2>2. CASE pc' = "idle"
    BY <2>1, <2>2 DEF ReadSoFar, CountIsRead
  <2>3. CASE pc' = "run" /\ call' = call /\ call.op \in Consumers
    BY <1>c, <2>1, <2>3 DEF ReadSoFar, CountIsRead, Consumers
  <2> QED BY <1>2, <2>2, <2>3 DEF ConsumeDone, Return, ReadSoFar
<1>3. CASE FlushCopy
  <2> DEFINE s == ConsumerPtrSize(b)
             locals == [call EXCEPT !.out = @ \o Piece(FirstChunk(b), b.cndx, s)]
  <2>1. pc = "run" /\ call.op \in {"flush_all", "flush_firstbuffer"} /\ pos = call.start
    BY <1>3 DEF FlushCopy, Flushing, ReadSoFar, Consumers
  <2>2. call' = Consuming(locals, s) /\ pc' = "consume"
    BY <1>3, Zenon DEF FlushCopy
  <2>3. locals.op = call.op /\ locals.start = call.start
    BY <1>c DEF CallType
  <2>4. call'.op = locals.op /\ call'.start = locals.start
    BY <1>c, <2>2 DEF CallType, Consuming
  <2> HIDE DEF locals
  <2> QED BY <1>c, <2>1, <2>2, <2>3, <2>4 DEF ReadSoFar, CountIsRead, Consumers
<1>4. CASE FlushDone
  BY <1>4 DEF FlushDone, Flushing, Return, ReadSoFar, CountIsRead
<1> QED BY <1>1, <1>2, <1>3, <1>4

LEMMA StepCounted ==
  ASSUME IInv, ReadSoFar, [Next]_vars
  PROVE  ReadSoFar' /\ (vars' = vars \/ CountIsRead)
<1>1. CASE Calls
  BY <1>1, CallsCounted
<1>2. CASE Body
  BY <1>2, SizeCounted, AllavailCounted, OneReadCounted, MonitoringAllavailCounted,
     ConsumeCounted DEF Body
<1>3. CASE Peer
  BY <1>3 DEF Peer, PeerWrite, PeerClose, ReadSoFar, CountIsRead
<1>4. CASE UNCHANGED vars
  BY <1>4 DEF vars, ReadSoFar
<1> QED BY <1>1, <1>2, <1>3, <1>4 DEF Next, Cleaned

LEMMA InitCounted == Init => ReadSoFar
  BY DEF Init, ReadSoFar

\* Every reader that returns a count returns the number of bytes that entered the
\* buffer during its call, through its loop, its short reads and its early
\* returns; rdflReader_monitoring_allavail at the end of file excepted.
THEOREM CountsAreExact == Spec => ReturnsBytesRead
<1>1. ASSUME IInv, ReadSoFar, [Next]_vars
      PROVE  /\ ReadSoFar'
             /\ [ pc = "run" /\ pc' = "idle" /\ ret' >= 0
                  /\ call.op \notin {"flush_all", "flush_firstbuffer"}
                  /\ ~(call.op = "monitoring_allavail" /\ ~call.errp /\ EofReached')
                  => ret' = pos' - call.start ]_vars
  BY <1>1, StepCounted DEF CountIsRead
<1> QED BY <1>1, InitCounted, SpecIInv, PTL DEF Spec, ReturnsBytesRead

-----------------------------------------------------------------------------
(* The end of file and the descriptor *)

\* A step of a call reads, at most: the peer and its writes are not touched.
LEMMA BodyReads ==
  ASSUME IInv, Body
  PROVE  /\ pc # "cleaned" /\ UNCHANGED kernel
         /\ UNCHANGED <<object, pos>> \/ \E r \in Int : ReadOutcome(r)
<1>1. CASE SizeRead
  <2>1. /\ SizeAmount \in Nat /\ SizeAmount > 0 /\ call.count \in Nat \ {0}
        /\ pc = "run" /\ UNCHANGED kernel
    BY <1>1, ConstantTypes DEF SizeAmount, SizeRead, Running, IInv, CallOK, CallType
  <2>2. PICK buf \in Extended(SizeAmount) :
          \E s \in ReadResults(Min2(BufferPtrSize(buf), call.count)) : PushRead(buf, s)
    BY <1>1 DEF SizeRead
  <2>3. Min2(BufferPtrSize(buf), call.count) \in Nat \ {0}
    BY <2>1, RoomToRead
  <2> QED BY <2>1, <2>2, <2>3, ReadHappens
<1>2. CASE AllavailRead
  <2>1. PICK buf \in Extended(BuffSize) :
          \E s \in ReadResults(BufferPtrSize(buf)) : PushRead(buf, s)
    BY <1>2 DEF AllavailRead
  <2>2. BufferPtrSize(buf) \in Nat \ {0}
    BY ConstantTypes, RoomToRead
  <2> QED BY <1>2, <2>1, <2>2, ReadHappens DEF AllavailRead, Running
<1>3. CASE Singlestep
  <2>1. CASE \E buf \in Extended(BuffSize) :
               \E r \in ReadResults(BufferPtrSize(buf)) : PushRead(buf, r)
    <3>1. PICK buf \in Extended(BuffSize) :
               \E r \in ReadResults(BufferPtrSize(buf)) : PushRead(buf, r)
      BY <2>1
    <3>2. BufferPtrSize(buf) \in Nat \ {0}
      BY ConstantTypes, RoomToRead
    <3> QED BY <1>3, <3>1, <3>2, ReadHappens DEF Singlestep, Running
  <2>2. CASE UNCHANGED <<object, pos>>
    BY <1>3, <2>2 DEF Singlestep, Running
  <2> QED BY <1>3, <2>1, <2>2 DEF Singlestep
<1>4. CASE NoextendRead
  <2>1. CASE /\ BufferPtrSize(b) # 0
             /\ \E r \in ReadResults(BufferPtrSize(b)) : PushRead(b, r)
    BY <1>4, <2>1, RoomInBuffer, ReadHappens DEF NoextendRead, Running
  <2>2. CASE UNCHANGED <<object, pos>>
    BY <1>4, <2>2 DEF NoextendRead, Running
  <2> QED BY <1>4, <2>1, <2>2 DEF NoextendRead
<1>5. CASE MonitoringRead
  BY <1>5, MonitoringOutcome DEF MonitoringRead
<1>6. CASE MonitoringAllavailRead
  BY <1>6, MonitoringOutcome DEF MonitoringAllavailRead, Running
<1>7. CASE \/ SizeNoMemory \/ SizeDone \/ AllavailNoMemory \/ ConsumeFirst \/ ConsumePart
           \/ ConsumeDone \/ FlushCopy \/ FlushDone
  BY <1>7 DEF SizeNoMemory, SizeDone, AllavailNoMemory, ConsumeFirst, ConsumePart, ConsumeDone,
              FlushCopy, FlushDone, Running, Flushing
<1> QED BY <1>1, <1>2, <1>3, <1>4, <1>5, <1>6, <1>7 DEF Body

\* Until the object is cleaned, the caller's steps leave the descriptor and the
\* stream alone.
LEMMA CallsKeep ==
  ASSUME CallReader \/ CallConsumeSize \/ CallFlush \/ SetSkip
  PROVE  pc = "idle" /\ UNCHANGED <<object, kernel, pos>>
<1>e. \A op, next, locals : Enter(op, next, locals) => pc = "idle"
  BY DEF Enter, Idle
<1>1. CASE CallReader
  <2>1. UNCHANGED <<object, kernel, pos>>
    BY <1>1 DEF CallReader
  <2>2. pc = "idle"
    BY <1>e, <1>1 DEF CallReader
  <2> QED BY <2>1, <2>2
<1>2. CASE CallConsumeSize
  <2>1. UNCHANGED <<object, kernel, pos>>
    BY <1>2 DEF CallConsumeSize
  <2>2. pc = "idle"
    BY <1>e, <1>2 DEF CallConsumeSize
  <2> QED BY <2>1, <2>2
<1>3. CASE CallFlush
  <2>1. UNCHANGED <<object, kernel, pos>>
    BY <1>3 DEF CallFlush
  <2>2. pc = "idle"
    BY <1>3, Zenon DEF CallFlush, Idle
  <2> QED BY <2>1, <2>2
<1>4. CASE SetSkip
  BY <1>4 DEF SetSkip, Idle
<1> QED BY <1>1, <1>2, <1>3, <1>4

\* Without read errors, the end of file an object records is the peer's: it closed,
\* and every byte it sent was read before.
THEOREM EofIsThePeers == ASSUME "read" \notin Faults PROVE Spec => []EofMeansAllRead
<1>1. Init => EofMeansAllRead
  <2>1. ASSUME Init
        PROVE  settings \subseteq {"ADJUST_BUFFSIZE", "FULLEMPTY", "AUTOCLOSE", "LOCAL_OPEN"}
    <3>1. settings \in Settings
      BY <2>1 DEF Init
    <3> QED BY <3>1, RdflAssumption
  <2> QED BY <2>1 DEF EofMeansAllRead, EofReached
<1>2. ASSUME IInv, EofMeansAllRead, [Next]_vars PROVE EofMeansAllRead'
  <2>1. CASE CallReader \/ CallConsumeSize \/ CallFlush \/ SetSkip
    <3>1. pc = "idle" /\ settings' = settings /\ pos' = pos /\ sent' = sent /\ peer' = peer
      BY <2>1, CallsKeep DEF object, kernel
    <3> QED BY <1>2, <3>1 DEF EofMeansAllRead, EofReached
  <2>2. CASE Clean
    BY <2>2 DEF Clean, EofMeansAllRead
  <2>3. CASE Body
    <3>1. pc # "cleaned" /\ sent' = sent /\ peer' = peer
      BY <1>2, <2>3, BodyReads DEF kernel
    <3>2. CASE UNCHANGED <<object, pos>>
      BY <1>2, <3>1, <3>2 DEF object, EofMeansAllRead, EofReached
    <3>3. CASE \E r \in Int : ReadOutcome(r)
      <4>1. PICK r \in Int : ReadOutcome(r)
        BY <3>3
      <4>2. CASE EofReached /\ UNCHANGED <<object, pos>>
        BY <1>2, <3>1, <4>2 DEF object, EofMeansAllRead, EofReached
      <4>3. CASE ~EofReached /\ UNCHANGED object
        BY <4>3 DEF object, EofMeansAllRead, EofReached
      <4>4. CASE pos' = pos /\ pos = sent /\ peer = "closed"
        BY <3>1, <4>4 DEF EofMeansAllRead
      <4> QED BY <4>1, <4>2, <4>3, <4>4 DEF ReadOutcome
    <3> QED BY <1>2, <2>3, <3>2, <3>3, BodyReads
  <2>4. CASE Peer
    BY <1>2, <2>4 DEF Peer, PeerWrite, PeerClose, object, EofMeansAllRead, EofReached
  <2>5. CASE UNCHANGED vars
    BY <1>2, <2>5 DEF vars, object, kernel, EofMeansAllRead, EofReached
  <2> QED BY <1>2, <2>1, <2>2, <2>3, <2>4, <2>5 DEF Next, Calls, Cleaned
<1> QED BY <1>1, <1>2, SpecIInv, PTL DEF Spec

\* A descriptor that is the library's own, and not closed at each end of file, is
\* open.
OwnIsOpen == "LOCAL_OPEN" \in settings /\ "AUTOCLOSE" \notin settings => fd = "open"

LEMMA DescriptorStep == ASSUME IInv, [Next]_vars PROVE UNCHANGED object \/ CloseFd
<1>1. CASE CallReader \/ CallConsumeSize \/ CallFlush \/ SetSkip
  BY <1>1, CallsKeep
<1>2. CASE Clean
  BY <1>2 DEF Clean
<1>3. CASE Body
  BY <1>3, BodyReads DEF ReadOutcome
<1>4. CASE Peer
  BY <1>4 DEF Peer, PeerWrite, PeerClose
<1>5. CASE UNCHANGED vars
  BY <1>5 DEF vars
<1> QED BY <1>1, <1>2, <1>3, <1>4, <1>5 DEF Next, Calls, Cleaned

\* Without RDFL_AUTOCLOSE the descriptor is closed once at most, and only if the
\* library opened it, whether the end of file, an error or rdfl_clean comes first.
THEOREM ClosesOnce == Spec => ClosesOnlyOpen
<1>1. Init => OwnIsOpen
  BY DEF Init, OwnIsOpen
<1>2. ASSUME IInv, OwnIsOpen, [Next]_vars
      PROVE  /\ OwnIsOpen'
             /\ [ closes' # closes /\ "AUTOCLOSE" \notin settings =>
                    fd = "open" /\ "LOCAL_OPEN" \in settings /\ "LOCAL_OPEN" \notin settings' ]_vars
  <2>1. CASE UNCHANGED object
    BY <1>2, <2>1 DEF object, OwnIsOpen
  <2>2. CASE CloseFd
    BY <1>2, <2>2 DEF CloseFd, OwnIsOpen
  <2> QED BY <1>2, <2>1, <2>2, DescriptorStep
<1> QED BY <1>1, <1>2, SpecIInv, PTL DEF Spec, ClosesOnlyOpen

-----------------------------------------------------------------------------
(* The flushes *)

FlushOps == {"flush_all", "flush_firstbuffer"}

\* The bytes a flush has still to copy, once b_consume_size has done its work;
\* the flush of the first chunk is over when the list has got shorter.
ToFlush ==
  IF call.op = "flush_all" THEN b.total - call.value
  ELSE IF Len(b.raw) = call.want THEN b.l_total - call.value ELSE 0

\* What is copied and what is left fit the block; if nothing was to be skipped
\* when the flush was called, they fill it, b_consume_size moves on by what was
\* copied, and never out of the first chunk.
Filling ==
  /\ Len(b.raw) <= call.want
  /\ Len(call.out) <= call.count
  /\ Len(call.out) + ToFlush <= call.count
  /\ ~call.skipped =>
       /\ b.skip = 0 /\ call.value <= b.l_total
       /\ Len(call.out) = call.asked
       /\ call.asked + ToFlush = call.count
       /\ \A i \in 1 .. call.asked : call.out[i] = call.base + i - 1

FlushProgress == pc \in {"run", "consume"} /\ call.op \in FlushOps => Filling

\* The list after one iteration of b_consume_size's loop.
LEMMA DropFirstList ==
  ASSUME NEW buf \in BufferType, NEW at \in Nat, Geometry(buf), Stored(buf, at),
         NEW n \in Nat, n = Len(buf.raw), n > 0
  PROVE  /\ n > 1 => Len(DropFirst(buf).raw) = n - 1
         /\ n <= 1 => Len(DropFirst(buf).raw) = n /\ DropFirst(buf).l_total = 0
<1>1. CASE n > 1
  <2>1. buf.l_total <= buf.total
    BY FirstBelowTotal
  <2>2. Shifted(buf, DropFirst(buf), n)
    BY <1>1, <2>1, DropFirstFields
  <2> QED BY <1>1, <2>2 DEF Shifted
<1>2. CASE n <= 1
  <2> DEFINE d == [buf EXCEPT !.skip = IF @ >= buf.l_total THEN @ - buf.l_total ELSE 0]
  <2>1. d.raw = buf.raw /\ d = [d EXCEPT !.raw = buf.raw]
    BY DEF BufferType
  <2>2. DropFirst(buf) = [d EXCEPT !.cndx = 0, !.total = 0, !.l_total = 0, !.bndx = 0]
    BY <1>2, <2>1 DEF DropFirst, LeaveUniqueConsumerBlist
  <2>3. DropFirst(buf).raw = buf.raw /\ DropFirst(buf).l_total = 0
    BY <2>1, <2>2 DEF BufferType
  <2> QED BY <1>2, <2>3
<1> QED BY <1>1, <1>2

LEMMA DropPartList ==
  ASSUME NEW buf \in BufferType, NEW value \in Nat
  PROVE  /\ DropPart(buf, value).raw = buf.raw
         /\ DropPart(buf, value).l_total = buf.l_total - value
         /\ DropPart(buf, value).total = buf.total - value
         /\ DropPart(buf, value).skip = 0
  BY DEF DropPart, BufferType

\* A step after which no flush is under way.
LEMMA NoFlush ==
  ASSUME pc' \notin {"run", "consume"} \/ call'.op \notin FlushOps
  PROVE  FlushProgress'
  BY DEF FlushProgress

\* A flush begins: nothing is copied, and all of the block is left to fill.
LEMMA CallFlushFills == ASSUME IInv, FlushProgress, CallFlush PROVE FlushProgress'
<1>u. b' = b /\ pos' = pos
  BY DEF CallFlush
<1>b. b \in BufferType /\ b.total \in Nat /\ b.l_total \in Nat /\ b.skip \in Nat
  BY Fields DEF IInv, Sound
<1> DEFINE amount(op) == IF op = "flush_all" THEN b.total ELSE b.l_total
<1>1. PICK op \in FlushOps :
        \/ UNCHANGED <<pc, call>>
        \/ Enter(op, "run", [NoCall EXCEPT !.count = amount(op), !.want = Len(b.raw)])
  BY DEF CallFlush, FlushOps
<1>2. CASE UNCHANGED <<pc, call>>
  BY <1>2, NoFlush DEF CallFlush, Idle
<1>3. CASE Enter(op, "run", [NoCall EXCEPT !.count = amount(op), !.want = Len(b.raw)])
  <2>n. PICK n \in Nat : n = Len(b.raw)
    BY <1>b, Fields
  <2>1. PICK m \in Nat : m = amount(op)
    BY <1>b
  <2>2. /\ call'.op = op /\ call'.count = m /\ call'.want = n /\ call'.value = 0
        /\ call'.out = <<>> /\ call'.asked = 0 /\ call'.skipped = (b.skip # 0)
    BY <1>3, <2>n, <2>1 DEF Enter, NoCall
  <2>3. ToFlush' = m
    BY <1>u, <1>b, <2>n, <2>1, <2>2 DEF ToFlush, FlushOps
  <2>4. Len(call'.out) = 0
    BY <2>2
  <2>5. Filling'
    <3>1. Len(b'.raw) <= call'.want
      BY <1>u, <2>n, <2>2
    <3>2. Len(call'.out) <= call'.count /\ Len(call'.out) + ToFlush' <= call'.count
      BY <2>1, <2>2, <2>3, <2>4
    <3>3. ASSUME ~call'.skipped
          PROVE  /\ b'.skip = 0 /\ call'.value <= b'.l_total
                 /\ Len(call'.out) = call'.asked
                 /\ call'.asked + ToFlush' = call'.count
                 /\ \A i \in 1 .. call'.asked : call'.out[i] = call'.base + i - 1
      <4>1. ~(b.skip # 0)
        BY <2>2, <3>3, Zenon
      <4>2. b'.skip = 0 /\ call'.value <= b'.l_total
        BY <1>u, <1>b, <2>2, <4>1
      <4>3. Len(call'.out) = call'.asked /\ call'.asked + ToFlush' = call'.count
        BY <2>1, <2>2, <2>3, <2>4
      <4>4. 1 .. call'.asked = {}
        BY <2>2
      <4> QED BY <4>2, <4>3, <4>4
    <3> QED BY <3>1, <3>2, <3>3 DEF Filling
  <2> QED BY <2>5 DEF FlushProgress
<1> QED BY <1>1, <1>2, <1>3

LEMMA CallsFill == ASSUME IInv, FlushProgress, Calls PROVE FlushProgress'
<1>1. \A op, next, locals : Enter(op, next, locals) /\ locals \in CallType => call'.op = op
  BY DEF Enter, CallType
<1>2. CASE CallReader
  <2>1. \A n \in Counts : [NoCall EXCEPT !.count = n, !.want = n] \in CallType
    BY ConstantTypes, NoCallType DEF CallType
  <2>2. \A errp \in BOOLEAN : [NoCall EXCEPT !.errp = errp] \in CallType
    BY NoCallType DEF CallType
  <2>3. \A n \in Counts : Consuming(NoCall, n) \in CallType
    BY ConstantTypes, NoCallType, ConsumingFields DEF IInv
  <2>4. call'.op \in {"size", "allavail", "monitoring_allavail", "singlestep", "monitoring",
                      "monitoring_noextend", "noextend"}
    BY <1>1, <1>2, <2>1, <2>2, <2>3, NoCallType DEF CallReader
  <2>5. call'.op \notin FlushOps
    BY <2>4 DEF FlushOps
  <2> QED BY <2>5, NoFlush
<1>3. CASE CallConsumeSize
  <2>1. \A n \in Counts : Consuming(NoCall, n) \in CallType
    BY ConstantTypes, NoCallType, ConsumingFields DEF IInv
  <2>2. call'.op = "consume_size"
    BY <1>1, <1>3, <2>1 DEF CallConsumeSize
  <2>3. call'.op \notin FlushOps
    BY <2>2 DEF FlushOps
  <2> QED BY <2>3, NoFlush
<1>4. CASE CallFlush
  BY <1>4, CallFlushFills
<1>5. CASE SetSkip
  BY <1>5, NoFlush DEF SetSkip, Idle
<1>6. CASE Clean
  BY <1>6, NoFlush DEF Clean
<1> QED BY <1>2, <1>3, <1>4, <1>5, <1>6 DEF Calls

\* The readers' steps are not a flush's.
LEMMA ReadersDoNotFlush ==
  ASSUME IInv, SizeRead \/ SizeNoMemory \/ SizeDone \/ AllavailRead \/ AllavailNoMemory
               \/ Singlestep \/ NoextendRead \/ MonitoringRead \/ MonitoringAllavailRead
  PROVE  FlushProgress'
<1>1. call.op \notin FlushOps
  BY DEF SizeRead, SizeNoMemory, SizeDone, AllavailRead, AllavailNoMemory, Singlestep,
     NoextendRead, MonitoringRead, MonitoringAllavailRead, Running, FlushOps
<1>2. call \in CallType
  BY DEF IInv, CallOK
<1>3. pc' = "idle" \/ call'.op = call.op
  <2>1. \A r : Return(r) => pc' = "idle"
    BY DEF Return
  <2>2. \A s : call' = [call EXCEPT !.count = @ - s] => call'.op = call.op
    BY <1>2 DEF CallType
  <2>3. \A r : call' = [call EXCEPT !.acc = @ + r] => call'.op = call.op
    BY <1>2 DEF CallType
  <2>4. CASE SizeRead
    BY <2>1, <2>2, <2>4 DEF SizeRead
  <2>5. CASE AllavailRead
    BY <2>1, <2>3, <2>5 DEF AllavailRead
  <2>6. CASE MonitoringAllavailRead
    BY <2>1, <2>3, <2>6 DEF MonitoringAllavailRead
  <2>7. CASE SizeNoMemory \/ SizeDone \/ AllavailNoMemory \/ Singlestep \/ NoextendRead
             \/ MonitoringRead
    BY <2>1, <2>7 DEF SizeNoMemory, SizeDone, AllavailNoMemory, Singlestep, NoextendRead,
       MonitoringRead
  <2> QED BY <2>4, <2>5, <2>6, <2>7
<1> QED BY <1>1, <1>3, NoFlush

-----------------------------------------------------------------------------
(* b_consume_size and the copy, on behalf of a flush *)

\* What the parts of IInv say of a flush.
LEMMA FlushFacts ==
  ASSUME IInv, pc \in {"run", "consume"}
  PROVE  /\ b \in BufferType /\ Geometry(b) /\ Stored(b, pos) /\ Sound
         /\ b.total \in Nat /\ b.l_total \in Nat /\ b.skip \in Nat /\ b.l_total <= b.total
         /\ Len(b.raw) \in Nat /\ pos \in Nat
         /\ call \in CallType /\ call.value \in Nat /\ call.base \in Nat /\ call.asked \in Nat
         /\ call.want \in Nat /\ call.count \in Nat /\ call.out \in Seq(Int)
         /\ Len(call.out) \in Nat /\ call.skipped \in BOOLEAN
         /\ pc = "run" => call.value = 0
         /\ pos - b.total = call.base + call.asked - call.value
         /\ call.value <= b.total
<1>1. b \in BufferType /\ Geometry(b) /\ Stored(b, pos) /\ Sound /\ pos \in Nat
  BY DEF IInv, Sound, KernelOK
<1>2. /\ call \in CallType /\ call.value \in Nat /\ call.base \in Nat /\ call.asked \in Nat
      /\ call.want \in Nat /\ call.count \in Nat /\ call.out \in Seq(Int)
      /\ call.skipped \in BOOLEAN
  BY DEF IInv, CallOK, CallType
<1>3. /\ pc = "run" => call.value = 0
      /\ pc = "consume" => call.value <= b.total
      /\ pos - b.total = call.base + call.asked - call.value
  BY DEF IInv, Ledger
<1>4. /\ b.total \in Nat /\ b.l_total \in Nat /\ b.skip \in Nat /\ b.l_total <= b.total
      /\ Len(b.raw) \in Nat
  BY <1>1, Fields, FirstBelowTotal
<1>5. call.value <= b.total
  BY <1>3, <1>4
<1>6. Len(call.out) \in Nat
  BY <1>2
<1> QED BY <1>1, <1>2, <1>3, <1>4, <1>5, <1>6

LEMMA ConsumeFirstFills ==
  ASSUME IInv, FlushProgress, ConsumeFirst PROVE FlushProgress'
<1>f. pc = "consume" /\ pc' = pc /\ call.value > 0 /\ call.value >= b.l_total
  BY DEF ConsumeFirst
<1>1. /\ b \in BufferType /\ Geometry(b) /\ Stored(b, pos)
      /\ b.total \in Nat /\ b.l_total \in Nat /\ b.skip \in Nat /\ b.l_total <= b.total
      /\ Len(b.raw) \in Nat /\ pos \in Nat
      /\ call \in CallType /\ call.value \in Nat /\ call.asked \in Nat
      /\ call.want \in Nat /\ call.count \in Nat /\ Len(call.out) \in Nat
      /\ call.value <= b.total
  BY <1>f, FlushFacts
<1>u. b' = DropFirst(b) /\ call' = [call EXCEPT !.value = @ - b.l_total]
  BY DEF ConsumeFirst
<1>2. /\ call'.op = call.op /\ call'.want = call.want /\ call'.count = call.count
      /\ call'.out = call.out /\ call'.asked = call.asked /\ call'.base = call.base
      /\ call'.skipped = call.skipped /\ call'.value = call.value - b.l_total
  BY <1>1, <1>u DEF CallType
<1>n. PICK n \in Nat : n = Len(b.raw)
  BY <1>1
<1>3. n > 0
  <2>1. CASE n < 1
    <3>1. b.total = 0
      BY <1>1, <1>n, <2>1 DEF Geometry, Single
    <3> QED BY <1>1, <1>f, <3>1
  <2> QED BY <2>1
<1>4. /\ n > 1 => Len(b'.raw) = n - 1
      /\ n <= 1 => Len(b'.raw) = n /\ b'.l_total = 0
  BY <1>1, <1>n, <1>3, <1>u, DropFirstList
<1>5. b'.total = b.total - b.l_total /\ b'.skip = SkipLeft(b) /\ b' \in BufferType
  BY <1>1, <1>n, <1>3, <1>u, DropFirstSound
<1>6. b'.l_total \in Nat
  BY <1>5, Fields
<1>7. n <= 1 => b.total = b.l_total
  BY <1>1, <1>n DEF Geometry, Single
<1> SUFFICES ASSUME call'.op \in FlushOps PROVE Filling'
  BY DEF FlushProgress
<1>8. Filling
  BY <1>f, <1>2 DEF FlushProgress
<1>9. /\ n <= call.want /\ Len(call.out) <= call.count
      /\ Len(call.out) + ToFlush <= call.count
  BY <1>8, <1>n DEF Filling
<1>10. Len(b'.raw) <= call'.want
  BY <1>1, <1>2, <1>3, <1>4, <1>9
<1>11. ToFlush' = ToFlush \/ (ToFlush' = 0 /\ call.value = b.l_total /\ ToFlush = 0)
                 \/ (ToFlush' = 0 /\ call.value > b.l_total)
  <2>1. CASE call.op = "flush_all"
    BY <1>1, <1>2, <1>5, <2>1 DEF ToFlush
  <2>2. CASE call.op # "flush_all" /\ n = call.want
    <3>1. CASE n > 1
      <4>1. Len(b'.raw) # call'.want
        BY <1>2, <1>4, <2>2, <3>1
      <4>2. ToFlush' = 0 /\ ToFlush = b.l_total - call.value
        BY <1>2, <1>n, <2>2, <4>1 DEF ToFlush
      <4> QED BY <1>1, <1>f, <4>2
    <3>2. CASE n <= 1
      <4>1. call.value = b.l_total
        BY <1>1, <1>7, <1>f, <3>2
      <4>2. ToFlush' = 0 /\ ToFlush = b.l_total - call.value
        BY <1>1, <1>2, <1>4, <1>n, <2>2, <3>2, <4>1 DEF ToFlush
      <4> QED BY <1>1, <4>1, <4>2
    <3> QED BY <3>1, <3>2
  <2>3. CASE call.op # "flush_all" /\ n # call.want
    <3>1. Len(b'.raw) # call'.want
      BY <1>1, <1>2, <1>3, <1>4, <1>9, <2>3
    <3> QED BY <1>2, <1>n, <2>3, <3>1 DEF ToFlush
  <2> QED BY <2>1, <2>2, <2>3
<1>12. Len(call'.out) <= call'.count /\ Len(call'.out) + ToFlush' <= call'.count
  BY <1>1, <1>2, <1>9, <1>11
<1>13. ASSUME ~call'.skipped
       PROVE  /\ b'.skip = 0 /\ call'.value <= b'.l_total
              /\ Len(call'.out) = call'.asked
              /\ call'.asked + ToFlush' = call'.count
              /\ \A i \in 1 .. call'.asked : call'.out[i] = call'.base + i - 1
  <2>0. ~call.skipped
    BY <1>2, <1>13, Zenon
  <2>1. /\ b.skip = 0 /\ call.value <= b.l_total
        /\ Len(call.out) = call.asked
        /\ call.asked + ToFlush = call.count
        /\ \A i \in 1 .. call.asked : call.out[i] = call.base + i - 1
    BY <1>8, <2>0 DEF Filling
  <2>2. b'.skip = 0
    BY <1>1, <1>5, <2>1 DEF SkipLeft
  <2>3. call'.value <= b'.l_total
    BY <1>1, <1>2, <1>6, <1>f, <2>1
  <2>4. Len(call'.out) = call'.asked /\ call'.asked + ToFlush' = call'.count
    BY <1>1, <1>2, <1>11, <2>1
  <2>5. \A i \in 1 .. call'.asked : call'.out[i] = call'.base + i - 1
    BY <1>2, <2>1, Zenon
  <2> QED BY <2>2, <2>3, <2>4, <2>5
<1> QED BY <1>10, <1>12, <1>13 DEF Filling

LEMMA ConsumePartFills ==
  ASSUME IInv, FlushProgress, ConsumePart PROVE FlushProgress'
<1>f. pc = "consume" /\ pc' = pc /\ call.value > 0 /\ call.value < b.l_total
  BY DEF ConsumePart
<1>1. /\ b \in BufferType
      /\ b.total \in Nat /\ b.l_total \in Nat /\ Len(b.raw) \in Nat
      /\ call \in CallType /\ call.value \in Nat /\ call.asked \in Nat
      /\ call.want \in Nat /\ call.count \in Nat /\ Len(call.out) \in Nat
  BY <1>f, FlushFacts
<1>u. b' = DropPart(b, call.value) /\ call' = [call EXCEPT !.value = 0]
  BY DEF ConsumePart
<1>2. /\ call'.op = call.op /\ call'.want = call.want /\ call'.count = call.count
      /\ call'.out = call.out /\ call'.asked = call.asked /\ call'.base = call.base
      /\ call'.skipped = call.skipped /\ call'.value = 0
  BY <1>1, <1>u DEF CallType
<1>3. /\ b'.raw = b.raw /\ b'.l_total = b.l_total - call.value
      /\ b'.total = b.total - call.value /\ b'.skip = 0
  BY <1>1, <1>u, DropPartList
<1> SUFFICES ASSUME call'.op \in FlushOps PROVE Filling'
  BY DEF FlushProgress
<1>4. Filling
  BY <1>f, <1>2 DEF FlushProgress
<1>5. ToFlush' = ToFlush
  BY <1>1, <1>2, <1>3 DEF ToFlush
<1>6. Len(b'.raw) <= call'.want
  BY <1>2, <1>3, <1>4, Zenon DEF Filling
<1>7. Len(call'.out) <= call'.count /\ Len(call'.out) + ToFlush' <= call'.count
  BY <1>2, <1>4, <1>5, Zenon DEF Filling
<1>8. ASSUME ~call'.skipped
      PROVE  /\ b'.skip = 0 /\ call'.value <= b'.l_total
             /\ Len(call'.out) = call'.asked
             /\ call'.asked + ToFlush' = call'.count
             /\ \A i \in 1 .. call'.asked : call'.out[i] = call'.base + i - 1
  <2>1. /\ Len(call.out) = call.asked /\ call.asked + ToFlush = call.count
        /\ \A i \in 1 .. call.asked : call.out[i] = call.base + i - 1
    BY <1>2, <1>4, <1>8, Zenon DEF Filling
  <2>2. call'.value <= b'.l_total
    BY <1>1, <1>2, <1>3, <1>f
  <2>3. Len(call'.out) = call'.asked /\ call'.asked + ToFlush' = call'.count
    BY <1>2, <1>5, <2>1, Zenon
  <2>4. \A i \in 1 .. call'.asked : call'.out[i] = call'.base + i - 1
    BY <1>2, <2>1, Zenon
  <2> QED BY <1>3, <2>2, <2>3, <2>4
<1> QED BY <1>6, <1>7, <1>8 DEF Filling

\* The flush goes on, or another call returns.
LEMMA ConsumeDoneFills ==
  ASSUME IInv, FlushProgress, ConsumeDone PROVE FlushProgress'
<1>1. CASE Return(ERR_NONE)
  BY <1>1, NoFlush DEF Return
<1>2. CASE pc' = "run" /\ UNCHANGED <<b, call, ret>>
  <2>1. FlushProgress => (call.op \in FlushOps => Filling)
    BY DEF FlushProgress, ConsumeDone
  <2>2. Filling => Filling'
    BY <1>2 DEF Filling, ToFlush
  <2> QED BY <1>2, <2>1, <2>2 DEF FlushProgress
<1> QED BY <1>1, <1>2 DEF ConsumeDone

\* What b_consumer_ptr shows of a sound buffer are the next bytes of the stream.
LEMMA PieceIsNext ==
  ASSUME NEW buf \in BufferType, NEW at \in Nat, Geometry(buf), Stored(buf, at),
         Len(buf.raw) > 0
  PROVE  LET s == ConsumerPtrSize(buf)
             piece == Piece(FirstChunk(buf), buf.cndx, s)
         IN  /\ piece \in Seq(Int) /\ Len(piece) = s
             /\ \A i \in 1 .. s : piece[i] = at - buf.total + (i - 1)
<1>n. PICK n \in Nat : n = Len(buf.raw)
  BY Fields
<1> DEFINE c == FirstChunk(buf)
           s == ConsumerPtrSize(buf)
<1>1. c \in Seq(Int)
  BY <1>n, Fields DEF FirstChunk
<1>2. PICK z \in Nat : z = Len(c)
  BY <1>1
<1>3. /\ buf.cndx \in Nat /\ buf.l_total \in Nat /\ buf.cndx < z /\ buf.l_total <= z
      /\ buf.total \in Nat
  BY <1>n, <1>2, Fields DEF Geometry
<1>4. s \in Nat /\ buf.cndx + s <= z /\ s <= buf.l_total
  <2>1. s = IF buf.cndx + buf.l_total > z THEN z - buf.cndx ELSE buf.l_total
    BY <1>n, <1>2, Fields DEF ConsumerPtrSize
  <2> QED BY <1>3, <2>1
<1> HIDE DEF s
<1>5. \A i \in buf.cndx + 1 .. buf.cndx + s : c[i] \in Int
  <2>1. ASSUME NEW i \in buf.cndx + 1 .. buf.cndx + s
        PROVE  i \in 1 .. z
    BY <1>3, <1>4
  <2>2. \A i \in 1 .. z : c[i] \in Int
    BY <1>1, <1>2
  <2> QED BY <2>1, <2>2
<1>6. \A i \in 1 .. s : c[buf.cndx + i] = at - buf.total + (i - 1)
  <2> SUFFICES ASSUME NEW i \in 1 .. s
               PROVE  c[buf.cndx + i] = at - buf.total + (i - 1)
    OBVIOUS
  <2>1. i - 1 \in 0 .. buf.l_total - 1
    BY <1>3, <1>4
  <2>2. Cell(FirstChunk(buf), Wrap(buf.cndx + (i - 1), Len(FirstChunk(buf))))
          = at - buf.total + (i - 1)
    BY <2>1 DEF Stored
  <2>3. Wrap(buf.cndx + (i - 1), z) = buf.cndx + (i - 1)
    BY <1>3, <1>4 DEF Wrap
  <2>4. c[buf.cndx + (i - 1) + 1] = at - buf.total + (i - 1)
    BY <1>2, <2>2, <2>3 DEF Cell
  <2>5. buf.cndx + (i - 1) + 1 = buf.cndx + i
    BY <1>3
  <2> QED BY <2>4, <2>5
<1> HIDE DEF c
<1> DEFINE piece == SubSeq(c, buf.cndx + 1, buf.cndx + s)
<1>7. buf.cndx + 1 \in Int /\ buf.cndx + s \in Int
  BY <1>3, <1>4
<1>8. /\ piece \in Seq(Int)
      /\ Len(piece) = IF buf.cndx + 1 <= buf.cndx + s
                        THEN (buf.cndx + s) - (buf.cndx + 1) + 1 ELSE 0
      /\ \A i \in 1 .. (buf.cndx + s) - (buf.cndx + 1) + 1 :
           piece[i] = c[(buf.cndx + 1) + i - 1]
  BY <1>5, <1>7, SubSeqProperties
<1> HIDE DEF piece
<1>9. Len(piece) = s /\ (buf.cndx + s) - (buf.cndx + 1) + 1 = s
  BY <1>3, <1>4, <1>8
<1>10. \A i \in 1 .. s : piece[i] = at - buf.total + (i - 1)
  <2> SUFFICES ASSUME NEW i \in 1 .. s PROVE piece[i] = at - buf.total + (i - 1)
    OBVIOUS
  <2>1. i \in 1 .. (buf.cndx + s) - (buf.cndx + 1) + 1
    BY <1>9
  <2>2. piece[i] = c[(buf.cndx + 1) + i - 1]
    BY <1>8, <2>1, Zenon
  <2>3. (buf.cndx + 1) + i - 1 = buf.cndx + i
    BY <1>3
  <2> QED BY <1>6, <2>2, <2>3
<1> QED BY <1>8, <1>9, <1>10, Zenon DEF Piece, piece, c, s

LEMMA FlushCopyFills ==
  ASSUME IInv, FlushProgress, FlushCopy PROVE FlushProgress'
<1>f. pc = "run" /\ pc' = "consume" /\ FlushGoesOn /\ call.op \in FlushOps /\ b' = b
  BY DEF FlushCopy, Flushing, FlushOps
<1> DEFINE s == ConsumerPtrSize(b)
           piece == Piece(FirstChunk(b), b.cndx, s)
           locals == [call EXCEPT !.out = @ \o piece]
           v == ConsumeValue(b, s)
<1>1. /\ b \in BufferType /\ Geometry(b) /\ Stored(b, pos) /\ Sound
      /\ b.total \in Nat /\ b.l_total \in Nat /\ b.skip \in Nat /\ b.l_total <= b.total
      /\ Len(b.raw) \in Nat /\ pos \in Nat
      /\ call \in CallType /\ call.value = 0 /\ call.base \in Nat /\ call.asked \in Nat
      /\ call.want \in Nat /\ call.count \in Nat /\ call.out \in Seq(Int)
      /\ Len(call.out) \in Nat
      /\ pos - b.total = call.base + call.asked - 0
  BY <1>f, FlushFacts
<1>2. Filling
  BY <1>f DEF FlushProgress
<1>n. Len(b.raw) > 0
  <2>1. CASE Len(b.raw) < 1
    <3>1. b.total = 0
      BY <1>1, <2>1 DEF Geometry, Single
    <3>2. call.op = "flush_firstbuffer" => call.want > 0
      BY <1>f DEF IInv, Ledger
    <3> QED BY <1>1, <1>f, <2>1, <3>1, <3>2 DEF FlushGoesOn, FlushOps
  <2> QED BY <1>1, <2>1
<1>3. s \in Nat /\ s <= b.l_total
  BY <1>1, ConsumerPtrShows
<1>4. /\ piece \in Seq(Int) /\ Len(piece) = s
      /\ \A i \in 1 .. s : piece[i] = pos - b.total + (i - 1)
  BY <1>1, <1>n, PieceIsNext
<1> HIDE DEF s
<1>5. v \in Nat /\ s <= v /\ v <= b.total /\ (b.skip = 0 => v = s)
  <2>1. PICK t \in Nat : t = b.total
    BY <1>1
  <2>2. PICK k \in Nat : k = b.skip
    BY <1>1
  <2>3. s <= t
    BY <1>1, <1>3, <2>1
  <2>4. v = IF s + k > t THEN t ELSE s + k
    BY <2>1, <2>2 DEF ConsumeValue
  <2> HIDE DEF v
  <2>5. v \in Nat /\ s <= v /\ v <= t /\ (k = 0 => v = s)
    BY <1>3, <2>3, <2>4
  <2> QED BY <2>1, <2>2, <2>5
<1>6. /\ call'.op = call.op /\ call'.want = call.want /\ call'.count = call.count
      /\ call'.out = call.out \o piece /\ call'.base = call.base
      /\ call'.skipped = call.skipped /\ call'.value = v /\ call'.asked = call.asked + v
  <2>1. call' = Consuming(locals, s)
    BY DEF FlushCopy, s
  <2> HIDE DEF piece
  <2>2. /\ locals.op = call.op /\ locals.want = call.want /\ locals.count = call.count
        /\ locals.out = call.out \o piece /\ locals.base = call.base
        /\ locals.skipped = call.skipped /\ locals.asked = call.asked
        /\ locals = [locals EXCEPT !.value = locals.value]
    BY <1>1 DEF CallType
  <2>3. call' = [locals EXCEPT !.value = v, !.asked = @ + v]
    BY <2>1 DEF Consuming
  <2>4. DOMAIN locals = DOMAIN call
    OBVIOUS
  <2> HIDE DEF locals
  <2>5. locals.value = locals.value /\ DOMAIN call = {"op", "errp", "count", "want", "acc",
             "value", "out", "start", "base", "skipped", "asked"}
    BY <1>1 DEF CallType
  <2> HIDE DEF v
  <2> QED BY <2>2, <2>3, <2>4, <2>5
<1> HIDE DEF piece, locals, v
<1>7. /\ Len(call'.out) = Len(call.out) + s
      /\ \A i \in 1 .. Len(call.out) + s :
           call'.out[i] = IF i <= Len(call.out) THEN call.out[i] ELSE piece[i - Len(call.out)]
  <2>1. /\ Len(call.out \o piece) = Len(call.out) + Len(piece)
        /\ \A i \in 1 .. Len(call.out) + Len(piece) :
             (call.out \o piece)[i] =
                IF i <= Len(call.out) THEN call.out[i] ELSE piece[i - Len(call.out)]
    <3>1. call.out \in Seq(Int) /\ piece \in Seq(Int)
      BY <1>1, <1>4
    <3> QED BY <3>1, ConcatProperties, Zenon
  <2> QED BY <1>4, <1>6, <2>1
<1>8. ToFlush' = ToFlush - v
  BY <1>1, <1>5, <1>6, <1>f DEF ToFlush, FlushGoesOn, FlushOps
<1>9. Len(call.out) + ToFlush <= call.count /\ ToFlush \in Nat /\ ToFlush >= s
  <2>1. ToFlush \in {b.total, b.l_total}
    BY <1>1, <1>f DEF ToFlush, FlushGoesOn, FlushOps
  <2> QED BY <1>1, <1>2, <1>3, <2>1 DEF Filling
<1>10. Len(b'.raw) <= call'.want
  BY <1>2, <1>6, <1>f, Zenon DEF Filling
<1>11. Len(call'.out) <= call'.count /\ Len(call'.out) + ToFlush' <= call'.count
  <2>1. PICK m \in Nat : m = Len(call.out)
    BY <1>1
  <2>2. PICK q \in Nat : q = ToFlush
    BY <1>9
  <2>3. /\ m + q <= call.count /\ q >= s
        /\ Len(call'.out) = m + s /\ ToFlush' = q - v /\ call'.count = call.count
    BY <1>6, <1>7, <1>8, <1>9, <2>1, <2>2
  <2>4. m + s <= call.count /\ (m + s) + (q - v) <= call.count
    BY <1>1, <1>3, <1>5, <2>3, SMTT(30)
  <2> QED BY <2>3, <2>4
<1>12. ASSUME ~call'.skipped
       PROVE  /\ b'.skip = 0 /\ call'.value <= b'.l_total
              /\ Len(call'.out) = call'.asked
              /\ call'.asked + ToFlush' = call'.count
              /\ \A i \in 1 .. call'.asked : call'.out[i] = call'.base + i - 1
  <2>1. /\ b.skip = 0 /\ Len(call.out) = call.asked /\ call.asked + ToFlush = call.count
        /\ \A i \in 1 .. call.asked : call.out[i] = call.base + i - 1
    BY <1>2, <1>6, <1>12, Zenon DEF Filling
  <2>2. v = s
    BY <1>5, <2>1
  <2>3. b'.skip = 0 /\ call'.value <= b'.l_total
    BY <1>3, <1>6, <1>f, <2>1, <2>2
  <2>4. Len(call'.out) = call'.asked
    BY <1>6, <1>7, <2>1, <2>2
  <2>5. call'.asked + ToFlush' = call'.count
    BY <1>1, <1>3, <1>6, <1>8, <1>9, <2>1, <2>2
  <2>6. ASSUME NEW i \in 1 .. call'.asked PROVE call'.out[i] = call'.base + i - 1
    <3>0. i \in Int /\ 1 <= i /\ i <= call.asked + s
      BY <1>1, <1>3, <1>6, <2>2
    <3>1. CASE i <= call.asked
      <4>1. call'.out[i] = call.out[i]
        BY <1>1, <1>3, <1>7, <2>1, <3>0, <3>1
      <4> QED BY <1>1, <1>6, <2>1, <3>0, <3>1, <4>1
    <3>2. CASE ~(i <= call.asked)
      <4>1. call'.out[i] = piece[i - call.asked] /\ i - call.asked \in 1 .. s
        <5>1. i \in 1 .. Len(call.out) + s /\ ~(i <= Len(call.out))
          BY <1>1, <1>3, <2>1, <3>0, <3>2
        <5>2. call'.out[i] = piece[i - Len(call.out)]
          BY <1>7, <5>1
        <5>3. i - call.asked \in 1 .. s
          BY <1>1, <1>3, <3>0, <3>2, SMTT(30)
        <5> QED BY <2>1, <5>2, <5>3
      <4>2. piece[i - call.asked] = pos - b.total + ((i - call.asked) - 1)
        BY <1>4, <4>1
      <4>3. pos - b.total + ((i - call.asked) - 1) = call.base + i - 1
        BY <1>1, <3>0
      <4> QED BY <1>6, <4>1, <4>2, <4>3
    <3> QED BY <3>1, <3>2
  <2> QED BY <2>3, <2>4, <2>5, <2>6
<1>13. Filling'
  BY <1>10, <1>11, <1>12 DEF Filling
<1> QED BY <1>13 DEF FlushProgress

LEMMA StepFills == ASSUME IInv, FlushProgress, [Next]_vars PROVE FlushProgress'
<1>1. CASE Calls
  BY <1>1, CallsFill
<1>2. CASE Body
  <2>1. CASE FlushDone
    BY <2>1, NoFlush DEF FlushDone, Return
  <2> QED BY <1>2, <2>1, ReadersDoNotFlush, ConsumeFirstFills, ConsumePartFills,
             ConsumeDoneFills, FlushCopyFills DEF Body
<1>3. CASE UNCHANGED <<b, pc, call>>
  BY <1>3 DEF FlushProgress, Filling, ToFlush
<1>4. CASE Peer \/ UNCHANGED vars
  BY <1>3, <1>4 DEF Peer, PeerWrite, PeerClose, vars
<1> QED BY <1>1, <1>2, <1>4 DEF Next, Cleaned

LEMMA SpecFlushProgress == Spec => []FlushProgress
<1>1. Init => FlushProgress
  BY DEF Init, FlushProgress
<1> QED BY <1>1, SpecIInv, StepFills, PTL DEF Spec

\* A flush never writes past the block it allocated, and unless there were bytes
\* to skip when it was called it fills the block with the unread bytes in order.
THEOREM FlushesAreExact == Spec => []FlushExact
<1>1. IInv /\ FlushProgress => FlushExact
  <2> SUFFICES ASSUME IInv, FlushProgress, pc \in {"run", "consume"}, call.op \in FlushOps
               PROVE  /\ Len(call.out) <= call.count
                      /\ ~call.skipped =>
                           /\ call.out = [i \in 1 .. call.asked |-> call.base + i - 1]
                           /\ Flushing /\ ~FlushGoesOn => Len(call.out) = call.count
    BY DEF FlushExact, FlushOps
  <2>1. Filling
    BY DEF FlushProgress
  <2>2. /\ b.total \in Nat /\ Len(b.raw) \in Nat /\ call.want \in Nat /\ call.count \in Nat
        /\ call.asked \in Nat /\ call.out \in Seq(Int) /\ (pc = "run" => call.value = 0)
    BY FlushFacts
  <2>3. ASSUME ~call.skipped
        PROVE  call.out = [i \in 1 .. call.asked |-> call.base + i - 1]
    <3>1. /\ Len(call.out) = call.asked
          /\ \A i \in 1 .. call.asked : call.out[i] = call.base + i - 1
      BY <2>1, <2>3 DEF Filling
    <3>2. call.out = [i \in 1 .. call.asked |-> call.out[i]]
      BY <2>2, <3>1, LenProperties
    <3> QED BY <3>1, <3>2
  <2>4. ASSUME ~call.skipped, Flushing, ~FlushGoesOn
        PROVE  Len(call.out) = call.count
    <3>1. Len(call.out) = call.asked /\ call.asked + ToFlush = call.count
      BY <2>1, <2>4 DEF Filling
    <3>2. ToFlush = 0
      BY <2>2, <2>4 DEF ToFlush, Flushing, FlushGoesOn
    <3> QED BY <2>2, <3>1, <3>2
  <2> QED BY <2>1, <2>3, <2>4 DEF Filling
<1> QED BY <1>1, SpecIInv, SpecFlushProgress, PTL

=============================================================================
