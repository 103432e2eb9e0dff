------------------------------ MODULE Iterate ------------------------------
(***************************************************************************)
(* The iterator of rdfl over its buffer, and what is built on it: the      *)
(* accessors (rdfl_bacc_...), which look at the unread bytes, and the      *)
(* token consumers (rdfl_csm_...).  A caller applies them one after the    *)
(* other to an object loaded on a file that holds text.                    *)
(*                                                                         *)
(* The iterator calls a callback on each piece of unread data, in order;   *)
(* at the end, under RDFL_AUTOREAD, it reads more.  A call is one step;    *)
(* inside of it the state of the object is threaded through operators as   *)
(* a record w: the buffer, the bytes read so far, and whether the end of   *)
(* file was seen.  Every read(2) of a step gives at most grain bytes, and  *)
(* fails where the file cannot be read any further.                        *)
(*                                                                         *)
(* A byte of the buffer is its offset in text, as in module Buffer.        *)
(***************************************************************************)
EXTENDS Buffer, FiniteSetsExt

CONSTANTS
  Files,        \* records [text, fault]: what a file holds, and from where read(2) of it fails
  Grains,       \* the most bytes a read(2) gives
  Settings,     \* how the object is set: records [autoread, noextend, blanks, comments, buffsize]
  Blanks, Letters, Digits, Quote,   \* classes of characters
  Tokens,       \* the tokens the caller looks for
  Options       \* the options the caller passes

ASSUME IterateAssumption ==
  /\ \A f \in Files : f.fault \in 0 .. Len(f.text) + 1
  /\ Grains \subseteq Nat \ {0}
  /\ \A v \in Settings : {v.autoread, v.noextend, v.blanks} \subseteq BOOLEAN /\ v.buffsize \in 1 .. MaxAlloc
  /\ Options \subseteq SUBSET {"CONSUME", "IGNORE_PREDATASKIP", "EXTRACT"}

VARIABLES
  text,   \* what the file holds
  fault,  \* the offset at which read(2) fails, behind the end when it never does
  w,      \* the object: data, bytes read, LOCAL_REACHED_EOF, and its settings v
  last    \* the call that just ended, its arguments and its results

vars == <<text, fault, w, last>>

\* e_rdflerrors
ERR_NONE              == 0
ERR_READ              == -2
ERR_NOSPACELEFT       == -5
VCSM_INCOMPLETE_TOKEN == -101
VCSM_REACHED_EOF      == -103
ERRBNF_SYNTAX         == -200

\* The answers of a callback, and BACC_CB_NOACTION.
STOP == 0
CONTINUE == 1
NEEDDATA == 2
NOACTION == 3

\* size_t is modelled with 8 bits: skip wraps below 0 and at SizeT.
SizeT == 256

Char(offset) == text[offset + 1]
Chars(piece) == [i \in DOMAIN piece |-> Char(piece[i])]

SetSkip(o, skip) == [o EXCEPT !.b.skip = skip % SizeT]

-----------------------------------------------------------------------------
(* Reading more *)

RECURSIVE ConsumeLoop(_, _)
ConsumeLoop(buf, value) ==
  IF value = 0 THEN buf
  ELSE IF value >= buf.l_total THEN ConsumeLoop(DropFirst(buf), value - buf.l_total)
  ELSE DropPart(buf, value)

\* Variant for mutation: the bytes to skip stay.
ConsumeSizeNoSkip(buf, value) == ConsumeLoop(buf, Min({value, buf.total}))

\* b_consume_size
ConsumeSize(buf, value) == ConsumeLoop(buf, ConsumeValue(buf, value))

\* read(2) of the file into the room of buf, on behalf of push_read: the object
\* and the result.  The end of the file and an error both end in _close_fd, which
\* sets LOCAL_REACHED_EOF; from then on nothing is read.
PushRead(o, buf, grain) ==
  LET n == Min({BufferPtrSize(buf), grain, Len(text) - o.pos, fault - o.pos})
  IN  IF o.eof THEN [w |-> [o EXCEPT !.b = buf], ret |-> 0]
      ELSE IF o.pos = fault THEN [w |-> [o EXCEPT !.b = buf, !.eof = TRUE], ret |-> ERR_READ]
      ELSE [w |-> [o EXCEPT !.b = PushBytes(buf, n, o.pos), !.pos = @ + n, !.eof = n = 0], ret |-> n]

\* rdflReader_noextend, on what its b_consume_size left.
ReadIntoRoom(o, buf, grain) ==
  IF BufferPtrSize(buf) = 0 THEN [w |-> [o EXCEPT !.b = buf], ret |-> ERR_NOSPACELEFT]
  ELSE PushRead(o, buf, grain)

\* rdflReader_singlestep
Singlestep(o, grain) ==
  PushRead(o, IF BufferPtrSize(o.b) = 0 THEN AddBuffer(o.b, o.v.buffsize) ELSE o.b, grain)

\* _iterate_readdata: rdflReader_noextend(obj, 0) drops the bytes to skip.
ReadData(o, grain) ==
  IF o.v.noextend THEN ReadIntoRoom(o, ConsumeSize(o.b, 0), grain) ELSE Singlestep(o, grain)

\* _b_rewind_localptr: the n bytes just read end at the writing index, or at the
\* end of the chunk when that index wrapped.
Rewind(buf, n) ==
  LET end == IF buf.bndx = 0 THEN Len(LastChunk(buf)) ELSE buf.bndx
  IN  Piece(LastChunk(buf), end - n, n)

-----------------------------------------------------------------------------
(* Callbacks that only look at their piece: each is given its data and the *)
(* piece, and returns its data and its answer.                             *)

\* The length of the longest prefix of s whose characters are all in class.
Prefix(s, class) == Max({n \in 0 .. Len(s) : \A i \in 1 .. n : s[i] \in class})

\* Variant for mutation: the token is compared from its beginning in each piece.
CmpCallbackRestart(d, piece) ==
  LET local == Min({Len(piece), d.left})
      left == d.left - local
  IN  IF \E i \in 1 .. local : Char(piece[i]) # d.token[i] THEN [d |-> d, cb |-> STOP]
      ELSE IF left = 0 THEN [d |-> [d EXCEPT !.left = 0, !.ret = 1], cb |-> STOP]
      ELSE [d |-> [d EXCEPT !.left = left], cb |-> d.cb]

\* _cb__bacc_cmp: left bytes of the token are still to be compared.
CmpCallback(d, piece) ==
  LET local == Min({Len(piece), d.left})
      token == SubSeq(d.token, Len(d.token) - d.left + 1, Len(d.token))
      left == d.left - local
  IN  IF \E i \in 1 .. local : Char(piece[i]) # token[i] THEN [d |-> d, cb |-> STOP]
      ELSE IF left = 0 THEN [d |-> [d EXCEPT !.left = 0, !.ret = 1], cb |-> STOP]
      ELSE [d |-> [d EXCEPT !.left = left], cb |-> d.cb]

\* _cb__bacc_ndx
NdxCallback(d, piece) ==
  IF d.ndx >= Len(piece) THEN [d |-> [d EXCEPT !.ndx = @ - Len(piece)], cb |-> NEEDDATA]
  ELSE [d |-> [d EXCEPT !.ret = piece[d.ndx + 1]], cb |-> STOP]

\* Variant for mutation: the copy ends with the piece.
ContentCallbackOnce(d, piece) ==
  [d |-> [d EXCEPT !.out = SubSeq(piece, 1, Min({Len(piece), d.count}))], cb |-> STOP]

\* _cb__bacc_getallcontent
ContentCallback(d, piece) ==
  LET out == d.out \o SubSeq(piece, 1, Min({Len(piece), d.count - Len(d.out)}))
  IN  [d |-> [d EXCEPT !.out = out], cb |-> IF Len(out) = d.count THEN STOP ELSE CONTINUE]

\* Variant for mutation: every piece must begin like an identifier.
IdentifierCallbackStart(d, piece) ==
  LET s == Chars(piece) IN
  IF s[1] \notin Letters THEN [d |-> d, cb |-> STOP]
  ELSE LET n == Prefix(s, Letters \cup Digits)
       IN  [d |-> [d EXCEPT !.ret = @ + n], cb |-> IF n < Len(s) THEN STOP ELSE NEEDDATA]

\* _cb__csm_readIdentifier
IdentifierCallback(d, piece) ==
  LET s == Chars(piece) IN
  IF d.ret = 0 /\ s[1] \notin Letters THEN [d |-> d, cb |-> STOP]
  ELSE LET n == Prefix(s, Letters \cup Digits)
       IN  [d |-> [d EXCEPT !.ret = @ + n], cb |-> IF n < Len(s) THEN STOP ELSE NEEDDATA]

\* _cb__csm_readMatchAny
MatchAnyCallback(d, piece) ==
  LET n == Prefix(Chars(piece), d.class)
  IN  [d |-> [d EXCEPT !.ret = @ + n], cb |-> IF n < Len(piece) THEN STOP ELSE NEEDDATA]

\* _cb__csm_readString_legacy: total counts the bytes of the pieces before.
StringCallback(d, piece) ==
  LET s == Chars(piece)
      from == IF d.total = 0 THEN 2 ELSE 1
      quotes == {i \in from .. Len(s) : s[i] = Quote}
  IN  IF d.total = 0 /\ s[1] # Quote THEN [d |-> d, cb |-> STOP]
      ELSE IF quotes # {}
        THEN [d |-> [d EXCEPT !.ret = d.total + Min(quotes)], cb |-> STOP]
      ELSE [d |-> [d EXCEPT !.total = @ + Len(s)], cb |-> NEEDDATA]

-----------------------------------------------------------------------------
(* The iterator.  An iteration is a record: the object, the grain of its   *)
(* reads, the callback's kind and data, its last answer, how much was      *)
(* skipped of how much, and ret, which is ERR_NONE unless data ran out.    *)
(* Where C tests a result and goes on, an operator makes the call and      *)
(* hands the result to a second one.                                       *)

RECURSIVE Callback(_, _), UntilLoop(_, _), Taildata(_), Walk(_, _, _), Routine(_)

Answered(it, r) == [it EXCEPT !.d = r.d, !.cb = r.cb]

\* callback(piece, data)
Callback(it, piece) ==
  CASE it.kind = "cmp"        -> Answered(it, CmpCallback(it.d, piece))
    [] it.kind = "ndx"        -> Answered(it, NdxCallback(it.d, piece))
    [] it.kind = "content"    -> Answered(it, ContentCallback(it.d, piece))
    [] it.kind = "identifier" -> Answered(it, IdentifierCallback(it.d, piece))
    [] it.kind = "match_any"  -> Answered(it, MatchAnyCallback(it.d, piece))
    [] it.kind = "string"     -> Answered(it, StringCallback(it.d, piece))
    [] it.kind = "until"      ->
         UntilLoop([it EXCEPT !.w = SetSkip(it.w, it.d.rebase + it.d.ret)], Len(piece))

\* _iterate_autoskip
Autoskip(it, piece) ==
  LET to_skip == it.skip - it.skipped IN
  IF to_skip = 0 \/ Len(piece) > to_skip
    THEN Callback([it EXCEPT !.skipped = it.skip], SubSeq(piece, to_skip + 1, Len(piece)))
  ELSE [it EXCEPT !.skipped = @ + Len(piece),
                  !.cb = IF Len(piece) = to_skip THEN NEEDDATA ELSE NOACTION]

\* _iterate_taildata_auto: read, and call back as long as more is needed.
TaildataAgain(it) == IF it.cb = NEEDDATA THEN Taildata(it) ELSE it
TaildataRead(it, r) ==
  IF r.ret > 0 THEN TaildataAgain(Callback([it EXCEPT !.w = r.w], Rewind(r.w.b, r.ret)))
  ELSE [it EXCEPT !.w = r.w, !.ret = IF r.w.eof THEN VCSM_REACHED_EOF ELSE r.ret]
Taildata(it) == TaildataRead(it, ReadData(it.w, it.grain))

\* The end of _iterate_chunk_routine, label auto_it.
AutoIt(it) ==
  IF it.w.v.autoread THEN Taildata(it)
  ELSE [it EXCEPT !.ret = IF it.w.eof THEN VCSM_REACHED_EOF ELSE VCSM_INCOMPLETE_TOKEN]

\* The k-th piece of the walk that began with s bytes at the consumer pointer:
\* those, the beginning of a ring that wraps, the chunks in between, the last.
\* A callback may read (readUntil's does): each looks at the buffer as it is then.
PieceAt(buf, s, k) ==
  CASE k = 1 -> Piece(FirstChunk(buf), buf.cndx, s)
    [] k = 2 -> Piece(FirstChunk(buf), 0, Max({buf.l_total - s, 0}))
    [] k \in 3 .. Len(buf.raw) -> buf.raw[k - 1]
    [] k > 2 /\ k = Len(buf.raw) + 1 -> Piece(LastChunk(buf), 0, buf.bndx)

\* The walk of _iterate_chunk_routine from the k-th piece on; it ends with the
\* chunk that was the last one before its callback.
WalkOn(it, s, k, isLast) == IF isLast \/ it.cb = STOP THEN it ELSE Walk(it, s, k + 1)
Walk(it, s, k) ==
  IF k > 2 /\ k > Len(it.w.b.raw) + 1 THEN it
  ELSE IF PieceAt(it.w.b, s, k) = <<>> THEN Walk(it, s, k + 1)
  ELSE WalkOn(Autoskip(it, PieceAt(it.w.b, s, k)), s, k, k > 2 /\ k = Len(it.w.b.raw) + 1)

\* _iterate_chunk_routine
RoutineEnd(it) == IF it.cb = NEEDDATA THEN AutoIt(it) ELSE it
Routine(it) ==
  LET s == ConsumerPtrSize(it.w.b)
  IN  RoutineEnd(IF s = 0 THEN [it EXCEPT !.cb = NEEDDATA] ELSE Walk(it, s, 1))

Iteration(o, grain, kind, d) ==
  Routine([w |-> o, grain |-> grain, kind |-> kind, d |-> d, cb |-> CONTINUE,
           skip |-> o.b.skip, skipped |-> 0, ret |-> ERR_NONE])

\* What most callers make of an iteration: an error, but for the end of file, is
\* their result; and what readUntil's do: at the end of file nothing was found.
Failed(r) == r.ret < 0 /\ r.ret # VCSM_REACHED_EOF
Outcome(r) == [w |-> r.w, ret |-> IF Failed(r) THEN r.ret ELSE r.d.ret]
UntilOutcome(r) ==
  [w |-> r.w, ret |-> IF r.ret = VCSM_REACHED_EOF THEN 0 ELSE IF r.ret < 0 THEN r.ret ELSE r.d.ret]

CmpData(token, cb) == [token |-> token, left |-> Len(token), ret |-> 0, cb |-> cb]

\* rdfl_bacc_cmp_needdata without predata
CmpHere(o, grain, token) == Outcome(Iteration(o, grain, "cmp", CmpData(token, NEEDDATA)))

\* The loop of _cb__csm_readUntil, with n positions to try: any result of the
\* comparison but 0 is taken for a match.
UntilCompared(it, n, r) ==
  IF r.ret # 0
    THEN [it EXCEPT !.w = SetSkip(r.w, it.d.rebase), !.d.ret = @ + Len(it.d.token), !.cb = STOP]
    ELSE UntilLoop([it EXCEPT !.w = SetSkip(r.w, r.w.b.skip + 1), !.d.ret = @ + 1], n - 1)
UntilLoop(it, n) ==
  IF n = 0 THEN [it EXCEPT !.w = SetSkip(@, it.d.rebase), !.cb = NEEDDATA]
  ELSE UntilCompared(it, n, CmpHere(it.w, it.grain, it.d.token))

-----------------------------------------------------------------------------
(* Data to skip before a token *)

UntilData(o, token) == [token |-> token, ret |-> 0, rebase |-> o.b.skip]

\* rdfl_csm_readUntil without predata nor extraction.
UntilHere(o, grain, token) == UntilOutcome(Iteration(o, grain, "until", UntilData(o, token)))

\* _handle_clear_blanks: rdfl_csm_readMatchAny on the blanks.
BlanksHere(o, grain) ==
  IF ~o.v.blanks THEN [w |-> o, ret |-> 0]
  ELSE Outcome(Iteration(o, grain, "match_any", [class |-> Blanks, ret |-> 0]))

\* Variant for mutation: the opening token is counted twice.
CommentLengthTwice(beg, ret) == Len(beg) + Len(beg) + ret

CommentLength(beg, ret) == Len(beg) + ret

\* _handle_comment_loop
CommentRead(end, comment) ==
  [w |-> SetSkip(end.w, end.w.b.skip - Len(comment.beg)),
   ret |-> IF end.ret = 0 THEN ERRBNF_SYNTAX
           ELSE IF end.ret < 0 THEN end.ret ELSE CommentLength(comment.beg, end.ret)]
CommentBegun(beg, grain, comment) ==
  IF beg.ret <= 0 THEN beg
  ELSE CommentRead(UntilHere(SetSkip(beg.w, beg.w.b.skip + Len(comment.beg)), grain, comment.end),
                   comment)
CommentHere(o, grain, comment) == CommentBegun(CmpHere(o, grain, comment.beg), grain, comment)

\* When blanks or comments cannot be told, the skip offset goes back.
PredataFailed(o, total) == SetSkip(o, o.b.skip - total)

RECURSIVE CommentsHere(_, _, _), Predata(_, _, _)

\* _handle_comment, from the k-th comment on.
CommentsOn(r, grain, k) == IF r.ret # 0 THEN r ELSE CommentsHere(r.w, grain, k + 1)
CommentsHere(o, grain, k) ==
  IF k > Len(o.v.comments) THEN [w |-> o, ret |-> 0]
  ELSE CommentsOn(CommentHere(o, grain, o.v.comments[k]), grain, k)

\* _handle_clearable_data: blanks, or else comments, until there is neither; total
\* bytes were skipped so far.
CommentsUnless(blanks, grain) ==
  IF blanks.ret # 0 THEN blanks ELSE CommentsHere(blanks.w, grain, 1)
PredataOn(r, grain, total) ==
  IF r.ret < 0 THEN [w |-> PredataFailed(r.w, total), ret |-> r.ret]
  ELSE IF r.ret > 0 THEN Predata(SetSkip(r.w, r.w.b.skip + r.ret), grain, total + r.ret)
  ELSE [w |-> r.w, ret |-> total]
Predata(o, grain, total) == PredataOn(CommentsUnless(BlanksHere(o, grain), grain), grain, total)

\* _iterate_chunk: the iteration it ends with; when the predata fails, it is over.
ReachedEof(r) ==
  IF r.ret = VCSM_INCOMPLETE_TOKEN /\ r.w.eof THEN [r EXCEPT !.ret = VCSM_REACHED_EOF] ELSE r
BehindPredata(pre, grain, kind, d) ==
  IF pre.ret < 0 THEN [w |-> pre.w, d |-> d, ret |-> pre.ret]
  ELSE ReachedEof(Iteration(pre.w, grain, kind, d))
IterateChunk(o, grain, kind, d, opt) ==
  IF "IGNORE_PREDATASKIP" \in opt THEN Iteration(o, grain, kind, d)
  ELSE BehindPredata(Predata(o, grain, 0), grain, kind, d)

-----------------------------------------------------------------------------
(* The accessors and the consumers.  Each returns the object, the value it *)
(* returns, and the bytes it extracted.                                    *)

Result(o, ret, out) == [w |-> o, ret |-> ret, out |-> out]

\* rdfl_bacc_getcontent, which copies at most as much as the buffer holds.
Content(r, count) ==
  IF r.ret < 0 THEN Result(r.w, r.ret, <<>>) ELSE Result(r.w, count, r.d.out)
GetContent(o, grain, c, opt) ==
  LET count == IF c = 0 THEN o.b.total ELSE Min({c, o.b.total})
  IN  IF o.b.total = 0 THEN Result(o, ERR_NONE, <<>>)
      ELSE Content(IterateChunk(o, grain, "content", [count |-> count, out |-> <<>>], opt), count)

\* _iterate_extract, and the return of its caller.
Consumed(content, ret, opt) ==
  Result(IF "CONSUME" \in opt THEN [content.w EXCEPT !.b = ConsumeSize(@, ret)] ELSE content.w,
         ret, content.out)
Extract(o, grain, ret, opt) ==
  IF ret <= 0 THEN Result(o, ret, <<>>)
  ELSE Consumed(IF "EXTRACT" \in opt THEN GetContent(o, grain, ret, {"IGNORE_PREDATASKIP"})
                ELSE Result(o, ret, <<>>),
                ret, opt)

\* rdfl_bacc_ndx; a byte is returned as its offset.
ByteAt(r) == Result(r.w, IF r.ret < 0 THEN r.ret ELSE r.d.ret, <<>>)
Ndx(o, grain, n) == ByteAt(IterateChunk(o, grain, "ndx", [ndx |-> n, ret |-> Junk], {}))

\* _rdfl_bacc_cycle_cmp with BACC_CB_CONTINUE or BACC_CB_NEEDDATA
Compared(r, grain, token, opt) ==
  IF Failed(r) THEN Result(r.w, r.ret, <<>>)
  ELSE [Extract(r.w, grain, r.d.ret * Len(token), opt \ {"EXTRACT"}) EXCEPT !.ret = r.d.ret]
CycleCmp(o, grain, token, cb, opt) ==
  IF cb # NEEDDATA /\ Len(token) > o.b.total THEN Result(o, 0, <<>>)
  ELSE Compared(IterateChunk(o, grain, "cmp", CmpData(token, cb), opt), grain, token, opt)

\* rdfl_bacc_cmp and rdfl_bacc_cmp_needdata
Cmp(o, grain, token) == CycleCmp(o, grain, token, CONTINUE, {})
CmpNeeddata(o, grain, token, opt) == CycleCmp(o, grain, token, NEEDDATA, opt)

\* rdfl_csm_readIdentifier and rdfl_csm_readMatchAny
Token(r, grain, opt) ==
  IF Failed(r) THEN Result(r.w, r.ret, <<>>) ELSE Extract(r.w, grain, r.d.ret, opt)
ReadIdentifier(o, grain, opt) ==
  Token(IterateChunk(o, grain, "identifier", [ret |-> 0], opt), grain, opt)
ReadMatchAny(o, grain, class, opt) ==
  Token(IterateChunk(o, grain, "match_any", [class |-> class, ret |-> 0], opt), grain, opt)

\* rdfl_csm_readUntil; its origin is the skip offset before the predata.
UntilToken(r, grain, opt) ==
  IF r.ret < 0 THEN Result(r.w, UntilOutcome(r).ret, <<>>) ELSE Extract(r.w, grain, r.d.ret, opt)
ReadUntil(o, grain, token, opt) ==
  UntilToken(IterateChunk(o, grain, "until", UntilData(o, token), opt), grain, opt)

\* rdfl_csm_readString: every error is an incomplete token.
StringToken(r, grain, opt) ==
  IF Failed(r) THEN Result(r.w, VCSM_INCOMPLETE_TOKEN, <<>>)
  ELSE IF r.ret < 0 THEN Result(r.w, r.d.ret, <<>>)
  ELSE Extract(r.w, grain, r.d.ret, opt)
ReadString(o, grain, opt) ==
  StringToken(IterateChunk(o, grain, "string", [total |-> 0, ret |-> 0], opt), grain, opt)

-----------------------------------------------------------------------------
(* The caller *)

\* The offset of the next byte that is neither consumed nor skipped.
Here(o) == o.pos - o.b.total + o.b.skip

NoCall == [op |-> "none", arg |-> 0, opt |-> {}, ret |-> 0, out |-> <<>>, at |-> 0]
Ready == last = NoCall

Called(op, arg, opt, r) ==
  /\ w' = r.w
  /\ last' = [op |-> op, arg |-> arg, opt |-> opt, ret |-> r.ret, out |-> r.out, at |-> Here(w)]
  /\ UNCHANGED <<text, fault>>

DoNdx == Ready /\ \E grain \in Grains, n \in 0 .. 2 : Called("ndx", n, {}, Ndx(w, grain, n))
DoCmp == Ready /\ \E grain \in Grains, t \in Tokens : Called("cmp", t, {}, Cmp(w, grain, t))
DoCmpNeeddata ==
  Ready /\ \E grain \in Grains, t \in Tokens, opt \in Options :
    Called("cmp_needdata", t, opt, CmpNeeddata(w, grain, t, opt))
DoContent ==
  Ready /\ \E grain \in Grains, c \in 0 .. 2, opt \in Options :
    Called("content", c, opt, GetContent(w, grain, c, opt))
DoIdentifier ==
  Ready /\ \E grain \in Grains, opt \in Options :
    Called("identifier", 0, opt, ReadIdentifier(w, grain, opt))
DoMatchAny ==
  Ready /\ \E grain \in Grains, opt \in Options :
    Called("match_any", 0, opt, ReadMatchAny(w, grain, Digits, opt))
DoUntil ==
  Ready /\ \E grain \in Grains, t \in Tokens, opt \in Options :
    Called("until", t, opt, ReadUntil(w, grain, t, opt))
DoString ==
  Ready /\ \E grain \in Grains, opt \in Options :
    Called("string", 0, opt, ReadString(w, grain, opt))

\* The caller reads by itself, or drops a byte.
DoRead ==
  /\ Ready /\ ~w.v.noextend
  /\ \E grain \in Grains :
       LET r == ReadData(w, grain) IN Called("read", 0, {}, Result(r.w, r.ret, <<>>))
DoConsume ==
  Ready /\ Called("consume", 1, {}, Result([w EXCEPT !.b = ConsumeSize(@, 1)], 0, <<>>))

\* The caller has seen the results, and goes on.
Return == ~Ready /\ last' = NoCall /\ UNCHANGED <<text, fault, w>>

\* rdfl_load on one of the files.
Init ==
  /\ \E f \in Files : text = f.text /\ fault = f.fault
  /\ w \in {[b |-> AddBuffer(NullBuffer, v.buffsize), pos |-> 0, eof |-> FALSE, v |-> v] : v \in Settings}
  /\ last = NoCall

Next ==
  \/ DoNdx \/ DoCmp \/ DoCmpNeeddata \/ DoContent
  \/ DoIdentifier \/ DoMatchAny \/ DoUntil \/ DoString
  \/ DoRead \/ DoConsume \/ Return

Spec == Init /\ [][Next]_vars

-----------------------------------------------------------------------------
(* What the calls should return, as a function of the text alone *)

\* The text as the calls know it: a read that failed is the end of the file to them.
ReadFailed == w.eof /\ w.pos = fault
Held == IF ReadFailed THEN SubSeq(text, 1, fault) ELSE text

From(t, n) == SubSeq(t, n + 1, Len(t))
StartsWith(t, token) == Len(t) >= Len(token) /\ SubSeq(t, 1, Len(token)) = token

\* The number of characters up to and including the first token of t, 0 if none.
UpTo(t, token) ==
  LET at == {i \in 0 .. Len(t) : StartsWith(From(t, i), token)}
  IN  IF at = {} THEN 0 ELSE Min(at) + Len(token)

RECURSIVE PredataOf(_)
\* The blanks and comments t begins with; Junk when a comment does not end.
PredataOf(t) ==
  LET blanks == IF w.v.blanks THEN Prefix(t, Blanks) ELSE 0
      here == {k \in DOMAIN w.v.comments : StartsWith(t, w.v.comments[k].beg)}
      comment == w.v.comments[Min(here)]
      end == UpTo(From(t, Len(comment.beg)), comment.end)
      n == IF blanks > 0 THEN blanks ELSE Len(comment.beg) + end
  IN  IF blanks = 0 /\ here = {} THEN 0
      ELSE IF blanks = 0 /\ end = 0 THEN Junk
      ELSE LET more == PredataOf(From(t, n)) IN IF more = Junk THEN Junk ELSE n + more

IdentifierOf(t) == IF t # <<>> /\ t[1] \in Letters THEN Prefix(t, Letters \cup Digits) ELSE 0
StringOf(t) ==
  IF t # <<>> /\ t[1] = Quote /\ UpTo(Tail(t), <<Quote>>) > 0 THEN 1 + UpTo(Tail(t), <<Quote>>) ELSE 0

\* The predata of the last call, and what it should have returned.
LastPredata ==
  IF "IGNORE_PREDATASKIP" \in last.opt THEN 0 ELSE PredataOf(From(Held, last.at))
Expected ==
  LET pre == LastPredata
      t == From(Held, last.at + pre)
  IN  IF pre = Junk THEN IF last.op = "string" THEN VCSM_INCOMPLETE_TOKEN ELSE ERRBNF_SYNTAX
      ELSE CASE last.op = "identifier"   -> IdentifierOf(t)
             [] last.op = "match_any"    -> Prefix(t, Digits)
             [] last.op = "string"       -> StringOf(t)
             [] last.op = "cmp_needdata" -> IF StartsWith(t, last.arg) THEN 1 ELSE 0
             [] last.op = "ndx"          -> IF last.arg < Len(t) THEN last.at + pre + last.arg
                                            ELSE VCSM_REACHED_EOF

-----------------------------------------------------------------------------
(* Correctness *)

\* The type of every variable; the caller stands inside the file.
TypeOK ==
  /\ fault \in 0 .. Len(text) + 1
  /\ w \in [b : BufferType, pos : 0 .. Len(text), eof : BOOLEAN, v : Settings]
  /\ w.b.skip < SizeT /\ Here(w) \in 0 .. Len(text)
  /\ last.ret \in Int /\ last.out \in Seq(0 .. Len(text) - 1) /\ last.at \in 0 .. Len(text)

\* "skip will never be >total" (iterate.c:37)
SkipNeverPastTotal == w.b.skip <= w.b.total

\* What a token consumer or a look-ahead returns depends on the text alone, not on
\* how the reads cut it nor on the chunks it lies in; without RDFL_AUTOREAD, or
\* where RDFL_NOEXTEND finds no room, the call may give up instead, but never
\* answers wrong on the part it has (iterate.c:98).  Where a read failed, every call
\* answers what it would on a file that ends there, and none returns ERR_READ
\* (iterate.c:32): a token that the error cut is returned as if it were whole.
TokensExact ==
  last.op \in {"identifier", "match_any", "string", "cmp_needdata", "ndx"} =>
    \/ last.ret = Expected
    \/ ~w.v.autoread /\ last.ret = VCSM_INCOMPLETE_TOKEN
    \/ w.v.noextend /\ last.ret \in {ERR_NOSPACELEFT, VCSM_INCOMPLETE_TOKEN}

\* A readUntil that finds its token stops at the first one.  It may miss one: a
\* comparison that reads ahead leaves the loop behind the data (read_until.c:24),
\* and so does predata; but a token of one byte, looked for from where the caller
\* stands, is never missed once the file has been read, as far as it could be: a
\* token behind a failed read is answered not to be there.  Without RDFL_AUTOREAD,
\* and under RDFL_NOEXTEND, this is said of tokens of one byte only: a longer one
\* that cannot be compared to its end is taken for found (read_until.c:25).
UntilNeverWrong ==
  last.op = "until" /\ LastPredata = 0 /\ (Len(last.arg) = 1 \/ (w.v.autoread /\ ~w.v.noextend)) =>
    \/ last.ret = UpTo(From(Held, last.at), last.arg)
    \/ last.ret = 0 /\ Len(last.arg) > 1
    \/ ~w.v.autoread /\ last.ret = VCSM_INCOMPLETE_TOKEN
    \/ w.v.noextend /\ last.ret = ERR_NOSPACELEFT

\* What is extracted is the token that was measured, byte for byte, as it follows
\* the predata: _iterate_extract walks the chunks anew.
ExtractsToken ==
  last.op \in {"identifier", "match_any", "string"} /\ "EXTRACT" \in last.opt /\ last.ret > 0 =>
    last.out = [i \in 1 .. last.ret |-> last.at + LastPredata + i - 1]

\* What rdfl_bacc_getcontent copies are the bytes that follow the predata, none lost
\* and none twice across the pieces, and it copies as many as it reports; unless
\* predata is skipped, by it or before: then it may report more than there was left
\* to copy (get_content.c:47), but never copies more than it reports.
ContentExact ==
  last.op = "content" /\ last.ret >= 0 =>
    /\ last.out = [i \in 1 .. Len(last.out) |-> last.at + LastPredata + i - 1]
    /\ Len(last.out) <= last.ret
    /\ w.b.skip = 0 => Len(last.out) = last.ret

\* A consumer that consumes leaves the caller right behind the token; one that
\* does not, or finds nothing, leaves it behind the predata; one that fails may
\* also leave it where it was.  A failed read ends a token or predata as the end of
\* the file does.
StandsAfterToken ==
  last.op \in {"identifier", "match_any", "string"} =>
    \/ last.ret < 0 /\ Here(w) = last.at
    \/ Here(w) = last.at + LastPredata
                   + (IF last.ret > 0 /\ "CONSUME" \in last.opt THEN last.ret ELSE 0)

=============================================================================
