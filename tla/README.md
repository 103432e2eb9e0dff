# A verification development for rdfl

rdfl is a C library for reading and buffering streams: an object (`t_rdfl`) wraps a file
descriptor, *readers* move bytes from it into an elastic buffer, *consumers* take bytes out,
*accessors* and *token consumers* look at the unread bytes as if they were one string, and a
small grammar machine (BNF) is built on the token consumers. This directory models that code in
TLA+, checks the models with TLC on small instances, and proves with TLAPS, for every size and
setting, that the buffer is correct and is a queue, that a reader's count and the end of file can be
trusted, that an object owns its memory and its descriptor, that the grammar reader owns its
blocks, links what it read and reads a grammar back as it was written, and that the grammar
evaluator returns what the grammar means.
Sources are named relative to `src/lib/`.

## 1. Inventory

| Component | State | Operations | Interacts with | What makes it correct |
|---|---|---|---|---|
| Chunk list and ring (`buffer/buffer.c`, `read.c`, `consume.c`, `manage.c`) | a list of chunks; `buffer.ndx`, the writing index in the last one; `consumer.ndx`, `l_total`, the ring in the first one; `total`; `skip` | grow, getters of the two pointers, `addsize`, `b_consume_size`, the flushes, `b_set_skip`, `b_clean` | called by all the others | the unread bytes are found where the getters and the iterator look, in order, once; free space is what is free |
| Readers (`rdfl/rdfl_readers.c`, `rdfl_utils.c`, `extract.c`, `clean.c`) | the settings, the descriptor | `size`, `allavail`, `singlestep`, `noextend`, three `monitoring` readers, `rdfl_consume_size`, flushes, `_close_fd` | `read(2)`, `select(2)`, `close(2)`, a peer at the other end | counts are what was buffered; EOF is the peer's EOF; the descriptor is closed once; calls return |
| Network part (`rdfl/network.c`) | `t_rdfl_net`: the fd set, a `struct timeval` | `nw_init`, `nw_init_timeout`, `nw_monitoring` | `select(2)` | the timer follows the object's timeout |
| Object life cycle (`rdfl/rdfl.c`) | `t_rdfl`: options, comments, pointers | init, options, loaders, clean | `malloc`, `free` | every block is owned once and freed once, whatever fails |
| Iterator (`buffer/iterate.c`) | none of its own: the buffer and the walk's locals | the walk, automatic reading, predata (blanks, comments), extract and consume | calls back the accessors, which may call it again | a token is seen whole, however it is cut |
| Accessors and token consumers (`buffer/access.c`, `accessors/`, `consumers/`) | a callback's local state | ndx, cmp, getcontent; identifier, match-any, until, string | iterator | results are a function of the text alone, as far as it could be read |
| Grammar reader (`bnf/rdfl_bnf.c`, `rdfl_bnf_params.c`) | the productions being built, an error code | recursive descent, linking, freeing | token consumers with consumption, `malloc` | a grammar written as it should be is read back as written; of any other, nothing is accepted that was not written; each block is freed once |
| Grammar evaluator (`bnf/rdfl_bnf_run.c`) | the C stack | rules, alternatives, literals, `[..]?`, `[..]*`, `[..]+` | token consumers with consumption | it accepts what the grammar says and stops |
| Contexts (`buffer/rdfl_context.c`), `devel.c`, dumps, `rdfl_infos.c` | | not compiled, printing, empty | | |

The library has no threads. What is hard about it is not interleaving inside it but *sequences*:
growths, wraps, partial consumptions, skips and short reads in any order; a peer that writes and
closes between two iterations of a loop; one allocation, read or select of several failing; a
walk over data that reads more data, and callbacks that start walks of their own; a recursive
descent that gives up at any depth with blocks in its hands; an evaluation that consumes as it goes. `PROJECT.json`
lists these hazards at their lines with the properties that guard them, or with the reason why none does: some are
defects of the code, which the properties that hold have to leave out (section 4).

## 2. Modules

| Module | Models | How |
|---|---|---|
| `Buffer` | `t_rdfl_buffer` as a value, and its operations as operators | A chunk is a sequence of cells, a byte is its offset in the stream, memory nobody wrote is `Junk`. `raw` is the list from `consumer.raw` to `buffer.raw`. `Geometry`, `Stored` say what a sound buffer is. |
| `Rdfl` | one object with its readers, consumers and flushes, and a peer | Variables are the buffer, the settings, the descriptor, the kernel's side (`sent`, `peer`) and the call under way with its locals. Each loop iteration of the C code is one action, so that the peer acts between them. A `read` or `select` with nothing to report is a disabled step. |
| `ByteFifo` | the promise of the buffer: a queue of bytes | Bytes arrive at its end in the order of the stream and leave at its front. |
| `RdflFifo` | how `Rdfl` is that queue | The refinement mapping: the queue is the pieces the iterator would visit, concatenated. |
| `RdflObject` | memory ownership and the descriptor over the object's life | `heap` is the set of live blocks; every pointer of the object is a field; a call is one step, and each of its `malloc`s may fail, after which it frees what it frees of those before. |
| `Iterate` | the iterator, its accessors, its token consumers | One call is one step, whose results stay in `last` until `Return`; inside it the object is threaded through operators, because callbacks read and walk recursively, so that each looks at the buffer as the one before left it. The file's text is a sequence of characters, a buffer byte its offset. `read(2)` gives at most `grain` bytes, an arbitrary number chosen per call, and fails from the offset `fault` of the file on, if there is one. `size_t` has 8 bits, so that skip wraps. |
| `BnfReader` | `rdfl_readBNF`, its parameters, linking, `rdfl_freeBNF` | The text is a sequence of symbols: names, literals, operator characters. Each call that may return early is a step; `levels` holds the locals of every `_read_orloop` under way, `prod` those of `read_production`. Factors and alternatives are nodes with their blocks; `live` is what `malloc` gave and nobody freed. `malloc` may fail at each of its calls. What `LOCAL_REACHED_EOF` is set by, the look-ahead of a token at the end of the file, is kept, because `read_prodloop` decides by it. |
| `BnfRun` | `rdfl_applyBNF` | A machine with a stack of the calls of `_eval_orexpr`. Its stream is a sequence of symbols, whole or not: where it is not, the end of the data is not the end of the file. `IsMeaning` states the rules of the parsing expression grammar that a grammar is, part by part. |
| `BufferProofs`, `RdflProofs`, `RdflFifoProofs` | | theorems of `Buffer`, `Rdfl` and `RdflFifo` |
| `RdflObjectProofs`, `BnfReaderProofs`, `BnfReadBackProofs`, `BnfRunProofs` | | theorems of `RdflObject`, `BnfReader` and `BnfRun` |
| `SequenceLemmas` | | lemmas on naturals, flattened sequences, families of disjoint sets, suffixes, sequences that stand in another |
| `MCRdfl`, `MCRdflObject`, `MCIterate`, `MCBnfReader`, `MCBnfRun` | | instances for TLC |

Operators whose comment begins "Variant for mutation" are slips of the code one
could make; each shows that a property would notice it, and no specification uses them.

`Rdfl` and `Iterate` share `Buffer`, hence its proved lemmas hold under both. `RdflObject` repeats
neither: it abstracts a read to "a chunk was appended, or not", and the bytes to nothing.
`BnfReader` and `BnfRun` stand on what `Iterate` checks of the consumers: one comparison, one name
or one string is one symbol, taken whole or not at all, blanks and comments before it skipped. In one
point they assume more than `Iterate` shows, that the end of a comment is not missed (section 4). Their
text is what could be read, be it all of the file or not.
A grammar of `BnfRun` is what `BnfReader` leaves behind after linking.

## 3. What the runs check

| Run | Bounds | What it shows |
|---|---|---|
| `buffer` | chunks of 2 bytes, a stream of 6, sizes 1 and 3, blocks up to 6; the policies plain, FULLEMPTY, ADJUST_BUFFSIZE | `BufferSound`, `RoomIsExact`, `ConsumesExactly`, `SkipSound`, `FlushExact`, `EofMeansAllRead`, and the refinement `ImplementsByteFifo` |
| `faults` | a stream of 3, sizes 0, 2, 3; `malloc`, `read`, `select` may fail; the DEVEL build's check of `b_set_skip` | `ReturnsBytesRead`, `ClosesOnlyOpen` |
| `fair` | a stream of 4, size 2, no faults, the peer closes in the end | `ConsumeEnds`, `CallsReturn` |
| `silent` | a timeout; the peer may stay silent and open | `MonitoringReturns` |
| `lifecycle` | at most 1 comment and 2 chunks, timeouts -5, -1 and 2.5 s, three settings, every `malloc` may fail | `HeapOwned`, `CleanFreesAll`, `DescriptorRemembered`, `TimerFollows` |
| `default` | a monitoring object, timeouts -5 and -1 | refutes `DefaultTimeoutBlocks` |
| `tokens` | all files of up to 3 characters over 6, and five longer ones; chunks of 2, reads of 1 or 2, with AUTOREAD and without, blanks and line comments; a ring of 3 with AUTOREAD and NOEXTEND, without predata; the longer files also with a `read` that fails at each offset, and those of 3 characters over `a`, `/`, `#` with one that fails at offset 2 | `TokensExact`, `UntilNeverWrong`, `ExtractsToken`, `StandsAfterToken`, `ContentExact`, `SkipNeverPastTotal` |
| `comment` | two files with a block comment, no AUTOREAD | refutes `SkipNeverPastTotal` |
| `consumed` | the longer files, NOEXTEND, AUTOREAD, blanks and comments | refutes `SkipNeverPastTotal` |
| `grammar` | 25 plain grammars of one to three productions, couples nested in couples, up to two parameters; and three of them cut at every place, or with one symbol dropped, added or replaced there by any of 14; two `malloc`s fail, anywhere | `HeldOnce`, `NothingLeaks`, `ReadsBack`, `NothingInvented`, `NoDanglingSeparator`, `LinksResolve`, `Terminates` |
| `evaluate` | grammars of two rules and a couple, one to two alternatives of one to two factors each, among them left-recursive ones, repetitions of nothing, missing rules and no grammar; streams of up to five symbols, whole or not; a stack of 15 calls | `Recognizes`, `ErrorsFinal`, `Ends` |

`Recognizes` compares the machine of `BnfRun` with what a grammar means: a relation `Meaning` closed
under the rules of parsing expression grammars (`IsMeaning`), so that what it says of every such
relation it says of the least one. The instance `PegMeaning` of `MCBnfRun` is, for a well-formed
grammar, the recursive functions that compute its meaning, which TLC checks to obey the rules; of a
grammar on which they do not end it holds everything. For a stream that is not whole, the
answer must be right under every continuation in `Extensions`. `ReadsBack`
compares what `rdfl_readBNF_dump` would print of the productions with the text they were read from,
for the texts that are `Plain`: written as they should be. `Plain` says for each symbol of a text what
may stand behind it, by the syntax the functions of `rdfl_bnf.c` and `rdfl_bnf_params.c` look for, and
that the brackets of a rule match; it mentions nothing that the reader keeps. The 25 plain grammars
satisfy it, and some of the texts made of them still do. A plain grammar that uses a rule it
does not define (`Defined`) may be refused; no other may, if no `malloc` fails.

*Why the bounds are enough.* Chunks of two bytes wrap after one partial consumption; a stream of
six fills three of them, so there is a first, a middle and a last chunk, the first one wrapped and
partly consumed; 1 and 3 are sizes below and above a chunk. The theorems below remove these
bounds for the safety of the buffer. For tokens, a chunk of two bytes cuts every token of the
longer files at least twice, `grain` 1 cuts it at each byte, and the long files put blanks,
comments and strings across chunk borders. A second object would add nothing: objects share no
state. The grammar reader's paths differ in what the next symbol is, in the depth (0, 1, 2) and in
which `malloc` fails: breaking three grammars at every place with every kind of symbol, twice
without memory, takes every early return at every depth. The evaluator's depth is exceeded only by
grammars that recurse for ever, since the others nest less than 15 calls on streams of five.

*Bounds that are not in the code.* `StreamLength`, `MaxAlloc`, `MaxComments`, `MaxChunks`,
`MaxFailures`, the sets of sizes, the files, grammars, streams and their `Extensions`. `MaxDepth`
stands for the size of the C stack.

*Preconditions.* `SetSkip` of `Rdfl` stays within the unread bytes. The DEVEL build checks it; the
other sets `skip` to whatever it is given (`manage.c:9`), so that it is left to the caller. The
iterator, which sets `skip` without `b_set_skip`, keeps to it but for two cases: the runs `comment` and
`consumed` show it past `total`. Of an object in such a state the theorems of `Rdfl` say nothing.
Further, nothing is called on a cleaned object but `rdfl_init`; one does not clean an object
whose load failed before its data was set (`rdfl_clean` would walk indeterminate pointers).

*Fairness.* `Rdfl` states it for the body of a call: the library is a sequential program that
takes its next step unless `read` or `select` blocks it, so weak fairness of `Body` says no more
than that the process is scheduled. `fair` adds that the peer closes at last; `silent` does not.
The liveness properties are for `Faults = {}`: with faults, fairness would force a blocked call to
fail. Nothing in `RdflObject` or `Iterate` waits, they state no fairness. `BnfReader` and `BnfRun`
have weak fairness of their whole next-state relation: their calls never wait, since a consumer
returns what it can tell. `Terminates` and `Ends` then say that their loops and recursions stop.

Deadlock is checked in every run: a cleaned object stutters explicitly, everything else goes on.

## 4. What does not hold

Three runs refute what a comment of the code says; `PROJECT.json` quotes the lines.

* `iterate.c:37`, "skip will never be >total", fails without AUTOREAD when a comment's end is cut
  (`comment`): `_cb__csm_readUntil` takes `VCSM_INCOMPLETE_TOKEN` for a match.
* The same sentence fails under NOEXTEND (`consumed`): the automatic read consumes the predata
  that the walk above it still counts in `skip`.
* `values.h:5` says the default timeout blocks (`default`): `rdfl_set_timeout(-5)` stores the
  default, but hands -5 to the timer.

The properties also carry exceptions, each named in its comment, for what the code does on
purpose or by omission: a flush of the first buffer does not return when it is the only chunk; a
flush with bytes to skip loses them; `rdflReader_monitoring_allavail` without `err` forgets its
count at EOF; with AUTOCLOSE the descriptor is closed at EOF and again by `rdfl_clean`;
`rdfl_load` forgets that the object is to be freed; readUntil may miss a token of several bytes
when a comparison reads ahead, or cannot (without AUTOREAD, or in a full ring under NOEXTEND), and
looks from the predata's beginning when there is some; `rdfl_bacc_getcontent` reports the count it
aimed at, which is more than it copied when predata was skipped (`get_content.c:47`).

A read error is taken for the end of the file. `push_read` calls `_close_fd` after both (`read.c:47`),
and `_iterate_taildata_auto` returns `VCSM_REACHED_EOF` whenever that has happened (`iterate.c:32`):
under AUTOREAD, `ERR_READ` is never returned. A token that the error cut is returned as if it were whole, readUntil
answers that a token behind the error is not there, and a comment that it cut has no end. The properties
of `Iterate` are stated of the text as far as it could be read (`Held`): once a read has failed
each call answers as on a file that ends there, and never mixes the two.
`rdfl_readBNF` inherits this: it may accept the part of a grammar it could read. No line of the repository
promises otherwise, so no run refutes anything here.

In the grammar machine:

* A last production that the end of the file cuts, the `s` of `r ::= 'a' ; s ::= r`, is dropped
  without an error, and the grammar is accepted without it: the comparison that fails at the end
  of the file returns 0, which `read_production` does not make an error (`rdfl_bnf.c:213`).
  `NothingInvented` allows texts to lose symbols, and `ReadsBack` speaks of `Plain` texts only. The
  run `grammar` contains these texts.
* A block comment whose "*/" the reads cut may be missed, as above, and the grammar is then refused
  with `ERRBNF_SYNTAX`. `BnfReader` assumes that a comment which ends is skipped: `ReadsBack` is about
  such readings.
* A couple without an operator, `[ a ]`, is refused, but its expressions are not freed
  (`rdfl_bnf.c:171`): `NothingLeaks` leaves such texts out.
* When the name of a builtin rule cannot be stored, its ":" stays consumed (`rdfl_bnf.c:146`), and
  the name is read again as a rule of the grammar: `ReadsBack` allows the ":" to be lost after a
  failed `malloc`.
* The evaluator does not take back what it consumed: when a sequence fails behind a factor that
  consumed, the next alternative starts there (`rdfl_bnf_run.c:102`, with a TODO about contexts).
  The model marks such an evaluation `spoilt`, and `Recognizes` says nothing of it.
* An evaluation does not return when an expression under `+` or `*` succeeds on nothing
  (`rdfl_bnf_run.c:33`), exhausts the C stack under left recursion (`:132`), and reads a NULL list
  for a production without expressions (`:116`), which `rdfl_readBNF` accepts. `WellFormed` excludes
  these three from `Ends`, and as they do not return, `Recognizes` says nothing of them; the
  instances contain them.

## 5. What is proved

`RdflProofs` and `RdflFifoProofs` prove, for every chunk size, allocation limit, stream length, set of sizes, settings
and faults:

| Theorem | States |
|---|---|
| `Typing` | `Spec => []TypeOK` |
| `BytesStayInPlace` | `Spec => []BufferSound` |
| `SkipStaysInside` | `Spec => []SkipSound` |
| `NoByteLost` | `Spec => []ConsumesExactly` |
| `PointersExact` | `Spec => []RoomIsExact` |
| `CountsAreExact` | `Spec => ReturnsBytesRead` |
| `EofIsThePeers` | `Spec => []EofMeansAllRead`, if `read` is not among the faults |
| `ClosesOnce` | `Spec => ClosesOnlyOpen` |
| `FlushesAreExact` | `Spec => []FlushExact` |
| `ObjectIsQueue` | `Spec => ImplementsByteFifo`: the refinement of `ByteFifo` |

Assumed are `MaxAllocAssumption` and `RdflAssumption` only: the constants have their types, and the
chunk size is positive and can be allocated at all.

The argument. None of the first five is inductive: that a read lands in free space needs the geometry of
the ring, the geometry after a chunk is dropped needs that the next one is full or is the last,
and the ledger of consumed bytes needs the value `b_consume_size` still has to drop. The inductive
invariant `IInv` conjoins them: `Sound` (the buffer's geometry and contents, skip within total),
`ObjectOK`, `KernelOK`, `CallOK` (types), and `Ledger` (what the call under way has asked for and
not done yet). `BufferProofs` holds one lemma per operation of the buffer — `AddBufferSound`,
`PushBytesSound`, `DropFirstSound`, `DropPartSound`: a sound buffer stays sound, and the counters
move by so much — by cases on whether the list has one chunk, two, or more, and whether the ring
wraps. `RdflProofs` has one lemma per action, which reduces it to those; `StepIInv` collects them.
The `%` of `b_consume_size` is replaced by a conditional (`ModIsWrap`), since its argument is below
twice the size.

`CountsAreExact`, `EofIsThePeers`, `ClosesOnce` and `FlushesAreExact` stand on `IInv`. Every read,
whichever reader makes it, has one of four outcomes
(`ReadOutcome`): some bytes, the end of file, an error, or nothing because the end was seen before;
that a read into an empty window does not occur, and so cannot pass for the end of file, comes from
`RoomToRead` and `RoomInBuffer`, the exactness of the pointers. `EofIsThePeers` and `ClosesOnce` follow
from `BodyReads`, which says that a step of a call does nothing else to the stream. `CountsAreExact`
needs one more invariant, `ReadSoFar`: at each iteration of each loop, the bytes read since the call
are what the loop's locals say. `FlushesAreExact` needs `FlushProgress`: while a flush runs, what was
copied is an initial part of the unread bytes of the moment it was called, as long as the block's
index says, and what is still to drop and to copy adds up to the size of the block.

`RdflFifoProofs` proves the refinement from the invariants alone. The mapped queue is a fold over a
list of any length, which no backend unfolds; the proof replaces it by a closed form. In a sound
buffer the pieces the iterator visits are consecutive intervals of the stream, so their concatenation
is the interval from `pos - total` to `pos` (`QueueIsStream`): the queue is a function of two
counters. Every step of `Rdfl` then maps to a step of `ByteFifo` because it moves these counters
(`StepIsFifo`): a read moves `pos`, a consumption lowers `total`, nothing else touches either.
`FlattenStream`, which gets from the pieces to the interval, is an induction along the list. The library's
induction theorems take an operator and cannot be used, so it takes the least length at which
the claim fails (`LeastNatural`), as a set of natural numbers that has an element has a least one.

`RdflObjectProofs` proves of `RdflObject`, for every timeout, number of comments and chunks, setting
and failing `malloc`:

| Theorem | States |
|---|---|
| `Typing` | `Spec => []TypeOK` |
| `HeapIsOwned` | `Spec => []HeapOwned` |
| `CleanFrees` | `Spec => []CleanFreesAll` |
| `DescriptorIsRemembered` | `Spec => []DescriptorRemembered` |
| `TimerIsRight` | `Spec => TimerFollows` |

Its invariant conjoins `Typed`; `Owned`, no two pointers of the object are to the same block, and the
heap is what they point to; `Phases`, what is set and what is not in each phase of the object's life;
and `Descriptor`. That `Fresh` gives blocks outside the heap, one per `malloc`, is `FreshIsFree`'s
matter; from it `GivenUpComment` and `GivenUpChunk` get that a call which gives up half-way leaves
the heap as it was; that ownership in the sense of the count `Pointers` is ownership in the sense of `Owned` is
proved once for comments and chunks (`CommentsCounted`, `ChunksCounted`). `TimerIsRight` rests on
the quotient and remainder of C's division giving back the timeout.

`BnfReaderProofs` and `BnfReadBackProofs` prove of `BnfReader`, for every text and number of failing `malloc`s:

| Theorem | States |
|---|---|
| `Typing` | `Spec => []TypeOK` |
| `NothingFreedTwice` | `Spec => []HeldOnce` |
| `NothingIsLost` | `Spec => []NothingLeaks` |
| `LinksAreResolved` | `Spec => []LinksResolve` |
| `NoneDangles` | `Spec => []NoDanglingSeparator` |
| `NothingIsInvented` | `Spec => []NothingInvented` |
| `ReadBackAsWritten` | `Spec => []ReadsBack` |

Assumed is `BnfReaderAssumption`: the texts are sequences of symbols, and names, literals and
operator characters are told apart. `Typed` and `Phases` say what each control state means for the locals: which levels of
`_read_orloop` exist, which of their lists are empty, whether a production is being built. The steps
take the last level, the last alternative and its last factor, and that these exist is what the early
returns guarantee. `HeldOnce` and `NothingLeaks` count holders over nested lists, of any depth; the
proof never counts. `Owned` says instead that the blocks of different productions, levels,
alternatives and factors are disjoint sets (`GrammarApart`, `ProdApart`, `LevelsApart`) and that
together they are the blocks in use (`InUse`); `SequenceLemmas` has what becomes of such a family when
a member is added, dropped or grown. From owners to the count `Pieces` it is once more an induction by
the least length. `Linking` says of a half-linked grammar which factors are resolved already
(`Resolved`) and, at its end, that no name is left (`NoNameLeft`). `NoneDangles` needs `Separated`: a
separator already consumed is followed by what it separates, or it is the last symbol consumed and
the control state is one that insists on what must come next. That covers what a test would hardly
try: a separator deep in couples, with something given up behind it.

`NothingIsInvented` is about what a whole grammar prints, at every depth, and needs to know at every
step what has been read so far. `Stood` says it: what the productions accepted until now print
(`Printed`), followed by what was begun of the next one and not given up (`SoFar`: the heading, its
"::=", and the open levels, each with its "|" and its bracket), stands in the consumed part of the
text. To stand in it (`StandsIn`) is to have increasing positions there. A step drops an end of
that sequence, where it gives something up, or appends what it consumed (`Becomes`), so it keeps
standing (`StillStands`); closing a couple replaces a level by a factor that prints the same, and
linking changes no print (`LinkedPrints`). At the end `FoldIsLength` gets from the positions to the
greedy fold by which `NothingInvented` is defined, by the least position at which the two
would part.

`ReadBackAsWritten` is the other direction, that nothing of a text written as it should be is
lost, and that it is accepted. `Stood` is stated for any set `X` of symbols that may be left out: with all
of them for `NothingIsInvented`, with the blank here, and with the blank and ":" once a `malloc` failed.
A step keeps it if what it drops is in `X` (`LosesOnly`), and which steps drop what follows from
`OnTrack`: for each control state, what the text has next (`Expects`), that the levels are the
brackets open there (`Depth`), and that no error is pending and the end of the file was not
seen (`LocalsOnTrack`). The proof of `StepOnTrack` goes through the descent call by call:
`Plain` says what stands next, hence which branch is taken, hence where the reader is then. A failed
`malloc` leaves the track. What was given up then is never taken up again, because the symbol behind
it is not one that may stand there (`Refused`, `StepRefused`); the one exception is the name of a
builtin rule, which is read once more. For the acceptance, `HeadsKnown` says that each head of a
rule that was passed is the name of a production, and `UsesKnown` that each factor yet to be linked names
a rule that the text uses, so that `_link_factors` finds it (`LinkFinds`). At the end `FilledKept` gets from
the positions to the equality of two folds that drop symbols.

`BnfRunProofs` proves `ErrorsGoUp`, `Spec => ErrorsFinal`: a factor is evaluated only when no error is
pending; and `Typing`, `Spec => []TypeOK`, for every grammar, stream and stack size. The latter needs that each call on
the stack stands at a suffix of one alternative, and that alternative at a suffix of the list of its
expression (`Within`): so the tails and heads a step takes exist. It assumes `BnfRunAssumption`,
that grammars are linked as `BnfReader` leaves them: a factor's expression or rule is one of the
grammar's, and no list of factors is empty.

`MeansWhatItSays`, `Spec => []Recognizes`, is the correctness of the evaluator, from
`BnfRunAssumption` and `MeaningAssumption`: `Meaning` obeys the rules of `IsMeaning` on each stream and
each continuation of it. Nothing else is assumed of it; it need not be a function or be total, so
that left recursion is no exception. The invariant behind it, `Meant`, holds unless the evaluation is
spoilt or an error is pending, and speaks of the calls on the stack as promises. For every
continuation of the stream there are places `o`, `o[i + 1]` the one where the factor began that the call
`i` evaluates. Whatever the grammar says of the rest of a call's sequence and alternatives, from where it is
now, it says of the expression from where the call began (`Reads`); and whatever it says of the
expression, it says of the factor the call was made for (`Serves`), where the round of a repetition
promises what the rounds behind it will come to. These make a `Chain` from the innermost call out
to the rule that was asked for (`Link`, `Linked`), and `Now` says what the last result means for the
call that sees it. A step keeps the chain: it uses up one rule of the grammar at the end of it. No
induction over grammars or derivations is needed, because it is only at the return of the outermost call
that a promise is cashed in. `LiteralMeans` is where the stream comes in: a comparison that returns no
error says what the literal means on every stream that the data may turn out to begin.

Only model-checked:

* All of `Iterate`. Its walks call each other and themselves on an object that changes under them, so
  that they are recursive operators, which the prover does not take; they are no folds.
* Liveness: `ConsumeEnds`, `CallsReturn`, `MonitoringReturns`, `Terminates`, `Ends`.

## 6. Not modelled

* Contexts: not compiled. `devel.c`, the dumps, `rdfl_infos.c`: no state.
* The addresses `nw_openconnection` tries: it opens a socket, and connects it or closes it.
* The unit tests and the sample grammar, which were read as documentation.
* `rdfl_set_buffsize`: `BuffSize` is the value it set.
* In the grammar machine, the characters of names, strings and comments, which are the matter of
  `Iterate`, among them the end of a comment that readUntil misses; read errors, which are to it
  the end of the file; and the grammar reader on an object without AUTOREAD (its test has it set).
* `rdflReader_legacy` and the C-style string callback: stubs.
* `errno`: an interrupted call fails like any other, and a `read` that failed is the last one, since
  `push_read` makes none after it. Memory exhaustion inside `Iterate` (`malloc` failing during
  an extraction; its failure inside the readers is in `Rdfl`).
* `RDFL_P_NULLTERMINATED`: one byte more behind the content, which no length counts but
  getcontent's.

## 7. Plan

In this order.

1. `Buffer`, `Rdfl`, `ByteFifo`: the buffer under every reader and consumer. Done.
2. `BufferProofs`, `RdflProofs`: `IInv` and the five theorems. Done.
3. `RdflObject`: ownership. Done.
4. `Iterate`: tokens. Done.
5. `BnfReader`: the recursive descent, with the error code and the blocks it allocates. Done.
6. `BnfRun`: the evaluator against the meaning of its grammar. Done.
7. `RdflProofs`, `RdflObjectProofs`, `BnfRunProofs`: the other action properties and
   invariants of `Rdfl`, all of `RdflObject`, the errors of `BnfRun`. Done.
8. `FlushExact`, and the refinement of `ByteFifo` (`RdflFifoProofs`). Done.
9. `BnfReaderProofs`, and `TypeOK` of `BnfRun`. Done.
10. `NothingIsInvented`: each symbol a production holds was consumed, in the order it prints them, as
    an embedding of the printed symbols into the consumed part of the text. Done.
11. `MeansWhatItSays`: the evaluator against any meaning closed under the rules of its grammar. Done.
12. `ReadBackAsWritten`: nothing of a grammar written as it should be is lost. Done.
