----------------------------- MODULE RdflObject -----------------------------
(***************************************************************************)
(* The life of a t_rdfl object and of the memory it owns: rdfl_init,       *)
(* the options, the loaders, rdfl_clean, and what the readers, the         *)
(* consumers and the end of file allocate and free in between.             *)
(*                                                                         *)
(* heap is the set of blocks malloc() returned and nobody freed; a block   *)
(* is a positive number, 0 is NULL, and malloc returns any block that is   *)
(* free, by convention the lowest.  Every malloc may fail when MallocFails *)
(* is TRUE.                                                                *)
(* The library is single threaded: a call is a step.  The bytes in the     *)
(* chunks are the matter of module Rdfl.                                   *)
(***************************************************************************)
EXTENDS Integers, Sequences, FiniteSets

CONSTANTS
  Timeouts,      \* the values passed to rdfl_set_timeout, in microseconds
  Settings,      \* the settings passed to the loaders
  MallocFails,   \* whether malloc() may fail
  MaxComments,   \* bound: comments registered
  MaxChunks      \* bound: chunks of the buffer

ASSUME RdflObjectAssumption ==
  /\ Timeouts \subseteq Int
  /\ Settings \subseteq SUBSET {"MONITORING", "AUTOCLOSE", "FULLEMPTY"}
  /\ MallocFails \in BOOLEAN
  /\ MaxComments \in Nat /\ MaxChunks \in Nat

VARIABLES
  heap,      \* the blocks malloc() gave and that were not freed
  descr,     \* the descriptor the library opened: "none", "open", "closed"
  phase,     \* "none", "inited", "loaded", "failed" (load), "cleaned"
  rdfl,      \* the t_rdfl
  last       \* the last call and what it returned

vars == <<heap, descr, phase, rdfl, last>>

NULL == 0
RDFL_DEFAULT_TIMEOUT == -1
ERR_NONE == 0
ERR_MEMORY_ALLOC == -3
ERR_BADF == -4
ERR_OPEN == -7
ERR_CONNECTION == -10

Second == 1000000
NoTimeval == [tv_sec |-> 0, tv_usec |-> 0]

\* A t_rdfl: self is the object's own block when rdfl_init_new allocated it; nw
\* points to a t_rdfl_net, whose timeout points to the struct timeval tv; cmts
\* and chunks are lists of t_comments and t_rdfl_blist; garbage says that data
\* holds whatever the memory held.
NoObject ==
  [self |-> NULL, timeout |-> 0, cmts |-> <<>>, nw |-> NULL, nwtimeout |-> NULL,
   tv |-> NoTimeval, settings |-> {}, chunks |-> <<>>, garbage |-> TRUE]

\* What last names.
Ops == {"none", "init", "init_new", "set_timeout", "add_comment", "load", "read", "consume", "clean"}

Comment == [node : Nat, beg : Nat, end : Nat]
Blist == [node : Nat, data : Nat]

-----------------------------------------------------------------------------
(* Memory *)

\* The block malloc returns while those of h are in use.
Free(h) == CHOOSE p \in 1 .. Cardinality(h) + 1 : p \notin h

\* The block the n-th of several mallocs in a row returns; no call has more than four.
Fresh(n) ==
  LET p == Free(heap)
      q == Free(heap \cup {p})
      r == Free(heap \cup {p, q})
  IN  <<p, q, r, Free(heap \cup {p, q, r})>>[n]

NewBlist(n) == [node |-> Fresh(n), data |-> Fresh(n + 1)]

\* What _comments_clean frees, and what b_clean does.
CommentBlocks(cmts) == UNION {{c.node, c.beg, c.end} : c \in {cmts[i] : i \in DOMAIN cmts}}
ChunkBlocks(chunks) == UNION {{c.node, c.data} : c \in {chunks[i] : i \in DOMAIN chunks}}

\* Variant for mutation: nw_clean is not called.
NetBlocksShell(r) == {r.nw} \ {NULL}

\* What rdfl_clean frees of the network part; free(NULL) does nothing.
NetBlocks(r) == {r.nw, r.nwtimeout} \ {NULL}

Returns(op, arg, ret) == last' = [op |-> op, arg |-> arg, ret |-> ret]

-----------------------------------------------------------------------------
(* Network timer *)

\* C divides towards zero.
Quotient(m, n) == IF m >= 0 THEN m \div n ELSE -((-m) \div n)
Remainder(m, n) == m - n * Quotient(m, n)

\* set_timeout of network.c
Timeval(timeout) ==
  [tv_sec |-> Quotient(timeout, Second), tv_usec |-> Remainder(timeout, Second)]

\* nw_init_timeout(-1): no timeout.
TimerOff(r) ==
  [rdfl |-> [r EXCEPT !.nwtimeout = NULL, !.tv = NoTimeval], heap |-> heap \ {r.nwtimeout}]

\* Variant for mutation: only a new timeval is filled in.
TimerOnOnce(r, block, timeout) ==
  IF r.nwtimeout # NULL THEN r
  ELSE [r EXCEPT !.nwtimeout = block, !.tv = Timeval(timeout)]

\* nw_init_timeout otherwise: block is the new timeval, when there was none.
TimerOn(r, block, timeout) ==
  [r EXCEPT !.nwtimeout = IF @ = NULL THEN block ELSE @, !.tv = Timeval(timeout)]

\* nw_init_timeout, called by rdfl_set_timeout with the object r.
NwInitTimeout(r, timeout) ==
  \/ /\ timeout = -1
     /\ rdfl' = TimerOff(r).rdfl /\ heap' = TimerOff(r).heap
     /\ Returns("set_timeout", timeout, ERR_NONE)
  \/ /\ timeout # -1
     /\ rdfl' = TimerOn(r, Fresh(1), timeout)
     /\ heap' = heap \cup {rdfl'.nwtimeout}
     /\ Returns("set_timeout", timeout, ERR_NONE)
  \/ /\ timeout # -1 /\ r.nwtimeout = NULL /\ MallocFails
     /\ rdfl' = r
     /\ Returns("set_timeout", timeout, ERR_MEMORY_ALLOC)
     /\ UNCHANGED heap

-----------------------------------------------------------------------------
(* Construction and options *)

\* rdfl_init on the caller's memory, the first time or after rdfl_clean.  It does
\* not touch data: what the memory holds stays there.
InitObject ==
  /\ phase \in {"none", "cleaned"}
  /\ rdfl' = [rdfl EXCEPT !.timeout = RDFL_DEFAULT_TIMEOUT, !.cmts = <<>>, !.settings = {},
                          !.nw = NULL, !.nwtimeout = NULL, !.tv = NoTimeval]
  /\ phase' = "inited"
  /\ descr' = "none"
  /\ Returns("init", 0, ERR_NONE)
  /\ UNCHANGED heap

\* rdfl_init_new
InitNew ==
  /\ phase = "none"
  /\ \/ /\ rdfl' = [NoObject EXCEPT !.self = Fresh(1), !.timeout = RDFL_DEFAULT_TIMEOUT,
                                    !.settings = {"LOCAL_ALLOC"}]
        /\ heap' = heap \cup {Fresh(1)}
        /\ phase' = "inited"
        /\ Returns("init_new", 0, ERR_NONE)
     \/ /\ MallocFails
        /\ Returns("init_new", 0, ERR_MEMORY_ALLOC)
        /\ UNCHANGED <<heap, phase, rdfl>>
  /\ UNCHANGED descr

Usable == phase \in {"inited", "loaded"}

\* Variant for mutation: the value is stored as it comes.
StoredTimeoutRaw(timeout) == timeout

StoredTimeout(timeout) == IF timeout < -1 THEN RDFL_DEFAULT_TIMEOUT ELSE timeout

WithTimeout(timeout) == [rdfl EXCEPT !.timeout = StoredTimeout(timeout)]

\* rdfl_set_timeout: the value is normalised for the object, not for the timer.
SetTimeout ==
  /\ Usable
  /\ \E timeout \in Timeouts :
       \/ /\ rdfl.nw = NULL
          /\ rdfl' = WithTimeout(timeout)
          /\ Returns("set_timeout", timeout, ERR_NONE)
          /\ UNCHANGED heap
       \/ /\ rdfl.nw # NULL
          /\ NwInitTimeout(WithTimeout(timeout), timeout)
  /\ UNCHANGED <<descr, phase>>

\* Variant for mutation: the node alone is freed.
GiveUpCommentNode(n) == (heap \cup {Fresh(i) : i \in 1 .. n}) \ {Fresh(1)}

\* The heap when rdfl_add_comment gives up with n blocks in its hands: the node and
\* the first string are freed, as far as malloc gave them.
GiveUpComment(n) == (heap \cup {Fresh(i) : i \in 1 .. n}) \ {Fresh(1), Fresh(2)}

\* rdfl_add_comment: a node and two strings, or the first n of them.
AddComment ==
  /\ Usable /\ Len(rdfl.cmts) < MaxComments
  /\ \/ /\ rdfl' = [rdfl EXCEPT !.cmts =
                       <<[node |-> Fresh(1), beg |-> Fresh(2), end |-> Fresh(3)]>> \o @]
        /\ heap' = heap \cup {Fresh(i) : i \in 1 .. 3}
        /\ Returns("add_comment", 0, ERR_NONE)
     \/ /\ MallocFails
        /\ Returns("add_comment", 0, ERR_MEMORY_ALLOC)
        /\ \E n \in 0 .. 2 : heap' = GiveUpComment(n)
        /\ UNCHANGED rdfl
  /\ UNCHANGED <<descr, phase>>

-----------------------------------------------------------------------------
(* Loaders *)

\* The blocks rdfl_load asks for: the t_rdfl_net and its timeval, and the two of
\* the first chunk.
NetWanted(settings) ==
  IF "MONITORING" \notin settings THEN 0 ELSE IF rdfl.timeout = -1 THEN 1 ELSE 2
ChunkWanted(settings) == IF "FULLEMPTY" \in settings THEN 0 ELSE 2

\* The object when the first n mallocs succeeded: a failure before b_init leaves
\* data as it was.
LoadedObject(settings, n) ==
  LET net == NetWanted(settings) IN
  [rdfl EXCEPT
     !.settings = settings,
     !.nw = IF net = 0 THEN @ ELSE IF n > 0 THEN Fresh(1) ELSE NULL,
     !.nwtimeout = IF net = 2 /\ n > 1 THEN Fresh(2) ELSE NULL,
     !.tv = IF net = 2 /\ n > 1 THEN Timeval(rdfl.timeout) ELSE @,
     !.garbage = n < net /\ @,
     !.chunks = IF n = net + 2 THEN <<NewBlist(net + 1)>> ELSE <<>>]

\* No failure undoes what was done before it, except that add_buffer_first frees
\* its node.
LoadedBlocks(settings, n) ==
  IF n = NetWanted(settings) + 1 THEN NetWanted(settings) ELSE n

\* rdfl_load with the given settings; the first n mallocs succeed.
Load(settings) ==
  \E n \in 0 .. NetWanted(settings) + ChunkWanted(settings) :
    /\ rdfl' = LoadedObject(settings, n)
    /\ heap' = heap \cup {Fresh(i) : i \in 1 .. LoadedBlocks(settings, n)}
    /\ \/ /\ n = NetWanted(settings) + ChunkWanted(settings)
          /\ phase' = "loaded"
          /\ Returns("load", rdfl.timeout, ERR_NONE)
       \/ /\ n # NetWanted(settings) + ChunkWanted(settings) /\ MallocFails
          /\ phase' = "failed"
          /\ Returns("load", rdfl.timeout, ERR_MEMORY_ALLOC)

\* rdfl_load or rdfl_load_fileptr, on a descriptor of the caller.
LoadFd ==
  /\ phase = "inited"
  /\ \E settings \in Settings : Load(settings)
  /\ UNCHANGED descr

OpenedSettings(settings) == settings \cup {"LOCAL_OPEN"}

\* rdfl_load_path: a descriptor of the library.
LoadPath ==
  /\ phase = "inited"
  /\ \E settings \in Settings : Load(OpenedSettings(settings))
  /\ descr' = "open"

\* Variant for mutation: the socket is not closed.
OpenConnectionLeaks ==
  {[descr |-> descr, ret |-> ERR_CONNECTION], [descr |-> "open", ret |-> ERR_CONNECTION],
   [descr |-> "open", ret |-> ERR_NONE]}

\* What nw_openconnection leaves: no socket; a socket that was closed again, for
\* its address or the connection; a connection.
OpenConnection ==
  {[descr |-> descr, ret |-> ERR_CONNECTION], [descr |-> "closed", ret |-> ERR_CONNECTION],
   [descr |-> "open", ret |-> ERR_NONE]}

\* rdfl_load_connect
LoadConnect ==
  /\ phase = "inited"
  /\ \E connection \in OpenConnection :
       /\ descr' = connection.descr
       /\ \/ /\ connection.ret = ERR_NONE
             /\ \E settings \in Settings : Load(OpenedSettings(settings))
          \/ /\ connection.ret # ERR_NONE
             /\ Returns("load", rdfl.timeout, connection.ret)
             /\ UNCHANGED <<heap, phase, rdfl>>

\* fileno or open fails.
OpenFails ==
  /\ phase = "inited"
  /\ \E ret \in {ERR_BADF, ERR_OPEN} : Returns("load", rdfl.timeout, ret)
  /\ UNCHANGED <<heap, descr, phase, rdfl>>

-----------------------------------------------------------------------------
(* The object at work, and its end *)

\* The settings and the library's descriptor after _close_fd.
CloseFd(r) == [r EXCEPT !.settings = (@ \ {"LOCAL_OPEN"}) \cup {"LOCAL_REACHED_EOF"}]
DescrClosed ==
  IF descr = "open" /\ rdfl.settings \cap {"AUTOCLOSE", "LOCAL_OPEN"} # {} THEN "closed"
  ELSE descr

\* push_read at the end of file or after an error.
EndOfFile ==
  /\ phase = "loaded" /\ "LOCAL_REACHED_EOF" \notin rdfl.settings
  /\ rdfl' = CloseFd(rdfl)
  /\ descr' = DescrClosed
  /\ Returns("read", 0, ERR_NONE)
  /\ UNCHANGED <<heap, phase>>

\* The heap when add_buffer_first or add_buffer_last gives up with n blocks in its
\* hands: it has the node, and frees it, when there was no memory for the data.
GiveUpChunk(n) == (heap \cup {Fresh(i) : i \in 1 .. n}) \ {Fresh(1)}

\* A reader appends a chunk, a node and its data, or gets the first n of them.
AddBuffer ==
  /\ phase = "loaded" /\ Len(rdfl.chunks) < MaxChunks
  /\ \/ /\ rdfl' = [rdfl EXCEPT !.chunks = Append(@, NewBlist(1))]
        /\ heap' = heap \cup {Fresh(1), Fresh(2)}
        /\ Returns("read", 0, ERR_NONE)
     \/ /\ MallocFails
        /\ Returns("read", 0, ERR_MEMORY_ALLOC)
        /\ \E n \in 0 .. 1 : heap' = GiveUpChunk(n)
        /\ UNCHANGED rdfl
  /\ UNCHANGED <<descr, phase>>

\* A consumer frees the first of several chunks (leave_unique_consumer_blist), or
\* all of them when they are empty (b_fullclean_if_empty).
FreeChunks ==
  /\ phase = "loaded" /\ rdfl.chunks # <<>>
  /\ \/ /\ Len(rdfl.chunks) > 1
        /\ rdfl' = [rdfl EXCEPT !.chunks = Tail(@)]
        /\ heap' = heap \ ChunkBlocks(SubSeq(rdfl.chunks, 1, 1))
     \/ /\ "FULLEMPTY" \in rdfl.settings
        /\ rdfl' = [rdfl EXCEPT !.chunks = <<>>]
        /\ heap' = heap \ ChunkBlocks(rdfl.chunks)
  /\ Returns("consume", 0, ERR_NONE)
  /\ UNCHANGED <<descr, phase>>

\* rdfl_clean; the pointers it freed stay in the object, except in data.  It walks
\* the chunks: the caller does not clean an object whose data was never set.
Clean ==
  /\ phase \in {"inited", "loaded", "failed"} /\ ~rdfl.garbage
  /\ heap' = heap \ (NetBlocks(rdfl) \cup CommentBlocks(rdfl.cmts) \cup ChunkBlocks(rdfl.chunks)
                      \cup IF "LOCAL_ALLOC" \in rdfl.settings THEN {rdfl.self} ELSE {})
  /\ rdfl' = [CloseFd(rdfl) EXCEPT !.chunks = <<>>]
  /\ descr' = DescrClosed
  /\ phase' = "cleaned"
  /\ Returns("clean", 0, ERR_NONE)

\* The caller gives up on an object it cannot load nor clean.
GivenUp == phase = "failed" /\ rdfl.garbage /\ UNCHANGED vars

-----------------------------------------------------------------------------

Init ==
  /\ heap = {} /\ descr = "none" /\ phase = "none" /\ rdfl = NoObject
  /\ last = [op |-> "none", arg |-> 0, ret |-> ERR_NONE]

Next ==
  \/ InitObject \/ InitNew \/ SetTimeout \/ AddComment
  \/ LoadFd \/ LoadPath \/ LoadConnect \/ OpenFails
  \/ EndOfFile \/ AddBuffer \/ FreeChunks \/ Clean \/ GivenUp

Spec == Init /\ [][Next]_vars

-----------------------------------------------------------------------------
(* Correctness *)

\* The type of every variable; a stored timeout is never below -1.
TypeOK ==
  /\ heap \subseteq Nat \ {NULL}
  /\ descr \in {"none", "open", "closed"}
  /\ phase \in {"none", "inited", "loaded", "failed", "cleaned"}
  /\ rdfl \in [self : Nat, timeout : Nat \cup {-1}, cmts : Seq(Comment), nw : Nat,
                nwtimeout : Nat, tv : [tv_sec : Int, tv_usec : Int],
                settings : SUBSET {"MONITORING", "AUTOCLOSE", "FULLEMPTY",
                                   "LOCAL_OPEN", "LOCAL_ALLOC", "LOCAL_REACHED_EOF"},
                chunks : Seq(Blist), garbage : BOOLEAN]
  /\ last \in [op : Ops, arg : Int, ret : Int]

\* Every pointer of the object, in some order.
Pointers(r) ==
  LET One(p) == IF p = NULL THEN 0 ELSE 1 IN
  One(r.self) + One(r.nw) + One(r.nwtimeout) + 3 * Len(r.cmts) + 2 * Len(r.chunks)

\* From rdfl_init to rdfl_clean the object points to every block that was
\* allocated, once, and to none that was freed: whatever malloc fails in
\* rdfl_add_comment, nw_init_timeout, rdfl_load or add_buffer, nothing is lost,
\* and rdfl_clean will free nothing twice.
HeapOwned ==
  phase \in {"inited", "loaded", "failed"} =>
    /\ heap = ({rdfl.self} \ {NULL}) \cup NetBlocks(rdfl)
                \cup CommentBlocks(rdfl.cmts) \cup ChunkBlocks(rdfl.chunks)
    /\ Cardinality(heap) = Pointers(rdfl)

\* rdfl_clean leaves no block but the object itself, when rdfl_init_new allocated
\* it (rdfl_load has overwritten LOCAL_ALLOC by then), and no descriptor.
CleanFreesAll ==
  phase = "cleaned" => heap = {rdfl.self} \ {NULL} /\ descr # "open"

\* While a descriptor the library opened is open, the object remembers that it is
\* the library's, even after a load that failed; and no longer than that: no
\* second close comes from LOCAL_OPEN.
DescriptorRemembered == descr = "open" <=> "LOCAL_OPEN" \in rdfl.settings

\* Once rdfl_set_timeout or a loader has succeeded, select(2) is given the timeout
\* the object holds, whichever of them came first and however often the timeout
\* was set, removed or set again; rdfl_set_timeout below -1 excepted.
TimerFollows ==
  [][ last'.op \in {"set_timeout", "load"} /\ last'.ret = ERR_NONE /\ last'.arg >= -1
      /\ rdfl'.nw # NULL =>
        IF rdfl'.timeout = -1 THEN rdfl'.nwtimeout = NULL
        ELSE /\ rdfl'.nwtimeout # NULL
             /\ rdfl'.tv.tv_usec \in 0 .. Second - 1
             /\ rdfl'.tv.tv_sec * Second + rdfl'.tv.tv_usec = rdfl'.timeout ]_vars

\* What values.h says of the default timeout: -1, blocking reads.
DefaultTimeoutBlocks == rdfl.nw # NULL /\ rdfl.timeout = RDFL_DEFAULT_TIMEOUT => rdfl.nwtimeout = NULL

=============================================================================
