-------------------------- MODULE BnfReaderProofs --------------------------
(***************************************************************************)
(* What rdfl_readBNF guarantees for every text, every set of names and     *)
(* literals, every depth of couples and every failing malloc: what it      *)
(* frees and does not free, what it links, that it lets no separator       *)
(* dangle, and that what it accepts stands in the text.                    *)
(***************************************************************************)
EXTENDS BnfReader, SequenceLemmas

-----------------------------------------------------------------------------
(* Types *)

NodeTypes == {"expr", "end", "FACT_RULE", "FACT_LITERAL", "FACT_RULE_BUILTIN", "FACT_RULE_LINKED",
              "FACT_EXPR_NGT", "FACT_EXPR_NGTE", "FACT_EXPR_OPT"}
Shown == Names \cup Literals \cup {"|", ":", "[", "]", "+", "*", "?", "x"}

\* The name of a rule is not in the block of its factor.
NodeSet == { n \in [type : NodeTypes, text : Seq(Shown), block : Nat, target : Nat] :
               n.type = "FACT_RULE" => n.block # n.target }
\* A node before the linking.
ReadNode == { n \in NodeSet : n.type # "FACT_RULE_LINKED" }
ParamSet == [text : Seq(Shown), blocks : SUBSET Nat]
ProdSet(nodes) == [name : Names \cup {End}, block : Nat, identifier : Nat,
                   params : Seq(ParamSet), exprs : Seq(nodes)]
LevelSet == [expr : Nat, facts : Seq(ReadNode), target : Seq(ReadNode), fact : Nat]

LevelPCs == {"alternative", "factor", "operand", "no_factor", "or", "no_alternative", "close"}
ParamPCs == {"params", "param", "param_next", "param_end", "rule"}
LastPCs == {"link", "done", "end"}
PCs == LevelPCs \cup ParamPCs \cup LastPCs \cup {"begin", "production", "rule_end", "no_production"}

StreamTyped == text \in Texts /\ pos \in 0 .. Len(text) /\ eof \in BOOLEAN
ControlTyped == pc \in PCs /\ e \in {ERR_NONE, ERR_MEMORY_ALLOC, ERRBNF_SYNTAX}
ProdTyped == prod \in ProdSet(ReadNode) /\ prod.block = NULL
LevelsTyped == levels \in Seq(LevelSet) /\ (levels # <<>> <=> pc \in LevelPCs)
GrammarTyped ==
  /\ grammar \in Seq(ProdSet(NodeSet))
  /\ pc \notin LastPCs => grammar \in Seq(ProdSet(ReadNode))
  /\ \A i \in DOMAIN grammar : grammar[i].block # NULL /\ grammar[i].identifier # NULL
MemoryTyped ==
  live \in SUBSET (Nat \ {NULL}) /\ IsFiniteSet(live) /\ failures \in 0 .. MaxFailures

Typed == StreamTyped /\ ControlTyped /\ ProdTyped /\ LevelsTyped /\ GrammarTyped /\ MemoryTyped

\* What the control state says of the locals.
Phases ==
  /\ pc \in {"begin", "production"} => prod = NoProd
  /\ pc = "begin" => grammar = <<>>
  /\ pc \in LevelPCs \cup ParamPCs => prod.exprs = <<>>
  /\ pc \in LevelPCs \ {"operand"} => Level.fact = NULL
  /\ pc = "operand" => Level.fact \in live
  /\ pc \in {"alternative", "or", "no_alternative", "close"} => Level.expr = NULL /\ Level.facts = <<>>
  /\ pc = "or" => Level.target # <<>>
  /\ pc = "close" => Front(levels) # <<>>
  /\ pc = "param_next" => prod.params # <<>>
  /\ pc \in ParamPCs \cup LevelPCs \cup {"rule_end"} => prod.identifier # NULL
  /\ pc = "link" => e = ERR_NONE
  /\ pc = "done" /\ grammar # <<>> => e = ERR_NONE

-----------------------------------------------------------------------------
(* The stream *)

LEMMA TextIsSeq ==
  ASSUME text \in Texts
  PROVE  text \in Seq(Symbols) /\ Len(text) \in Nat /\ DOMAIN text = 1 .. Len(text)
  BY BnfReaderAssumption

LEMMA SkipIs ==
  ASSUME text \in Texts, NEW l \in Nat, l = Len(text), NEW n \in 0 .. l
  PROVE  /\ Skip(n) \in n .. l /\ Symbol(Skip(n)) # Blank
         /\ \A i \in n .. Skip(n) - 1 : Symbol(i) = Blank
<1> DEFINE T == { q \in n .. l : Symbol(q) # Blank }
<1>1. l \in T
  <2>1. Symbol(l) = End
    BY DEF Symbol
  <2>2. Symbol(l) # Blank
    BY <2>1, Zenon DEF End, Blank
  <2>3. l \in n .. l
    OBVIOUS
  <2> QED BY <2>2, <2>3
<1>2. T \subseteq Nat
  <2>1. T \subseteq n .. l /\ n .. l \subseteq Nat
    OBVIOUS
  <2> QED BY <2>1
<1> HIDE DEF T
<1>3. PICK q \in T : \A k \in T : q <= k
  BY <1>1, <1>2, LeastNatural
<1>4. q \in n .. l /\ Symbol(q) # Blank
  BY <1>3 DEF T
<1>5. ASSUME NEW i \in n .. q - 1 PROVE Symbol(i) = Blank
  <2>1. i \in n .. l /\ ~(q <= i)
    BY <1>4
  <2> QED BY <1>3, <2>1 DEF T
<1>6. \E p \in n .. l : /\ Symbol(p) # Blank
                                /\ \A i \in n .. p - 1 : Symbol(i) = Blank
  BY <1>4, <1>5
<1> HIDE DEF Symbol
<1>7. /\ Skip(n) \in n .. l /\ Symbol(Skip(n)) # Blank
      /\ \A i \in n .. Skip(n) - 1 : Symbol(i) = Blank
  BY <1>6, Zenon DEF Skip
<1> QED BY <1>7

\* Behind the text there is only its end.
LEMMA WithinText ==
  ASSUME text \in Texts, NEW n \in Nat, Symbol(n) # End
  PROVE  n + 1 \in 1 .. Len(text) /\ n < Len(text) /\ text[n + 1] = Symbol(n)
  BY TextIsSeq DEF Symbol

LEMMA HereIs ==
  ASSUME Typed, NEW l \in Nat, l = Len(text)
  PROVE  /\ pos \in 0 .. l /\ Here \in 0 .. l /\ Here \in pos .. l /\ Symbol(Here) # Blank
         /\ \A i \in pos .. Here - 1 : Symbol(i) = Blank
<1>1. text \in Texts /\ pos \in 0 .. l
  BY DEF Typed, StreamTyped
<1>2. Skip(pos) \in pos .. l /\ Symbol(Skip(pos)) # Blank
  BY <1>1, SkipIs
<1>3. \A i \in pos .. Skip(pos) - 1 : Symbol(i) = Blank
  BY <1>1, SkipIs
<1> HIDE DEF Skip
<1> QED BY <1>1, <1>2, <1>3 DEF Here

\* What can be consumed by a single comparison.
Operators == {"(", ")", Comma, ":", OP_RULE_END, "|", "[", "]"}

\* Names, literals and operators are what they are, and not the end.
LEMMA SymbolsDiffer ==
  /\ \A x \in Names \cup Literals :
       x \notin Operators /\ x # End /\ x # Blank /\ x # "|" /\ x # Comma
  /\ \A x \in Operators : x # End /\ x # Blank
  /\ End # "|" /\ End # Comma /\ Blank # "|" /\ Blank # Comma /\ End # Blank
  /\ Comma # "|" /\ OP_RULE_END # "|" /\ OP_RULE_END # Comma
<1>1. \A x \in Names \cup Literals : x \notin Marks
  BY BnfReaderAssumption
<1> QED BY <1>1, Zenon DEF Marks, Operators, End, Blank, Comma, OP_RULE_END

LEMMA ConsumeIs ==
  ASSUME Typed, NEW op \in Operators, Consume(op)
  PROVE  /\ pos' \in 1 .. Len(text) /\ pos' = Here + 1 /\ text[pos'] = op /\ eof' = eof
         /\ Here \in Nat
<1>1. Symbol(Here) = op /\ pos' = Here + 1 /\ eof' = eof
  BY DEF Consume, At
<1>l. PICK l \in Nat : l = Len(text)
  BY TextIsSeq DEF Typed, StreamTyped
<1>2. Here \in Nat /\ text \in Texts
  <2>1. Here \in 0 .. l
    BY <1>l, HereIs
  <2> HIDE DEF Here
  <2> QED BY <2>1 DEF Typed, StreamTyped
<1>3. Symbol(Here) # End
  BY <1>1, SymbolsDiffer
<1>4. Here + 1 \in 1 .. Len(text) /\ text[Here + 1] = Symbol(Here)
  BY <1>2, <1>3, WithinText
<1> QED BY <1>1, <1>2, <1>4

LEMMA NameConsumed ==
  ASSUME Typed, Symbol(Here) \in Names \cup Literals
  PROVE  Here + 1 \in 1 .. Len(text) /\ text[Here + 1] = Symbol(Here) /\ Here \in Nat
<1>l. PICK l \in Nat : l = Len(text)
  BY TextIsSeq DEF Typed, StreamTyped
<1>1. Here \in 0 .. l
  BY <1>l, HereIs
<1> HIDE DEF Here
<1>2. Here \in Nat /\ text \in Texts
  BY <1>1 DEF Typed, StreamTyped
<1>3. Symbol(Here) # End
  BY SymbolsDiffer
<1> QED BY <1>2, <1>3, WithinText

\* What stands at n is followed by blanks up to the next symbol.
LEMMA BehindSymbol ==
  ASSUME Typed, NEW n \in Nat, Symbol(n) # End
  PROVE  /\ n + 1 \in 1 .. Len(text) /\ text[n + 1] = Symbol(n)
         /\ Skip(n + 1) \in Nat /\ Skip(n + 1) \in n + 1 .. Len(text) /\ Symbol(Skip(n + 1)) # Blank
         /\ \A i \in n + 1 .. Skip(n + 1) - 1 : Symbol(i) = Blank
<1>t. text \in Texts
  BY DEF Typed, StreamTyped
<1>l. PICK l \in Nat : l = Len(text)
  BY <1>t, TextIsSeq
<1>1. n + 1 \in 1 .. Len(text) /\ text[n + 1] = Symbol(n)
  BY <1>t, WithinText
<1>2. n + 1 \in 0 .. l /\ n + 1 \in 1 .. l
  BY <1>l, <1>1
<1>3. Skip(n + 1) \in n + 1 .. l /\ Symbol(Skip(n + 1)) # Blank
  BY <1>t, <1>l, <1>2, SkipIs
<1>4. \A i \in n + 1 .. Skip(n + 1) - 1 : Symbol(i) = Blank
  BY <1>t, <1>l, <1>2, SkipIs
<1> HIDE DEF Skip
<1>5. Skip(n + 1) \in Nat
  BY <1>2, <1>3
<1> QED BY <1>l, <1>1, <1>3, <1>4, <1>5

-----------------------------------------------------------------------------
(* malloc *)

\* The blocks up to m that are not in use.
Unused(m) == (1 .. m) \ live

LEMMA UnusedCounts ==
  ASSUME IsFiniteSet(live), NEW m \in Nat
  PROVE  /\ IsFiniteSet(Unused(m)) /\ Cardinality(Unused(m)) \in Nat /\ Cardinality(live) \in Nat
         /\ m <= Cardinality(Unused(m)) + Cardinality(live)
         /\ m + 1 \in live => Unused(m + 1) = Unused(m)
         /\ m + 1 \notin live => Cardinality(Unused(m + 1)) = Cardinality(Unused(m)) + 1
<1>1. IsFiniteSet(1 .. m) /\ Cardinality(1 .. m) = m
  BY FS_Interval
<1>2. IsFiniteSet(Unused(m)) /\ Cardinality(Unused(m)) = Cardinality(1 .. m) - Cardinality((1 .. m) \cap live)
  BY <1>1, FS_Difference DEF Unused
<1>3. Cardinality((1 .. m) \cap live) <= Cardinality(live) /\ Cardinality((1 .. m) \cap live) \in Nat
  <2>1. (1 .. m) \cap live \in SUBSET live
    OBVIOUS
  <2> QED BY <2>1, FS_Subset, FS_CardinalityType
<1>4. Cardinality(Unused(m)) \in Nat /\ Cardinality(live) \in Nat
  BY <1>2, FS_CardinalityType
<1>5. m + 1 \in live => Unused(m + 1) = Unused(m)
  BY DEF Unused
<1>6. ASSUME m + 1 \notin live PROVE Cardinality(Unused(m + 1)) = Cardinality(Unused(m)) + 1
  <2>1. Unused(m + 1) = Unused(m) \cup {m + 1} /\ m + 1 \notin Unused(m)
    BY <1>6 DEF Unused
  <2> QED BY <1>2, <2>1, FS_AddElement
<1> QED BY <1>1, <1>2, <1>3, <1>4, <1>5, <1>6

LEMMA FreshIsNth ==
  ASSUME live \in SUBSET (Nat \ {NULL}), IsFiniteSet(live), NEW n \in Nat \ {0}
  PROVE  /\ Fresh(n) \in Nat \ {NULL} /\ Fresh(n) \notin live
         /\ Cardinality(Unused(Fresh(n) - 1)) = n - 1
<1> DEFINE C == Cardinality(live)
           free == (1 .. C + n) \ live
           T == { m \in 1 .. C + n : n <= Cardinality(Unused(m)) }
<1>c. C \in Nat
  BY UnusedCounts
<1> HIDE DEF C
<1>1. C + n \in T
  <2>1. C + n <= Cardinality(Unused(C + n)) + C /\ Cardinality(Unused(C + n)) \in Nat
    BY <1>c, UnusedCounts DEF C
  <2> HIDE DEF C
  <2> QED BY <1>c, <2>1
<1>2. T \subseteq Nat
  <2>1. T \subseteq 1 .. C + n /\ 1 .. C + n \subseteq Nat
    BY <1>c
  <2> QED BY <2>1
<1> HIDE DEF T
<1>3. PICK p \in T : \A k \in T : p <= k
  BY <1>1, <1>2, LeastNatural
<1>4. p \in 1 .. C + n /\ n <= Cardinality(Unused(p))
  BY <1>3 DEF T
<1>5. PICK m \in Nat : p = m + 1
  <2>1. p - 1 \in Nat /\ p = (p - 1) + 1
    BY <1>c, <1>4
  <2> QED BY <2>1
<1>6. Cardinality(Unused(m)) < n /\ Cardinality(Unused(m)) \in Nat
  <2>1. CASE m = 0
    <3>1. Unused(0) = {}
      BY DEF Unused
    <3> QED BY <2>1, <3>1, FS_EmptySet
  <2>2. CASE m # 0
    <3>1. m \in 1 .. C + n /\ ~(p <= m)
      BY <1>c, <1>4, <1>5, <2>2
    <3>2. ~(n <= Cardinality(Unused(m)))
      BY <1>3, <3>1 DEF T
    <3>3. Cardinality(Unused(m)) \in Nat
      BY UnusedCounts
    <3> QED BY <3>2, <3>3
  <2> QED BY <2>1, <2>2
<1>7. p \notin live /\ Cardinality(Unused(m)) = n - 1
  <2>1. CASE p \in live
    <3>1. Unused(p) = Unused(m)
      BY <1>5, <2>1, UnusedCounts
    <3> QED BY <1>4, <1>6, <3>1
  <2>2. CASE p \notin live
    <3>1. Cardinality(Unused(p)) = Cardinality(Unused(m)) + 1
      BY <1>5, <2>2, UnusedCounts
    <3> QED BY <1>4, <1>6, <2>2, <3>1
  <2> QED BY <2>1, <2>2
<1>8. ASSUME NEW q \in free PROVE {x \in free : x < q} = Unused(q - 1) /\ q \in Nat \ {NULL} /\ q \notin live
  BY <1>c DEF Unused, NULL
<1>9. p \in free
  BY <1>4, <1>7
<1>10. p - 1 = m
  BY <1>5
<1>11. \E q \in free : Cardinality({x \in free : x < q}) = n - 1
  BY <1>7, <1>8, <1>9, <1>10
<1>12. Fresh(n) \in free /\ Cardinality({x \in free : x < Fresh(n)}) = n - 1
  <2>1. Fresh(n) = CHOOSE q \in free : Cardinality({x \in free : x < q}) = n - 1
    BY DEF Fresh, C
  <2> HIDE DEF free
  <2> QED BY <1>11, <2>1, Zenon
<1> HIDE DEF free
<1> QED BY <1>8, <1>12

\* Up to three mallocs in a row return different blocks that were not in use.
LEMMA FreshIsFree ==
  ASSUME Typed
  PROVE  /\ Fresh(1) \in Nat \ {NULL} /\ Fresh(2) \in Nat \ {NULL} /\ Fresh(3) \in Nat \ {NULL}
         /\ Fresh(1) \notin live /\ Fresh(2) \notin live /\ Fresh(3) \notin live
         /\ Fresh(1) # Fresh(2) /\ Fresh(1) # Fresh(3) /\ Fresh(2) # Fresh(3)
<1>1. live \in SUBSET (Nat \ {NULL}) /\ IsFiniteSet(live)
  BY DEF Typed, MemoryTyped
<1>2. Fresh(1) \in Nat \ {NULL} /\ Fresh(1) \notin live /\ Cardinality(Unused(Fresh(1) - 1)) = 1 - 1
  BY <1>1, FreshIsNth
<1>3. Fresh(2) \in Nat \ {NULL} /\ Fresh(2) \notin live /\ Cardinality(Unused(Fresh(2) - 1)) = 2 - 1
  BY <1>1, FreshIsNth
<1>4. Fresh(3) \in Nat \ {NULL} /\ Fresh(3) \notin live /\ Cardinality(Unused(Fresh(3) - 1)) = 3 - 1
  BY <1>1, FreshIsNth
<1> QED BY <1>2, <1>3, <1>4

LEMMA LiveGrows ==
  ASSUME Typed, NEW x \in Nat \ {NULL}, NEW y \in Nat \ {NULL}, NEW z \in Nat \ {NULL}
  PROVE  live \cup {x, y, z} \in SUBSET (Nat \ {NULL}) /\ IsFiniteSet(live \cup {x, y, z})
<1>1. live \in SUBSET (Nat \ {NULL}) /\ IsFiniteSet(live)
  BY DEF Typed, MemoryTyped
<1>2. IsFiniteSet(live \cup {x})
  BY <1>1, FS_AddElement
<1>3. IsFiniteSet((live \cup {x}) \cup {y})
  BY <1>2, FS_AddElement
<1>4. IsFiniteSet(((live \cup {x}) \cup {y}) \cup {z})
  BY <1>3, FS_AddElement
<1>5. ((live \cup {x}) \cup {y}) \cup {z} = live \cup {x, y, z}
  OBVIOUS
<1> QED BY <1>1, <1>4, <1>5

LEMMA LiveShrinks ==
  ASSUME Typed, NEW S
  PROVE  live \ S \in SUBSET (Nat \ {NULL}) /\ IsFiniteSet(live \ S)
<1>1. live \in SUBSET (Nat \ {NULL}) /\ IsFiniteSet(live)
  BY DEF Typed, MemoryTyped
<1>2. live \ S \in SUBSET live
  OBVIOUS
<1> QED BY <1>1, <1>2, FS_Subset

-----------------------------------------------------------------------------
(* Types and phases: read_production and its parameters *)

LEMMA NoProdTyped ==
  NoProd \in ProdSet(ReadNode) /\ NoProd.block = NULL /\ NoProd.exprs = <<>> /\ NoProd.identifier = NULL
  BY DEF NoProd, ProdSet, NULL

LEMMA ProdFields ==
  ASSUME NEW N, NEW p \in ProdSet(N)
  PROVE  /\ p.name \in Names \cup {End} /\ p.block \in Nat /\ p.identifier \in Nat
         /\ p.params \in Seq(ParamSet) /\ p.exprs \in Seq(N)
  BY DEF ProdSet

\* The number of failures left.
LEMMA FailuresLeft ==
  ASSUME Typed, NoMalloc \/ MallocFails
  PROVE  failures' \in 0 .. MaxFailures
<1>1. PICK m \in Nat : m = MaxFailures
  BY BnfReaderAssumption
<1>2. failures \in 0 .. m /\ (failures' = failures \/ (failures > 0 /\ failures' = failures - 1))
  BY <1>1 DEF Typed, MemoryTyped, NoMalloc, MallocFails
<1>3. failures' \in 0 .. m
  BY <1>2
<1> QED BY <1>1, <1>3

\* One malloc.
LEMMA MallocTyped ==
  ASSUME Typed, Malloc
  PROVE  Fresh(1) \in Nat \ {NULL} /\ MemoryTyped'
<1>1. Fresh(1) \in Nat \ {NULL}
  BY FreshIsFree
<1>2. live \cup {Fresh(1)} = live \cup {Fresh(1), Fresh(1), Fresh(1)}
  OBVIOUS
<1>3. live \cup {Fresh(1)} \in SUBSET (Nat \ {NULL}) /\ IsFiniteSet(live \cup {Fresh(1)})
  BY <1>1, <1>2, LiveGrows
<1>4. live' = live \cup {Fresh(1)} /\ failures' \in 0 .. MaxFailures
  BY DEF Malloc, Typed, MemoryTyped
<1> QED BY <1>1, <1>3, <1>4 DEF MemoryTyped

\* Nothing or something is freed.
LEMMA FreeTyped ==
  ASSUME Typed, NoMalloc \/ MallocFails \/ failures' = failures,
         NEW S, live' = live \ S
  PROVE  MemoryTyped'
<1>1. failures' \in 0 .. MaxFailures
  BY FailuresLeft DEF Typed, MemoryTyped
<1> QED BY <1>1, LiveShrinks DEF MemoryTyped

LEMMA ReadNodesAreNodes ==
  /\ Seq(ReadNode) \subseteq Seq(NodeSet)
  /\ ProdSet(ReadNode) \subseteq ProdSet(NodeSet)
  /\ Seq(ProdSet(ReadNode)) \subseteq Seq(ProdSet(NodeSet))
<1>1. ReadNode \subseteq NodeSet
  BY DEF ReadNode, NodeSet
<1>2. Seq(ReadNode) \subseteq Seq(NodeSet)
  BY <1>1, SeqMonotonic
<1>3. ProdSet(ReadNode) \subseteq ProdSet(NodeSet)
  <2> HIDE DEF ReadNode, NodeSet
  <2> QED BY <1>2 DEF ProdSet
<1>4. Seq(ProdSet(ReadNode)) \subseteq Seq(ProdSet(NodeSet))
  BY <1>3, SeqMonotonic
<1> QED BY <1>2, <1>3, <1>4

\* A production with other parameters, expressions or with its block.
LEMMA ProdReplaced ==
  ASSUME NEW N, NEW p \in ProdSet(N), NEW ps \in Seq(ParamSet), NEW es \in Seq(N), NEW b \in Nat
  PROVE  /\ LET q == [p EXCEPT !.params = ps] IN
            /\ q \in ProdSet(N) /\ q.block = p.block /\ q.identifier = p.identifier
            /\ q.params = ps /\ q.exprs = p.exprs
         /\ LET q == [p EXCEPT !.exprs = es] IN
            /\ q \in ProdSet(N) /\ q.block = p.block /\ q.identifier = p.identifier
            /\ q.params = p.params /\ q.exprs = es
         /\ LET q == [p EXCEPT !.block = b] IN
            /\ q \in ProdSet(N) /\ q.block = b /\ q.identifier = p.identifier
            /\ q.params = p.params /\ q.exprs = p.exprs
  BY DEF ProdSet

LEMMA BeginTyped ==
  ASSUME Typed, Phases, Begin PROVE Typed' /\ Phases'
<1>1. StreamTyped' /\ ProdTyped'
  BY DEF Begin, Typed, StreamTyped, ProdTyped
<1>2. ControlTyped'
  BY DEF Begin, Typed, ControlTyped, PCs, LevelPCs, ParamPCs, LastPCs
<1>3. LevelsTyped'
  BY DEF Begin, Typed, LevelsTyped, LevelPCs
<1>4. GrammarTyped'
  BY DEF Begin, Typed, GrammarTyped, Phases, LastPCs
<1>5. MemoryTyped'
  BY FailuresLeft DEF Begin, Typed, MemoryTyped
<1>6. Phases'
  BY DEF Begin, Phases, PCs, LevelPCs, ParamPCs, LastPCs
<1> QED BY <1>1, <1>2, <1>3, <1>4, <1>5, <1>6 DEF Typed

LEMMA ReadNameTyped ==
  ASSUME Typed, Phases, ReadName PROVE Typed' /\ Phases'
<1>p. Symbol(Here) \in Names => Here + 1 \in 0 .. Len(text)
  BY NameConsumed
<1> HIDE DEF Here
<1>1. StreamTyped'
  BY <1>p DEF ReadName, Typed, StreamTyped
<1>2. ControlTyped'
  BY DEF ReadName, Typed, ControlTyped, PCs, LevelPCs, ParamPCs, LastPCs
<1>3. LevelsTyped'
  BY DEF ReadName, Typed, LevelsTyped, LevelPCs
<1>4. GrammarTyped'
  BY DEF ReadName, Typed, GrammarTyped, LastPCs
<1>5. MemoryTyped'
  <2>1. CASE Malloc
    BY <2>1, MallocTyped
  <2>2. CASE live' = live /\ (NoMalloc \/ MallocFails)
    BY <2>2, FailuresLeft DEF Typed, MemoryTyped
  <2> QED BY <2>1, <2>2 DEF ReadName
<1>6. ProdTyped' /\ (pc' = "params" => prod'.exprs = <<>> /\ prod'.identifier # NULL)
  <2>1. CASE prod' = prod /\ pc' = "no_production"
    BY <2>1 DEF Typed, ProdTyped
  <2>2. CASE prod' = [NoProd EXCEPT !.name = Symbol(Here), !.identifier = Fresh(1)] /\ Symbol(Here) \in Names
    <3>1. Fresh(1) \in Nat \ {NULL}
      BY FreshIsFree
    <3> QED BY <2>2, <3>1, NoProdTyped DEF ProdTyped, ProdSet, NoProd
  <2> QED BY <2>1, <2>2 DEF ReadName
<1>7. Phases'
  BY <1>6 DEF ReadName, Phases, PCs, LevelPCs, ParamPCs, LastPCs
<1> QED BY <1>1, <1>2, <1>3, <1>4, <1>5, <1>6, <1>7 DEF Typed

LEMMA ReadParamsTyped ==
  ASSUME Typed, Phases, ReadParams PROVE Typed' /\ Phases'
<1>1. StreamTyped'
  <2>1. CASE Consume("(")
    <3>1. "(" \in Operators
      BY Zenon DEF Operators
    <3> QED BY <2>1, <3>1, ConsumeIs DEF ReadParams, Typed, StreamTyped
  <2>2. CASE NoOperator({"("})
    BY <2>2 DEF ReadParams, NoOperator, Typed, StreamTyped
  <2> QED BY <2>1, <2>2 DEF ReadParams
<1>2. ControlTyped'
  BY DEF ReadParams, WithoutParams, Typed, ControlTyped, PCs, LevelPCs, ParamPCs, LastPCs
<1>3. LevelsTyped' /\ GrammarTyped' /\ ProdTyped' /\ MemoryTyped'
  BY DEF ReadParams, WithoutParams, Typed, LevelsTyped, GrammarTyped, ProdTyped, MemoryTyped, LevelPCs, LastPCs
<1>4. Phases'
  BY DEF ReadParams, WithoutParams, Phases, PCs, LevelPCs, ParamPCs, LastPCs
<1> QED BY <1>1, <1>2, <1>3, <1>4 DEF Typed

LEMMA NoParamTyped ==
  ASSUME Typed, Phases, pc = "param", NEW err \in {ERR_NONE, ERR_MEMORY_ALLOC, ERRBNF_SYNTAX},
         NoParam(err), NoMalloc \/ MallocFails, UNCHANGED <<text, levels, grammar>>
  PROVE  ControlTyped' /\ ProdTyped' /\ LevelsTyped' /\ GrammarTyped' /\ MemoryTyped' /\ Phases'
<1>1. ControlTyped'
  BY DEF NoParam, Typed, ControlTyped, PCs, LevelPCs, ParamPCs, LastPCs
<1>2. ProdTyped' /\ prod'.exprs = prod.exprs /\ prod'.identifier = prod.identifier
  <2>1. <<>> \in Seq(ParamSet) /\ prod \in ProdSet(ReadNode) /\ prod.block = NULL
        /\ prod' = [prod EXCEPT !.params = <<>>]
    BY DEF NoParam, Typed, ProdTyped
  <2> QED BY <2>1 DEF ProdTyped, ProdSet
<1>3. LevelsTyped' /\ GrammarTyped'
  BY DEF NoParam, Typed, LevelsTyped, GrammarTyped, LevelPCs, LastPCs
<1>4. MemoryTyped'
  BY FreeTyped DEF NoParam
<1>5. Phases'
  BY <1>2 DEF NoParam, Phases, PCs, LevelPCs, ParamPCs, LastPCs
<1> QED BY <1>1, <1>2, <1>3, <1>4, <1>5

LEMMA ReadParamTyped ==
  ASSUME Typed, Phases, ReadParam PROVE Typed' /\ Phases'
<1> DEFINE id == Skip(Here + 1)
<1>s. StreamTyped'
  <2>1. Symbol(Here) \in Names => Here + 1 \in 0 .. Len(text)
    BY NameConsumed
  <2>2. Symbol(Here) \in Names /\ Symbol(id) \in Names => id + 1 \in 0 .. Len(text)
    <3> SUFFICES ASSUME Symbol(Here) \in Names, Symbol(id) \in Names PROVE id + 1 \in 0 .. Len(text)
      OBVIOUS
    <3>1. Here \in Nat /\ Symbol(Here) # End /\ Symbol(id) # End
      BY NameConsumed, SymbolsDiffer
    <3>2. id \in Nat
      BY <3>1, BehindSymbol
    <3> HIDE DEF id
    <3> QED BY <3>1, <3>2, BehindSymbol
  <2> HIDE DEF id, Here
  <2>3. pos' \in 0 .. Len(text)
    BY <2>1, <2>2 DEF ReadParam, id, Typed, StreamTyped
  <2>4. eof' \in BOOLEAN /\ text' = text
    BY DEF ReadParam, Typed, StreamTyped
  <2> QED BY <2>3, <2>4 DEF Typed, StreamTyped
<1> HIDE DEF Here, Skip
<1>e. e \in {ERR_NONE, ERR_MEMORY_ALLOC, ERRBNF_SYNTAX}
  BY DEF Typed, ControlTyped
<1>1. CASE \E err \in {ERR_NONE, ERR_MEMORY_ALLOC, ERRBNF_SYNTAX} : NoParam(err) /\ (NoMalloc \/ MallocFails)
  <2>1. pc = "param" /\ UNCHANGED <<text, levels, grammar>>
    BY DEF ReadParam
  <2>2. ControlTyped' /\ ProdTyped' /\ LevelsTyped' /\ GrammarTyped' /\ MemoryTyped' /\ Phases'
    BY <1>1, <2>1, NoParamTyped
  <2> QED BY <1>s, <2>2 DEF Typed
<1> DEFINE p == [text |-> <<Symbol(Here), Symbol(id)>>, blocks |-> {Fresh(1), Fresh(2), Fresh(3)}]
<1>2. CASE /\ Symbol(Here) \in Names /\ Symbol(id) \in Names /\ NoMalloc
           /\ live' = live \cup {Fresh(1), Fresh(2), Fresh(3)}
           /\ prod' = [prod EXCEPT !.params = Append(@, p)] /\ pc' = "param_next" /\ e' = e
  <2>1. Fresh(1) \in Nat \ {NULL} /\ Fresh(2) \in Nat \ {NULL} /\ Fresh(3) \in Nat \ {NULL}
    BY FreshIsFree
  <2>2. MemoryTyped'
    BY <1>2, <2>1, LiveGrows, FailuresLeft DEF MemoryTyped
  <2>3. p \in ParamSet
    <3>1. <<Symbol(Here), Symbol(id)>> \in Seq(Shown)
      BY <1>2 DEF Shown
    <3> QED BY <2>1, <3>1 DEF ParamSet
  <2> HIDE DEF p
  <2>4. prod \in ProdSet(ReadNode) /\ prod.block = NULL /\ prod.params \in Seq(ParamSet)
    BY DEF Typed, ProdTyped, ProdSet
  <2> DEFINE ps == Append(prod.params, p)
  <2>5. ps \in Seq(ParamSet) /\ ps # <<>>
    BY <2>3, <2>4, AppendProperties
  <2>6. prod' = [prod EXCEPT !.params = ps]
    BY <1>2
  <2> HIDE DEF ps
  <2>7. ProdTyped' /\ prod'.params # <<>> /\ prod'.exprs = prod.exprs /\ prod'.identifier = prod.identifier
    BY <2>4, <2>5, <2>6 DEF ProdTyped, ProdSet
  <2>8. ControlTyped'
    BY <1>2 DEF Typed, ControlTyped, PCs, LevelPCs, ParamPCs, LastPCs
  <2>9. pc = "param" /\ UNCHANGED <<text, levels, grammar>>
    BY DEF ReadParam
  <2>10. LevelsTyped' /\ GrammarTyped'
    BY <1>2, <2>9 DEF Typed, LevelsTyped, GrammarTyped, LevelPCs, LastPCs
  <2>11. Phases'
    BY <1>2, <2>7, <2>9 DEF Phases, PCs, LevelPCs, ParamPCs, LastPCs
  <2> QED BY <1>s, <2>2, <2>7, <2>8, <2>10, <2>11 DEF Typed
<1>3. \/ \E err \in {ERR_NONE, ERR_MEMORY_ALLOC, ERRBNF_SYNTAX} : NoParam(err) /\ (NoMalloc \/ MallocFails)
      \/ /\ Symbol(Here) \in Names /\ Symbol(id) \in Names /\ NoMalloc
         /\ live' = live \cup {Fresh(1), Fresh(2), Fresh(3)}
         /\ prod' = [prod EXCEPT !.params = Append(@, p)] /\ pc' = "param_next" /\ e' = e
  BY <1>e DEF ReadParam
<1> QED BY <1>1, <1>2, <1>3

LEMMA ReadParamNextTyped ==
  ASSUME Typed, Phases, ReadParamNext PROVE Typed' /\ Phases'
<1>1. StreamTyped'
  <2>1. CASE Consume(Comma)
    <3>1. Comma \in Operators
      BY Zenon DEF Operators
    <3> QED BY <2>1, <3>1, ConsumeIs DEF ReadParamNext, Typed, StreamTyped
  <2>2. CASE NoOperator({Comma})
    BY <2>2 DEF ReadParamNext, NoOperator, Typed, StreamTyped
  <2> QED BY <2>1, <2>2 DEF ReadParamNext
<1>2. ControlTyped'
  BY DEF ReadParamNext, Typed, ControlTyped, PCs, LevelPCs, ParamPCs, LastPCs
<1>3. LevelsTyped' /\ GrammarTyped' /\ ProdTyped' /\ MemoryTyped'
  BY DEF ReadParamNext, Typed, LevelsTyped, GrammarTyped, ProdTyped, MemoryTyped, LevelPCs, LastPCs
<1>4. Phases'
  BY DEF ReadParamNext, Phases, PCs, LevelPCs, ParamPCs, LastPCs
<1> QED BY <1>1, <1>2, <1>3, <1>4 DEF Typed

LEMMA ReadParamEndTyped ==
  ASSUME Typed, Phases, ReadParamEnd PROVE Typed' /\ Phases'
<1>1. StreamTyped'
  <2>1. CASE Consume(")")
    <3>1. ")" \in Operators
      BY Zenon DEF Operators
    <3> QED BY <2>1, <3>1, ConsumeIs DEF ReadParamEnd, Typed, StreamTyped
  <2>2. CASE NoOperator({")"})
    BY <2>2 DEF ReadParamEnd, NoOperator, Typed, StreamTyped
  <2> QED BY <2>1, <2>2 DEF ReadParamEnd
<1>2. ControlTyped'
  BY DEF ReadParamEnd, WithoutParams, Typed, ControlTyped, PCs, LevelPCs, ParamPCs, LastPCs
<1>3. LevelsTyped' /\ GrammarTyped'
  BY DEF ReadParamEnd, WithoutParams, Typed, LevelsTyped, GrammarTyped, LevelPCs, LastPCs
<1>4. ProdTyped' /\ prod'.exprs = prod.exprs /\ prod'.identifier = prod.identifier
  <2>1. <<>> \in Seq(ParamSet) /\ prod \in ProdSet(ReadNode) /\ prod.block = NULL
        /\ (prod' = prod \/ prod' = [prod EXCEPT !.params = <<>>])
    BY DEF ReadParamEnd, Typed, ProdTyped
  <2> QED BY <2>1 DEF ProdTyped, ProdSet
<1>5. MemoryTyped'
  <2>1. live' = live \ {} \/ live' = live \ ParamBlocks(prod.params)
    BY DEF ReadParamEnd
  <2>2. failures' = failures
    BY DEF ReadParamEnd
  <2> QED BY <2>1, <2>2, FreeTyped
<1>6. Phases'
  BY <1>4 DEF ReadParamEnd, WithoutParams, Phases, PCs, LevelPCs, ParamPCs, LastPCs
<1> QED BY <1>1, <1>2, <1>3, <1>4, <1>5, <1>6 DEF Typed

-----------------------------------------------------------------------------
(* Types and phases: expressions and factors *)

NoLevel == [expr |-> NULL, facts |-> <<>>, target |-> <<>>, fact |-> NULL]

LEMMA NoLevelTyped ==
  /\ NoLevel \in LevelSet /\ NoLevel.expr = NULL /\ NoLevel.fact = NULL
  /\ NoLevel.facts = <<>> /\ NoLevel.target = <<>>
  BY DEF NoLevel, LevelSet, NULL

LEMMA LevelFields ==
  ASSUME NEW l \in LevelSet
  PROVE  /\ l.expr \in Nat /\ l.fact \in Nat
         /\ l.facts \in Seq(ReadNode) /\ l.target \in Seq(ReadNode)
  BY DEF LevelSet

\* The innermost level, and those around it.
LEMMA LastLevel ==
  ASSUME Typed, pc \in LevelPCs
  PROVE  /\ Level \in LevelSet /\ Front(levels) \in Seq(LevelSet)
         /\ levels = Append(Front(levels), Level)
         /\ \A l \in LevelSet : SetLevel(l) = Append(Front(levels), l)
         /\ Len(levels) > 1 <=> Front(levels) # <<>>
<1>1. levels \in Seq(LevelSet) /\ levels # <<>>
  BY DEF Typed, LevelsTyped
<1>2. Level \in LevelSet /\ Front(levels) \in Seq(LevelSet) /\ levels = Append(Front(levels), Level)
  BY <1>1, FrontAndLast DEF Level
<1>3. \A l \in LevelSet : SetLevel(l) = Append(Front(levels), l)
  BY <1>1, ReplaceLast DEF SetLevel
<1> DEFINE f == Front(levels)
<1>4. f \in Seq(LevelSet) /\ Level \in LevelSet /\ levels = Append(f, Level)
  BY <1>2
<1> HIDE DEF f, Level
<1>5. Len(levels) > 1 <=> f # <<>>
  <2>1. Len(levels) = Len(f) + 1
    BY <1>4, AppendProperties
  <2>2. Len(f) \in Nat /\ (f = <<>> <=> Len(f) = 0)
    BY <1>4, EmptySeq, LenProperties
  <2> QED BY <2>1, <2>2
<1> QED BY <1>2, <1>3, <1>5 DEF f, Level

\* A step of the descent, with what it leaves in the innermost level.
LEMMA LevelStep ==
  ASSUME Typed, Phases, pc \in LevelPCs \cup {"rule"}, UNCHANGED <<prod, grammar>>,
         StreamTyped', MemoryTyped', e' \in {ERR_NONE, ERR_MEMORY_ALLOC, ERRBNF_SYNTAX},
         pc' \in LevelPCs, NEW f \in Seq(LevelSet), NEW l \in LevelSet, levels' = Append(f, l),
         pc' # "operand" => l.fact = NULL,
         pc' = "operand" => l.fact \in live',
         pc' \in {"alternative", "or", "no_alternative", "close"} => l.expr = NULL /\ l.facts = <<>>,
         pc' = "or" => l.target # <<>>,
         pc' = "close" => f # <<>>
  PROVE  Typed' /\ Phases'
<1>1. ControlTyped'
  BY DEF ControlTyped, PCs
<1>2. ProdTyped' /\ GrammarTyped'
  BY DEF Typed, ProdTyped, GrammarTyped, LevelPCs, LastPCs
<1>3. levels' \in Seq(LevelSet) /\ levels' # <<>> /\ Last(levels') = l /\ Front(levels') = f
  BY LastOfAppend
<1>4. LevelsTyped'
  BY <1>3 DEF LevelsTyped
<1>5. Level' = l /\ Front(levels)' = f
  BY <1>3 DEF Level
<1> HIDE DEF Level
<1>6. Phases'
  BY <1>5 DEF Phases, LevelPCs, ParamPCs
<1> QED BY <1>1, <1>2, <1>4, <1>6 DEF Typed

LEMMA ReadRuleTyped ==
  ASSUME Typed, Phases, ReadRule PROVE Typed' /\ Phases'
<1>1. CASE IsPrefix(OP_RULE, Ahead)
  <2>1. /\ pos' = Here + 3 /\ pc' = "alternative" /\ levels' = <<NoLevel>> /\ eof' = eof
        /\ UNCHANGED <<text, e, prod, grammar, live, failures>> /\ pc = "rule"
    BY <1>1 DEF ReadRule, NoLevel
  <2>2. pos' \in 0 .. Len(text)
    <3>0. text \in Texts
      BY DEF Typed, StreamTyped
    <3>l. Len(text) \in Nat
      BY <3>0, TextIsSeq
    <3>1. PICK n \in Nat : n = Len(text)
      BY <3>l
    <3>2. Here \in 0 .. n
      BY <3>1, HereIs
    <3>3. Len(Ahead) >= 3
      BY <1>1 DEF IsPrefix, OP_RULE
    <3> HIDE DEF Here
    <3>4. text \in Seq(Symbols)
      BY <3>0, TextIsSeq
    <3>5. Len(Ahead) = IF Here + 1 <= n THEN n - Here ELSE 0
      BY <3>1, <3>2, <3>4 DEF Ahead
    <3> QED BY <2>1, <3>1, <3>2, <3>3, <3>5
  <2>3. StreamTyped' /\ MemoryTyped'
    BY <2>1, <2>2 DEF Typed, StreamTyped, MemoryTyped
  <2>4. levels' = Append(<<>>, NoLevel) /\ <<>> \in Seq(LevelSet)
    BY <2>1, NoLevelTyped
  <2>5. e' \in {ERR_NONE, ERR_MEMORY_ALLOC, ERRBNF_SYNTAX} /\ pc' \in LevelPCs
    BY <2>1 DEF Typed, ControlTyped, LevelPCs
  <2> QED BY <2>1, <2>3, <2>4, <2>5, NoLevelTyped, LevelStep
<1>2. CASE ~IsPrefix(OP_RULE, Ahead)
  <2>1. /\ eof' = (eof \/ LooksAtEnd \/ RuleCut) /\ pc' = "no_production" /\ pc = "rule"
        /\ UNCHANGED <<pos, levels, text, e, prod, grammar, live, failures>>
    BY <1>2 DEF ReadRule
  <2>2. StreamTyped' /\ MemoryTyped' /\ ProdTyped'
    BY <2>1 DEF Typed, StreamTyped, MemoryTyped, ProdTyped
  <2>3. ControlTyped' /\ LevelsTyped' /\ GrammarTyped'
    BY <2>1 DEF Typed, ControlTyped, LevelsTyped, GrammarTyped, PCs, LevelPCs, LastPCs
  <2>4. Phases'
    BY <2>1 DEF Phases, LevelPCs, ParamPCs
  <2> QED BY <2>2, <2>3, <2>4 DEF Typed
<1> QED BY <1>1, <1>2

\* The next node, of any type.
LEMMA NodeTyped ==
  ASSUME NEW t \in NodeTypes \ {"FACT_RULE_LINKED"}, NEW s \in Seq(Shown), NEW b \in Nat, NEW x \in Nat,
         t = "FACT_RULE" => b # x
  PROVE  Node(t, s, b, x) \in ReadNode
  BY DEF Node, ReadNode, NodeSet

LEMMA ReadAlternativeTyped ==
  ASSUME Typed, Phases, ReadAlternative PROVE Typed' /\ Phases'
<1>0. /\ pc = "alternative" /\ pc \in LevelPCs /\ UNCHANGED <<text, pos, eof, e, prod, grammar>>
      /\ Level.fact = NULL /\ Level.expr = NULL /\ Level.facts = <<>>
  BY DEF ReadAlternative, LevelPCs, Phases
<1>1. StreamTyped' /\ e' \in {ERR_NONE, ERR_MEMORY_ALLOC, ERRBNF_SYNTAX}
  BY <1>0 DEF Typed, StreamTyped, ControlTyped
<1>2. /\ Level \in LevelSet /\ Front(levels) \in Seq(LevelSet)
      /\ levels = Append(Front(levels), Level)
      /\ \A l \in LevelSet : SetLevel(l) = Append(Front(levels), l)
  BY <1>0, LastLevel
<1>3. CASE Malloc /\ levels' = SetLevel([Level EXCEPT !.expr = Fresh(1)]) /\ pc' = "factor"
  <2> DEFINE l == [Level EXCEPT !.expr = Fresh(1)]
  <2>1. Fresh(1) \in Nat /\ MemoryTyped'
    BY <1>3, MallocTyped
  <2>2. l \in LevelSet /\ l.fact = NULL
    BY <1>0, <1>2, <2>1 DEF LevelSet
  <2>3. levels' = SetLevel(l) /\ pc' = "factor" /\ pc' \in LevelPCs
    BY <1>3 DEF LevelPCs
  <2> HIDE DEF l
  <2>4. levels' = Append(Front(levels), l)
    BY <1>2, <2>2, <2>3
  <2> QED BY <1>0, <1>1, <1>2, <2>1, <2>2, <2>3, <2>4, LevelStep
<1>4. CASE MallocFails /\ pc' = "no_alternative" /\ UNCHANGED <<levels, live>>
  <2>1. MemoryTyped'
    BY <1>4, FailuresLeft DEF Typed, MemoryTyped
  <2>2. levels' = Append(Front(levels), Level) /\ pc' \in LevelPCs
    BY <1>2, <1>4 DEF LevelPCs
  <2> QED BY <1>0, <1>1, <1>2, <1>4, <2>1, <2>2, LevelStep
<1> QED BY <1>3, <1>4 DEF ReadAlternative

\* A level with more factors.
WithFacts(l, ns) == [l EXCEPT !.facts = @ \o ns, !.fact = NULL]

LEMMA FactAdded ==
  ASSUME NEW l \in LevelSet, NEW ns \in Seq(ReadNode)
  PROVE  /\ WithFacts(l, ns) \in LevelSet
         /\ WithFacts(l, ns).fact = NULL /\ WithFacts(l, ns).facts = l.facts \o ns
         /\ WithFacts(l, ns).expr = l.expr /\ WithFacts(l, ns).target = l.target
<1>1. l.facts \o ns \in Seq(ReadNode)
  BY LevelFields, ConcatProperties
<1> QED BY <1>1 DEF LevelSet, NULL, WithFacts

\* A factor is added to the innermost level.
LEMMA AddFactorTyped ==
  ASSUME Typed, Phases, pc \in {"factor", "operand"}, UNCHANGED <<e, prod, grammar>>,
         StreamTyped', MemoryTyped', NEW ns \in Seq(ReadNode), AddFactor(Level, ns)
  PROVE  Typed' /\ Phases'
<1>1. pc \in LevelPCs /\ pc' = "factor" /\ pc' \in LevelPCs
  BY DEF LevelPCs, AddFactor
<1>2. /\ Level \in LevelSet /\ Front(levels) \in Seq(LevelSet)
      /\ \A l \in LevelSet : SetLevel(l) = Append(Front(levels), l)
  BY <1>1, LastLevel
<1> DEFINE m == WithFacts(Level, ns)
<1>3. m \in LevelSet /\ m.fact = NULL
  BY <1>2, FactAdded
<1>4. levels' = SetLevel(m)
  BY DEF AddFactor, WithFacts
<1>5. e' \in {ERR_NONE, ERR_MEMORY_ALLOC, ERRBNF_SYNTAX}
  BY DEF Typed, ControlTyped
<1> HIDE DEF m
<1>6. levels' = Append(Front(levels), m)
  BY <1>2, <1>3, <1>4
<1> QED BY <1>1, <1>2, <1>3, <1>5, <1>6, LevelStep

\* A node of its own for the next factor.
LEMMA FactAllocated ==
  ASSUME Typed, Phases, pc = "factor", UNCHANGED <<e, prod, grammar>>,
         StreamTyped', MemoryTyped', live' = live \cup {Fresh(1)},
         levels' = SetLevel([Level EXCEPT !.fact = Fresh(1)]), pc' = "operand"
  PROVE  Typed' /\ Phases'
<1>1. pc \in LevelPCs /\ pc' \in LevelPCs
  BY DEF LevelPCs
<1>2. /\ Level \in LevelSet /\ Front(levels) \in Seq(LevelSet)
      /\ \A l \in LevelSet : SetLevel(l) = Append(Front(levels), l)
  BY <1>1, LastLevel
<1> DEFINE m == [Level EXCEPT !.fact = Fresh(1)]
<1>3. Fresh(1) \in Nat \ {NULL}
  BY FreshIsFree
<1>4. m \in LevelSet /\ m.fact \in live'
  BY <1>2, <1>3 DEF LevelSet
<1>5. e' \in {ERR_NONE, ERR_MEMORY_ALLOC, ERRBNF_SYNTAX}
  BY DEF Typed, ControlTyped
<1>6. levels' = SetLevel(m)
  OBVIOUS
<1> HIDE DEF m
<1>7. levels' = Append(Front(levels), m)
  BY <1>2, <1>4, <1>6
<1> QED BY <1>1, <1>2, <1>4, <1>5, <1>7, LevelStep

\* The innermost level loses its factor.
LEMMA FactFreed ==
  ASSUME Typed, Phases, pc \in {"factor", "operand"}, UNCHANGED <<e, prod, grammar>>,
         StreamTyped', MemoryTyped', levels' = SetLevel([Level EXCEPT !.fact = NULL]), pc' = "no_factor"
  PROVE  Typed' /\ Phases'
<1>1. pc \in LevelPCs /\ pc' \in LevelPCs
  BY DEF LevelPCs
<1>2. /\ Level \in LevelSet /\ Front(levels) \in Seq(LevelSet)
      /\ \A l \in LevelSet : SetLevel(l) = Append(Front(levels), l)
  BY <1>1, LastLevel
<1> DEFINE m == [Level EXCEPT !.fact = NULL]
<1>4. m \in LevelSet /\ m.fact = NULL
  BY <1>2 DEF LevelSet, NULL
<1>5. e' \in {ERR_NONE, ERR_MEMORY_ALLOC, ERRBNF_SYNTAX}
  BY DEF Typed, ControlTyped
<1>6. levels' = SetLevel(m)
  OBVIOUS
<1> HIDE DEF m
<1>7. levels' = Append(Front(levels), m)
  BY <1>2, <1>4, <1>6
<1> QED BY <1>1, <1>2, <1>4, <1>5, <1>7, LevelStep

LEMMA ReadOperandTyped ==
  ASSUME Typed, Phases, ReadOperand PROVE Typed' /\ Phases'
<1>0. /\ pc = "operand" /\ pc \in LevelPCs /\ Symbol(Here) \in Names \cup Literals /\ Malloc
      /\ pos' = Here + 1 /\ eof' = (eof \/ LastName(Here)) /\ UNCHANGED <<text, e, prod, grammar>>
  BY DEF ReadOperand, LevelPCs
<1>1. StreamTyped'
  BY <1>0, NameConsumed DEF Typed, StreamTyped
<1>2. MemoryTyped' /\ Fresh(1) \in Nat
  BY <1>0, MallocTyped
<1>3. Level \in LevelSet /\ Level.fact \in Nat
  BY <1>0, LastLevel, LevelFields
<1>4. Level.fact # Fresh(1)
  BY <1>0, FreshIsFree DEF Phases
<1> DEFINE t == IF Symbol(Here) \in Names THEN "FACT_RULE" ELSE "FACT_LITERAL"
           ns == <<Node(t, <<Symbol(Here)>>, Level.fact, Fresh(1))>>
<1>5. <<Symbol(Here)>> \in Seq(Shown) /\ t \in NodeTypes \ {"FACT_RULE_LINKED"}
  BY <1>0 DEF Shown, NodeTypes
<1>6. AddFactor(Level, ns)
  BY DEF ReadOperand
<1> HIDE DEF t
<1>7. ns \in Seq(ReadNode)
  <2>1. Node(t, <<Symbol(Here)>>, Level.fact, Fresh(1)) \in ReadNode
    BY <1>2, <1>3, <1>4, <1>5, NodeTyped
  <2> QED BY <2>1
<1> HIDE DEF ns
<1> QED BY <1>0, <1>1, <1>2, <1>6, <1>7, AddFactorTyped

LEMMA ReadBuiltinTyped ==
  ASSUME Typed, Phases, ReadBuiltin PROVE Typed' /\ Phases'
<1>0. pc = "factor" /\ pc \in LevelPCs /\ UNCHANGED <<text, e, prod, grammar>>
  BY DEF ReadBuiltin, LevelPCs
<1>c. At(":") => Here \in Nat /\ Symbol(Here) # End /\ Here + 1 \in 1 .. Len(text)
  <2> SUFFICES ASSUME At(":") PROVE Here \in Nat /\ Symbol(Here) # End /\ Here + 1 \in 1 .. Len(text)
    OBVIOUS
  <2>1. ":" \in Operators
    BY Zenon DEF Operators
  <2>2. Symbol(Here) # End
    BY <2>1, SymbolsDiffer DEF At
  <2>3. text \in Texts
    BY DEF Typed, StreamTyped
  <2>l. Len(text) \in Nat
    BY <2>3, TextIsSeq
  <2>4. PICK l \in Nat : l = Len(text)
    BY <2>l
  <2>5. Here \in 0 .. l
    BY <2>4, HereIs
  <2> HIDE DEF Here
  <2>6. Here \in Nat
    BY <2>5
  <2> QED BY <2>2, <2>3, <2>6, WithinText
<1> HIDE DEF Here
<1>1. CASE MallocFails /\ pc' = "no_factor" /\ UNCHANGED <<pos, eof, levels, live>>
  <2>1. StreamTyped' /\ MemoryTyped'
    BY <1>0, <1>1, FailuresLeft DEF Typed, StreamTyped, MemoryTyped
  <2>2. /\ Level \in LevelSet /\ Front(levels) \in Seq(LevelSet) /\ levels = Append(Front(levels), Level)
    BY <1>0, LastLevel
  <2>3. Level.fact = NULL /\ e' \in {ERR_NONE, ERR_MEMORY_ALLOC, ERRBNF_SYNTAX} /\ pc' \in LevelPCs
    BY <1>0, <1>1 DEF Phases, LevelPCs, Typed, ControlTyped
  <2> QED BY <1>0, <1>1, <2>1, <2>2, <2>3, LevelStep
<1>2. CASE /\ At(":") /\ Symbol(Here + 1) \in Names
           /\ live' = live \cup {Fresh(1), Fresh(2)} /\ NoMalloc
           /\ AddFactor(Level, <<Node("FACT_RULE_BUILTIN", <<":", Symbol(Here + 1)>>, Fresh(1), Fresh(2))>>)
           /\ pos' = Here + 2 /\ eof' = (eof \/ LastName(Here + 1))
  <2>1. Here + 1 \in Nat /\ Symbol(Here + 1) # End
    BY <1>c, <1>2, SymbolsDiffer
  <2>2. (Here + 1) + 1 \in 1 .. Len(text)
    BY <2>1, BehindSymbol
  <2>3. StreamTyped'
    BY <1>0, <1>2, <1>c, <2>2 DEF Typed, StreamTyped
  <2>4. Fresh(1) \in Nat \ {NULL} /\ Fresh(2) \in Nat \ {NULL}
    BY FreshIsFree
  <2>5. live \cup {Fresh(1), Fresh(2)} = live \cup {Fresh(1), Fresh(2), Fresh(2)}
    OBVIOUS
  <2>6. MemoryTyped'
    BY <1>2, <2>4, <2>5, LiveGrows, FailuresLeft DEF MemoryTyped
  <2> DEFINE ns == <<Node("FACT_RULE_BUILTIN", <<":", Symbol(Here + 1)>>, Fresh(1), Fresh(2))>>
  <2>7. ns \in Seq(ReadNode)
    <3>1. <<":", Symbol(Here + 1)>> \in Seq(Shown)
      BY <1>2 DEF Shown
    <3>2. "FACT_RULE_BUILTIN" \in NodeTypes \ {"FACT_RULE_LINKED"} /\ "FACT_RULE_BUILTIN" # "FACT_RULE"
      BY DEF NodeTypes
    <3>3. Node("FACT_RULE_BUILTIN", <<":", Symbol(Here + 1)>>, Fresh(1), Fresh(2)) \in ReadNode
      BY <2>4, <3>1, <3>2, NodeTyped
    <3> QED BY <3>3
  <2>8. AddFactor(Level, ns)
    BY <1>2
  <2> HIDE DEF ns
  <2> QED BY <1>0, <2>3, <2>6, <2>7, <2>8, AddFactorTyped
<1>3. CASE /\ pos' \in {pos, Here + 1} /\ (pos' # pos => At(":")) /\ eof' \in BOOLEAN
           /\ live' = live \cup {Fresh(1)} /\ (NoMalloc \/ MallocFails)
           /\ levels' = SetLevel([Level EXCEPT !.fact = Fresh(1)]) /\ pc' = "operand"
  <2>1. StreamTyped'
    BY <1>0, <1>3, <1>c DEF Typed, StreamTyped
  <2>2. Fresh(1) \in Nat \ {NULL} /\ live \cup {Fresh(1)} = live \cup {Fresh(1), Fresh(1), Fresh(1)}
    BY FreshIsFree
  <2>3. MemoryTyped'
    BY <1>3, <2>2, LiveGrows, FailuresLeft DEF MemoryTyped
  <2> QED BY <1>0, <1>3, <2>1, <2>3, FactAllocated
<1>4. NoOperator({":"}) => pos' = pos /\ eof' \in BOOLEAN
  BY DEF NoOperator, Typed, StreamTyped
<1>5. Malloc => live' = live \cup {Fresh(1)} /\ NoMalloc
  BY DEF Malloc, NoMalloc
<1>6. eof \in BOOLEAN
  BY DEF Typed, StreamTyped
<1>7. ASSUME At(":"), live' = live \cup {Fresh(1)},
             IF Symbol(Here + 1) \in Names THEN MallocFails ELSE NoMalloc,
             levels' = SetLevel([Level EXCEPT !.fact = Fresh(1)]), pc' = "operand", pos' = Here + 1,
             eof' = (eof \/ Symbol(Here + 1) = End \/ LastName(Here + 1))
      PROVE  Typed' /\ Phases'
  BY <1>3, <1>6, <1>7
<1>8. ASSUME NoOperator({":"}), Malloc,
             levels' = SetLevel([Level EXCEPT !.fact = Fresh(1)]), pc' = "operand"
      PROVE  Typed' /\ Phases'
  BY <1>3, <1>4, <1>5, <1>8, <1>0
<1> QED BY <1>1, <1>2, <1>7, <1>8 DEF ReadBuiltin

\* A level without its factor.
WithoutFact(l) == [l EXCEPT !.fact = NULL]

LEMMA FactDropped ==
  ASSUME NEW l \in LevelSet
  PROVE  /\ WithoutFact(l) \in LevelSet /\ WithoutFact(l).fact = NULL
         /\ WithoutFact(l).facts = l.facts /\ WithoutFact(l).expr = l.expr
         /\ WithoutFact(l).target = l.target
  BY DEF LevelSet, NULL, WithoutFact

\* The level around the innermost one.
Outer == Last(Front(levels))

LEMMA OuterLevel ==
  ASSUME Typed, pc \in LevelPCs, Front(levels) # <<>>
  PROVE  /\ Outer \in LevelSet /\ Front(Front(levels)) \in Seq(LevelSet)
         /\ Front(levels) = Append(Front(Front(levels)), Outer)
         /\ \A l \in LevelSet :
              [Front(levels) EXCEPT ![Len(Front(levels))] = l] = Append(Front(Front(levels)), l)
<1>1. Front(levels) \in Seq(LevelSet)
  BY LastLevel
<1>2. /\ Last(Front(levels)) \in LevelSet /\ Front(Front(levels)) \in Seq(LevelSet)
      /\ Front(levels) = Append(Front(Front(levels)), Last(Front(levels)))
  BY <1>1, FrontAndLast
<1>3. \A l \in LevelSet :
        [Front(levels) EXCEPT ![Len(Front(levels))] = l] = Append(Front(Front(levels)), l)
  BY <1>1, ReplaceLast
<1> QED BY <1>2, <1>3 DEF Outer

LEMMA CoupleFailsIs ==
  ASSUME Typed, pc \in LevelPCs, Front(levels) # <<>>, NEW S, CoupleFails(S)
  PROVE  /\ levels' = Append(Front(Front(levels)), WithoutFact(Outer))
         /\ live' = live \ (S \cup {Outer.fact}) /\ pc' = "no_factor"
<1>1. /\ WithoutFact(Outer) \in LevelSet
      /\ \A l \in LevelSet :
           [Front(levels) EXCEPT ![Len(Front(levels))] = l] = Append(Front(Front(levels)), l)
  BY OuterLevel, FactDropped
<1>2. [Front(levels) EXCEPT ![Len(Front(levels))].fact = NULL]
        = [Front(levels) EXCEPT ![Len(Front(levels))] = WithoutFact(Outer)]
  BY DEF WithoutFact, Outer, Last
<1>3. levels' = [Front(levels) EXCEPT ![Len(Front(levels))].fact = NULL]
  BY DEF CoupleFails
<1>4. live' = live \ (S \cup {Outer.fact}) /\ pc' = "no_factor"
  BY DEF CoupleFails, Outer
<1> QED BY <1>1, <1>2, <1>3, <1>4

LEMMA CoupleFailsTyped ==
  ASSUME Typed, Phases, pc \in LevelPCs, Front(levels) # <<>>, NEW S, CoupleFails(S),
         StreamTyped', e' \in {ERR_NONE, ERR_MEMORY_ALLOC, ERRBNF_SYNTAX},
         UNCHANGED <<prod, grammar, failures>>
  PROVE  Typed' /\ Phases'
<1>1. /\ levels' = Append(Front(Front(levels)), WithoutFact(Outer))
      /\ live' = live \ (S \cup {Outer.fact}) /\ pc' = "no_factor"
  BY CoupleFailsIs
<1>2. MemoryTyped'
  BY <1>1, FreeTyped
<1>3. Front(Front(levels)) \in Seq(LevelSet) /\ WithoutFact(Outer) \in LevelSet /\ WithoutFact(Outer).fact = NULL
  BY OuterLevel, FactDropped
<1>4. pc' \in LevelPCs
  BY <1>1 DEF LevelPCs
<1> QED BY <1>1, <1>2, <1>3, <1>4, LevelStep

LEMMA OpenCoupleTyped ==
  ASSUME Typed, Phases, OpenCouple PROVE Typed' /\ Phases'
<1>0. /\ pc = "operand" /\ pc \in LevelPCs /\ pc' = "alternative" /\ pc' \in LevelPCs
      /\ Consume("[") /\ levels' = Append(levels, NoLevel)
      /\ UNCHANGED <<text, e, prod, grammar, live, failures>>
  BY DEF OpenCouple, LevelPCs, NoLevel
<1>1. StreamTyped'
  <2>1. "[" \in Operators
    BY Zenon DEF Operators
  <2> QED BY <1>0, <2>1, ConsumeIs DEF Typed, StreamTyped
<1>2. MemoryTyped' /\ e' \in {ERR_NONE, ERR_MEMORY_ALLOC, ERRBNF_SYNTAX} /\ levels \in Seq(LevelSet)
  BY <1>0 DEF Typed, MemoryTyped, ControlTyped, LevelsTyped
<1> QED BY <1>0, <1>1, <1>2, NoLevelTyped, LevelStep

LEMMA NotAFactorTyped ==
  ASSUME Typed, Phases, NotAFactor PROVE Typed' /\ Phases'
<1>0. /\ pc = "operand" /\ pc' = "no_factor" /\ levels' = SetLevel([Level EXCEPT !.fact = NULL])
      /\ UNCHANGED <<text, pos, e, prod, grammar>> /\ eof' \in BOOLEAN
      /\ live' = live \ {Level.fact}
  BY DEF NotAFactor, Typed, StreamTyped
<1>1. NoMalloc \/ MallocFails
  BY DEF NotAFactor
<1>2. StreamTyped'
  BY <1>0 DEF Typed, StreamTyped
<1>3. MemoryTyped'
  BY <1>0, <1>1, FreeTyped
<1> QED BY <1>0, <1>2, <1>3, FactFreed

\* The alternative is put behind those before it.
Alternative(l) ==
  [l EXCEPT !.target = @ \o <<Node("expr", IF @ = <<>> THEN <<>> ELSE <<"|">>, l.expr, NULL)>> \o l.facts,
            !.expr = NULL, !.facts = <<>>]
ExprNode(l) == Node("expr", IF l.target = <<>> THEN <<>> ELSE <<"|">>, l.expr, NULL)

LEMMA AlternativeIs ==
  ASSUME NEW l \in LevelSet
  PROVE  /\ Alternative(l) \in LevelSet /\ ExprNode(l) \in ReadNode
         /\ Alternative(l).expr = NULL /\ Alternative(l).facts = <<>> /\ Alternative(l).fact = l.fact
         /\ Alternative(l).target = (l.target \o <<ExprNode(l)>>) \o l.facts
         /\ Alternative(l).target # <<>>
<1>1. l.expr \in Nat /\ l.facts \in Seq(ReadNode) /\ l.target \in Seq(ReadNode)
  BY LevelFields
<1>2. ExprNode(l) \in ReadNode
  <2>1. (IF l.target = <<>> THEN <<>> ELSE <<"|">>) \in Seq(Shown)
    <3>1. <<>> \in Seq(Shown) /\ <<"|">> \in Seq(Shown)
      BY DEF Shown
    <3> QED BY <3>1
  <2>2. "expr" \in NodeTypes \ {"FACT_RULE_LINKED"} /\ "expr" # "FACT_RULE" /\ NULL \in Nat
    BY DEF NodeTypes, NULL
  <2> QED BY <1>1, <2>1, <2>2, NodeTyped DEF ExprNode
<1> DEFINE t == (l.target \o <<ExprNode(l)>>) \o l.facts
<1>3. t \in Seq(ReadNode) /\ t # <<>>
  <2>1. <<ExprNode(l)>> \in Seq(ReadNode) /\ Len(<<ExprNode(l)>>) = 1
    BY <1>2
  <2>2. /\ l.target \o <<ExprNode(l)>> \in Seq(ReadNode)
        /\ Len(l.target \o <<ExprNode(l)>>) = Len(l.target) + 1
    BY <1>1, <2>1, ConcatProperties
  <2> DEFINE u == l.target \o <<ExprNode(l)>>
  <2> HIDE DEF u
  <2>3. u \in Seq(ReadNode) /\ Len(u) = Len(l.target) + 1
    BY <2>2 DEF u
  <2> DEFINE w == u \o l.facts
  <2>4. w \in Seq(ReadNode) /\ Len(w) = Len(u) + Len(l.facts)
    BY <1>1, <2>3, ConcatProperties
  <2>5. Len(l.target) \in Nat /\ Len(l.facts) \in Nat
    BY <1>1, LenProperties
  <2> HIDE DEF w
  <2>6. w # <<>>
    <3>1. PICK a \in Nat, b \in Nat : a = Len(l.target) /\ b = Len(l.facts)
      BY <2>5
    <3>2. Len(w) = (a + 1) + b
      BY <2>3, <2>4, <3>1
    <3>3. Len(w) # 0
      BY <3>2
    <3> QED BY <2>4, <3>3, EmptySeq
  <2> QED BY <2>4, <2>6 DEF u, w
<1>4. Alternative(l) = [l EXCEPT !.target = t, !.expr = NULL, !.facts = <<>>]
  BY DEF Alternative, ExprNode
<1> HIDE DEF t
<1>5. <<>> \in Seq(ReadNode)
  OBVIOUS
<1>6. /\ Alternative(l) \in LevelSet /\ Alternative(l).expr = NULL /\ Alternative(l).facts = <<>>
      /\ Alternative(l).fact = l.fact /\ Alternative(l).target = t
  <2>1. l \in [expr : Nat, facts : Seq(ReadNode), target : Seq(ReadNode), fact : Nat]
    BY DEF LevelSet
  <2>2. Alternative(l) = [expr |-> NULL, facts |-> <<>>, target |-> t, fact |-> l.fact]
    BY <1>4, <2>1
  <2>3. NULL \in Nat /\ l.fact \in Nat
    BY <2>1 DEF NULL
  <2> QED BY <1>3, <1>5, <2>2, <2>3 DEF LevelSet
<1> QED BY <1>2, <1>3, <1>6 DEF t

LEMMA NoFactorTyped ==
  ASSUME Typed, Phases, NoFactor PROVE Typed' /\ Phases'
<1>0. /\ pc = "no_factor" /\ pc \in LevelPCs /\ UNCHANGED <<text, pos, eof, e, prod, grammar, failures>>
      /\ Level.fact = NULL
  BY DEF NoFactor, LevelPCs, Phases
<1>1. StreamTyped' /\ e' \in {ERR_NONE, ERR_MEMORY_ALLOC, ERRBNF_SYNTAX}
  BY <1>0 DEF Typed, StreamTyped, ControlTyped
<1>2. /\ Level \in LevelSet /\ Front(levels) \in Seq(LevelSet)
      /\ \A l \in LevelSet : SetLevel(l) = Append(Front(levels), l)
  BY <1>0, LastLevel
<1>3. CASE /\ Level.facts = <<>> /\ live' = live \ {Level.expr} /\ pc' = "no_alternative"
           /\ levels' = SetLevel([Level EXCEPT !.expr = NULL])
  <2> DEFINE l == [Level EXCEPT !.expr = NULL]
  <2>1. l \in LevelSet /\ l.expr = NULL /\ l.facts = <<>> /\ l.fact = NULL
    BY <1>0, <1>2, <1>3 DEF LevelSet, NULL
  <2>2. levels' = SetLevel(l) /\ pc' \in LevelPCs
    BY <1>3 DEF LevelPCs
  <2> HIDE DEF l
  <2>3. levels' = Append(Front(levels), l)
    BY <1>2, <2>1, <2>2
  <2>4. MemoryTyped'
    BY <1>0, <1>3, FreeTyped
  <2> QED BY <1>0, <1>1, <1>2, <1>3, <2>1, <2>2, <2>3, <2>4, LevelStep
<1>4. CASE levels' = SetLevel(Alternative(Level)) /\ pc' = "or" /\ live' = live
  <2>1. /\ Alternative(Level) \in LevelSet /\ Alternative(Level).expr = NULL
        /\ Alternative(Level).facts = <<>> /\ Alternative(Level).fact = NULL
        /\ Alternative(Level).target # <<>>
    BY <1>0, <1>2, AlternativeIs
  <2>2. levels' = Append(Front(levels), Alternative(Level)) /\ pc' \in LevelPCs
    BY <1>2, <1>4, <2>1 DEF LevelPCs
  <2>3. MemoryTyped'
    BY <1>0, <1>4 DEF Typed, MemoryTyped
  <2> QED BY <1>0, <1>1, <1>2, <1>4, <2>1, <2>2, <2>3, LevelStep
<1> QED BY <1>3, <1>4 DEF NoFactor, Alternative

\* The outermost level ends.
LEMMA LevelsEnd ==
  ASSUME Typed, Phases, pc \in LevelPCs, levels' = <<>>, NEW es \in Seq(ReadNode),
         prod' = [prod EXCEPT !.exprs = es], UNCHANGED grammar,
         StreamTyped', MemoryTyped', e' \in {ERR_NONE, ERR_MEMORY_ALLOC, ERRBNF_SYNTAX},
         pc' \in {"rule_end", "no_production"}
  PROVE  Typed' /\ Phases'
<1>1. ControlTyped'
  BY DEF ControlTyped, PCs
<1>2. prod \in ProdSet(ReadNode) /\ prod.block = NULL
  BY DEF Typed, ProdTyped
<1>3. /\ prod' \in ProdSet(ReadNode) /\ prod'.block = NULL
      /\ prod'.identifier = prod.identifier
  BY <1>2 DEF ProdSet
<1>4. ProdTyped' /\ GrammarTyped'
  BY <1>3 DEF Typed, ProdTyped, GrammarTyped, LevelPCs, LastPCs
<1>5. LevelsTyped'
  BY DEF LevelsTyped, LevelPCs
<1>6. Phases'
  BY <1>3 DEF Phases, LevelPCs, ParamPCs
<1> QED BY <1>1, <1>4, <1>5, <1>6 DEF Typed

LEMMA ReadOrTyped ==
  ASSUME Typed, Phases, ReadOr PROVE Typed' /\ Phases'
<1>0. /\ pc = "or" /\ pc \in LevelPCs /\ UNCHANGED <<text, e, grammar, live, failures>>
      /\ Level.fact = NULL /\ Level.expr = NULL /\ Level.facts = <<>>
  BY DEF ReadOr, LevelPCs, Phases
<1>1. MemoryTyped' /\ e' \in {ERR_NONE, ERR_MEMORY_ALLOC, ERRBNF_SYNTAX}
  BY <1>0 DEF Typed, MemoryTyped, ControlTyped
<1>2. StreamTyped'
  <2>1. "|" \in Operators
    BY Zenon DEF Operators
  <2>2. Consume("|") => StreamTyped'
    BY <1>0, <2>1, ConsumeIs DEF Typed, StreamTyped
  <2>3. NoOperator({"|"}) => StreamTyped'
    BY <1>0 DEF NoOperator, Typed, StreamTyped
  <2> QED BY <2>2, <2>3 DEF ReadOr
<1>3. /\ Level \in LevelSet /\ Front(levels) \in Seq(LevelSet) /\ levels = Append(Front(levels), Level)
      /\ \A l \in LevelSet : SetLevel(l) = Append(Front(levels), l)
      /\ Len(levels) > 1 <=> Front(levels) # <<>>
  BY <1>0, LastLevel
<1>4. [Level EXCEPT !.target = Level.target] = Level /\ Level.target \in Seq(ReadNode)
  BY <1>3 DEF LevelSet
<1>5. CASE pc' = "alternative" /\ UNCHANGED <<levels, prod>>
  <2>1. levels' = Append(Front(levels), Level) /\ pc' \in LevelPCs
    BY <1>3, <1>5 DEF LevelPCs
  <2> QED BY <1>0, <1>1, <1>2, <1>3, <1>5, <2>1, LevelStep
<1>6. CASE EndLoop(Level.target)
  <2>1. CASE Front(levels) # <<>>
    <3>1. levels' = SetLevel(Level) /\ pc' = "close" /\ prod' = prod
      BY <1>3, <1>4, <1>6, <2>1 DEF EndLoop
    <3>2. levels' = Append(Front(levels), Level) /\ pc' \in LevelPCs
      BY <1>3, <3>1 DEF LevelPCs
    <3> QED BY <1>0, <1>1, <1>2, <1>3, <2>1, <3>1, <3>2, LevelStep
  <2>2. CASE Front(levels) = <<>>
    <3>1. levels' = <<>> /\ prod' = [prod EXCEPT !.exprs = Level.target] /\ pc' = "rule_end"
      BY <1>3, <1>6, <2>2 DEF EndLoop
    <3> QED BY <1>0, <1>1, <1>2, <1>4, <3>1, LevelsEnd
  <2> QED BY <2>1, <2>2
<1> QED BY <1>5, <1>6 DEF ReadOr

LEMMA NoAlternativeTyped ==
  ASSUME Typed, Phases, NoAlternative PROVE Typed' /\ Phases'
<1>0. /\ pc = "no_alternative" /\ pc \in LevelPCs /\ UNCHANGED <<text, pos, eof, grammar, failures>>
      /\ e' = IF Level.target = <<>> THEN e ELSE ERRBNF_SYNTAX
  BY DEF NoAlternative, LevelPCs
<1>1. StreamTyped' /\ e' \in {ERR_NONE, ERR_MEMORY_ALLOC, ERRBNF_SYNTAX}
  BY <1>0 DEF Typed, StreamTyped, ControlTyped
<1>2. Len(levels) > 1 <=> Front(levels) # <<>>
  BY <1>0, LastLevel
<1>3. CASE Front(levels) # <<>>
  <2>1. CoupleFails(Rule(Level.target)) /\ prod' = prod
    BY <1>2, <1>3 DEF NoAlternative
  <2> QED BY <1>0, <1>1, <1>3, <2>1, CoupleFailsTyped
<1>4. CASE Front(levels) = <<>>
  <2>1. /\ levels' = <<>> /\ prod' = [prod EXCEPT !.exprs = <<>>]
        /\ live' = live \ Rule(Level.target)
        /\ pc' \in {"rule_end", "no_production"}
    BY <1>2, <1>4 DEF NoAlternative
  <2>2. MemoryTyped'
    BY <1>0, <2>1, FreeTyped
  <2>3. <<>> \in Seq(ReadNode)
    OBVIOUS
  <2> QED BY <1>0, <1>1, <2>1, <2>2, <2>3, LevelsEnd
<1> QED BY <1>3, <1>4

\* Behind an operator of one character.
LEMMA OperatorAt ==
  ASSUME Typed, NEW op \in Operators, At(op)
  PROVE  /\ Here \in Nat /\ Symbol(Here) # End /\ Here + 1 \in Nat /\ Here + 1 \in 1 .. Len(text)
         /\ Skip(Here + 1) \in Nat /\ text[Here + 1] = op
<1>1. Symbol(Here) # End
  BY SymbolsDiffer DEF At
<1>l. Len(text) \in Nat /\ text \in Texts
  BY TextIsSeq DEF Typed, StreamTyped
<1>2. PICK l \in Nat : l = Len(text)
  BY <1>l
<1>3. Here \in 0 .. l
  BY <1>2, HereIs
<1> HIDE DEF Here
<1>4. Here \in Nat /\ Here + 1 \in Nat
  BY <1>3
<1>5. Here + 1 \in 1 .. Len(text) /\ text[Here + 1] = Symbol(Here) /\ Skip(Here + 1) \in Nat
  BY <1>1, <1>4, BehindSymbol
<1> QED BY <1>1, <1>4, <1>5 DEF At

LEMMA FeedTypes ==
  ASSUME NEW feed \in DOMAIN OpFeed
  PROVE  /\ OpFeed[feed] \in {"FACT_EXPR_NGT", "FACT_EXPR_NGTE", "FACT_EXPR_OPT"}
         /\ feed # End
<1>1. feed \in {"+", "*", "?"}
  BY DEF OpFeed
<1>2. feed # End
  BY <1>1, Zenon DEF End
<1>3. OpFeed[feed] \in {"FACT_EXPR_NGT", "FACT_EXPR_NGTE", "FACT_EXPR_OPT"}
  BY <1>1 DEF OpFeed
<1> QED BY <1>2, <1>3

CoupleEnd(type) ==
  Node("end", <<"]", CASE type = "FACT_EXPR_OPT" -> "?" [] type = "FACT_EXPR_NGT" -> "+"
                       [] type = "FACT_EXPR_NGTE" -> "*" [] OTHER -> "x">>, NULL, NULL)
CoupleNode(fact, type) == Node(type, <<"[">>, fact, NULL)

LEMMA CoupleTyped ==
  ASSUME NEW fact \in Nat, NEW type \in {"FACT_EXPR_NGT", "FACT_EXPR_NGTE", "FACT_EXPR_OPT"},
         NEW target \in Seq(ReadNode)
  PROVE  /\ Couple(fact, type, target) \in Seq(ReadNode)
         /\ Couple(fact, type, target) = (<<CoupleNode(fact, type)>> \o target) \o <<CoupleEnd(type)>>
         /\ CoupleNode(fact, type) \in ReadNode /\ CoupleEnd(type) \in ReadNode
<1>1. CoupleNode(fact, type) \in ReadNode
  <2>1. <<"[">> \in Seq(Shown) /\ NULL \in Nat
    BY DEF Shown, NULL
  <2>2. type \in NodeTypes \ {"FACT_RULE_LINKED"} /\ type # "FACT_RULE"
    BY DEF NodeTypes
  <2> QED BY <2>1, <2>2, NodeTyped DEF CoupleNode
<1>2. CoupleEnd(type) \in ReadNode
  <2> DEFINE s == CASE type = "FACT_EXPR_OPT" -> "?" [] type = "FACT_EXPR_NGT" -> "+"
                    [] type = "FACT_EXPR_NGTE" -> "*" [] OTHER -> "x"
  <2>1. s \in Shown
    BY DEF Shown
  <2>2. "]" \in Shown
    BY DEF Shown
  <2>3. "end" \in NodeTypes \ {"FACT_RULE_LINKED"} /\ "end" # "FACT_RULE" /\ NULL \in Nat
    BY DEF NodeTypes, NULL
  <2>4. CoupleEnd(type) = Node("end", <<"]", s>>, NULL, NULL)
    BY DEF CoupleEnd
  <2> HIDE DEF s
  <2>5. <<"]", s>> \in Seq(Shown)
    BY <2>1, <2>2
  <2> QED BY <2>3, <2>4, <2>5, NodeTyped
<1>3. Couple(fact, type, target) = (<<CoupleNode(fact, type)>> \o target) \o <<CoupleEnd(type)>>
  BY DEF Couple, CoupleNode, CoupleEnd
<1>4. <<CoupleNode(fact, type)>> \in Seq(ReadNode) /\ <<CoupleEnd(type)>> \in Seq(ReadNode)
  BY <1>1, <1>2
<1>5. <<CoupleNode(fact, type)>> \o target \in Seq(ReadNode)
  BY <1>4, ConcatProperties
<1>6. (<<CoupleNode(fact, type)>> \o target) \o <<CoupleEnd(type)>> \in Seq(ReadNode)
  BY <1>4, <1>5, ConcatProperties
<1> QED BY <1>1, <1>2, <1>3, <1>6

LEMMA CloseCoupleIs ==
  ASSUME Typed, Phases, CloseCouple
  PROVE  \E type \in {"FACT_EXPR_NGT", "FACT_EXPR_NGTE", "FACT_EXPR_OPT"} :
           levels' = Append(Front(Front(levels)),
                            WithFacts(Outer, Couple(Outer.fact, type, Level.target)))
<1>1. pc \in LevelPCs /\ Front(levels) # <<>>
  BY DEF CloseCouple, LevelPCs, Phases
<1>2. /\ Outer \in LevelSet
      /\ \A l \in LevelSet :
           [Front(levels) EXCEPT ![Len(Front(levels))] = l] = Append(Front(Front(levels)), l)
  BY <1>1, OuterLevel
<1> DEFINE feed == Symbol(Skip(Here + 1))
<1>3. /\ feed \in DOMAIN OpFeed
      /\ levels' = [Front(levels) EXCEPT ![Len(Front(levels))] =
                      WithFacts(Outer, Couple(Outer.fact, OpFeed[feed], Level.target))]
  BY DEF CloseCouple, WithFacts, Outer
<1> HIDE DEF feed
<1>4. PICK type \in {"FACT_EXPR_NGT", "FACT_EXPR_NGTE", "FACT_EXPR_OPT"} : type = OpFeed[feed]
  BY <1>3, FeedTypes
<1> DEFINE c == Couple(Outer.fact, type, Level.target)
<1>5. levels' = [Front(levels) EXCEPT ![Len(Front(levels))] = WithFacts(Outer, c)]
  BY <1>3, <1>4
<1> HIDE DEF c
<1>7. c \in Seq(ReadNode)
  BY <1>1, <1>2, LastLevel, LevelFields, CoupleTyped DEF c
<1>8. WithFacts(Outer, c) \in LevelSet
  BY <1>2, <1>7, FactAdded
<1>9. levels' = Append(Front(Front(levels)), WithFacts(Outer, c))
  BY <1>2, <1>5, <1>8
<1> QED BY <1>9 DEF c

LEMMA CloseCoupleTyped ==
  ASSUME Typed, Phases, CloseCouple PROVE Typed' /\ Phases'
<1>0. /\ pc = "close" /\ pc \in LevelPCs /\ At("]") /\ Symbol(Skip(Here + 1)) \in DOMAIN OpFeed
      /\ pos' = Skip(Here + 1) + 1 /\ pc' = "factor" /\ pc' \in LevelPCs
      /\ UNCHANGED <<text, eof, e, prod, grammar, live, failures>> /\ Front(levels) # <<>>
  BY DEF CloseCouple, LevelPCs, Phases
<1>1. StreamTyped'
  <2>1. "]" \in Operators
    BY Zenon DEF Operators
  <2>2. Skip(Here + 1) \in Nat
    BY <1>0, <2>1, OperatorAt
  <2>3. Symbol(Skip(Here + 1)) # End
    BY <1>0, FeedTypes
  <2> HIDE DEF Here, Skip
  <2>4. Skip(Here + 1) + 1 \in 1 .. Len(text)
    BY <2>2, <2>3, BehindSymbol
  <2> QED BY <1>0, <2>4 DEF Typed, StreamTyped
<1>2. MemoryTyped' /\ e' \in {ERR_NONE, ERR_MEMORY_ALLOC, ERRBNF_SYNTAX}
  BY <1>0 DEF Typed, MemoryTyped, ControlTyped
<1>3. PICK type \in {"FACT_EXPR_NGT", "FACT_EXPR_NGTE", "FACT_EXPR_OPT"} :
        levels' = Append(Front(Front(levels)),
                         WithFacts(Outer, Couple(Outer.fact, type, Level.target)))
  BY CloseCoupleIs
<1> DEFINE c == Couple(Outer.fact, type, Level.target)
<1>4. Outer \in LevelSet /\ Level \in LevelSet /\ Front(Front(levels)) \in Seq(LevelSet)
  BY <1>0, LastLevel, OuterLevel
<1>5. c \in Seq(ReadNode)
  BY <1>4, LevelFields, CoupleTyped
<1> HIDE DEF c
<1>6. WithFacts(Outer, c) \in LevelSet /\ WithFacts(Outer, c).fact = NULL
  BY <1>4, <1>5, FactAdded
<1>7. levels' = Append(Front(Front(levels)), WithFacts(Outer, c))
  BY <1>3 DEF c
<1> QED BY <1>0, <1>1, <1>2, <1>4, <1>6, <1>7, LevelStep

LEMMA NotClosedTyped ==
  ASSUME Typed, Phases, NotClosed PROVE Typed' /\ Phases'
<1>0. /\ pc = "close" /\ pc \in LevelPCs /\ CoupleFails(Rule(Level.target)) /\ NoOperator({"]"})
      /\ UNCHANGED <<text, e, prod, grammar, failures>> /\ Front(levels) # <<>>
  BY DEF NotClosed, LevelPCs, Phases
<1>1. StreamTyped' /\ e' \in {ERR_NONE, ERR_MEMORY_ALLOC, ERRBNF_SYNTAX}
  BY <1>0 DEF NoOperator, Typed, StreamTyped, ControlTyped
<1> QED BY <1>0, <1>1, CoupleFailsTyped

LEMMA NoFeedTyped ==
  ASSUME Typed, Phases, NoFeed PROVE Typed' /\ Phases'
<1>0. /\ pc = "close" /\ pc \in LevelPCs /\ CoupleFails({}) /\ At("]") /\ pos' = Here + 1
      /\ UNCHANGED <<text, e, prod, grammar, failures>> /\ Front(levels) # <<>>
  BY DEF NoFeed, LevelPCs, Phases
<1>e. eof' \in BOOLEAN
  BY DEF NoFeed, Typed, StreamTyped
<1>1. StreamTyped' /\ e' \in {ERR_NONE, ERR_MEMORY_ALLOC, ERRBNF_SYNTAX}
  <2>1. "]" \in Operators
    BY Zenon DEF Operators
  <2>2. Here + 1 \in 1 .. Len(text)
    BY <1>0, <2>1, OperatorAt
  <2> HIDE DEF Here
  <2> QED BY <1>0, <1>e, <2>2 DEF Typed, StreamTyped, ControlTyped
<1> QED BY <1>0, <1>1, CoupleFailsTyped

-----------------------------------------------------------------------------
(* Types and phases: the productions, the linking and the end *)

LEMMA ReadRuleEndTyped ==
  ASSUME Typed, Phases, ReadRuleEnd PROVE Typed' /\ Phases'
<1>0. pc = "rule_end" /\ UNCHANGED <<text, levels>>
  BY DEF ReadRuleEnd
<1>1. StreamTyped'
  <2>1. OP_RULE_END \in Operators
    BY Zenon DEF Operators
  <2>2. Consume(OP_RULE_END) => StreamTyped'
    BY <1>0, <2>1, ConsumeIs DEF Typed, StreamTyped
  <2>3. NoOperator({OP_RULE_END}) => StreamTyped'
    BY <1>0 DEF NoOperator, Typed, StreamTyped
  <2> QED BY <2>2, <2>3 DEF ReadRuleEnd
<1>2. CASE /\ Malloc /\ grammar' = Append(grammar, [prod EXCEPT !.block = Fresh(1)])
           /\ prod' = NoProd /\ pc' = "production" /\ UNCHANGED e
  <2>1. MemoryTyped' /\ Fresh(1) \in Nat \ {NULL}
    BY <1>2, MallocTyped
  <2> DEFINE p == [prod EXCEPT !.block = Fresh(1)]
  <2>2. p \in ProdSet(ReadNode) /\ p.block # NULL /\ p.identifier # NULL
    <3>1. prod \in ProdSet(ReadNode) /\ prod.identifier # NULL
      BY <1>0 DEF Typed, ProdTyped, Phases
    <3> QED BY <2>1, <3>1 DEF ProdSet
  <2>3. grammar' = Append(grammar, p)
    BY <1>2
  <2> HIDE DEF p
  <2>4. GrammarTyped'
    <3>1. grammar \in Seq(ProdSet(ReadNode))
      BY <1>0 DEF Typed, GrammarTyped, LastPCs
    <3>2. grammar' \in Seq(ProdSet(ReadNode))
      BY <2>2, <2>3, <3>1, AppendProperties
    <3>3. \A i \in DOMAIN grammar' : grammar'[i].block # NULL /\ grammar'[i].identifier # NULL
      <4>1. /\ DOMAIN grammar' = 1 .. Len(grammar) + 1 /\ DOMAIN grammar = 1 .. Len(grammar)
            /\ \A i \in 1 .. Len(grammar) : grammar'[i] = grammar[i]
            /\ grammar'[Len(grammar) + 1] = p
        BY <2>2, <2>3, <3>1, AppendProperties, LenProperties
      <4>l. Len(grammar) \in Nat
        BY <3>1, LenProperties
      <4>2. PICK n \in Nat : n = Len(grammar)
        BY <4>l
      <4> SUFFICES ASSUME NEW i \in 1 .. n + 1
                   PROVE  grammar'[i].block # NULL /\ grammar'[i].identifier # NULL
        BY <4>1, <4>2
      <4>3. CASE i = n + 1
        BY <2>2, <4>1, <4>2, <4>3
      <4>4. CASE i # n + 1
        <5>1. i \in 1 .. n
          BY <4>4
        <5>2. grammar'[i] = grammar[i] /\ i \in DOMAIN grammar
          BY <4>1, <4>2, <5>1
        <5> QED BY <5>2 DEF Typed, GrammarTyped
      <4> QED BY <4>3, <4>4
    <3> QED BY <3>2, <3>3, ReadNodesAreNodes DEF GrammarTyped
  <2>5. ProdTyped' /\ ControlTyped' /\ LevelsTyped'
    <3>1. ProdTyped'
      BY <1>2, NoProdTyped DEF ProdTyped
    <3>2. ControlTyped' /\ LevelsTyped'
      BY <1>0, <1>2 DEF Typed, ControlTyped, LevelsTyped, PCs, LevelPCs
    <3> QED BY <3>1, <3>2
  <2>6. Phases'
    BY <1>2 DEF Phases, LevelPCs, ParamPCs
  <2> QED BY <1>1, <2>1, <2>4, <2>5, <2>6 DEF Typed
<1>3. CASE /\ NoMalloc \/ MallocFails
           /\ e' \in {e, ERR_MEMORY_ALLOC} /\ pc' = "no_production"
           /\ UNCHANGED <<grammar, prod, live>>
  <2>1. MemoryTyped' /\ ProdTyped'
    BY <1>3, FailuresLeft DEF Typed, MemoryTyped, ProdTyped
  <2>2. ControlTyped' /\ LevelsTyped' /\ GrammarTyped'
    BY <1>0, <1>3 DEF Typed, ControlTyped, LevelsTyped, GrammarTyped, PCs, LevelPCs, LastPCs
  <2>3. Phases'
    BY <1>3 DEF Phases, LevelPCs, ParamPCs
  <2> QED BY <1>1, <2>1, <2>2, <2>3 DEF Typed
<1> QED BY <1>2, <1>3 DEF ReadRuleEnd

LEMMA EmptyGrammarTyped ==
  ASSUME NEW g, g = <<>>
  PROVE  /\ g \in Seq(ProdSet(NodeSet)) /\ g \in Seq(ProdSet(ReadNode))
         /\ \A i \in DOMAIN g : g[i].block # NULL /\ g[i].identifier # NULL
<1>1. DOMAIN g = {}
  OBVIOUS
<1>2. <<>> \in Seq(ProdSet(NodeSet)) /\ <<>> \in Seq(ProdSet(ReadNode))
  BY EmptySeq
<1> QED BY <1>1, <1>2

LEMMA NoProductionTyped ==
  ASSUME Typed, Phases, NoProduction PROVE Typed' /\ Phases'
<1>0. /\ pc = "no_production" /\ UNCHANGED <<text, pos, eof, e, levels, failures>> /\ prod' = NoProd
      /\ \/ grammar # <<>> /\ e = ERR_NONE /\ pc' = "link" /\ grammar' = grammar
         \/ pc' = "done" /\ grammar' = <<>>
  BY DEF NoProduction
<1>1. StreamTyped' /\ ControlTyped'
  BY <1>0 DEF Typed, StreamTyped, ControlTyped, PCs, LastPCs
<1>2. LevelsTyped' /\ ProdTyped'
  BY <1>0, NoProdTyped DEF Typed, LevelsTyped, LevelPCs, ProdTyped
<1>3. GrammarTyped'
  BY <1>0, EmptyGrammarTyped DEF Typed, GrammarTyped, LastPCs
<1>4. MemoryTyped'
  <2>1. \E S : live' = live \ S
    BY DEF NoProduction
  <2> QED BY <1>0, <2>1, FreeTyped
<1>5. Phases'
  BY <1>0 DEF Phases, LevelPCs, ParamPCs
<1> QED BY <1>1, <1>2, <1>3, <1>4, <1>5 DEF Typed

\* The first of the factors that still hold the name of a rule.
LEMMA NextUnlinkedIs ==
  ASSUME grammar \in Seq(ProdSet(NodeSet)), Unlinked # {}
  PROVE  \E i \in DOMAIN grammar : \E k \in DOMAIN grammar[i].exprs :
           NextUnlinked = <<i, k>> /\ grammar[i].exprs[k].type = "FACT_RULE"
<1> DEFINE T == { i \in DOMAIN grammar : \E k \in DOMAIN grammar[i].exprs :
                                           grammar[i].exprs[k].type = "FACT_RULE" }
<1>1. \A u \in Unlinked : \E i \in DOMAIN grammar : \E k \in DOMAIN grammar[i].exprs :
        u = <<i, k>> /\ grammar[i].exprs[k].type = "FACT_RULE"
  <2> SUFFICES ASSUME NEW u \in Unlinked
               PROVE  \E i \in DOMAIN grammar : \E k \in DOMAIN grammar[i].exprs :
                        u = <<i, k>> /\ grammar[i].exprs[k].type = "FACT_RULE"
    OBVIOUS
  <2>1. PICK i \in DOMAIN grammar :
          u \in {<<i, k>> : k \in {k \in DOMAIN grammar[i].exprs : grammar[i].exprs[k].type = "FACT_RULE"}}
    BY Zenon DEF Unlinked
  <2> QED BY <2>1
<1>2. ASSUME NEW i \in DOMAIN grammar, NEW k \in DOMAIN grammar[i].exprs,
             grammar[i].exprs[k].type = "FACT_RULE"
      PROVE  <<i, k>> \in Unlinked
  BY <1>2 DEF Unlinked
<1>3. T # {} /\ T \subseteq Nat
  <2>1. DOMAIN grammar \subseteq Nat
    <3>1. DOMAIN grammar = 1 .. Len(grammar) /\ Len(grammar) \in Nat
      BY LenProperties
    <3> QED BY <3>1
  <2>2. T \subseteq DOMAIN grammar
    OBVIOUS
  <2>3. T # {}
    BY <1>1
  <2> QED BY <2>1, <2>2, <2>3
<1> HIDE DEF T
<1>4. PICK i \in T : \A j \in T : i <= j
  BY <1>3, LeastNatural
<1>5. i \in DOMAIN grammar /\ i \in Nat
  BY <1>3, <1>4 DEF T
<1> DEFINE K == { k \in DOMAIN grammar[i].exprs : grammar[i].exprs[k].type = "FACT_RULE" }
<1>6. K # {} /\ K \subseteq Nat
  <2>1. grammar[i] \in ProdSet(NodeSet)
    BY <1>5, ElementOfSeq, LenProperties
  <2>2. grammar[i].exprs \in Seq(NodeSet)
    BY <2>1, ProdFields
  <2>3. DOMAIN grammar[i].exprs \subseteq Nat
    <3>1. DOMAIN grammar[i].exprs = 1 .. Len(grammar[i].exprs) /\ Len(grammar[i].exprs) \in Nat
      BY <2>2, LenProperties
    <3> QED BY <3>1
  <2>4. K \subseteq DOMAIN grammar[i].exprs
    OBVIOUS
  <2>5. K # {}
    BY <1>4 DEF T
  <2> QED BY <2>3, <2>4, <2>5
<1> HIDE DEF K
<1>7. PICK k \in K : \A m \in K : k <= m
  BY <1>6, LeastNatural
<1>8. k \in DOMAIN grammar[i].exprs /\ grammar[i].exprs[k].type = "FACT_RULE" /\ k \in Nat
  BY <1>6, <1>7 DEF K
<1>9. <<i, k>> \in Unlinked
  BY <1>2, <1>5, <1>8
<1>10. ASSUME NEW v \in Unlinked
       PROVE  <<i, k>>[1] < v[1] \/ (<<i, k>>[1] = v[1] /\ <<i, k>>[2] <= v[2])
  <2>1. PICK j \in DOMAIN grammar : \E m \in DOMAIN grammar[j].exprs :
          v = <<j, m>> /\ grammar[j].exprs[m].type = "FACT_RULE"
    BY <1>1
  <2>2. PICK m \in DOMAIN grammar[j].exprs : v = <<j, m>> /\ grammar[j].exprs[m].type = "FACT_RULE"
    BY <2>1
  <2>3. j \in T /\ j \in Nat /\ i <= j
    <3>1. j \in T
      BY <2>2 DEF T
    <3> QED BY <1>3, <1>4, <3>1
  <2>4. CASE i = j
    <3>1. m \in K
      BY <2>2, <2>4 DEF K
    <3> QED BY <1>7, <2>2, <2>4, <3>1
  <2>5. CASE i # j
    BY <1>5, <2>2, <2>3, <2>5
  <2> QED BY <2>4, <2>5
<1>11. ASSUME NEW u \in Unlinked,
              \A v \in Unlinked : u[1] < v[1] \/ (u[1] = v[1] /\ u[2] <= v[2])
       PROVE  \E a \in DOMAIN grammar : \E b \in DOMAIN grammar[a].exprs :
                u = <<a, b>> /\ grammar[a].exprs[b].type = "FACT_RULE"
  BY <1>1
<1>12. \E u \in Unlinked : \A v \in Unlinked : u[1] < v[1] \/ (u[1] = v[1] /\ u[2] <= v[2])
  BY <1>9, <1>10
<1>13. NextUnlinked \in Unlinked
  BY <1>12, Zenon DEF NextUnlinked
<1> QED BY <1>1, <1>13

\* A factor that is linked, and the grammar with it.
Linked(f, x) == [f EXCEPT !.type = "FACT_RULE_LINKED", !.target = x]
WithExprs(p, es) == [p EXCEPT !.exprs = es]
LinkTarget(i, k) == _seek_target(Last(grammar[i].exprs[k].text))
LinkedExprs(i, k) == [grammar[i].exprs EXCEPT ![k] = Linked(grammar[i].exprs[k], LinkTarget(i, k))]
LinkedGrammar(i, k) == [grammar EXCEPT ![i] = WithExprs(grammar[i], LinkedExprs(i, k))]

\* What a step of _link_target does to the factor it is at.
Links(i, k) ==
  LET name == grammar[i].exprs[k].target IN
  /\ grammar[i].exprs[k].type = "FACT_RULE"
  /\ \/ /\ LinkTarget(i, k) # NULL /\ grammar' = LinkedGrammar(i, k) /\ pc' = pc
        /\ live' = live \ {name}
     \/ /\ LinkTarget(i, k) = NULL /\ grammar' = <<>> /\ pc' = "done"
        /\ live' = live \ ({name} \cup GrammarBlocks(LinkedGrammar(i, k)))

LEMMA LinkIs ==
  ASSUME grammar \in Seq(ProdSet(NodeSet)), Link
  PROVE  \/ Unlinked = {} /\ pc' = "done" /\ UNCHANGED <<grammar, live>>
         \/ \E i \in DOMAIN grammar : \E k \in DOMAIN grammar[i].exprs : Links(i, k)
<1>1. CASE Unlinked # {}
  <2>1. PICK i \in DOMAIN grammar : \E k \in DOMAIN grammar[i].exprs :
          NextUnlinked = <<i, k>> /\ grammar[i].exprs[k].type = "FACT_RULE"
    BY <1>1, NextUnlinkedIs
  <2>2. PICK k \in DOMAIN grammar[i].exprs :
          NextUnlinked = <<i, k>> /\ grammar[i].exprs[k].type = "FACT_RULE"
    BY <2>1
  <2>3. LET u == NextUnlinked
            fact == grammar[u[1]].exprs[u[2]]
            target == _seek_target(Last(fact.text))
            linked == [grammar EXCEPT ![u[1]].exprs[u[2]] =
                         [@ EXCEPT !.type = "FACT_RULE_LINKED", !.target = target]]
        IN IF target # NULL
             THEN /\ live' = live \ {fact.target}
                  /\ grammar' = linked /\ UNCHANGED pc
             ELSE /\ live' = live \ ({fact.target} \cup GrammarBlocks(linked))
                  /\ grammar' = <<>> /\ pc' = "done"
    BY <1>1, Zenon DEF Link
  <2>4. NextUnlinked[1] = i /\ NextUnlinked[2] = k
    BY <2>2
  <2> DEFINE fact == grammar[i].exprs[k]
             linked == [grammar EXCEPT ![i].exprs[k] =
                          [@ EXCEPT !.type = "FACT_RULE_LINKED", !.target = LinkTarget(i, k)]]
  <2>5. IF LinkTarget(i, k) # NULL
          THEN live' = live \ {fact.target} /\ grammar' = linked /\ pc' = pc
          ELSE /\ live' = live \ ({fact.target} \cup GrammarBlocks(linked))
               /\ grammar' = <<>> /\ pc' = "done"
    BY <2>3, <2>4, Zenon DEF LinkTarget
  <2>6. linked = LinkedGrammar(i, k)
    BY DEF LinkedGrammar, LinkedExprs, WithExprs, Linked
  <2> HIDE DEF linked
  <2>7. Links(i, k)
    BY <2>2, <2>5, <2>6 DEF Links
  <2> QED BY <2>7
<1>2. CASE Unlinked = {}
  BY <1>2 DEF Link
<1> QED BY <1>1, <1>2

\* _seek_target finds the first production of a name.
LEMMA SeekTargetIs ==
  ASSUME grammar \in Seq(ProdSet(NodeSet)), NEW id, _seek_target(id) # NULL
  PROVE  \E j \in DOMAIN grammar :
           /\ grammar[j].block = _seek_target(id) /\ grammar[j].name = id
           /\ \A h \in 1 .. j - 1 : grammar[h].name # id
<1> DEFINE T == { j \in 1 .. Len(grammar) : grammar[j].name = id }
           n == SelectInSeq(grammar, LAMBDA p : p.name = id)
<1>1. n = IF T # {} THEN Min(T) ELSE 0
  BY DEF SelectInSeq
<1>2. _seek_target(id) = IF n = 0 THEN NULL ELSE grammar[n].block
  BY DEF _seek_target
<1>l. Len(grammar) \in Nat /\ DOMAIN grammar = 1 .. Len(grammar)
  BY LenProperties
<1>3. T \subseteq Nat
  <2>1. T \subseteq 1 .. Len(grammar) /\ 1 .. Len(grammar) \subseteq Nat
    BY <1>l
  <2> QED BY <2>1
<1> HIDE DEF n
<1>4. T # {}
  BY <1>1, <1>2
<1>5. \E m \in T : \A k \in T : m <= k
  <2> HIDE DEF T
  <2> QED BY <1>3, <1>4, LeastNatural
<1>6. Min(T) \in T /\ \A k \in T : Min(T) <= k
  <2> HIDE DEF T
  <2> QED BY <1>5, Zenon DEF Min
<1>7. n \in T /\ \A k \in T : n <= k
  BY <1>1, <1>4, <1>6
<1>8. n \in DOMAIN grammar /\ n \in Nat /\ grammar[n].name = id /\ n # 0
  BY <1>7, <1>l
<1>9. ASSUME NEW h \in 1 .. n - 1 PROVE grammar[h].name # id
  <2>1. h \in 1 .. Len(grammar) /\ ~(n <= h)
    <3>l. Len(grammar) \in Nat
      BY <1>l
    <3>1. PICK l \in Nat : l = Len(grammar)
      BY <3>l
    <3>2. n \in 1 .. l /\ h \in 1 .. n - 1
      BY <1>7, <3>1
    <3> QED BY <3>1, <3>2
  <2> QED BY <1>7, <2>1
<1>10. grammar[n].block = _seek_target(id)
  BY <1>2, <1>8
<1> QED BY <1>8, <1>9, <1>10

LEMMA GrammarFields ==
  ASSUME Typed, NEW i \in DOMAIN grammar
  PROVE  /\ grammar \in Seq(ProdSet(NodeSet)) /\ grammar[i] \in ProdSet(NodeSet)
         /\ grammar[i].exprs \in Seq(NodeSet) /\ grammar[i].params \in Seq(ParamSet)
         /\ grammar[i].block \in Nat \ {NULL} /\ grammar[i].identifier \in Nat \ {NULL}
         /\ \A k \in DOMAIN grammar[i].exprs : grammar[i].exprs[k] \in NodeSet
<1>1. grammar \in Seq(ProdSet(NodeSet)) /\ grammar[i].block # NULL /\ grammar[i].identifier # NULL
  BY DEF Typed, GrammarTyped
<1>2. grammar[i] \in ProdSet(NodeSet)
  BY <1>1, ElementOfSeq, LenProperties
<1>3. /\ grammar[i].exprs \in Seq(NodeSet) /\ grammar[i].params \in Seq(ParamSet)
      /\ grammar[i].block \in Nat /\ grammar[i].identifier \in Nat
  BY <1>2, ProdFields
<1>4. \A k \in DOMAIN grammar[i].exprs : grammar[i].exprs[k] \in NodeSet
  BY <1>3, ElementOfSeq, LenProperties
<1> QED BY <1>1, <1>2, <1>3, <1>4

LEMMA LinkedNode ==
  ASSUME NEW f \in NodeSet, NEW x \in Nat
  PROVE  /\ Linked(f, x) \in NodeSet /\ Linked(f, x).type = "FACT_RULE_LINKED"
         /\ Linked(f, x).block = f.block /\ Linked(f, x).target = x /\ Linked(f, x).text = f.text
<1> DEFINE R == [type : NodeTypes, text : Seq(Shown), block : Nat, target : Nat]
<1>1. f \in R
  BY DEF NodeSet
<1>2. "FACT_RULE_LINKED" \in NodeTypes
  BY DEF NodeTypes
<1>3. /\ Linked(f, x) \in R /\ Linked(f, x).type = "FACT_RULE_LINKED"
      /\ Linked(f, x).block = f.block /\ Linked(f, x).target = x /\ Linked(f, x).text = f.text
  BY <1>1, <1>2 DEF Linked
<1> QED BY <1>3 DEF NodeSet

LEMMA LinkTargetTyped ==
  ASSUME Typed, NEW id
  PROVE  _seek_target(id) \in Nat
<1>1. CASE _seek_target(id) = NULL
  BY <1>1 DEF NULL
<1>2. CASE _seek_target(id) # NULL
  <2>1. grammar \in Seq(ProdSet(NodeSet))
    BY DEF Typed, GrammarTyped
  <2>2. PICK j \in DOMAIN grammar : grammar[j].block = _seek_target(id)
    BY <1>2, <2>1, SeekTargetIs
  <2> QED BY <2>2, GrammarFields
<1> QED BY <1>1, <1>2

\* Another sequence of expressions in one production.
LEMMA ExprsReplaced ==
  ASSUME NEW p \in ProdSet(NodeSet), NEW es \in Seq(NodeSet)
  PROVE  /\ WithExprs(p, es) \in ProdSet(NodeSet) /\ WithExprs(p, es).exprs = es
         /\ WithExprs(p, es).block = p.block /\ WithExprs(p, es).identifier = p.identifier
         /\ WithExprs(p, es).params = p.params /\ WithExprs(p, es).name = p.name
  BY DEF WithExprs, ProdSet

\* Linking a factor changes nothing else of the grammar.
LEMMA LinkedGrammarIs ==
  ASSUME Typed, NEW i \in DOMAIN grammar, NEW k \in DOMAIN grammar[i].exprs
  PROVE  /\ LinkedExprs(i, k) \in Seq(NodeSet)
         /\ DOMAIN LinkedExprs(i, k) = DOMAIN grammar[i].exprs
         /\ \A m \in DOMAIN grammar[i].exprs :
              LinkedExprs(i, k)[m] = IF m = k THEN Linked(grammar[i].exprs[k], LinkTarget(i, k))
                                              ELSE grammar[i].exprs[m]
         /\ WithExprs(grammar[i], LinkedExprs(i, k)) \in ProdSet(NodeSet)
         /\ LinkedGrammar(i, k) \in Seq(ProdSet(NodeSet))
         /\ DOMAIN LinkedGrammar(i, k) = DOMAIN grammar
         /\ \A j \in DOMAIN grammar :
              LinkedGrammar(i, k)[j] = IF j = i THEN WithExprs(grammar[i], LinkedExprs(i, k))
                                                ELSE grammar[j]
<1>1. /\ grammar[i] \in ProdSet(NodeSet) /\ grammar[i].exprs \in Seq(NodeSet)
      /\ grammar[i].exprs[k] \in NodeSet /\ grammar \in Seq(ProdSet(NodeSet))
  BY GrammarFields
<1>2. Linked(grammar[i].exprs[k], LinkTarget(i, k)) \in NodeSet
  BY <1>1, LinkTargetTyped, LinkedNode DEF LinkTarget
<1> DEFINE s == grammar[i].exprs
           n == Linked(grammar[i].exprs[k], LinkTarget(i, k))
<1>3. LinkedExprs(i, k) = [s EXCEPT ![k] = n] /\ s \in Seq(NodeSet) /\ n \in NodeSet /\ k \in DOMAIN s
  BY <1>1, <1>2 DEF LinkedExprs
<1> HIDE DEF s, n
<1>4. /\ LinkedExprs(i, k) \in Seq(NodeSet) /\ DOMAIN LinkedExprs(i, k) = DOMAIN s
      /\ \A m \in DOMAIN s : LinkedExprs(i, k)[m] = IF m = k THEN n ELSE s[m]
  <2>1. k \in 1 .. Len(s) /\ DOMAIN s = 1 .. Len(s)
    BY <1>3, LenProperties
  <2>2. /\ [s EXCEPT ![k] = n] \in Seq(NodeSet) /\ Len([s EXCEPT ![k] = n]) = Len(s)
    BY <1>3, <2>1, ExceptSeq
  <2> QED BY <1>3, <2>1, <2>2
<1>5. WithExprs(grammar[i], LinkedExprs(i, k)) \in ProdSet(NodeSet)
  BY <1>1, <1>4, ExprsReplaced
<1> DEFINE p == WithExprs(grammar[i], LinkedExprs(i, k))
<1>6. LinkedGrammar(i, k) = [grammar EXCEPT ![i] = p] /\ p \in ProdSet(NodeSet)
  BY <1>5 DEF LinkedGrammar
<1> HIDE DEF p
<1>7. /\ LinkedGrammar(i, k) \in Seq(ProdSet(NodeSet)) /\ DOMAIN LinkedGrammar(i, k) = DOMAIN grammar
      /\ \A j \in DOMAIN grammar : LinkedGrammar(i, k)[j] = IF j = i THEN p ELSE grammar[j]
  <2>1. i \in 1 .. Len(grammar) /\ DOMAIN grammar = 1 .. Len(grammar)
    BY <1>1, LenProperties
  <2>2. /\ [grammar EXCEPT ![i] = p] \in Seq(ProdSet(NodeSet))
        /\ Len([grammar EXCEPT ![i] = p]) = Len(grammar)
    BY <1>1, <1>6, <2>1, ExceptSeq
  <2> QED BY <1>6, <2>1, <2>2
<1> QED BY <1>4, <1>5, <1>7 DEF s, n, p

LEMMA LinkTyped ==
  ASSUME Typed, Phases, Link PROVE Typed' /\ Phases'
<1>0. pc = "link" /\ UNCHANGED <<text, pos, eof, e, prod, levels, failures>>
  BY DEF Link
<1>g. grammar \in Seq(ProdSet(NodeSet))
  BY DEF Typed, GrammarTyped
<1>1. StreamTyped' /\ ProdTyped'
  BY <1>0 DEF Typed, StreamTyped, ProdTyped
<1>2. ASSUME pc' \in {"link", "done"} PROVE ControlTyped' /\ LevelsTyped' /\ Phases'
  <2>1. ControlTyped' /\ LevelsTyped'
    BY <1>0, <1>2 DEF Typed, ControlTyped, LevelsTyped, PCs, LevelPCs, LastPCs
  <2>2. Phases'
    BY <1>0, <1>2 DEF Phases, LevelPCs, ParamPCs
  <2> QED BY <2>1, <2>2
<1>3. CASE Unlinked = {} /\ pc' = "done" /\ UNCHANGED <<grammar, live>>
  <2>1. GrammarTyped' /\ MemoryTyped'
    BY <1>0, <1>3 DEF Typed, GrammarTyped, MemoryTyped, LastPCs
  <2> QED BY <1>1, <1>2, <1>3, <2>1 DEF Typed
<1>4. CASE \E i \in DOMAIN grammar : \E k \in DOMAIN grammar[i].exprs : Links(i, k)
  <2>1. PICK i \in DOMAIN grammar : \E k \in DOMAIN grammar[i].exprs : Links(i, k)
    BY <1>4
  <2>2. PICK k \in DOMAIN grammar[i].exprs : Links(i, k)
    BY <2>1
  <2>3. MemoryTyped'
    <3>1. \E S : live' = live \ S
      BY <2>2 DEF Links
    <3> QED BY <1>0, <3>1, FreeTyped
  <2>4. GrammarTyped' /\ pc' \in {"link", "done"}
    <3>1. CASE grammar' = LinkedGrammar(i, k) /\ pc' = pc
      <4>1. grammar' \in Seq(ProdSet(NodeSet)) /\ pc' \in LastPCs
        BY <1>0, <3>1, LinkedGrammarIs DEF LastPCs
      <4>2. ASSUME NEW j \in DOMAIN grammar' PROVE grammar'[j].block # NULL /\ grammar'[j].identifier # NULL
        <5>1. j \in DOMAIN grammar /\ grammar'[j] = IF j = i THEN WithExprs(grammar[i], LinkedExprs(i, k))
                                                             ELSE grammar[j]
          BY <3>1, <4>2, LinkedGrammarIs
        <5>2. grammar[i] \in ProdSet(NodeSet) /\ LinkedExprs(i, k) \in Seq(NodeSet)
          BY GrammarFields, LinkedGrammarIs
        <5>3. grammar'[j].block = grammar[j].block /\ grammar'[j].identifier = grammar[j].identifier
          BY <5>1, <5>2, ExprsReplaced
        <5> QED BY <5>1, <5>3, GrammarFields
      <4> QED BY <1>0, <3>1, <4>1, <4>2 DEF GrammarTyped
    <3>2. CASE grammar' = <<>> /\ pc' = "done"
      BY <3>2, EmptyGrammarTyped DEF GrammarTyped
    <3> QED BY <2>2, <3>1, <3>2 DEF Links
  <2> QED BY <1>1, <1>2, <2>3, <2>4 DEF Typed
<1> QED BY <1>3, <1>4, <1>g, LinkIs

LEMMA FreeBNFTyped ==
  ASSUME Typed, Phases, FreeBNF PROVE Typed' /\ Phases'
<1>0. /\ pc = "done" /\ pc' = "end" /\ grammar' = <<>> /\ live' = live \ GrammarBlocks(grammar)
      /\ UNCHANGED <<text, pos, eof, e, prod, levels, failures>>
  BY DEF FreeBNF
<1>1. StreamTyped' /\ ProdTyped' /\ MemoryTyped'
  BY <1>0, FreeTyped DEF Typed, StreamTyped, ProdTyped
<1>2. ControlTyped' /\ LevelsTyped'
  BY <1>0 DEF Typed, ControlTyped, LevelsTyped, PCs, LevelPCs, LastPCs
<1>3. GrammarTyped'
  BY <1>0, EmptyGrammarTyped DEF GrammarTyped
<1>4. Phases'
  BY <1>0 DEF Phases, LevelPCs, ParamPCs
<1> QED BY <1>1, <1>2, <1>3, <1>4 DEF Typed

LEMMA StutterTyped ==
  ASSUME Typed, Phases, UNCHANGED vars PROVE Typed' /\ Phases'
<1> USE DEF vars
<1>1. StreamTyped' /\ ControlTyped' /\ ProdTyped' /\ LevelsTyped' /\ GrammarTyped' /\ MemoryTyped'
  BY DEF Typed, StreamTyped, ControlTyped, ProdTyped, LevelsTyped, GrammarTyped, MemoryTyped
<1>2. Level' = Level /\ Front(levels)' = Front(levels)
  BY DEF Level
<1> HIDE DEF Level
<1>3. Phases'
  BY <1>2 DEF Phases
<1> QED BY <1>1, <1>3 DEF Typed

LEMMA InitTyped ==
  ASSUME Init PROVE Typed /\ Phases
<1>1. StreamTyped
  <2>1. text \in Texts /\ Len(text) \in Nat /\ pos = 0 /\ eof = FALSE
    BY TextIsSeq DEF Init
  <2>2. PICK l \in Nat : l = Len(text)
    BY <2>1
  <2>3. 0 \in 0 .. l
    OBVIOUS
  <2>4. pos \in 0 .. Len(text) /\ eof \in BOOLEAN
    BY <2>1, <2>2, <2>3
  <2> QED BY <2>1, <2>4 DEF StreamTyped
<1>2. ControlTyped /\ LevelsTyped
  BY DEF Init, ControlTyped, LevelsTyped, PCs, LevelPCs
<1>3. ProdTyped
  BY NoProdTyped DEF Init, ProdTyped
<1>4. GrammarTyped
  BY EmptyGrammarTyped DEF Init, GrammarTyped
<1>5. MemoryTyped
  <2>1. live = {} /\ failures = MaxFailures /\ MaxFailures \in Nat
    BY BnfReaderAssumption DEF Init
  <2>2. IsFiniteSet({})
    BY FS_EmptySet
  <2> QED BY <2>1, <2>2 DEF MemoryTyped
<1>6. Phases
  BY DEF Init, Phases, LevelPCs, ParamPCs
<1> QED BY <1>1, <1>2, <1>3, <1>4, <1>5, <1>6 DEF Typed

LEMMA StepTyped ==
  ASSUME Typed, Phases, [Next]_vars PROVE Typed' /\ Phases'
<1> HIDE DEF Typed, Phases
<1>1. CASE Begin \/ ReadName \/ ReadParams \/ ReadParam \/ ReadParamNext \/ ReadParamEnd
  BY <1>1, BeginTyped, ReadNameTyped, ReadParamsTyped, ReadParamTyped, ReadParamNextTyped, ReadParamEndTyped
<1>2. CASE ReadRule \/ ReadRuleEnd
  BY <1>2, ReadRuleTyped, ReadRuleEndTyped
<1>3. CASE ReadAlternative \/ ReadBuiltin \/ ReadOperand \/ OpenCouple \/ NotAFactor
  BY <1>3, ReadAlternativeTyped, ReadBuiltinTyped, ReadOperandTyped, OpenCoupleTyped, NotAFactorTyped
<1>4. CASE NoFactor \/ ReadOr \/ NoAlternative \/ CloseCouple \/ NotClosed \/ NoFeed
  BY <1>4, NoFactorTyped, ReadOrTyped, NoAlternativeTyped, CloseCoupleTyped, NotClosedTyped, NoFeedTyped
<1>5. CASE NoProduction \/ Link \/ FreeBNF
  BY <1>5, NoProductionTyped, LinkTyped, FreeBNFTyped
<1>6. CASE Finished \/ UNCHANGED vars
  BY <1>6, StutterTyped DEF Finished
<1> QED BY <1>1, <1>2, <1>3, <1>4, <1>5, <1>6 DEF Next

LEMMA TypedAlways == Spec => [](Typed /\ Phases)
<1>1. Init => Typed /\ Phases
  BY InitTyped
<1>2. (Typed /\ Phases) /\ [Next]_vars => (Typed /\ Phases)'
  BY StepTyped
<1> QED BY <1>1, <1>2, PTL DEF Spec

\* The reader is well-typed at every moment: it stands within its text, a level is
\* being read exactly while an expression is, only read_prodloop's productions
\* have blocks of their own, and what is in use are blocks.
THEOREM Typing == Spec => []TypeOK
<1>1. Typed /\ Phases => TypeOK
  <2> SUFFICES ASSUME Typed PROVE TypeOK
    OBVIOUS
  <2>1. pos \in 0 .. Len(text) /\ eof \in BOOLEAN /\ e \in {ERR_NONE, ERR_MEMORY_ALLOC, ERRBNF_SYNTAX}
    BY DEF Typed, StreamTyped, ControlTyped
  <2>2. pc \in {"begin", "production", "params", "param", "param_next", "param_end", "rule",
                "alternative", "factor", "operand", "no_factor", "or", "no_alternative", "close",
                "rule_end", "no_production", "link", "done", "end"}
    BY DEF Typed, ControlTyped, PCs, LevelPCs, ParamPCs, LastPCs
  <2>3. (levels # <<>>) <=> pc \in {"alternative", "factor", "operand", "no_factor", "or",
                                    "no_alternative", "close"}
    BY DEF Typed, LevelsTyped, LevelPCs
  <2>4. /\ prod.block = NULL
        /\ \A i \in DOMAIN grammar : grammar[i].block # NULL /\ grammar[i].identifier # NULL
        /\ live \subseteq Nat \ {NULL} /\ failures \in 0 .. MaxFailures
    BY DEF Typed, ProdTyped, GrammarTyped, MemoryTyped
  <2> QED BY <2>1, <2>2, <2>3, <2>4 DEF TypeOK
<1> QED BY <1>1, TypedAlways, PTL

-----------------------------------------------------------------------------
(* Who points to which block *)

NodeF == [n \in NodeSet |-> NodeBlocks(n)]
ParamF == [p \in ParamSet |-> p.blocks]
ProdF == [p \in ProdSet(NodeSet) |-> ProdBlocks(p)]

NodesApart(s) == Apart(NodeF, s)
ParamsApart(s) == Apart(ParamF, s)

\* What a level points to itself, and with its nodes.
Own(l) == {l.expr, l.fact} \ {NULL}
LevelBlocks(l) == Own(l) \cup Rule(l.target) \cup Rule(l.facts)
LevelF == [l \in LevelSet |-> LevelBlocks(l)]
LevelApart(l) ==
  /\ NodesApart(l.target) /\ NodesApart(l.facts) /\ Rule(l.target) \cap Rule(l.facts) = {}
  /\ Own(l) \cap (Rule(l.target) \cup Rule(l.facts)) = {}
  /\ l.expr = l.fact => l.expr = NULL

\* The blocks of a production itself.
Heads(p) == {p.block, p.identifier} \ {NULL}
ProdApart(p) ==
  /\ NodesApart(p.exprs) /\ ParamsApart(p.params) /\ Rule(p.exprs) \cap ParamBlocks(p.params) = {}
  /\ Heads(p) \cap (Rule(p.exprs) \cup ParamBlocks(p.params)) = {}
  /\ p.block = p.identifier => p.block = NULL

LevelsBlocks(ls) == Gathered(LevelF, ls)
LevelsApart(ls) == Apart(LevelF, ls) /\ \A i \in DOMAIN ls : LevelApart(ls[i])
GrammarApart(g) == Apart(ProdF, g) /\ \A i \in DOMAIN g : ProdApart(g[i])

\* Three sets of blocks have nothing in common, are in use, and but for what is
\* lost are all that is in use.
InUse(lost, G, P, L, M) ==
  /\ G \cap P = {} /\ G \cap L = {} /\ P \cap L = {}
  /\ G \subseteq M /\ P \subseteq M /\ L \subseteq M
  /\ lost \/ M \subseteq G \cup P \cup L

\* The inductive form of HeldOnce and NothingLeaks.
Owned ==
  /\ GrammarApart(grammar) /\ ProdApart(prod) /\ LevelsApart(levels)
  /\ InUse(CoupleWithoutOperator, GrammarBlocks(grammar), ProdBlocks(prod), LevelsBlocks(levels), live)

LEMMA RuleIs ==
  ASSUME NEW s \in Seq(NodeSet)
  PROVE  Rule(s) = Gathered(NodeF, s)
<1>1. \A i \in DOMAIN s : NodeF[s[i]] = NodeBlocks(s[i])
  <2>1. \A i \in DOMAIN s : s[i] \in NodeSet
    BY ElementOfSeq, LenProperties
  <2> QED BY <2>1 DEF NodeF
<1>2. \A x : x \in Gathered(NodeF, s) <=> \E i \in DOMAIN s : x \in NodeF[s[i]]
  BY GatheredIs
<1>3. \A x : x \in Rule(s) <=> \E i \in DOMAIN s : x \in NodeBlocks(s[i])
  BY DEF Rule
<1>4. \A x : x \in Rule(s) <=> x \in Gathered(NodeF, s)
  BY <1>1, <1>2, <1>3
<1> QED BY <1>4

LEMMA RuleEmpty == Rule(<<>>) = {} /\ NodesApart(<<>>)
  BY RuleIs, EmptyApart, EmptySeq DEF NodesApart

LEMMA RuleOne ==
  ASSUME NEW n \in NodeSet
  PROVE  <<n>> \in Seq(NodeSet) /\ Rule(<<n>>) = NodeBlocks(n) /\ NodesApart(<<n>>)
<1>1. <<n>> \in Seq(NodeSet) /\ NodeF[n] = NodeBlocks(n)
  BY DEF NodeF
<1>2. Gathered(NodeF, <<n>>) = NodeF[n] /\ Apart(NodeF, <<n>>)
  BY OneApart
<1> QED BY <1>1, <1>2, RuleIs DEF NodesApart

LEMMA RuleConcat ==
  ASSUME NEW s \in Seq(NodeSet), NEW t \in Seq(NodeSet)
  PROVE  /\ s \o t \in Seq(NodeSet) /\ Rule(s \o t) = Rule(s) \cup Rule(t)
         /\ NodesApart(s \o t) <=> NodesApart(s) /\ NodesApart(t) /\ Rule(s) \cap Rule(t) = {}
<1>1. s \o t \in Seq(NodeSet)
  BY ConcatProperties
<1>2. /\ Gathered(NodeF, s \o t) = Gathered(NodeF, s) \cup Gathered(NodeF, t)
      /\ Apart(NodeF, s \o t) <=> /\ Apart(NodeF, s) /\ Apart(NodeF, t)
                                  /\ Gathered(NodeF, s) \cap Gathered(NodeF, t) = {}
  BY ConcatApart, Zenon
<1>3. Rule(s) = Gathered(NodeF, s) /\ Rule(t) = Gathered(NodeF, t)
  BY RuleIs
<1>4. Rule(s \o t) = Gathered(NodeF, s \o t)
  BY <1>1, RuleIs
<1> QED BY <1>1, <1>2, <1>3, <1>4 DEF NodesApart

LEMMA ParamBlocksIs ==
  ASSUME NEW s \in Seq(ParamSet)
  PROVE  ParamBlocks(s) = Gathered(ParamF, s)
<1>1. \A i \in DOMAIN s : ParamF[s[i]] = s[i].blocks
  <2>1. \A i \in DOMAIN s : s[i] \in ParamSet
    BY ElementOfSeq, LenProperties
  <2> QED BY <2>1 DEF ParamF
<1>2. \A x : x \in Gathered(ParamF, s) <=> \E i \in DOMAIN s : x \in ParamF[s[i]]
  BY GatheredIs
<1>3. \A x : x \in ParamBlocks(s) <=> \E i \in DOMAIN s : x \in s[i].blocks
  BY DEF ParamBlocks
<1>4. \A x : x \in ParamBlocks(s) <=> x \in Gathered(ParamF, s)
  BY <1>1, <1>2, <1>3
<1> QED BY <1>4

LEMMA ParamsEmpty == ParamBlocks(<<>>) = {} /\ ParamsApart(<<>>)
  BY ParamBlocksIs, EmptyApart, EmptySeq DEF ParamsApart

LEMMA ParamsAppend ==
  ASSUME NEW s \in Seq(ParamSet), NEW p \in ParamSet
  PROVE  /\ Append(s, p) \in Seq(ParamSet) /\ ParamBlocks(Append(s, p)) = ParamBlocks(s) \cup p.blocks
         /\ ParamsApart(Append(s, p)) <=> ParamsApart(s) /\ ParamBlocks(s) \cap p.blocks = {}
<1>1. Append(s, p) \in Seq(ParamSet) /\ ParamF[p] = p.blocks
  BY AppendProperties DEF ParamF
<1>2. /\ Gathered(ParamF, Append(s, p)) = Gathered(ParamF, s) \cup ParamF[p]
      /\ Apart(ParamF, Append(s, p)) <=> Apart(ParamF, s) /\ Gathered(ParamF, s) \cap ParamF[p] = {}
  BY AppendApart, Zenon
<1>3. /\ ParamBlocks(s) = Gathered(ParamF, s)
      /\ ParamBlocks(Append(s, p)) = Gathered(ParamF, Append(s, p))
  BY <1>1, ParamBlocksIs
<1> QED BY <1>1, <1>2, <1>3 DEF ParamsApart

LEMMA LevelsAppend ==
  ASSUME NEW ls \in Seq(LevelSet), NEW l \in LevelSet
  PROVE  /\ LevelsBlocks(Append(ls, l)) = LevelsBlocks(ls) \cup LevelBlocks(l)
         /\ LevelsApart(Append(ls, l)) <=> /\ LevelsApart(ls) /\ LevelApart(l)
                                           /\ LevelsBlocks(ls) \cap LevelBlocks(l) = {}
<1>1. LevelF[l] = LevelBlocks(l)
  BY DEF LevelF
<1>2. /\ Gathered(LevelF, Append(ls, l)) = Gathered(LevelF, ls) \cup LevelF[l]
      /\ Apart(LevelF, Append(ls, l)) <=> Apart(LevelF, ls) /\ Gathered(LevelF, ls) \cap LevelF[l] = {}
  BY AppendApart, Zenon
<1>3. (\A i \in DOMAIN Append(ls, l) : LevelApart(Append(ls, l)[i]))
        <=> (\A i \in DOMAIN ls : LevelApart(ls[i])) /\ LevelApart(l)
  <2>l. Len(ls) \in Nat
    BY LenProperties
  <2>1. PICK n \in Nat : n = Len(ls)
    BY <2>l
  <2>2. /\ DOMAIN ls = 1 .. n /\ DOMAIN Append(ls, l) = 1 .. n + 1
        /\ \A i \in 1 .. n : Append(ls, l)[i] = ls[i]
        /\ Append(ls, l)[n + 1] = l
    BY <2>1, AppendProperties, LenProperties
  <2>3. \A i \in 1 .. n + 1 : i \in 1 .. n \/ i = n + 1
    OBVIOUS
  <2>4. n + 1 \in 1 .. n + 1 /\ \A i \in 1 .. n : i \in 1 .. n + 1
    OBVIOUS
  <2>5. ASSUME \A i \in 1 .. n : LevelApart(ls[i]), LevelApart(l), NEW i \in 1 .. n + 1
        PROVE  LevelApart(Append(ls, l)[i])
    BY <2>2, <2>3, <2>5
  <2>6. ASSUME \A i \in 1 .. n + 1 : LevelApart(Append(ls, l)[i])
        PROVE  (\A i \in 1 .. n : LevelApart(ls[i])) /\ LevelApart(l)
    <3>1. LevelApart(l)
      BY <2>2, <2>4, <2>6
    <3>2. ASSUME NEW i \in 1 .. n PROVE LevelApart(ls[i])
      BY <2>2, <2>4, <2>6
    <3> QED BY <3>1, <3>2
  <2> QED BY <2>2, <2>5, <2>6
<1> QED BY <1>1, <1>2, <1>3 DEF LevelsBlocks, LevelsApart

LEMMA NoLevels == LevelsBlocks(<<>>) = {} /\ LevelsApart(<<>>)
<1>1. DOMAIN <<>> = {}
  OBVIOUS
<1> QED BY <1>1, EmptyApart DEF LevelsBlocks, LevelsApart

LEMMA GrammarBlocksIs ==
  ASSUME NEW g \in Seq(ProdSet(NodeSet))
  PROVE  GrammarBlocks(g) = Gathered(ProdF, g)
<1>1. \A i \in DOMAIN g : ProdF[g[i]] = ProdBlocks(g[i])
  <2>1. \A i \in DOMAIN g : g[i] \in ProdSet(NodeSet)
    BY ElementOfSeq, LenProperties
  <2> QED BY <2>1 DEF ProdF
<1>2. \A x : x \in Gathered(ProdF, g) <=> \E i \in DOMAIN g : x \in ProdF[g[i]]
  BY GatheredIs
<1>3. \A x : x \in GrammarBlocks(g) <=> \E i \in DOMAIN g : x \in ProdBlocks(g[i])
  BY DEF GrammarBlocks
<1>4. \A x : x \in GrammarBlocks(g) <=> x \in Gathered(ProdF, g)
  BY <1>1, <1>2, <1>3
<1> QED BY <1>4

LEMMA NoGrammar == GrammarBlocks(<<>>) = {} /\ GrammarApart(<<>>)
<1>1. DOMAIN <<>> = {}
  OBVIOUS
<1> QED BY <1>1, EmptyApart, EmptySeq, GrammarBlocksIs DEF GrammarApart

LEMMA GrammarAppend ==
  ASSUME NEW g \in Seq(ProdSet(NodeSet)), NEW p \in ProdSet(NodeSet)
  PROVE  /\ GrammarBlocks(Append(g, p)) = GrammarBlocks(g) \cup ProdBlocks(p)
         /\ GrammarApart(Append(g, p)) <=> /\ GrammarApart(g) /\ ProdApart(p)
                                           /\ GrammarBlocks(g) \cap ProdBlocks(p) = {}
<1>1. ProdF[p] = ProdBlocks(p) /\ Append(g, p) \in Seq(ProdSet(NodeSet))
  BY AppendProperties DEF ProdF
<1>2. /\ Gathered(ProdF, Append(g, p)) = Gathered(ProdF, g) \cup ProdF[p]
      /\ Apart(ProdF, Append(g, p)) <=> Apart(ProdF, g) /\ Gathered(ProdF, g) \cap ProdF[p] = {}
  BY AppendApart, Zenon
<1>3. (\A i \in DOMAIN Append(g, p) : ProdApart(Append(g, p)[i]))
        <=> (\A i \in DOMAIN g : ProdApart(g[i])) /\ ProdApart(p)
  <2>l. Len(g) \in Nat
    BY LenProperties
  <2>1. PICK n \in Nat : n = Len(g)
    BY <2>l
  <2>2. /\ DOMAIN g = 1 .. n /\ DOMAIN Append(g, p) = 1 .. n + 1
        /\ \A i \in 1 .. n : Append(g, p)[i] = g[i]
        /\ Append(g, p)[n + 1] = p
    BY <2>1, AppendProperties, LenProperties
  <2>3. \A i \in 1 .. n + 1 : i \in 1 .. n \/ i = n + 1
    OBVIOUS
  <2>4. n + 1 \in 1 .. n + 1 /\ \A i \in 1 .. n : i \in 1 .. n + 1
    OBVIOUS
  <2>5. ASSUME \A i \in 1 .. n : ProdApart(g[i]), ProdApart(p), NEW i \in 1 .. n + 1
        PROVE  ProdApart(Append(g, p)[i])
    BY <2>2, <2>3, <2>5
  <2>6. ASSUME \A i \in 1 .. n + 1 : ProdApart(Append(g, p)[i])
        PROVE  (\A i \in 1 .. n : ProdApart(g[i])) /\ ProdApart(p)
    <3>1. ProdApart(p)
      BY <2>2, <2>4, <2>6
    <3>2. ASSUME NEW i \in 1 .. n PROVE ProdApart(g[i])
      BY <2>2, <2>4, <2>6
    <3> QED BY <3>1, <3>2
  <2> QED BY <2>2, <2>5, <2>6
<1>4. GrammarBlocks(g) = Gathered(ProdF, g) /\ GrammarBlocks(Append(g, p)) = Gathered(ProdF, Append(g, p))
  BY <1>1, GrammarBlocksIs
<1> QED BY <1>1, <1>2, <1>3, <1>4 DEF GrammarApart

-----------------------------------------------------------------------------
(* Ownership: general steps *)

\* What is lost is a matter of the text.
LEMMA LostStays ==
  ASSUME text' = text
  PROVE  CoupleWithoutOperator' = CoupleWithoutOperator
  BY DEF CoupleWithoutOperator, Symbol, Skip

LEMMA OwnedParts ==
  ASSUME Typed, Owned
  PROVE  /\ prod \in ProdSet(ReadNode) /\ prod \in ProdSet(NodeSet)
         /\ prod.params \in Seq(ParamSet) /\ prod.exprs \in Seq(ReadNode) /\ prod.exprs \in Seq(NodeSet)
         /\ prod.block = NULL /\ levels \in Seq(LevelSet) /\ grammar \in Seq(ProdSet(NodeSet))
         /\ live \in SUBSET (Nat \ {NULL}) /\ NULL \notin live
         /\ GrammarApart(grammar) /\ ProdApart(prod) /\ LevelsApart(levels)
         /\ InUse(CoupleWithoutOperator, GrammarBlocks(grammar), ProdBlocks(prod), LevelsBlocks(levels), live)
<1>1. prod \in ProdSet(ReadNode) /\ prod.block = NULL
  BY DEF Typed, ProdTyped
<1>2. /\ prod \in ProdSet(NodeSet) /\ prod.params \in Seq(ParamSet) /\ prod.exprs \in Seq(ReadNode)
      /\ prod.exprs \in Seq(NodeSet)
  BY <1>1, ReadNodesAreNodes, ProdFields
<1>3. levels \in Seq(LevelSet) /\ grammar \in Seq(ProdSet(NodeSet))
  BY DEF Typed, LevelsTyped, GrammarTyped
<1>4. live \in SUBSET (Nat \ {NULL}) /\ NULL \notin live
  BY DEF Typed, MemoryTyped
<1> QED BY <1>1, <1>2, <1>3, <1>4 DEF Owned

LEMMA ReadNodeIsNode ==
  ASSUME NEW l \in LevelSet
  PROVE  l.target \in Seq(NodeSet) /\ l.facts \in Seq(NodeSet)
  BY LevelFields, ReadNodesAreNodes

\* The innermost level.
LEMMA OwnedLevel ==
  ASSUME Typed, Owned, pc \in LevelPCs
  PROVE  /\ Level \in LevelSet /\ LevelApart(Level) /\ LevelBlocks(Level) \subseteq live
         /\ Level.target \in Seq(NodeSet) /\ Level.facts \in Seq(NodeSet)
<1>1. /\ Level \in LevelSet /\ Front(levels) \in Seq(LevelSet)
      /\ levels = Append(Front(levels), Level)
  BY LastLevel
<1>2. LevelsApart(levels) /\ LevelsBlocks(levels) \subseteq live
  BY DEF Owned, InUse
<1>3. LevelApart(Level) /\ LevelBlocks(Level) \subseteq live
  <2> DEFINE f == Front(levels)
             l == Level
  <2>1. f \in Seq(LevelSet) /\ l \in LevelSet /\ levels = Append(f, l)
    BY <1>1
  <2> HIDE DEF f, l
  <2>2. /\ LevelsBlocks(levels) = LevelsBlocks(f) \cup LevelBlocks(l)
        /\ LevelsApart(levels) <=> /\ LevelsApart(f) /\ LevelApart(l)
                                   /\ LevelsBlocks(f) \cap LevelBlocks(l) = {}
    BY <2>1, LevelsAppend
  <2>3. LevelApart(l) /\ LevelBlocks(l) \subseteq live
    BY <1>2, <2>2
  <2> QED BY <2>3 DEF l
<1> QED BY <1>1, <1>3, ReadNodeIsNode

\* The levels change from what f and old hold to what f and new hold: D is freed,
\* X was not in use.
LEMMA LevelsChange ==
  ASSUME Typed, Owned, UNCHANGED <<text, prod, grammar>>,
         NEW f \in Seq(LevelSet), NEW old, NEW l \in LevelSet, levels' = Append(f, l),
         LevelsApart(f), LevelApart(l), LevelsBlocks(levels) = LevelsBlocks(f) \cup old,
         LevelsBlocks(f) \cap old = {},
         NEW D, NEW X, LevelBlocks(l) \subseteq old \cup X, X \cap live = {},
         D \cap LevelBlocks(l) = {}, D \cap LevelsBlocks(f) = {},
         D \cap (GrammarBlocks(grammar) \cup ProdBlocks(prod)) = {},
         live' = (live \ D) \cup X,
         CoupleWithoutOperator \/ (old \ D) \cup X \subseteq LevelBlocks(l)
  PROVE  Owned'
<1> DEFINE W == CoupleWithoutOperator
           G == GrammarBlocks(grammar)
           P == ProdBlocks(prod)
           F == LevelsBlocks(f)
           B == LevelBlocks(l)
<1>1. InUse(W, G, P, F \cup old, live) /\ GrammarApart(grammar) /\ ProdApart(prod)
  BY DEF Owned
<1>2. LevelsBlocks(levels') = F \cup B
  BY LevelsAppend
<1>2a. F \subseteq live
  BY <1>1 DEF InUse
<1>3. LevelsApart(levels')
  <2>1. F \cap B = {}
    BY <1>2a
  <2> QED BY <2>1, LevelsAppend
<1>4. W' = W /\ GrammarApart(grammar') /\ ProdApart(prod') /\ GrammarBlocks(grammar') = G /\ ProdBlocks(prod') = P
  BY <1>1, LostStays
<1>5. InUse(W, G, P, F \cup B, live')
  <2>1. B \subseteq old \cup X /\ X \cap live = {} /\ D \cap B = {} /\ D \cap F = {} /\ D \cap (G \cup P) = {}
        /\ live' = (live \ D) \cup X /\ (W \/ (old \ D) \cup X \subseteq B)
    OBVIOUS
  <2> HIDE DEF W, G, P, F, B
  <2> QED BY <1>1, <2>1 DEF InUse
<1> HIDE DEF W
<1> QED BY <1>2, <1>3, <1>4, <1>5 DEF Owned, W

\* The innermost level changes.
LEMMA InnerChanges ==
  ASSUME Typed, Owned, pc \in LevelPCs, UNCHANGED <<text, prod, grammar>>,
         NEW l \in LevelSet, levels' = Append(Front(levels), l), LevelApart(l),
         NEW D, NEW X, LevelBlocks(l) \subseteq LevelBlocks(Level) \cup X, X \cap live = {},
         D \subseteq LevelBlocks(Level), D \cap LevelBlocks(l) = {}, live' = (live \ D) \cup X,
         (LevelBlocks(Level) \ D) \cup X \subseteq LevelBlocks(l)
  PROVE  Owned'
<1> DEFINE f == Front(levels)
           o == Level
<1>1. f \in Seq(LevelSet) /\ o \in LevelSet /\ levels = Append(f, o) /\ levels' = Append(f, l)
  BY LastLevel
<1>2. D \subseteq LevelBlocks(o) /\ LevelBlocks(l) \subseteq LevelBlocks(o) \cup X
      /\ (LevelBlocks(o) \ D) \cup X \subseteq LevelBlocks(l)
  OBVIOUS
<1> HIDE DEF f, o, Level
<1>3. /\ LevelsBlocks(levels) = LevelsBlocks(f) \cup LevelBlocks(o)
      /\ LevelsApart(levels) <=> /\ LevelsApart(f) /\ LevelApart(o)
                                 /\ LevelsBlocks(f) \cap LevelBlocks(o) = {}
  BY <1>1, LevelsAppend
<1>4. /\ LevelsApart(levels)
      /\ InUse(CoupleWithoutOperator, GrammarBlocks(grammar), ProdBlocks(prod), LevelsBlocks(levels), live)
  BY DEF Owned
<1>5. D \cap LevelsBlocks(f) = {} /\ D \cap (GrammarBlocks(grammar) \cup ProdBlocks(prod)) = {}
  BY <1>2, <1>3, <1>4 DEF InUse
<1> QED BY <1>1, <1>2, <1>3, <1>4, <1>5, LevelsChange

\* The innermost level goes, the one around it changes.
LEMMA OuterChanges ==
  ASSUME Typed, Owned, pc \in LevelPCs, UNCHANGED <<text, prod, grammar>>, Front(levels) # <<>>,
         NEW l \in LevelSet, levels' = Append(Front(Front(levels)), l), LevelApart(l),
         NEW D, LevelBlocks(l) \subseteq LevelBlocks(Outer) \cup LevelBlocks(Level),
         D \subseteq LevelBlocks(Outer) \cup LevelBlocks(Level), D \cap LevelBlocks(l) = {}, live' = live \ D,
         CoupleWithoutOperator \/ (LevelBlocks(Outer) \cup LevelBlocks(Level)) \ D \subseteq LevelBlocks(l)
  PROVE  Owned'
<1> DEFINE f == Front(Front(levels))
           q == Front(levels)
           o == Outer
           m == Level
           old == LevelBlocks(o) \cup LevelBlocks(m)
<1>1. /\ f \in Seq(LevelSet) /\ q \in Seq(LevelSet) /\ o \in LevelSet /\ m \in LevelSet
      /\ levels = Append(q, m) /\ q = Append(f, o) /\ levels' = Append(f, l)
  BY LastLevel, OuterLevel
<1>2. D \subseteq old /\ LevelBlocks(l) \subseteq old \cup {} /\ live' = (live \ D) \cup {}
      /\ (CoupleWithoutOperator \/ (old \ D) \cup {} \subseteq LevelBlocks(l))
  OBVIOUS
<1> HIDE DEF f, q, o, m, Level, Outer
<1>3. /\ LevelsBlocks(levels) = LevelsBlocks(q) \cup LevelBlocks(m)
      /\ LevelsApart(levels) <=> /\ LevelsApart(q) /\ LevelApart(m)
                                 /\ LevelsBlocks(q) \cap LevelBlocks(m) = {}
  BY <1>1, LevelsAppend
<1>4. /\ LevelsBlocks(q) = LevelsBlocks(f) \cup LevelBlocks(o)
      /\ LevelsApart(q) <=> /\ LevelsApart(f) /\ LevelApart(o)
                            /\ LevelsBlocks(f) \cap LevelBlocks(o) = {}
  BY <1>1, LevelsAppend
<1>5. /\ LevelsApart(levels)
      /\ InUse(CoupleWithoutOperator, GrammarBlocks(grammar), ProdBlocks(prod), LevelsBlocks(levels), live)
  BY DEF Owned
<1>6. LevelsBlocks(levels) = LevelsBlocks(f) \cup old /\ LevelsBlocks(f) \cap old = {} /\ LevelsApart(f)
  BY <1>3, <1>4, <1>5
<1>7. D \cap LevelsBlocks(f) = {} /\ D \cap (GrammarBlocks(grammar) \cup ProdBlocks(prod)) = {}
  BY <1>2, <1>5, <1>6 DEF InUse
<1>8. {} \cap live = {}
  OBVIOUS
<1> HIDE DEF old
<1> QED BY <1>1, <1>2, <1>6, <1>7, <1>8, LevelsChange

\* The production being read changes, or ends the innermost level too.
LEMMA ProdChanges ==
  ASSUME Typed, Owned, UNCHANGED <<text, grammar>>,
         levels' = levels \/ levels' = <<>>, ProdApart(prod'),
         NEW D, NEW X, X \cap live = {}, live' = (live \ D) \cup X,
         D \subseteq ProdBlocks(prod) \cup LevelsBlocks(levels),
         D \cap ProdBlocks(prod') = {}, D \cap LevelsBlocks(levels') = {},
         ProdBlocks(prod') \subseteq ProdBlocks(prod) \cup X \cup (LevelsBlocks(levels) \ LevelsBlocks(levels')),
         ((ProdBlocks(prod) \cup LevelsBlocks(levels)) \ D) \cup X
            \subseteq ProdBlocks(prod') \cup LevelsBlocks(levels')
  PROVE  Owned'
<1> DEFINE W == CoupleWithoutOperator
           G == GrammarBlocks(grammar)
           P == ProdBlocks(prod)
           L == LevelsBlocks(levels)
           Q == ProdBlocks(prod')
           K == LevelsBlocks(levels')
<1>1. InUse(W, G, P, L, live) /\ GrammarApart(grammar) /\ LevelsApart(levels)
  BY DEF Owned
<1>2. LevelsApart(levels') /\ K \subseteq L
  BY <1>1, NoLevels
<1>3. W' = W /\ GrammarApart(grammar') /\ GrammarBlocks(grammar') = G
  BY <1>1, LostStays
<1>4. InUse(W, G, Q, K, live')
  <2>1. /\ X \cap live = {} /\ live' = (live \ D) \cup X /\ D \subseteq P \cup L /\ D \cap Q = {} /\ D \cap K = {}
        /\ Q \subseteq P \cup X \cup (L \ K) /\ ((P \cup L) \ D) \cup X \subseteq Q \cup K
    OBVIOUS
  <2> HIDE DEF W, G, P, L, Q, K
  <2> QED BY <1>1, <1>2, <2>1 DEF InUse
<1> HIDE DEF W
<1> QED BY <1>2, <1>3, <1>4 DEF Owned, W

LEMMA OwnedStays ==
  ASSUME Owned, UNCHANGED <<text, prod, levels, grammar, live>>
  PROVE  Owned'
  BY LostStays, Zenon DEF Owned

LEMMA NoProdOwned == ProdBlocks(NoProd) = {} /\ ProdApart(NoProd)
  BY RuleEmpty, ParamsEmpty DEF NoProd, ProdBlocks, ProdApart, Heads, NULL

LEMMA NoLevelOwned == LevelBlocks(NoLevel) = {} /\ LevelApart(NoLevel)
  BY RuleEmpty DEF NoLevel, LevelBlocks, LevelApart, Own, NULL

\* A level begins.
LEMMA LevelBegins ==
  ASSUME Typed, Owned, UNCHANGED <<text, prod, grammar, live>>, levels' = Append(levels, NoLevel)
  PROVE  Owned'
<1>1. levels \in Seq(LevelSet) /\ LevelsApart(levels)
  BY OwnedParts
<1>2. /\ LevelsBlocks(levels') = LevelsBlocks(levels) \cup {}
      /\ LevelsApart(levels')
  BY <1>1, NoLevelTyped, NoLevelOwned, LevelsAppend, ZenonT(30)
<1>3. LevelsBlocks(levels') = LevelsBlocks(levels)
  BY <1>2
<1>4. CoupleWithoutOperator' = CoupleWithoutOperator
  BY LostStays
<1> QED BY <1>2, <1>3, <1>4 DEF Owned

\* The grammar is freed, with the production being read or without it.
LEMMA GrammarGoes ==
  ASSUME Typed, Owned, UNCHANGED <<text, levels>>, grammar' = <<>>,
         NEW D, live' = live \ (D \cup GrammarBlocks(grammar)),
         \/ prod' = prod /\ D = {}
         \/ prod' = NoProd /\ D = ProdBlocks(prod)
  PROVE  Owned'
<1> DEFINE W == CoupleWithoutOperator
           G == GrammarBlocks(grammar)
           P == ProdBlocks(prod)
           L == LevelsBlocks(levels)
<1>1. InUse(W, G, P, L, live) /\ ProdApart(prod) /\ LevelsApart(levels)
  BY DEF Owned
<1>2. W' = W /\ GrammarApart(grammar') /\ GrammarBlocks(grammar') = {} /\ LevelsApart(levels')
      /\ LevelsBlocks(levels') = L
  BY <1>1, LostStays, NoGrammar
<1>3. ProdApart(prod') /\ ProdBlocks(prod') = P \ D
  BY <1>1, NoProdOwned
<1>4. D \subseteq P /\ live' = live \ (D \cup G)
  OBVIOUS
<1> HIDE DEF W, G, P, L
<1>5. InUse(W, {}, P \ D, L, live')
  BY <1>1, <1>4 DEF InUse
<1> QED BY <1>2, <1>3, <1>5 DEF Owned, W, L

-----------------------------------------------------------------------------
(* Ownership: the productions and their parameters *)

LEMMA ReadNameOwned ==
  ASSUME Typed, Phases, Owned, ReadName PROVE Owned'
<1>0. pc = "production" /\ UNCHANGED <<text, levels, grammar>> /\ prod = NoProd
  BY DEF ReadName, Phases
<1>1. CASE /\ Malloc /\ prod' = [NoProd EXCEPT !.name = Symbol(Here), !.identifier = Fresh(1)]
  <2>1. Fresh(1) \in Nat \ {NULL} /\ Fresh(1) \notin live
    BY FreshIsFree
  <2>2. /\ prod'.params = <<>> /\ prod'.exprs = <<>> /\ prod'.block = NULL
        /\ prod'.identifier = Fresh(1)
    BY <1>1 DEF NoProd
  <2>3. ProdBlocks(prod') = {Fresh(1)} /\ ProdApart(prod')
    BY <2>1, <2>2, RuleEmpty, ParamsEmpty DEF ProdBlocks, ProdApart, Heads
  <2>4. ProdBlocks(prod) = {}
    BY <1>0, NoProdOwned
  <2>5. live' = (live \ {}) \cup {Fresh(1)}
    BY <1>1 DEF Malloc
  <2> DEFINE X == {Fresh(1)}
             L == LevelsBlocks(levels)
  <2>6. X \cap live = {} /\ live' = (live \ {}) \cup X /\ levels' = levels /\ LevelsBlocks(levels') = L
    BY <1>0, <2>1, <2>5
  <2>7. ProdBlocks(prod') = X
    BY <2>3
  <2> HIDE DEF X
  <2>8. /\ ProdBlocks(prod') \subseteq ProdBlocks(prod) \cup X \cup (L \ LevelsBlocks(levels'))
        /\ ((ProdBlocks(prod) \cup L) \ {}) \cup X \subseteq ProdBlocks(prod') \cup LevelsBlocks(levels')
        /\ {} \subseteq ProdBlocks(prod) \cup L
        /\ {} \cap ProdBlocks(prod') = {} /\ {} \cap LevelsBlocks(levels') = {}
    BY <2>4, <2>6, <2>7
  <2> HIDE DEF L
  <2> QED BY <1>0, <2>3, <2>6, <2>8, ProdChanges DEF L
<1>2. CASE UNCHANGED <<prod, live>>
  BY <1>0, <1>2, OwnedStays
<1> QED BY <1>1, <1>2 DEF ReadName

\* Other parameters.
LEMMA ParamsChange ==
  ASSUME Typed, Owned, UNCHANGED <<text, levels, grammar>>,
         NEW ps \in Seq(ParamSet), prod' = [prod EXCEPT !.params = ps], ParamsApart(ps),
         NEW D, NEW X, X \cap live = {}, live' = (live \ D) \cup X,
         D \subseteq ParamBlocks(prod.params), D \cap ParamBlocks(ps) = {},
         ParamBlocks(ps) \subseteq ParamBlocks(prod.params) \cup X,
         (ParamBlocks(prod.params) \ D) \cup X \subseteq ParamBlocks(ps)
  PROVE  Owned'
<1>1. /\ prod \in ProdSet(ReadNode) /\ ProdApart(prod)
      /\ InUse(CoupleWithoutOperator, GrammarBlocks(grammar), ProdBlocks(prod), LevelsBlocks(levels), live)
  BY OwnedParts
<1>2. /\ prod'.params = ps /\ prod'.exprs = prod.exprs /\ prod'.block = prod.block
      /\ prod'.identifier = prod.identifier
  BY <1>1, ProdReplaced
<1> DEFINE H == Heads(prod)
           E == Rule(prod.exprs)
           A == ParamBlocks(prod.params)
           B == ParamBlocks(ps)
           L == LevelsBlocks(levels)
<1>3. ProdBlocks(prod) = H \cup A \cup E /\ ProdBlocks(prod') = H \cup B \cup E
  BY <1>2 DEF ProdBlocks, Heads
<1>4. H \cap (E \cup A) = {} /\ E \cap A = {} /\ H \cup A \cup E \subseteq live /\ (H \cup A \cup E) \cap L = {}
  BY <1>1, <1>3 DEF ProdApart, InUse
<1>5. /\ X \cap live = {} /\ D \subseteq A /\ D \cap B = {} /\ B \subseteq A \cup X /\ (A \ D) \cup X \subseteq B
      /\ LevelsBlocks(levels') = L
  OBVIOUS
<1>6. NodesApart(prod.exprs) /\ (prod.block = prod.identifier => prod.block = NULL)
  BY <1>1 DEF ProdApart
<1>7. Heads(prod') = H
  BY <1>2 DEF Heads
<1> HIDE DEF H, E, A, B, L
<1>8. H \cap (E \cup B) = {} /\ E \cap B = {}
  BY <1>4, <1>5
<1>9. ProdApart(prod')
  BY <1>2, <1>6, <1>7, <1>8 DEF ProdApart, E, B
<1>10. /\ D \subseteq ProdBlocks(prod) \cup L
       /\ D \cap ProdBlocks(prod') = {} /\ D \cap LevelsBlocks(levels') = {}
       /\ ProdBlocks(prod') \subseteq ProdBlocks(prod) \cup X \cup (L \ LevelsBlocks(levels'))
       /\ ((ProdBlocks(prod) \cup L) \ D) \cup X \subseteq ProdBlocks(prod') \cup LevelsBlocks(levels')
  BY <1>3, <1>4, <1>5
<1> QED BY <1>9, <1>10, ProdChanges DEF L

LEMMA ParamsGo ==
  ASSUME Typed, Owned, UNCHANGED <<text, levels, grammar>>,
         prod' = [prod EXCEPT !.params = <<>>], live' = live \ ParamBlocks(prod.params)
  PROVE  Owned'
<1> DEFINE A == ParamBlocks(prod.params)
<1>1. /\ ParamBlocks(<<>>) = {} /\ ParamsApart(<<>>) /\ <<>> \in Seq(ParamSet)
  BY ParamsEmpty
<1>2. /\ {} \cap live = {} /\ live' = (live \ A) \cup {} /\ A \subseteq A /\ A \cap ParamBlocks(<<>>) = {}
      /\ ParamBlocks(<<>>) \subseteq A \cup {} /\ (A \ A) \cup {} \subseteq ParamBlocks(<<>>)
  BY <1>1
<1> HIDE DEF A
<1> QED BY <1>1, <1>2, ParamsChange DEF A

LEMMA ReadParamOwned ==
  ASSUME Typed, Phases, Owned, ReadParam PROVE Owned'
<1>0. UNCHANGED <<text, levels, grammar>>
  BY DEF ReadParam
<1> DEFINE p == [text |-> <<Symbol(Here), Symbol(Skip(Here + 1))>>, blocks |-> {Fresh(1), Fresh(2), Fresh(3)}]
           X == {Fresh(1), Fresh(2), Fresh(3)}
<1>1. CASE /\ Symbol(Here) \in Names /\ Symbol(Skip(Here + 1)) \in Names
           /\ live' = live \cup X /\ prod' = [prod EXCEPT !.params = Append(@, p)]
  <2>1. X \subseteq Nat /\ X \cap live = {}
    BY FreshIsFree
  <2>2. p \in ParamSet
    <3>1. <<Symbol(Here), Symbol(Skip(Here + 1))>> \in Seq(Shown)
      BY <1>1 DEF Shown
    <3> QED BY <2>1, <3>1 DEF ParamSet
  <2>3. p.blocks = X
    OBVIOUS
  <2>4. /\ prod.params \in Seq(ParamSet) /\ ParamsApart(prod.params)
        /\ ParamBlocks(prod.params) \subseteq live
    BY OwnedParts DEF ProdApart, InUse, ProdBlocks
  <2> DEFINE ps == Append(prod.params, p)
             A == ParamBlocks(prod.params)
  <2>5. prod' = [prod EXCEPT !.params = ps]
    BY <1>1
  <2> HIDE DEF p, X
  <2>6. /\ ps \in Seq(ParamSet) /\ ParamBlocks(ps) = A \cup X
        /\ ParamsApart(ps)
    <3>1. A \cap X = {}
      BY <2>1, <2>4
    <3> QED BY <2>2, <2>3, <2>4, <3>1, ParamsAppend
  <2> HIDE DEF ps
  <2>7. /\ live' = (live \ {}) \cup X /\ {} \subseteq A /\ {} \cap ParamBlocks(ps) = {}
        /\ ParamBlocks(ps) \subseteq A \cup X /\ (A \ {}) \cup X \subseteq ParamBlocks(ps)
    BY <1>1, <2>6
  <2> HIDE DEF A
  <2> QED BY <1>0, <2>1, <2>5, <2>6, <2>7, ParamsChange DEF A
<1>2. CASE prod' = [prod EXCEPT !.params = <<>>] /\ live' = live \ ParamBlocks(prod.params)
  BY <1>0, <1>2, ParamsGo
<1> HIDE DEF Here, Skip
<1>3. \/ /\ Symbol(Here) \in Names /\ Symbol(Skip(Here + 1)) \in Names
         /\ live' = live \cup X /\ prod' = [prod EXCEPT !.params = Append(@, p)]
      \/ prod' = [prod EXCEPT !.params = <<>>] /\ live' = live \ ParamBlocks(prod.params)
  BY DEF ReadParam, NoParam
<1> QED BY <1>1, <1>2, <1>3

LEMMA ReadParamEndOwned ==
  ASSUME Typed, Owned, ReadParamEnd PROVE Owned'
<1>0. UNCHANGED <<text, levels, grammar>>
  BY DEF ReadParamEnd
<1>1. CASE UNCHANGED <<prod, live>>
  BY <1>0, <1>1, OwnedStays
<1>2. CASE prod' = [prod EXCEPT !.params = <<>>] /\ live' = live \ ParamBlocks(prod.params)
  BY <1>0, <1>2, ParamsGo
<1> QED BY <1>1, <1>2 DEF ReadParamEnd

LEMMA ReadRuleOwned ==
  ASSUME Typed, Owned, ReadRule PROVE Owned'
<1>0. UNCHANGED <<text, prod, grammar, live>> /\ levels = <<>>
  BY DEF ReadRule, Typed, LevelsTyped, LevelPCs
<1>1. CASE levels' = <<NoLevel>>
  <2>1. levels' = Append(levels, NoLevel)
    BY <1>0, <1>1
  <2> QED BY <1>0, <2>1, LevelBegins
<1>2. CASE levels' = levels
  BY <1>0, <1>2, OwnedStays
<1> QED BY <1>1, <1>2 DEF ReadRule, NoLevel

LEMMA ReadRuleEndOwned ==
  ASSUME Typed, Phases, Owned, ReadRuleEnd PROVE Owned'
<1>0. UNCHANGED <<text, levels>> /\ pc = "rule_end"
  BY DEF ReadRuleEnd
<1>1. CASE UNCHANGED <<grammar, prod, live>>
  BY <1>0, <1>1, OwnedStays
<1>2. CASE Malloc /\ grammar' = Append(grammar, [prod EXCEPT !.block = Fresh(1)]) /\ prod' = NoProd
  <2> DEFINE x == Fresh(1)
             p == [prod EXCEPT !.block = x]
             W == CoupleWithoutOperator
             G == GrammarBlocks(grammar)
             P == ProdBlocks(prod)
             L == LevelsBlocks(levels)
             Q == ProdBlocks(p)
  <2>1. x \in Nat \ {NULL} /\ x \notin live
    BY FreshIsFree
  <2>2. /\ prod \in ProdSet(NodeSet) /\ prod.block = NULL /\ ProdApart(prod)
        /\ InUse(W, G, P, L, live) /\ GrammarApart(grammar) /\ LevelsApart(levels)
        /\ grammar \in Seq(ProdSet(NodeSet))
    BY OwnedParts
  <2>3. grammar' = Append(grammar, p) /\ live' = live \cup {x} /\ prod' = NoProd
    BY <1>2 DEF Malloc
  <2> HIDE DEF x
  <2>4. /\ p \in ProdSet(NodeSet) /\ p.block = x /\ p.identifier = prod.identifier
        /\ p.params = prod.params /\ p.exprs = prod.exprs
    BY <2>1, <2>2 DEF ProdSet
  <2> HIDE DEF p
  <2>5. Heads(p) = Heads(prod) \cup {x} /\ Heads(prod) \subseteq live
    <3>1. Heads(prod) \subseteq live
      BY <2>2 DEF InUse, ProdBlocks, Heads
    <3> QED BY <2>1, <2>2, <2>4, <3>1 DEF Heads
  <2>6. Q = P \cup {x}
    BY <2>4, <2>5 DEF ProdBlocks, Heads
  <2>7. ProdApart(p)
    <3>1. Rule(prod.exprs) \cup ParamBlocks(prod.params) \subseteq live
      BY <2>2 DEF InUse, ProdBlocks
    <3>2. Heads(p) \cap (Rule(p.exprs) \cup ParamBlocks(p.params)) = {}
      BY <2>1, <2>2, <2>4, <2>5, <3>1 DEF ProdApart
    <3>3. p.block # p.identifier
      <4>1. prod.identifier \in live \cup {NULL}
        BY <2>2 DEF InUse, ProdBlocks
      <4> QED BY <2>1, <2>4, <4>1
    <3> QED BY <2>2, <2>4, <3>2, <3>3 DEF ProdApart
  <2>8. GrammarBlocks(grammar') = G \cup Q /\ GrammarApart(grammar')
    <3>1. G \cap Q = {}
      BY <2>1, <2>2, <2>6 DEF InUse
    <3> QED BY <2>2, <2>3, <2>4, <2>7, <3>1, GrammarAppend
  <2>9. W' = W /\ LevelsApart(levels') /\ LevelsBlocks(levels') = L
        /\ ProdApart(prod') /\ ProdBlocks(prod') = {}
    BY <1>0, <2>2, <2>3, LostStays, NoProdOwned
  <2> HIDE DEF W, G, P, L, Q
  <2>10. InUse(W, G \cup Q, {}, L, live')
    BY <2>1, <2>2, <2>3, <2>6 DEF InUse
  <2> QED BY <2>8, <2>9, <2>10 DEF Owned, W
<1> QED BY <1>1, <1>2 DEF ReadRuleEnd

LEMMA NoProductionOwned ==
  ASSUME Typed, Owned, NoProduction PROVE Owned'
<1>0. UNCHANGED <<text, levels>> /\ prod' = NoProd
  BY DEF NoProduction
<1> DEFINE P == ProdBlocks(prod)
           L == LevelsBlocks(levels)
<1>1. CASE grammar' = grammar /\ live' = live \ P
  <2>1. ProdApart(prod') /\ ProdBlocks(prod') = {} /\ levels' = levels
    BY <1>0, NoProdOwned
  <2>2. InUse(CoupleWithoutOperator, GrammarBlocks(grammar), P, L, live)
    BY DEF Owned
  <2>3. /\ {} \cap live = {} /\ live' = (live \ P) \cup {} /\ P \subseteq P \cup L
        /\ P \cap ProdBlocks(prod') = {} /\ P \cap L = {}
        /\ ProdBlocks(prod') \subseteq P \cup {} \cup (L \ L)
        /\ ((P \cup L) \ P) \cup {} \subseteq ProdBlocks(prod') \cup L
    BY <1>1, <2>1, <2>2 DEF InUse
  <2>4. /\ P \cap LevelsBlocks(levels') = {}
        /\ ProdBlocks(prod') \subseteq P \cup {} \cup (L \ LevelsBlocks(levels'))
        /\ ((P \cup L) \ P) \cup {} \subseteq ProdBlocks(prod') \cup LevelsBlocks(levels')
    BY <2>1, <2>3
  <2> QED BY <1>0, <1>1, <2>1, <2>3, <2>4, ProdChanges
<1>2. CASE grammar' = <<>> /\ live' = live \ (P \cup GrammarBlocks(grammar))
  BY <1>0, <1>2, GrammarGoes
<1> QED BY <1>1, <1>2 DEF NoProduction

LEMMA FreeBNFOwned ==
  ASSUME Typed, Owned, FreeBNF PROVE Owned'
<1>1. UNCHANGED <<text, levels, prod>> /\ grammar' = <<>> /\ live' = live \ ({} \cup GrammarBlocks(grammar))
  BY DEF FreeBNF
<1> QED BY <1>1, GrammarGoes

\* Linking a factor takes the block of its name from its production.
LEMMA LinkedFrees ==
  ASSUME Typed, Owned, NEW i \in DOMAIN grammar, NEW k \in DOMAIN grammar[i].exprs,
         grammar[i].exprs[k].type = "FACT_RULE"
  PROVE  /\ GrammarApart(LinkedGrammar(i, k))
         /\ GrammarBlocks(LinkedGrammar(i, k)) = GrammarBlocks(grammar) \ {grammar[i].exprs[k].target}
         /\ grammar[i].exprs[k].target \in GrammarBlocks(grammar) \cup {NULL}
<1> DEFINE p == grammar[i]
           s == p.exprs
           n == s[k]
           m == Linked(n, LinkTarget(i, k))
           es == LinkedExprs(i, k)
           q == WithExprs(p, es)
           T == {n.target} \ {NULL}
           g == LinkedGrammar(i, k)
<1>1. /\ grammar \in Seq(ProdSet(NodeSet)) /\ p \in ProdSet(NodeSet) /\ s \in Seq(NodeSet)
      /\ n \in NodeSet
  BY GrammarFields
<1>2. m \in NodeSet /\ m.type = "FACT_RULE_LINKED" /\ m.block = n.block
  BY <1>1, LinkTargetTyped, LinkedNode, ZenonT(30) DEF LinkTarget
<1>3. /\ es \in Seq(NodeSet) /\ es = [s EXCEPT ![k] = m] /\ k \in DOMAIN s
      /\ q \in ProdSet(NodeSet) /\ g = [grammar EXCEPT ![i] = q] /\ g \in Seq(ProdSet(NodeSet))
  BY LinkedGrammarIs DEF LinkedExprs, LinkedGrammar
<1>4. GrammarApart(grammar) /\ ProdApart(p) /\ NULL \notin GrammarBlocks(grammar)
  <2>1. GrammarApart(grammar) /\ NULL \notin live /\ GrammarBlocks(grammar) \subseteq live
    BY OwnedParts DEF InUse
  <2> QED BY <2>1 DEF GrammarApart
<1>5. n.type = "FACT_RULE" /\ n.block # n.target
  BY <1>1 DEF NodeSet
<1>6. /\ q.exprs = es /\ q.block = p.block /\ q.identifier = p.identifier /\ q.params = p.params
  BY <1>1, <1>3, ExprsReplaced
<1>7. DOMAIN g = DOMAIN grammar /\ \A j \in DOMAIN grammar : g[j] = IF j = i THEN q ELSE grammar[j]
  BY LinkedGrammarIs
<1> HIDE DEF p, s, n, m, es, q, g
<1>8. NodeBlocks(n) = {n.block, n.target} \ {NULL} /\ NodeBlocks(m) = {n.block} \ {NULL}
  BY <1>2, <1>5 DEF NodeBlocks
<1>9. NodeBlocks(m) \subseteq NodeBlocks(n) /\ NodeBlocks(n) \ NodeBlocks(m) = T
  BY <1>5, <1>8
<1>10. Rule(es) = Rule(s) \ T /\ NodesApart(es) /\ T \subseteq Rule(s)
  <2>1. NodeF[m] = NodeBlocks(m) /\ NodeF[n] = NodeBlocks(n) /\ n = s[k]
    BY <1>1, <1>2 DEF NodeF, n
  <2>2. Apart(NodeF, s) /\ s = p.exprs
    BY <1>4 DEF ProdApart, NodesApart, s
  <2>3. NodeF[m] \subseteq NodeF[s[k]]
    BY <1>9, <2>1
  <2>4. /\ Gathered(NodeF, [s EXCEPT ![k] = m]) = Gathered(NodeF, s) \ (NodeF[s[k]] \ NodeF[m])
        /\ Apart(NodeF, [s EXCEPT ![k] = m])
    <3>1. s \in Seq(NodeSet) /\ k \in DOMAIN s /\ m \in NodeSet
      BY <1>1, <1>2, <1>3
    <3>2. Apart(NodeF, s)
      BY <2>2
    <3> QED BY <2>3, <3>1, <3>2, ReplaceApart
  <2>5. Rule(es) = Gathered(NodeF, es) /\ Rule(s) = Gathered(NodeF, s)
    BY <1>1, <1>3, RuleIs
  <2>6. NodeF[s[k]] \subseteq Gathered(NodeF, s)
    BY <1>3, GatheredIs
  <2>7. es = [s EXCEPT ![k] = m]
    BY <1>3
  <2>8. Gathered(NodeF, es) = Gathered(NodeF, s) \ (NodeF[s[k]] \ NodeF[m]) /\ NodesApart(es)
    BY <2>4, <2>7 DEF NodesApart
  <2>9. NodeF[s[k]] \ NodeF[m] = T
    BY <1>9, <2>1
  <2> QED BY <2>5, <2>6, <2>8, <2>9
<1> HIDE DEF T
<1>11. ProdBlocks(q) = ProdBlocks(p) \ T /\ ProdApart(q) /\ T \subseteq ProdBlocks(p)
  <2>1. s = p.exprs
    BY DEF s
  <2>2. Heads(q) = Heads(p)
    BY <1>6 DEF Heads
  <2>3. /\ ProdBlocks(p) = Heads(p) \cup ParamBlocks(p.params) \cup Rule(s)
        /\ ProdBlocks(q) = Heads(p) \cup ParamBlocks(p.params) \cup Rule(es)
    BY <1>6, <2>1, <2>2 DEF ProdBlocks, Heads
  <2>4. /\ ParamsApart(p.params) /\ Rule(s) \cap ParamBlocks(p.params) = {}
        /\ Heads(p) \cap (Rule(s) \cup ParamBlocks(p.params)) = {}
        /\ (p.block = p.identifier => p.block = NULL)
    BY <1>4, <2>1 DEF ProdApart
  <2>5. ProdBlocks(q) = ProdBlocks(p) \ T /\ T \subseteq ProdBlocks(p)
    BY <1>10, <2>3, <2>4
  <2>6. Rule(es) \cap ParamBlocks(p.params) = {} /\ Heads(p) \cap (Rule(es) \cup ParamBlocks(p.params)) = {}
    BY <1>10, <2>4
  <2>7. ProdApart(q)
    BY <1>6, <1>10, <2>2, <2>4, <2>6 DEF ProdApart
  <2> QED BY <2>5, <2>7
<1>12. GrammarBlocks(g) = GrammarBlocks(grammar) \ T /\ Apart(ProdF, g) /\ T \subseteq GrammarBlocks(grammar)
  <2>1. ProdF[q] = ProdBlocks(q) /\ ProdF[p] = ProdBlocks(p) /\ p = grammar[i]
    BY <1>1, <1>3 DEF ProdF, p
  <2>2. ProdF[q] \subseteq ProdF[grammar[i]] /\ Apart(ProdF, grammar)
    BY <1>4, <1>11, <2>1 DEF GrammarApart
  <2>3. /\ Gathered(ProdF, [grammar EXCEPT ![i] = q])
             = Gathered(ProdF, grammar) \ (ProdF[grammar[i]] \ ProdF[q])
        /\ Apart(ProdF, [grammar EXCEPT ![i] = q])
    BY <1>1, <1>3, <2>2, ReplaceApart
  <2>4. GrammarBlocks(g) = Gathered(ProdF, g) /\ GrammarBlocks(grammar) = Gathered(ProdF, grammar)
    BY <1>1, <1>3, GrammarBlocksIs
  <2>5. ProdF[grammar[i]] \subseteq Gathered(ProdF, grammar)
    BY GatheredIs
  <2>6. ProdF[grammar[i]] \ ProdF[q] = T
    BY <1>11, <2>1
  <2> QED BY <1>3, <1>11, <2>1, <2>3, <2>4, <2>5, <2>6
<1>13. \A j \in DOMAIN g : ProdApart(g[j])
  <2>1. \A j \in DOMAIN grammar : ProdApart(grammar[j])
    BY <1>4 DEF GrammarApart
  <2> QED BY <1>7, <1>11, <2>1
<1>14. GrammarApart(g)
  BY <1>12, <1>13 DEF GrammarApart
<1>15. GrammarBlocks(g) = GrammarBlocks(grammar) \ {n.target} /\ n.target \in GrammarBlocks(grammar) \cup {NULL}
  BY <1>4, <1>12 DEF T
<1> QED BY <1>14, <1>15 DEF g, n, s, p

LEMMA LinkOwned ==
  ASSUME Typed, Owned, Link PROVE Owned'
<1>0. UNCHANGED <<text, prod, levels>>
  BY DEF Link
<1>g. grammar \in Seq(ProdSet(NodeSet))
  BY OwnedParts
<1>1. CASE UNCHANGED <<grammar, live>>
  BY <1>0, <1>1, OwnedStays
<1>2. CASE \E i \in DOMAIN grammar : \E k \in DOMAIN grammar[i].exprs : Links(i, k)
  <2>1. PICK i \in DOMAIN grammar : \E k \in DOMAIN grammar[i].exprs : Links(i, k)
    BY <1>2
  <2>2. PICK k \in DOMAIN grammar[i].exprs : Links(i, k)
    BY <2>1
  <2> DEFINE t == grammar[i].exprs[k].target
             g == LinkedGrammar(i, k)
             W == CoupleWithoutOperator
             G == GrammarBlocks(grammar)
             P == ProdBlocks(prod)
             L == LevelsBlocks(levels)
  <2>3. GrammarApart(g) /\ GrammarBlocks(g) = G \ {t} /\ t \in G \cup {NULL}
    BY <2>2, LinkedFrees DEF Links
  <2>4. InUse(W, G, P, L, live) /\ NULL \notin live /\ ProdApart(prod) /\ LevelsApart(levels)
    BY OwnedParts
  <2>5. CASE grammar' = g /\ live' = live \ {t}
    <3>1. W' = W /\ GrammarApart(grammar') /\ GrammarBlocks(grammar') = G \ {t}
          /\ ProdApart(prod') /\ LevelsApart(levels') /\ ProdBlocks(prod') = P /\ LevelsBlocks(levels') = L
      BY <1>0, <2>3, <2>4, <2>5, LostStays
    <3> HIDE DEF t, g, W, G, P, L
    <3>2. InUse(W, G \ {t}, P, L, live')
      BY <2>3, <2>4, <2>5 DEF InUse
    <3> QED BY <3>1, <3>2 DEF Owned, W
  <2>6. CASE grammar' = <<>> /\ live' = live \ ({t} \cup GrammarBlocks(g))
    <3>1. live' = live \ ({} \cup G)
      BY <2>3, <2>4, <2>6
    <3> QED BY <1>0, <2>6, <3>1, GrammarGoes
  <2> QED BY <2>2, <2>5, <2>6 DEF Links
<1> QED BY <1>g, <1>1, <1>2, LinkIs

-----------------------------------------------------------------------------
(* Ownership: expressions and factors *)

\* The level around the innermost one.
LEMMA OwnedOuter ==
  ASSUME Typed, Owned, pc \in LevelPCs, Front(levels) # <<>>
  PROVE  /\ Outer \in LevelSet /\ LevelApart(Outer) /\ LevelBlocks(Outer) \subseteq live
         /\ LevelBlocks(Outer) \cap LevelBlocks(Level) = {}
         /\ Outer.target \in Seq(NodeSet) /\ Outer.facts \in Seq(NodeSet)
<1> DEFINE f == Front(Front(levels))
           q == Front(levels)
           o == Outer
           m == Level
<1>1. /\ f \in Seq(LevelSet) /\ q \in Seq(LevelSet) /\ o \in LevelSet /\ m \in LevelSet
      /\ levels = Append(q, m) /\ q = Append(f, o)
  BY LastLevel, OuterLevel
<1>2. LevelsApart(levels) /\ LevelsBlocks(levels) \subseteq live
  BY DEF Owned, InUse
<1>3. o.target \in Seq(NodeSet) /\ o.facts \in Seq(NodeSet)
  BY <1>1, ReadNodeIsNode
<1> HIDE DEF f, q, o, m
<1>4. /\ LevelsBlocks(levels) = LevelsBlocks(q) \cup LevelBlocks(m)
      /\ LevelsApart(levels) <=> /\ LevelsApart(q) /\ LevelApart(m)
                                 /\ LevelsBlocks(q) \cap LevelBlocks(m) = {}
  BY <1>1, LevelsAppend
<1>5. /\ LevelsBlocks(q) = LevelsBlocks(f) \cup LevelBlocks(o)
      /\ LevelsApart(q) <=> /\ LevelsApart(f) /\ LevelApart(o)
                            /\ LevelsBlocks(f) \cap LevelBlocks(o) = {}
  BY <1>1, LevelsAppend
<1>6. LevelApart(o) /\ LevelBlocks(o) \subseteq live /\ LevelBlocks(o) \cap LevelBlocks(m) = {}
  BY <1>2, <1>4, <1>5
<1> QED BY <1>1, <1>3, <1>6 DEF o, m

LEMMA WithoutFactApart ==
  ASSUME NEW l \in LevelSet, LevelApart(l), NULL \notin LevelBlocks(l)
  PROVE  /\ LevelApart(WithoutFact(l)) /\ LevelBlocks(WithoutFact(l)) = LevelBlocks(l) \ {l.fact}
<1>1. /\ WithoutFact(l).fact = NULL /\ WithoutFact(l).facts = l.facts
      /\ WithoutFact(l).expr = l.expr /\ WithoutFact(l).target = l.target
  BY FactDropped
<1>2. Own(WithoutFact(l)) = Own(l) \ {l.fact} \/ l.expr = l.fact
  BY <1>1 DEF Own
<1>3. l.expr = l.fact => l.expr = NULL
  BY DEF LevelApart
<1>4. Own(WithoutFact(l)) = Own(l) \ {l.fact}
  BY <1>1, <1>2, <1>3 DEF Own
<1>5. l.fact = NULL \/ l.fact \in Own(l)
  BY DEF Own
<1> DEFINE T == Rule(l.target)
           F == Rule(l.facts)
<1>6. LevelBlocks(l) = Own(l) \cup T \cup F /\ LevelBlocks(WithoutFact(l)) = Own(WithoutFact(l)) \cup T \cup F
  BY <1>1 DEF LevelBlocks
<1>7. NodesApart(l.target) /\ NodesApart(l.facts) /\ T \cap F = {} /\ Own(l) \cap (T \cup F) = {}
  BY DEF LevelApart
<1>8. LevelApart(WithoutFact(l))
  <2>1. Own(WithoutFact(l)) \cap (T \cup F) = {}
    BY <1>4, <1>7
  <2> QED BY <1>1, <1>7, <2>1 DEF LevelApart
<1> HIDE DEF T, F
<1>9. LevelBlocks(WithoutFact(l)) = LevelBlocks(l) \ {l.fact}
  BY <1>4, <1>5, <1>6, <1>7
<1> QED BY <1>8, <1>9

\* The nodes of a factor are put behind those of the level, instead of its block.
LEMMA WithFactsApart ==
  ASSUME NEW l \in LevelSet, LevelApart(l), NULL \notin LevelBlocks(l),
         NEW ns \in Seq(ReadNode), NodesApart(ns), Rule(ns) \cap (LevelBlocks(l) \ {l.fact}) = {}
  PROVE  /\ LevelApart(WithFacts(l, ns))
         /\ LevelBlocks(WithFacts(l, ns)) = (LevelBlocks(l) \ {l.fact}) \cup Rule(ns)
<1> DEFINE m == WithoutFact(l)
           w == WithFacts(l, ns)
<1>1. /\ m \in LevelSet /\ m.fact = NULL /\ m.facts = l.facts /\ m.expr = l.expr /\ m.target = l.target
  BY FactDropped
<1>2. /\ w \in LevelSet /\ w.fact = NULL /\ w.facts = l.facts \o ns /\ w.expr = l.expr /\ w.target = l.target
  BY FactAdded
<1>3. LevelApart(m) /\ LevelBlocks(m) = LevelBlocks(l) \ {l.fact}
  BY WithoutFactApart
<1>4. l.facts \in Seq(NodeSet) /\ ns \in Seq(NodeSet)
  BY ReadNodeIsNode, ReadNodesAreNodes
<1> HIDE DEF m, w
<1> DEFINE T == Rule(l.target)
           F == Rule(l.facts)
           N == Rule(ns)
<1>5. /\ Rule(w.facts) = F \cup N
      /\ NodesApart(w.facts) <=> NodesApart(l.facts) /\ NodesApart(ns) /\ F \cap N = {}
  BY <1>2, <1>4, RuleConcat
<1>6. Own(w) = Own(m) /\ Rule(m.target) = T /\ Rule(m.facts) = F /\ Rule(w.target) = T
  BY <1>1, <1>2 DEF Own
<1>7. LevelBlocks(m) = Own(m) \cup T \cup F /\ LevelBlocks(w) = Own(m) \cup T \cup (F \cup N)
  BY <1>5, <1>6 DEF LevelBlocks
<1>8. N \cap LevelBlocks(m) = {}
  BY <1>3
<1>9. NodesApart(l.target) /\ NodesApart(l.facts) /\ T \cap F = {} /\ Own(m) \cap (T \cup F) = {}
      /\ (m.expr = m.fact => m.expr = NULL)
  BY <1>1, <1>3, <1>6 DEF LevelApart
<1> HIDE DEF T, F, N
<1>10. F \cap N = {} /\ T \cap (F \cup N) = {} /\ Own(m) \cap (T \cup (F \cup N)) = {}
  BY <1>7, <1>8, <1>9
<1>11. LevelApart(w)
  <2>1. NodesApart(w.target) /\ NodesApart(w.facts)
    BY <1>2, <1>5, <1>9, <1>10
  <2>2. w.expr = w.fact => w.expr = NULL
    BY <1>1, <1>2, <1>9
  <2> QED BY <1>5, <1>6, <1>10, <2>1, <2>2 DEF LevelApart
<1>12. LevelBlocks(w) = LevelBlocks(m) \cup N
  BY <1>7
<1> QED BY <1>3, <1>11, <1>12 DEF w, N

\* An alternative changes its place, not its blocks.
LEMMA AlternativeApart ==
  ASSUME NEW l \in LevelSet, LevelApart(l), l.fact = NULL
  PROVE  LevelApart(Alternative(l)) /\ LevelBlocks(Alternative(l)) = LevelBlocks(l)
<1> DEFINE a == Alternative(l)
           n == ExprNode(l)
           T == Rule(l.target)
           F == Rule(l.facts)
           E == {l.expr} \ {NULL}
<1>1. /\ a \in LevelSet /\ n \in ReadNode
      /\ a.expr = NULL /\ a.facts = <<>> /\ a.fact = l.fact /\ a.target = (l.target \o <<n>>) \o l.facts
  BY AlternativeIs
<1>2. n \in NodeSet /\ NodeBlocks(n) = E
  BY <1>1 DEF ReadNode, ExprNode, Node, NodeBlocks, NULL
<1>3. l.target \in Seq(NodeSet) /\ l.facts \in Seq(NodeSet)
  BY ReadNodeIsNode
<1> HIDE DEF a, n
<1>4. <<n>> \in Seq(NodeSet) /\ Rule(<<n>>) = E /\ NodesApart(<<n>>)
  BY <1>2, RuleOne
<1> DEFINE u == l.target \o <<n>>
<1>5. /\ u \in Seq(NodeSet) /\ Rule(u) = T \cup E
      /\ NodesApart(u) <=> NodesApart(l.target) /\ NodesApart(<<n>>) /\ T \cap E = {}
  BY <1>3, <1>4, RuleConcat
<1>6. a.target = u \o l.facts
  BY <1>1
<1> HIDE DEF u
<1>7. /\ Rule(a.target) = (T \cup E) \cup F
      /\ NodesApart(a.target) <=> NodesApart(u) /\ NodesApart(l.facts) /\ (T \cup E) \cap F = {}
  BY <1>3, <1>5, <1>6, RuleConcat
<1>8. Own(l) = E /\ Own(a) = {}
  BY <1>1 DEF Own
<1>9. NodesApart(l.target) /\ NodesApart(l.facts) /\ T \cap F = {} /\ E \cap (T \cup F) = {}
  BY <1>8 DEF LevelApart
<1>10. Rule(a.facts) = {} /\ NodesApart(a.facts)
  BY <1>1, RuleEmpty
<1> HIDE DEF T, F, E
<1>11. NodesApart(a.target)
  BY <1>4, <1>5, <1>7, <1>9
<1>12. LevelApart(a)
  BY <1>1, <1>8, <1>10, <1>11 DEF LevelApart
<1>13. LevelBlocks(a) = (T \cup E) \cup F /\ LevelBlocks(l) = E \cup T \cup F
  BY <1>7, <1>8, <1>10 DEF LevelBlocks, T, F
<1>14. LevelBlocks(a) = LevelBlocks(l)
  BY <1>13
<1> QED BY <1>12, <1>14 DEF a

\* A level whose only block of its own changes.
LEMMA OwnChanges ==
  ASSUME NEW l \in LevelSet, LevelApart(l), NEW m \in LevelSet,
         m.target = l.target, m.facts = l.facts, m.expr = m.fact => m.expr = NULL,
         Own(m) \cap (Rule(l.target) \cup Rule(l.facts)) = {}
  PROVE  LevelApart(m) /\ LevelBlocks(m) = Own(m) \cup Rule(l.target) \cup Rule(l.facts)
  BY DEF LevelApart, LevelBlocks

\* What holds of the innermost level in every action on it.
LEMMA LevelNow ==
  ASSUME Typed, Owned, pc \in LevelPCs
  PROVE  /\ Level \in LevelSet /\ LevelApart(Level) /\ LevelBlocks(Level) \subseteq live
         /\ NULL \notin LevelBlocks(Level) /\ NULL \notin live
         /\ LevelBlocks(Level) = Own(Level) \cup Rule(Level.target) \cup Rule(Level.facts)
         /\ Front(levels) \in Seq(LevelSet)
         /\ \A l \in LevelSet : SetLevel(l) = Append(Front(levels), l)
<1>1. Level \in LevelSet /\ LevelApart(Level) /\ LevelBlocks(Level) \subseteq live
  BY OwnedLevel
<1>2. NULL \notin live
  BY OwnedParts
<1>3. Front(levels) \in Seq(LevelSet) /\ \A l \in LevelSet : SetLevel(l) = Append(Front(levels), l)
  BY LastLevel
<1>4. LevelBlocks(Level) = Own(Level) \cup Rule(Level.target) \cup Rule(Level.facts)
  BY DEF LevelBlocks
<1> QED BY <1>1, <1>2, <1>3, <1>4

LEMMA ReadAlternativeOwned ==
  ASSUME Typed, Phases, Owned, ReadAlternative PROVE Owned'
<1>0. /\ pc = "alternative" /\ pc \in LevelPCs /\ UNCHANGED <<text, prod, grammar>>
      /\ Level.fact = NULL /\ Level.expr = NULL
  BY DEF ReadAlternative, LevelPCs, Phases
<1>1. CASE Malloc /\ levels' = SetLevel([Level EXCEPT !.expr = Fresh(1)])
  <2> DEFINE x == Fresh(1)
             l == [Level EXCEPT !.expr = x]
             R == Rule(Level.target) \cup Rule(Level.facts)
  <2>1. x \in Nat \ {NULL} /\ x \notin live
    BY FreshIsFree
  <2>2. /\ Level \in LevelSet /\ LevelApart(Level) /\ LevelBlocks(Level) \subseteq live
        /\ LevelBlocks(Level) = Own(Level) \cup Rule(Level.target) \cup Rule(Level.facts)
        /\ \A k \in LevelSet : SetLevel(k) = Append(Front(levels), k)
    BY <1>0, LevelNow
  <2>3. levels' = SetLevel(l) /\ live' = live \cup {x}
    BY <1>1 DEF Malloc
  <2> HIDE DEF x
  <2>4. l \in LevelSet /\ l.expr = x /\ l.fact = NULL /\ l.target = Level.target /\ l.facts = Level.facts
    BY <1>0, <2>1, <2>2 DEF LevelSet
  <2> HIDE DEF l
  <2>5. Own(l) = {x} /\ Own(Level) = {}
    BY <1>0, <2>1, <2>4 DEF Own
  <2>6. LevelApart(l) /\ LevelBlocks(l) = Own(l) \cup Rule(Level.target) \cup Rule(Level.facts)
    <3>1. Own(l) \cap R = {}
      BY <2>1, <2>2, <2>5
    <3> QED BY <2>1, <2>2, <2>4, <3>1, OwnChanges
  <2>7. levels' = Append(Front(levels), l)
    BY <2>2, <2>3, <2>4
  <2> DEFINE X == {x}
             B == LevelBlocks(Level)
  <2>8. /\ LevelBlocks(l) \subseteq B \cup X /\ X \cap live = {} /\ {} \subseteq B
        /\ {} \cap LevelBlocks(l) = {} /\ live' = (live \ {}) \cup X
        /\ (B \ {}) \cup X \subseteq LevelBlocks(l)
    BY <2>1, <2>2, <2>3, <2>5, <2>6
  <2> HIDE DEF X, B
  <2> QED BY <1>0, <2>4, <2>6, <2>7, <2>8, InnerChanges DEF B
<1>2. CASE UNCHANGED <<levels, live>>
  BY <1>0, <1>2, OwnedStays
<1> QED BY <1>1, <1>2 DEF ReadAlternative

\* The nodes of a factor are added to the innermost level.
LEMMA AddFactorOwned ==
  ASSUME Typed, Owned, pc \in LevelPCs, UNCHANGED <<text, prod, grammar>>,
         NEW ns \in Seq(ReadNode), AddFactor(Level, ns), NodesApart(ns),
         NEW X, X \cap live = {}, live' = live \cup X, Rule(ns) = ({Level.fact} \ {NULL}) \cup X
  PROVE  Owned'
<1> DEFINE l == WithFacts(Level, ns)
           B == LevelBlocks(Level)
<1>1. /\ Level \in LevelSet /\ LevelApart(Level) /\ B \subseteq live /\ NULL \notin B /\ NULL \notin live
      /\ \A k \in LevelSet : SetLevel(k) = Append(Front(levels), k)
  BY LevelNow
<1>2. Level.fact = NULL \/ Level.fact \in B
  BY DEF LevelBlocks, Own
<1>3. l \in LevelSet
  BY <1>1, FactAdded
<1>4. levels' = SetLevel(l)
  BY DEF AddFactor, WithFacts
<1> HIDE DEF l, B
<1>5. Rule(ns) \cap (B \ {Level.fact}) = {}
  BY <1>1, <1>2
<1>6. LevelApart(l) /\ LevelBlocks(l) = (B \ {Level.fact}) \cup Rule(ns)
  BY <1>1, <1>5, WithFactsApart DEF l, B
<1>7. levels' = Append(Front(levels), l)
  BY <1>1, <1>3, <1>4
<1>8. /\ LevelBlocks(l) \subseteq B \cup X /\ {} \subseteq B /\ {} \cap LevelBlocks(l) = {}
      /\ live' = (live \ {}) \cup X /\ (B \ {}) \cup X \subseteq LevelBlocks(l)
  BY <1>1, <1>2, <1>6
<1> QED BY <1>3, <1>6, <1>7, <1>8, InnerChanges DEF B

\* A factor is allocated before it is known what it is.
LEMMA FactAllocatedOwned ==
  ASSUME Typed, Owned, pc \in LevelPCs, UNCHANGED <<text, prod, grammar>>, Level.fact = NULL,
         live' = live \cup {Fresh(1)}, levels' = SetLevel([Level EXCEPT !.fact = Fresh(1)])
  PROVE  Owned'
<1> DEFINE x == Fresh(1)
           l == [Level EXCEPT !.fact = x]
           R == Rule(Level.target) \cup Rule(Level.facts)
           B == LevelBlocks(Level)
<1>1. x \in Nat \ {NULL} /\ x \notin live
  BY FreshIsFree
<1>2. /\ Level \in LevelSet /\ LevelApart(Level) /\ B \subseteq live
      /\ B = Own(Level) \cup Rule(Level.target) \cup Rule(Level.facts)
      /\ \A k \in LevelSet : SetLevel(k) = Append(Front(levels), k)
  BY LevelNow
<1>3. levels' = SetLevel(l) /\ live' = live \cup {x}
  OBVIOUS
<1> HIDE DEF x, B
<1>4. l \in LevelSet /\ l.fact = x /\ l.expr = Level.expr /\ l.target = Level.target /\ l.facts = Level.facts
  BY <1>1, <1>2 DEF LevelSet
<1> HIDE DEF l
<1>5. Own(l) = Own(Level) \cup {x} /\ (l.expr = l.fact => l.expr = NULL)
  <2>1. Level.expr \in Own(Level) \/ Level.expr = NULL
    BY DEF Own
  <2>2. Level.expr # x
    BY <1>1, <1>2, <2>1
  <2> QED BY <1>1, <1>4, <2>2 DEF Own
<1>6. LevelApart(l) /\ LevelBlocks(l) = Own(l) \cup Rule(Level.target) \cup Rule(Level.facts)
  <2>1. Own(Level) \cap R = {} /\ R \subseteq live
    BY <1>2 DEF LevelApart
  <2>2. Own(l) \cap R = {}
    BY <1>1, <1>5, <2>1
  <2> QED BY <1>2, <1>4, <1>5, <2>2, OwnChanges
<1>7. levels' = Append(Front(levels), l)
  BY <1>2, <1>3, <1>4
<1> DEFINE X == {x}
<1>8. /\ LevelBlocks(l) \subseteq B \cup X /\ X \cap live = {} /\ {} \subseteq B
      /\ {} \cap LevelBlocks(l) = {} /\ live' = (live \ {}) \cup X
      /\ (B \ {}) \cup X \subseteq LevelBlocks(l)
  BY <1>1, <1>2, <1>3, <1>5, <1>6
<1> HIDE DEF X
<1> QED BY <1>4, <1>6, <1>7, <1>8, InnerChanges DEF B

LEMMA ReadBuiltinOwned ==
  ASSUME Typed, Phases, Owned, ReadBuiltin PROVE Owned'
<1>0. pc = "factor" /\ pc \in LevelPCs /\ UNCHANGED <<text, prod, grammar>> /\ Level.fact = NULL
  BY DEF ReadBuiltin, LevelPCs, Phases
<1> HIDE DEF Here
<1>1. CASE UNCHANGED <<levels, live>>
  BY <1>0, <1>1, OwnedStays
<1> DEFINE ns == <<Node("FACT_RULE_BUILTIN", <<":", Symbol(Here + 1)>>, Fresh(1), Fresh(2))>>
<1>2. CASE Symbol(Here + 1) \in Names /\ live' = live \cup {Fresh(1), Fresh(2)} /\ AddFactor(Level, ns)
  <2>1. /\ Fresh(1) \in Nat \ {NULL} /\ Fresh(2) \in Nat \ {NULL}
        /\ Fresh(1) \notin live /\ Fresh(2) \notin live
    BY FreshIsFree
  <2> DEFINE n == Node("FACT_RULE_BUILTIN", <<":", Symbol(Here + 1)>>, Fresh(1), Fresh(2))
             X == {Fresh(1), Fresh(2)}
  <2>2. n \in ReadNode
    <3>1. <<":", Symbol(Here + 1)>> \in Seq(Shown)
      BY <1>2 DEF Shown
    <3>2. "FACT_RULE_BUILTIN" \in NodeTypes \ {"FACT_RULE_LINKED"} /\ "FACT_RULE_BUILTIN" # "FACT_RULE"
      BY DEF NodeTypes
    <3> QED BY <2>1, <3>1, <3>2, NodeTyped
  <2>3. NodeBlocks(n) = X
    BY <2>1 DEF NodeBlocks, Node
  <2>4. X \cap live = {} /\ live' = live \cup X /\ ns = <<n>> /\ AddFactor(Level, ns)
    BY <1>2, <2>1
  <2>5. n \in NodeSet
    BY <2>2 DEF ReadNode
  <2> HIDE DEF n, X, ns
  <2>6. ns \in Seq(ReadNode) /\ Rule(ns) = X /\ NodesApart(ns)
    BY <2>2, <2>3, <2>4, <2>5, RuleOne
  <2>7. Rule(ns) = ({Level.fact} \ {NULL}) \cup X
    BY <1>0, <2>6
  <2> QED BY <1>0, <2>4, <2>6, <2>7, AddFactorOwned
<1>3. CASE live' = live \cup {Fresh(1)} /\ levels' = SetLevel([Level EXCEPT !.fact = Fresh(1)])
  BY <1>0, <1>3, FactAllocatedOwned
<1>4. Malloc => live' = live \cup {Fresh(1)}
  BY DEF Malloc
<1> HIDE DEF ns
<1> QED BY <1>1, <1>2, <1>3, <1>4 DEF ReadBuiltin, ns

LEMMA ReadOperandOwned ==
  ASSUME Typed, Phases, Owned, ReadOperand PROVE Owned'
<1>0. /\ pc = "operand" /\ pc \in LevelPCs /\ Symbol(Here) \in Names \cup Literals
      /\ UNCHANGED <<text, prod, grammar>> /\ live' = live \cup {Fresh(1)} /\ Level.fact \in live
  BY DEF ReadOperand, Malloc, LevelPCs, Phases
<1> HIDE DEF Here
<1>1. Fresh(1) \in Nat \ {NULL} /\ Fresh(1) \notin live
  BY FreshIsFree
<1>2. NULL \notin live /\ Level.fact \in Nat
  BY <1>0, LevelNow, LevelFields
<1> DEFINE t == IF Symbol(Here) \in Names THEN "FACT_RULE" ELSE "FACT_LITERAL"
           n == Node(t, <<Symbol(Here)>>, Level.fact, Fresh(1))
           ns == <<n>>
           X == {Fresh(1)}
<1>3. AddFactor(Level, ns)
  BY DEF ReadOperand
<1>4. <<Symbol(Here)>> \in Seq(Shown) /\ t \in NodeTypes \ {"FACT_RULE_LINKED"}
      /\ t \in {"FACT_RULE", "FACT_LITERAL", "FACT_RULE_BUILTIN"}
  BY <1>0 DEF Shown, NodeTypes
<1> HIDE DEF t
<1>5. n \in ReadNode
  <2>1. Level.fact # Fresh(1)
    BY <1>0, <1>1
  <2> QED BY <1>1, <1>2, <1>4, <2>1, NodeTyped
<1>6. NodeBlocks(n) = ({Level.fact} \ {NULL}) \cup X
  BY <1>1, <1>4 DEF NodeBlocks, Node
<1>7. n \in NodeSet
  BY <1>5 DEF ReadNode
<1>8. X \cap live = {} /\ live' = live \cup X
  BY <1>0, <1>1
<1> HIDE DEF n, X
<1>9. ns \in Seq(ReadNode) /\ Rule(ns) = ({Level.fact} \ {NULL}) \cup X /\ NodesApart(ns)
  BY <1>5, <1>6, <1>7, RuleOne
<1> HIDE DEF ns
<1> QED BY <1>0, <1>3, <1>8, <1>9, AddFactorOwned

LEMMA OpenCoupleOwned ==
  ASSUME Typed, Owned, OpenCouple PROVE Owned'
<1>1. UNCHANGED <<text, prod, grammar, live>> /\ levels' = Append(levels, NoLevel)
  BY DEF OpenCouple, NoLevel
<1> QED BY <1>1, LevelBegins

LEMMA NotAFactorOwned ==
  ASSUME Typed, Phases, Owned, NotAFactor PROVE Owned'
<1>0. /\ pc \in LevelPCs /\ UNCHANGED <<text, prod, grammar>> /\ Level.fact \in live
      /\ live' = live \ {Level.fact} /\ levels' = SetLevel(WithoutFact(Level))
  BY DEF NotAFactor, WithoutFact, LevelPCs, Phases
<1> DEFINE B == LevelBlocks(Level)
           D == {Level.fact}
           l == WithoutFact(Level)
<1>1. /\ Level \in LevelSet /\ LevelApart(Level) /\ NULL \notin B /\ NULL \notin live
      /\ \A k \in LevelSet : SetLevel(k) = Append(Front(levels), k)
  BY <1>0, LevelNow
<1>2. l \in LevelSet /\ LevelApart(l) /\ LevelBlocks(l) = B \ D
  BY <1>1, FactDropped, WithoutFactApart
<1>3. levels' = Append(Front(levels), l)
  BY <1>0, <1>1, <1>2
<1>4. Level.fact \in B
  BY <1>0, <1>1 DEF LevelBlocks, Own
<1> HIDE DEF B, D, l
<1>5. /\ LevelBlocks(l) \subseteq B \cup {} /\ {} \cap live = {} /\ D \cap LevelBlocks(l) = {}
      /\ (B \ D) \cup {} \subseteq LevelBlocks(l)
  BY <1>2
<1>6. D \subseteq B /\ live' = (live \ D) \cup {}
  BY <1>0, <1>4 DEF D
<1> QED BY <1>0, <1>2, <1>3, <1>5, <1>6, InnerChanges DEF B

LEMMA NoFactorOwned ==
  ASSUME Typed, Phases, Owned, NoFactor PROVE Owned'
<1>0. pc \in LevelPCs /\ UNCHANGED <<text, prod, grammar>> /\ Level.fact = NULL
  BY DEF NoFactor, LevelPCs, Phases
<1> DEFINE B == LevelBlocks(Level)
<1>1. /\ Level \in LevelSet /\ LevelApart(Level) /\ NULL \notin B /\ NULL \notin live
      /\ B = Own(Level) \cup Rule(Level.target) \cup Rule(Level.facts)
      /\ \A k \in LevelSet : SetLevel(k) = Append(Front(levels), k)
  BY <1>0, LevelNow
<1>2. CASE live' = live \ {Level.expr} /\ levels' = SetLevel([Level EXCEPT !.expr = NULL])
  <2> DEFINE l == [Level EXCEPT !.expr = NULL]
             D == {Level.expr} \ {NULL}
  <2>1. /\ l \in LevelSet /\ l.expr = NULL /\ l.fact = NULL /\ l.target = Level.target
        /\ l.facts = Level.facts
    BY <1>0, <1>1 DEF LevelSet, NULL
  <2>2. levels' = SetLevel(l)
    BY <1>2
  <2> HIDE DEF l
  <2>3. levels' = Append(Front(levels), l)
    BY <1>1, <2>1, <2>2
  <2>4. Own(l) = {} /\ Own(Level) = D
    BY <1>0, <2>1 DEF Own
  <2>5. LevelApart(l) /\ LevelBlocks(l) = Own(l) \cup Rule(Level.target) \cup Rule(Level.facts)
    BY <1>1, <2>1, <2>4, OwnChanges
  <2>6. D \cap (Rule(Level.target) \cup Rule(Level.facts)) = {}
    BY <1>1, <2>4 DEF LevelApart
  <2>7. live' = (live \ D) \cup {}
    BY <1>1, <1>2
  <2> HIDE DEF B, D
  <2>8. /\ LevelBlocks(l) \subseteq B \cup {} /\ {} \cap live = {} /\ D \subseteq B
        /\ D \cap LevelBlocks(l) = {} /\ (B \ D) \cup {} \subseteq LevelBlocks(l)
    BY <1>1, <2>4, <2>5, <2>6
  <2> QED BY <1>0, <2>1, <2>3, <2>5, <2>7, <2>8, InnerChanges DEF B
<1>3. CASE levels' = SetLevel(Alternative(Level)) /\ live' = live
  <2> DEFINE l == Alternative(Level)
  <2>1. l \in LevelSet /\ LevelApart(l) /\ LevelBlocks(l) = B
    BY <1>0, <1>1, AlternativeIs, AlternativeApart
  <2>2. levels' = Append(Front(levels), l)
    BY <1>1, <1>3, <2>1
  <2> HIDE DEF l, B
  <2>3. /\ LevelBlocks(l) \subseteq B \cup {} /\ {} \cap live = {} /\ {} \subseteq B
        /\ {} \cap LevelBlocks(l) = {} /\ (B \ {}) \cup {} \subseteq LevelBlocks(l)
        /\ live' = (live \ {}) \cup {}
    BY <1>3, <2>1
  <2> QED BY <1>0, <2>1, <2>2, <2>3, InnerChanges DEF B
<1> QED BY <1>2, <1>3 DEF NoFactor, Alternative

\* At the end of a level nothing but its nodes is left of it.
LEMMA LevelOver ==
  ASSUME Typed, Phases, Owned, pc \in {"or", "no_alternative", "close"}
  PROVE  /\ pc \in LevelPCs /\ LevelBlocks(Level) = Rule(Level.target) /\ NodesApart(Level.target)
         /\ Level.target \in Seq(ReadNode) /\ Level.target \in Seq(NodeSet)
<1>1. pc \in LevelPCs /\ Level.fact = NULL /\ Level.expr = NULL /\ Level.facts = <<>>
  BY DEF Phases, LevelPCs
<1>2. /\ Level \in LevelSet /\ LevelApart(Level)
      /\ LevelBlocks(Level) = Own(Level) \cup Rule(Level.target) \cup Rule(Level.facts)
  BY <1>1, LevelNow
<1>3. Own(Level) = {} /\ Rule(Level.facts) = {}
  BY <1>1, RuleEmpty DEF Own
<1>4. LevelBlocks(Level) = Rule(Level.target)
  BY <1>2, <1>3
<1>5. NodesApart(Level.target)
  BY <1>2 DEF LevelApart
<1> QED BY <1>1, <1>2, <1>4, <1>5, LevelFields, ReadNodesAreNodes

\* A couple fails: its nodes are freed, or its operator is missing.
LEMMA CoupleFailsOwned ==
  ASSUME Typed, Phases, Owned, pc \in {"no_alternative", "close"}, Front(levels) # <<>>,
         UNCHANGED <<text, prod, grammar>>, NEW S, CoupleFails(S),
         S = Rule(Level.target) \/ (S = {} /\ CoupleWithoutOperator)
  PROVE  Owned'
<1>1. pc \in LevelPCs /\ LevelBlocks(Level) = Rule(Level.target)
  BY LevelOver
<1>2. /\ levels' = Append(Front(Front(levels)), WithoutFact(Outer))
      /\ live' = live \ (S \cup {Outer.fact})
  BY <1>1, CoupleFailsIs
<1>3. /\ Outer \in LevelSet /\ LevelApart(Outer) /\ LevelBlocks(Outer) \subseteq live
      /\ LevelBlocks(Outer) \cap LevelBlocks(Level) = {}
  BY <1>1, OwnedOuter
<1>4. NULL \notin live
  BY OwnedParts
<1> DEFINE l == WithoutFact(Outer)
           A == LevelBlocks(Outer)
           B == LevelBlocks(Level)
           x == Outer.fact
           D == S \cup ({x} \ {NULL})
           W == CoupleWithoutOperator
<1>5. l \in LevelSet /\ LevelApart(l) /\ LevelBlocks(l) = A \ {x}
  BY <1>3, <1>4, FactDropped, WithoutFactApart
<1>6. x \in A \/ x = NULL
  BY DEF LevelBlocks, Own
<1>7. levels' = Append(Front(Front(levels)), l) /\ live' = live \ (S \cup {x})
  BY <1>2
<1>8. S = B \/ (S = {} /\ W)
  BY <1>1
<1>9. A \subseteq live /\ A \cap B = {}
  BY <1>3
<1> HIDE DEF l, A, B, x, W
<1>10. /\ LevelBlocks(l) \subseteq A \cup B /\ D \subseteq A \cup B /\ D \cap LevelBlocks(l) = {}
       /\ live' = live \ D
  BY <1>4, <1>5, <1>6, <1>7, <1>8, <1>9
<1>11. W \/ (A \cup B) \ D \subseteq LevelBlocks(l)
  BY <1>4, <1>5, <1>8, <1>9
<1> HIDE DEF D
<1> QED BY <1>1, <1>5, <1>7, <1>10, <1>11, OuterChanges DEF A, B, W

\* The outermost level ends: its nodes are the production's, or freed.
LEMMA LevelsEndOwned ==
  ASSUME Typed, Phases, Owned, pc \in {"or", "no_alternative"}, Front(levels) = <<>>,
         UNCHANGED <<text, grammar>>, levels' = <<>>, NEW es,
         prod' = [prod EXCEPT !.exprs = es],
         \/ es = Level.target /\ live' = live
         \/ es = <<>> /\ live' = live \ Rule(Level.target)
  PROVE  Owned'
<1>1. /\ pc \in LevelPCs /\ LevelBlocks(Level) = Rule(Level.target) /\ NodesApart(Level.target)
      /\ Level.target \in Seq(NodeSet)
  BY LevelOver
<1>2. Level \in LevelSet /\ levels = Append(<<>>, Level)
  <2>1. Level \in LevelSet /\ levels = Append(Front(levels), Level)
    BY <1>1, LastLevel
  <2> HIDE DEF Level
  <2> QED BY <2>1
<1> DEFINE L == LevelsBlocks(levels)
           P == ProdBlocks(prod)
           Q == ProdBlocks(prod')
           E == Rule(es)
           D == L \ E
<1>3. L = Rule(Level.target)
  <2>1. LevelsBlocks(Append(<<>>, Level)) = LevelsBlocks(<<>>) \cup LevelBlocks(Level)
    BY <1>2, LevelsAppend, EmptySeq
  <2> QED BY <1>1, <1>2, <2>1, NoLevels
<1>4. /\ prod \in ProdSet(NodeSet) /\ ProdApart(prod)
      /\ InUse(CoupleWithoutOperator, GrammarBlocks(grammar), P, L, live)
  BY OwnedParts
<1>5. prod.exprs = <<>>
  BY <1>1 DEF Phases
<1>6. es \in Seq(NodeSet) /\ NodesApart(es) /\ E \subseteq L /\ ((E = L /\ live' = live) \/ (E = {} /\ live' = live \ L))
  <2>1. CASE es = Level.target /\ live' = live
    BY <1>1, <1>3, <2>1
  <2>2. CASE es = <<>> /\ live' = live \ Rule(Level.target)
    BY <1>3, <2>2, RuleEmpty, EmptySeq
  <2> QED BY <2>1, <2>2
<1>7. /\ prod'.block = prod.block /\ prod'.identifier = prod.identifier
      /\ prod'.params = prod.params /\ prod'.exprs = es
  <2> HIDE DEF NodeSet
  <2> QED BY <1>4 DEF ProdSet
<1>8. Q = P \cup E
  <2>1. P = Heads(prod) \cup ParamBlocks(prod.params) \cup Rule(<<>>)
    BY <1>5 DEF ProdBlocks, Heads
  <2>2. Q = Heads(prod) \cup ParamBlocks(prod.params) \cup E
    BY <1>7 DEF ProdBlocks, Heads
  <2> HIDE DEF P, Q, E
  <2> QED BY <2>1, <2>2, RuleEmpty
<1>9. P \cap L = {} /\ P \subseteq live /\ L \subseteq live
  BY <1>4 DEF InUse
<1>10. ProdApart(prod')
  <2>1. Heads(prod) \cup ParamBlocks(prod.params) \subseteq P /\ Heads(prod') = Heads(prod)
    BY <1>7 DEF ProdBlocks, Heads
  <2>2. /\ ParamsApart(prod.params) /\ Heads(prod) \cap ParamBlocks(prod.params) = {}
        /\ prod.block = prod.identifier => prod.block = NULL
    BY <1>4 DEF ProdApart
  <2> HIDE DEF P, Q, L
  <2>3. E \cap P = {}
    BY <1>6, <1>9
  <2> QED BY <1>6, <1>7, <2>1, <2>2, <2>3 DEF ProdApart
<1>11. LevelsBlocks(levels') = {}
  BY NoLevels
<1>12. D \subseteq P \cup L /\ {} \cap live = {}
  OBVIOUS
<1>13. live' = (live \ D) \cup {}
  <2> HIDE DEF P, Q, L, E
  <2> QED BY <1>6
<1> HIDE DEF P, Q, L, E
<1>14. /\ D \cap Q = {} /\ D \cap LevelsBlocks(levels') = {}
       /\ Q \subseteq P \cup {} \cup (L \ LevelsBlocks(levels'))
       /\ ((P \cup L) \ D) \cup {} \subseteq Q \cup LevelsBlocks(levels')
  BY <1>6, <1>8, <1>9, <1>11
<1> HIDE DEF D
<1>15. levels' = levels \/ levels' = <<>>
  OBVIOUS
<1> QED BY <1>10, <1>12, <1>13, <1>14, <1>15, ProdChanges DEF P, Q, L

LEMMA ReadOrOwned ==
  ASSUME Typed, Phases, Owned, ReadOr PROVE Owned'
<1>0. pc = "or" /\ UNCHANGED <<text, grammar, live>>
  BY DEF ReadOr
<1>1. pc \in {"or", "no_alternative", "close"}
  BY <1>0
<1>2. pc \in LevelPCs
  BY <1>1, LevelOver
<1>3. /\ Level \in LevelSet /\ levels = Append(Front(levels), Level)
      /\ \A l \in LevelSet : SetLevel(l) = Append(Front(levels), l)
      /\ Len(levels) > 1 <=> Front(levels) # <<>>
  BY <1>2, LastLevel
<1>4. [Level EXCEPT !.target = Level.target] = Level
  BY <1>3 DEF LevelSet
<1>5. CASE UNCHANGED <<levels, prod>>
  BY <1>0, <1>5, OwnedStays
<1>6. CASE EndLoop(Level.target)
  <2>1. CASE Front(levels) # <<>>
    <3>1. levels' = SetLevel(Level) /\ prod' = prod
      BY <1>3, <1>4, <1>6, <2>1 DEF EndLoop
    <3>2. levels' = levels
      BY <1>3, <3>1
    <3> QED BY <1>0, <3>1, <3>2, OwnedStays
  <2>2. CASE Front(levels) = <<>>
    <3>1. levels' = <<>> /\ prod' = [prod EXCEPT !.exprs = Level.target]
      BY <1>3, <1>6, <2>2 DEF EndLoop
    <3>2. pc \in {"or", "no_alternative"}
      BY <1>0
    <3> QED BY <1>0, <2>2, <3>1, <3>2, LevelsEndOwned
  <2> QED BY <2>1, <2>2
<1> QED BY <1>5, <1>6 DEF ReadOr

LEMMA NoAlternativeOwned ==
  ASSUME Typed, Phases, Owned, NoAlternative PROVE Owned'
<1>0. pc = "no_alternative" /\ UNCHANGED <<text, grammar>>
  BY DEF NoAlternative
<1>1. pc \in LevelPCs /\ pc \in {"no_alternative", "close"} /\ pc \in {"or", "no_alternative"}
  BY <1>0 DEF LevelPCs
<1>2. Len(levels) > 1 <=> Front(levels) # <<>>
  BY <1>1, LastLevel
<1>3. CASE Front(levels) # <<>>
  <2>1. CoupleFails(Rule(Level.target)) /\ prod' = prod
    BY <1>2, <1>3 DEF NoAlternative
  <2> QED BY <1>0, <1>1, <1>3, <2>1, CoupleFailsOwned
<1>4. CASE Front(levels) = <<>>
  <2>1. /\ levels' = <<>> /\ prod' = [prod EXCEPT !.exprs = <<>>]
        /\ live' = live \ Rule(Level.target)
    BY <1>2, <1>4 DEF NoAlternative
  <2> QED BY <1>0, <1>1, <1>4, <2>1, LevelsEndOwned
<1> QED BY <1>3, <1>4

LEMMA NotClosedOwned ==
  ASSUME Typed, Phases, Owned, NotClosed PROVE Owned'
<1>1. /\ pc \in {"no_alternative", "close"} /\ CoupleFails(Rule(Level.target))
      /\ UNCHANGED <<text, prod, grammar>> /\ Front(levels) # <<>>
  BY DEF NotClosed, Phases
<1> QED BY <1>1, CoupleFailsOwned

LEMMA NoFeedOwned ==
  ASSUME Typed, Phases, Owned, NoFeed PROVE Owned'
<1>1. /\ pc \in {"no_alternative", "close"} /\ CoupleFails({}) /\ At("]")
      /\ UNCHANGED <<text, prod, grammar>> /\ Front(levels) # <<>>
      /\ Symbol(Skip(Here + 1)) \notin DOMAIN OpFeed
  BY DEF NoFeed, Phases
<1>2. CoupleWithoutOperator
  <2>1. "]" \in Operators
    BY Zenon DEF Operators
  <2>2. Here + 1 \in 1 .. Len(text) /\ text[Here + 1] = "]"
    BY <1>1, <2>1, OperatorAt
  <2>3. DOMAIN text = 1 .. Len(text)
    BY TextIsSeq, LenProperties DEF Typed, StreamTyped
  <2> HIDE DEF Here
  <2> QED BY <1>1, <2>2, <2>3 DEF CoupleWithoutOperator
<1> QED BY <1>1, <1>2, CoupleFailsOwned

\* The nodes of a couple: its factor's block, and what its level points to.
LEMMA CoupleBlocks ==
  ASSUME NEW fact \in Nat, NEW type \in {"FACT_EXPR_NGT", "FACT_EXPR_NGTE", "FACT_EXPR_OPT"},
         NEW target \in Seq(ReadNode), NodesApart(target), fact \notin Rule(target) \ {NULL}
  PROVE  /\ Couple(fact, type, target) \in Seq(ReadNode) /\ NodesApart(Couple(fact, type, target))
         /\ Rule(Couple(fact, type, target)) = ({fact} \ {NULL}) \cup Rule(target)
<1> DEFINE c == Couple(fact, type, target)
           n == CoupleNode(fact, type)
           m == CoupleEnd(type)
<1>1. c \in Seq(ReadNode) /\ c = (<<n>> \o target) \o <<m>> /\ n \in ReadNode /\ m \in ReadNode
  BY CoupleTyped
<1>2. n \in NodeSet /\ m \in NodeSet /\ target \in Seq(NodeSet)
  BY <1>1, ReadNodesAreNodes DEF ReadNode
<1>3. NodeBlocks(n) = {fact} \ {NULL}
  BY DEF CoupleNode, Node, NodeBlocks
<1>4. NodeBlocks(m) = {}
  BY DEF CoupleEnd, Node, NodeBlocks
<1> HIDE DEF c, n, m
<1>5. /\ <<n>> \in Seq(NodeSet) /\ Rule(<<n>>) = {fact} \ {NULL} /\ NodesApart(<<n>>)
      /\ <<m>> \in Seq(NodeSet) /\ Rule(<<m>>) = {} /\ NodesApart(<<m>>)
  BY <1>2, <1>3, <1>4, RuleOne
<1> DEFINE u == <<n>> \o target
           T == Rule(target)
<1>6. /\ u \in Seq(NodeSet) /\ Rule(u) = Rule(<<n>>) \cup T
      /\ NodesApart(u) <=> NodesApart(<<n>>) /\ NodesApart(target) /\ Rule(<<n>>) \cap T = {}
  BY <1>2, <1>5, RuleConcat
<1>7. c = u \o <<m>> /\ fact \notin T \ {NULL}
  BY <1>1
<1> HIDE DEF u
<1>8. /\ Rule(c) = Rule(u) \cup Rule(<<m>>)
      /\ NodesApart(c) <=> NodesApart(u) /\ NodesApart(<<m>>) /\ Rule(u) \cap Rule(<<m>>) = {}
  BY <1>5, <1>6, <1>7, RuleConcat
<1> HIDE DEF T
<1>9. NodesApart(u)
  BY <1>5, <1>6, <1>7
<1>10. NodesApart(c) /\ Rule(c) = ({fact} \ {NULL}) \cup T
  BY <1>5, <1>6, <1>8, <1>9
<1> QED BY <1>1, <1>10 DEF c, T

\* A couple is closed: what its level pointed to belongs to the level around it.
LEMMA CloseCoupleOwned ==
  ASSUME Typed, Phases, Owned, CloseCouple PROVE Owned'
<1>0. /\ pc \in {"or", "no_alternative", "close"} /\ Front(levels) # <<>>
      /\ UNCHANGED <<text, prod, grammar, live>>
  BY DEF CloseCouple, Phases
<1>1. /\ pc \in LevelPCs /\ LevelBlocks(Level) = Rule(Level.target) /\ NodesApart(Level.target)
      /\ Level.target \in Seq(ReadNode)
  BY <1>0, LevelOver
<1>2. /\ Outer \in LevelSet /\ LevelApart(Outer) /\ LevelBlocks(Outer) \subseteq live
      /\ LevelBlocks(Outer) \cap LevelBlocks(Level) = {}
  BY <1>0, <1>1, OwnedOuter
<1>3. NULL \notin live
  BY OwnedParts
<1>4. PICK type \in {"FACT_EXPR_NGT", "FACT_EXPR_NGTE", "FACT_EXPR_OPT"} :
        levels' = Append(Front(Front(levels)), WithFacts(Outer, Couple(Outer.fact, type, Level.target)))
  BY CloseCoupleIs
<1> DEFINE c == Couple(Outer.fact, type, Level.target)
           l == WithFacts(Outer, c)
           A == LevelBlocks(Outer)
           B == LevelBlocks(Level)
           x == Outer.fact
<1>5. x \in Nat /\ (x \in A \/ x = NULL)
  BY <1>2, LevelFields DEF LevelBlocks, Own
<1>6. x \notin Rule(Level.target) \ {NULL}
  BY <1>1, <1>2, <1>5
<1>7. c \in Seq(ReadNode) /\ NodesApart(c) /\ Rule(c) = ({x} \ {NULL}) \cup Rule(Level.target)
  BY <1>1, <1>5, <1>6, CoupleBlocks
<1>8. A \subseteq live /\ A \cap B = {} /\ Rule(c) = ({x} \ {NULL}) \cup B
  BY <1>1, <1>2, <1>7
<1>9. levels' = Append(Front(Front(levels)), l)
  BY <1>4
<1> HIDE DEF c, A, B, x
<1>10. Rule(c) \cap (A \ {x}) = {} /\ NULL \notin A
  BY <1>3, <1>8
<1>11. LevelApart(l) /\ LevelBlocks(l) = (A \ {x}) \cup Rule(c) /\ l \in LevelSet
  BY <1>2, <1>7, <1>10, WithFactsApart, FactAdded DEF A, x
<1> HIDE DEF l
<1>12. /\ LevelBlocks(l) \subseteq A \cup B /\ {} \subseteq A \cup B /\ {} \cap LevelBlocks(l) = {}
       /\ live' = live \ {}
  BY <1>0, <1>5, <1>8, <1>11
<1>13. (A \cup B) \ {} \subseteq LevelBlocks(l)
  BY <1>5, <1>8, <1>10, <1>11
<1> QED BY <1>0, <1>1, <1>9, <1>11, <1>12, <1>13, OuterChanges DEF A, B

-----------------------------------------------------------------------------
(* Ownership at every moment *)

LEMMA InitOwned ==
  ASSUME Init PROVE Owned
<1>1. prod = NoProd /\ levels = <<>> /\ grammar = <<>> /\ live = {}
  BY DEF Init
<1>2. GrammarApart(grammar) /\ GrammarBlocks(grammar) = {}
  BY <1>1, NoGrammar
<1>3. ProdApart(prod) /\ ProdBlocks(prod) = {}
  BY <1>1, NoProdOwned
<1>4. LevelsApart(levels) /\ LevelsBlocks(levels) = {}
  BY <1>1, NoLevels
<1> QED BY <1>1, <1>2, <1>3, <1>4 DEF Owned, InUse

LEMMA StepOwned ==
  ASSUME Typed, Phases, Owned, [Next]_vars PROVE Owned'
<1> HIDE DEF Typed, Phases, Owned
<1>1. CASE ReadName \/ ReadParam \/ ReadParamEnd \/ ReadRule \/ ReadRuleEnd
  BY <1>1, ReadNameOwned, ReadParamOwned, ReadParamEndOwned, ReadRuleOwned, ReadRuleEndOwned
<1>2. CASE ReadAlternative \/ ReadBuiltin \/ ReadOperand \/ OpenCouple \/ NotAFactor
  BY <1>2, ReadAlternativeOwned, ReadBuiltinOwned, ReadOperandOwned, OpenCoupleOwned, NotAFactorOwned
<1>3. CASE NoFactor \/ ReadOr \/ NoAlternative \/ CloseCouple \/ NotClosed \/ NoFeed
  BY <1>3, NoFactorOwned, ReadOrOwned, NoAlternativeOwned, CloseCoupleOwned, NotClosedOwned, NoFeedOwned
<1>4. CASE NoProduction \/ Link \/ FreeBNF
  BY <1>4, NoProductionOwned, LinkOwned, FreeBNFOwned
<1>5. CASE Begin \/ ReadParams \/ ReadParamNext \/ Finished \/ UNCHANGED vars
  <2>1. UNCHANGED <<text, prod, levels, grammar, live>>
    BY <1>5 DEF Begin, ReadParams, ReadParamNext, Finished, vars
  <2> QED BY <2>1, OwnedStays
<1> QED BY <1>1, <1>2, <1>3, <1>4, <1>5 DEF Next

LEMMA OwnedAlways == Spec => []Owned
<1>1. Init => Owned
  BY InitOwned
<1>2. Owned /\ (Typed /\ Phases) /\ [Next]_vars => Owned'
  BY StepOwned
<1> QED BY <1>1, <1>2, TypedAlways, PTL DEF Spec

-----------------------------------------------------------------------------
(* From who points to which block to the pieces of HeldOnce *)

\* The parts of what a production and a level point to.
NameF == [p \in ProdSet(NodeSet) |-> {p.identifier}]
BlockF == [p \in ProdSet(NodeSet) |-> {p.block}]
ExprsF == [p \in ProdSet(NodeSet) |-> Rule(p.exprs)]
ParamsF == [p \in ProdSet(NodeSet) |-> ParamBlocks(p.params)]

ExprF == [l \in LevelSet |-> {l.expr} \ {NULL}]
FactF == [l \in LevelSet |-> {l.fact} \ {NULL}]
FactorsF == [l \in LevelSet |-> Rule(l.target \o l.facts)]

LEMMA BlocksAreNat ==
  /\ \A n \in NodeSet : NodeF[n] \in SUBSET Nat
  /\ \A p \in ParamSet : ParamF[p] \in SUBSET Nat
  /\ \A p \in ProdSet(NodeSet) : BlockF[p] \in SUBSET Nat /\ NameF[p] \in SUBSET Nat
  /\ \A l \in LevelSet : ExprF[l] \in SUBSET Nat /\ FactF[l] \in SUBSET Nat
<1>1. ASSUME NEW n \in NodeSet PROVE NodeF[n] \in SUBSET Nat
  <2>1. n.block \in Nat /\ n.target \in Nat
    BY DEF NodeSet
  <2>2. NodeF[n] = NodeBlocks(n)
    BY DEF NodeF
  <2> QED BY <2>1, <2>2 DEF NodeBlocks
<1>2. ASSUME NEW p \in ParamSet PROVE ParamF[p] \in SUBSET Nat
  BY DEF ParamF, ParamSet
<1>3. ASSUME NEW p \in ProdSet(NodeSet) PROVE BlockF[p] \in SUBSET Nat /\ NameF[p] \in SUBSET Nat
  <2>1. p.block \in Nat /\ p.identifier \in Nat
    BY DEF ProdSet
  <2> QED BY <2>1 DEF BlockF, NameF
<1>4. ASSUME NEW l \in LevelSet PROVE ExprF[l] \in SUBSET Nat /\ FactF[l] \in SUBSET Nat
  <2>1. l.expr \in Nat /\ l.fact \in Nat
    BY LevelFields
  <2> QED BY <2>1 DEF ExprF, FactF
<1> QED BY <1>1, <1>2, <1>3, <1>4

\* The parts of one production.
LEMMA ProdParts ==
  ASSUME NEW p \in ProdSet(NodeSet), ProdApart(p), p.block # NULL, p.identifier # NULL
  PROVE  /\ ProdF[p] = ExprsF[p] \cup ParamsF[p] \cup BlockF[p] \cup NameF[p]
         /\ ExprsF[p] \cap ParamsF[p] = {} /\ ExprsF[p] \cap BlockF[p] = {} /\ ExprsF[p] \cap NameF[p] = {}
         /\ ParamsF[p] \cap BlockF[p] = {} /\ ParamsF[p] \cap NameF[p] = {} /\ BlockF[p] \cap NameF[p] = {}
<1> DEFINE E == Rule(p.exprs)
           A == ParamBlocks(p.params)
<1>1. ExprsF[p] = E /\ ParamsF[p] = A /\ BlockF[p] = {p.block} /\ NameF[p] = {p.identifier}
  BY DEF ExprsF, ParamsF, BlockF, NameF
<1>2. ProdF[p] = ({p.block, p.identifier} \ {NULL}) \cup A \cup E
  BY DEF ProdF, ProdBlocks
<1>3. /\ E \cap A = {} /\ Heads(p) \cap (E \cup A) = {}
      /\ p.block # p.identifier
  BY DEF ProdApart
<1>4. p.block \in Heads(p) /\ p.identifier \in Heads(p)
  BY DEF Heads
<1> HIDE DEF E, A
<1> QED BY <1>1, <1>2, <1>3, <1>4

\* The parts of one level.
LEMMA LevelParts ==
  ASSUME NEW l \in LevelSet, LevelApart(l)
  PROVE  /\ LevelF[l] = FactorsF[l] \cup ExprF[l] \cup FactF[l]
         /\ FactorsF[l] \cap ExprF[l] = {} /\ FactorsF[l] \cap FactF[l] = {} /\ ExprF[l] \cap FactF[l] = {}
         /\ NodesApart(l.target \o l.facts)
<1> DEFINE T == Rule(l.target)
           F == Rule(l.facts)
<1>1. FactorsF[l] = Rule(l.target \o l.facts) /\ ExprF[l] = {l.expr} \ {NULL} /\ FactF[l] = {l.fact} \ {NULL}
  BY DEF FactorsF, ExprF, FactF
<1>2. LevelF[l] = ({l.expr, l.fact} \ {NULL}) \cup T \cup F
  BY DEF LevelF, LevelBlocks, Own
<1>3. /\ NodesApart(l.target) /\ NodesApart(l.facts) /\ T \cap F = {} /\ Own(l) \cap (T \cup F) = {}
      /\ l.expr = l.fact => l.expr = NULL
  BY DEF LevelApart
<1>4. Own(l) = {l.expr, l.fact} \ {NULL}
  BY DEF Own
<1>5. /\ Rule(l.target \o l.facts) = T \cup F
      /\ NodesApart(l.target \o l.facts) <=> NodesApart(l.target) /\ NodesApart(l.facts) /\ T \cap F = {}
  BY ReadNodeIsNode, RuleConcat
<1> HIDE DEF T, F
<1> QED BY <1>1, <1>2, <1>3, <1>4, <1>5

GrammarNodes(g) == FlattenSeq([i \in DOMAIN g |-> g[i].exprs])
GrammarParams(g) == FlattenSeq([i \in DOMAIN g |-> g[i].params])
LevelNodes(ls) == FlattenSeq([i \in DOMAIN ls |-> ls[i].target \o ls[i].facts])

LEMMA GrammarPieces ==
  ASSUME NEW g \in Seq(ProdSet(NodeSet)), GrammarApart(g),
         \A i \in DOMAIN g : g[i].block # NULL /\ g[i].identifier # NULL
  PROVE  /\ GrammarNodes(g) \in Seq(NodeSet) /\ NodesApart(GrammarNodes(g))
         /\ Gathered(NodeF, GrammarNodes(g)) = Gathered(ExprsF, g)
         /\ GrammarParams(g) \in Seq(ParamSet) /\ ParamsApart(GrammarParams(g))
         /\ Gathered(ParamF, GrammarParams(g)) = Gathered(ParamsF, g)
         /\ Apart(BlockF, g) /\ Apart(NameF, g)
<1>n. Len(g) \in Nat
  BY LenProperties
<1>0. PICK n \in Nat : n = Len(g) /\ DOMAIN g = 1 .. n
  BY <1>n, LenProperties
<1>1. /\ \A i \in DOMAIN g : g[i] \in ProdSet(NodeSet) /\ ProdApart(g[i])
      /\ Apart(ProdF, g)
  BY ElementOfSeq, LenProperties DEF GrammarApart
<1>2. ASSUME NEW i \in DOMAIN g
      PROVE  /\ ExprsF[g[i]] \subseteq ProdF[g[i]] /\ ParamsF[g[i]] \subseteq ProdF[g[i]]
             /\ BlockF[g[i]] \subseteq ProdF[g[i]] /\ NameF[g[i]] \subseteq ProdF[g[i]]
  BY <1>1, ProdParts
<1>3. Apart(ExprsF, g) /\ Apart(ParamsF, g) /\ Apart(BlockF, g) /\ Apart(NameF, g)
  BY <1>1, <1>2, PartApart
<1>4. /\ GrammarNodes(g) \in Seq(NodeSet) /\ Apart(NodeF, GrammarNodes(g))
      /\ Gathered(NodeF, GrammarNodes(g)) = Gathered(ExprsF, g)
  <2> DEFINE ss == [i \in DOMAIN g |-> g[i].exprs]
  <2>1. ASSUME NEW i \in DOMAIN g
        PROVE  /\ g[i].exprs \in Seq(NodeSet) /\ Apart(NodeF, g[i].exprs)
               /\ ExprsF[g[i]] = Gathered(NodeF, g[i].exprs)
    <3>1. g[i].exprs \in Seq(NodeSet)
      BY <1>1 DEF ProdSet
    <3>2. Apart(NodeF, g[i].exprs)
      BY <1>1 DEF ProdApart, NodesApart
    <3>3. ExprsF[g[i]] = Rule(g[i].exprs)
      BY <1>1 DEF ExprsF
    <3> QED BY <3>1, <3>2, <3>3, RuleIs
  <2>2. DOMAIN g = DOMAIN ss /\ \A i \in DOMAIN g : ss[i] = g[i].exprs
    OBVIOUS
  <2>3. ss \in Seq(Seq(NodeSet))
    BY <1>0, <2>1
  <2>4. GrammarNodes(g) = FlattenSeq(ss)
    BY DEF GrammarNodes
  <2> HIDE DEF ss
  <2>5. \A i \in DOMAIN g : Apart(NodeF, ss[i]) /\ ExprsF[g[i]] = Gathered(NodeF, ss[i])
    BY <2>1, <2>2
  <2>6. /\ FlattenSeq(ss) \in Seq(NodeSet) /\ Apart(NodeF, FlattenSeq(ss))
        /\ Gathered(NodeF, FlattenSeq(ss)) = Gathered(ExprsF, g)
    BY <1>3, <2>2, <2>3, <2>5, FlattenedParts
  <2> QED BY <2>4, <2>6
<1>5. /\ GrammarParams(g) \in Seq(ParamSet) /\ Apart(ParamF, GrammarParams(g))
      /\ Gathered(ParamF, GrammarParams(g)) = Gathered(ParamsF, g)
  <2> DEFINE ss == [i \in DOMAIN g |-> g[i].params]
  <2>1. ASSUME NEW i \in DOMAIN g
        PROVE  /\ g[i].params \in Seq(ParamSet) /\ Apart(ParamF, g[i].params)
               /\ ParamsF[g[i]] = Gathered(ParamF, g[i].params)
    <3>1. g[i].params \in Seq(ParamSet)
      BY <1>1 DEF ProdSet
    <3>2. Apart(ParamF, g[i].params)
      BY <1>1 DEF ProdApart, ParamsApart
    <3>3. ParamsF[g[i]] = ParamBlocks(g[i].params)
      BY <1>1 DEF ParamsF
    <3> QED BY <3>1, <3>2, <3>3, ParamBlocksIs
  <2>2. DOMAIN g = DOMAIN ss /\ \A i \in DOMAIN g : ss[i] = g[i].params
    OBVIOUS
  <2>3. ss \in Seq(Seq(ParamSet))
    BY <1>0, <2>1
  <2>4. GrammarParams(g) = FlattenSeq(ss)
    BY DEF GrammarParams
  <2> HIDE DEF ss
  <2>5. \A i \in DOMAIN g : Apart(ParamF, ss[i]) /\ ParamsF[g[i]] = Gathered(ParamF, ss[i])
    BY <2>1, <2>2
  <2>6. /\ FlattenSeq(ss) \in Seq(ParamSet) /\ Apart(ParamF, FlattenSeq(ss))
        /\ Gathered(ParamF, FlattenSeq(ss)) = Gathered(ParamsF, g)
    BY <1>3, <2>2, <2>3, <2>5, FlattenedParts
  <2> QED BY <2>4, <2>6
<1> QED BY <1>3, <1>4, <1>5 DEF NodesApart, ParamsApart

LEMMA GrammarSplits ==
  ASSUME NEW g \in Seq(ProdSet(NodeSet)), GrammarApart(g),
         \A i \in DOMAIN g : g[i].block # NULL /\ g[i].identifier # NULL,
         NEW N, N = Gathered(ExprsF, g), NEW P, P = Gathered(ParamsF, g),
         NEW B, B = Gathered(BlockF, g), NEW I, I = Gathered(NameF, g)
  PROVE  /\ Gathered(ProdF, g) = N \cup P \cup B \cup I
         /\ N \cap P = {} /\ N \cap B = {} /\ N \cap I = {} /\ P \cap B = {} /\ P \cap I = {} /\ B \cap I = {}
<1>1. /\ \A i \in DOMAIN g : g[i] \in ProdSet(NodeSet) /\ ProdApart(g[i])
      /\ Apart(ProdF, g)
  BY ElementOfSeq, LenProperties DEF GrammarApart
<1>2. ASSUME NEW i \in DOMAIN g
      PROVE  /\ ProdF[g[i]] = ExprsF[g[i]] \cup ParamsF[g[i]] \cup BlockF[g[i]] \cup NameF[g[i]]
             /\ ExprsF[g[i]] \cap ParamsF[g[i]] = {} /\ ExprsF[g[i]] \cap BlockF[g[i]] = {}
             /\ ExprsF[g[i]] \cap NameF[g[i]] = {} /\ ParamsF[g[i]] \cap BlockF[g[i]] = {}
             /\ ParamsF[g[i]] \cap NameF[g[i]] = {} /\ BlockF[g[i]] \cap NameF[g[i]] = {}
  BY <1>1, ProdParts
<1>3. /\ N \cap P = {} /\ N \cap B = {} /\ N \cap I = {} /\ P \cap B = {} /\ P \cap I = {} /\ B \cap I = {}
  <2>1. ASSUME NEW i \in DOMAIN g
        PROVE  /\ ExprsF[g[i]] \subseteq ProdF[g[i]] /\ ParamsF[g[i]] \subseteq ProdF[g[i]]
               /\ BlockF[g[i]] \subseteq ProdF[g[i]] /\ NameF[g[i]] \subseteq ProdF[g[i]]
    BY <1>2
  <2>2. N \cap P = {}
    BY <1>1, <1>2, <2>1, TwoPartsApart
  <2>3. N \cap B = {}
    BY <1>1, <1>2, <2>1, TwoPartsApart
  <2>4. N \cap I = {}
    BY <1>1, <1>2, <2>1, TwoPartsApart
  <2>5. P \cap B = {}
    BY <1>1, <1>2, <2>1, TwoPartsApart
  <2>6. P \cap I = {}
    BY <1>1, <1>2, <2>1, TwoPartsApart
  <2>7. B \cap I = {}
    BY <1>1, <1>2, <2>1, TwoPartsApart
  <2> QED BY <2>2, <2>3, <2>4, <2>5, <2>6, <2>7
<1>4. /\ \A x : x \in N <=> \E i \in DOMAIN g : x \in ExprsF[g[i]]
      /\ \A x : x \in P <=> \E i \in DOMAIN g : x \in ParamsF[g[i]]
      /\ \A x : x \in B <=> \E i \in DOMAIN g : x \in BlockF[g[i]]
      /\ \A x : x \in I <=> \E i \in DOMAIN g : x \in NameF[g[i]]
      /\ \A x : x \in Gathered(ProdF, g) <=> \E i \in DOMAIN g : x \in ProdF[g[i]]
  BY GatheredIs
<1>5. \A i \in DOMAIN g : \A x :
        x \in ProdF[g[i]] <=> \/ x \in ExprsF[g[i]] \/ x \in ParamsF[g[i]]
                              \/ x \in BlockF[g[i]] \/ x \in NameF[g[i]]
  BY <1>2
<1>6. \A x : x \in Gathered(ProdF, g) <=> x \in N \/ x \in P \/ x \in B \/ x \in I
  BY <1>4, <1>5, Zenon
<1>7. Gathered(ProdF, g) = N \cup P \cup B \cup I
  <2> DEFINE A == Gathered(ProdF, g)
  <2> HIDE DEF A
  <2> SUFFICES A = N \cup P \cup B \cup I
    BY DEF A
  <2> QED BY <1>6 DEF A
<1> QED BY <1>3, <1>7

LEMMA LevelPieces ==
  ASSUME NEW ls \in Seq(LevelSet), LevelsApart(ls)
  PROVE  /\ LevelNodes(ls) \in Seq(NodeSet) /\ NodesApart(LevelNodes(ls))
         /\ Gathered(NodeF, LevelNodes(ls)) = Gathered(FactorsF, ls)
         /\ Apart(ExprF, ls) /\ Apart(FactF, ls)
<1>n. Len(ls) \in Nat
  BY LenProperties
<1>0. PICK n \in Nat : n = Len(ls) /\ DOMAIN ls = 1 .. n
  BY <1>n, LenProperties
<1>1. /\ \A i \in DOMAIN ls : ls[i] \in LevelSet /\ LevelApart(ls[i])
      /\ Apart(LevelF, ls)
  BY ElementOfSeq, LenProperties DEF LevelsApart
<1>2. ASSUME NEW i \in DOMAIN ls
      PROVE  /\ FactorsF[ls[i]] \subseteq LevelF[ls[i]] /\ ExprF[ls[i]] \subseteq LevelF[ls[i]]
             /\ FactF[ls[i]] \subseteq LevelF[ls[i]]
  BY <1>1, LevelParts
<1>3. Apart(FactorsF, ls) /\ Apart(ExprF, ls) /\ Apart(FactF, ls)
  BY <1>1, <1>2, PartApart
<1> DEFINE ss == [i \in DOMAIN ls |-> ls[i].target \o ls[i].facts]
<1>4. ASSUME NEW i \in DOMAIN ls
      PROVE  /\ ls[i].target \o ls[i].facts \in Seq(NodeSet) /\ Apart(NodeF, ls[i].target \o ls[i].facts)
             /\ FactorsF[ls[i]] = Gathered(NodeF, ls[i].target \o ls[i].facts)
  <2>1. ls[i].target \o ls[i].facts \in Seq(NodeSet)
    BY <1>1, ReadNodeIsNode, ConcatProperties
  <2>2. Apart(NodeF, ls[i].target \o ls[i].facts)
    BY <1>1, LevelParts DEF NodesApart
  <2>3. FactorsF[ls[i]] = Rule(ls[i].target \o ls[i].facts)
    BY <1>1 DEF FactorsF
  <2> QED BY <2>1, <2>2, <2>3, RuleIs
<1>5. DOMAIN ls = DOMAIN ss /\ \A i \in DOMAIN ls : ss[i] = ls[i].target \o ls[i].facts
  OBVIOUS
<1>6. ss \in Seq(Seq(NodeSet))
  BY <1>0, <1>4
<1>7. LevelNodes(ls) = FlattenSeq(ss)
  BY DEF LevelNodes
<1> HIDE DEF ss
<1>8. \A i \in DOMAIN ls : Apart(NodeF, ss[i]) /\ FactorsF[ls[i]] = Gathered(NodeF, ss[i])
  BY <1>4, <1>5
<1>9. /\ FlattenSeq(ss) \in Seq(NodeSet) /\ Apart(NodeF, FlattenSeq(ss))
      /\ Gathered(NodeF, FlattenSeq(ss)) = Gathered(FactorsF, ls)
  BY <1>3, <1>5, <1>6, <1>8, FlattenedParts
<1> QED BY <1>3, <1>7, <1>9 DEF NodesApart

LEMMA LevelsSplit ==
  ASSUME NEW ls \in Seq(LevelSet), LevelsApart(ls),
         NEW N, N = Gathered(FactorsF, ls), NEW X, X = Gathered(ExprF, ls), NEW F, F = Gathered(FactF, ls)
  PROVE  /\ LevelsBlocks(ls) = N \cup X \cup F
         /\ N \cap X = {} /\ N \cap F = {} /\ X \cap F = {}
<1>1. /\ \A i \in DOMAIN ls : ls[i] \in LevelSet /\ LevelApart(ls[i])
      /\ Apart(LevelF, ls)
  BY ElementOfSeq, LenProperties DEF LevelsApart
<1>2. ASSUME NEW i \in DOMAIN ls
      PROVE  /\ LevelF[ls[i]] = FactorsF[ls[i]] \cup ExprF[ls[i]] \cup FactF[ls[i]]
             /\ FactorsF[ls[i]] \cap ExprF[ls[i]] = {} /\ FactorsF[ls[i]] \cap FactF[ls[i]] = {}
             /\ ExprF[ls[i]] \cap FactF[ls[i]] = {}
  BY <1>1, LevelParts
<1>3. ASSUME NEW i \in DOMAIN ls
      PROVE  /\ FactorsF[ls[i]] \subseteq LevelF[ls[i]] /\ ExprF[ls[i]] \subseteq LevelF[ls[i]]
             /\ FactF[ls[i]] \subseteq LevelF[ls[i]]
  BY <1>2
<1>4. N \cap X = {}
  BY <1>1, <1>2, <1>3, TwoPartsApart
<1>5. N \cap F = {}
  BY <1>1, <1>2, <1>3, TwoPartsApart
<1>6. X \cap F = {}
  BY <1>1, <1>2, <1>3, TwoPartsApart
<1>7. /\ \A x : x \in N <=> \E i \in DOMAIN ls : x \in FactorsF[ls[i]]
      /\ \A x : x \in X <=> \E i \in DOMAIN ls : x \in ExprF[ls[i]]
      /\ \A x : x \in F <=> \E i \in DOMAIN ls : x \in FactF[ls[i]]
      /\ \A x : x \in LevelsBlocks(ls) <=> \E i \in DOMAIN ls : x \in LevelF[ls[i]]
  BY GatheredIs DEF LevelsBlocks
<1>8. \A i \in DOMAIN ls : \A x :
        x \in LevelF[ls[i]] <=> x \in FactorsF[ls[i]] \/ x \in ExprF[ls[i]] \/ x \in FactF[ls[i]]
  BY <1>2
<1> DEFINE A == LevelsBlocks(ls)
<1>9. \A x : x \in A <=> x \in N \/ x \in X \/ x \in F
  BY <1>7, <1>8, Zenon
<1> HIDE DEF A
<1>10. A = N \cup X \cup F
  BY <1>9
<1> QED BY <1>4, <1>5, <1>6, <1>10 DEF A

LEMMA ProdSplits ==
  ASSUME Typed, Owned
  PROVE  /\ ProdBlocks(prod) = Rule(prod.exprs) \cup ParamBlocks(prod.params) \cup ({prod.identifier} \ {NULL})
         /\ Rule(prod.exprs) \cap ParamBlocks(prod.params) = {}
         /\ Rule(prod.exprs) \cap ({prod.identifier} \ {NULL}) = {}
         /\ ParamBlocks(prod.params) \cap ({prod.identifier} \ {NULL}) = {}
<1>1. prod.block = NULL /\ ProdApart(prod)
  BY OwnedParts
<1> DEFINE E == Rule(prod.exprs)
           A == ParamBlocks(prod.params)
<1>2. ProdBlocks(prod) = ({prod.block, prod.identifier} \ {NULL}) \cup A \cup E
  BY DEF ProdBlocks
<1>3. E \cap A = {} /\ Heads(prod) \cap (E \cup A) = {}
  BY <1>1 DEF ProdApart
<1>4. Heads(prod) = {prod.identifier} \ {NULL}
  BY <1>1 DEF Heads
<1> HIDE DEF E, A
<1>5. /\ ProdBlocks(prod) = E \cup A \cup ({prod.identifier} \ {NULL})
      /\ E \cap A = {} /\ E \cap ({prod.identifier} \ {NULL}) = {} /\ A \cap ({prod.identifier} \ {NULL}) = {}
  BY <1>1, <1>2, <1>3, <1>4
<1> QED BY <1>5 DEF E, A

\* One more sequence of sets.
LEMMA PiecesGrow ==
  ASSUME NEW s \in Seq(SUBSET Nat), NEW t \in Seq(SUBSET Nat),
         Apart(Identity(Nat), s), Apart(Identity(Nat), t),
         NEW A, A = Gathered(Identity(Nat), s), NEW B, B = Gathered(Identity(Nat), t), A \cap B = {}
  PROVE  /\ s \o t \in Seq(SUBSET Nat) /\ Apart(Identity(Nat), s \o t)
         /\ Gathered(Identity(Nat), s \o t) = A \cup B
<1>1. s \o t \in Seq(SUBSET Nat)
  BY ConcatProperties
<1>2. /\ Gathered(Identity(Nat), s \o t) = Gathered(Identity(Nat), s) \cup Gathered(Identity(Nat), t)
      /\ Apart(Identity(Nat), s \o t) <=> /\ Apart(Identity(Nat), s) /\ Apart(Identity(Nat), t)
                       /\ Gathered(Identity(Nat), s) \cap Gathered(Identity(Nat), t) = {}
  BY ConcatApart, Zenon
<1> QED BY <1>1, <1>2

\* The pieces of one kind.
LEMMA PiecesOf ==
  ASSUME NEW S, NEW s \in Seq(S), NEW f, \A x \in S : f[x] \in SUBSET Nat, Apart(f, s),
         NEW t, t = [i \in DOMAIN s |-> f[s[i]]]
  PROVE  /\ t \in Seq(SUBSET Nat) /\ Apart(Identity(Nat), t)
         /\ Gathered(Identity(Nat), t) = Gathered(f, s)
<1>n. Len(s) \in Nat
  BY LenProperties
<1>1. PICK n \in Nat : n = Len(s) /\ DOMAIN s = 1 .. n
  BY <1>n, LenProperties
<1>2. \A i \in 1 .. n : s[i] \in S
  BY <1>1, ElementOfSeq
<1>3. \A i \in 1 .. n : f[s[i]] \in SUBSET Nat
  BY <1>2
<1>4. t = [i \in 1 .. n |-> f[s[i]]]
  BY <1>1
<1>5. t \in Seq(SUBSET Nat) /\ DOMAIN t = 1 .. n /\ \A i \in 1 .. n : t[i] = f[s[i]]
  BY <1>3, <1>4
<1>6. \A i \in 1 .. n : Identity(Nat)[t[i]] = f[s[i]]
  BY <1>3, <1>5 DEF Identity
<1>7. \A x : x \in Gathered(Identity(Nat), t) <=> \E i \in DOMAIN t : x \in Identity(Nat)[t[i]]
  BY GatheredIs
<1>8. \A x : x \in Gathered(f, s) <=> \E i \in DOMAIN s : x \in f[s[i]]
  BY GatheredIs
<1>9. \A x : x \in Gathered(Identity(Nat), t) <=> x \in Gathered(f, s)
  BY <1>1, <1>5, <1>6, <1>7, <1>8
<1>10. Apart(Identity(Nat), t)
  BY <1>1, <1>5, <1>6, ZenonT(30) DEF Apart
<1> QED BY <1>5, <1>9, <1>10

\* The sequences Pieces is made of.
NodePieces == [i \in DOMAIN Nodes |-> NodeBlocks(Nodes[i])]
ParamPieces == [i \in DOMAIN Params |-> Params[i].blocks]
BlockPieces == [i \in DOMAIN grammar |-> {grammar[i].block}]
NamePieces == [i \in DOMAIN grammar |-> {grammar[i].identifier}]
ExprPieces == [i \in DOMAIN levels |-> {levels[i].expr} \ {NULL}]
FactPieces == [i \in DOMAIN levels |-> {levels[i].fact} \ {NULL}]

LEMMA NodePiecesAre ==
  ASSUME Typed, Owned
  PROVE  /\ NodePieces \in Seq(SUBSET Nat) /\ Apart(Identity(Nat), NodePieces)
         /\ Gathered(Identity(Nat), NodePieces)
              = Gathered(ExprsF, grammar) \cup Rule(prod.exprs) \cup Gathered(FactorsF, levels)
<1> DEFINE g == GrammarNodes(grammar)
           p == prod.exprs
           l == LevelNodes(levels)
           G == Gathered(ExprsF, grammar)
           P == Rule(prod.exprs)
           L == Gathered(FactorsF, levels)
<1>1. /\ grammar \in Seq(ProdSet(NodeSet)) /\ GrammarApart(grammar) /\ prod.exprs \in Seq(NodeSet)
      /\ levels \in Seq(LevelSet) /\ LevelsApart(levels) /\ ProdApart(prod)
  BY OwnedParts
<1>2. \A i \in DOMAIN grammar : grammar[i].block # NULL /\ grammar[i].identifier # NULL
  BY DEF Typed, GrammarTyped
<1>3. g \in Seq(NodeSet) /\ NodesApart(g) /\ Gathered(NodeF, g) = G
  BY <1>1, <1>2, GrammarPieces
<1>4. l \in Seq(NodeSet) /\ NodesApart(l) /\ Gathered(NodeF, l) = L
  BY <1>1, LevelPieces
<1>5. p \in Seq(NodeSet) /\ NodesApart(p)
  BY <1>1 DEF ProdApart
<1>6. G \cap P = {} /\ G \cap L = {} /\ P \cap L = {}
  <2>1. /\ GrammarBlocks(grammar) = Gathered(ProdF, grammar)
        /\ InUse(CoupleWithoutOperator, GrammarBlocks(grammar), ProdBlocks(prod), LevelsBlocks(levels), live)
    BY <1>1, OwnedParts, GrammarBlocksIs
  <2>2. G \subseteq Gathered(ProdF, grammar)
    BY <1>1, <1>2, GrammarSplits
  <2>3. L \subseteq LevelsBlocks(levels)
    BY <1>1, LevelsSplit
  <2>4. P \subseteq ProdBlocks(prod)
    BY ProdSplits
  <2> HIDE DEF G, P, L
  <2> QED BY <2>1, <2>2, <2>3, <2>4 DEF InUse
<1>7. Nodes = (g \o p) \o l
  BY DEF Nodes, GrammarNodes, LevelNodes
<1>8. Rule(g) = G /\ Rule(l) = L /\ Rule(p) = P
  BY <1>3, <1>4, RuleIs
<1> HIDE DEF g, p, l, G, P, L
<1> DEFINE u == g \o p
<1>9. /\ u \in Seq(NodeSet) /\ Rule(u) = Rule(g) \cup Rule(p)
      /\ NodesApart(u) <=> NodesApart(g) /\ NodesApart(p) /\ Rule(g) \cap Rule(p) = {}
  BY <1>3, <1>5, RuleConcat
<1>10. Nodes = u \o l
  BY <1>7
<1> HIDE DEF u
<1>11. /\ u \o l \in Seq(NodeSet) /\ Rule(u \o l) = Rule(u) \cup Rule(l)
       /\ NodesApart(u \o l) <=> NodesApart(u) /\ NodesApart(l) /\ Rule(u) \cap Rule(l) = {}
  BY <1>4, <1>9, RuleConcat
<1> HIDE DEF Nodes
<1>12. NodesApart(u)
  BY <1>3, <1>5, <1>6, <1>8, <1>9
<1>13. Rule(u) = G \cup P /\ Rule(l) = L
  BY <1>8, <1>9
<1>14. Rule(u) \cap Rule(l) = {} /\ Rule(u) \cup Rule(l) = G \cup P \cup L
  BY <1>6, <1>13
<1>15. Nodes \in Seq(NodeSet) /\ NodesApart(Nodes) /\ Rule(Nodes) = G \cup P \cup L
  BY <1>4, <1>10, <1>11, <1>12, <1>14
<1>16. Apart(NodeF, Nodes) /\ Gathered(NodeF, Nodes) = G \cup P \cup L
  BY <1>15, RuleIs DEF NodesApart
<1>17. \A n \in NodeSet : NodeF[n] \in SUBSET Nat
  BY BlocksAreNat
<1>18. NodePieces = [i \in DOMAIN Nodes |-> NodeF[Nodes[i]]]
  <2>1. \A i \in DOMAIN Nodes : Nodes[i] \in NodeSet
    BY <1>15, ElementOfSeq, LenProperties
  <2>2. \A i \in DOMAIN Nodes : NodeF[Nodes[i]] = NodeBlocks(Nodes[i])
    BY <2>1 DEF NodeF
  <2> QED BY <2>2 DEF NodePieces
<1> QED BY <1>15, <1>16, <1>17, <1>18, PiecesOf DEF G, P, L

LEMMA ParamPiecesAre ==
  ASSUME Typed, Owned
  PROVE  /\ ParamPieces \in Seq(SUBSET Nat) /\ Apart(Identity(Nat), ParamPieces)
         /\ Gathered(Identity(Nat), ParamPieces) = Gathered(ParamsF, grammar) \cup ParamBlocks(prod.params)
<1> DEFINE g == GrammarParams(grammar)
           p == prod.params
           G == Gathered(ParamsF, grammar)
           P == ParamBlocks(prod.params)
<1>1. /\ grammar \in Seq(ProdSet(NodeSet)) /\ GrammarApart(grammar) /\ prod.params \in Seq(ParamSet)
      /\ ProdApart(prod)
  BY OwnedParts
<1>2. \A i \in DOMAIN grammar : grammar[i].block # NULL /\ grammar[i].identifier # NULL
  BY DEF Typed, GrammarTyped
<1>3. g \in Seq(ParamSet) /\ Apart(ParamF, g) /\ Gathered(ParamF, g) = G
  BY <1>1, <1>2, GrammarPieces DEF ParamsApart
<1>4. p \in Seq(ParamSet) /\ Apart(ParamF, p) /\ Gathered(ParamF, p) = P
  BY <1>1, ParamBlocksIs DEF ProdApart, ParamsApart
<1>5. G \cap P = {}
  <2>1. /\ GrammarBlocks(grammar) = Gathered(ProdF, grammar)
        /\ InUse(CoupleWithoutOperator, GrammarBlocks(grammar), ProdBlocks(prod), LevelsBlocks(levels), live)
    BY <1>1, OwnedParts, GrammarBlocksIs
  <2>2. G \subseteq Gathered(ProdF, grammar)
    BY <1>1, <1>2, GrammarSplits
  <2>3. P \subseteq ProdBlocks(prod)
    BY ProdSplits
  <2> HIDE DEF G, P
  <2> QED BY <2>1, <2>2, <2>3 DEF InUse
<1>6. Params = g \o p
  BY DEF Params, GrammarParams
<1> HIDE DEF g, p, G, P, Params
<1>7. Params \in Seq(ParamSet)
  BY <1>3, <1>4, <1>6, ConcatProperties
<1>8. /\ Gathered(ParamF, g \o p) = Gathered(ParamF, g) \cup Gathered(ParamF, p)
      /\ Apart(ParamF, g \o p) <=> /\ Apart(ParamF, g) /\ Apart(ParamF, p)
                                   /\ Gathered(ParamF, g) \cap Gathered(ParamF, p) = {}
  BY <1>3, <1>4, ConcatApart, Zenon
<1>9. Apart(ParamF, Params) /\ Gathered(ParamF, Params) = G \cup P
  BY <1>3, <1>4, <1>5, <1>6, <1>8
<1>10. \A n \in ParamSet : ParamF[n] \in SUBSET Nat
  BY BlocksAreNat
<1>11. ParamPieces = [i \in DOMAIN Params |-> ParamF[Params[i]]]
  <2>1. \A i \in DOMAIN Params : Params[i] \in ParamSet
    BY <1>7, ElementOfSeq, LenProperties
  <2>2. \A i \in DOMAIN Params : ParamF[Params[i]] = Params[i].blocks
    BY <2>1 DEF ParamF
  <2> QED BY <2>2 DEF ParamPieces
<1> QED BY <1>7, <1>9, <1>10, <1>11, PiecesOf DEF G, P

LEMMA HeadPiecesAre ==
  ASSUME Typed, Owned
  PROVE  /\ BlockPieces \in Seq(SUBSET Nat) /\ Apart(Identity(Nat), BlockPieces)
         /\ Gathered(Identity(Nat), BlockPieces) = Gathered(BlockF, grammar)
         /\ NamePieces \in Seq(SUBSET Nat) /\ Apart(Identity(Nat), NamePieces)
         /\ Gathered(Identity(Nat), NamePieces) = Gathered(NameF, grammar)
         /\ ExprPieces \in Seq(SUBSET Nat) /\ Apart(Identity(Nat), ExprPieces)
         /\ Gathered(Identity(Nat), ExprPieces) = Gathered(ExprF, levels)
         /\ FactPieces \in Seq(SUBSET Nat) /\ Apart(Identity(Nat), FactPieces)
         /\ Gathered(Identity(Nat), FactPieces) = Gathered(FactF, levels)
<1>1. /\ grammar \in Seq(ProdSet(NodeSet)) /\ GrammarApart(grammar)
      /\ levels \in Seq(LevelSet) /\ LevelsApart(levels)
  BY OwnedParts
<1>2. \A i \in DOMAIN grammar : grammar[i].block # NULL /\ grammar[i].identifier # NULL
  BY DEF Typed, GrammarTyped
<1>3. Apart(BlockF, grammar) /\ Apart(NameF, grammar)
  BY <1>1, <1>2, GrammarPieces
<1>4. Apart(ExprF, levels) /\ Apart(FactF, levels)
  BY <1>1, LevelPieces
<1>5. /\ \A i \in DOMAIN grammar : grammar[i] \in ProdSet(NodeSet)
      /\ \A i \in DOMAIN levels : levels[i] \in LevelSet
  BY <1>1, ElementOfSeq, LenProperties
<1>6. /\ BlockPieces = [i \in DOMAIN grammar |-> BlockF[grammar[i]]]
      /\ NamePieces = [i \in DOMAIN grammar |-> NameF[grammar[i]]]
  <2>1. \A i \in DOMAIN grammar : /\ BlockF[grammar[i]] = {grammar[i].block}
                                  /\ NameF[grammar[i]] = {grammar[i].identifier}
    BY <1>5 DEF BlockF, NameF
  <2> QED BY <2>1 DEF BlockPieces, NamePieces
<1>7. /\ ExprPieces = [i \in DOMAIN levels |-> ExprF[levels[i]]]
      /\ FactPieces = [i \in DOMAIN levels |-> FactF[levels[i]]]
  <2>1. \A i \in DOMAIN levels : /\ ExprF[levels[i]] = {levels[i].expr} \ {NULL}
                                 /\ FactF[levels[i]] = {levels[i].fact} \ {NULL}
    BY <1>5 DEF ExprF, FactF
  <2> QED BY <2>1 DEF ExprPieces, FactPieces
<1>8. /\ \A p \in ProdSet(NodeSet) : BlockF[p] \in SUBSET Nat
      /\ \A p \in ProdSet(NodeSet) : NameF[p] \in SUBSET Nat
      /\ \A l \in LevelSet : ExprF[l] \in SUBSET Nat
      /\ \A l \in LevelSet : FactF[l] \in SUBSET Nat
  BY BlocksAreNat
<1>9. /\ BlockPieces \in Seq(SUBSET Nat) /\ Apart(Identity(Nat), BlockPieces)
      /\ Gathered(Identity(Nat), BlockPieces) = Gathered(BlockF, grammar)
  BY <1>1, <1>3, <1>6, <1>8, PiecesOf, SMTT(30)
<1>10. /\ NamePieces \in Seq(SUBSET Nat) /\ Apart(Identity(Nat), NamePieces)
       /\ Gathered(Identity(Nat), NamePieces) = Gathered(NameF, grammar)
  BY <1>1, <1>3, <1>6, <1>8, PiecesOf
<1>11. /\ ExprPieces \in Seq(SUBSET Nat) /\ Apart(Identity(Nat), ExprPieces)
       /\ Gathered(Identity(Nat), ExprPieces) = Gathered(ExprF, levels)
  BY <1>1, <1>4, <1>7, <1>8, PiecesOf
<1>12. /\ FactPieces \in Seq(SUBSET Nat) /\ Apart(Identity(Nat), FactPieces)
       /\ Gathered(Identity(Nat), FactPieces) = Gathered(FactF, levels)
  BY <1>1, <1>4, <1>7, <1>8, PiecesOf
<1> QED BY <1>9, <1>10, <1>11, <1>12

LEMMA PiecesOwned ==
  ASSUME Typed, Owned
  PROVE  /\ Pieces \in Seq(SUBSET Nat) /\ Apart(Identity(Nat), Pieces)
         /\ Gathered(Identity(Nat), Pieces)
              = GrammarBlocks(grammar) \cup ProdBlocks(prod) \cup LevelsBlocks(levels)
<1> DEFINE gn == Gathered(ExprsF, grammar)
           gp == Gathered(ParamsF, grammar)
           gb == Gathered(BlockF, grammar)
           gi == Gathered(NameF, grammar)
           pn == Rule(prod.exprs)
           pp == ParamBlocks(prod.params)
           pi == {prod.identifier} \ {NULL}
           ln == Gathered(FactorsF, levels)
           le == Gathered(ExprF, levels)
           lf == Gathered(FactF, levels)
           G == GrammarBlocks(grammar)
           P == ProdBlocks(prod)
           L == LevelsBlocks(levels)
           I == <<pi>>
<1>1. /\ G = gn \cup gp \cup gb \cup gi /\ P = pn \cup pp \cup pi /\ L = ln \cup le \cup lf
      /\ gn \cap gp = {} /\ gn \cap gb = {} /\ gn \cap gi = {}
      /\ gp \cap gb = {} /\ gp \cap gi = {} /\ gb \cap gi = {}
      /\ pn \cap pp = {} /\ pn \cap pi = {} /\ pp \cap pi = {}
      /\ ln \cap le = {} /\ ln \cap lf = {} /\ le \cap lf = {}
      /\ (gn \cup gp \cup gb \cup gi) \cap (pn \cup pp \cup pi) = {}
      /\ (gn \cup gp \cup gb \cup gi) \cap (ln \cup le \cup lf) = {}
      /\ (pn \cup pp \cup pi) \cap (ln \cup le \cup lf) = {}
  <2>0. /\ gn = Gathered(ExprsF, grammar) /\ gp = Gathered(ParamsF, grammar)
        /\ gb = Gathered(BlockF, grammar) /\ gi = Gathered(NameF, grammar)
        /\ ln = Gathered(FactorsF, levels) /\ le = Gathered(ExprF, levels) /\ lf = Gathered(FactF, levels)
    OBVIOUS
  <2>1. /\ grammar \in Seq(ProdSet(NodeSet)) /\ GrammarApart(grammar)
        /\ levels \in Seq(LevelSet) /\ LevelsApart(levels) /\ G = Gathered(ProdF, grammar)
        /\ InUse(CoupleWithoutOperator, G, P, L, live)
    BY OwnedParts, GrammarBlocksIs
  <2>2. \A i \in DOMAIN grammar : grammar[i].block # NULL /\ grammar[i].identifier # NULL
    BY DEF Typed, GrammarTyped
  <2>3. P = pn \cup pp \cup pi /\ pn \cap pp = {} /\ pn \cap pi = {} /\ pp \cap pi = {}
    BY ProdSplits
  <2> HIDE DEF gn, gp, gb, gi, pn, pp, pi, ln, le, lf, G, P
  <2>4. /\ G = gn \cup gp \cup gb \cup gi
        /\ gn \cap gp = {} /\ gn \cap gb = {} /\ gn \cap gi = {}
        /\ gp \cap gb = {} /\ gp \cap gi = {} /\ gb \cap gi = {}
    BY <2>0, <2>1, <2>2, GrammarSplits
  <2>5. L = ln \cup le \cup lf /\ ln \cap le = {} /\ ln \cap lf = {} /\ le \cap lf = {}
    BY <2>0, <2>1, LevelsSplit
  <2> HIDE DEF L
  <2>6. /\ (gn \cup gp \cup gb \cup gi) \cap (pn \cup pp \cup pi) = {}
        /\ (gn \cup gp \cup gb \cup gi) \cap (ln \cup le \cup lf) = {}
        /\ (pn \cup pp \cup pi) \cap (ln \cup le \cup lf) = {}
    BY <2>1, <2>3, <2>4, <2>5 DEF InUse
  <2> QED BY <2>3, <2>4, <2>5, <2>6
<1>2. /\ NodePieces \in Seq(SUBSET Nat) /\ Apart(Identity(Nat), NodePieces)
      /\ Gathered(Identity(Nat), NodePieces) = gn \cup pn \cup ln
  BY NodePiecesAre
<1>3. /\ ParamPieces \in Seq(SUBSET Nat) /\ Apart(Identity(Nat), ParamPieces)
      /\ Gathered(Identity(Nat), ParamPieces) = gp \cup pp
  BY ParamPiecesAre
<1>4. /\ BlockPieces \in Seq(SUBSET Nat) /\ Apart(Identity(Nat), BlockPieces)
      /\ Gathered(Identity(Nat), BlockPieces) = gb
      /\ NamePieces \in Seq(SUBSET Nat) /\ Apart(Identity(Nat), NamePieces)
      /\ Gathered(Identity(Nat), NamePieces) = gi
      /\ ExprPieces \in Seq(SUBSET Nat) /\ Apart(Identity(Nat), ExprPieces)
      /\ Gathered(Identity(Nat), ExprPieces) = le
      /\ FactPieces \in Seq(SUBSET Nat) /\ Apart(Identity(Nat), FactPieces)
      /\ Gathered(Identity(Nat), FactPieces) = lf
  BY HeadPiecesAre
<1>5. /\ I \in Seq(SUBSET Nat) /\ Apart(Identity(Nat), I)
      /\ Gathered(Identity(Nat), I) = pi
  <2>1. prod.identifier \in Nat
    <3>1. prod \in ProdSet(NodeSet)
      BY OwnedParts
    <3> QED BY <3>1 DEF ProdSet
  <2>2. pi \in SUBSET Nat
    BY <2>1
  <2> HIDE DEF pi
  <2>3. I \in Seq(SUBSET Nat) /\ Identity(Nat)[pi] = pi
    BY <2>2 DEF Identity
  <2> QED BY <2>3, OneApart
<1>6. Pieces = (((((NodePieces \o ParamPieces) \o BlockPieces) \o NamePieces) \o I) \o ExprPieces) \o FactPieces
  BY DEF Pieces, NodePieces, ParamPieces, BlockPieces, NamePieces, ExprPieces, FactPieces
<1> DEFINE s1 == NodePieces \o ParamPieces
           s2 == s1 \o BlockPieces
           s3 == s2 \o NamePieces
           s4 == s3 \o I
           s5 == s4 \o ExprPieces
           s6 == s5 \o FactPieces
           A1 == (gn \cup pn \cup ln) \cup (gp \cup pp)
           A2 == A1 \cup gb
           A3 == A2 \cup gi
           A4 == A3 \cup pi
           A5 == A4 \cup le
           A6 == A5 \cup lf
<1>7. Pieces = s6
  BY <1>6
<1> HIDE DEF gn, gp, gb, gi, pn, pp, pi, ln, le, lf, G, P, L, I
<1>8. s1 \in Seq(SUBSET Nat) /\ Apart(Identity(Nat), s1) /\ Gathered(Identity(Nat), s1) = A1
  <2>1. (gn \cup pn \cup ln) \cap (gp \cup pp) = {}
    BY <1>1
  <2> QED BY <1>2, <1>3, <2>1, PiecesGrow
<1> HIDE DEF s1
<1>9. s2 \in Seq(SUBSET Nat) /\ Apart(Identity(Nat), s2) /\ Gathered(Identity(Nat), s2) = A2
  <2>1. A1 \cap gb = {}
    BY <1>1
  <2> HIDE DEF A1
  <2> QED BY <1>4, <1>8, <2>1, PiecesGrow
<1> HIDE DEF s2
<1>10. s3 \in Seq(SUBSET Nat) /\ Apart(Identity(Nat), s3) /\ Gathered(Identity(Nat), s3) = A3
  <2>1. A2 \cap gi = {}
    BY <1>1
  <2> HIDE DEF A2
  <2> QED BY <1>4, <1>9, <2>1, PiecesGrow
<1> HIDE DEF s3
<1>11. s4 \in Seq(SUBSET Nat) /\ Apart(Identity(Nat), s4) /\ Gathered(Identity(Nat), s4) = A4
  <2>1. A3 \cap pi = {}
    BY <1>1
  <2> HIDE DEF A3
  <2> QED BY <1>5, <1>10, <2>1, PiecesGrow
<1> HIDE DEF s4
<1>12. s5 \in Seq(SUBSET Nat) /\ Apart(Identity(Nat), s5) /\ Gathered(Identity(Nat), s5) = A5
  <2>1. A4 \cap le = {}
    BY <1>1
  <2> HIDE DEF A4
  <2> QED BY <1>4, <1>11, <2>1, PiecesGrow
<1> HIDE DEF s5
<1>13. s6 \in Seq(SUBSET Nat) /\ Apart(Identity(Nat), s6) /\ Gathered(Identity(Nat), s6) = A6
  <2>1. A5 \cap lf = {}
    BY <1>1
  <2> HIDE DEF A5
  <2> QED BY <1>4, <1>12, <2>1, PiecesGrow
<1> HIDE DEF s6
<1>14. A6 = G \cup P \cup L
  BY <1>1
<1> HIDE DEF A6
<1> QED BY <1>7, <1>13, <1>14 DEF G, P, L

LEMMA HeldIs ==
  ASSUME Typed, Owned
  PROVE  /\ Held = GrammarBlocks(grammar) \cup ProdBlocks(prod) \cup LevelsBlocks(levels)
         /\ UNION Range(Pieces) = Held /\ HeldOnce
<1> DEFINE ps == Pieces
<1>1. /\ ps \in Seq(SUBSET Nat) /\ Apart(Identity(Nat), ps)
      /\ Gathered(Identity(Nat), ps) = GrammarBlocks(grammar) \cup ProdBlocks(prod) \cup LevelsBlocks(levels)
  BY PiecesOwned
<1>2. Held = UNION Range(ps) /\ (HeldOnce <=> /\ UNION Range(ps) \subseteq live
                                              /\ \A j \in DOMAIN ps : \A i \in 1 .. j - 1 : ps[i] \cap ps[j] = {})
  BY DEF Held, HeldOnce
<1>3. InUse(CoupleWithoutOperator, GrammarBlocks(grammar), ProdBlocks(prod), LevelsBlocks(levels), live)
  BY DEF Owned
<1> HIDE DEF ps
<1>n. Len(ps) \in Nat
  BY <1>1, LenProperties
<1>4. PICK n \in Nat : n = Len(ps) /\ DOMAIN ps = 1 .. n
  BY <1>1, <1>n, LenProperties
<1>5. \A i \in DOMAIN ps : Identity(Nat)[ps[i]] = ps[i]
  <2>1. \A i \in DOMAIN ps : ps[i] \in SUBSET Nat
    BY <1>1, <1>4, ElementOfSeq
  <2> QED BY <2>1 DEF Identity
<1>6. \A x : x \in Gathered(Identity(Nat), ps) <=> \E i \in DOMAIN ps : x \in Identity(Nat)[ps[i]]
  BY GatheredIs
<1>7. \A x : x \in UNION Range(ps) <=> \E i \in DOMAIN ps : x \in ps[i]
  BY DEF Range
<1>8. \A x : x \in UNION Range(ps) <=> x \in Gathered(Identity(Nat), ps)
  BY <1>5, <1>6, <1>7
<1>9. UNION Range(ps) = Gathered(Identity(Nat), ps)
  BY <1>8
<1>10. \A j \in 1 .. n : \A i \in 1 .. j - 1 : ps[i] \cap ps[j] = {}
  <2> SUFFICES ASSUME NEW j \in 1 .. n, NEW i \in 1 .. j - 1 PROVE ps[i] \cap ps[j] = {}
    OBVIOUS
  <2>1. i \in 1 .. n /\ i # j
    OBVIOUS
  <2> QED BY <1>1, <1>4, <1>5, <2>1 DEF Apart
<1>11. Gathered(Identity(Nat), ps) \subseteq live
  BY <1>1, <1>3 DEF InUse
<1> QED BY <1>1, <1>2, <1>4, <1>9, <1>10, <1>11 DEF ps

\* Nothing that a production, a parameter, an expression or a factor points to was
\* freed, and no two of them point to the same block, on no path of the descent,
\* the linking and the freeing.
THEOREM NothingFreedTwice == Spec => []HeldOnce
<1>1. Typed /\ Phases /\ Owned => HeldOnce
  BY HeldIs
<1> QED BY <1>1, TypedAlways, OwnedAlways, PTL

\* But for the expressions of a couple whose operator is missing, every block that
\* malloc returned and nobody freed is one that something still points to.
THEOREM NothingIsLost == Spec => []NothingLeaks
<1>1. Typed /\ Phases /\ Owned => NothingLeaks
  <2> SUFFICES ASSUME Typed, Owned, ~CoupleWithoutOperator PROVE live = Held
    BY DEF NothingLeaks
  <2>1. InUse(CoupleWithoutOperator, GrammarBlocks(grammar), ProdBlocks(prod), LevelsBlocks(levels), live)
    BY DEF Owned
  <2> DEFINE A == GrammarBlocks(grammar) \cup ProdBlocks(prod) \cup LevelsBlocks(levels)
  <2>2. A \subseteq live /\ live \subseteq A
    BY <2>1 DEF InUse
  <2>3. Held = A
    BY HeldIs
  <2> HIDE DEF A
  <2> QED BY <2>2, <2>3
<1> QED BY <1>1, TypedAlways, OwnedAlways, PTL

-----------------------------------------------------------------------------
(* What the linking links *)

\* A factor is linked to the first production of its name.
Resolves(g, fact) ==
  \E j \in DOMAIN g : /\ g[j].block = fact.target /\ g[j].name = Last(fact.text)
                      /\ \A h \in 1 .. j - 1 : g[h].name # g[j].name
Resolved(g) == \A i \in DOMAIN g : \A k \in DOMAIN g[i].exprs :
                 g[i].exprs[k].type = "FACT_RULE_LINKED" => Resolves(g, g[i].exprs[k])
NoNameLeft(g) == \A i \in DOMAIN g : \A k \in DOMAIN g[i].exprs : g[i].exprs[k].type # "FACT_RULE"

\* The inductive form of LinksResolve.
Linking ==
  /\ pc \in {"link", "done"} => Resolved(grammar)
  /\ pc = "done" => NoNameLeft(grammar)

LEMMA EmptyResolved == Resolved(<<>>) /\ NoNameLeft(<<>>)
<1>1. DOMAIN <<>> = {}
  OBVIOUS
<1> QED BY <1>1 DEF Resolved, NoNameLeft

\* Nothing is linked before read_prodloop ends.
LEMMA ReadResolved ==
  ASSUME Typed, pc \notin LastPCs
  PROVE  Resolved(grammar)
<1>1. grammar \in Seq(ProdSet(ReadNode))
  BY DEF Typed, GrammarTyped
<1>2. ASSUME NEW i \in DOMAIN grammar, NEW k \in DOMAIN grammar[i].exprs
      PROVE  grammar[i].exprs[k].type # "FACT_RULE_LINKED"
  <2>1. grammar[i] \in ProdSet(ReadNode)
    BY <1>1, ElementOfSeq, LenProperties
  <2>2. grammar[i].exprs \in Seq(ReadNode)
    BY <2>1 DEF ProdSet
  <2>3. grammar[i].exprs[k] \in ReadNode
    BY <2>2, ElementOfSeq, LenProperties
  <2> QED BY <2>3 DEF ReadNode
<1> QED BY <1>2 DEF Resolved

LEMMA LinkResolves ==
  ASSUME Typed, Linking, Link PROVE Linking'
<1>0. pc = "link" /\ Resolved(grammar) /\ grammar \in Seq(ProdSet(NodeSet))
  <2>1. pc = "link"
    BY Zenon DEF Link
  <2> QED BY <2>1 DEF Linking, Typed, GrammarTyped
<1>1. CASE Unlinked = {} /\ pc' = "done" /\ UNCHANGED <<grammar, live>>
  <2>1. ASSUME NEW i \in DOMAIN grammar, NEW k \in DOMAIN grammar[i].exprs,
               grammar[i].exprs[k].type = "FACT_RULE"
        PROVE  FALSE
    <3>1. <<i, k>> \in Unlinked
      BY <2>1 DEF Unlinked
    <3> QED BY <1>1, <3>1
  <2>2. NoNameLeft(grammar)
    BY <2>1 DEF NoNameLeft
  <2> QED BY <1>0, <1>1, <2>2 DEF Linking
<1>2. CASE \E i \in DOMAIN grammar : \E k \in DOMAIN grammar[i].exprs : Links(i, k)
  <2>1. PICK i \in DOMAIN grammar : \E k \in DOMAIN grammar[i].exprs : Links(i, k)
    BY <1>2
  <2>2. PICK k \in DOMAIN grammar[i].exprs : Links(i, k)
    BY <2>1
  <2>3. CASE grammar' = <<>> /\ pc' = "done"
    BY <2>3, EmptyResolved DEF Linking
  <2>4. CASE LinkTarget(i, k) # NULL /\ grammar' = LinkedGrammar(i, k) /\ pc' = pc
    <3> DEFINE g == LinkedGrammar(i, k)
               n == Linked(grammar[i].exprs[k], LinkTarget(i, k))
               es == LinkedExprs(i, k)
    <3>1. /\ DOMAIN es = DOMAIN grammar[i].exprs
          /\ \A m \in DOMAIN grammar[i].exprs : es[m] = IF m = k THEN n ELSE grammar[i].exprs[m]
          /\ DOMAIN g = DOMAIN grammar
          /\ \A j \in DOMAIN grammar : g[j] = IF j = i THEN WithExprs(grammar[i], es) ELSE grammar[j]
          /\ es \in Seq(NodeSet)
      BY LinkedGrammarIs
    <3>2. grammar[i] \in ProdSet(NodeSet) /\ grammar[i].exprs[k] \in NodeSet /\ LinkTarget(i, k) \in Nat
      BY GrammarFields, LinkTargetTyped DEF LinkTarget
    <3>3. n.target = LinkTarget(i, k) /\ n.text = grammar[i].exprs[k].text
      BY <3>2, LinkedNode
    <3>4. PICK t \in DOMAIN grammar :
            /\ grammar[t].block = LinkTarget(i, k) /\ grammar[t].name = Last(grammar[i].exprs[k].text)
            /\ \A h \in 1 .. t - 1 : grammar[h].name # Last(grammar[i].exprs[k].text)
      BY <1>0, <2>4, SeekTargetIs DEF LinkTarget
    <3>5. Resolves(grammar, n)
      BY <3>3, <3>4 DEF Resolves
    <3>6. /\ WithExprs(grammar[i], es).exprs = es /\ WithExprs(grammar[i], es).block = grammar[i].block
          /\ WithExprs(grammar[i], es).name = grammar[i].name
      BY <3>1, <3>2, ExprsReplaced
    <3> HIDE DEF g, n, es
    <3>7. \A j \in DOMAIN grammar : g[j].block = grammar[j].block /\ g[j].name = grammar[j].name
      BY <3>1, <3>6
    <3>8. ASSUME NEW f, Resolves(grammar, f) PROVE Resolves(g, f)
      <4>1. PICK j \in DOMAIN grammar :
              /\ grammar[j].block = f.target /\ grammar[j].name = Last(f.text)
              /\ \A h \in 1 .. j - 1 : grammar[h].name # grammar[j].name
        BY <3>8 DEF Resolves
      <4>2. \A h \in 1 .. j - 1 : h \in DOMAIN grammar
        <5>l. Len(grammar) \in Nat /\ DOMAIN grammar = 1 .. Len(grammar)
          BY <1>0, LenProperties
        <5>m. Len(grammar) \in Nat
          BY <5>l
        <5>1. PICK l \in Nat : l = Len(grammar)
          BY <5>m
        <5>2. j \in 1 .. l /\ DOMAIN grammar = 1 .. l
          BY <5>l, <5>1
        <5> QED BY <5>2
      <4>3. \A h \in 1 .. j - 1 : g[h].name # g[j].name
        BY <3>7, <4>1, <4>2
      <4> QED BY <3>1, <3>7, <4>1, <4>3 DEF Resolves
    <3>9. ASSUME NEW j \in DOMAIN g, NEW m \in DOMAIN g[j].exprs, g[j].exprs[m].type = "FACT_RULE_LINKED"
          PROVE  Resolves(g, g[j].exprs[m])
      <4>1. CASE j = i
        <5>1. g[j].exprs = es /\ m \in DOMAIN grammar[i].exprs
          BY <3>1, <3>6, <3>9, <4>1
        <5>2. CASE m = k
          BY <3>1, <3>5, <3>8, <5>1, <5>2
        <5>3. CASE m # k
          <6>1. g[j].exprs[m] = grammar[i].exprs[m]
            BY <3>1, <5>1, <5>3
          <6> QED BY <1>0, <3>8, <3>9, <5>1, <6>1 DEF Resolved
        <5> QED BY <5>2, <5>3
      <4>2. CASE j # i
        <5>1. g[j] = grammar[j] /\ j \in DOMAIN grammar
          BY <3>1, <3>9, <4>2
        <5> QED BY <1>0, <3>8, <3>9, <5>1 DEF Resolved
      <4> QED BY <4>1, <4>2
    <3>10. Resolved(g)
      BY <3>9 DEF Resolved
    <3>11. grammar' = g /\ pc' = "link"
      BY <1>0, <2>4 DEF g
    <3> QED BY <3>10, <3>11 DEF Linking
  <2> QED BY <2>2, <2>3, <2>4 DEF Links
<1> QED BY <1>0, <1>1, <1>2, LinkIs

LEMMA StepLinks ==
  ASSUME Typed, Phases, Linking, [Next]_vars PROVE Linking'
<1>1. CASE Link
  BY <1>1, LinkResolves
<1>2. CASE NoProduction
  <2>1. pc \notin LastPCs
    BY <1>2 DEF NoProduction, LastPCs
  <2>2. Resolved(grammar)
    BY <2>1, ReadResolved
  <2> QED BY <1>2, <2>2, EmptyResolved DEF NoProduction, Linking
<1>3. CASE Begin
  BY <1>3, EmptyResolved DEF Begin, Phases, Linking
<1>4. CASE UNCHANGED vars \/ Finished
  BY <1>4 DEF Finished, vars, Linking
<1>5. CASE FreeBNF \/ ReadName \/ ReadParams \/ ReadParamNext \/ ReadParamEnd \/ ReadRule \/ ReadRuleEnd
  <2>1. pc' \notin {"link", "done"}
    BY <1>5 DEF FreeBNF, ReadName, ReadParams, ReadParamNext, ReadParamEnd, WithoutParams, ReadRule, ReadRuleEnd
  <2> QED BY <2>1 DEF Linking
<1>6. CASE ReadParam
  <2>1. pc' \notin {"link", "done"}
    BY <1>6 DEF ReadParam, NoParam
  <2> QED BY <2>1 DEF Linking
<1>7. CASE ReadAlternative \/ ReadBuiltin \/ ReadOperand \/ OpenCouple \/ NotAFactor \/ NoFactor \/ ReadOr
  <2>1. pc' \notin {"link", "done"}
    BY <1>7 DEF ReadAlternative, ReadBuiltin, ReadOperand, OpenCouple, NotAFactor, NoFactor, ReadOr,
                AddFactor, EndLoop
  <2> QED BY <2>1 DEF Linking
<1>8. CASE NoAlternative \/ CloseCouple \/ NotClosed \/ NoFeed
  <2>1. pc' \notin {"link", "done"}
    BY <1>8 DEF NoAlternative, CloseCouple, NotClosed, NoFeed, CoupleFails
  <2> QED BY <2>1 DEF Linking
<1> QED BY <1>1, <1>2, <1>3, <1>4, <1>5, <1>6, <1>7, <1>8 DEF Next

\* In a grammar that was accepted, each factor that names a rule points to the
\* first production of that name, which is one of this grammar.
THEOREM LinksAreResolved == Spec => []LinksResolve
<1>1. Init => Linking
  BY DEF Init, Linking
<1>2. Linking /\ (Typed /\ Phases) /\ [Next]_vars => Linking'
  BY StepLinks
<1>3. Linking => LinksResolve
  BY DEF Linking, LinksResolve, Accepted, Resolved, Resolves, NoNameLeft
<1> QED BY <1>1, <1>2, <1>3, TypedAlways, PTL DEF Spec

-----------------------------------------------------------------------------
(* What stands behind a separator *)

\* NoDanglingSeparator for the i-th symbol.
Followed(i) ==
  /\ text[i] = "|" => Symbol(Skip(i)) \in Names \cup Literals \cup {":", "["}
  /\ text[i] = Comma => Symbol(Skip(i)) \in Names

\* The last symbol that was consumed is a separator, and what follows is being read.
PendingPCs == {"alternative", "factor", "operand", "no_factor", "no_alternative"}
Pending ==
  \/ /\ pc \in PendingPCs
     /\ Level.target # <<>> /\ Level.facts = <<>> /\ text[pos] = "|"
  \/ pc = "param" /\ prod.params # <<>>

\* The inductive form of NoDanglingSeparator.
Separated == e = ERR_NONE => \A i \in 1 .. pos : Followed(i) \/ (i = pos /\ Pending)

LEMMA FollowedSame ==
  ASSUME text' = text
  PROVE  \A i : Followed(i)' <=> Followed(i)
<1>1. \A n : Symbol(n)' = Symbol(n)
  BY Zenon DEF Symbol
<1>2. \A n : Skip(n)' = Skip(n)
  BY Zenon DEF Skip, Symbol
<1>3. \A n : Symbol(Skip(n))' = Symbol(Skip(n))
  BY <1>2, Zenon DEF Symbol
<1> QED BY <1>3, Zenon DEF Followed

LEMMA NoSeparator ==
  /\ \A x \in Names \cup Literals \cup {"(", ")", ":", "=", OP_RULE_END, "[", "]", "+", "*", "?", Blank} :
       x # "|" /\ x # Comma
  /\ "|" # Comma
<1>1. \A x \in Names \cup Literals : x \notin Marks
  BY BnfReaderAssumption
<1> QED BY <1>1, Zenon DEF Marks, Blank, Comma, OP_RULE_END

\* What is no separator is followed by anything.
LEMMA FollowedAnyway ==
  ASSUME NEW i, text[i] # "|", text[i] # Comma PROVE Followed(i)
  BY DEF Followed

\* The blanks behind the first n symbols.
LEMMA FollowedBlanks ==
  ASSUME Typed, NEW n \in 0 .. Len(text)
  PROVE  \A i \in n + 1 .. Skip(n) : Followed(i)
<1>t. text \in Texts
  BY DEF Typed, StreamTyped
<1>l. Len(text) \in Nat
  BY <1>t, TextIsSeq
<1>1. PICK l \in Nat : l = Len(text)
  BY <1>l
<1>2. n \in 0 .. l
  BY <1>1
<1>3. Skip(n) \in n .. l /\ \A i \in n .. Skip(n) - 1 : Symbol(i) = Blank
  BY <1>t, <1>1, <1>2, SkipIs
<1> HIDE DEF Skip
<1>4. ASSUME NEW i \in n + 1 .. Skip(n) PROVE Followed(i)
  <2>1. i - 1 \in n .. Skip(n) - 1 /\ i - 1 \in Nat /\ i - 1 < l /\ (i - 1) + 1 = i
    BY <1>2, <1>3, <1>4
  <2>2. Symbol(i - 1) = Blank
    BY <1>3, <2>1
  <2>3. text[i] = Blank
    BY <1>1, <2>1, <2>2 DEF Symbol
  <2> QED BY <2>3, NoSeparator, FollowedAnyway
<1> QED BY <1>4

\* The next symbol was consumed behind the first n ones, and it is no separator.
LEMMA FollowedThrough ==
  ASSUME Typed, NEW n \in 0 .. Len(text), Symbol(Skip(n)) # "|", Symbol(Skip(n)) # Comma,
         Symbol(Skip(n)) # End
  PROVE  /\ Skip(n) + 1 \in 1 .. Len(text) /\ Skip(n) \in Nat /\ n \in Nat
         /\ \A i \in n + 1 .. Skip(n) + 1 : Followed(i)
<1>t. text \in Texts
  BY DEF Typed, StreamTyped
<1>l. Len(text) \in Nat
  BY <1>t, TextIsSeq
<1>1. PICK l \in Nat : l = Len(text)
  BY <1>l
<1>2. Skip(n) \in n .. l /\ n \in 0 .. l
  BY <1>t, <1>1, SkipIs
<1>3. \A i \in n + 1 .. Skip(n) : Followed(i)
  BY FollowedBlanks
<1> HIDE DEF Skip
<1>4. Skip(n) \in Nat
  BY <1>2
<1>5. Skip(n) + 1 \in 1 .. Len(text) /\ text[Skip(n) + 1] = Symbol(Skip(n))
  BY <1>t, <1>4, WithinText
<1>6. Followed(Skip(n) + 1)
  BY <1>5, FollowedAnyway
<1>7. \A i \in n + 1 .. Skip(n) + 1 : i \in n + 1 .. Skip(n) \/ i = Skip(n) + 1
  BY <1>2
<1> QED BY <1>2, <1>3, <1>4, <1>5, <1>6, <1>7

\* Every separator consumed so far is followed as it should be.
AllFollowed == \A i \in 1 .. pos : Followed(i)

LEMMA NonePending ==
  ASSUME Separated, e = ERR_NONE, ~Pending \/ Followed(pos) PROVE AllFollowed
  BY DEF Separated, AllFollowed

\* Nothing was consumed.
LEMMA KeepsSeparated ==
  ASSUME Separated, text' = text, pos' = pos,
         e' = ERR_NONE => e = ERR_NONE /\ (Pending => Pending')
  PROVE  Separated'
<1>1. SUFFICES ASSUME e' = ERR_NONE, NEW i \in 1 .. pos PROVE Followed(i)' \/ (i = pos /\ Pending')
  BY DEF Separated
<1>2. Followed(i) \/ (i = pos /\ Pending)
  BY <1>1 DEF Separated
<1> QED BY <1>1, <1>2, FollowedSame

\* What was consumed is followed as it should be.
LEMMA ConsumesSeparated ==
  ASSUME text' = text, e' = ERR_NONE => \A i \in 1 .. pos' : Followed(i)
  PROVE  Separated'
<1>1. SUFFICES ASSUME e' = ERR_NONE, NEW i \in 1 .. pos' PROVE Followed(i)'
  BY DEF Separated
<1> QED BY <1>1, FollowedSame

\* The blanks that follow are no separators.
LEMMA FollowedUpToHere ==
  ASSUME Typed, AllFollowed
  PROVE  Here \in Nat /\ \A i \in 1 .. Here : Followed(i)
<1>1. pos \in 0 .. Len(text) /\ pos \in Int /\ Len(text) \in Nat
  <2>1. text \in Texts /\ pos \in 0 .. Len(text)
    BY DEF Typed, StreamTyped
  <2>2. Len(text) \in Nat
    BY <2>1, TextIsSeq
  <2> QED BY <2>1, <2>2
<1>l. PICK l \in Nat : l = Len(text)
  BY <1>1
<1>2. \A i \in pos + 1 .. Here : Followed(i)
  BY <1>1, FollowedBlanks DEF Here
<1>3. Here \in 0 .. l
  BY <1>l, HereIs
<1> HIDE DEF Here
<1>4. \A i \in 1 .. Here : i \in 1 .. pos \/ i \in pos + 1 .. Here
  BY <1>1, <1>3
<1> QED BY <1>2, <1>3, <1>4 DEF AllFollowed

\* The last symbol consumed is a separator, what stands behind it is to be read.
LEMMA ConsumesSeparator ==
  ASSUME Typed, AllFollowed, text' = text, pos' = Here + 1, Pending'
  PROVE  Separated'
<1>1. Here \in Nat /\ \A i \in 1 .. Here : Followed(i)
  BY FollowedUpToHere
<1> HIDE DEF Here
<1>2. SUFFICES ASSUME NEW i \in 1 .. Here + 1 PROVE Followed(i)' \/ (i = Here + 1 /\ Pending')
  BY DEF Separated
<1>3. i \in 1 .. Here \/ i = Here + 1
  BY <1>1
<1> QED BY <1>1, <1>3, FollowedSame

\* The symbol Here was consumed.
LEMMA OneMore ==
  ASSUME Typed, AllFollowed,
         Symbol(Here) # "|", Symbol(Here) # Comma, Symbol(Here) # End
  PROVE  /\ \A i \in 1 .. Here + 1 : Followed(i)
         /\ Here \in Nat /\ Here + 1 \in 0 .. Len(text) /\ Here + 1 \in 1 .. Len(text)
<1>1. pos \in 0 .. Len(text) /\ pos \in Int
  <2>1. text \in Texts /\ pos \in 0 .. Len(text)
    BY DEF Typed, StreamTyped
  <2>2. Len(text) \in Nat
    BY <2>1, TextIsSeq
  <2> QED BY <2>1, <2>2
<1>2. \A i \in pos + 1 .. Here + 1 : Followed(i)
  BY <1>1, FollowedThrough DEF Here
<1>3. Here + 1 \in 1 .. Len(text) /\ Here \in Nat
  BY <1>1, FollowedThrough DEF Here
<1> HIDE DEF Here
<1>4. \A i \in 1 .. Here + 1 : i \in 1 .. pos \/ i \in pos + 1 .. Here + 1
  BY <1>1, <1>3
<1>5. Len(text) \in Nat
  BY TextIsSeq DEF Typed, StreamTyped
<1> QED BY <1>2, <1>3, <1>4, <1>5 DEF AllFollowed

\* Two symbols were, with blanks between them.
LEMMA TwoMore ==
  ASSUME Typed, AllFollowed,
         Symbol(Here) # "|", Symbol(Here) # Comma, Symbol(Here) # End,
         Symbol(Skip(Here + 1)) # "|", Symbol(Skip(Here + 1)) # Comma, Symbol(Skip(Here + 1)) # End
  PROVE  Skip(Here + 1) \in Nat /\ \A i \in 1 .. Skip(Here + 1) + 1 : Followed(i)
<1>1. /\ \A i \in 1 .. Here + 1 : Followed(i)
      /\ Here + 1 \in 0 .. Len(text) /\ Here \in Nat
  BY OneMore
<1> HIDE DEF Here
<1>2. \A i \in (Here + 1) + 1 .. Skip(Here + 1) + 1 : Followed(i)
  BY <1>1, FollowedThrough
<1>3. Skip(Here + 1) \in Nat
  BY <1>1, FollowedThrough
<1> HIDE DEF Skip
<1>4. \A i \in 1 .. Skip(Here + 1) + 1 : i \in 1 .. Here + 1 \/ i \in (Here + 1) + 1 .. Skip(Here + 1) + 1
  BY <1>1, <1>3
<1> QED BY <1>1, <1>2, <1>3, <1>4

LEMMA ReadNameSeparated ==
  ASSUME Typed, Separated, ReadName PROVE Separated'
<1>0. ~Pending /\ text' = text
  BY DEF ReadName, Pending, PendingPCs
<1>1. CASE Symbol(Here) \in Names /\ pos' = Here + 1 /\ e' = e
  <2>1. Symbol(Here) # "|" /\ Symbol(Here) # Comma /\ Symbol(Here) # End
    BY <1>1, NoSeparator, SymbolsDiffer
  <2>2. SUFFICES ASSUME e = ERR_NONE PROVE Separated'
    BY <1>0, <1>1 DEF Separated
  <2>3. AllFollowed
    BY <1>0, <2>2, NonePending
  <2>4. \A i \in 1 .. Here + 1 : Followed(i)
    BY <2>1, <2>3, OneMore
  <2> QED BY <1>0, <1>1, <2>4, ConsumesSeparated
<1>2. CASE pos' = pos /\ (e' = e \/ e' # ERR_NONE)
  BY <1>0, <1>2, KeepsSeparated
<1>3. ERR_MEMORY_ALLOC # ERR_NONE /\ ERRBNF_SYNTAX # ERR_NONE
  BY DEF ERR_MEMORY_ALLOC, ERRBNF_SYNTAX, ERR_NONE
<1> QED BY <1>1, <1>2, <1>3 DEF ReadName

\* A symbol that is no separator was consumed, and nothing else.
LEMMA OneSeparated ==
  ASSUME Typed, Separated, ~Pending \/ Followed(pos),
         Symbol(Here) \in Names \cup Literals \cup {"(", ")", ":", OP_RULE_END, "[", "]"},
         text' = text, pos' = Here + 1, e' = ERR_NONE => e = ERR_NONE
  PROVE  Separated'
<1>1. Symbol(Here) # "|" /\ Symbol(Here) # Comma
  BY NoSeparator
<1>2. Symbol(Here) # End
  <2>1. \A x \in {"(", ")", ":", OP_RULE_END, "[", "]"} : x \in Operators
    BY Zenon DEF Operators
  <2> QED BY <2>1, SymbolsDiffer
<1>3. SUFFICES ASSUME e = ERR_NONE PROVE Separated'
  BY DEF Separated
<1>4. AllFollowed
  BY <1>3, NonePending
<1>5. \A i \in 1 .. Here + 1 : Followed(i)
  BY <1>1, <1>2, <1>4, OneMore
<1> HIDE DEF Here
<1> QED BY <1>5, ConsumesSeparated

LEMMA ReadParamsSeparated ==
  ASSUME Typed, Separated, ReadParams \/ ReadParamEnd \/ ReadRuleEnd PROVE Separated'
<1>0. ~Pending /\ text' = text
  BY DEF ReadParams, ReadParamEnd, ReadRuleEnd, Pending, PendingPCs
<1>e. e' = e \/ e' # ERR_NONE
  <2>1. ERR_MEMORY_ALLOC # ERR_NONE
    BY DEF ERR_MEMORY_ALLOC, ERR_NONE
  <2> QED BY <2>1 DEF ReadParams, ReadParamEnd, ReadRuleEnd
<1>1. CASE Consume("(") \/ Consume(")") \/ Consume(OP_RULE_END)
  <2>1. pos' = Here + 1 /\ Symbol(Here) \in {"(", ")", OP_RULE_END}
    BY <1>1 DEF Consume, At
  <2> HIDE DEF Here
  <2> QED BY <1>0, <1>e, <2>1, OneSeparated
<1>2. CASE pos' = pos
  BY <1>0, <1>e, <1>2, KeepsSeparated
<1>3. Consume("(") \/ Consume(")") \/ Consume(OP_RULE_END) \/ pos' = pos
  BY DEF ReadParams, ReadParamEnd, ReadRuleEnd, NoOperator
<1> QED BY <1>1, <1>2, <1>3

LEMMA ReadParamNextSeparated ==
  ASSUME Typed, Phases, Separated, ReadParamNext PROVE Separated'
<1>0. ~Pending /\ text' = text /\ e' = e /\ prod' = prod /\ prod.params # <<>>
  BY DEF ReadParamNext, Pending, PendingPCs, Phases
<1>1. CASE Consume(Comma) /\ pc' = "param"
  <2>1. pos' = Here + 1 /\ Pending'
    BY <1>0, <1>1 DEF Consume, Pending
  <2>2. SUFFICES ASSUME e = ERR_NONE PROVE Separated'
    BY <1>0 DEF Separated
  <2>3. AllFollowed
    BY <1>0, <2>2, NonePending
  <2> QED BY <1>0, <2>1, <2>3, ConsumesSeparator
<1>2. CASE pos' = pos
  BY <1>0, <1>2, KeepsSeparated
<1> QED BY <1>1, <1>2 DEF ReadParamNext, NoOperator

LEMMA ReadParamSeparated ==
  ASSUME Typed, Separated, ReadParam PROVE Separated'
<1>0. text' = text /\ pc = "param" /\ pc \notin PendingPCs
  BY DEF ReadParam, PendingPCs
<1>e. ERR_MEMORY_ALLOC # ERR_NONE /\ ERRBNF_SYNTAX # ERR_NONE
  BY DEF ERR_MEMORY_ALLOC, ERRBNF_SYNTAX, ERR_NONE
<1>1. CASE /\ Symbol(Here) \in Names /\ Symbol(Skip(Here + 1)) \in Names
           /\ pos' = Skip(Here + 1) + 1 /\ e' = e
  <2>1. Followed(pos)
    BY <1>1 DEF Followed, Here
  <2>2. SUFFICES ASSUME e = ERR_NONE PROVE Separated'
    BY <1>1 DEF Separated
  <2>3. AllFollowed
    BY <2>1, <2>2, NonePending
  <2>4. \A x \in Names : x # "|" /\ x # Comma /\ x # End
    BY NoSeparator, SymbolsDiffer
  <2> HIDE DEF Here, Skip
  <2>5. \A i \in 1 .. Skip(Here + 1) + 1 : Followed(i)
    BY <1>1, <2>3, <2>4, TwoMore
  <2> QED BY <1>0, <1>1, <2>5, ConsumesSeparated
<1>2. CASE e' # ERR_NONE
  BY <1>2 DEF Separated
<1>3. CASE NoParam(e) /\ pos' = pos /\ e' = ERR_NONE
  <2>1. e = ERR_NONE /\ prod.params = <<>>
    BY <1>e, <1>3 DEF NoParam
  <2> QED BY <1>0, <1>3, <2>1, KeepsSeparated DEF Pending
<1>4. \/ NoParam(e) /\ pos' = pos
      \/ NoParam(ERR_MEMORY_ALLOC) \/ NoParam(ERRBNF_SYNTAX)
      \/ /\ Symbol(Here) \in Names /\ Symbol(Skip(Here + 1)) \in Names
         /\ pos' = Skip(Here + 1) + 1 /\ e' = e
  BY Zenon DEF ReadParam
<1>5. NoParam(ERR_MEMORY_ALLOC) \/ NoParam(ERRBNF_SYNTAX) => e' # ERR_NONE
  BY <1>e DEF NoParam
<1> QED BY <1>1, <1>2, <1>3, <1>4, <1>5

\* The three characters of "::=".
LEMMA ReadRuleSeparated ==
  ASSUME Typed, Separated, ReadRule PROVE Separated'
<1>0. ~Pending /\ text' = text /\ e' = e
  BY DEF ReadRule, Pending, PendingPCs
<1>1. CASE IsPrefix(OP_RULE, Ahead) /\ pos' = Here + 3
  <2>1. SUFFICES ASSUME e = ERR_NONE PROVE Separated'
    BY <1>0 DEF Separated
  <2>2. AllFollowed
    BY <1>0, <2>1, NonePending
  <2>3. text \in Seq(Symbols) /\ Len(text) \in Nat
    BY TextIsSeq DEF Typed, StreamTyped
  <2>4. PICK n \in Nat : n = Len(text)
    BY <2>3
  <2>5. Here \in 0 .. n
    BY <2>4, HereIs
  <2> HIDE DEF Here
  <2>6. /\ Len(Ahead) >= 3
        /\ \A k \in 1 .. 3 : Ahead[k] \in {":", "="}
    <3>1. Len(OP_RULE) = 3 /\ \A k \in 1 .. 3 : SubSeq(OP_RULE, 1, 3)[k] \in {":", "="}
      BY DEF OP_RULE
    <3>2. Len(Ahead) >= 3 /\ SubSeq(Ahead, 1, 3) = SubSeq(OP_RULE, 1, 3)
      BY <1>1, <3>1 DEF IsPrefix
    <3>3. Ahead \in Seq(Symbols)
      BY <2>3, <2>4, <2>5 DEF Ahead
    <3> HIDE DEF Ahead
    <3>4. \A k \in 1 .. 3 : SubSeq(Ahead, 1, 3)[k] = Ahead[k]
      BY <3>2, <3>3
    <3> QED BY <3>1, <3>2, <3>4
  <2>7. /\ Len(Ahead) = IF Here + 1 <= n THEN n - Here ELSE 0
        /\ \A k \in 1 .. Len(Ahead) : Ahead[k] = text[Here + k]
    BY <2>3, <2>4, <2>5 DEF Ahead
  <2>8. Here + 3 <= n /\ \A k \in 1 .. 3 : text[Here + k] \in {":", "="}
    BY <2>4, <2>5, <2>6, <2>7
  <2>9. ASSUME NEW k \in 1 .. 3 PROVE Followed(Here + k)
    <3>1. text[Here + k] # "|" /\ text[Here + k] # Comma
      BY <2>8, NoSeparator
    <3> QED BY <3>1, FollowedAnyway
  <2>10. \A i \in 1 .. Here : Followed(i)
    BY <2>2, FollowedUpToHere
  <2>11. \A i \in 1 .. Here + 3 : i \in 1 .. Here \/ \E k \in 1 .. 3 : i = Here + k
    BY <2>5
  <2>12. \A i \in 1 .. Here + 3 : Followed(i)
    BY <2>9, <2>10, <2>11
  <2> QED BY <1>0, <1>1, <2>12, ConsumesSeparated
<1>2. CASE pos' = pos
  BY <1>0, <1>2, KeepsSeparated
<1> QED BY <1>1, <1>2 DEF ReadRule

\* The alternative whose first factor is being read goes on.
LEMMA PendingKept ==
  ASSUME Typed, pc \in LevelPCs, text' = text, pos' = pos, Pending, pc' \in PendingPCs, NEW v,
         \/ levels' = levels
         \/ levels' = SetLevel([Level EXCEPT !.expr = v])
         \/ levels' = SetLevel([Level EXCEPT !.fact = v])
  PROVE  Pending'
<1>1. levels \in Seq(LevelSet) /\ levels # <<>> /\ Level \in LevelSet
  BY LastLevel DEF Typed, LevelsTyped
<1>2. Len(levels) \in DOMAIN levels
  BY <1>1, EmptySeq, LenProperties
<1>3. \A l : Len(SetLevel(l)) = Len(levels) /\ SetLevel(l)[Len(levels)] = l
  <2> TAKE l
  <2>1. SetLevel(l) = [levels EXCEPT ![Len(levels)] = l]
    BY DEF SetLevel
  <2>2. DOMAIN SetLevel(l) = DOMAIN levels /\ SetLevel(l)[Len(levels)] = l
    BY <1>2, <2>1
  <2>3. Len(SetLevel(l)) = Len(levels)
    BY <1>1, <2>1
  <2> QED BY <2>2, <2>3
<1>4. Level'.target = Level.target /\ Level'.facts = Level.facts
  <2>1. CASE levels' = levels
    BY <2>1 DEF Level
  <2>2. ASSUME NEW l, levels' = SetLevel(l) PROVE Level' = l
    BY <1>3, <2>2 DEF Level, Last
  <2>3. /\ [Level EXCEPT !.expr = v].target = Level.target
        /\ [Level EXCEPT !.expr = v].facts = Level.facts
        /\ [Level EXCEPT !.fact = v].target = Level.target
        /\ [Level EXCEPT !.fact = v].facts = Level.facts
    BY <1>1 DEF LevelSet
  <2> QED BY <2>1, <2>2, <2>3
<1>5. pc # "param"
  BY DEF LevelPCs
<1> QED BY <1>4, <1>5 DEF Pending

\* A factor begins Here: the "|" before it is followed.
LEMMA OrFollowed ==
  ASSUME pc # "param", Symbol(Here) \in Names \cup Literals \cup {":", "["}
  PROVE  ~Pending \/ Followed(pos)
<1>1. CASE Pending
  <2>1. text[pos] = "|"
    BY <1>1 DEF Pending
  <2>2. text[pos] # Comma
    BY <2>1, NoSeparator
  <2> QED BY <2>1, <2>2 DEF Followed, Here
<1> QED BY <1>1

LEMMA ReadAlternativeSeparated ==
  ASSUME Typed, Separated, ReadAlternative PROVE Separated'
<1>1. /\ text' = text /\ pos' = pos /\ e' = e /\ pc \in LevelPCs /\ pc' \in PendingPCs
      /\ levels' = levels \/ levels' = SetLevel([Level EXCEPT !.expr = Fresh(1)])
  BY Zenon DEF ReadAlternative, LevelPCs, PendingPCs
<1>2. Pending => Pending'
  BY <1>1, PendingKept
<1> QED BY <1>1, <1>2, KeepsSeparated

LEMMA ReadBuiltinSeparated ==
  ASSUME Typed, Separated, ReadBuiltin PROVE Separated'
<1>0. text' = text /\ e' = e /\ pc \in LevelPCs /\ pc # "param"
  BY Zenon DEF ReadBuiltin, LevelPCs
<1>1. CASE /\ pos' = pos /\ pc' \in PendingPCs
           /\ levels' = levels \/ levels' = SetLevel([Level EXCEPT !.fact = Fresh(1)])
  <2>1. Pending => Pending'
    BY <1>0, <1>1, PendingKept
  <2> QED BY <1>0, <1>1, <2>1, KeepsSeparated
<1>2. CASE Symbol(Here) = ":" /\ pos' = Here + 1
  <2> HIDE DEF Here
  <2>1. ~Pending \/ Followed(pos)
    BY <1>0, <1>2, OrFollowed
  <2> QED BY <1>0, <1>2, <2>1, OneSeparated
<1>3. CASE Symbol(Here) = ":" /\ Symbol(Here + 1) \in Names /\ pos' = Here + 2
  <2>1. ~Pending \/ Followed(pos)
    BY <1>0, <1>3, OrFollowed
  <2>2. SUFFICES ASSUME e = ERR_NONE PROVE Separated'
    BY <1>0 DEF Separated
  <2>3. AllFollowed
    BY <2>1, <2>2, NonePending
  <2>4. ":" \in Operators /\ ":" # "|" /\ ":" # Comma
    BY Zenon DEF Operators, Comma
  <2>5. ":" # End
    BY <2>4, SymbolsDiffer
  <2>6. (\A i \in 1 .. Here + 1 : Followed(i)) /\ Here \in Nat
    BY <1>3, <2>3, <2>4, <2>5, OneMore
  <2>7. \A x \in Names : x # "|" /\ x # Comma /\ x # End
    BY NoSeparator, SymbolsDiffer
  <2> HIDE DEF Here
  <2>8. Here + 1 \in Nat /\ text \in Texts
    BY <2>6 DEF Typed, StreamTyped
  <2>9. text[(Here + 1) + 1] = Symbol(Here + 1)
    BY <1>3, <2>7, <2>8, WithinText
  <2>10. Followed((Here + 1) + 1)
    BY <1>3, <2>7, <2>9, FollowedAnyway
  <2>11. (Here + 1) + 1 = Here + 2 /\ \A i \in 1 .. Here + 2 : i \in 1 .. Here + 1 \/ i = Here + 2
    BY <2>6
  <2>12. \A i \in 1 .. Here + 2 : Followed(i)
    BY <2>6, <2>10, <2>11
  <2> QED BY <1>0, <1>3, <2>12, ConsumesSeparated
<1>4. \/ pos' = pos /\ pc' = "no_factor" /\ levels' = levels
      \/ Symbol(Here) = ":" /\ Symbol(Here + 1) \in Names /\ pos' = Here + 2
      \/ Symbol(Here) = ":" /\ pos' = Here + 1
      \/ pos' = pos /\ pc' = "operand" /\ levels' = SetLevel([Level EXCEPT !.fact = Fresh(1)])
  BY Zenon DEF ReadBuiltin, At, NoOperator
<1> QED BY <1>1, <1>2, <1>3, <1>4 DEF PendingPCs

LEMMA ReadOperandSeparated ==
  ASSUME Typed, Separated, ReadOperand \/ OpenCouple PROVE Separated'
<1>1. /\ text' = text /\ e' = e /\ pos' = Here + 1 /\ pc # "param"
      /\ Symbol(Here) \in Names \cup Literals \/ Symbol(Here) = "["
  BY DEF ReadOperand, OpenCouple, Consume, At
<1> HIDE DEF Here
<1>2. ~Pending \/ Followed(pos)
  BY <1>1, OrFollowed
<1> QED BY <1>1, <1>2, OneSeparated

LEMMA NotAFactorSeparated ==
  ASSUME Typed, Separated, NotAFactor PROVE Separated'
<1>1. /\ text' = text /\ pos' = pos /\ e' = e /\ pc \in LevelPCs /\ pc' \in PendingPCs
      /\ levels' = SetLevel([Level EXCEPT !.fact = NULL])
  BY Zenon DEF NotAFactor, LevelPCs, PendingPCs
<1>2. Pending => Pending'
  BY <1>1, PendingKept
<1> QED BY <1>1, <1>2, KeepsSeparated

\* What was read of an alternative stays, or nothing was.
LEMMA NoFactorSeparated ==
  ASSUME Typed, Separated, NoFactor PROVE Separated'
<1>1. /\ text' = text /\ pos' = pos /\ e' = e /\ pc \in LevelPCs /\ pc # "param"
      /\ \/ Level.facts # <<>>
         \/ levels' = SetLevel([Level EXCEPT !.expr = NULL]) /\ pc' \in PendingPCs
  BY Zenon DEF NoFactor, LevelPCs, PendingPCs
<1>2. Pending => Pending'
  <2>1. CASE Level.facts # <<>>
    BY <1>1, <2>1 DEF Pending
  <2>2. CASE levels' = SetLevel([Level EXCEPT !.expr = NULL]) /\ pc' \in PendingPCs
    BY <1>1, <2>2, PendingKept
  <2> QED BY <1>1, <2>1, <2>2
<1> QED BY <1>1, <1>2, KeepsSeparated

LEMMA ReadOrSeparated ==
  ASSUME Typed, Phases, Separated, ReadOr PROVE Separated'
<1>0. ~Pending /\ text' = text /\ e' = e
  BY DEF ReadOr, Pending, PendingPCs
<1>1. CASE Consume("|") /\ pc' = "alternative" /\ levels' = levels
  <2>1. "|" \in Operators
    BY Zenon DEF Operators
  <2>2. text[pos'] = "|" /\ pos' = Here + 1
    BY <1>1, <2>1, ConsumeIs
  <2>3. Level.target # <<>> /\ Level.facts = <<>>
    BY DEF Phases, ReadOr
  <2>4. Level' = Level
    BY <1>1 DEF Level
  <2>5. Pending'
    BY <1>0, <1>1, <2>2, <2>3, <2>4 DEF Pending, PendingPCs
  <2>6. SUFFICES ASSUME e = ERR_NONE PROVE Separated'
    BY <1>0 DEF Separated
  <2>7. AllFollowed
    BY <1>0, <2>6, NonePending
  <2> QED BY <1>0, <2>2, <2>5, <2>7, ConsumesSeparator
<1>2. CASE pos' = pos
  BY <1>0, <1>2, KeepsSeparated
<1> QED BY <1>1, <1>2 DEF ReadOr, NoOperator

\* A separator with nothing behind it is an error.
LEMMA NoAlternativeSeparated ==
  ASSUME Typed, Separated, NoAlternative PROVE Separated'
<1>1. /\ text' = text /\ pos' = pos /\ pc # "param"
      /\ e' = IF Level.target = <<>> THEN e ELSE ERRBNF_SYNTAX
  BY DEF NoAlternative
<1>2. ERRBNF_SYNTAX # ERR_NONE
  BY DEF ERRBNF_SYNTAX, ERR_NONE
<1>3. e' = ERR_NONE => e = ERR_NONE /\ ~Pending
  BY <1>1, <1>2 DEF Pending
<1> QED BY <1>1, <1>3, KeepsSeparated

LEMMA CoupleSeparated ==
  ASSUME Typed, Separated, CloseCouple \/ NotClosed \/ NoFeed PROVE Separated'
<1>0. ~Pending /\ text' = text /\ e' = e
  BY DEF CloseCouple, NotClosed, NoFeed, Pending, PendingPCs
<1>1. CASE CloseCouple
  <2>1. /\ Symbol(Here) = "]" /\ Symbol(Skip(Here + 1)) \in DOMAIN OpFeed
        /\ pos' = Skip(Here + 1) + 1
    BY <1>1 DEF CloseCouple, At
  <2>2. SUFFICES ASSUME e = ERR_NONE PROVE Separated'
    BY <1>0 DEF Separated
  <2>3. AllFollowed
    BY <1>0, <2>2, NonePending
  <2>4. "]" \in Operators /\ "]" # "|" /\ "]" # Comma
    BY Zenon DEF Operators, Comma
  <2>5. "]" # End
    BY <2>4, SymbolsDiffer
  <2>6. \A x \in DOMAIN OpFeed : x # "|" /\ x # Comma /\ x # End
    <3>1. DOMAIN OpFeed = {"+", "*", "?"}
      BY DEF OpFeed
    <3> QED BY <3>1, NoSeparator, FeedTypes
  <2> HIDE DEF Here, Skip
  <2>7. \A i \in 1 .. Skip(Here + 1) + 1 : Followed(i)
    BY <2>1, <2>3, <2>4, <2>5, <2>6, TwoMore
  <2> QED BY <1>0, <2>1, <2>7, ConsumesSeparated
<1>2. CASE NotClosed
  <2>1. pos' = pos
    BY <1>2 DEF NotClosed, NoOperator
  <2> QED BY <1>0, <2>1, KeepsSeparated
<1>3. CASE NoFeed
  <2>1. Symbol(Here) = "]" /\ pos' = Here + 1
    BY <1>3 DEF NoFeed, At
  <2> HIDE DEF Here
  <2> QED BY <1>0, <2>1, OneSeparated
<1> QED BY <1>1, <1>2, <1>3

LEMMA StepSeparates ==
  ASSUME Typed, Phases, Separated, [Next]_vars PROVE Separated'
<1>1. CASE Begin \/ NoProduction \/ Link \/ FreeBNF \/ Finished
  <2>1. ~Pending /\ text' = text /\ pos' = pos /\ e' = e
    BY <1>1, Zenon DEF Begin, NoProduction, Link, FreeBNF, Finished, vars, Pending, PendingPCs
  <2> QED BY <2>1, KeepsSeparated
<1>2. CASE UNCHANGED vars
  <2>1. text' = text /\ pos' = pos /\ e' = e /\ Pending' = Pending
    BY <1>2 DEF vars, Pending, Level
  <2> QED BY <2>1, KeepsSeparated
<1>3. CASE ReadName \/ ReadParams \/ ReadParam \/ ReadParamNext \/ ReadParamEnd \/ ReadRule \/ ReadRuleEnd
  BY <1>3, ReadNameSeparated, ReadParamsSeparated, ReadParamSeparated, ReadParamNextSeparated,
     ReadRuleSeparated
<1>4. CASE ReadAlternative \/ ReadBuiltin \/ ReadOperand \/ OpenCouple \/ NotAFactor \/ NoFactor \/ ReadOr
  BY <1>4, ReadAlternativeSeparated, ReadBuiltinSeparated, ReadOperandSeparated,
     NotAFactorSeparated, NoFactorSeparated, ReadOrSeparated
<1>5. CASE NoAlternative \/ CloseCouple \/ NotClosed \/ NoFeed
  BY <1>5, NoAlternativeSeparated, CoupleSeparated
<1> QED BY <1>1, <1>2, <1>3, <1>4, <1>5 DEF Next

\* In a grammar that was accepted, a "|" or a "," anywhere in what was read is
\* followed by an alternative or a parameter.
THEOREM NoneDangles == Spec => []NoDanglingSeparator
<1>1. Init => Separated
  BY DEF Init, Separated
<1>2. Separated /\ (Typed /\ Phases) /\ [Next]_vars => Separated'
  BY StepSeparates
<1>3. Separated /\ (Typed /\ Phases) => NoDanglingSeparator
  <2>1. SUFFICES ASSUME Separated, Phases, Accepted PROVE \A i \in 1 .. pos : Followed(i)
    BY DEF NoDanglingSeparator, Followed
  <2>2. e = ERR_NONE /\ ~Pending
    BY <2>1 DEF Phases, Accepted, Pending, PendingPCs
  <2> QED BY <2>1, <2>2 DEF Separated
<1> QED BY <1>1, <1>2, <1>3, TypedAlways, PTL DEF Spec

-----------------------------------------------------------------------------
(* What was read stands in the text *)

\* What can be printed.
Written == Shown \cup {"(", ")", Comma, "=", OP_RULE_END, End}

\* What the nodes print, and the parameters of a production.
NodesText(ns) == FlattenSeq([i \in DOMAIN ns |-> ns[i].text])
MoreParams(ps) == FlattenSeq([i \in 1 .. Len(ps) - 1 |-> <<Comma>> \o ps[i + 1].text])
ParamList(ps) == IF ps = <<>> THEN <<"(">> ELSE (<<"(">> \o ps[1].text) \o MoreParams(ps)
ListEnd(ps) == IF ps = <<>> THEN <<>> ELSE <<Comma>>
Heading(p) == <<p.name>> \o (IF p.params = <<>> THEN <<>> ELSE ParamList(p.params) \o <<")">>)
Ruled(p) == Heading(p) \o OP_RULE

\* What a level prints, with the "|" of the alternative it is at, and what all do.
OrText(l) == IF l.target = <<>> THEN <<>> ELSE <<"|">>
AltText(l) == (NodesText(l.target) \o OrText(l)) \o NodesText(l.facts)
OpenedText(ls) == FlattenSeq([i \in DOMAIN ls |-> AltText(ls[i]) \o <<"[">>])
LevelText(c, l) == IF c \in {"or", "close", "no_alternative"} THEN NodesText(l.target) ELSE AltText(l)
LevelsText(c, ls) == OpenedText(Front(ls)) \o LevelText(c, Last(ls))

\* What was read of the production p, and was not given up, when c comes next.
Begun(c, p, ls) ==
  CASE c = "params" -> <<p.name>>
    [] c = "param" -> (<<p.name>> \o ParamList(p.params)) \o ListEnd(p.params)
    [] c \in {"param_next", "param_end"} -> <<p.name>> \o ParamList(p.params)
    [] c = "rule" -> Heading(p)
    [] c \in LevelPCs -> Ruled(p) \o LevelsText(c, ls)
    [] c = "rule_end" -> Ruled(p) \o NodesText(p.exprs)
    [] OTHER -> <<>>

SoFar == Begun(pc, prod, levels)
Stood(X) == StandsIn(Printed \o SoFar, text, pos, X)

NodeText == [n \in NodeSet |-> n.text]

LEMMA SymbolsWritten ==
  /\ Seq(Shown) \subseteq Seq(Written)
  /\ \A x \in Names \cup Literals \cup Operators \cup {"+", "*", "?", "=", End} :
       x \in Written /\ <<x>> \in Seq(Written)
  /\ <<"(">> \in Seq(Written) /\ <<")">> \in Seq(Written) /\ <<"|">> \in Seq(Written)
  /\ <<"[">> \in Seq(Written) /\ <<Comma>> \in Seq(Written) /\ <<OP_RULE_END>> \in Seq(Written)
  /\ OP_RULE \in Seq(Written) /\ <<>> \in Seq(Written)
<1>1. Shown \subseteq Written
  BY DEF Written
<1>2. Seq(Shown) \subseteq Seq(Written)
  BY <1>1, SeqMonotonic
<1>3. \A x \in Names \cup Literals \cup Operators \cup {"+", "*", "?", "=", End} : x \in Written
  BY Zenon DEF Written, Shown, Operators
<1>4. "(" \in Written /\ ")" \in Written /\ "|" \in Written /\ "[" \in Written /\ Comma \in Written
      /\ OP_RULE_END \in Written /\ ":" \in Written /\ "=" \in Written
  BY Zenon DEF Written, Shown
<1>5. \A x \in Written : <<x>> \in Seq(Written)
  OBVIOUS
<1>6. OP_RULE \in Seq(Written) /\ <<>> \in Seq(Written)
  BY <1>4 DEF OP_RULE
<1> HIDE DEF Written
<1> QED BY <1>2, <1>3, <1>4, <1>5, <1>6

LEMMA NodeSpells == Spells(NodeText, NodeSet, Written)
<1>1. ASSUME NEW n \in NodeSet PROVE n.text \in Seq(Written)
  <2>1. n.text \in Seq(Shown)
    BY DEF NodeSet
  <2> QED BY <2>1, SymbolsWritten
<1> HIDE DEF NodeSet
<1> QED BY <1>1 DEF NodeText, Spells

\* The texts of some nodes are flattened as a whole or in parts.
LEMMA NodesTextIs ==
  ASSUME NEW ns \in Seq(NodeSet)
  PROVE  NodesText(ns) = Flattened(NodeText, ns) /\ NodesText(ns) \in Seq(Written)
<1>1. \A i \in DOMAIN ns : ns[i] \in NodeSet
  BY ElementOfSeq, LenProperties
<1>2. \A i \in DOMAIN ns : NodeText[ns[i]] = ns[i].text
  BY <1>1 DEF NodeText
<1>3. Images(NodeText, ns) = [i \in DOMAIN ns |-> ns[i].text]
  BY <1>2 DEF Images
<1>4. NodesText(ns) = Flattened(NodeText, ns)
  BY <1>3 DEF NodesText, Flattened
<1>5. Flattened(NodeText, ns) \in Seq(Written)
  BY NodeSpells, FlattenedConcat
<1> QED BY <1>4, <1>5

LEMMA NodesTextConcat ==
  ASSUME NEW s \in Seq(NodeSet), NEW u \in Seq(NodeSet)
  PROVE  NodesText(s \o u) = NodesText(s) \o NodesText(u)
<1>1. s \o u \in Seq(NodeSet)
  BY ConcatProperties
<1>2. Flattened(NodeText, s \o u) = Flattened(NodeText, s) \o Flattened(NodeText, u)
  BY NodeSpells, FlattenedConcat
<1> QED BY <1>1, <1>2, NodesTextIs

LEMMA NodesTextOne ==
  /\ NodesText(<<>>) = <<>>
  /\ \A n \in NodeSet : NodesText(<<n>>) = n.text /\ <<n>> \in Seq(NodeSet) /\ n.text \in Seq(Written)
<1>1. <<>> \in Seq(NodeSet)
  BY EmptySeq
<1>2. NodesText(<<>>) = <<>>
  BY <1>1, NodesTextIs, FlattenedEmpty
<1>3. ASSUME NEW n \in NodeSet PROVE NodesText(<<n>>) = n.text /\ <<n>> \in Seq(NodeSet)
  <2>1. <<n>> \in Seq(NodeSet)
    OBVIOUS
  <2>2. Flattened(NodeText, <<n>>) = NodeText[n]
    BY NodeSpells, FlattenedOne
  <2> DEFINE one == <<n>>
  <2>3. one \in Seq(NodeSet) /\ Flattened(NodeText, one) = NodeText[n]
    BY <2>1, <2>2
  <2> HIDE DEF one
  <2>4. NodesText(one) = NodeText[n]
    BY <2>3, NodesTextIs
  <2> QED BY <2>1, <2>4 DEF NodeText, one
<1>4. \A n \in NodeSet : n.text \in Seq(Written)
  BY NodeSpells DEF Spells, NodeText
<1> QED BY <1>2, <1>3, <1>4

OpenedF == [l \in LevelSet |-> AltText(l) \o <<"[">>]

LEMMA LevelWritten ==
  ASSUME NEW l \in LevelSet
  PROVE  /\ l.target \in Seq(NodeSet) /\ l.facts \in Seq(NodeSet)
         /\ NodesText(l.target) \in Seq(Written) /\ NodesText(l.facts) \in Seq(Written)
         /\ OrText(l) \in Seq(Written) /\ AltText(l) \in Seq(Written)
         /\ AltText(l) \o <<"[">> \in Seq(Written)
         /\ \A c : LevelText(c, l) \in Seq(Written)
<1>1. l.target \in Seq(NodeSet) /\ l.facts \in Seq(NodeSet)
  BY LevelFields, ReadNodesAreNodes
<1>2. NodesText(l.target) \in Seq(Written) /\ NodesText(l.facts) \in Seq(Written)
  BY <1>1, NodesTextIs
<1>3. OrText(l) \in Seq(Written)
  BY SymbolsWritten DEF OrText
<1> HIDE DEF OrText
<1>4. NodesText(l.target) \o OrText(l) \in Seq(Written)
  BY <1>2, <1>3, ConcatProperties
<1>5. AltText(l) \in Seq(Written)
  BY <1>2, <1>4, ConcatProperties DEF AltText
<1> HIDE DEF AltText
<1>6. AltText(l) \o <<"[">> \in Seq(Written)
  BY <1>5, SymbolsWritten, ConcatProperties
<1>7. \A c : LevelText(c, l) \in Seq(Written)
  BY <1>2, <1>5 DEF LevelText
<1> QED BY <1>1, <1>2, <1>3, <1>5, <1>6, <1>7

LEMMA OpenedSpells == Spells(OpenedF, LevelSet, Written)
<1>1. \A l \in LevelSet : AltText(l) \o <<"[">> \in Seq(Written)
  BY LevelWritten
<1> HIDE DEF AltText
<1> QED BY <1>1 DEF OpenedF, Spells

\* A couple is opened in the innermost level.
LEMMA OpenedTextIs ==
  ASSUME NEW ls \in Seq(LevelSet)
  PROVE  /\ OpenedText(ls) = Flattened(OpenedF, ls) /\ OpenedText(ls) \in Seq(Written)
         /\ \A l \in LevelSet : OpenedText(Append(ls, l)) = OpenedText(ls) \o (AltText(l) \o <<"[">>)
         /\ OpenedText(<<>>) = <<>>
<1>1. ASSUME NEW s \in Seq(LevelSet)
      PROVE  OpenedText(s) = Flattened(OpenedF, s) /\ OpenedText(s) \in Seq(Written)
  <2>1. \A i \in DOMAIN s : s[i] \in LevelSet
    BY ElementOfSeq, LenProperties
  <2>2. \A i \in DOMAIN s : OpenedF[s[i]] = AltText(s[i]) \o <<"[">>
    BY <2>1 DEF OpenedF
  <2>3. Images(OpenedF, s) = [i \in DOMAIN s |-> AltText(s[i]) \o <<"[">>]
    BY <2>2, Zenon DEF Images
  <2>4. OpenedText(s) = Flattened(OpenedF, s)
    BY <2>3 DEF OpenedText, Flattened
  <2>5. Flattened(OpenedF, s) \in Seq(Written)
    BY OpenedSpells, FlattenedConcat
  <2> QED BY <2>4, <2>5
<1>2. ASSUME NEW l \in LevelSet
      PROVE  OpenedText(Append(ls, l)) = OpenedText(ls) \o (AltText(l) \o <<"[">>)
  <2>1. Append(ls, l) \in Seq(LevelSet)
    OBVIOUS
  <2>2. Flattened(OpenedF, Append(ls, l)) = Flattened(OpenedF, ls) \o OpenedF[l]
    BY OpenedSpells, FlattenedAppend
  <2>3. OpenedF[l] = AltText(l) \o <<"[">>
    BY DEF OpenedF
  <2> QED BY <1>1, <2>1, <2>2, <2>3
<1>3. OpenedText(<<>>) = <<>>
  <2>1. <<>> \in Seq(LevelSet)
    BY EmptySeq
  <2> QED BY <1>1, <2>1, FlattenedEmpty
<1> QED BY <1>1, <1>2, <1>3

LEMMA LevelsTextIs ==
  ASSUME NEW f \in Seq(LevelSet), NEW l \in LevelSet
  PROVE  \A c : /\ LevelsText(c, Append(f, l)) = OpenedText(f) \o LevelText(c, l)
                /\ LevelsText(c, Append(f, l)) \in Seq(Written)
<1>1. Last(Append(f, l)) = l /\ Front(Append(f, l)) = f
  BY LastOfAppend
<1>2. \A c : LevelsText(c, Append(f, l)) = OpenedText(f) \o LevelText(c, l)
  BY <1>1, Zenon DEF LevelsText
<1>3. OpenedText(f) \in Seq(Written) /\ \A c : LevelText(c, l) \in Seq(Written)
  BY OpenedTextIs, LevelWritten
<1>4. \A c : OpenedText(f) \o LevelText(c, l) \in Seq(Written)
  BY <1>3, ConcatProperties
<1> QED BY <1>2, <1>4

LEMMA ParamsWritten ==
  ASSUME NEW ps \in Seq(ParamSet)
  PROVE  /\ [i \in 1 .. Len(ps) - 1 |-> <<Comma>> \o ps[i + 1].text] \in Seq(Seq(Written))
         /\ MoreParams(ps) \in Seq(Written)
         /\ ParamList(ps) \in Seq(Written) /\ ListEnd(ps) \in Seq(Written)
         /\ ps # <<>> => ps[1].text \in Seq(Written)
<1>n. Len(ps) \in Nat /\ \A i \in 1 .. Len(ps) : ps[i] \in ParamSet
  BY LenProperties, ElementOfSeq
<1>m. PICK n \in Nat : n = Len(ps)
  BY <1>n
<1>1. \A i \in 1 .. n : ps[i].text \in Seq(Written)
  BY <1>n, <1>m, SymbolsWritten DEF ParamSet
<1> DEFINE s == [i \in 1 .. Len(ps) - 1 |-> <<Comma>> \o ps[i + 1].text]
<1>2. s \in Seq(Seq(Written))
  <2>1. ASSUME NEW i \in 1 .. n - 1 PROVE <<Comma>> \o ps[i + 1].text \in Seq(Written)
    <3>1. i + 1 \in 1 .. n
      OBVIOUS
    <3>2. ps[i + 1].text \in Seq(Written) /\ <<Comma>> \in Seq(Written)
      BY <1>1, <3>1, SymbolsWritten
    <3> QED BY <3>2, ConcatProperties
  <2>2. \E k \in Nat : 1 .. n - 1 = 1 .. k
    <3>1. CASE n = 0
      <4>1. 1 .. n - 1 = 1 .. 0
        BY <3>1
      <4> QED BY <4>1
    <3>2. CASE n # 0
      <4>1. n - 1 \in Nat
        BY <3>2
      <4> QED BY <4>1
    <3> QED BY <3>1, <3>2
  <2>3. PICK k \in Nat : 1 .. n - 1 = 1 .. k
    BY <2>2
  <2>4. s = [i \in 1 .. k |-> <<Comma>> \o ps[i + 1].text]
    BY <1>m, <2>3
  <2>5. \A i \in 1 .. k : <<Comma>> \o ps[i + 1].text \in Seq(Written)
    BY <2>1, <2>3
  <2> QED BY <2>4, <2>5, IsASeq
<1>3. MoreParams(ps) \in Seq(Written)
  <2>1. MoreParams(ps) = FlattenSeq(s)
    BY DEF MoreParams
  <2> HIDE DEF s
  <2> QED BY <1>2, <2>1, FlattenConcat
<1>4. ps # <<>> => ps[1].text \in Seq(Written)
  <2>1. ps # <<>> => n # 0
    BY <1>m, EmptySeq
  <2> QED BY <1>1, <2>1
<1>5. ps # <<>> => <<"(">> \o ps[1].text \in Seq(Written)
  BY <1>4, SymbolsWritten, ConcatProperties
<1>6. ps # <<>> => (<<"(">> \o ps[1].text) \o MoreParams(ps) \in Seq(Written)
  BY <1>3, <1>5, ConcatProperties
<1>7. ParamList(ps) \in Seq(Written)
  BY <1>6, SymbolsWritten DEF ParamList
<1>8. ListEnd(ps) \in Seq(Written)
  BY SymbolsWritten DEF ListEnd
<1> QED BY <1>2, <1>3, <1>4, <1>7, <1>8

\* One more parameter.
LEMMA ParamListAppend ==
  ASSUME NEW ps \in Seq(ParamSet), NEW q \in ParamSet
  PROVE  /\ ParamList(Append(ps, q)) = (ParamList(ps) \o ListEnd(ps)) \o q.text
         /\ Append(ps, q) # <<>> /\ q.text \in Seq(Written)
<1>n. Len(ps) \in Nat
  BY LenProperties
<1>m. PICK n \in Nat : n = Len(ps)
  BY <1>n
<1> DEFINE u == Append(ps, q)
<1>1. u \in Seq(ParamSet) /\ Len(u) = n + 1 /\ u[n + 1] = q /\ \A i \in 1 .. n : u[i] = ps[i]
  BY <1>m, AppendProperties
<1>2. u # <<>>
  <2> HIDE DEF u
  <2>1. Len(u) # 0
    BY <1>1
  <2> QED BY <1>1, <2>1, EmptySeq
<1>q. q.text \in Seq(Written)
  BY SymbolsWritten DEF ParamSet
<1> HIDE DEF u
<1>3. CASE ps = <<>>
  <2>1. n = 0
    BY <1>m, <1>3, EmptySeq
  <2>2. MoreParams(u) = <<>>
    <3>1. [i \in 1 .. Len(u) - 1 |-> <<Comma>> \o u[i + 1].text] = <<>>
      BY <1>1, <2>1
    <3> QED BY <3>1, FlattenEmpty DEF MoreParams
  <2>3. u[1].text = q.text
    BY <1>1, <2>1
  <2>4. ParamList(u) = (<<"(">> \o q.text) \o <<>>
    BY <1>2, <2>2, <2>3, Zenon DEF ParamList
  <2>5. (<<"(">> \o q.text) \o <<>> = <<"(">> \o q.text /\ <<"(">> \o <<>> = <<"(">>
    BY <1>q, SymbolsWritten, ConcatProperties, ConcatEmptySeq
  <2>6. ParamList(ps) = <<"(">> /\ ListEnd(ps) = <<>>
    BY <1>3 DEF ParamList, ListEnd
  <2> QED BY <1>2, <1>q, <2>4, <2>5, <2>6 DEF u
<1>4. CASE ps # <<>>
  <2>1. n # 0
    BY <1>m, <1>4, EmptySeq
  <2> DEFINE s == [i \in 1 .. Len(ps) - 1 |-> <<Comma>> \o ps[i + 1].text]
             w == [i \in 1 .. Len(u) - 1 |-> <<Comma>> \o u[i + 1].text]
             x == <<Comma>> \o q.text
  <2>2. s \in Seq(Seq(Written)) /\ w \in Seq(Seq(Written)) /\ x \in Seq(Written)
    <3>1. s \in Seq(Seq(Written)) /\ w \in Seq(Seq(Written))
      BY <1>1, ParamsWritten
    <3>2. x \in Seq(Written)
      BY <1>q, SymbolsWritten, ConcatProperties
    <3> QED BY <3>1, <3>2
  <2>3. /\ \A i \in 1 .. n - 1 : i + 1 \in 1 .. n /\ s[i] = <<Comma>> \o ps[i + 1].text
        /\ \A i \in 1 .. n : w[i] = <<Comma>> \o u[i + 1].text
        /\ DOMAIN s = 1 .. n - 1 /\ DOMAIN w = 1 .. n
    BY <1>m, <1>1
  <2> HIDE DEF s, w
  <2>4. w[n] = x
    BY <1>1, <2>1, <2>3, SMTT(30)
  <2>5. \A i \in 1 .. n - 1 : w[i] = s[i]
    <3> TAKE i \in 1 .. n - 1
    <3>1. i \in 1 .. n /\ i + 1 \in 1 .. n
      OBVIOUS
    <3>2. u[i + 1] = ps[i + 1]
      BY <1>1, <3>1
    <3> QED BY <2>3, <3>1, <3>2
  <2> HIDE DEF x
  <2>6. w = Append(s, x)
    <3> DEFINE a == Append(s, x)
    <3>1. Len(s) = n - 1 /\ Len(w) = n
      <4>1. n - 1 \in Nat
        BY <2>1
      <4> QED BY <2>2, <2>3, <4>1, LenProperties
    <3>2. a \in Seq(Seq(Written)) /\ Len(a) = n /\ a[n] = x /\ \A i \in 1 .. n - 1 : a[i] = s[i]
      <4>1. a \in Seq(Seq(Written)) /\ Len(a) = (n - 1) + 1 /\ a[(n - 1) + 1] = x
            /\ \A i \in 1 .. n - 1 : a[i] = s[i]
        BY <2>2, <3>1, AppendProperties
      <4> QED BY <4>1
    <3> HIDE DEF a
    <3>3. \A i \in 1 .. n : i = n \/ i \in 1 .. n - 1
      OBVIOUS
    <3>4. \A i \in 1 .. n : w[i] = a[i]
      BY <2>4, <2>5, <3>2, <3>3
    <3>5. w = a
      BY <2>2, <3>1, <3>2, <3>4, SeqEqual
    <3> QED BY <3>5 DEF a
  <2>7. MoreParams(u) = MoreParams(ps) \o x
    <3>1. FlattenSeq(Append(s, x)) = FlattenSeq(s) \o x
      BY <2>2, FlattenOne
    <3>2. MoreParams(u) = FlattenSeq(w) /\ MoreParams(ps) = FlattenSeq(s)
      BY Zenon DEF MoreParams, s, w
    <3> QED BY <2>6, <3>1, <3>2
  <2> DEFINE h == <<"(">> \o ps[1].text
             c == <<Comma>>
             m == MoreParams(ps)
  <2>8. h \in Seq(Written) /\ m \in Seq(Written) /\ c \in Seq(Written)
    <3>1. ps[1].text \in Seq(Written) /\ m \in Seq(Written)
      BY <1>4, ParamsWritten
    <3> QED BY <3>1, SymbolsWritten, ConcatProperties
  <2>9. ParamList(ps) = h \o m /\ ListEnd(ps) = c
    BY <1>4, Zenon DEF ParamList, ListEnd
  <2>10. ParamList(u) = h \o (m \o x)
    <3>1. u[1] = ps[1]
      BY <1>1, <2>1
    <3> QED BY <1>2, <2>7, <3>1, Zenon DEF ParamList
  <2>11. x = c \o q.text
    BY DEF x
  <2> HIDE DEF h, c, m
  <2> DEFINE z == q.text
  <2>12. z \in Seq(Written)
    BY <1>q
  <2> HIDE DEF z
  <2>13. h \o (m \o (c \o z)) = ((h \o m) \o c) \o z
    <3> DEFINE d == c \o z
               hm == h \o m
    <3>1. d \in Seq(Written) /\ hm \in Seq(Written)
      BY <2>8, <2>12, ConcatProperties
    <3>2. (hm \o c) \o z = hm \o d
      <4> HIDE DEF hm
      <4> QED BY <2>8, <2>12, <3>1, ConcatAssociates, SMTT(30)
    <3> HIDE DEF d
    <3>3. h \o (m \o d) = hm \o d
      <4>1. h \o (m \o d) = (h \o m) \o d
        BY <2>8, <3>1, ConcatAssociates, SMTT(30)
      <4> QED BY <4>1, Zenon DEF hm
    <3> QED BY <3>2, <3>3 DEF d
  <2> QED BY <1>2, <1>q, <2>9, <2>10, <2>11, <2>13 DEF u, z
<1> QED BY <1>3, <1>4

LEMMA HeadingIs ==
  ASSUME NEW p \in ProdSet(NodeSet)
  PROVE  /\ p.params = <<>> => Heading(p) = <<p.name>>
         /\ p.params # <<>> => Heading(p) = (<<p.name>> \o ParamList(p.params)) \o <<")">>
         /\ <<p.name>> \in Seq(Written) /\ <<p.name>> \o ParamList(p.params) \in Seq(Written)
         /\ (<<p.name>> \o ParamList(p.params)) \o ListEnd(p.params) \in Seq(Written)
         /\ Heading(p) \in Seq(Written) /\ Ruled(p) \in Seq(Written)
         /\ NodesText(p.exprs) \in Seq(Written)
         /\ Ruled(p) \o NodesText(p.exprs) \in Seq(Written)
<1>1. p.params \in Seq(ParamSet) /\ p.exprs \in Seq(NodeSet) /\ p.name \in Names \cup {End}
  BY ProdFields
<1> DEFINE n == <<p.name>>
           l == ParamList(p.params)
           c == <<")">>
<1>2. n \in Seq(Written) /\ l \in Seq(Written) /\ c \in Seq(Written) /\ ListEnd(p.params) \in Seq(Written)
  BY <1>1, SymbolsWritten, ParamsWritten
<1>3. p.params # <<>> => Heading(p) = n \o (l \o c)
  BY Zenon DEF Heading
<1>4. p.params = <<>> => Heading(p) = n \o <<>>
  BY Zenon DEF Heading
<1> HIDE DEF n, l, c
<1>5. n \o (l \o c) = (n \o l) \o c /\ n \o l \in Seq(Written)
  BY <1>2, ConcatAssociates, SMTT(30)
<1>6. n \o <<>> = n
  BY <1>2, ConcatEmptySeq
<1>7. (n \o l) \o c \in Seq(Written) /\ (n \o l) \o ListEnd(p.params) \in Seq(Written)
  BY <1>2, <1>5, ConcatProperties
<1>8. Heading(p) \in Seq(Written)
  BY <1>2, <1>3, <1>4, <1>5, <1>6, <1>7
<1>9. Ruled(p) \in Seq(Written)
  BY <1>8, SymbolsWritten, ConcatProperties DEF Ruled
<1>10. NodesText(p.exprs) \in Seq(Written)
  BY <1>1, NodesTextIs
<1>11. Ruled(p) \o NodesText(p.exprs) \in Seq(Written)
  BY <1>9, <1>10, ConcatProperties
<1> QED BY <1>2, <1>3, <1>4, <1>5, <1>6, <1>7, <1>8, <1>9, <1>10, <1>11 DEF n, l, c

LEMMA DumpIs ==
  ASSUME NEW p \in ProdSet(NodeSet)
  PROVE  /\ Dump(p) = (Ruled(p) \o NodesText(p.exprs)) \o <<OP_RULE_END>>
         /\ Dump(p) \in Seq(Written)
<1> DEFINE body == IF p.params = <<>> THEN <<>>
                   ELSE <<"(">> \o p.params[1].text
                          \o FlattenSeq([i \in 1 .. Len(p.params) - 1 |-> <<Comma>> \o p.params[i + 1].text])
                          \o <<")">>
<1>1. Dump(p) = ((((<<p.name>> \o body) \o OP_RULE) \o NodesText(p.exprs)) \o <<OP_RULE_END>>)
  BY Zenon DEF Dump, NodesText
<1>2. body = IF p.params = <<>> THEN <<>> ELSE ParamList(p.params) \o <<")">>
  <2>1. CASE p.params = <<>>
    BY <2>1
  <2>2. CASE p.params # <<>>
    BY <2>2, Zenon DEF ParamList, MoreParams
  <2> QED BY <2>1, <2>2
<1> HIDE DEF body
<1>3. Dump(p) = (Ruled(p) \o NodesText(p.exprs)) \o <<OP_RULE_END>>
  BY <1>1, <1>2, Zenon DEF Ruled, Heading
<1>4. Ruled(p) \o NodesText(p.exprs) \in Seq(Written)
  BY HeadingIs
<1>5. Dump(p) \in Seq(Written)
  BY <1>3, <1>4, SymbolsWritten, ConcatProperties
<1> QED BY <1>3, <1>5

DumpF == [p \in ProdSet(NodeSet) |-> Dump(p)]
PrintedText(g) == FlattenSeq([i \in DOMAIN g |-> Dump(g[i])])

LEMMA DumpSpells == Spells(DumpF, ProdSet(NodeSet), Written)
<1>1. \A p \in ProdSet(NodeSet) : Dump(p) \in Seq(Written)
  BY DumpIs
<1> HIDE DEF Dump, ProdSet
<1> QED BY <1>1 DEF DumpF, Spells

\* One more production is printed.
LEMMA PrintedTextIs ==
  ASSUME NEW g \in Seq(ProdSet(NodeSet))
  PROVE  /\ PrintedText(g) = Flattened(DumpF, g) /\ PrintedText(g) \in Seq(Written)
         /\ \A p \in ProdSet(NodeSet) : PrintedText(Append(g, p)) = PrintedText(g) \o Dump(p)
         /\ PrintedText(<<>>) = <<>>
<1>1. ASSUME NEW s \in Seq(ProdSet(NodeSet))
      PROVE  PrintedText(s) = Flattened(DumpF, s) /\ PrintedText(s) \in Seq(Written)
  <2>1. \A i \in DOMAIN s : s[i] \in ProdSet(NodeSet)
    BY ElementOfSeq, LenProperties
  <2>2. \A i \in DOMAIN s : DumpF[s[i]] = Dump(s[i])
    BY <2>1 DEF DumpF
  <2>3. Images(DumpF, s) = [i \in DOMAIN s |-> Dump(s[i])]
    BY <2>2, Zenon DEF Images
  <2>4. PrintedText(s) = Flattened(DumpF, s)
    BY <2>3, Zenon DEF PrintedText, Flattened
  <2>5. Flattened(DumpF, s) \in Seq(Written)
    BY DumpSpells, FlattenedConcat
  <2> QED BY <2>4, <2>5
<1>2. ASSUME NEW p \in ProdSet(NodeSet)
      PROVE  PrintedText(Append(g, p)) = PrintedText(g) \o Dump(p)
  <2>1. Append(g, p) \in Seq(ProdSet(NodeSet))
    OBVIOUS
  <2>2. Flattened(DumpF, Append(g, p)) = Flattened(DumpF, g) \o DumpF[p]
    BY DumpSpells, FlattenedAppend
  <2>3. DumpF[p] = Dump(p)
    BY DEF DumpF
  <2> QED BY <1>1, <2>1, <2>2, <2>3
<1>3. PrintedText(<<>>) = <<>>
  <2>1. <<>> \in Seq(ProdSet(NodeSet))
    BY EmptySeq
  <2> QED BY <1>1, <2>1, FlattenedEmpty
<1> QED BY <1>1, <1>2, <1>3

NothingBegunPCs == LastPCs \cup {"begin", "production", "no_production"}

LEMMA BegunIs ==
  \A p, ls :
    /\ Begun("params", p, ls) = <<p.name>>
    /\ Begun("param", p, ls) = (<<p.name>> \o ParamList(p.params)) \o ListEnd(p.params)
    /\ \A c \in {"param_next", "param_end"} : Begun(c, p, ls) = <<p.name>> \o ParamList(p.params)
    /\ Begun("rule", p, ls) = Heading(p)
    /\ \A c \in LevelPCs : Begun(c, p, ls) = Ruled(p) \o LevelsText(c, ls)
    /\ Begun("rule_end", p, ls) = Ruled(p) \o NodesText(p.exprs)
    /\ \A c \in NothingBegunPCs : Begun(c, p, ls) = <<>>
<1> TAKE p, ls
<1> DEFINE named == <<p.name>>
           listed == <<p.name>> \o ParamList(p.params)
           more == (<<p.name>> \o ParamList(p.params)) \o ListEnd(p.params)
           head == Heading(p)
           body(c) == Ruled(p) \o LevelsText(c, ls)
           full == Ruled(p) \o NodesText(p.exprs)
           none == <<>>
<1>1. \A c : Begun(c, p, ls) =
        CASE c = "params" -> named
          [] c = "param" -> more
          [] c \in {"param_next", "param_end"} -> listed
          [] c = "rule" -> head
          [] c \in LevelPCs -> body(c)
          [] c = "rule_end" -> full
          [] OTHER -> none
  BY Zenon DEF Begun
<1> HIDE DEF named, listed, more, head, body, full, none
<1>2. /\ Begun("params", p, ls) = named /\ Begun("param", p, ls) = more
      /\ \A c \in {"param_next", "param_end"} : Begun(c, p, ls) = listed
      /\ Begun("rule", p, ls) = head /\ Begun("rule_end", p, ls) = full
      /\ \A c \in NothingBegunPCs : Begun(c, p, ls) = none
  BY <1>1 DEF NothingBegunPCs, LastPCs, LevelPCs
<1>3. \A c \in LevelPCs : Begun(c, p, ls) = body(c)
  BY <1>1 DEF LevelPCs
<1> QED BY <1>2, <1>3 DEF named, listed, more, head, body, full, none

\* What was begun is a sequence that can be printed, and so is what stands in the text.
LEMMA BegunWritten ==
  ASSUME Typed
  PROVE  SoFar \in Seq(Written) /\ Printed = PrintedText(grammar) /\ Printed \in Seq(Written)
<1>1. Printed = PrintedText(grammar)
  BY DEF Printed, PrintedText
<1>2. grammar \in Seq(ProdSet(NodeSet)) /\ prod \in ProdSet(NodeSet) /\ pc \in PCs
  BY ReadNodesAreNodes DEF Typed, GrammarTyped, ProdTyped, ControlTyped
<1>3. Printed \in Seq(Written)
  BY <1>1, <1>2, PrintedTextIs
<1>4. CASE pc \in LevelPCs
  <2>1. LevelsText(pc, levels) \in Seq(Written)
    <3>1. Level \in LevelSet /\ Front(levels) \in Seq(LevelSet) /\ levels = Append(Front(levels), Level)
      BY <1>4, LastLevel
    <3> QED BY <3>1, LevelsTextIs
  <2>2. Ruled(prod) \in Seq(Written)
    BY <1>2, HeadingIs
  <2>3. Ruled(prod) \o LevelsText(pc, levels) \in Seq(Written)
    BY <2>1, <2>2, ConcatProperties
  <2> QED BY <1>1, <1>3, <1>4, <2>3, BegunIs DEF SoFar
<1>5. CASE pc \in NothingBegunPCs
  BY <1>1, <1>3, <1>5, BegunIs, SymbolsWritten DEF SoFar
<1>6. CASE pc \in ParamPCs \cup {"rule_end"}
  <2>1. SoFar \in {<<prod.name>>, (<<prod.name>> \o ParamList(prod.params)) \o ListEnd(prod.params),
                   <<prod.name>> \o ParamList(prod.params), Heading(prod),
                   Ruled(prod) \o NodesText(prod.exprs)}
    BY <1>6, BegunIs, ZenonT(30) DEF SoFar, ParamPCs
  <2>2. /\ <<prod.name>> \in Seq(Written) /\ <<prod.name>> \o ParamList(prod.params) \in Seq(Written)
        /\ (<<prod.name>> \o ParamList(prod.params)) \o ListEnd(prod.params) \in Seq(Written)
        /\ Heading(prod) \in Seq(Written)
        /\ Ruled(prod) \o NodesText(prod.exprs) \in Seq(Written)
    BY <1>2, HeadingIs
  <2> QED BY <1>1, <1>3, <2>1, <2>2
<1>7. pc \in LevelPCs \/ pc \in NothingBegunPCs \/ pc \in ParamPCs \cup {"rule_end"}
  BY <1>2 DEF PCs, NothingBegunPCs
<1> QED BY <1>4, <1>5, <1>6, <1>7

-----------------------------------------------------------------------------
(* What was read stands in the text: general steps *)

\* Whether the text that was read so far grew by what was consumed, but for what
\* is in X, or shrank.
Moves(X, s, u) == Becomes(Written, s, u, text, pos, pos', X)

\* Nothing but what is in X is consumed and not stored.
Skips(X) == pos <= pos' /\ Between(<<>>, text, pos, pos', X)

\* The step loses only what is in X: everything, or nothing that was read before,
\* and of what it reads the ":" of a builtin rule at most.
LosesOnly(X) ==
  \/ Symbols \subseteq X
  \/ /\ pc' = "no_production" => pc = "production"
     /\ pc = "param" => pc' = "param_next"
     /\ pc = "param_end" => prod.params # <<>> /\ At(")")
     /\ pc # "no_alternative" /\ pc' # "no_alternative"
     /\ pc = "close" => pc' = "factor"
     /\ pc = "factor" /\ pc' = "operand" => pos' = pos \/ ":" \in X
     /\ grammar' = <<>> => grammar = <<>>

LEMMA NextWritten == Typed' => SoFar' \in Seq(Written) /\ Printed' = PrintedText(grammar')
<1>1. Typed => SoFar \in Seq(Written) /\ Printed = PrintedText(grammar)
  BY BegunWritten
<1>2. Typed' => (SoFar \in Seq(Written) /\ Printed = PrintedText(grammar))'
  BY <1>1, PTL
<1> QED BY <1>2

LEMMA Positions ==
  ASSUME Typed, Typed', text' = text
  PROVE  pos \in Nat /\ pos' \in Nat /\ \A p \in 1 .. pos' : p \in 1 .. Len(text)
<1>l. PICK l \in Nat : l = Len(text)
  BY TextIsSeq DEF Typed, StreamTyped
<1>1. pos \in 0 .. l /\ pos' \in 0 .. l
  BY <1>l DEF Typed, StreamTyped
<1> QED BY <1>l, <1>1

\* When everything may be left out, all that was read may.
LEMMA AllLeftOut ==
  ASSUME Typed, Typed', text' = text, NEW X, Symbols \subseteq X
  PROVE  /\ \A p \in 1 .. pos' : text[p] \in X
         /\ pos <= pos' => Skips(X)
<1>1. \A p \in 1 .. Len(text) : text[p] \in X
  <2>1. text \in Seq(Symbols)
    BY TextIsSeq DEF Typed, StreamTyped
  <2> QED BY <2>1, ElementOfSeq
<1>2. \A p \in 1 .. pos' : text[p] \in X
  BY <1>1, Positions
<1>3. \A p \in pos + 1 .. pos' : p \in 1 .. pos'
  BY Positions
<1> QED BY <1>2, <1>3, EmptyBetween DEF Skips

LEMMA StoodMoves ==
  ASSUME Typed, Typed', NEW X, Stood(X), UNCHANGED <<text, grammar>>, pos <= pos',
         Moves(X, SoFar, SoFar')
  PROVE  Stood(X)'
<1>1. /\ SoFar \in Seq(Written) /\ SoFar' \in Seq(Written) /\ Printed \in Seq(Written)
      /\ Printed' = Printed
  BY BegunWritten, NextWritten
<1>4. pos \in Nat /\ pos' \in Nat
  BY Positions
<1> DEFINE p == Printed
           s == SoFar
           u == SoFar'
<1>5. p \in Seq(Written) /\ s \in Seq(Written) /\ u \in Seq(Written)
      /\ Becomes(Written, s, u, text, pos, pos', X) /\ StandsIn(p \o s, text, pos, X)
  BY <1>1 DEF Moves, Stood
<1>6. Stood(X)' = StandsIn(p \o u, text, pos', X)
  BY <1>1 DEF Stood
<1> HIDE DEF p, s, u
<1>7. Becomes(Written, p \o s, p \o u, text, pos, pos', X)
  BY <1>5, BecomesBehind
<1> DEFINE ps == p \o s
           pu == p \o u
<1>8. ps \in Seq(Written) /\ pu \in Seq(Written)
  BY <1>5, ConcatProperties
<1>9. StandsIn(ps, text, pos, X) /\ Becomes(Written, ps, pu, text, pos, pos', X)
  BY <1>5, <1>7
<1> HIDE DEF ps, pu
<1>10. StandsIn(pu, text, pos', X)
  BY <1>4, <1>8, <1>9, StillStands
<1> QED BY <1>6, <1>10 DEF pu

\* Nothing changes but the position, or an end is dropped.
LEMMA MovesSame ==
  ASSUME NEW s \in Seq(Written), NEW X, Skips(X)
  PROVE  Moves(X, s, s)
<1>1. s = s \o <<>> /\ <<>> \in Seq(Written)
  BY ConcatEmptySeq, SymbolsWritten
<1> QED BY <1>1, Zenon DEF Moves, Becomes, Skips

LEMMA MovesBack ==
  ASSUME Typed, Typed', text' = text, NEW X, Symbols \subseteq X,
         NEW s \in Seq(Written), NEW a \in Seq(Written)
  PROVE  Moves(X, s \o a, s) /\ Moves(X, a, <<>>)
<1>1. a = <<>> \o a /\ <<>> \in Seq(Written)
  BY ConcatEmptySeq, SymbolsWritten
<1>2. \A p \in 1 .. pos' : text[p] \in X
  BY AllLeftOut
<1> QED BY <1>1, <1>2, Zenon DEF Moves, Becomes

LEMMA MovesOn ==
  ASSUME NEW X, NEW s \in Seq(Written), NEW a \in Seq(Written), Between(a, text, pos, pos', X)
  PROVE  Moves(X, s, s \o a)
  BY Zenon DEF Moves, Becomes

\* The position stays.
LEMMA NoneRead ==
  ASSUME Typed, pos' = pos, NEW X PROVE Skips(X)
<1>1. pos \in Nat
  BY TextIsSeq DEF Typed, StreamTyped
<1>2. pos <= pos' /\ \A p \in pos + 1 .. pos' : FALSE
  BY <1>1
<1> QED BY <1>2, EmptyBetween DEF Skips

\* Nothing of the production is kept.
LEMMA NothingBegun ==
  ASSUME Typed, Typed', NEW X, Stood(X), text' = text, pc' \in NothingBegunPCs,
         \/ grammar' = grammar /\ pos' = pos /\ pc \in NothingBegunPCs
         \/ Symbols \subseteq X /\ grammar' = grammar /\ pos <= pos'
         \/ Symbols \subseteq X /\ grammar' = <<>>
  PROVE  Stood(X)'
<1>1. SoFar' = <<>>
  BY BegunIs DEF SoFar
<1>2. CASE grammar' = grammar /\ pos' = pos /\ pc \in NothingBegunPCs
  <2>1. SoFar = <<>>
    BY <1>2, BegunIs DEF SoFar
  <2>2. Printed' = Printed
    BY <1>2, BegunWritten, NextWritten
  <2> QED BY <1>1, <1>2, <2>1, <2>2 DEF Stood
<1>3. CASE Symbols \subseteq X /\ grammar' = grammar /\ pos <= pos'
  <2>1. SoFar \in Seq(Written) /\ <<>> \in Seq(Written)
    BY BegunWritten, SymbolsWritten
  <2>2. Moves(X, SoFar, SoFar')
    BY <1>1, <1>3, <2>1, MovesBack
  <2> QED BY <1>3, <2>2, StoodMoves
<1>4. CASE Symbols \subseteq X /\ grammar' = <<>>
  <2>1. Printed' = <<>>
    <3>1. <<>> \in Seq(ProdSet(NodeSet))
      BY EmptySeq
    <3> QED BY <1>4, <3>1, NextWritten, PrintedTextIs
  <2>2. Printed' \o SoFar' = <<>>
    BY <1>1, <2>1
  <2>3. \A p \in 0 + 1 .. pos' : text'[p] \in X
    BY <1>4, AllLeftOut
  <2> QED BY <2>2, <2>3, EmptyBetween DEF Stood, StandsIn
<1> QED BY <1>2, <1>3, <1>4

LEMMA HereBehind ==
  ASSUME Typed
  PROVE  pos \in Nat /\ Here \in Nat /\ pos <= Here
<1>l. Len(text) \in Nat
  BY TextIsSeq DEF Typed, StreamTyped
<1>1. PICK l \in Nat : l = Len(text)
  BY <1>l
<1>2. pos \in 0 .. l /\ Here \in 0 .. l /\ Here \in pos .. l
  BY <1>1, HereIs
<1> HIDE DEF Here
<1> QED BY <1>2

LEMMA BlanksAre ==
  ASSUME Typed, NEW m \in Nat, NEW n \in Nat, n <= Len(text), \A i \in m .. n - 1 : Symbol(i) = Blank
  PROVE  \A p \in m + 1 .. n : text[p] = Blank
<1> TAKE p \in m + 1 .. n
<1>l. PICK l \in Nat : l = Len(text)
  BY TextIsSeq DEF Typed, StreamTyped
<1>1. p - 1 \in m .. n - 1 /\ p - 1 < l /\ (p - 1) + 1 = p
  BY <1>l
<1>2. Symbol(p - 1) = text[p]
  BY <1>l, <1>1 DEF Symbol
<1> QED BY <1>1, <1>2

\* Before the next symbol there are only blanks.
LEMMA BlanksBefore ==
  ASSUME Typed PROVE \A p \in pos + 1 .. Here : text[p] = Blank
<1>l. PICK l \in Nat : l = Len(text)
  BY TextIsSeq DEF Typed, StreamTyped
<1>1. Here \in 0 .. l /\ pos \in 0 .. l /\ \A i \in pos .. Here - 1 : Symbol(i) = Blank
  BY <1>l, HereIs
<1> DEFINE h == Here
<1>2. h \in Nat /\ pos \in Nat /\ h <= Len(text)
  BY <1>l, <1>1
<1> HIDE DEF h
<1>3. \A p \in pos + 1 .. h : text[p] = Blank
  BY <1>1, <1>2, BlanksAre DEF h
<1> QED BY <1>3 DEF h

\* The next symbol is consumed.
LEMMA OneRead ==
  ASSUME Typed, NEW X, Blank \in X, Symbol(Here) # End
  PROVE  Between(<<Symbol(Here)>>, text, pos, Here + 1, X) /\ pos <= Here + 1
<1> DEFINE n == Here
<1>p. pos \in Nat /\ n \in Nat /\ pos <= n
  BY HereBehind
<1>1. text[n + 1] = Symbol(n)
  <2> HIDE DEF n
  <2>1. Symbol(n) # End
    BY DEF n
  <2> QED BY <1>p, <2>1, WithinText DEF Typed, StreamTyped
<1>2. \A p \in pos + 1 .. n : text[p] \in X
  BY BlanksBefore
<1> HIDE DEF n
<1> DEFINE k == n + 1
<1>3. pos \in Int /\ k \in Int /\ pos <= k /\ k \in pos + 1 .. k
      /\ \A p \in pos + 1 .. k : p = k \/ p \in pos + 1 .. n
  BY <1>p
<1>4. \A p \in pos + 1 .. k : p = k \/ text[p] \in X
  BY <1>2, <1>3
<1> HIDE DEF k
<1>5. Between(<<text[k]>>, text, pos, k, X)
  BY <1>3, <1>4, OneBetween
<1> QED BY <1>1, <1>3, <1>5 DEF k, n

\* So are two symbols.
LEMMA TwoRead ==
  ASSUME Typed, NEW X, Blank \in X, Symbol(Here) \in Written \ {End},
         NEW k \in {Here + 1, Skip(Here + 1)}, Symbol(k) \in Written \ {End}
  PROVE  Between(<<Symbol(Here), Symbol(k)>>, text, pos, k + 1, X) /\ pos <= k + 1 /\ k \in Nat
<1> DEFINE n == Here
<1>p. pos \in Nat /\ n \in Nat /\ pos <= n
  BY HereBehind
<1>1. Between(<<Symbol(n)>>, text, pos, n + 1, X)
  BY OneRead
<1> HIDE DEF n
<1>k. k \in Nat /\ n + 1 <= k /\ \A p \in (n + 1) + 1 .. k : text[p] \in X
  <2>1. CASE k = n + 1
    BY <1>p, <2>1
  <2>2. CASE k = Skip(n + 1)
    <3>l. PICK l \in Nat : l = Len(text)
      BY TextIsSeq DEF Typed, StreamTyped
    <3>1. k \in Nat /\ k \in n + 1 .. l /\ \A i \in n + 1 .. k - 1 : Symbol(i) = Blank
      <4>1. Symbol(n) # End
        BY DEF n
      <4> QED BY <1>p, <2>2, <3>l, <4>1, BehindSymbol
    <3>2. k <= Len(text) /\ n + 1 \in Nat /\ n + 1 <= k
      BY <1>p, <3>l, <3>1
    <3>3. \A p \in (n + 1) + 1 .. k : text[p] = Blank
      BY <3>1, <3>2, BlanksAre
    <3> QED BY <3>1, <3>2, <3>3
  <2> QED BY <2>1, <2>2 DEF n
<1>2. text[k + 1] = Symbol(k)
  BY <1>k, WithinText DEF Typed, StreamTyped
<1>3. /\ k + 1 \in (n + 1) + 1 .. k + 1 /\ n + 1 \in Int /\ k + 1 \in Int /\ pos \in Int
      /\ pos <= n + 1 /\ n + 1 <= k + 1 /\ pos <= k + 1
      /\ \A p \in (n + 1) + 1 .. k + 1 : p = k + 1 \/ p \in (n + 1) + 1 .. k
  BY <1>p, <1>k
<1> DEFINE x == Symbol(n)
           y == Symbol(k)
           q == n + 1
           r == k + 1
<1>4. x \in Written /\ y \in Written /\ text[r] = y /\ Between(<<x>>, text, pos, q, X)
      /\ r \in q + 1 .. r /\ q \in Int /\ r \in Int /\ pos \in Int /\ pos <= q /\ q <= r
      /\ \A p \in q + 1 .. r : p = r \/ text[p] \in X
  BY <1>1, <1>2, <1>3, <1>k DEF n
<1> HIDE DEF x, y, q, r
<1>5. Between(<<y>>, text, q, r, X)
  BY <1>4, OneBetween
<1> DEFINE a == <<x>>
           b == <<y>>
<1>6. a \in Seq(Written) /\ b \in Seq(Written) /\ a \o b = <<x, y>>
  <2>1. x \in Written /\ y \in Written
    BY <1>4
  <2>2. a \in Seq(Written) /\ b \in Seq(Written)
    BY <2>1
  <2>3. a \o b = <<x, y>>
    BY <2>1, PairConcat
  <2> QED BY <2>2, <2>3
<1>7. Between(a, text, pos, q, X) /\ Between(b, text, q, r, X)
  BY <1>4, <1>5
<1> HIDE DEF a, b
<1>8. Between(a \o b, text, pos, r, X)
  BY <1>4, <1>6, <1>7, ConcatBetween
<1> QED BY <1>3, <1>k, <1>6, <1>8 DEF x, y, r, n

\* An operator is consumed.
LEMMA OperatorRead ==
  ASSUME Typed, NEW X, Blank \in X, NEW op \in Operators, Consume(op)
  PROVE  Between(<<op>>, text, pos, pos', X) /\ pos <= pos' /\ <<op>> \in Seq(Written)
<1>1. Symbol(Here) = op /\ pos' = Here + 1 /\ op # End
  BY SymbolsDiffer DEF Consume, At
<1> HIDE DEF Here
<1>2. Between(<<op>>, text, pos, pos', X) /\ pos <= pos'
  BY <1>1, OneRead
<1> QED BY <1>2, SymbolsWritten

\* No parameter was read yet.
Unlisted == pc = "params" => prod.params = <<>>

-----------------------------------------------------------------------------
(* What was read stands in the text: the productions and their parameters *)

LEMMA ReadNameStood ==
  ASSUME Typed, Typed', NEW X, Blank \in X, LosesOnly(X), Stood(X), ReadName PROVE Stood(X)' /\ Unlisted'
<1>0. pc = "production" /\ UNCHANGED <<text, levels, grammar>>
  BY DEF ReadName
<1>1. CASE /\ Symbol(Here) \in Names /\ pos' = Here + 1 /\ pc' = "params"
           /\ prod' = [NoProd EXCEPT !.name = Symbol(Here), !.identifier = Fresh(1)]
  <2>1. prod'.name = Symbol(Here) /\ prod'.params = <<>>
    BY <1>1 DEF NoProd
  <2>2. SoFar' = <<Symbol(Here)>>
    BY <1>1, <2>1, BegunIs DEF SoFar
  <2>3. SoFar = <<>>
    <3>1. pc \in NothingBegunPCs
      BY <1>0 DEF NothingBegunPCs
    <3> QED BY <3>1, BegunIs DEF SoFar
  <2>4. Symbol(Here) # End /\ <<Symbol(Here)>> \in Seq(Written)
    BY <1>1, SymbolsDiffer, SymbolsWritten
  <2> DEFINE a == <<Symbol(Here)>>
  <2> HIDE DEF Here
  <2>5. Between(a, text, pos, pos', X) /\ pos <= pos'
    BY <1>1, <2>4, OneRead
  <2>6. a \in Seq(Written) /\ SoFar' = a
    BY <2>2, <2>4
  <2> HIDE DEF a
  <2>7. <<>> \in Seq(Written) /\ <<>> \o a = a
    BY <2>6, ConcatEmptySeq, SymbolsWritten
  <2>8. Moves(X, SoFar, SoFar')
    BY <2>3, <2>5, <2>6, <2>7, MovesOn
  <2>9. Stood(X)'
    BY <1>0, <2>5, <2>8, StoodMoves
  <2> QED BY <2>1, <2>9 DEF Unlisted
<1>2. CASE pos' = pos /\ pc' = "no_production"
  <2>1. pc \in NothingBegunPCs /\ pc' \in NothingBegunPCs
    BY <1>0, <1>2 DEF NothingBegunPCs
  <2>2. Stood(X)'
    BY <1>0, <1>2, <2>1, NothingBegun
  <2> QED BY <1>2, <2>2 DEF Unlisted
<1> QED BY <1>1, <1>2, Zenon DEF ReadName

LEMMA ProdNow ==
  ASSUME Typed
  PROVE  /\ prod \in ProdSet(NodeSet) /\ prod.params \in Seq(ParamSet)
         /\ \A ps \in Seq(ParamSet) : LET q == [prod EXCEPT !.params = ps] IN
              q \in ProdSet(NodeSet) /\ q.name = prod.name /\ q.params = ps
<1>1. prod \in ProdSet(NodeSet)
  BY ReadNodesAreNodes DEF Typed, ProdTyped
<1>2. \A ps \in Seq(ParamSet) : LET q == [prod EXCEPT !.params = ps] IN
        q \in ProdSet(NodeSet) /\ q.name = prod.name /\ q.params = ps
  BY <1>1 DEF ProdSet
<1>3. prod.params \in Seq(ParamSet)
  BY <1>1, ProdFields
<1> QED BY <1>1, <1>2, <1>3

LEMMA ReadParamsStood ==
  ASSUME Typed, Typed', NEW X, Blank \in X, LosesOnly(X), Stood(X), Unlisted, ReadParams PROVE Stood(X)' /\ Unlisted'
<1>0. pc = "params" /\ UNCHANGED <<text, prod, levels, grammar>> /\ prod.params = <<>>
      /\ pc' \in {"param", "no_production", "rule"}
  BY DEF ReadParams, Unlisted, WithoutParams
<1>p. pos \in Nat
  BY HereBehind
<1> DEFINE n == <<prod.name>>
           a == <<"(">>
<1>1. prod' = prod /\ Heading(prod) = n /\ ParamList(prod.params) = a /\ ListEnd(prod.params) = <<>>
      /\ n \in Seq(Written) /\ a \in Seq(Written)
  BY <1>0, ProdNow, HeadingIs, SymbolsWritten DEF ParamList, ListEnd
<1>2. SoFar = n
  BY <1>0, BegunIs DEF SoFar
<1>3. CASE Consume("(") /\ pc' = "param"
  <2>0. "(" \in Operators
    BY Zenon DEF Operators
  <2>1. SoFar' = (n \o a) \o <<>>
    BY <1>1, <1>3, BegunIs DEF SoFar
  <2>2. Between(a, text, pos, pos', X) /\ pos <= pos'
    BY <1>3, <2>0, OperatorRead
  <2> HIDE DEF n, a
  <2>3. n \o a \in Seq(Written)
    BY <1>1, ConcatProperties
  <2>4. SoFar' = n \o a
    BY <2>1, <2>3, ConcatEmptySeq
  <2>5. Moves(X, SoFar, SoFar')
    BY <1>1, <1>2, <2>2, <2>4, MovesOn
  <2>6. Stood(X)'
    BY <1>0, <2>2, <2>5, StoodMoves
  <2> QED BY <1>3, <2>6 DEF Unlisted
<1>4. CASE pos' = pos /\ pc' \in {"no_production", "rule"}
  <2>1. pos <= pos'
    BY <1>4, <1>p
  <2>2. CASE pc' = "no_production"
    <3>1. Symbols \subseteq X
      BY <1>0, <2>2 DEF LosesOnly
    <3>2. Stood(X)'
      BY <1>0, <2>1, <2>2, <3>1, NothingBegun DEF NothingBegunPCs
    <3> QED BY <2>2, <3>2 DEF Unlisted
  <2>3. CASE pc' = "rule"
    <3>1. SoFar' = SoFar
      BY <1>1, <1>2, <2>3, BegunIs DEF SoFar
    <3>2. Moves(X, SoFar, SoFar')
      BY <1>1, <1>2, <1>4, <3>1, MovesSame, NoneRead
    <3>3. Stood(X)'
      BY <1>0, <2>1, <3>2, StoodMoves
    <3> QED BY <2>3, <3>3 DEF Unlisted
  <2> QED BY <1>4, <2>2, <2>3
<1>5. (Consume("(") /\ pc' = "param") \/ (pos' = pos /\ pc' \in {"no_production", "rule"})
  BY DEF ReadParams, NoOperator, WithoutParams
<1> QED BY <1>3, <1>4, <1>5

LEMMA ReadParamStood ==
  ASSUME Typed, Typed', NEW X, Blank \in X, LosesOnly(X), Stood(X), ReadParam PROVE Stood(X)' /\ Unlisted'
<1>0. pc = "param" /\ UNCHANGED <<text, levels, grammar>>
  BY DEF ReadParam
<1>p. pos \in Nat /\ Here \in Nat /\ pos <= Here
  BY HereBehind
<1> DEFINE ps == prod.params
           n == <<prod.name>>
           s == (n \o ParamList(ps)) \o ListEnd(ps)
<1>1. prod \in ProdSet(NodeSet) /\ ps \in Seq(ParamSet) /\ SoFar = s /\ s \in Seq(Written)
      /\ n \in Seq(Written) /\ ParamList(ps) \in Seq(Written) /\ ListEnd(ps) \in Seq(Written)
  BY <1>0, ProdNow, HeadingIs, ParamsWritten, BegunIs DEF SoFar
<1>i. Symbol(Here) \in Names => /\ Skip(Here + 1) \in Nat /\ Here + 1 <= Skip(Here + 1)
                                /\ Symbol(Here) \in Written \ {End}
  <2> SUFFICES ASSUME Symbol(Here) \in Names
               PROVE  /\ Skip(Here + 1) \in Nat /\ Here + 1 <= Skip(Here + 1)
                      /\ Symbol(Here) \in Written \ {End}
    OBVIOUS
  <2>1. Symbol(Here) # End /\ Symbol(Here) \in Written
    BY SymbolsDiffer, SymbolsWritten
  <2> HIDE DEF Here
  <2>2. Skip(Here + 1) \in Nat /\ Skip(Here + 1) \in Here + 1 .. Len(text)
    BY <1>p, <2>1, BehindSymbol
  <2>3. Len(text) \in Nat
    BY TextIsSeq DEF Typed, StreamTyped
  <2> HIDE DEF Skip
  <2>4. Here + 1 <= Skip(Here + 1)
    BY <1>p, <2>2, <2>3
  <2> QED BY <2>1, <2>2, <2>4
<1>2. CASE /\ Symbol(Here) \in Names /\ Symbol(Skip(Here + 1)) \in Names
           /\ prod' = [prod EXCEPT !.params = Append(@, [text |-> <<Symbol(Here), Symbol(Skip(Here + 1))>>,
                                                         blocks |-> {Fresh(1), Fresh(2), Fresh(3)}])]
           /\ pos' = Skip(Here + 1) + 1 /\ pc' = "param_next"
  <2> DEFINE a == <<Symbol(Here), Symbol(Skip(Here + 1))>>
             q == [text |-> a, blocks |-> {Fresh(1), Fresh(2), Fresh(3)}]
  <2>1. prod'.params \in Seq(ParamSet)
    BY ProdFields DEF Typed, ProdTyped
  <2>2. prod' = [prod EXCEPT !.params = Append(ps, q)]
    BY <1>2
  <2>3. Symbol(Skip(Here + 1)) \in Written \ {End}
    BY <1>2, SymbolsDiffer, SymbolsWritten
  <2>4. Between(a, text, pos, pos', X) /\ pos <= pos'
    <3> DEFINE k == Skip(Here + 1)
    <3>1. k \in {Here + 1, Skip(Here + 1)} /\ Symbol(Here) \in Written \ {End}
          /\ Symbol(k) \in Written \ {End} /\ pos' = k + 1
      BY <1>2, <1>i, <2>3
    <3>2. a = <<Symbol(Here), Symbol(k)>>
      OBVIOUS
    <3> HIDE DEF k, a, Here
    <3> QED BY <3>1, <3>2, TwoRead
  <2>5. q \in ParamSet
    <3>1. a \in Seq(Shown)
      BY <1>2 DEF Shown
    <3>2. Fresh(1) \in Nat /\ Fresh(2) \in Nat /\ Fresh(3) \in Nat
      BY FreshIsFree
    <3> HIDE DEF a
    <3> QED BY <3>1, <3>2 DEF ParamSet
  <2>6. q.text = a
    OBVIOUS
  <2> HIDE DEF q, a, ps
  <2>7. Append(ps, q) \in Seq(ParamSet)
    BY <1>1, <2>5
  <2>8. prod'.params = Append(ps, q) /\ prod'.name = prod.name
    BY <2>2, <2>7, ProdNow
  <2>9. SoFar' = n \o ((ParamList(ps) \o ListEnd(ps)) \o a)
    <3>1. SoFar' = <<prod'.name>> \o ParamList(prod'.params)
      BY <1>2, BegunIs DEF SoFar
    <3>2. ParamList(Append(ps, q)) = (ParamList(ps) \o ListEnd(ps)) \o a
      BY <1>1, <2>5, <2>6, ParamListAppend
    <3> QED BY <2>8, <3>1, <3>2
  <2> HIDE DEF n
  <2>10. a \in Seq(Written)
    BY <1>1, <2>5, <2>6, ParamListAppend
  <2> DEFINE l == ParamList(ps)
             c == ListEnd(ps)
             lc == l \o c
             nl == n \o l
  <2>11. lc \in Seq(Written) /\ nl \in Seq(Written) /\ nl \o c = n \o lc
    BY <1>1, ConcatAssociates
  <2> HIDE DEF l, c, lc, nl
  <2>12. n \o (lc \o a) = (n \o lc) \o a
    <3>1. n \in Seq(Written) /\ lc \in Seq(Written) /\ a \in Seq(Written)
      BY <1>1, <2>10, <2>11
    <3> QED BY <3>1, ConcatAssociates, SMTT(30)
  <2>13. SoFar' = s \o a
    BY <2>9, <2>11, <2>12 DEF l, c, lc, nl
  <2> HIDE DEF s
  <2>14. Moves(X, SoFar, SoFar')
    BY <1>1, <2>4, <2>10, <2>13, MovesOn
  <2>15. Stood(X)'
    BY <1>0, <2>4, <2>14, StoodMoves
  <2> QED BY <1>2, <2>15 DEF Unlisted
<1>3. ASSUME NEW err, NoParam(err), pos <= pos' PROVE Stood(X)' /\ Unlisted'
  <2>a. Symbols \subseteq X /\ Skips(X)
    <3>1. pc' # "param_next"
      BY <1>3 DEF NoParam
    <3>2. Symbols \subseteq X
      BY <1>0, <3>1 DEF LosesOnly
    <3> QED BY <1>0, <1>3, <3>2, AllLeftOut
  <2>1. CASE pc' = "no_production"
    <3>1. Stood(X)'
      BY <1>0, <1>3, <2>a, <2>1, NothingBegun DEF NothingBegunPCs
    <3> QED BY <2>1, <3>1 DEF Unlisted
  <2>2. CASE pc' = "param_end" /\ e' = ERR_NONE
    <3>1. ps = <<>> /\ prod' = [prod EXCEPT !.params = <<>>]
      <4>1. ERRBNF_SYNTAX # ERR_NONE
        BY DEF ERRBNF_SYNTAX, ERR_NONE
      <4> QED BY <1>3, <2>2, <4>1 DEF NoParam
    <3>2. prod'.params = <<>> /\ prod'.name = prod.name
      <4>1. <<>> \in Seq(ParamSet)
        BY EmptySeq
      <4> QED BY <3>1, <4>1, ProdNow
    <3>3. SoFar' = n \o ParamList(ps)
      BY <2>2, <3>1, <3>2, BegunIs DEF SoFar
    <3>4. n \o ParamList(ps) \in Seq(Written) /\ s = (n \o ParamList(ps)) \o <<>>
      BY <1>1, <3>1, ConcatProperties DEF ListEnd
    <3>5. SoFar' = s
      BY <3>3, <3>4, ConcatEmptySeq
    <3> HIDE DEF s
    <3>6. Moves(X, SoFar, SoFar')
      BY <1>1, <2>a, <3>5, MovesSame
    <3>7. Stood(X)'
      BY <1>0, <1>3, <3>6, StoodMoves
    <3> QED BY <2>2, <3>7 DEF Unlisted
  <2> QED BY <1>3, <2>1, <2>2 DEF NoParam
<1>4. \/ NoParam(e) /\ pos' = pos
      \/ NoParam(ERR_MEMORY_ALLOC) /\ Symbol(Here) \in Names /\ pos' = Skip(Here + 1) + 1
      \/ NoParam(ERRBNF_SYNTAX) /\ pos' = Here + 1
      \/ /\ Symbol(Here) \in Names /\ Symbol(Skip(Here + 1)) \in Names
         /\ prod' = [prod EXCEPT !.params = Append(@, [text |-> <<Symbol(Here), Symbol(Skip(Here + 1))>>,
                                                       blocks |-> {Fresh(1), Fresh(2), Fresh(3)}])]
         /\ pos' = Skip(Here + 1) + 1 /\ pc' = "param_next"
  BY Zenon DEF ReadParam
<1>5. /\ pos' = pos => pos <= pos'
      /\ pos' = Here + 1 => pos <= pos'
      /\ Symbol(Here) \in Names /\ pos' = Skip(Here + 1) + 1 => pos <= pos'
  <2> HIDE DEF Here, Skip
  <2> QED BY <1>p, <1>i
<1> QED BY <1>2, <1>3, <1>4, <1>5

LEMMA ReadParamNextStood ==
  ASSUME Typed, Typed', Phases, NEW X, Blank \in X, LosesOnly(X), Stood(X), ReadParamNext PROVE Stood(X)'
<1>0. /\ pc = "param_next" /\ UNCHANGED <<text, prod, levels, grammar>> /\ prod.params # <<>>
      /\ prod' = prod
  BY DEF ReadParamNext, Phases
<1>p. pos \in Nat
  BY HereBehind
<1> DEFINE s == <<prod.name>> \o ParamList(prod.params)
           a == <<Comma>>
<1>1. s \in Seq(Written) /\ ListEnd(prod.params) = a /\ SoFar = s
  BY <1>0, ProdNow, HeadingIs, BegunIs DEF SoFar, ListEnd
<1>2. CASE Consume(Comma) /\ pc' = "param"
  <2>0. Comma \in Operators
    BY Zenon DEF Operators
  <2>1. SoFar' = s \o a
    BY <1>0, <1>1, <1>2, BegunIs DEF SoFar
  <2>2. Between(a, text, pos, pos', X) /\ pos <= pos' /\ a \in Seq(Written)
    BY <1>2, <2>0, OperatorRead
  <2> HIDE DEF s, a
  <2>3. Moves(X, SoFar, SoFar')
    BY <1>1, <2>1, <2>2, MovesOn
  <2> QED BY <1>0, <2>2, <2>3, StoodMoves
<1>3. CASE pos' = pos /\ pc' = "param_end"
  <2>1. SoFar' = s
    BY <1>0, <1>3, BegunIs DEF SoFar
  <2> HIDE DEF s
  <2>2. Moves(X, SoFar, SoFar') /\ pos <= pos'
    BY <1>1, <1>3, <1>p, <2>1, MovesSame, NoneRead
  <2> QED BY <1>0, <2>2, StoodMoves
<1>4. (Consume(Comma) /\ pc' = "param") \/ (pos' = pos /\ pc' = "param_end")
  BY DEF ReadParamNext, NoOperator
<1> QED BY <1>2, <1>3, <1>4

LEMMA ReadParamEndStood ==
  ASSUME Typed, Typed', NEW X, Blank \in X, LosesOnly(X), Stood(X), ReadParamEnd PROVE Stood(X)'
<1>0. pc = "param_end" /\ UNCHANGED <<text, levels, grammar>>
  BY DEF ReadParamEnd
<1>p. pos \in Nat
  BY HereBehind
<1> DEFINE n == <<prod.name>>
           l == ParamList(prod.params)
           a == <<")">>
<1>1. /\ prod \in ProdSet(NodeSet) /\ SoFar = n \o l /\ n \in Seq(Written) /\ l \in Seq(Written)
      /\ n \o l \in Seq(Written)
      /\ prod.params # <<>> => Heading(prod) = (n \o l) \o a
      /\ prod.params = <<>> => Heading(prod) = n
  BY <1>0, ProdNow, HeadingIs, ParamsWritten, BegunIs DEF SoFar
<1>2. ASSUME pos <= pos', pc' = "no_production" PROVE Stood(X)'
  <2>1. Symbols \subseteq X
    BY <1>0, <1>2 DEF LosesOnly
  <2> QED BY <1>0, <1>2, <2>1, NothingBegun DEF NothingBegunPCs
\* The list is empty, or it is dropped.
<1>3. ASSUME pos <= pos', pc' = "rule", prod'.params = <<>>, prod'.name = prod.name, Symbols \subseteq X
      PROVE  Stood(X)'
  <2>1. SoFar' = n
    <3>1. SoFar' = Heading(prod')
      BY <1>3, BegunIs DEF SoFar
    <3>2. Heading(prod') = n
      <4>1. n \o <<>> = n
        BY <1>1, ConcatEmptySeq
      <4> QED BY <1>3, <4>1, Zenon DEF Heading
    <3> QED BY <3>1, <3>2
  <2> HIDE DEF n, l
  <2>2. Moves(X, SoFar, SoFar')
    BY <1>0, <1>1, <1>3, <2>1, MovesBack
  <2> QED BY <1>0, <1>3, <2>2, StoodMoves
<1>4. CASE Consume(")") /\ pc' = (IF prod.params = <<>> THEN WithoutParams(e) ELSE "rule") /\ prod' = prod
  <2>0. ")" \in Operators
    BY Zenon DEF Operators
  <2>1. Between(a, text, pos, pos', X) /\ pos <= pos' /\ a \in Seq(Written)
    BY <1>4, <2>0, OperatorRead
  <2>2. CASE prod.params = <<>>
    <3>1. Symbols \subseteq X
      BY <1>0, <2>2 DEF LosesOnly
    <3> QED BY <1>2, <1>3, <1>4, <2>1, <2>2, <3>1 DEF WithoutParams
  <2>3. CASE prod.params # <<>>
    <3>1. SoFar' = (n \o l) \o a
      BY <1>1, <1>4, <2>3, BegunIs DEF SoFar
    <3> DEFINE s == n \o l
    <3>2. SoFar = s /\ SoFar' = s \o a /\ s \in Seq(Written)
      BY <1>1, <3>1
    <3> HIDE DEF s, a
    <3>3. Moves(X, SoFar, SoFar')
      BY <2>1, <3>2, MovesOn
    <3> QED BY <1>0, <2>1, <3>3, StoodMoves
  <2> QED BY <2>2, <2>3
<1>5. CASE ~At(")") /\ pos' = pos /\ prod' = [prod EXCEPT !.params = <<>>] /\ pc' = WithoutParams(e)
  <2>1. <<>> \in Seq(ParamSet)
    BY EmptySeq
  <2>2. prod'.params = <<>> /\ prod'.name = prod.name /\ pos <= pos'
    BY <1>5, <1>p, <2>1, ProdNow
  <2>3. Symbols \subseteq X
    BY <1>0, <1>5 DEF LosesOnly
  <2> QED BY <1>2, <1>3, <1>5, <2>2, <2>3 DEF WithoutParams
<1>6. \/ Consume(")") /\ pc' = (IF prod.params = <<>> THEN WithoutParams(e) ELSE "rule") /\ prod' = prod
      \/ ~At(")") /\ pos' = pos /\ prod' = [prod EXCEPT !.params = <<>>] /\ pc' = WithoutParams(e)
  BY DEF ReadParamEnd, NoOperator, At
<1> QED BY <1>4, <1>5, <1>6

\* OP_RULE is consumed as a whole.
LEMMA RuleRead ==
  ASSUME Typed, NEW X, Blank \in X, IsPrefix(OP_RULE, Ahead), pos' = Here + 3
  PROVE  Between(OP_RULE, text, pos, pos', X) /\ pos <= pos'
<1>1. text \in Seq(Symbols) /\ Len(text) \in Nat
  BY TextIsSeq DEF Typed, StreamTyped
<1>2. PICK n \in Nat : n = Len(text)
  BY <1>1
<1>3. Here \in 0 .. n /\ pos \in 0 .. n /\ Here \in pos .. n
  BY <1>2, HereIs
<1>b. \A p \in pos + 1 .. Here : text[p] \in X
  BY BlanksBefore
<1> HIDE DEF Here
<1> DEFINE r == SubSeq(Ahead, 1, 3)
<1>4. Len(Ahead) >= 3 /\ r[1] = ":" /\ r[2] = ":" /\ r[3] = "="
  <2>1. /\ Len(OP_RULE) = 3 /\ SubSeq(OP_RULE, 1, 3)[1] = ":" /\ SubSeq(OP_RULE, 1, 3)[2] = ":"
        /\ SubSeq(OP_RULE, 1, 3)[3] = "="
    BY DEF OP_RULE
  <2>2. Len(Ahead) >= 3 /\ r = SubSeq(OP_RULE, 1, 3)
    BY <2>1 DEF IsPrefix
  <2> HIDE DEF r
  <2> QED BY <2>1, <2>2
<1>5. \A k \in 1 .. 3 : r[k] = Ahead[k]
  <2>1. Ahead \in Seq(Symbols)
    BY <1>1, <1>2, <1>3 DEF Ahead
  <2> HIDE DEF Ahead, r
  <2>2. \A k \in 1 .. 3 : k \in 1 .. Len(Ahead)
    BY <1>4, <2>1, LenProperties
  <2>3. \A k \in 1 .. 3 : SubSeq(Ahead, 1, 3)[k] = Ahead[k]
    BY <2>1, <2>2, <1>4, SMTT(30)
  <2> QED BY <2>3 DEF r
<1>6. /\ Len(Ahead) = IF Here + 1 <= n THEN n - Here ELSE 0
      /\ \A k \in 1 .. Len(Ahead) : Ahead[k] = text[Here + k]
  BY <1>1, <1>2, <1>3 DEF Ahead
<1> HIDE DEF r
<1>7. text[Here + 1] = ":" /\ text[Here + 2] = ":" /\ text[Here + 3] = "=" /\ Here + 3 <= n
  <2>1. 1 \in 1 .. 3 /\ 2 \in 1 .. 3 /\ 3 \in 1 .. 3
    OBVIOUS
  <2>2. 1 \in 1 .. Len(Ahead) /\ 2 \in 1 .. Len(Ahead) /\ 3 \in 1 .. Len(Ahead) /\ Here + 3 <= n
    BY <1>2, <1>3, <1>4, <1>6
  <2> HIDE DEF Ahead
  <2> QED BY <1>4, <1>5, <1>6, <2>1, <2>2
<1> DEFINE i == Here + 1
           j == Here + 2
           k == Here + 3
<1>8. /\ pos \in Int /\ i \in Int /\ j \in Int /\ k \in Int /\ pos <= i /\ i <= j /\ j <= k /\ pos <= j
      /\ i \in pos + 1 .. i /\ j \in i + 1 .. j /\ k \in j + 1 .. k /\ pos <= k
      /\ (\A p \in i + 1 .. j : p = j) /\ (\A p \in j + 1 .. k : p = k)
      /\ \A p \in pos + 1 .. i : p = i \/ p \in pos + 1 .. Here
  BY <1>3
<1>9. text[i] = ":" /\ text[j] = ":" /\ text[k] = "=" /\ pos' = k
  BY <1>7
<1> HIDE DEF i, j, k
<1> DEFINE a == <<":">>
           b == <<"=">>
<1>10. Between(a, text, pos, i, X) /\ Between(a, text, i, j, X) /\ Between(b, text, j, k, X)
  <2>1. Between(<<text[i]>>, text, pos, i, X)
    BY <1>8, <1>b, OneBetween
  <2>2. Between(<<text[j]>>, text, i, j, X)
    BY <1>8, OneBetween
  <2>3. Between(<<text[k]>>, text, j, k, X)
    BY <1>8, OneBetween
  <2> QED BY <1>9, <2>1, <2>2, <2>3
<1>11. a \in Seq(Written) /\ b \in Seq(Written) /\ a \o a \in Seq(Written) /\ (a \o a) \o b = OP_RULE
  <2>1. ":" \in Written /\ "=" \in Written
    BY Zenon DEF Written, Shown
  <2>2. a \o a = <<":", ":">> /\ <<":", ":">> \o b = <<":", ":", "=">>
    <3> HIDE DEF Written
    <3> QED BY <2>1, PairConcat
  <2>4. a \in Seq(Written) /\ b \in Seq(Written)
    <3> HIDE DEF Written
    <3> QED BY <2>1
  <2>5. a \o a \in Seq(Written)
    <3> HIDE DEF a
    <3> QED BY <2>4, ConcatProperties
  <2> QED BY <2>2, <2>4, <2>5 DEF OP_RULE
<1> HIDE DEF a, b
<1>12. Between(a \o a, text, pos, j, X)
  BY <1>8, <1>10, <1>11, ConcatBetween
<1> DEFINE aa == a \o a
<1>13. aa \in Seq(Written) /\ Between(aa, text, pos, j, X) /\ aa \o b = OP_RULE
  BY <1>11, <1>12
<1> HIDE DEF aa
<1>14. Between(aa \o b, text, pos, k, X)
  BY <1>8, <1>10, <1>11, <1>13, ConcatBetween
<1> QED BY <1>8, <1>9, <1>13, <1>14

LEMMA ReadRuleStood ==
  ASSUME Typed, Typed', NEW X, Blank \in X, LosesOnly(X), Stood(X), ReadRule PROVE Stood(X)'
<1>0. pc = "rule" /\ UNCHANGED <<text, prod, grammar>> /\ prod' = prod
  BY DEF ReadRule
<1>1. CASE /\ IsPrefix(OP_RULE, Ahead) /\ pos' = Here + 3 /\ pc' = "alternative"
           /\ levels' = <<NoLevel>>
  <2>1. Between(OP_RULE, text, pos, pos', X) /\ pos <= pos'
    BY <1>1, RuleRead
  <2> DEFINE h == Heading(prod)
  <2>2. h \in Seq(Written) /\ OP_RULE \in Seq(Written) /\ SoFar = h /\ h \o OP_RULE \in Seq(Written)
    BY <1>0, ProdNow, HeadingIs, SymbolsWritten, BegunIs DEF SoFar, Ruled
  <2>3. LevelsText("alternative", levels') = <<>>
    <3>1. <<>> \in Seq(LevelSet) /\ <<NoLevel>> = Append(<<>>, NoLevel)
      OBVIOUS
    <3>2. LevelsText("alternative", Append(<<>>, NoLevel)) = OpenedText(<<>>) \o LevelText("alternative", NoLevel)
      BY <3>1, NoLevelTyped, LevelsTextIs
    <3>3. OpenedText(<<>>) = <<>>
      BY <3>1, OpenedTextIs
    <3>4. LevelText("alternative", NoLevel) = AltText(NoLevel)
      BY DEF LevelText
    <3>5. AltText(NoLevel) = <<>>
      <4>1. NodesText(NoLevel.target) = <<>> /\ NodesText(NoLevel.facts) = <<>> /\ OrText(NoLevel) = <<>>
        BY NoLevelTyped, NodesTextOne DEF OrText
      <4>2. AltText(NoLevel) = (<<>> \o <<>>) \o <<>>
        BY <4>1, Zenon DEF AltText
      <4> QED BY <4>2
    <3>6. <<>> \o <<>> = <<>>
      OBVIOUS
    <3> QED BY <1>1, <3>1, <3>2, <3>3, <3>4, <3>5, <3>6
  <2>4. SoFar' = (h \o OP_RULE) \o <<>>
    <3>1. pc' \in LevelPCs
      BY <1>1 DEF LevelPCs
    <3>2. SoFar' = Ruled(prod) \o LevelsText("alternative", levels')
      BY <1>0, <1>1, <3>1, BegunIs DEF SoFar
    <3> QED BY <2>3, <3>2 DEF Ruled
  <2> HIDE DEF h
  <2>5. SoFar' = h \o OP_RULE
    BY <2>2, <2>4, ConcatEmptySeq
  <2>6. Moves(X, SoFar, SoFar')
    BY <2>1, <2>2, <2>5, MovesOn
  <2> QED BY <1>0, <2>1, <2>6, StoodMoves
<1>2. CASE pos' = pos /\ pc' = "no_production"
  <2>1. pos <= pos' /\ Symbols \subseteq X
    BY <1>0, <1>2, HereBehind DEF LosesOnly
  <2> QED BY <1>0, <1>2, <2>1, NothingBegun DEF NothingBegunPCs
<1> QED BY <1>1, <1>2, Zenon DEF ReadRule, NoLevel

LEMMA ReadRuleEndStood ==
  ASSUME Typed, Typed', NEW X, Blank \in X, LosesOnly(X), Stood(X), ReadRuleEnd PROVE Stood(X)'
<1>0. pc = "rule_end" /\ UNCHANGED <<text, levels>>
  BY DEF ReadRuleEnd
<1>1. pos <= pos' /\ (Consume(OP_RULE_END) \/ pc' = "no_production")
  <2>0. OP_RULE_END \in Operators
    BY Zenon DEF Operators
  <2>1. Consume(OP_RULE_END) => pos <= pos'
    BY <2>0, OperatorRead
  <2>2. pos' = pos => pos <= pos'
    BY HereBehind
  <2> QED BY <2>1, <2>2 DEF ReadRuleEnd, NoOperator
<1>2. CASE pc' = "no_production" /\ grammar' = grammar
  <2>1. Symbols \subseteq X
    BY <1>0, <1>2 DEF LosesOnly
  <2> QED BY <1>0, <1>1, <1>2, <2>1, NothingBegun DEF NothingBegunPCs
<1>3. CASE /\ Consume(OP_RULE_END) /\ grammar' = Append(grammar, [prod EXCEPT !.block = Fresh(1)])
           /\ pc' = "production"
  <2> DEFINE q == [prod EXCEPT !.block = Fresh(1)]
  <2>1. /\ q \in ProdSet(NodeSet) /\ q.exprs = prod.exprs /\ q.name = prod.name /\ q.params = prod.params
        /\ prod \in ProdSet(NodeSet)
    <3>1. Fresh(1) \in Nat
      BY FreshIsFree
    <3>2. prod \in ProdSet(NodeSet)
      BY ProdNow
    <3> QED BY <3>1, <3>2 DEF ProdSet
  <2>2. grammar \in Seq(ProdSet(NodeSet)) /\ grammar' = Append(grammar, q)
    BY <1>3, ReadNodesAreNodes DEF Typed, GrammarTyped
  <2> HIDE DEF q
  <2> DEFINE p == Printed
             s == SoFar
             c == <<OP_RULE_END>>
             g == grammar
  <2>3. /\ p \in Seq(Written) /\ s \in Seq(Written) /\ c \in Seq(Written) /\ p = PrintedText(g)
        /\ Between(c, text, pos, pos', X) /\ g \in Seq(ProdSet(NodeSet)) /\ grammar' = Append(g, q)
        /\ StandsIn(p \o s, text, pos, X)
    <3>0. OP_RULE_END \in Operators
      BY Zenon DEF Operators
    <3>1. Between(c, text, pos, pos', X) /\ c \in Seq(Written)
      BY <1>3, <3>0, OperatorRead
    <3> QED BY <2>2, <3>1, BegunWritten DEF Stood
  <2>4. Dump(q) = s \o c
    <3>1. Heading(q) = Heading(prod)
      BY <2>1, Zenon DEF Heading
    <3>2. Ruled(q) \o NodesText(q.exprs) = s
      BY <1>0, <2>1, <3>1, BegunIs DEF SoFar, Ruled
    <3> QED BY <2>1, <3>2, DumpIs
  <2>5. Stood(X)' = StandsIn(PrintedText(grammar') \o <<>>, text, pos', X)
    <3>1. SoFar' = <<>>
      <4>1. pc' \in NothingBegunPCs
        BY <1>3 DEF NothingBegunPCs
      <4> QED BY <4>1, BegunIs DEF SoFar
    <3>2. Printed' = PrintedText(grammar')
      BY NextWritten
    <3>3. text' = text
      BY <1>0
    <3> QED BY <3>1, <3>2, <3>3 DEF Stood
  <2> HIDE DEF p, s, c, g
  <2>6. PrintedText(grammar') = p \o (s \o c)
    BY <2>1, <2>3, <2>4, PrintedTextIs
  <2> DEFINE ps == p \o s
             psc == (p \o s) \o c
  <2>7. ps \in Seq(Written) /\ psc = ps \o c /\ psc \in Seq(Written) /\ PrintedText(grammar') = psc
    <3>1. (p \o s) \o c = p \o (s \o c) /\ p \o s \in Seq(Written)
      BY <2>3, ConcatAssociates
    <3>2. (p \o s) \o c \in Seq(Written)
      BY <2>3, <3>1, ConcatProperties
    <3> QED BY <2>6, <3>1, <3>2
  <2>8. StandsIn(ps, text, pos, X)
    BY <2>3
  <2> HIDE DEF ps, psc
  <2>9. Becomes(Written, ps, psc, text, pos, pos', X)
    BY <2>3, <2>7, Zenon DEF Becomes
  <2>10. pos \in Nat /\ pos' \in Nat
    <3>l. Len(text) \in Nat
      BY TextIsSeq DEF Typed, StreamTyped
    <3>1. PICK l \in Nat : l = Len(text)
      BY <3>l
    <3>2. pos \in 0 .. l /\ pos' \in 0 .. l
      BY <1>0, <3>1 DEF Typed, StreamTyped
    <3> QED BY <3>2
  <2>11. StandsIn(psc, text, pos', X)
    BY <1>1, <2>7, <2>8, <2>9, <2>10, StillStands
  <2>12. psc \o <<>> = psc
    BY <2>7, ConcatEmptySeq
  <2> QED BY <2>5, <2>7, <2>11, <2>12
<1>4. \/ pc' = "no_production" /\ grammar' = grammar
      \/ /\ Consume(OP_RULE_END) /\ grammar' = Append(grammar, [prod EXCEPT !.block = Fresh(1)])
         /\ pc' = "production"
  BY Zenon DEF ReadRuleEnd
<1> QED BY <1>2, <1>3, <1>4

-----------------------------------------------------------------------------
(* What was read stands in the text: expressions and factors *)

\* The expressions of a production are behind its "::=".
LEMMA LevelsMove ==
  ASSUME Typed, Typed', NEW X, Stood(X), pc \in LevelPCs, pc' \in LevelPCs,
         UNCHANGED <<text, prod, grammar>>,
         pos <= pos', Moves(X, LevelsText(pc, levels), LevelsText(pc', levels'))
  PROVE  Stood(X)'
<1> DEFINE r == Ruled(prod)
           s == LevelsText(pc, levels)
           u == LevelsText(pc', levels')
<1>1. r \in Seq(Written)
  BY ProdNow, HeadingIs
<1>2. s \in Seq(Written)
  <2>1. Level \in LevelSet /\ Front(levels) \in Seq(LevelSet) /\ levels = Append(Front(levels), Level)
    BY LastLevel
  <2> QED BY <2>1, LevelsTextIs
<1>3. u \in Seq(Written)
  <2>1. levels' \in Seq(LevelSet) /\ levels' # <<>>
    BY DEF Typed, LevelsTyped
  <2>2. /\ Last(levels') \in LevelSet /\ Front(levels') \in Seq(LevelSet)
        /\ levels' = Append(Front(levels'), Last(levels'))
    BY <2>1, FrontAndLast
  <2> QED BY <2>2, LevelsTextIs
<1>4. SoFar = r \o s
  BY BegunIs DEF SoFar
<1>5. SoFar' = r \o u
  <2>1. prod' = prod
    OBVIOUS
  <2> QED BY <2>1, BegunIs DEF SoFar
<1> HIDE DEF r, s, u
<1>6. Becomes(Written, r \o s, r \o u, text, pos, pos', X)
  <2>1. Becomes(Written, s, u, text, pos, pos', X)
    BY DEF Moves, s, u
  <2> QED BY <1>1, <1>2, <1>3, <2>1, BecomesBehind
<1>7. Moves(X, SoFar, SoFar')
  BY <1>4, <1>5, <1>6 DEF Moves
<1> QED BY <1>7, StoodMoves

\* Only the innermost level changes.
LEMMA InnerMoves ==
  ASSUME Typed, Typed', NEW X, Stood(X), pc \in LevelPCs, pc' \in LevelPCs,
         UNCHANGED <<text, prod, grammar>>,
         pos <= pos', NEW l \in LevelSet, levels' = Append(Front(levels), l),
         Moves(X, LevelText(pc, Level), LevelText(pc', l))
  PROVE  Stood(X)'
<1>1. Level \in LevelSet /\ Front(levels) \in Seq(LevelSet) /\ levels = Append(Front(levels), Level)
  BY LastLevel
<1> DEFINE o == OpenedText(Front(levels))
           s == LevelText(pc, Level)
           u == LevelText(pc', l)
<1>2. o \in Seq(Written) /\ s \in Seq(Written) /\ u \in Seq(Written)
  BY <1>1, OpenedTextIs, LevelWritten
<1>3. LevelsText(pc, levels) = o \o s /\ LevelsText(pc', levels') = o \o u
  BY <1>1, LevelsTextIs
<1>4. Becomes(Written, s, u, text, pos, pos', X)
  BY DEF Moves
<1> HIDE DEF o, s, u
<1>5. Becomes(Written, o \o s, o \o u, text, pos, pos', X)
  BY <1>2, <1>4, BecomesBehind
<1>6. Moves(X, LevelsText(pc, levels), LevelsText(pc', levels'))
  BY <1>3, <1>5 DEF Moves
<1> QED BY <1>6, LevelsMove

LEMMA InnerStays ==
  ASSUME Typed, Typed', NEW X, Stood(X), pc \in LevelPCs, pc' \in LevelPCs,
         UNCHANGED <<text, prod, grammar>>, Skips(X), NEW l \in LevelSet, levels' = Append(Front(levels), l),
         LevelText(pc', l) = LevelText(pc, Level)
  PROVE  Stood(X)'
<1>1. LevelText(pc, Level) \in Seq(Written)
  BY LastLevel, LevelWritten
<1>2. Moves(X, LevelText(pc, Level), LevelText(pc', l))
  BY <1>1, MovesSame
<1> QED BY <1>2, InnerMoves DEF Skips

\* What a level prints depends on its nodes.
LEMMA AltTextIs ==
  ASSUME NEW l \in LevelSet
  PROVE  /\ \A m : m.target = l.target /\ m.facts = l.facts => AltText(m) = AltText(l)
         /\ \A ns \in Seq(ReadNode) : AltText(WithFacts(l, ns)) = AltText(l) \o NodesText(ns)
         /\ NodesText(Alternative(l).target) = AltText(l)
         /\ l.facts = <<>> => AltText(l) = NodesText(l.target) \o OrText(l)
<1>1. /\ l.target \in Seq(NodeSet) /\ l.facts \in Seq(NodeSet)
      /\ NodesText(l.target) \in Seq(Written) /\ NodesText(l.facts) \in Seq(Written)
      /\ OrText(l) \in Seq(Written) /\ AltText(l) \in Seq(Written)
  BY LevelWritten
<1>2. \A m : m.target = l.target /\ m.facts = l.facts => AltText(m) = AltText(l)
  BY Zenon DEF AltText, OrText
<1> DEFINE t == NodesText(l.target) \o OrText(l)
           f == NodesText(l.facts)
<1>3. t \in Seq(Written) /\ f \in Seq(Written) /\ AltText(l) = t \o f
  BY <1>1, ConcatProperties DEF AltText
<1>4. ASSUME NEW ns \in Seq(ReadNode)
      PROVE  AltText(WithFacts(l, ns)) = AltText(l) \o NodesText(ns)
  <2> DEFINE m == WithFacts(l, ns)
             x == NodesText(ns)
  <2>1. m.facts = l.facts \o ns /\ m.target = l.target
    BY FactAdded
  <2>2. ns \in Seq(NodeSet)
    BY ReadNodesAreNodes
  <2>3. NodesText(m.facts) = f \o x /\ x \in Seq(Written)
    BY <1>1, <2>1, <2>2, NodesTextConcat, NodesTextIs
  <2>4. AltText(m) = t \o (f \o x)
    <3>1. OrText(m) = OrText(l)
      BY <2>1 DEF OrText
    <3> QED BY <2>1, <2>3, <3>1, Zenon DEF AltText
  <2> HIDE DEF t, f, x
  <2>5. t \o (f \o x) = (t \o f) \o x
    BY <1>3, <2>3, ConcatAssociates
  <2> QED BY <1>3, <2>4, <2>5 DEF x
<1>5. NodesText(Alternative(l).target) = AltText(l)
  <2> DEFINE n == ExprNode(l)
             one == <<n>>
             b == l.target
             g == l.facts
  <2>1. n \in NodeSet /\ Alternative(l).target = (b \o one) \o g
    BY AlternativeIs DEF ReadNode
  <2>2. one \in Seq(NodeSet) /\ NodesText(one) = OrText(l)
    <3>1. n.text = OrText(l)
      BY DEF ExprNode, Node, OrText
    <3> QED BY <2>1, <3>1, NodesTextOne
  <2>3. b \in Seq(NodeSet) /\ g \in Seq(NodeSet)
    BY <1>1
  <2> HIDE DEF one, b, g
  <2>4. b \o one \in Seq(NodeSet)
    BY <2>2, <2>3, ConcatProperties
  <2> DEFINE bo == b \o one
  <2>5. bo \in Seq(NodeSet) /\ NodesText(bo) = NodesText(b) \o NodesText(one)
    BY <2>2, <2>3, <2>4, NodesTextConcat
  <2>6. Alternative(l).target = bo \o g
    BY <2>1
  <2> HIDE DEF bo
  <2>7. NodesText(bo \o g) = NodesText(bo) \o NodesText(g)
    BY <2>3, <2>5, NodesTextConcat
  <2> QED BY <2>2, <2>5, <2>6, <2>7, Zenon DEF AltText, b, g
<1>6. l.facts = <<>> => AltText(l) = NodesText(l.target) \o OrText(l)
  <2>1. l.facts = <<>> => f = <<>>
    BY NodesTextOne
  <2> HIDE DEF t, f
  <2>2. l.facts = <<>> => AltText(l) = t
    BY <1>3, <2>1, ConcatEmptySeq
  <2> QED BY <2>2 DEF t
<1> QED BY <1>2, <1>4, <1>5, <1>6

LEMMA LevelTextIs ==
  \A l : /\ \A c \in {"or", "close", "no_alternative"} : LevelText(c, l) = NodesText(l.target)
         /\ \A c \in {"alternative", "factor", "operand", "no_factor"} : LevelText(c, l) = AltText(l)
<1> TAKE l
<1> DEFINE n == NodesText(l.target)
           a == AltText(l)
<1>1. \A c : LevelText(c, l) = IF c \in {"or", "close", "no_alternative"} THEN n ELSE a
  BY DEF LevelText
<1> HIDE DEF n, a
<1> QED BY <1>1 DEF n, a

\* A step of a factor that keeps the nodes of the innermost level.
LEMMA FactorStays ==
  ASSUME Typed, Typed', NEW X, Stood(X), UNCHANGED <<text, prod, grammar>>, Skips(X),
         pc \in {"alternative", "factor", "operand", "no_factor"},
         pc' \in {"alternative", "factor", "operand", "no_factor"},
         NEW l \in LevelSet, levels' = Append(Front(levels), l),
         l.target = Level.target, l.facts = Level.facts
  PROVE  Stood(X)'
<1>1. pc \in LevelPCs /\ pc' \in LevelPCs
  BY DEF LevelPCs
<1>2. Level \in LevelSet
  BY <1>1, LastLevel
<1>3. LevelText(pc', l) = LevelText(pc, Level)
  BY <1>2, AltTextIs, LevelTextIs
<1> QED BY <1>1, <1>3, InnerStays

\* The "|" goes with the alternative that does not come.
LEMMA AlternativeDropped ==
  ASSUME Typed, Typed', NEW X, Symbols \subseteq X, Stood(X),
         UNCHANGED <<text, prod, grammar>>, pos <= pos',
         pc \in {"alternative", "factor", "operand", "no_factor"}, pc' = "no_alternative",
         NEW l \in LevelSet, levels' = Append(Front(levels), l),
         l.target = Level.target, Level.facts = <<>>
  PROVE  Stood(X)'
<1>1. pc \in LevelPCs /\ pc' \in LevelPCs
  BY DEF LevelPCs
<1>2. Level \in LevelSet
  BY <1>1, LastLevel
<1> DEFINE s == NodesText(Level.target)
           a == OrText(Level)
<1>3. LevelText(pc, Level) = s \o a /\ LevelText(pc', l) = s /\ s \in Seq(Written) /\ a \in Seq(Written)
  BY <1>2, AltTextIs, LevelTextIs, LevelWritten
<1> HIDE DEF s, a
<1>4. Moves(X, LevelText(pc, Level), LevelText(pc', l))
  BY <1>3, MovesBack
<1> QED BY <1>1, <1>4, InnerMoves

LEMMA ReadAlternativeStood ==
  ASSUME Typed, Typed', Phases, NEW X, Blank \in X, LosesOnly(X), Stood(X), ReadAlternative PROVE Stood(X)'
<1>0. /\ pc = "alternative" /\ pc \in LevelPCs /\ UNCHANGED <<text, pos, prod, grammar>>
      /\ Level.facts = <<>>
  BY DEF ReadAlternative, LevelPCs, Phases
<1>p. pos <= pos' /\ Skips(X)
  BY <1>0, HereBehind, NoneRead
<1>1. /\ Level \in LevelSet /\ levels = Append(Front(levels), Level)
      /\ \A l \in LevelSet : SetLevel(l) = Append(Front(levels), l)
  BY <1>0, LastLevel
<1>2. CASE levels' = SetLevel([Level EXCEPT !.expr = Fresh(1)]) /\ pc' = "factor"
  <2> DEFINE l == [Level EXCEPT !.expr = Fresh(1)]
  <2>1. Fresh(1) \in Nat
    BY FreshIsFree
  <2>2. l \in LevelSet /\ l.target = Level.target /\ l.facts = Level.facts /\ levels' = SetLevel(l)
    BY <1>1, <1>2, <2>1 DEF LevelSet
  <2> HIDE DEF l
  <2> QED BY <1>0, <1>1, <1>2, <1>p, <2>2, FactorStays
<1>3. CASE levels' = levels /\ pc' = "no_alternative"
  <2>1. levels' = Append(Front(levels), Level)
    BY <1>1, <1>3
  <2>2. Symbols \subseteq X
    BY <1>3 DEF LosesOnly
  <2> QED BY <1>0, <1>1, <1>3, <1>p, <2>1, <2>2, AlternativeDropped
<1> QED BY <1>2, <1>3 DEF ReadAlternative

\* A factor is added to the innermost level.
LEMMA AddFactorStood ==
  ASSUME Typed, Typed', NEW X, Stood(X), UNCHANGED <<text, prod, grammar>>, pos <= pos',
         pc \in {"factor", "operand"}, NEW n \in ReadNode, AddFactor(Level, <<n>>),
         Between(n.text, text, pos, pos', X)
  PROVE  Stood(X)'
<1>1. pc \in LevelPCs /\ pc' \in LevelPCs /\ pc' = "factor"
  BY DEF LevelPCs, AddFactor
<1>2. /\ Level \in LevelSet /\ Front(levels) \in Seq(LevelSet)
      /\ \A l \in LevelSet : SetLevel(l) = Append(Front(levels), l)
  BY <1>1, LastLevel
<1> DEFINE ns == <<n>>
           m == WithFacts(Level, ns)
           s == AltText(Level)
           a == n.text
<1>3. n \in NodeSet /\ ns \in Seq(ReadNode)
  BY DEF ReadNode
<1>4. NodesText(ns) = a /\ a \in Seq(Written)
  BY <1>3, NodesTextOne
<1>5. levels' = SetLevel(m)
  BY DEF AddFactor, WithFacts
<1> HIDE DEF ns
<1>6. m \in LevelSet /\ levels' = Append(Front(levels), m)
  BY <1>2, <1>3, <1>5, FactAdded
<1>7. AltText(m) = s \o a
  BY <1>2, <1>3, <1>4, AltTextIs
<1> HIDE DEF m
<1>8. LevelText(pc, Level) = s /\ LevelText(pc', m) = s \o a /\ s \in Seq(Written)
  BY <1>1, <1>2, <1>7, LevelTextIs, LevelWritten
<1> HIDE DEF s
<1>9. Moves(X, LevelText(pc, Level), LevelText(pc', m))
  BY <1>4, <1>8, MovesOn
<1> QED BY <1>1, <1>6, <1>9, InnerMoves

\* The factor of the innermost level is allocated or freed.
LEMMA FactStays ==
  ASSUME Typed, Typed', NEW X, Stood(X), UNCHANGED <<text, prod, grammar>>, Skips(X),
         pc \in {"factor", "operand"}, pc' \in {"operand", "no_factor"},
         NEW x \in Nat, levels' = SetLevel([Level EXCEPT !.fact = x])
  PROVE  Stood(X)'
<1> DEFINE l == [Level EXCEPT !.fact = x]
<1>1. pc \in LevelPCs
  BY DEF LevelPCs
<1>2. Level \in LevelSet /\ \A m \in LevelSet : SetLevel(m) = Append(Front(levels), m)
  BY <1>1, LastLevel
<1>3. l \in LevelSet /\ l.target = Level.target /\ l.facts = Level.facts
  BY <1>2 DEF LevelSet
<1>4. levels' = Append(Front(levels), l)
  BY <1>2, <1>3
<1> HIDE DEF l
<1> QED BY <1>3, <1>4, FactorStays

LEMMA ReadBuiltinStood ==
  ASSUME Typed, Typed', NEW X, Blank \in X, LosesOnly(X), Stood(X), ReadBuiltin PROVE Stood(X)'
<1>0. pc = "factor" /\ pc \in LevelPCs /\ UNCHANGED <<text, prod, grammar>>
  BY DEF ReadBuiltin, LevelPCs
<1>h. pos \in Nat /\ Here \in Nat /\ pos <= Here
  BY HereBehind
<1>f. Fresh(1) \in Nat /\ Fresh(2) \in Nat /\ Fresh(1) # Fresh(2)
  BY FreshIsFree
<1>1. Level \in LevelSet /\ levels = Append(Front(levels), Level)
  BY <1>0, LastLevel
<1> DEFINE node == Node("FACT_RULE_BUILTIN", <<":", Symbol(Here + 1)>>, Fresh(1), Fresh(2))
<1>2. CASE pos' = pos /\ levels' = levels /\ pc' = "no_factor"
  <2>1. levels' = Append(Front(levels), Level) /\ Skips(X)
    BY <1>1, <1>2, NoneRead
  <2> QED BY <1>0, <1>1, <1>2, <2>1, FactorStays
<1>3. CASE At(":") /\ Symbol(Here + 1) \in Names /\ AddFactor(Level, <<node>>) /\ pos' = Here + 2
  <2> DEFINE k == Here + 1
  <2>1. Symbol(Here) = ":" /\ ":" \in Written \ {End} /\ Symbol(k) \in Written \ {End}
    <3>1. ":" \in Operators
      BY Zenon DEF Operators
    <3> QED BY <1>3, <3>1, SymbolsDiffer, SymbolsWritten DEF At
  <2>2. k \in {Here + 1, Skip(Here + 1)} /\ pos' = k + 1
    <3>1. pos' = (Here + 1) + 1
      <4> HIDE DEF Here
      <4> QED BY <1>3, <1>h
    <3> QED BY <3>1
  <2>3. node \in ReadNode /\ node.text = <<Symbol(Here), Symbol(k)>>
    <3>1. <<":", Symbol(k)>> \in Seq(Shown)
      <4>1. ":" \in Shown /\ Symbol(k) \in Shown
        BY <1>3 DEF Shown
      <4> HIDE DEF Shown, k
      <4> QED BY <4>1
    <3>2. "FACT_RULE_BUILTIN" \in NodeTypes \ {"FACT_RULE_LINKED"} /\ "FACT_RULE_BUILTIN" # "FACT_RULE"
      BY DEF NodeTypes
    <3>3. node \in ReadNode
      BY <1>f, <3>1, <3>2, NodeTyped
    <3> QED BY <2>1, <3>3 DEF Node
  <2> HIDE DEF node, k, Here
  <2>4. Between(node.text, text, pos, pos', X) /\ pos <= pos'
    BY <2>1, <2>2, <2>3, TwoRead
  <2> QED BY <1>0, <1>3, <2>3, <2>4, AddFactorStood
<1>4. CASE /\ pos' = pos \/ (pos' = Here + 1 /\ At(":"))
           /\ levels' = SetLevel([Level EXCEPT !.fact = Fresh(1)]) /\ pc' = "operand"
  <2>1. CASE pos' = pos
    BY <1>0, <1>4, <1>f, <2>1, FactStays, NoneRead
  <2>2. CASE pos' = Here + 1 /\ At(":")
    <3>1. text[Here + 1] = ":"
      <4>1. Symbol(Here) = ":" /\ ":" # End
        <5>1. ":" \in Operators
          BY Zenon DEF Operators
        <5> QED BY <2>2, <5>1, SymbolsDiffer DEF At
      <4> HIDE DEF Here
      <4> QED BY <1>h, <4>1, WithinText DEF Typed, StreamTyped
    <3>2. \A p \in pos + 1 .. Here : text[p] \in X
      BY BlanksBefore
    <3> HIDE DEF Here
    <3>3. pos <= pos' /\ pos' # pos
      BY <1>h, <2>2
    <3>4. CASE ":" \in X
      <4>1. \A p \in pos + 1 .. pos' : p = Here + 1 \/ p \in pos + 1 .. Here
        BY <1>h, <2>2
      <4>2. \A p \in pos + 1 .. pos' : text[p] \in X
        BY <3>1, <3>2, <3>4, <4>1
      <4>3. Skips(X)
        BY <3>3, <4>2, EmptyBetween DEF Skips
      <4> QED BY <1>0, <1>4, <1>f, <4>3, FactStays
    <3>5. CASE Symbols \subseteq X
      <4>1. Skips(X)
        BY <1>0, <3>3, <3>5, AllLeftOut
      <4> QED BY <1>0, <1>4, <1>f, <4>1, FactStays
    <3> QED BY <1>0, <1>4, <3>3, <3>4, <3>5 DEF LosesOnly
  <2> QED BY <1>4, <2>1, <2>2
<1>5. \/ pos' = pos /\ levels' = levels /\ pc' = "no_factor"
      \/ At(":") /\ Symbol(Here + 1) \in Names /\ AddFactor(Level, <<node>>) /\ pos' = Here + 2
      \/ At(":") /\ pos' = Here + 1 /\ levels' = SetLevel([Level EXCEPT !.fact = Fresh(1)]) /\ pc' = "operand"
      \/ pos' = pos /\ levels' = SetLevel([Level EXCEPT !.fact = Fresh(1)]) /\ pc' = "operand"
  BY Zenon DEF ReadBuiltin, NoOperator
<1> HIDE DEF node, Here
<1> QED BY <1>2, <1>3, <1>4, <1>5

LEMMA ReadOperandStood ==
  ASSUME Typed, Typed', Phases, NEW X, Blank \in X, LosesOnly(X), Stood(X), ReadOperand PROVE Stood(X)'
<1> DEFINE node == Node(IF Symbol(Here) \in Names THEN "FACT_RULE" ELSE "FACT_LITERAL",
                        <<Symbol(Here)>>, Level.fact, Fresh(1))
<1>0. /\ pc = "operand" /\ UNCHANGED <<text, prod, grammar>> /\ Symbol(Here) \in Names \cup Literals
      /\ AddFactor(Level, <<node>>) /\ pos' = Here + 1 /\ Level.fact \in live
  BY DEF ReadOperand, Phases
<1>1. node \in ReadNode
  <2>1. Fresh(1) \in Nat /\ Fresh(1) \notin live
    BY FreshIsFree
  <2>2. Level.fact \in Nat
    BY <1>0 DEF Typed, MemoryTyped
  <2>3. <<Symbol(Here)>> \in Seq(Shown)
    BY <1>0 DEF Shown
  <2> DEFINE t == IF Symbol(Here) \in Names THEN "FACT_RULE" ELSE "FACT_LITERAL"
  <2>4. t \in NodeTypes \ {"FACT_RULE_LINKED"}
    BY DEF NodeTypes
  <2>5. Level.fact # Fresh(1)
    BY <1>0, <2>1
  <2> HIDE DEF t
  <2> QED BY <2>1, <2>2, <2>3, <2>4, <2>5, NodeTyped DEF t
<1>2. node.text = <<Symbol(Here)>>
  BY DEF Node
<1>3. Symbol(Here) # End
  BY <1>0, SymbolsDiffer
<1> HIDE DEF node, Here
<1>4. Between(node.text, text, pos, pos', X) /\ pos <= pos'
  BY <1>0, <1>2, <1>3, OneRead
<1> QED BY <1>0, <1>1, <1>4, AddFactorStood

LEMMA OpenCoupleStood ==
  ASSUME Typed, Typed', NEW X, Blank \in X, LosesOnly(X), Stood(X), OpenCouple PROVE Stood(X)'
<1>0. /\ pc = "operand" /\ pc \in LevelPCs /\ pc' = "alternative" /\ pc' \in LevelPCs
      /\ Consume("[") /\ levels' = Append(levels, NoLevel) /\ UNCHANGED <<text, prod, grammar>>
  BY DEF OpenCouple, LevelPCs, NoLevel
<1>1. Between(<<"[">>, text, pos, pos', X) /\ pos <= pos' /\ <<"[">> \in Seq(Written)
  <2>1. "[" \in Operators
    BY Zenon DEF Operators
  <2> QED BY <1>0, <2>1, OperatorRead
<1>2. Level \in LevelSet /\ Front(levels) \in Seq(LevelSet) /\ levels = Append(Front(levels), Level)
      /\ levels \in Seq(LevelSet)
  BY <1>0, LastLevel DEF Typed, LevelsTyped
<1> DEFINE o == OpenedText(Front(levels))
           s == AltText(Level)
           a == <<"[">>
           os == o \o s
<1>3. o \in Seq(Written) /\ s \in Seq(Written) /\ a \in Seq(Written) /\ os \in Seq(Written)
  <2>1. o \in Seq(Written) /\ s \in Seq(Written)
    BY <1>2, OpenedTextIs, LevelWritten
  <2> QED BY <1>1, <2>1, ConcatProperties
<1>4. LevelsText(pc, levels) = os
  <2>1. LevelText(pc, Level) = s
    BY <1>0, LevelTextIs
  <2> QED BY <1>2, <2>1, LevelsTextIs
<1>5. OpenedText(levels) = o \o (s \o a)
  BY <1>2, OpenedTextIs
<1>6. LevelsText(pc', levels') = OpenedText(levels) \o <<>>
  <2>1. LevelsText("alternative", Append(levels, NoLevel)) = OpenedText(levels) \o LevelText("alternative", NoLevel)
    BY <1>2, NoLevelTyped, LevelsTextIs
  <2>2. LevelText("alternative", NoLevel) = <<>>
    <3>1. NodesText(NoLevel.target) = <<>> /\ NodesText(NoLevel.facts) = <<>> /\ OrText(NoLevel) = <<>>
      BY NoLevelTyped, NodesTextOne DEF OrText
    <3>2. AltText(NoLevel) = (<<>> \o <<>>) \o <<>>
      BY <3>1, Zenon DEF AltText
    <3>3. (<<>> \o <<>>) \o <<>> = <<>>
      OBVIOUS
    <3> QED BY <3>2, <3>3, LevelTextIs
  <2> QED BY <1>0, <2>1, <2>2
<1> HIDE DEF o, s, a
<1>7. o \o (s \o a) = os \o a /\ os \o a \in Seq(Written)
  BY <1>3, ConcatAssociates, ConcatProperties, SMTT(30)
<1> HIDE DEF os
<1>8. LevelsText(pc', levels') = os \o a
  <2>1. (os \o a) \o <<>> = os \o a
    BY <1>7, ConcatEmptySeq
  <2> QED BY <1>5, <1>6, <1>7, <2>1
<1>9. Moves(X, LevelsText(pc, levels), LevelsText(pc', levels'))
  BY <1>1, <1>3, <1>4, <1>8, MovesOn DEF a
<1> QED BY <1>0, <1>1, <1>9, LevelsMove

LEMMA NotAFactorStood ==
  ASSUME Typed, Typed', NEW X, Blank \in X, LosesOnly(X), Stood(X), NotAFactor PROVE Stood(X)'
<1>0. /\ pc = "operand" /\ pc' = "no_factor" /\ levels' = SetLevel([Level EXCEPT !.fact = NULL])
      /\ UNCHANGED <<text, prod, grammar>> /\ pos' = pos /\ NULL \in Nat
  BY DEF NotAFactor, NULL
<1>1. Skips(X)
  BY <1>0, NoneRead
<1> QED BY <1>0, <1>1, FactStays

LEMMA NoFactorStood ==
  ASSUME Typed, Typed', NEW X, Blank \in X, LosesOnly(X), Stood(X), NoFactor PROVE Stood(X)'
<1>0. pc = "no_factor" /\ pc \in LevelPCs /\ UNCHANGED <<text, pos, prod, grammar>>
  BY DEF NoFactor, LevelPCs
<1>p. pos <= pos' /\ Skips(X)
  BY <1>0, HereBehind, NoneRead
<1>1. /\ Level \in LevelSet /\ \A l \in LevelSet : SetLevel(l) = Append(Front(levels), l)
  BY <1>0, LastLevel
<1>2. CASE /\ Level.facts = <<>> /\ levels' = SetLevel([Level EXCEPT !.expr = NULL])
           /\ pc' = "no_alternative"
  <2> DEFINE l == [Level EXCEPT !.expr = NULL]
  <2>1. l \in LevelSet /\ l.target = Level.target
    BY <1>1 DEF LevelSet, NULL
  <2>2. levels' = Append(Front(levels), l)
    BY <1>1, <1>2, <2>1
  <2> HIDE DEF l
  <2>3. Symbols \subseteq X
    BY <1>2 DEF LosesOnly
  <2> QED BY <1>0, <1>2, <1>p, <2>1, <2>2, <2>3, AlternativeDropped
<1>3. CASE levels' = SetLevel(Alternative(Level)) /\ pc' = "or"
  <2> DEFINE l == Alternative(Level)
  <2>1. l \in LevelSet /\ NodesText(l.target) = AltText(Level)
    BY <1>1, AlternativeIs, AltTextIs
  <2>2. levels' = Append(Front(levels), l)
    BY <1>1, <1>3, <2>1
  <2> HIDE DEF l
  <2>3. LevelText(pc', l) = LevelText(pc, Level) /\ pc' \in LevelPCs
    BY <1>0, <1>3, <2>1, LevelTextIs DEF LevelPCs
  <2> QED BY <1>0, <1>p, <2>1, <2>2, <2>3, InnerStays
<1> QED BY <1>2, <1>3, Zenon DEF NoFactor, Alternative

\* The expressions of the production are complete.
LEMMA LevelsEndStood ==
  ASSUME Typed, Typed', NEW X, Stood(X), pc \in LevelPCs, pc' = "rule_end",
         UNCHANGED <<text, grammar>>, Skips(X), NEW es \in Seq(ReadNode), prod' = [prod EXCEPT !.exprs = es],
         Front(levels) = <<>>, (es = <<>> /\ Symbols \subseteq X) \/ NodesText(es) = LevelText(pc, Level)
  PROVE  Stood(X)'
<1>1. Level \in LevelSet /\ <<>> \in Seq(LevelSet) /\ levels = Append(<<>>, Level)
  BY LastLevel
<1> DEFINE r == Ruled(prod)
           s == LevelText(pc, Level)
           x == NodesText(es)
<1>2. r \in Seq(Written) /\ s \in Seq(Written) /\ x \in Seq(Written)
  <2>1. es \in Seq(NodeSet)
    BY ReadNodesAreNodes
  <2> QED BY <1>1, <2>1, ProdNow, HeadingIs, LevelWritten, NodesTextIs
<1>3. SoFar = r \o s
  <2>1. LevelsText(pc, levels) = <<>> \o s
    BY <1>1, LevelsTextIs, OpenedTextIs
  <2>2. <<>> \o s = s
    BY <1>2, ConcatEmptySeq
  <2>3. SoFar = r \o LevelsText(pc, levels)
    BY BegunIs DEF SoFar
  <2> HIDE DEF r, s
  <2> QED BY <2>1, <2>2, <2>3
<1>4. SoFar' = r \o x
  <2> DEFINE q == [prod EXCEPT !.exprs = es]
  <2>1. q.exprs = es /\ q.name = prod.name /\ q.params = prod.params /\ prod' = q
    <3>1. prod \in ProdSet(NodeSet)
      BY ProdNow
    <3> QED BY <3>1 DEF ProdSet
  <2> HIDE DEF q
  <2>2. Ruled(q) = r
    BY <2>1, Zenon DEF Ruled, Heading
  <2> QED BY <2>1, <2>2, BegunIs DEF SoFar
<1>5. Moves(X, SoFar, SoFar')
  <2>1. r \o s \in Seq(Written) /\ r \o <<>> = r
    BY <1>2, ConcatProperties, ConcatEmptySeq
  <2>2. es = <<>> => x = <<>>
    BY NodesTextOne
  <2> HIDE DEF r, s, x
  <2>3. CASE es = <<>> /\ Symbols \subseteq X
    <3>1. SoFar' = r
      BY <1>4, <2>1, <2>2, <2>3
    <3> QED BY <1>2, <1>3, <2>3, <3>1, MovesBack
  <2>4. CASE x = s
    <3>1. SoFar' = r \o s
      BY <1>4, <2>4
    <3> DEFINE rs == r \o s
    <3>2. rs \in Seq(Written) /\ SoFar = rs /\ SoFar' = rs
      BY <1>3, <2>1, <3>1
    <3> HIDE DEF rs
    <3> QED BY <3>2, MovesSame
  <2> QED BY <2>3, <2>4 DEF x, s
<1> QED BY <1>5, StoodMoves DEF Skips

LEMMA ReadOrStood ==
  ASSUME Typed, Typed', Phases, NEW X, Blank \in X, LosesOnly(X), Stood(X), ReadOr PROVE Stood(X)'
<1>0. /\ pc = "or" /\ pc \in LevelPCs /\ UNCHANGED <<text, grammar>>
      /\ Level.facts = <<>> /\ Level.target # <<>>
  BY DEF ReadOr, LevelPCs, Phases
<1>1. /\ Level \in LevelSet /\ levels = Append(Front(levels), Level)
      /\ \A l \in LevelSet : SetLevel(l) = Append(Front(levels), l)
      /\ Len(levels) > 1 <=> Front(levels) # <<>>
  BY <1>0, LastLevel
<1>2. CASE Consume("|") /\ pc' = "alternative" /\ UNCHANGED <<levels, prod>>
  <2> DEFINE a == <<"|">>
             s == NodesText(Level.target)
  <2>1. Between(a, text, pos, pos', X) /\ pos <= pos' /\ a \in Seq(Written)
    <3>1. "|" \in Operators
      BY Zenon DEF Operators
    <3> QED BY <1>2, <3>1, OperatorRead
  <2>2. LevelText(pc, Level) = s /\ s \in Seq(Written) /\ LevelText(pc', Level) = AltText(Level)
    BY <1>0, <1>1, <1>2, LevelTextIs, LevelWritten
  <2>3. AltText(Level) = s \o a
    BY <1>0, <1>1, AltTextIs DEF OrText
  <2>4. levels' = Append(Front(levels), Level) /\ pc' \in LevelPCs
    BY <1>1, <1>2 DEF LevelPCs
  <2> HIDE DEF a, s
  <2>5. Moves(X, LevelText(pc, Level), LevelText(pc', Level))
    BY <2>1, <2>2, <2>3, MovesOn
  <2> QED BY <1>0, <1>1, <1>2, <2>1, <2>4, <2>5, InnerMoves
<1>3. CASE NoOperator({"|"}) /\ EndLoop(Level.target)
  <2>1. Skips(X)
    BY <1>3, NoneRead DEF NoOperator
  <2>2. [Level EXCEPT !.target = Level.target] = Level /\ Level.target \in Seq(ReadNode)
    BY <1>1 DEF LevelSet
  <2>3. CASE Front(levels) # <<>>
    <3>1. levels' = SetLevel(Level) /\ pc' = "close" /\ prod' = prod
      BY <1>1, <1>3, <2>2, <2>3 DEF EndLoop
    <3>2. levels' = Append(Front(levels), Level) /\ pc' \in LevelPCs
      BY <1>1, <3>1 DEF LevelPCs
    <3>3. LevelText(pc', Level) = LevelText(pc, Level)
      BY <1>0, <3>1, LevelTextIs
    <3> QED BY <1>0, <1>1, <2>1, <3>1, <3>2, <3>3, InnerStays
  <2>4. CASE Front(levels) = <<>>
    <3>1. prod' = [prod EXCEPT !.exprs = Level.target] /\ pc' = "rule_end"
      BY <1>1, <1>3, <2>4 DEF EndLoop
    <3>2. NodesText(Level.target) = LevelText(pc, Level)
      BY <1>0, LevelTextIs
    <3> QED BY <1>0, <2>1, <2>2, <2>4, <3>1, <3>2, LevelsEndStood
  <2> QED BY <2>3, <2>4
<1> QED BY <1>2, <1>3, Zenon DEF ReadOr

\* A couple goes, and its "[" with it.
LEMMA CoupleFailsStood ==
  ASSUME Typed, Typed', NEW X, Symbols \subseteq X, Stood(X),
         UNCHANGED <<text, prod, grammar>>, pos <= pos',
         pc \in LevelPCs, Front(levels) # <<>>, NEW S, CoupleFails(S)
  PROVE  Stood(X)'
<1>1. levels' = Append(Front(Front(levels)), WithoutFact(Outer)) /\ pc' = "no_factor" /\ pc' \in LevelPCs
  BY CoupleFailsIs DEF LevelPCs
<1>2. /\ Level \in LevelSet /\ Front(levels) \in Seq(LevelSet) /\ levels = Append(Front(levels), Level)
      /\ Outer \in LevelSet /\ Front(Front(levels)) \in Seq(LevelSet)
      /\ Front(levels) = Append(Front(Front(levels)), Outer)
  BY LastLevel, OuterLevel
<1> DEFINE o == OpenedText(Front(Front(levels)))
           s == AltText(Outer)
           a == <<"[">>
           x == LevelText(pc, Level)
           os == o \o s
<1>3. o \in Seq(Written) /\ s \in Seq(Written) /\ a \in Seq(Written) /\ x \in Seq(Written)
      /\ os \in Seq(Written)
  <2>1. o \in Seq(Written) /\ s \in Seq(Written) /\ a \in Seq(Written) /\ x \in Seq(Written)
    BY <1>2, OpenedTextIs, LevelWritten, SymbolsWritten
  <2> QED BY <2>1, ConcatProperties
<1>4. LevelsText(pc, levels) = (o \o (s \o a)) \o x
  <2>1. LevelsText(pc, levels) = OpenedText(Front(levels)) \o x
    BY <1>2, LevelsTextIs
  <2>2. OpenedText(Front(levels)) = o \o (s \o a)
    BY <1>2, OpenedTextIs
  <2> QED BY <2>1, <2>2
<1>5. LevelsText(pc', levels') = os
  <2>1. WithoutFact(Outer) \in LevelSet /\ AltText(WithoutFact(Outer)) = s
    BY <1>2, FactDropped, AltTextIs
  <2>2. LevelText(pc', WithoutFact(Outer)) = s
    BY <1>1, <2>1, LevelTextIs
  <2> QED BY <1>1, <1>2, <2>1, <2>2, LevelsTextIs
<1> HIDE DEF o, s, a, x
<1>6. o \o (s \o a) = os \o a
  BY <1>3, ConcatAssociates, SMTT(30)
<1> HIDE DEF os
<1>7. (os \o a) \o x = os \o (a \o x) /\ a \o x \in Seq(Written)
  BY <1>3, ConcatAssociates, SMTT(30)
<1>8. Moves(X, LevelsText(pc, levels), LevelsText(pc', levels'))
  <2>1. Moves(X, os \o (a \o x), os)
    BY <1>3, <1>7, MovesBack
  <2> QED BY <1>4, <1>5, <1>6, <1>7, <2>1
<1> QED BY <1>1, <1>8, LevelsMove

LEMMA NoAlternativeStood ==
  ASSUME Typed, Typed', NEW X, Blank \in X, LosesOnly(X), Stood(X), NoAlternative PROVE Stood(X)'
<1>0. pc = "no_alternative" /\ pc \in LevelPCs /\ UNCHANGED <<text, pos, grammar>>
  BY DEF NoAlternative, LevelPCs
<1>p. pos <= pos' /\ Symbols \subseteq X /\ Skips(X)
  BY <1>0, HereBehind, NoneRead DEF LosesOnly
<1>1. Len(levels) > 1 <=> Front(levels) # <<>>
  BY <1>0, LastLevel
<1>2. CASE Front(levels) # <<>>
  <2>1. CoupleFails(Rule(Level.target)) /\ prod' = prod
    BY <1>1, <1>2 DEF NoAlternative
  <2> QED BY <1>0, <1>2, <1>p, <2>1, CoupleFailsStood
<1>3. CASE Front(levels) = <<>>
  <2>1. prod' = [prod EXCEPT !.exprs = <<>>] /\ pc' \in {"no_production", "rule_end"}
    BY <1>1, <1>3 DEF NoAlternative
  <2>2. CASE pc' = "no_production"
    BY <1>0, <1>p, <2>2, NothingBegun DEF NothingBegunPCs
  <2>3. CASE pc' = "rule_end"
    <3>1. <<>> \in Seq(ReadNode)
      BY EmptySeq
    <3> QED BY <1>0, <1>3, <1>p, <2>1, <2>3, <3>1, LevelsEndStood
  <2> QED BY <2>1, <2>2, <2>3
<1> QED BY <1>2, <1>3

LEMMA NotClosedStood ==
  ASSUME Typed, Typed', Phases, NEW X, Blank \in X, LosesOnly(X), Stood(X), NotClosed PROVE Stood(X)'
<1>0. /\ pc = "close" /\ pc \in LevelPCs /\ UNCHANGED <<text, prod, grammar>> /\ pos' = pos
      /\ CoupleFails(Rule(Level.target)) /\ Front(levels) # <<>>
  BY DEF NotClosed, NoOperator, LevelPCs, Phases
<1>1. pos <= pos' /\ Symbols \subseteq X
  <2>1. pc' = "no_factor"
    BY <1>0 DEF CoupleFails
  <2> QED BY <1>0, <2>1, HereBehind DEF LosesOnly
<1> QED BY <1>0, <1>1, CoupleFailsStood

LEMMA NoFeedStood ==
  ASSUME Typed, Typed', Phases, NEW X, Blank \in X, LosesOnly(X), Stood(X), NoFeed PROVE Stood(X)'
<1>0. /\ pc = "close" /\ pc \in LevelPCs /\ UNCHANGED <<text, prod, grammar>> /\ pos' = Here + 1
      /\ CoupleFails({}) /\ Front(levels) # <<>>
  BY DEF NoFeed, LevelPCs, Phases
<1>1. pos <= pos'
  <2>1. pos \in Nat /\ Here \in Nat /\ pos <= Here
    BY HereBehind
  <2> HIDE DEF Here
  <2> QED BY <1>0, <2>1
<1>2. Symbols \subseteq X
  <2>1. pc' = "no_factor"
    BY <1>0 DEF CoupleFails
  <2> QED BY <1>0, <2>1 DEF LosesOnly
<1> QED BY <1>0, <1>1, <1>2, CoupleFailsStood

\* The end of a couple is printed with the operator that was read.
LEMMA FeedShown ==
  ASSUME NEW feed \in DOMAIN OpFeed
  PROVE  CoupleEnd(OpFeed[feed]).text = <<"]", feed>> /\ feed \in {"+", "*", "?"}
<1>1. feed \in {"+", "*", "?"}
  BY DEF OpFeed
<1>2. /\ OpFeed["+"] = "FACT_EXPR_NGT" /\ OpFeed["*"] = "FACT_EXPR_NGTE"
      /\ OpFeed["?"] = "FACT_EXPR_OPT"
  BY DEF OpFeed
<1>3. /\ CoupleEnd("FACT_EXPR_NGT").text = <<"]", "+">> /\ CoupleEnd("FACT_EXPR_NGTE").text = <<"]", "*">>
      /\ CoupleEnd("FACT_EXPR_OPT").text = <<"]", "?">>
  BY DEF CoupleEnd, Node
<1> QED BY <1>1, <1>2, <1>3

LEMMA CloseCoupleStood ==
  ASSUME Typed, Typed', Phases, NEW X, Blank \in X, LosesOnly(X), Stood(X), CloseCouple PROVE Stood(X)'
<1> DEFINE feed == Symbol(Skip(Here + 1))
<1>0. /\ pc = "close" /\ pc \in LevelPCs /\ At("]") /\ feed \in DOMAIN OpFeed
      /\ pos' = Skip(Here + 1) + 1 /\ pc' = "factor" /\ pc' \in LevelPCs
      /\ UNCHANGED <<text, prod, grammar>> /\ Front(levels) # <<>>
      /\ levels' = [Front(levels) EXCEPT ![Len(Front(levels))] =
                      WithFacts(Outer, Couple(Outer.fact, OpFeed[feed], Level.target))]
  BY DEF CloseCouple, LevelPCs, Phases, WithFacts, Outer
<1>1. /\ Level \in LevelSet /\ Front(levels) \in Seq(LevelSet) /\ levels = Append(Front(levels), Level)
      /\ Outer \in LevelSet /\ Front(Front(levels)) \in Seq(LevelSet)
      /\ Front(levels) = Append(Front(Front(levels)), Outer)
      /\ \A l \in LevelSet :
           [Front(levels) EXCEPT ![Len(Front(levels))] = l] = Append(Front(Front(levels)), l)
  BY <1>0, LastLevel, OuterLevel
\* What was read: "]" and the operator.
<1> DEFINE b == <<"]", feed>>
<1>2. Between(b, text, pos, pos', X) /\ pos <= pos'
  <2>1. "]" \in Operators
    BY Zenon DEF Operators
  <2>2. Symbol(Here) = "]" /\ Symbol(Here) # End
    BY <1>0, <2>1, OperatorAt DEF At
  <2>3. "]" \in Written \ {End} /\ feed \in Written \ {End}
    BY <1>0, <2>1, <2>2, FeedTypes, FeedShown, SymbolsWritten
  <2> DEFINE k == Skip(Here + 1)
  <2> HIDE DEF Here
  <2>4. k \in {Here + 1, Skip(Here + 1)}
    OBVIOUS
  <2>5. pos' = k + 1 /\ feed = Symbol(k)
    BY <1>0
  <2> HIDE DEF k, feed
  <2> QED BY <2>2, <2>3, <2>4, <2>5, TwoRead
\* The nodes of the couple.
<1> DEFINE type == OpFeed[feed]
           c == Couple(Outer.fact, type, Level.target)
           a == <<"[">>
           x == NodesText(Level.target)
<1>3. /\ c \in Seq(ReadNode) /\ NodesText(c) = (a \o x) \o b
      /\ a \in Seq(Written) /\ x \in Seq(Written) /\ b \in Seq(Written)
  <2>1. type \in {"FACT_EXPR_NGT", "FACT_EXPR_NGTE", "FACT_EXPR_OPT"} /\ CoupleEnd(type).text = b
    BY <1>0, FeedTypes, FeedShown
  <2> DEFINE p == <<CoupleNode(Outer.fact, type)>>
             q == <<CoupleEnd(type)>>
             t == Level.target
  <2> HIDE DEF feed, type
  <2>2. /\ c \in Seq(ReadNode) /\ c = (p \o t) \o q
        /\ CoupleNode(Outer.fact, type) \in ReadNode /\ CoupleEnd(type) \in ReadNode
    BY <1>1, <2>1, LevelFields, CoupleTyped
  <2>3. CoupleNode(Outer.fact, type) \in NodeSet /\ CoupleEnd(type) \in NodeSet
        /\ CoupleNode(Outer.fact, type).text = a
    BY <2>2 DEF ReadNode, CoupleNode, Node
  <2>4. p \in Seq(NodeSet) /\ q \in Seq(NodeSet) /\ NodesText(p) = a /\ NodesText(q) = b
        /\ a \in Seq(Written) /\ b \in Seq(Written)
    BY <2>1, <2>3, NodesTextOne
  <2>5. t \in Seq(NodeSet) /\ x \in Seq(Written)
    BY <1>1, LevelWritten
  <2> HIDE DEF p, q, t, a, b, c
  <2>6. p \o t \in Seq(NodeSet) /\ NodesText(p \o t) = NodesText(p) \o NodesText(t)
    BY <2>4, <2>5, NodesTextConcat, ConcatProperties
  <2>7. NodesText((p \o t) \o q) = NodesText(p \o t) \o NodesText(q)
    BY <2>4, <2>6, NodesTextConcat
  <2>8. NodesText(t) = x
    BY DEF t
  <2> QED BY <2>2, <2>4, <2>5, <2>6, <2>7, <2>8
<1> DEFINE m == WithFacts(Outer, c)
           o == OpenedText(Front(Front(levels)))
           s == AltText(Outer)
<1> HIDE DEF c, b, x, type, feed
<1>4. m \in LevelSet /\ AltText(m) = s \o ((a \o x) \o b)
  BY <1>1, <1>3, FactAdded, AltTextIs
<1>5. levels' = Append(Front(Front(levels)), m)
  BY <1>0, <1>1, <1>4 DEF c, type
<1>6. LevelsText(pc', levels') = o \o (s \o ((a \o x) \o b))
  <2> DEFINE f == Front(Front(levels))
             y == s \o ((a \o x) \o b)
  <2>1. LevelText(pc', m) = AltText(m)
    BY <1>0, LevelTextIs
  <2>2. f \in Seq(LevelSet) /\ m \in LevelSet /\ levels' = Append(f, m) /\ LevelText(pc', m) = y
        /\ o = OpenedText(f)
    BY <1>1, <1>4, <1>5, <2>1
  <2> HIDE DEF f, m, y, o
  <2>3. LevelsText(pc', Append(f, m)) = OpenedText(f) \o LevelText(pc', m)
    BY <2>2, LevelsTextIs
  <2>4. LevelsText(pc', levels') = o \o y
    BY <2>2, <2>3
  <2> QED BY <2>4 DEF y
<1>7. LevelsText(pc, levels) = (o \o (s \o a)) \o x
  <2>1. LevelText(pc, Level) = x
    BY <1>0, LevelTextIs DEF x
  <2>2. LevelsText(pc, levels) = OpenedText(Front(levels)) \o x
    BY <1>1, <2>1, LevelsTextIs
  <2>3. OpenedText(Front(levels)) = o \o (s \o a)
    BY <1>1, OpenedTextIs
  <2> QED BY <2>2, <2>3
<1>8. o \in Seq(Written) /\ s \in Seq(Written)
  BY <1>1, OpenedTextIs, LevelWritten
<1> HIDE DEF m, o, s, a
<1> DEFINE u == (o \o (s \o a)) \o x
<1>9. u \in Seq(Written) /\ o \o (s \o ((a \o x) \o b)) = u \o b
  <2>1. /\ a \in Seq(Written) /\ b \in Seq(Written) /\ x \in Seq(Written)
        /\ o \in Seq(Written) /\ s \in Seq(Written)
    BY <1>3, <1>8
  <2>2. \A f, g, h \in Seq(Written) : f \o (g \o h) = (f \o g) \o h
    BY ConcatAssociates, SMTT(30)
  <2>3. \A f, g \in Seq(Written) : f \o g \in Seq(Written)
    BY ConcatProperties
  <2> DEFINE ax == a \o x
             sa == s \o a
             sax == sa \o x
             os == o \o sa
  <2>4. ax \in Seq(Written) /\ sa \in Seq(Written)
    BY <2>1, <2>3
  <2>5. s \o ax = sax
    BY <2>1, <2>2
  <2>6. u = os \o x
    OBVIOUS
  <2> HIDE DEF ax, sa, u
  <2>7. sax \in Seq(Written) /\ os \in Seq(Written)
    BY <2>1, <2>3, <2>4
  <2>8. o \o sax = u
    BY <2>1, <2>2, <2>4, <2>6, SMTT(30)
  <2> HIDE DEF os, sax
  <2>9. s \o (ax \o b) = sax \o b
    BY <2>1, <2>2, <2>4, <2>5, ZenonT(30)
  <2>10. o \o (sax \o b) = (o \o sax) \o b
    BY <2>1, <2>2, <2>7, ZenonT(30)
  <2>11. u \in Seq(Written)
    BY <2>1, <2>3, <2>6, <2>7
  <2> QED BY <2>8, <2>9, <2>10, <2>11 DEF ax
<1> HIDE DEF u
<1>10. Moves(X, LevelsText(pc, levels), LevelsText(pc', levels'))
  <2>1. LevelsText(pc, levels) = u /\ LevelsText(pc', levels') = u \o b
    BY <1>6, <1>7, <1>9 DEF u
  <2> QED BY <1>2, <1>3, <1>9, <2>1, MovesOn
<1> QED BY <1>0, <1>2, <1>10, LevelsMove

-----------------------------------------------------------------------------
(* What was read stands in the text: the linking and the end *)

\* A link is not printed.
LEMMA LinkedPrints ==
  ASSUME Typed, NEW i \in DOMAIN grammar, NEW k \in DOMAIN grammar[i].exprs
  PROVE  PrintedText(LinkedGrammar(i, k)) = PrintedText(grammar)
<1> DEFINE g == grammar
           h == LinkedGrammar(i, k)
           p == grammar[i]
           es == LinkedExprs(i, k)
           q == WithExprs(p, es)
<1>1. /\ p \in ProdSet(NodeSet) /\ p.exprs \in Seq(NodeSet) /\ p.exprs[k] \in NodeSet
      /\ LinkTarget(i, k) \in Nat
  BY GrammarFields, LinkTargetTyped DEF LinkTarget
<1>2. /\ es \in Seq(NodeSet) /\ DOMAIN es = DOMAIN p.exprs /\ q \in ProdSet(NodeSet)
      /\ \A m \in DOMAIN p.exprs :
           es[m] = IF m = k THEN Linked(p.exprs[k], LinkTarget(i, k)) ELSE p.exprs[m]
      /\ DOMAIN h = DOMAIN g /\ \A j \in DOMAIN g : h[j] = IF j = i THEN q ELSE g[j]
  BY LinkedGrammarIs
<1>3. \A m \in DOMAIN es : es[m].text = p.exprs[m].text
  <2>1. Linked(p.exprs[k], LinkTarget(i, k)).text = p.exprs[k].text
    BY <1>1, LinkedNode
  <2> QED BY <1>2, <2>1
<1>4. NodesText(es) = NodesText(p.exprs)
  <2> DEFINE a == [m \in DOMAIN es |-> es[m].text]
             b == [m \in DOMAIN p.exprs |-> p.exprs[m].text]
  <2> HIDE DEF es, p
  <2>1. a = b
    BY <1>2, <1>3
  <2> QED BY <2>1, Zenon DEF NodesText
<1>5. Dump(q) = Dump(p)
  <2>1. q.exprs = es /\ q.params = p.params /\ q.name = p.name
    BY <1>1, <1>2, ExprsReplaced
  <2> HIDE DEF q, es, p
  <2>2. Ruled(q) = Ruled(p)
    BY <2>1, Zenon DEF Ruled, Heading
  <2> QED BY <1>1, <1>2, <1>4, <2>1, <2>2, DumpIs
<1>6. \A j \in DOMAIN g : Dump(h[j]) = Dump(g[j])
  BY <1>2, <1>5
<1> DEFINE a == [j \in DOMAIN h |-> Dump(h[j])]
           b == [j \in DOMAIN g |-> Dump(g[j])]
<1> HIDE DEF h, g
<1>7. a = b
  BY <1>2, <1>6
<1>8. PrintedText(h) = PrintedText(g)
  BY <1>7, Zenon DEF PrintedText
<1> QED BY <1>8 DEF h, g

LEMMA LinkStood ==
  ASSUME Typed, Typed', NEW X, Blank \in X, LosesOnly(X), Stood(X), Link PROVE Stood(X)'
<1>0. pc = "link" /\ UNCHANGED <<text, pos, prod, levels>>
  BY DEF Link
<1>1. grammar \in Seq(ProdSet(NodeSet))
  BY DEF Typed, GrammarTyped
<1>2. \/ Unlinked = {} /\ pc' = "done" /\ UNCHANGED <<grammar, live>>
      \/ \E i \in DOMAIN grammar : \E k \in DOMAIN grammar[i].exprs : Links(i, k)
  BY <1>1, LinkIs
<1>3. CASE pc' = "done" /\ grammar' = grammar
  <2>1. pc \in NothingBegunPCs /\ pc' \in NothingBegunPCs
    BY <1>0, <1>3 DEF NothingBegunPCs, LastPCs
  <2> QED BY <1>0, <1>3, <2>1, NothingBegun
<1>4. ASSUME NEW i \in DOMAIN grammar, NEW k \in DOMAIN grammar[i].exprs, Links(i, k) PROVE Stood(X)'
  <2>1. CASE grammar' = LinkedGrammar(i, k) /\ pc' = pc
    <3>1. Printed' = Printed
      BY <2>1, BegunWritten, NextWritten, LinkedPrints
    <3>2. SoFar' = SoFar
      BY <1>0, <2>1 DEF SoFar
    <3> QED BY <1>0, <3>1, <3>2 DEF Stood
  <2>2. CASE grammar' = <<>> /\ pc' = "done"
    <3>1. Symbols \subseteq X
      <4>1. grammar # <<>>
        BY EmptySeq
      <4> QED BY <2>2, <4>1 DEF LosesOnly
    <3> QED BY <1>0, <2>2, <3>1, NothingBegun DEF NothingBegunPCs, LastPCs
  <2> QED BY <1>4, <2>1, <2>2 DEF Links
<1> QED BY <1>2, <1>3, <1>4

LEMMA EndsStood ==
  ASSUME Typed, Typed', NEW X, LosesOnly(X), Stood(X), Begin \/ NoProduction \/ FreeBNF
  PROVE  Stood(X)'
<1>1. /\ text' = text /\ pos' = pos /\ pc \in NothingBegunPCs /\ pc' \in NothingBegunPCs
      /\ grammar' = grammar \/ grammar' = <<>>
  BY DEF Begin, NoProduction, FreeBNF, NothingBegunPCs, LastPCs
<1>2. grammar' = grammar \/ (grammar' = <<>> /\ Symbols \subseteq X)
  BY <1>1 DEF LosesOnly
<1> QED BY <1>1, <1>2, NothingBegun

LEMMA StepUnlisted ==
  ASSUME Unlisted, [Next]_vars PROVE Unlisted'
<1>1. CASE ReadName
  <2>1. pc' = "params" => prod' = [NoProd EXCEPT !.name = Symbol(Here), !.identifier = Fresh(1)]
    BY <1>1 DEF ReadName
  <2>2. pc' = "params" => prod'.params = <<>>
    BY <2>1 DEF NoProd
  <2> QED BY <2>2 DEF Unlisted
<1>2. CASE UNCHANGED vars \/ Finished
  BY <1>2 DEF vars, Finished, Unlisted
<1>3. CASE Begin \/ ReadParams \/ ReadParamNext \/ ReadParamEnd \/ ReadRule \/ ReadRuleEnd
  <2>1. pc' # "params"
    BY <1>3 DEF Begin, ReadParams, ReadParamNext, ReadParamEnd, WithoutParams, ReadRule, ReadRuleEnd
  <2> QED BY <2>1 DEF Unlisted
<1>4. CASE ReadParam
  <2>1. pc' # "params"
    BY <1>4 DEF ReadParam, NoParam
  <2> QED BY <2>1 DEF Unlisted
<1>5. CASE ReadAlternative \/ ReadBuiltin \/ ReadOperand \/ OpenCouple \/ NotAFactor \/ NoFactor \/ ReadOr
  <2>1. pc' # "params"
    BY <1>5 DEF ReadAlternative, ReadBuiltin, ReadOperand, OpenCouple, NotAFactor, NoFactor, ReadOr,
                AddFactor, EndLoop
  <2> QED BY <2>1 DEF Unlisted
<1>6. CASE NoAlternative \/ CloseCouple \/ NotClosed \/ NoFeed \/ NoProduction \/ Link \/ FreeBNF
  <2>1. pc' # "params"
    BY <1>6 DEF NoAlternative, CloseCouple, NotClosed, NoFeed, CoupleFails, NoProduction, Link, FreeBNF
  <2> QED BY <2>1 DEF Unlisted
<1> QED BY <1>1, <1>2, <1>3, <1>4, <1>5, <1>6 DEF Next

LEMMA StepStands ==
  ASSUME Typed, Phases, NEW X, Blank \in X, LosesOnly(X), Stood(X), Unlisted, [Next]_vars
  PROVE  Stood(X)' /\ Unlisted'
<1>1. Typed' /\ Unlisted'
  BY StepTyped, StepUnlisted
<1> HIDE DEF Typed, Phases, Stood, Unlisted, LosesOnly
<1>2. CASE ReadName \/ ReadParams \/ ReadParam
  BY <1>1, <1>2, ReadNameStood, ReadParamsStood, ReadParamStood
<1>3. CASE ReadParamNext \/ ReadParamEnd \/ ReadRule \/ ReadRuleEnd
  BY <1>1, <1>3, ReadParamNextStood, ReadParamEndStood, ReadRuleStood, ReadRuleEndStood
<1>4. CASE ReadAlternative \/ ReadBuiltin \/ ReadOperand \/ OpenCouple \/ NotAFactor
  BY <1>1, <1>4, ReadAlternativeStood, ReadBuiltinStood, ReadOperandStood, OpenCoupleStood, NotAFactorStood
<1>5. CASE NoFactor \/ ReadOr \/ NoAlternative \/ CloseCouple \/ NotClosed \/ NoFeed
  BY <1>1, <1>5, NoFactorStood, ReadOrStood, NoAlternativeStood, CloseCoupleStood, NotClosedStood, NoFeedStood
<1>6. CASE Begin \/ NoProduction \/ FreeBNF \/ Link
  BY <1>1, <1>6, EndsStood, LinkStood
<1>7. CASE UNCHANGED vars \/ Finished
  <2>1. Stood(X)' = Stood(X)
    BY <1>7 DEF vars, Finished, Stood, SoFar, Printed
  <2> QED BY <1>1, <2>1
<1> QED BY <1>1, <1>2, <1>3, <1>4, <1>5, <1>6, <1>7 DEF Next

LEMMA InitStands ==
  ASSUME Init PROVE (\A X : Stood(X)) /\ Unlisted
<1>1. Typed /\ pc = "begin" /\ grammar = <<>> /\ pos = 0
  BY InitTyped DEF Init
<1>2. SoFar = <<>>
  <2>1. pc \in NothingBegunPCs
    BY <1>1 DEF NothingBegunPCs
  <2> QED BY <2>1, BegunIs DEF SoFar
<1>3. Printed = <<>>
  <2>1. <<>> \in Seq(ProdSet(NodeSet))
    BY EmptySeq
  <2> QED BY <1>1, <2>1, BegunWritten, PrintedTextIs
<1>4. Printed \o SoFar = <<>> /\ \A p \in 0 + 1 .. pos : FALSE
  BY <1>1, <1>2, <1>3
<1>5. \A X : Stood(X)
  BY <1>4, EmptyBetween DEF Stood, StandsIn
<1> QED BY <1>1, <1>5 DEF Unlisted

\* What stands in the part of the text that was read stands in the text, if what is
\* behind it may be left out.
LEMMA AllStands ==
  ASSUME Typed, NEW X, Stood(X), pc = "done", \A p \in pos + 1 .. Len(text) : text[p] \in X
  PROVE  Printed \in Seq(Written) /\ StandsIn(Printed, text, Len(text), X)
<1>1. SoFar = <<>>
  <2>1. pc \in NothingBegunPCs
    BY DEF NothingBegunPCs, LastPCs
  <2> QED BY <2>1, BegunIs DEF SoFar
<1>l. Len(text) \in Nat /\ text \in Seq(Symbols)
  BY TextIsSeq DEF Typed, StreamTyped
<1>2. PICK n \in Nat : n = Len(text)
  BY <1>l
<1>3. pos \in Nat /\ pos <= n
  <2>1. pos \in 0 .. n
    BY <1>2 DEF Typed, StreamTyped
  <2> QED BY <2>1
<1> DEFINE p == Printed
           none == <<>>
<1>4. p \in Seq(Written) /\ none \in Seq(Written) /\ p \o none = p
  BY BegunWritten, SymbolsWritten, ConcatEmptySeq
<1>5. StandsIn(p, text, pos, X)
  BY <1>1, <1>4 DEF Stood
<1>6. Between(none, text, pos, n, X)
  BY <1>2, EmptyBetween
<1> HIDE DEF p, none
<1>7. Becomes(Written, p, p, text, pos, n, X)
  BY <1>4, <1>6, Zenon DEF Becomes
<1>8. StandsIn(p, text, n, X)
  BY <1>3, <1>4, <1>5, <1>7, StillStands
<1> QED BY <1>2, <1>4, <1>8 DEF p

LEMMA AllSymbols == Blank \in Symbols \cup {Blank} /\ LosesOnly(Symbols \cup {Blank})
  BY DEF LosesOnly

\* Whatever was given up on the way, what an accepted grammar prints stands in the
\* text in that order: nothing was read twice, and no symbol of a part that was
\* dropped is left in what was kept.
THEOREM NothingIsInvented == Spec => []NothingInvented
<1> DEFINE X == Symbols \cup {Blank}
           IInv == Stood(X) /\ Unlisted
<1>1. Init => IInv
  BY InitStands
<1>2. IInv /\ (Typed /\ Phases) /\ [Next]_vars => IInv'
  BY StepStands, AllSymbols
<1>3. IInv /\ (Typed /\ Phases) => NothingInvented
  <2>1. pc # "done" => NothingInvented
    BY DEF NothingInvented, Accepted
  <2>2. ASSUME IInv, Typed, pc = "done" PROVE NothingInvented
    <3>1. text \in Seq(Symbols) /\ Len(text) \in Nat /\ DOMAIN text = 1 .. Len(text)
      BY <2>2, TextIsSeq DEF Typed, StreamTyped
    <3>2. PICK n \in Nat : n = Len(text)
      BY <3>1
    <3>3. pos \in 0 .. n
      BY <2>2, <3>2 DEF Typed, StreamTyped
    <3>4. \A p \in pos + 1 .. n : text[p] \in X
      <4>1. \A p \in pos + 1 .. n : p \in 1 .. n
        BY <3>3
      <4> QED BY <3>1, <3>2, <4>1, ElementOfSeq
    <3> DEFINE p == Printed
    <3>5. p \in Seq(Written) /\ StandsIn(p, text, n, X)
      BY <2>2, <3>2, <3>4, AllStands
    <3> HIDE DEF p, X
    <3>6. Met(p, text) = Len(p)
      BY <3>1, <3>2, <3>5, FoldIsLength
    <3> QED BY <3>6, Zenon DEF NothingInvented, Met, p
  <2> QED BY <2>1, <2>2
<1> HIDE DEF IInv
<1> QED BY <1>1, <1>2, <1>3, TypedAlways, PTL DEF Spec

=============================================================================
