----------------------------- MODULE BnfReader -----------------------------
(***************************************************************************)
(* rdfl_readBNF: the recursive descent that reads a grammar, its error     *)
(* code, and the memory it allocates and frees on each of its paths.       *)
(*                                                                         *)
(* text is what the stream holds: names, literals and the characters of    *)
(* the operators, each of them a symbol.  Blank stands for white space and *)
(* ended comments, OpenComment for a comment, and OpenQuote for a string,  *)
(* that runs to the end of the file.  That a comment which ends is skipped *)
(* is an assumption: readUntil may miss the two bytes that end a block     *)
(* comment (UntilNeverWrong of Iterate), and the code then gives up. A     *)
(* read that fails is the end of the file to the reader, so that text is   *)
(* what could be read.  Two names next to each other stand for two words,  *)
(* with a blank nobody wrote.  The object reads by itself (AUTOREAD); what *)
(* its consumers return then is the matter of Iterate.                     *)
(*                                                                         *)
(* The calls under way are levels, one for each _read_orloop.  What was    *)
(* read is a sequence of nodes in the order of the text: each alternative, *)
(* each factor, and the end of each couple.  live holds the blocks malloc  *)
(* returned and nobody freed.  malloc may fail MaxFailures times.          *)
(***************************************************************************)
EXTENDS Integers, FiniteSets, SequencesExt

CONSTANTS
  Names,        \* identifiers
  Literals,     \* quoted strings
  Texts,        \* the grammars to read, sequences of symbols
  MaxFailures   \* bound: how often malloc fails

\* Symbols that have a name.
OpenComment == "/*"
OpenQuote == "'"
End == "end of file"
Blank == " "
Comma == ","
OP_RULE_END == ";"

\* The operators, blanks, and what no identifier and no quoted string is either.
Marks == {"(", ")", Comma, ":", "=", OP_RULE_END, "|", "[", "]", "+", "*", "?",
          Blank, OpenComment, OpenQuote, End}

Symbols == UNION {Range(t) : t \in Texts}

ASSUME BnfReaderAssumption ==
  /\ Names \cap Literals = {} /\ (Names \cup Literals) \cap Marks = {}
  /\ Texts \subseteq Seq(Symbols)
  /\ MaxFailures \in Nat

VARIABLES
  text,      \* what the stream holds
  pos,       \* how many symbols were consumed
  eof,       \* LOCAL_REACHED_EOF
  pc,        \* what comes next
  e,         \* *e
  prod,      \* the locals of read_production
  levels,    \* the couples being read, the innermost last
  grammar,   \* the productions
  live,      \* the blocks in use
  failures   \* how often malloc may still fail

vars == <<text, pos, eof, pc, e, prod, levels, grammar, live, failures>>

\* e_rdflerrors
ERR_NONE         == 0
ERR_MEMORY_ALLOC == -3
ERRBNF_SYNTAX    == -200

NULL == 0

\* OP_RULE, whose first character is also the operator of builtin rules.
OP_RULE == <<":", ":", "=">>

-----------------------------------------------------------------------------
(* The stream *)

\* The symbol behind the first n.
Symbol(n) == IF n < Len(text) THEN text[n + 1] ELSE End

\* The predata behind the first n symbols is skipped.
Skip(n) == CHOOSE q \in n .. Len(text) :
             /\ Symbol(q) # Blank
             /\ \A i \in n .. q - 1 : Symbol(i) = Blank

Here == Skip(pos)

\* Whatever looks at the next symbol sees the end of file there: predata, too.
LooksAtEnd == Symbol(Here) \in {End, OpenComment}

\* rdfl_bacc_cmp_needdata on an operator of one character.
At(op) == Symbol(Here) = op

Consume(op) ==
  /\ At(op)
  /\ pos' = Here + 1
  /\ UNCHANGED eof

NoOperator(ops) ==
  /\ Symbol(Here) \notin ops
  /\ eof' = (eof \/ LooksAtEnd)
  /\ UNCHANGED pos

\* Whether the end of file is seen by who reads the symbol at n to its end.
LastName(n) == Symbol(n) \in Names /\ n + 1 = Len(text)

-----------------------------------------------------------------------------
(* Memory *)

\* The block the n-th of several mallocs in a row returns.
Fresh(n) ==
  LET free == (1 .. Cardinality(live) + n) \ live
  IN  CHOOSE p \in free : Cardinality({q \in free : q < p}) = n - 1

Malloc == live' = live \cup {Fresh(1)} /\ UNCHANGED failures
MallocFails == failures > 0 /\ failures' = failures - 1
NoMalloc == UNCHANGED failures

\* A node: what rdfl_readBNF_dump prints for it, its block, and what it points to.
Node(type, printed, block, target) ==
  [type |-> type, text |-> printed, block |-> block, target |-> target]

\* What _free_factors and _free_rule free of a node.
NodeBlocks(n) ==
  ({n.block} \cup IF n.type \in {"FACT_RULE", "FACT_LITERAL", "FACT_RULE_BUILTIN"}
                  THEN {n.target} ELSE {}) \ {NULL}

Rule(nodes) == UNION {NodeBlocks(nodes[i]) : i \in DOMAIN nodes}
ParamBlocks(params) == UNION {params[i].blocks : i \in DOMAIN params}

\* What free_prod frees, and what rdfl_freeBNF does for each production.
ProdBlocks(p) == ({p.block, p.identifier} \ {NULL}) \cup ParamBlocks(p.params) \cup Rule(p.exprs)
GrammarBlocks(g) == UNION {ProdBlocks(g[i]) : i \in DOMAIN g}

NoProd == [name |-> End, block |-> NULL, identifier |-> NULL, params |-> <<>>, exprs |-> <<>>]

-----------------------------------------------------------------------------
(* read_production, its parameters *)

\* rdfl_readBNF registers its comments, which may fail; they belong to the object.
Begin ==
  /\ pc = "begin"
  /\ \/ pc' = "production" /\ NoMalloc
     \/ pc' = "done" /\ MallocFails
  /\ UNCHANGED <<text, pos, eof, e, prod, levels, grammar, live>>

ReadName ==
  /\ pc = "production"
  /\ eof' = (eof \/ LooksAtEnd \/ LastName(Here))
  /\ \/ /\ Symbol(Here) \in Names
        /\ Malloc
        /\ prod' = [NoProd EXCEPT !.name = Symbol(Here), !.identifier = Fresh(1)]
        /\ pos' = Here + 1 /\ pc' = "params"
        /\ UNCHANGED e
     \/ /\ Symbol(Here) \in Names
        /\ MallocFails
        /\ e' = ERR_MEMORY_ALLOC /\ pc' = "no_production"
        /\ UNCHANGED <<pos, prod, live>>
     \/ /\ Symbol(Here) \notin Names
        /\ e' = IF Symbol(Here) = OpenComment THEN ERRBNF_SYNTAX ELSE e
        /\ pc' = "no_production"
        /\ NoMalloc
        /\ UNCHANGED <<pos, prod, live>>
  /\ UNCHANGED <<text, levels, grammar>>

\* How read_production goes on when read_params has returned NULL.
WithoutParams(err) == IF err # ERR_NONE THEN "no_production" ELSE "rule"

\* read_params
ReadParams ==
  /\ pc = "params"
  /\ \/ Consume("(") /\ pc' = "param"
     \/ NoOperator({"("}) /\ pc' = WithoutParams(e)
  /\ UNCHANGED <<text, e, prod, levels, grammar, live, failures>>

\* read_param_each returned NULL with the error err: read_param_list frees what it
\* has.
NoParam(err) ==
  /\ e' = IF prod.params # <<>> /\ err = ERR_NONE THEN ERRBNF_SYNTAX ELSE err
  /\ live' = live \ ParamBlocks(prod.params)
  /\ prod' = [prod EXCEPT !.params = <<>>]
  /\ pc' = IF e' # ERR_NONE THEN "no_production" ELSE "param_end"

\* read_param_each: a type and a name.
ReadParam ==
  /\ pc = "param"
  /\ LET id == Skip(Here + 1) IN
     \/ /\ Symbol(Here) \in Names /\ Symbol(id) \in Names
        /\ NoMalloc
        /\ live' = live \cup {Fresh(1), Fresh(2), Fresh(3)}
        /\ prod' = [prod EXCEPT !.params = Append(@,
                      [text |-> <<Symbol(Here), Symbol(id)>>,
                       blocks |-> {Fresh(1), Fresh(2), Fresh(3)}])]
        /\ pos' = id + 1 /\ eof' = (eof \/ LastName(id)) /\ pc' = "param_next"
        /\ UNCHANGED e
     \/ \* no memory for the parameter
        /\ Symbol(Here) \in Names /\ Symbol(id) \in Names
        /\ MallocFails
        /\ NoParam(ERR_MEMORY_ALLOC)
        /\ pos' = id + 1 /\ eof' = (eof \/ LastName(id))
     \/ \* no name behind the type, or no memory for it
        /\ Symbol(Here) \in Names
        /\ IF Symbol(id) \in Names THEN MallocFails ELSE NoMalloc
        /\ NoParam(ERRBNF_SYNTAX)
        /\ pos' = Here + 1
        /\ eof' = (eof \/ LastName(Here) \/ LastName(id) \/ Symbol(id) \in {End, OpenComment})
     \/ \* no type, or no memory for it
        /\ IF Symbol(Here) \in Names THEN MallocFails ELSE NoMalloc
        /\ NoParam(e)
        /\ eof' = (eof \/ LooksAtEnd \/ LastName(Here))
        /\ UNCHANGED pos
  /\ UNCHANGED <<text, levels, grammar>>

\* The loop of read_param_list.
ReadParamNext ==
  /\ pc = "param_next"
  /\ \/ Consume(Comma) /\ pc' = "param"
     \/ NoOperator({Comma}) /\ pc' = "param_end"
  /\ UNCHANGED <<text, e, prod, levels, grammar, live, failures>>

\* The end of read_params: a list that is not closed is dropped.
ReadParamEnd ==
  /\ pc = "param_end"
  /\ \/ /\ Consume(")")
        /\ pc' = IF prod.params = <<>> THEN WithoutParams(e) ELSE "rule"
        /\ UNCHANGED <<prod, live>>
     \/ /\ NoOperator({")"})
        /\ live' = live \ ParamBlocks(prod.params)
        /\ prod' = [prod EXCEPT !.params = <<>>]
        /\ pc' = WithoutParams(e)
  /\ UNCHANGED <<text, e, levels, grammar, failures>>

Ahead == SubSeq(text, Here + 1, Len(text))

\* The text ends inside of OP_RULE.
RuleCut == Ahead \in {<<":">>, <<":", ":">>}

\* "::=" behind the name and its parameters.
ReadRule ==
  /\ pc = "rule"
  /\ \/ /\ IsPrefix(OP_RULE, Ahead)
        /\ pos' = Here + 3 /\ pc' = "alternative"
        /\ levels' = <<[expr |-> NULL, facts |-> <<>>, target |-> <<>>, fact |-> NULL]>>
        /\ UNCHANGED eof
     \/ /\ ~IsPrefix(OP_RULE, Ahead)
        /\ eof' = (eof \/ LooksAtEnd \/ RuleCut) /\ pc' = "no_production"
        /\ UNCHANGED <<pos, levels>>
  /\ UNCHANGED <<text, e, prod, grammar, live, failures>>

\* The end of read_production.
ReadRuleEnd ==
  /\ pc = "rule_end"
  /\ \/ /\ Consume(OP_RULE_END)
        /\ \/ /\ Malloc
              /\ grammar' = Append(grammar, [prod EXCEPT !.block = Fresh(1)])
              /\ prod' = NoProd /\ pc' = "production"
              /\ UNCHANGED e
           \/ /\ MallocFails
              /\ e' = ERR_MEMORY_ALLOC /\ pc' = "no_production"
              /\ UNCHANGED <<grammar, prod, live>>
     \/ /\ NoOperator({OP_RULE_END})
        /\ pc' = "no_production"
        /\ NoMalloc
        /\ UNCHANGED <<e, grammar, prod, live>>
  /\ UNCHANGED <<text, levels>>

-----------------------------------------------------------------------------
(* Expressions and factors *)

Level == Last(levels)
SetLevel(l) == [levels EXCEPT ![Len(levels)] = l]

\* _read_or_expression allocates an alternative, and reads its first factor.
ReadAlternative ==
  /\ pc = "alternative"
  /\ \/ Malloc /\ levels' = SetLevel([Level EXCEPT !.expr = Fresh(1)]) /\ pc' = "factor"
     \/ MallocFails /\ pc' = "no_alternative" /\ UNCHANGED <<levels, live>>
  /\ UNCHANGED <<text, pos, eof, e, prod, grammar>>

\* A factor was read.
AddFactor(l, nodes) ==
  /\ levels' = SetLevel([l EXCEPT !.facts = @ \o nodes, !.fact = NULL])
  /\ pc' = "factor"

\* _read_factor up to the builtin rules: ":" and a name right behind it.  A ":"
\* without its name stays consumed.
ReadBuiltin ==
  /\ pc = "factor"
  /\ \/ /\ MallocFails /\ pc' = "no_factor"
        /\ UNCHANGED <<pos, eof, levels, live>>
     \/ /\ At(":") /\ Symbol(Here + 1) \in Names
        /\ live' = live \cup {Fresh(1), Fresh(2)} /\ NoMalloc
        /\ AddFactor(Level, <<Node("FACT_RULE_BUILTIN", <<":", Symbol(Here + 1)>>, Fresh(1), Fresh(2))>>)
        /\ pos' = Here + 2 /\ eof' = (eof \/ LastName(Here + 1))
     \/ \* no name, or no memory for it
        /\ At(":")
        /\ live' = live \cup {Fresh(1)}
        /\ IF Symbol(Here + 1) \in Names THEN MallocFails ELSE NoMalloc
        /\ levels' = SetLevel([Level EXCEPT !.fact = Fresh(1)]) /\ pc' = "operand"
        /\ pos' = Here + 1
        /\ eof' = (eof \/ Symbol(Here + 1) = End \/ LastName(Here + 1))
     \/ /\ NoOperator({":"})
        /\ Malloc
        /\ levels' = SetLevel([Level EXCEPT !.fact = Fresh(1)]) /\ pc' = "operand"
  /\ UNCHANGED <<text, e, prod, grammar>>

\* Its readIdentifier and readString: a name or a literal.
ReadOperand ==
  /\ pc = "operand" /\ Symbol(Here) \in Names \cup Literals
  /\ Malloc
  /\ AddFactor(Level, <<Node(IF Symbol(Here) \in Names THEN "FACT_RULE" ELSE "FACT_LITERAL",
                             <<Symbol(Here)>>, Level.fact, Fresh(1))>>)
  /\ pos' = Here + 1 /\ eof' = (eof \/ LastName(Here))
  /\ UNCHANGED <<text, e, prod, grammar>>

\* The beginning of _read_couple.
OpenCouple ==
  /\ pc = "operand"
  /\ Consume("[")
  /\ levels' = Append(levels, [expr |-> NULL, facts |-> <<>>, target |-> <<>>, fact |-> NULL])
  /\ pc' = "alternative"
  /\ UNCHANGED <<text, e, prod, grammar, live, failures>>

\* No factor begins here, or there is no memory for its text: label free_fact.
NotAFactor ==
  /\ pc = "operand" /\ Symbol(Here) # "["
  /\ IF Symbol(Here) \in Names \cup Literals THEN MallocFails ELSE NoMalloc
  /\ live' = live \ {Level.fact}
  /\ levels' = SetLevel([Level EXCEPT !.fact = NULL]) /\ pc' = "no_factor"
  /\ eof' = (eof \/ LooksAtEnd \/ LastName(Here) \/ Symbol(Here) = OpenQuote)
  /\ UNCHANGED <<text, pos, e, prod, grammar>>

\* _read_or_expression goes on without a factor: at its first one it gives up.
NoFactor ==
  /\ pc = "no_factor"
  /\ \/ /\ Level.facts = <<>>
        /\ live' = live \ {Level.expr}
        /\ levels' = SetLevel([Level EXCEPT !.expr = NULL]) /\ pc' = "no_alternative"
     \/ /\ Level.facts # <<>>
        /\ levels' = SetLevel([Level EXCEPT
              !.target = @ \o <<Node("expr", IF @ = <<>> THEN <<>> ELSE <<"|">>, Level.expr, NULL)>>
                           \o Level.facts,
              !.expr = NULL, !.facts = <<>>])
        /\ pc' = "or"
        /\ UNCHANGED live
  /\ UNCHANGED <<text, pos, eof, e, prod, grammar, failures>>

\* Variant for mutation: the loop of the production is not left.
EndLoopStays(target) ==
  IF Len(levels) > 1
    THEN levels' = SetLevel([Level EXCEPT !.target = target]) /\ pc' = "close" /\ UNCHANGED prod
    ELSE prod' = [prod EXCEPT !.exprs = target] /\ pc' = "rule_end" /\ UNCHANGED levels

\* _read_orloop ends with target: to its couple, or to read_production.
EndLoop(target) ==
  IF Len(levels) > 1
    THEN levels' = SetLevel([Level EXCEPT !.target = target]) /\ pc' = "close" /\ UNCHANGED prod
    ELSE levels' = <<>> /\ prod' = [prod EXCEPT !.exprs = target] /\ pc' = "rule_end"

\* The loop of _read_orloop.
ReadOr ==
  /\ pc = "or"
  /\ \/ Consume("|") /\ pc' = "alternative" /\ UNCHANGED <<levels, prod>>
     \/ NoOperator({"|"}) /\ EndLoop(Level.target)
  /\ UNCHANGED <<text, e, grammar, live, failures>>

\* _read_couple returned NULL to _read_factor: the factor of the level around it
\* goes, and so do the blocks.
CoupleFails(blocks) ==
  LET outer == Front(levels) IN
  /\ live' = live \ (blocks \cup {Last(outer).fact})
  /\ levels' = [outer EXCEPT ![Len(outer)].fact = NULL]
  /\ pc' = "no_factor"

\* Variant for mutation: what was read of the couple stays.
NoAlternativeKeeps ==
  /\ pc = "no_alternative"
  /\ e' = IF Level.target = <<>> THEN e ELSE ERRBNF_SYNTAX
  /\ IF Len(levels) > 1
       THEN CoupleFails({}) /\ UNCHANGED prod
       ELSE /\ levels' = <<>> /\ prod' = [prod EXCEPT !.exprs = <<>>]
            /\ live' = live \ Rule(Level.target)
            /\ pc' = IF e' # ERR_NONE THEN "no_production" ELSE "rule_end"
  /\ UNCHANGED <<text, pos, eof, grammar, failures>>

\* Variant for mutation: read_production is given what was freed.
NoAlternativeFreesTwice ==
  /\ pc = "no_alternative"
  /\ e' = IF Level.target = <<>> THEN e ELSE ERRBNF_SYNTAX
  /\ IF Len(levels) > 1
       THEN CoupleFails(Rule(Level.target)) /\ UNCHANGED prod
       ELSE /\ levels' = <<>> /\ prod' = [prod EXCEPT !.exprs = Level.target]
            /\ live' = live \ Rule(Level.target)
            /\ pc' = IF e' # ERR_NONE THEN "no_production" ELSE "rule_end"
  /\ UNCHANGED <<text, pos, eof, grammar, failures>>

\* _read_orloop gives up: behind a "|" with an error, else without.
NoAlternative ==
  /\ pc = "no_alternative"
  /\ e' = IF Level.target = <<>> THEN e ELSE ERRBNF_SYNTAX
  /\ IF Len(levels) > 1
       THEN CoupleFails(Rule(Level.target)) /\ UNCHANGED prod
       ELSE /\ levels' = <<>> /\ prod' = [prod EXCEPT !.exprs = <<>>]
            /\ live' = live \ Rule(Level.target)
            /\ pc' = IF e' # ERR_NONE THEN "no_production" ELSE "rule_end"
  /\ UNCHANGED <<text, pos, eof, grammar, failures>>

\* Variant for mutation: two operators are mixed up.
OpFeedMixed == [op \in {"+", "*", "?"} |->
  CASE op = "+" -> "FACT_EXPR_NGT" [] op = "*" -> "FACT_EXPR_OPT" [] op = "?" -> "FACT_EXPR_NGTE"]

OpFeed == [op \in {"+", "*", "?"} |->
  CASE op = "+" -> "FACT_EXPR_NGT" [] op = "*" -> "FACT_EXPR_NGTE" [] op = "?" -> "FACT_EXPR_OPT"]

\* The factor of a couple of that type, as _dump_factors prints it.
Couple(fact, type, target) ==
  <<Node(type, <<"[">>, fact, NULL)>> \o target
    \o <<Node("end", <<"]", CASE type = "FACT_EXPR_OPT" -> "?" [] type = "FACT_EXPR_NGT" -> "+"
                              [] type = "FACT_EXPR_NGTE" -> "*" [] OTHER -> "x">>, NULL, NULL)>>

\* The end of _read_couple, and the operator behind it.
CloseCouple ==
  /\ pc = "close" /\ At("]")
  /\ LET outer == Front(levels)
         feed == Symbol(Skip(Here + 1))
     IN
     /\ feed \in DOMAIN OpFeed
     /\ levels' = [outer EXCEPT ![Len(outer)] = [Last(outer) EXCEPT
          !.facts = @ \o Couple(Last(outer).fact, OpFeed[feed], Level.target), !.fact = NULL]]
  /\ pos' = Skip(Here + 1) + 1 /\ pc' = "factor"
  /\ UNCHANGED <<text, eof, e, prod, grammar, live, failures>>

NotClosed ==
  /\ pc = "close"
  /\ NoOperator({"]"})
  /\ CoupleFails(Rule(Level.target))
  /\ UNCHANGED <<text, e, prod, grammar, failures>>

\* Variant for mutation: the couple is kept, whatever its type is.
NoFeedKeeps ==
  /\ pc = "close" /\ At("]")
  /\ LET outer == Front(levels) IN
     levels' = [outer EXCEPT ![Len(outer)] = [Last(outer) EXCEPT
       !.facts = @ \o Couple(Last(outer).fact, "FACT_EXPRS", Level.target), !.fact = NULL]]
  /\ LET after == Skip(Here + 1) IN
     /\ Symbol(after) \notin DOMAIN OpFeed
     /\ eof' = (eof \/ Symbol(after) \in {End, OpenComment})
  /\ pos' = Here + 1 /\ pc' = "factor"
  /\ UNCHANGED <<text, e, prod, grammar, live, failures>>

\* There is no operator: only the factor is freed, not what the couple holds.
NoFeed ==
  /\ pc = "close" /\ At("]")
  /\ LET after == Skip(Here + 1) IN
     /\ Symbol(after) \notin DOMAIN OpFeed
     /\ eof' = (eof \/ Symbol(after) \in {End, OpenComment})
  /\ CoupleFails({})
  /\ pos' = Here + 1
  /\ UNCHANGED <<text, e, prod, grammar, failures>>

-----------------------------------------------------------------------------
(* read_prodloop, _link_factors, and the caller *)

\* Variant for mutation: after a production without an error the next is tried.
NoProductionRetries ==
  /\ pc = "no_production"
  /\ pc' = IF grammar = <<>> THEN "done" ELSE IF e = ERR_NONE /\ eof THEN "link" ELSE "production"
  /\ live' = live \ ProdBlocks(prod)
  /\ prod' = NoProd
  /\ UNCHANGED <<text, pos, eof, e, levels, grammar, failures>>

\* Variant for mutation: the error code is not looked at.
NoProductionCareless ==
  /\ pc = "no_production"
  /\ prod' = NoProd
  /\ IF grammar # <<>> /\ eof
       THEN /\ pc' = "link" /\ live' = live \ ProdBlocks(prod) /\ UNCHANGED grammar
       ELSE /\ pc' = "done" /\ grammar' = <<>>
            /\ live' = live \ (ProdBlocks(prod) \cup GrammarBlocks(grammar))
  /\ UNCHANGED <<text, pos, eof, e, levels, failures>>

\* Labels free_prod_customerr and free_prod; then read_prodloop ends.  It keeps
\* its productions if the last attempt met the end of the file and no error.
NoProduction ==
  /\ pc = "no_production"
  /\ prod' = NoProd
  /\ IF grammar # <<>> /\ e = ERR_NONE /\ eof
       THEN /\ pc' = "link" /\ live' = live \ ProdBlocks(prod) /\ UNCHANGED grammar
       ELSE /\ pc' = "done" /\ grammar' = <<>>
            /\ live' = live \ (ProdBlocks(prod) \cup GrammarBlocks(grammar))
  /\ UNCHANGED <<text, pos, eof, e, levels, failures>>

\* The factors that still hold the name of a rule, and the first of them.
Unlinked == UNION {{<<i, k>> : k \in {k \in DOMAIN grammar[i].exprs :
                                        grammar[i].exprs[k].type = "FACT_RULE"}} :
                   i \in DOMAIN grammar}
NextUnlinked == CHOOSE u \in Unlinked :
  \A v \in Unlinked : u[1] < v[1] \/ (u[1] = v[1] /\ u[2] <= v[2])

\* Variant for mutation: the last production of that name.
_seek_targetLast(id) == LET i == SelectLastInSeq(grammar, LAMBDA p : p.name = id)
                        IN  IF i = 0 THEN NULL ELSE grammar[i].block

\* The first production of that name.
_seek_target(id) == LET i == SelectInSeq(grammar, LAMBDA p : p.name = id)
                    IN  IF i = 0 THEN NULL ELSE grammar[i].block

\* One factor of _link_target.  Its name is freed; without a production of that
\* name rdfl_readBNF frees the grammar.
Link ==
  /\ pc = "link"
  /\ \/ Unlinked = {} /\ pc' = "done" /\ UNCHANGED <<grammar, live>>
     \/ /\ Unlinked # {}
        /\ LET u == NextUnlinked
               fact == grammar[u[1]].exprs[u[2]]
               target == _seek_target(Last(fact.text))
               linked == [grammar EXCEPT ![u[1]].exprs[u[2]] =
                            [@ EXCEPT !.type = "FACT_RULE_LINKED", !.target = target]]
           IN IF target # NULL
                THEN /\ live' = live \ {fact.target}
                     /\ grammar' = linked /\ UNCHANGED pc
                ELSE /\ live' = live \ ({fact.target} \cup GrammarBlocks(linked))
                     /\ grammar' = <<>> /\ pc' = "done"
  /\ UNCHANGED <<text, pos, eof, e, prod, levels, failures>>

\* The caller frees what it got.
FreeBNF ==
  /\ pc = "done"
  /\ pc' = "end"
  /\ live' = live \ GrammarBlocks(grammar)
  /\ grammar' = <<>>
  /\ UNCHANGED <<text, pos, eof, e, prod, levels, failures>>

Finished == pc = "end" /\ UNCHANGED vars

Init ==
  /\ text \in Texts
  /\ pos = 0 /\ eof = FALSE
  /\ pc = "begin" /\ e = ERR_NONE
  /\ prod = NoProd /\ levels = <<>> /\ grammar = <<>>
  /\ live = {} /\ failures = MaxFailures

Next ==
  \/ Begin \/ ReadName \/ ReadParams \/ ReadParam \/ ReadParamNext \/ ReadParamEnd
  \/ ReadRule \/ ReadRuleEnd
  \/ ReadAlternative \/ ReadBuiltin \/ ReadOperand \/ OpenCouple \/ NotAFactor
  \/ NoFactor \/ ReadOr \/ NoAlternative \/ CloseCouple \/ NotClosed \/ NoFeed
  \/ NoProduction \/ Link \/ FreeBNF \/ Finished

\* The library never waits: the object reads by itself.
Spec == Init /\ [][Next]_vars /\ WF_vars(Next)

-----------------------------------------------------------------------------
(* Properties *)

\* The blocks that something still points to, piece by piece.
Nodes == FlattenSeq([i \in DOMAIN grammar |-> grammar[i].exprs]) \o prod.exprs
           \o FlattenSeq([i \in DOMAIN levels |-> levels[i].target \o levels[i].facts])
Params == FlattenSeq([i \in DOMAIN grammar |-> grammar[i].params]) \o prod.params
Pieces ==
  [i \in DOMAIN Nodes |-> NodeBlocks(Nodes[i])]
    \o [i \in DOMAIN Params |-> Params[i].blocks]
    \o [i \in DOMAIN grammar |-> {grammar[i].block}]
    \o [i \in DOMAIN grammar |-> {grammar[i].identifier}]
    \o <<{prod.identifier} \ {NULL}>>
    \o [i \in DOMAIN levels |-> {levels[i].expr} \ {NULL}]
    \o [i \in DOMAIN levels |-> {levels[i].fact} \ {NULL}]
Held == UNION Range(Pieces)

\* Types: the control state, the position, and that only read_prodloop's
\* productions have blocks of their own.
TypeOK ==
  /\ pos \in 0 .. Len(text) /\ eof \in BOOLEAN
  /\ pc \in {"begin", "production", "params", "param", "param_next", "param_end", "rule",
             "alternative", "factor", "operand", "no_factor", "or", "no_alternative", "close",
             "rule_end", "no_production", "link", "done", "end"}
  /\ e \in {ERR_NONE, ERR_MEMORY_ALLOC, ERRBNF_SYNTAX}
  /\ (levels # <<>>) <=> pc \in {"alternative", "factor", "operand", "no_factor", "or",
                                 "no_alternative", "close"}
  /\ prod.block = NULL
  /\ \A i \in DOMAIN grammar : grammar[i].block # NULL /\ grammar[i].identifier # NULL
  /\ live \subseteq Nat \ {NULL} /\ failures \in 0 .. MaxFailures

\* At every moment of reading, linking and freeing, no block that a production, a
\* parameter, an expression or a factor points to was freed, and no two of them
\* point to the same: no path of the descent frees what another still frees later.
HeldOnce ==
  LET pieces == Pieces IN
  /\ UNION Range(pieces) \subseteq live
  /\ \A j \in DOMAIN pieces : \A i \in 1 .. j - 1 : pieces[i] \cap pieces[j] = {}

\* A "]" of the text whose operator is missing: _read_factor, rdfl_bnf.c:171.
CoupleWithoutOperator ==
  \E i \in DOMAIN text : text[i] = "]" /\ Symbol(Skip(i)) \notin DOMAIN OpFeed

\* On every path, whichever malloc fails and wherever the text is cut, nothing is
\* allocated that nobody can free any more; but for the expressions of a couple
\* whose operator is missing, which _read_factor does not free.
NothingLeaks == CoupleWithoutOperator \/ live = Held

\* What rdfl_readBNF_dump prints of a production, symbol by symbol.
Dump(p) ==
  <<p.name>>
    \o (IF p.params = <<>> THEN <<>>
        ELSE <<"(">> \o p.params[1].text
               \o FlattenSeq([i \in 1 .. Len(p.params) - 1 |-> <<Comma>> \o p.params[i + 1].text])
               \o <<")">>)
    \o OP_RULE \o FlattenSeq([i \in DOMAIN p.exprs |-> p.exprs[i].text]) \o <<OP_RULE_END>>
Printed == FlattenSeq([i \in DOMAIN grammar |-> Dump(grammar[i])])

\* A sequence but for the symbols of a set.
Without(seq, dropped) ==
  LET keep(s, x) == IF x \in dropped THEN s ELSE Append(s, x) IN FoldLeft(keep, <<>>, seq)

Accepted == pc = "done" /\ grammar # <<>>
NoMallocFailed == failures = MaxFailures

-----------------------------------------------------------------------------
(* Grammars written as they should be: what may stand behind what          *)

\* The next symbol that is not blank, behind the first n.
After(n) == Symbol(Skip(n))

RuleAfter(n) == IsPrefix(OP_RULE, SubSeq(text, Skip(n) + 1, Len(text)))

\* The first n symbols end inside of a rule, behind its "::=".
InBody(n) == \E j \in 1 .. n : text[j] = "=" /\ \A k \in j .. n : text[k] # OP_RULE_END

\* A factor begins there; it does, or an alternative, a couple or a rule ends.
FactorAfter(n) == \/ After(n) \in Names \cup Literals \cup {"["}
                  \/ After(n) = ":" /\ Symbol(Skip(n) + 1) \in Names
GoesOn(n) == FactorAfter(n) \/ After(n) \in {"|", "]", OP_RULE_END}

Count(x, n) == Cardinality({k \in 1 .. n : text[k] = x})

\* Behind a "(" or "," a type and a name, and what comes then.
ParamAfter(n) == LET id == Skip(Skip(n) + 1) IN
  After(n) \in Names /\ Symbol(id) \in Names /\ After(id + 1) \in {Comma, ")"}

HeadAfter(n) == After(n) \in Names /\ (After(Skip(n) + 1) = "(" \/ RuleAfter(Skip(n) + 1))

Plain ==
  /\ HeadAfter(0)
  /\ \A n \in DOMAIN text :
       /\ text[n] = OP_RULE_END => /\ HeadAfter(n) \/ Skip(n) = Len(text)
                                  /\ Count("]", n) = Count("[", n)
       /\ text[n] \in {"(", Comma} => ParamAfter(n)
       /\ text[n] = ")" => RuleAfter(n)
       /\ text[n] \in {"=", "|", "["} => FactorAfter(n)
       /\ text[n] = "]" => After(n) \in DOMAIN OpFeed /\ Count("]", n) <= Count("[", n)
       /\ text[n] \in DOMAIN OpFeed \cup Literals => GoesOn(n)
       /\ text[n] \in Names /\ InBody(n) => GoesOn(n)

\* The names of the productions, those the rules use, and whether they are defined.
Headed == {After(n) : n \in {n \in 0 .. Len(text) : n = 0 \/ text[n] = OP_RULE_END}}
Used == {text[n] : n \in {n \in DOMAIN text : text[n] \in Names /\ InBody(n) /\ text[n - 1] # ":"}}
Defined == Used \subseteq Headed

-----------------------------------------------------------------------------
\* A grammar written as it should be is read back as it was written: alternatives,
\* factors, couples with their operators, parameters and builtin rules, in their
\* order, and it is accepted if its rules are defined.  If a malloc failed it is
\* refused, or read but for the ":" of a builtin rule, which _read_factor consumed
\* before it could not store the name and took it for a rule of the grammar.
ReadsBack ==
  (pc = "done" /\ Plain) =>
    /\ (NoMallocFailed /\ Defined) => grammar # <<>>
    /\ grammar # <<>> => Without(Printed, {Blank, ":"}) = Without(text, {Blank, ":"})
    /\ (NoMallocFailed /\ grammar # <<>>) => Printed = Without(text, {Blank})

\* Whatever the text, and however much of it is dropped, what was accepted stands
\* in the text in that order: nothing is read twice, and nothing that was given up
\* stays in an expression.  The last production may lack nothing: its ";" was read.
NothingInvented ==
  Accepted => LET printed == Printed
                  match(n, x) == IF n < Len(printed) /\ printed[n + 1] = x THEN n + 1 ELSE n
              IN  FoldLeft(match, 0, text) = Len(printed)

\* A "|" without an alternative, or a "," without a parameter, behind it is an
\* error that refuses the whole grammar, however deep in couples it stands and
\* although the factors read before it are kept and their production is built
\* (rdfl_bnf.c:103, and :222 on how the code and the result agree).
NoDanglingSeparator ==
  Accepted => \A i \in 1 .. pos :
    /\ text[i] = "|" => Symbol(Skip(i)) \in Names \cup Literals \cup {":", "["}
    /\ text[i] = Comma => Symbol(Skip(i)) \in Names

\* Each factor that names a rule is linked to the first production of that name,
\* which is a production of this grammar and not freed.
LinksResolve ==
  Accepted => \A i \in DOMAIN grammar : \A k \in DOMAIN grammar[i].exprs :
    LET fact == grammar[i].exprs[k] IN
    /\ fact.type # "FACT_RULE"
    /\ fact.type = "FACT_RULE_LINKED" =>
         \E j \in DOMAIN grammar :
            /\ grammar[j].block = fact.target /\ grammar[j].name = Last(fact.text)
            /\ \A h \in 1 .. j - 1 : grammar[h].name # grammar[j].name

\* The descent and the linking end, whatever the text and the failures.
Terminates == <>(pc = "end")

=============================================================================
