------------------------------- MODULE BnfRun -------------------------------
(***************************************************************************)
(* rdfl_applyBNF: the evaluation of a linked grammar on a stream that is   *)
(* consumed as it is matched.                                              *)
(*                                                                         *)
(* A grammar is what rdfl_readBNF leaves in memory: prods, the productions *)
(* in their order, and exprs, the or-expressions, to which a production    *)
(* and a couple point by their number; an or-expression is a sequence of   *)
(* alternatives, an alternative one of factors.  Each call of              *)
(* _eval_orexpr is a frame of the stack.                                   *)
(*                                                                         *)
(* text is what the stream holds; Blank stands for white space and ended   *)
(* comments, OpenComment for a comment that runs to its end.  whole says   *)
(* whether the end of text is the end of the file (AUTOREAD, or it was     *)
(* seen), or the data read so far ends there.                              *)
(***************************************************************************)
EXTENDS Integers, FiniteSets, SequencesExt

CONSTANTS
  Grammars,    \* the grammars
  Ids,         \* the names a caller asks for
  Texts,       \* the streams
  Extensions,  \* what may follow a stream that is not whole
  MaxDepth,    \* how many calls the C stack has room for
  Meaning(_, _)  \* what a grammar means on a stream

NULL == 0
Couples == {"FACT_EXPR_OPT", "FACT_EXPR_NGT", "FACT_EXPR_NGTE"}
Repetitions == {"FACT_EXPR_NGT", "FACT_EXPR_NGTE"}

IsSequence(s) == s \in Seq(Range(s))

\* The factors of a grammar.
FactorsOf(g) ==
  UNION {UNION {Range(g.exprs[x][a]) : a \in DOMAIN g.exprs[x]} : x \in DOMAIN g.exprs}

\* What rdfl_readBNF leaves: every or-expression has an alternative, every
\* alternative a factor, and every factor that is evaluated what it points to.  A
\* production may have no expression.
IsGrammar(g) ==
  /\ IsSequence(g.prods)
  /\ \A i \in DOMAIN g.prods : g.prods[i].exprs \in DOMAIN g.exprs \cup {NULL}
  /\ g.exprs \in Seq(Seq(Seq(FactorsOf(g)) \ {<<>>}) \ {<<>>})
  /\ \A f \in FactorsOf(g) :
       /\ f.type = "FACT_RULE_LINKED" => f.target \in DOMAIN g.prods
       /\ f.type \in Couples => f.target \in DOMAIN g.exprs
       /\ f.type = "FACT_LITERAL" => IsSequence(f.lit)

ASSUME BnfRunAssumption ==
  /\ MaxDepth \in Nat \ {0}
  /\ \A g \in Grammars : IsGrammar(g)
  /\ Extensions # {}
  /\ \A t \in Texts \cup Extensions : IsSequence(t)

VARIABLES
  bnf,     \* the grammar
  id,      \* the rule the caller names
  text,    \* the stream
  whole,   \* its end is the end of the file
  pos,     \* how many symbols were consumed
  stack,   \* the calls of _eval_orexpr, the innermost last
  pc,      \* what comes next
  ret,     \* what was returned last
  spoilt   \* a sequence failed behind a factor that consumed: not in the code

vars == <<bnf, id, text, whole, pos, stack, pc, ret, spoilt>>

ERR_MISC              == -1
ERRBNF_SYNTAX         == -200
ERRBNF_MISSINGID      == -201
VCSM_INCOMPLETE_TOKEN == -101

OpenComment == "/*"
End == "end of data"
Blank == " "

-----------------------------------------------------------------------------
(* A literal: rdfl_bacc_cmp_needdata, consuming *)

Symbol(n) == IF n < Len(text) THEN text[n + 1] ELSE End

\* The predata behind the first n symbols is skipped.
Skip(n) == CHOOSE q \in n .. Len(text) :
             /\ Symbol(q) # Blank
             /\ \A i \in n .. q - 1 : Symbol(i) = Blank

\* An empty literal needs data, too.
Matches(lit) == Skip(pos) < Len(text) /\ IsPrefix(lit, SubSeq(text, Skip(pos) + 1, Len(text)))

\* The data ends before it is told whether lit stands there.
CutShort(lit) == IsPrefix(SubSeq(text, Skip(pos) + 1, Len(text)), lit)

\* Variant for mutation: data that is missing is taken for a mismatch.
LiteralImpatient(lit) ==
  IF Symbol(Skip(pos)) = OpenComment THEN ERRBNF_SYNTAX
  ELSE IF Matches(lit) THEN 1 ELSE 0

\* What the comparison returns.
Literal(lit) ==
  IF Symbol(Skip(pos)) = OpenComment THEN IF whole THEN ERRBNF_SYNTAX ELSE VCSM_INCOMPLETE_TOKEN
  ELSE IF Matches(lit) THEN 1
  ELSE IF CutShort(lit) /\ ~whole THEN VCSM_INCOMPLETE_TOKEN ELSE 0

-----------------------------------------------------------------------------
(* The evaluation *)

Top == Last(stack)
SetTop(frame) == [stack EXCEPT ![Len(stack)] = frame]
Fact == Head(Top.facts)

\* A call of _eval_orexpr on the expression x, for the factor type call.
Frame(call, x) ==
  [call |-> call, exprs |-> x, or |-> bnf.exprs[x], facts |-> Head(bnf.exprs[x]), start |-> pos]

\* It reads the first alternative whether there is one or not.
EvalOrexpr(call, x) ==
  IF x = NULL \/ Len(stack) = MaxDepth
    THEN pc' = "crashed" /\ UNCHANGED stack
    ELSE pc' = "factor" /\ stack' = Append(stack, Frame(call, x))

\* rdfl_applyBNF
ApplyBNF ==
  /\ pc = "apply"
  /\ LET rule == SelectInSeq(bnf.prods, LAMBDA p : p.name = id) IN
     IF rule # 0 THEN EvalOrexpr("FACT_RULE_LINKED", bnf.prods[rule].exprs) /\ UNCHANGED ret
     ELSE /\ ret' = IF bnf.prods = <<>> THEN ERR_MISC ELSE ERRBNF_MISSINGID
          /\ pc' = "done" /\ UNCHANGED stack
  /\ UNCHANGED <<bnf, id, text, whole, pos, spoilt>>

\* A factor that is a rule or a couple.
EvalCall ==
  /\ pc = "factor"
  /\ \/ Fact.type = "FACT_RULE_LINKED" /\ EvalOrexpr(Fact.type, bnf.prods[Fact.target].exprs)
     \/ Fact.type \in Couples /\ EvalOrexpr(Fact.type, Fact.target)
  /\ UNCHANGED <<bnf, id, text, whole, pos, ret, spoilt>>

\* _eval_expr_literal
EvalLiteral ==
  /\ pc = "factor" /\ Fact.type = "FACT_LITERAL"
  /\ ret' = Literal(Fact.lit)
  /\ pos' = IF ret' = 1 /\ Fact.lit # <<>> THEN Skip(pos) + Len(Fact.lit) ELSE pos
  /\ pc' = "returned"
  /\ UNCHANGED <<bnf, id, text, whole, stack, spoilt>>

\* No builtin rule is evaluated.
EvalBuiltin ==
  /\ pc = "factor" /\ Fact.type = "FACT_RULE_BUILTIN"
  /\ ret' = 0 /\ pc' = "returned"
  /\ UNCHANGED <<bnf, id, text, whole, pos, stack, spoilt>>

\* _eval_expr: the next factor, or the end of the sequence.
SequenceGoesOn == ret > 0 /\ Len(Top.facts) > 1

NextFactor ==
  /\ pc = "returned" /\ SequenceGoesOn
  /\ stack' = SetTop([Top EXCEPT !.facts = Tail(@)]) /\ pc' = "factor"
  /\ UNCHANGED <<bnf, id, text, whole, pos, ret, spoilt>>

EndSequence ==
  /\ pc = "returned" /\ ~SequenceGoesOn
  /\ pc' = "alternative"
  /\ spoilt' = (spoilt \/ (ret = 0 /\ pos > Top.start))
  /\ UNCHANGED <<bnf, id, text, whole, pos, stack, ret>>

\* Variant for mutation: the alternatives go on from the first one's factors.
NextAlternativeSame ==
  /\ pc = "alternative" /\ ret = 0 /\ Len(Top.or) > 1
  /\ stack' = SetTop([Top EXCEPT !.or = Tail(@), !.start = pos]) /\ pc' = "factor"
  /\ UNCHANGED <<bnf, id, text, whole, pos, ret, spoilt>>

\* _eval_orexpr: the next alternative begins where the stream is now.
NextAlternative ==
  /\ pc = "alternative" /\ ret = 0 /\ Len(Top.or) > 1
  /\ stack' = SetTop([Top EXCEPT !.or = Tail(@), !.facts = Head(Tail(Top.or)), !.start = pos])
  /\ pc' = "factor"
  /\ UNCHANGED <<bnf, id, text, whole, pos, ret, spoilt>>

\* Variant for mutation: a repetition ends by an error only.
RepeatAlways ==
  /\ pc = "alternative" /\ ret >= 0 /\ Top.call \in Repetitions
  /\ stack' = SetTop(Frame("FACT_EXPR_NGTE", Top.exprs)) /\ pc' = "factor"
  /\ UNCHANGED <<bnf, id, text, whole, pos, ret, spoilt>>

\* _eval_expr_ngte and _eval_expr_ngt evaluate the expression again.
Repeat ==
  /\ pc = "alternative" /\ ret > 0 /\ Top.call \in Repetitions
  /\ stack' = SetTop(Frame("FACT_EXPR_NGTE", Top.exprs)) /\ pc' = "factor"
  /\ UNCHANGED <<bnf, id, text, whole, pos, ret, spoilt>>

\* Variant for mutation: an option hides errors.
AnswerHides(call, r) == IF call \in {"FACT_EXPR_OPT", "FACT_EXPR_NGTE"} THEN 1 ELSE r

\* What the caller of _eval_orexpr makes of its result in the end.
Answer(call, r) == IF call \in {"FACT_EXPR_OPT", "FACT_EXPR_NGTE"} /\ r >= 0 THEN 1 ELSE r

Leave ==
  /\ pc = "alternative"
  /\ ret # 0 \/ Len(Top.or) = 1
  /\ ret <= 0 \/ Top.call \notin Repetitions
  /\ ret' = Answer(Top.call, ret)
  /\ stack' = Front(stack)
  /\ pc' = IF Len(stack) = 1 THEN "done" ELSE "returned"
  /\ UNCHANGED <<bnf, id, text, whole, pos, spoilt>>

Finished == pc \in {"done", "crashed"} /\ UNCHANGED vars

Init ==
  /\ bnf \in Grammars /\ id \in Ids /\ text \in Texts /\ whole \in BOOLEAN
  /\ pos = 0 /\ stack = <<>> /\ pc = "apply" /\ ret = 0 /\ spoilt = FALSE

Next ==
  \/ ApplyBNF \/ EvalCall \/ EvalLiteral \/ EvalBuiltin
  \/ NextFactor \/ EndSequence \/ NextAlternative \/ Repeat \/ Leave \/ Finished

\* The evaluation never waits: what is missing is an error of the comparison.
Spec == Init /\ [][Next]_vars /\ WF_vars(Next)

-----------------------------------------------------------------------------
(* Grammars whose evaluation ends *)

ExprIds(g) == DOMAIN g.exprs

\* The expression a factor evaluates, or NULL.
Target(g, fact) == CASE fact.type = "FACT_RULE_LINKED" -> g.prods[fact.target].exprs
                     [] fact.type \in Couples -> fact.target
                     [] OTHER -> NULL

\* Whether a factor may succeed on nothing, if those expressions may.
Idle(g, fact, idle) ==
  CASE fact.type = "FACT_LITERAL" -> fact.lit = <<>>
    [] fact.type \in {"FACT_EXPR_OPT", "FACT_EXPR_NGTE"} -> TRUE
    [] OTHER -> Target(g, fact) \in idle

\* The expressions that may succeed on nothing, found in n rounds.
IdleExprs(g) ==
  LET round[n \in Nat] ==
        IF n = 0 THEN {}
        ELSE {x \in ExprIds(g) : \E a \in DOMAIN g.exprs[x] :
                \A k \in DOMAIN g.exprs[x][a] : Idle(g, g.exprs[x][a][k], round[n - 1])}
  IN  round[Cardinality(ExprIds(g))]

\* The expressions evaluated within x before it consumed anything.
Leftmost(g, x, idle) ==
  {y \in ExprIds(g) : \E a \in DOMAIN g.exprs[x] : \E k \in DOMAIN g.exprs[x][a] :
     /\ y = Target(g, g.exprs[x][a][k])
     /\ \A j \in 1 .. k - 1 : Idle(g, g.exprs[x][a][j], idle)}

\* Those whose leftmost expressions are nested finitely.
Grounded(g) ==
  LET idle == IdleExprs(g)
      round[n \in Nat] ==
        IF n = 0 THEN {}
        ELSE {x \in ExprIds(g) : Leftmost(g, x, idle) \subseteq round[n - 1]}
  IN  round[Cardinality(ExprIds(g))]

\* Every rule has an expression, none is left recursive, and no repeated
\* expression succeeds on nothing.
WellFormed(g) ==
  /\ \A i \in DOMAIN g.prods : g.prods[i].exprs # NULL
  /\ Grounded(g) = ExprIds(g)
  /\ \A fact \in FactorsOf(g) : fact.type \in Repetitions
                             => fact.target \notin IdleExprs(g)

-----------------------------------------------------------------------------
(* What a grammar means: the parsing expression grammar it is, whose       *)
(* alternatives begin anew at the same place.  A meaning of it on a stream *)
(* says how far each of its parts goes from each place, or that it fails   *)
(* there; it is any relation closed under the rules below, so that what is *)
(* in every meaning is what the rules derive.                              *)

Fail == -1

\* The places behind the predata that begins at n: there is one.
Behind(t, n) ==
  {q \in n .. Len(t) : (\A i \in n + 1 .. q : t[i] = Blank) /\ (q < Len(t) => t[q + 1] # Blank)}

\* How far a literal goes from n on, when the predata there ends at q.
LiteralTo(lit, t, n, q) ==
  IF q = Len(t) \/ ~IsPrefix(lit, SubSeq(t, q + 1, Len(t))) THEN Fail
  ELSE IF lit = <<>> THEN n ELSE q + Len(lit)

\* m.factor: the factor f goes from n to k, where k may be Fail; x is what it evaluates.
FactorRules(m, g, t, f, n) ==
  LET At == 0 .. Len(t)
      To == At \cup {Fail}
      x == g.exprs[IF f.type = "FACT_RULE_LINKED" THEN g.prods[f.target].exprs ELSE f.target]
  IN  /\ f.type = "FACT_LITERAL" =>
           \A q \in Behind(t, n) : <<f, n, LiteralTo(f.lit, t, n, q)>> \in m.factor
      /\ f.type = "FACT_RULE_BUILTIN" => <<f, n, Fail>> \in m.factor
      /\ f.type = "FACT_RULE_LINKED" /\ g.prods[f.target].exprs # NULL =>
           \A k \in To : <<x, n, k>> \in m.alternatives => <<f, n, k>> \in m.factor
      /\ f.type = "FACT_EXPR_OPT" =>
           \A k \in To : <<x, n, k>> \in m.alternatives => <<f, n, IF k = Fail THEN n ELSE k>> \in m.factor
      /\ f.type = "FACT_EXPR_NGTE" =>
           \A k \in At : <<x, n, k>> \in m.repetition => <<f, n, k>> \in m.factor
      /\ f.type = "FACT_EXPR_NGT" =>
           /\ <<x, n, Fail>> \in m.alternatives => <<f, n, Fail>> \in m.factor
           /\ \A j \in At : <<x, n, j>> \in m.alternatives =>
                \A k \in At : <<x, j, k>> \in m.repetition => <<f, n, k>> \in m.factor

\* m.sequence: the factors s, one after the other.
SequenceRules(m, t, s, n) ==
  LET At == 0 .. Len(t)
      To == At \cup {Fail}
  IN  IF s = <<>> THEN <<s, n, n>> \in m.sequence
      ELSE /\ <<Head(s), n, Fail>> \in m.factor => <<s, n, Fail>> \in m.sequence
           /\ \A j \in At : <<Head(s), n, j>> \in m.factor =>
                \A k \in To : <<Tail(s), j, k>> \in m.sequence => <<s, n, k>> \in m.sequence

\* m.alternatives: the first of the sequences or that does not fail.
AlternativesRules(m, t, or, n) ==
  LET At == 0 .. Len(t)
      To == At \cup {Fail}
  IN  IF or = <<>> THEN <<or, n, Fail>> \in m.alternatives
      ELSE /\ \A k \in At : <<Head(or), n, k>> \in m.sequence => <<or, n, k>> \in m.alternatives
           /\ <<Head(or), n, Fail>> \in m.sequence =>
                \A k \in To : <<Tail(or), n, k>> \in m.alternatives => <<or, n, k>> \in m.alternatives

\* m.repetition: the expression x, which is repeated, as often as it does not fail.
RepetitionRules(m, t, x, n) ==
  LET At == 0 .. Len(t)
  IN  /\ <<x, n, Fail>> \in m.alternatives => <<x, n, n>> \in m.repetition
      /\ \A j \in At : <<x, n, j>> \in m.alternatives =>
           \A k \in At : <<x, j, k>> \in m.repetition => <<x, n, k>> \in m.repetition

IsMeaning(m, g, t) ==
  \A n \in 0 .. Len(t) :
    /\ \A f \in FactorsOf(g) :
         /\ FactorRules(m, g, t, f, n)
         /\ f.type \in Repetitions => RepetitionRules(m, t, g.exprs[f.target], n)
    /\ \A x \in DOMAIN g.exprs :
         /\ \A a \in DOMAIN g.exprs[x] : \A s \in Suffixes(g.exprs[x][a]) : SequenceRules(m, t, s, n)
         /\ \A or \in Suffixes(g.exprs[x]) : AlternativesRules(m, t, or, n)

\* What a stream may turn out to be.
Streams == Texts \cup {t \o ext : t \in Texts, ext \in Extensions}

ASSUME MeaningAssumption == \A g \in Grammars, t \in Streams : IsMeaning(Meaning(g, t), g, t)

-----------------------------------------------------------------------------
(* Properties *)

\* Types: a frame is within its expression, and there are frames exactly during
\* the evaluation.
TypeOK ==
  /\ pos \in 0 .. Len(text)
  /\ pc \in {"apply", "factor", "returned", "alternative", "done", "crashed"}
  /\ (stack # <<>>) => pc \notin {"apply", "done"}
  /\ pc \in {"factor", "returned", "alternative"} => stack # <<>>
  /\ \A i \in DOMAIN stack :
       /\ IsSuffix(stack[i].or, bnf.exprs[stack[i].exprs]) /\ stack[i].or # <<>>
       /\ IsSuffix(stack[i].facts, Head(stack[i].or)) /\ stack[i].facts # <<>>
       /\ stack[i].start \in 0 .. pos
  /\ ret \in {1, 0, ERR_MISC, ERRBNF_MISSINGID, ERRBNF_SYNTAX, VCSM_INCOMPLETE_TOKEN}

\* An error of a comparison goes through all the options, repetitions and
\* alternatives around it: nothing is matched after it, and the caller gets it.
ErrorsFinal == [][ret < 0 => ret' = ret /\ pos' = pos]_vars

\* The expression of the first production of the name the caller asked for.
Asked == bnf.exprs[bnf.prods[SelectInSeq(bnf.prods, LAMBDA p : p.name = id)].exprs]

\* Unless a sequence failed behind what it had consumed (rdfl_bnf_run.c:102, the one
\* thing the code does not take back), the result is what the grammar means: it
\* matches, up to there, or it does not.  When the data read so far is not the whole
\* stream, that is so whatever follows: no answer is given on a part of a token.
Recognizes ==
  (pc = "done" /\ ~spoilt /\ ret >= 0) =>
    /\ \A ext \in IF whole THEN {<<>>} ELSE Extensions :
         <<Asked, 0, IF ret = 1 THEN pos ELSE Fail>> \in Meaning(bnf, text \o ext).alternatives
    /\ ret = 1 \/ (ret = 0 /\ pos = 0)

\* The evaluation of a well-formed grammar returns, on any stream: no repetition
\* goes round on nothing (rdfl_bnf_run.c:33), no rule calls itself for ever, and no
\* rule without an expression is followed (:116).
Ends == (pc = "apply" /\ WellFormed(bnf)) ~> (pc = "done")

=============================================================================
