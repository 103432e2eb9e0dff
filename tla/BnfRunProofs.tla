---------------------------- MODULE BnfRunProofs ----------------------------
(***************************************************************************)
(* For every grammar and stream: what rdfl_applyBNF does with an error,    *)
(* that it stays within its expressions and within the data, and that what *)
(* it returns is what the grammar means.                                   *)
(***************************************************************************)
EXTENDS BnfRun, SequenceLemmas

\* A factor is evaluated, and the evaluation begins, only without an error.
NoErrorPending == pc \in {"apply", "factor"} => ret = 0 \/ ret = 1

Results == {1, 0, ERR_MISC, ERRBNF_MISSINGID, ERRBNF_SYNTAX, VCSM_INCOMPLETE_TOKEN}

\* The inductive invariant.
IInv == ret \in Results /\ NoErrorPending

LEMMA ResultIs ==
  /\ Results \subseteq Int
  /\ \A r \in Results : r < 0 \/ r = 0 \/ r = 1
  BY DEF Results, ERR_MISC, ERRBNF_MISSINGID, ERRBNF_SYNTAX, VCSM_INCOMPLETE_TOKEN

\* A comparison succeeds, fails, or gives one of two errors (rdfl_bacc_cmp_needdata).
LEMMA LiteralResults == \A lit : Literal(lit) \in Results
  BY DEF Literal, Results

\* _eval_orexpr called: no result is changed, and none was an error.
LEMMA CallKeeps ==
  ASSUME NEW call, NEW x, EvalOrexpr(call, x)
  PROVE  pc' \in {"crashed", "factor"}
  BY DEF EvalOrexpr

LEMMA InitIInv == Init => IInv
  BY DEF Init, IInv, NoErrorPending, Results

\* Every step: an error that was returned stays what it is, and nothing is
\* consumed after it.
LEMMA StepIInv ==
  ASSUME IInv, [Next]_vars
  PROVE  IInv' /\ (ret < 0 => ret' = ret /\ pos' = pos)
<1>r. ret \in Int /\ (ret < 0 \/ ret = 0 \/ ret = 1)
  BY ResultIs DEF IInv
<1>1. CASE ApplyBNF
  <2>1. ret \in {0, 1} /\ pos' = pos
    BY <1>1 DEF ApplyBNF, IInv, NoErrorPending
  <2>2. CASE ret' = ret
    BY <1>1, <2>1, <2>2 DEF IInv, NoErrorPending, Results
  <2>3. CASE ret' \in {ERR_MISC, ERRBNF_MISSINGID} /\ pc' = "done"
    BY <2>1, <2>3 DEF IInv, NoErrorPending, Results
  <2> QED BY <1>1, <2>2, <2>3 DEF ApplyBNF
<1>2. CASE EvalCall
  BY <1>2, <1>r DEF EvalCall, IInv, NoErrorPending
<1>3. CASE EvalLiteral
  <2>1. ret \in {0, 1} /\ pc' = "returned" /\ ret' \in Results
    BY <1>3, LiteralResults DEF EvalLiteral, IInv, NoErrorPending
  <2> QED BY <2>1 DEF IInv, NoErrorPending
<1>4. CASE EvalBuiltin
  <2>1. ret \in {0, 1} /\ pc' = "returned" /\ ret' = 0
    BY <1>4 DEF EvalBuiltin, IInv, NoErrorPending
  <2> QED BY <2>1 DEF IInv, NoErrorPending, Results
<1>5. CASE NextFactor
  <2>1. ret = 1 /\ ret' = ret /\ pos' = pos
    BY <1>5, <1>r DEF NextFactor, SequenceGoesOn
  <2> QED BY <2>1 DEF IInv, NoErrorPending
<1>6. CASE EndSequence
  BY <1>6 DEF EndSequence, IInv, NoErrorPending
<1>7. CASE NextAlternative
  <2>1. ret = 0 /\ ret' = ret /\ pos' = pos
    BY <1>7 DEF NextAlternative
  <2> QED BY <2>1 DEF IInv, NoErrorPending
<1>8. CASE Repeat
  <2>1. ret = 1 /\ ret' = ret /\ pos' = pos
    BY <1>8, <1>r DEF Repeat
  <2> QED BY <2>1 DEF IInv, NoErrorPending
<1>9. CASE Leave
  <2>1. pos' = pos /\ pc' \in {"done", "returned"} /\ ret' = Answer(Top.call, ret)
    BY <1>9 DEF Leave
  <2>2. ret' \in {1, ret} /\ (ret < 0 => ret' = ret)
    BY <1>r, <2>1 DEF Answer
  <2> QED BY <2>1, <2>2 DEF IInv, NoErrorPending, Results
<1>10. CASE Finished \/ UNCHANGED vars
  BY <1>10 DEF Finished, vars, IInv, NoErrorPending
<1> QED BY <1>1, <1>2, <1>3, <1>4, <1>5, <1>6, <1>7, <1>8, <1>9, <1>10 DEF Next

\* The error of a comparison goes through every option, repetition and alternative
\* around it (_eval_expr_opt, _eval_expr_ngte, _eval_orexpr) up to the caller of
\* rdfl_applyBNF, which gets it unchanged, and nothing is consumed on the way.
THEOREM ErrorsGoUp == Spec => ErrorsFinal
<1>1. ASSUME IInv, [Next]_vars PROVE IInv' /\ [ret < 0 => ret' = ret /\ pos' = pos]_vars
  BY <1>1, StepIInv
<1> QED BY <1>1, InitIInv, PTL DEF Spec, ErrorsFinal

-----------------------------------------------------------------------------
(* The stream *)

LEMMA TextIsSeq ==
  ASSUME text \in Texts
  PROVE  text \in Seq(Range(text)) /\ Len(text) \in Nat
<1>1. text \in Seq(Range(text))
  BY BnfRunAssumption DEF IsSequence
<1> QED BY <1>1, LenProperties

\* Where the comparison begins, no predata is left: what is skipped is Blank, what
\* follows is not.
LEMMA SkippedIs ==
  ASSUME text \in Texts, NEW n \in 0 .. Len(text)
  PROVE  /\ Skip(n) \in n .. Len(text)
         /\ \A i \in n + 1 .. Skip(n) : text[i] = Blank
         /\ Skip(n) < Len(text) => text[Skip(n) + 1] # Blank
<1>l. Len(text) \in Nat
  BY TextIsSeq
<1>0. PICK l \in Nat : l = Len(text)
  BY <1>l
<1> DEFINE T == { q \in n .. l : Symbol(q) # Blank }
<1>1. l \in T
  <2>1. Symbol(l) = End
    BY <1>0 DEF Symbol
  <2>2. Symbol(l) # Blank
    BY <2>1, Zenon DEF End, Blank
  <2>3. l \in n .. l
    BY <1>0
  <2> QED BY <2>2, <2>3
<1>2. T \subseteq Nat
  <2>1. T \subseteq n .. l /\ n .. l \subseteq Nat
    BY <1>0
  <2> QED BY <2>1
<1> HIDE DEF T
<1>3. PICK q \in T : \A k \in T : q <= k
  BY <1>1, <1>2, LeastNatural
<1>4. q \in n .. l /\ Symbol(q) # Blank
  BY <1>3 DEF T
<1>5. ASSUME NEW i \in n .. q - 1 PROVE Symbol(i) = Blank
  <2>1. i \in n .. l /\ ~(q <= i)
    BY <1>0, <1>4
  <2> QED BY <1>3, <2>1 DEF T
<1>6. \E p \in n .. Len(text) : /\ Symbol(p) # Blank
                                /\ \A i \in n .. p - 1 : Symbol(i) = Blank
  BY <1>0, <1>4, <1>5
<1>7. /\ Skip(n) \in n .. Len(text) /\ Symbol(Skip(n)) # Blank
      /\ \A i \in n .. Skip(n) - 1 : Symbol(i) = Blank
  <2> HIDE DEF Symbol
  <2> QED BY <1>6, Zenon DEF Skip
<1> HIDE DEF Skip
<1>8. PICK p \in n .. l : p = Skip(n)
  BY <1>0, <1>7
<1>9. \A i \in n .. p - 1 : i < l /\ Symbol(i) = text[i + 1]
  BY <1>0, <1>8 DEF Symbol
<1>10. ASSUME NEW i \in n + 1 .. p PROVE text[i] = Blank
  <2>1. i - 1 \in n .. p - 1 /\ (i - 1) + 1 = i
    BY <1>0, <1>8
  <2> QED BY <1>7, <1>8, <1>9, <2>1
<1>11. p < l => text[p + 1] # Blank
  BY <1>0, <1>7, <1>8 DEF Symbol
<1> QED BY <1>0, <1>7, <1>8, <1>10, <1>11

\* A literal that matches lies within the data.
LEMMA LiteralFits ==
  ASSUME text \in Texts, pos \in 0 .. Len(text), NEW lit, IsSequence(lit), Literal(lit) = 1, lit # <<>>
  PROVE  Skip(pos) + Len(lit) \in pos .. Len(text)
<1>l. text \in Seq(Range(text)) /\ Len(text) \in Nat
  BY TextIsSeq
<1>n. Len(lit) \in Nat
  BY LenProperties DEF IsSequence
<1>1. PICK l \in Nat : l = Len(text)
  BY <1>l
<1>2. Matches(lit)
  BY DEF Literal, ERRBNF_SYNTAX, VCSM_INCOMPLETE_TOKEN
<1>3. Skip(pos) \in pos .. Len(text)
  BY SkippedIs
<1> HIDE DEF Skip
<1> DEFINE r == SubSeq(text, Skip(pos) + 1, Len(text))
<1>4. Len(lit) <= Len(r)
  BY <1>2 DEF Matches, IsPrefix
<1>5. Len(r) = l - Skip(pos)
  BY <1>l, <1>1, <1>3
<1> HIDE DEF r
<1> QED BY <1>n, <1>1, <1>3, <1>4, <1>5

-----------------------------------------------------------------------------
(* The grammar and the stack *)

Facts == FactorsOf(bnf)
Alternatives == Seq(Facts) \ {<<>>}
FrameSet == [call : Couples \cup {"FACT_RULE_LINKED"}, exprs : DOMAIN bnf.exprs,
             or : Seq(Alternatives), facts : Seq(Facts), start : Nat]

\* A frame is within its expression.
Within(f) ==
  /\ IsSuffix(f.or, bnf.exprs[f.exprs]) /\ f.or # <<>>
  /\ IsSuffix(f.facts, Head(f.or)) /\ f.facts # <<>>
  /\ f.start <= pos

AllWithin == \A i \in DOMAIN stack : Within(stack[i])

Running == {"factor", "returned", "alternative"}

\* The inductive form of TypeOK.
Typed ==
  /\ bnf \in Grammars /\ text \in Texts /\ pos \in 0 .. Len(text)
  /\ pc \in Running \cup {"apply", "done", "crashed"}
  /\ stack \in Seq(FrameSet) /\ AllWithin
  /\ stack # <<>> => pc \notin {"apply", "done"}
  /\ pc \in Running => stack # <<>>

LEMMA GrammarIs ==
  ASSUME bnf \in Grammars
  PROVE  /\ \A x \in DOMAIN bnf.exprs : bnf.exprs[x] \in Seq(Alternatives) \ {<<>>}
         /\ bnf.prods \in Seq(Range(bnf.prods))
         /\ \A i \in DOMAIN bnf.prods : bnf.prods[i].exprs \in DOMAIN bnf.exprs \cup {NULL}
         /\ \A f \in Facts :
              /\ f.type = "FACT_RULE_LINKED" => f.target \in DOMAIN bnf.prods
              /\ f.type \in Couples => f.target \in DOMAIN bnf.exprs
              /\ f.type = "FACT_LITERAL" => IsSequence(f.lit)
<1>1. IsGrammar(bnf)
  BY BnfRunAssumption
<1>2. bnf.exprs \in Seq(Seq(Alternatives) \ {<<>>})
  BY <1>1 DEF IsGrammar, Alternatives, Facts
<1>3. \A x \in DOMAIN bnf.exprs : bnf.exprs[x] \in Seq(Alternatives) \ {<<>>}
  BY <1>2, ElementOfSeq, LenProperties
<1> QED BY <1>1, <1>3 DEF IsGrammar, IsSequence, Facts

\* The innermost call.
LEMMA TopIs ==
  ASSUME Typed, pc \in Running
  PROVE  /\ Top \in FrameSet /\ Within(Top) /\ Front(stack) \in Seq(FrameSet)
         /\ stack = Append(Front(stack), Top)
         /\ \A i \in DOMAIN Front(stack) : Within(Front(stack)[i])
         /\ \A f \in FrameSet : SetTop(f) = Append(Front(stack), f)
<1>1. stack \in Seq(FrameSet) /\ stack # <<>>
  BY DEF Typed
<1> DEFINE u == Front(stack)
<1>2. Top \in FrameSet /\ u \in Seq(FrameSet) /\ stack = Append(u, Top)
  BY <1>1, FrontAndLast DEF Top
<1>3. \A f \in FrameSet : SetTop(f) = Append(u, f)
  BY <1>1, ReplaceLast DEF SetTop
<1> HIDE DEF u, Top
<1>l. Len(u) \in Nat
  BY <1>2, LenProperties
<1>m. PICK m \in Nat : m = Len(u)
  BY <1>l
<1>4. /\ DOMAIN stack = 1 .. m + 1 /\ stack[m + 1] = Top
      /\ DOMAIN u = 1 .. m /\ \A i \in 1 .. m : stack[i] = u[i]
  BY <1>2, <1>m, AppendProperties, LenProperties
<1>5. Within(Top) /\ \A i \in DOMAIN u : Within(u[i])
  BY <1>4 DEF Typed, AllWithin
<1> QED BY <1>2, <1>3, <1>5 DEF u

\* A frame on top of frames.
LEMMA FramesWithin ==
  ASSUME NEW S, NEW s \in Seq(S), NEW f \in S, NEW W, f \in W, \A i \in DOMAIN s : s[i] \in W
  PROVE  \A i \in DOMAIN Append(s, f) : Append(s, f)[i] \in W
<1>l. Len(s) \in Nat
  BY LenProperties
<1>m. PICK m \in Nat : m = Len(s)
  BY <1>l
<1>1. /\ DOMAIN Append(s, f) = 1 .. m + 1 /\ Append(s, f)[m + 1] = f
      /\ DOMAIN s = 1 .. m /\ \A i \in 1 .. m : Append(s, f)[i] = s[i]
  BY <1>m, AppendProperties, LenProperties
<1> QED BY <1>1

LEMMA WithinKept ==
  ASSUME bnf' = bnf, pos \in Nat, pos' \in Nat, pos <= pos', NEW f \in FrameSet, Within(f)
  PROVE  Within(f)'
<1>1. f.start \in Nat /\ f.start <= pos
  BY DEF FrameSet, Within
<1>2. f.start <= pos'
  BY <1>1
<1> QED BY <1>2 DEF Within

\* A call begins with the first factor of the first alternative.
LEMMA FrameIs ==
  ASSUME Typed, NEW x \in DOMAIN bnf.exprs, NEW call \in Couples \cup {"FACT_RULE_LINKED"}
  PROVE  Frame(call, x) \in FrameSet /\ Within(Frame(call, x))
<1> DEFINE s == bnf.exprs[x]
           h == Head(s)
<1>1. s \in Seq(Alternatives) /\ s # <<>>
  BY GrammarIs DEF Typed
<1>2. h \in Alternatives /\ IsSuffix(s, s)
  BY <1>1, HeadTailProperties, SuffixSelf
<1>3. h \in Seq(Facts) /\ h # <<>> /\ IsSuffix(h, h)
  BY <1>2, SuffixSelf DEF Alternatives
<1>4. pos \in Nat
  <2>1. Len(text) \in Nat /\ pos \in 0 .. Len(text)
    BY TextIsSeq DEF Typed
  <2> QED BY <2>1
<1>5. Frame(call, x) = [call |-> call, exprs |-> x, or |-> s, facts |-> h, start |-> pos]
  BY DEF Frame
<1> HIDE DEF h
<1>6. Frame(call, x).or = s /\ Frame(call, x).facts = h /\ Frame(call, x).start = pos /\ Frame(call, x).exprs = x
  BY <1>5
<1>7. Frame(call, x) \in FrameSet
  BY <1>1, <1>3, <1>4, <1>5 DEF FrameSet
<1>8. Within(Frame(call, x))
  BY <1>1, <1>2, <1>3, <1>4, <1>6 DEF Within, h
<1> QED BY <1>7, <1>8

\* What a step leaves on the stack.
LEMMA StackStep ==
  ASSUME Typed, bnf' = bnf, text' = text, pos' \in pos .. Len(text),
         NEW s \in Seq(FrameSet), \A i \in DOMAIN s : Within(s[i]),
         \/ stack' = s
         \/ \E f \in FrameSet : Within(f)' /\ stack' = Append(s, f),
         pc' \in Running \cup {"apply", "done", "crashed"},
         stack' # <<>> => pc' \notin {"apply", "done"},
         pc' \in Running => stack' # <<>>
  PROVE  Typed'
<1>l. Len(text) \in Nat /\ pos \in 0 .. Len(text)
  BY TextIsSeq DEF Typed
<1>1. pos \in Nat /\ pos' \in Nat /\ pos <= pos' /\ pos' \in 0 .. Len(text)
  BY <1>l
<1>2. \A i \in DOMAIN s : Within(s[i])'
  <2> TAKE i \in DOMAIN s
  <2>1. s[i] \in FrameSet /\ Within(s[i])
    BY ElementOfSeq, LenProperties
  <2> QED BY <1>1, <2>1, WithinKept
<1>3. FrameSet' = FrameSet
  BY DEF FrameSet, Alternatives, Facts
<1>4. stack' \in Seq(FrameSet) /\ AllWithin'
  <2>1. CASE stack' = s
    <3>1. AllWithin'
      BY <1>2, <2>1 DEF AllWithin, Within
    <3> QED BY <2>1, <3>1
  <2>2. CASE \E f \in FrameSet : Within(f)' /\ stack' = Append(s, f)
    <3>1. PICK f \in FrameSet : Within(f)' /\ stack' = Append(s, f)
      BY <2>2
    <3> DEFINE W == { g \in FrameSet : Within(g)' }
    <3>2. f \in W /\ \A i \in DOMAIN s : s[i] \in W
      BY <1>2, <3>1, ElementOfSeq, LenProperties
    <3>3. \A g \in W : Within(g)'
      OBVIOUS
    <3> HIDE DEF W
    <3>4. \A i \in DOMAIN Append(s, f) : Append(s, f)[i] \in W
      BY <3>2, FramesWithin
    <3>5. Append(s, f) \in Seq(FrameSet)
      BY AppendProperties
    <3>6. AllWithin'
      BY <3>1, <3>3, <3>4 DEF AllWithin, Within
    <3> QED BY <3>1, <3>5, <3>6
  <2> QED BY <2>1, <2>2
<1> QED BY <1>1, <1>3, <1>4 DEF Typed

\* _eval_orexpr is called: its frame is pushed, or the evaluation ends badly.
LEMMA CallTyped ==
  ASSUME Typed, pc \in Running \cup {"apply"}, UNCHANGED <<bnf, text, pos>>,
         NEW call \in Couples \cup {"FACT_RULE_LINKED"}, NEW x \in DOMAIN bnf.exprs \cup {NULL},
         EvalOrexpr(call, x)
  PROVE  Typed'
<1>1. stack \in Seq(FrameSet) /\ \A i \in DOMAIN stack : Within(stack[i])
  BY DEF Typed, AllWithin
<1>2. pos' \in pos .. Len(text) /\ pos \in Nat /\ pos' = pos
  <2>1. Len(text) \in Nat /\ pos \in 0 .. Len(text)
    BY TextIsSeq DEF Typed
  <2> QED BY <2>1
<1>3. CASE pc' = "crashed" /\ stack' = stack
  BY <1>1, <1>2, <1>3, StackStep DEF Running
<1>4. CASE pc' = "factor" /\ stack' = Append(stack, Frame(call, x)) /\ x # NULL
  <2>1. x \in DOMAIN bnf.exprs
    BY <1>4
  <2>2. Frame(call, x) \in FrameSet /\ Within(Frame(call, x))
    BY <2>1, FrameIs
  <2> DEFINE f == Frame(call, x)
  <2>3. f \in FrameSet /\ stack' = Append(stack, f) /\ Within(f)
    BY <1>4, <2>2
  <2> HIDE DEF f
  <2>4. (\E g \in FrameSet : Within(g)' /\ stack' = Append(stack, g)) /\ stack' # <<>>
    BY <1>1, <1>2, <2>3, WithinKept, LastOfAppend
  <2> QED BY <1>1, <1>2, <1>4, <2>4, StackStep DEF Running
<1> QED BY <1>3, <1>4 DEF EvalOrexpr

\* The innermost frame is replaced.
LEMMA SetTopTyped ==
  ASSUME Typed, pc \in Running, UNCHANGED <<bnf, text, pos>>, NEW f \in FrameSet, Within(f),
         stack' = SetTop(f), pc' = "factor"
  PROVE  Typed'
<1>1. /\ Front(stack) \in Seq(FrameSet) /\ \A i \in DOMAIN Front(stack) : Within(Front(stack)[i])
      /\ stack' = Append(Front(stack), f)
  BY TopIs
<1>2. pos' \in pos .. Len(text) /\ pos \in Nat /\ pos' = pos
  <2>1. Len(text) \in Nat /\ pos \in 0 .. Len(text)
    BY TextIsSeq DEF Typed
  <2> QED BY <2>1
<1> DEFINE u == Front(stack)
<1>3. u \in Seq(FrameSet) /\ (\A i \in DOMAIN u : Within(u[i])) /\ stack' = Append(u, f)
  BY <1>1
<1> HIDE DEF u
<1>4. (\E g \in FrameSet : Within(g)' /\ stack' = Append(u, g)) /\ stack' # <<>>
  BY <1>2, <1>3, WithinKept, LastOfAppend
<1> QED BY <1>2, <1>3, <1>4, StackStep DEF Running

\* The production the caller names is one of the grammar.
LEMMA RuleIs ==
  ASSUME bnf \in Grammars
  PROVE  LET rule == SelectInSeq(bnf.prods, LAMBDA p : p.name = id) IN
         rule # 0 => rule \in DOMAIN bnf.prods
<1> DEFINE T == { i \in 1 .. Len(bnf.prods) : bnf.prods[i].name = id }
           rule == SelectInSeq(bnf.prods, LAMBDA p : p.name = id)
<1>g. bnf.prods \in Seq(Range(bnf.prods))
  BY GrammarIs
<1>l. Len(bnf.prods) \in Nat /\ DOMAIN bnf.prods = 1 .. Len(bnf.prods)
  BY <1>g, LenProperties
<1>1. rule = IF T # {} THEN Min(T) ELSE 0
  BY DEF SelectInSeq
<1>2. T \subseteq Nat /\ T \subseteq DOMAIN bnf.prods
  BY <1>l
<1> HIDE DEF T, rule
<1>3. T # {} => Min(T) \in T
  <2>1. T # {} => \E m \in T : \A k \in T : m <= k
    BY <1>2, LeastNatural
  <2> QED BY <2>1, Zenon DEF Min
<1>4. rule # 0 => rule \in DOMAIN bnf.prods
  BY <1>1, <1>2, <1>3
<1> QED BY <1>4 DEF rule

LEMMA ApplyBNFTyped ==
  ASSUME Typed, ApplyBNF PROVE Typed'
<1> DEFINE rule == SelectInSeq(bnf.prods, LAMBDA p : p.name = id)
<1>1. rule # 0 => rule \in DOMAIN bnf.prods
  BY RuleIs DEF Typed
<1>2. /\ pc = "apply" /\ UNCHANGED <<bnf, text, pos>>
      /\ IF rule # 0 THEN EvalOrexpr("FACT_RULE_LINKED", bnf.prods[rule].exprs)
         ELSE pc' = "done" /\ UNCHANGED stack
  BY DEF ApplyBNF
<1> HIDE DEF rule
<1>3. CASE rule # 0
  <2>1. bnf.prods[rule].exprs \in DOMAIN bnf.exprs \cup {NULL}
    BY <1>1, <1>3, GrammarIs DEF Typed
  <2> QED BY <1>2, <1>3, <2>1, CallTyped
<1>4. CASE rule = 0
  <2>1. stack = <<>>
    BY <1>2 DEF Typed
  <2> QED BY <1>2, <1>4, <2>1 DEF Typed, FrameSet, Alternatives, Facts, AllWithin, Running
<1> QED BY <1>3, <1>4

\* What the innermost frame evaluates next, and its rest.
LEMMA TopFactor ==
  ASSUME Typed, pc \in Running
  PROVE  Fact \in Facts /\ Top.exprs \in DOMAIN bnf.exprs
<1>1. Top.facts \in Seq(Facts) /\ Top.facts # <<>> /\ Top.exprs \in DOMAIN bnf.exprs
  BY TopIs DEF FrameSet, Within
<1> QED BY <1>1, HeadTailProperties DEF Fact

LEMMA EvalCallTyped ==
  ASSUME Typed, EvalCall PROVE Typed'
<1>1. /\ pc \in Running /\ UNCHANGED <<bnf, text, pos>>
      /\ \/ Fact.type = "FACT_RULE_LINKED" /\ EvalOrexpr(Fact.type, bnf.prods[Fact.target].exprs)
         \/ Fact.type \in Couples /\ EvalOrexpr(Fact.type, Fact.target)
  BY DEF EvalCall, Running
<1>2. Fact \in Facts
  BY <1>1, TopFactor
<1> HIDE DEF Fact
<1>3. CASE Fact.type = "FACT_RULE_LINKED" /\ EvalOrexpr(Fact.type, bnf.prods[Fact.target].exprs)
  <2>1. bnf.prods[Fact.target].exprs \in DOMAIN bnf.exprs \cup {NULL}
    BY <1>2, <1>3, GrammarIs DEF Typed
  <2> QED BY <1>1, <1>3, <2>1, CallTyped
<1>4. CASE Fact.type \in Couples /\ EvalOrexpr(Fact.type, Fact.target)
  <2>1. Fact.target \in DOMAIN bnf.exprs \cup {NULL}
    BY <1>2, <1>4, GrammarIs DEF Typed
  <2> QED BY <1>1, <1>4, <2>1, CallTyped
<1> QED BY <1>1, <1>3, <1>4

\* The stack stays, more of the stream may be consumed.
LEMMA StackStays ==
  ASSUME Typed, pc \in Running, bnf' = bnf, text' = text, stack' = stack,
         pos' \in pos .. Len(text), pc' \in Running
  PROVE  Typed'
<1>1. stack \in Seq(FrameSet) /\ (\A i \in DOMAIN stack : Within(stack[i])) /\ stack # <<>>
  BY DEF Typed, AllWithin
<1>2. pc' \notin {"apply", "done"}
  BY DEF Running
<1> QED BY <1>1, <1>2, StackStep

LEMMA EvalLiteralTyped ==
  ASSUME Typed, EvalLiteral PROVE Typed'
<1>1. /\ pc \in Running /\ pc' \in Running /\ bnf' = bnf /\ text' = text /\ stack' = stack
      /\ Fact.type = "FACT_LITERAL" /\ ret' = Literal(Fact.lit)
      /\ pos' = IF ret' = 1 /\ Fact.lit # <<>> THEN Skip(pos) + Len(Fact.lit) ELSE pos
  BY DEF EvalLiteral, Running
<1>2. Fact \in Facts
  BY <1>1, TopFactor
<1> HIDE DEF Fact
<1>3. IsSequence(Fact.lit) /\ text \in Texts /\ pos \in 0 .. Len(text)
  BY <1>1, <1>2, GrammarIs DEF Typed
<1>4. pos \in pos .. Len(text)
  <2>1. Len(text) \in Nat
    BY <1>3, TextIsSeq
  <2> QED BY <1>3, <2>1
<1>5. pos' \in pos .. Len(text)
  BY <1>1, <1>3, <1>4, LiteralFits
<1> QED BY <1>1, <1>5, StackStays

LEMMA StayingTyped ==
  ASSUME Typed, EvalBuiltin \/ EndSequence PROVE Typed'
<1>1. pc \in Running /\ pc' \in Running /\ UNCHANGED <<bnf, text, pos, stack>>
  BY DEF EvalBuiltin, EndSequence, Running
<1>2. pos' \in pos .. Len(text)
  <2>1. Len(text) \in Nat /\ pos \in 0 .. Len(text)
    BY TextIsSeq DEF Typed
  <2> QED BY <1>1, <2>1
<1> QED BY <1>1, <1>2, StackStays

LEMMA NextFactorTyped ==
  ASSUME Typed, NextFactor PROVE Typed'
<1>1. /\ pc \in Running /\ pc' = "factor" /\ UNCHANGED <<bnf, text, pos>> /\ Len(Top.facts) > 1
      /\ stack' = SetTop([Top EXCEPT !.facts = Tail(Top.facts)])
  BY DEF NextFactor, SequenceGoesOn, Running
<1>2. Top \in FrameSet /\ Within(Top)
  BY <1>1, TopIs
<1> HIDE DEF Top
<1> DEFINE s == Top.facts
           f == [Top EXCEPT !.facts = Tail(s)]
<1>3. s \in Seq(Facts) /\ s # <<>> /\ IsSuffix(s, Head(Top.or)) /\ Top.or # <<>>
      /\ Top.or \in Seq(Alternatives)
  BY <1>2 DEF FrameSet, Within
<1>4. Tail(s) \in Seq(Facts) /\ Len(Tail(s)) = Len(s) - 1
  BY <1>3, HeadTailProperties
<1>5. Tail(s) # <<>>
  BY <1>1, <1>3, TailOfLonger
<1>6. Head(Top.or) \in Seq(Facts)
  BY <1>3, HeadTailProperties DEF Alternatives
<1>7. IsSuffix(Tail(s), Head(Top.or))
  BY <1>3, <1>6, SuffixTail
<1>8. /\ f \in FrameSet /\ f.facts = Tail(s) /\ f.or = Top.or /\ f.exprs = Top.exprs /\ f.start = Top.start
  <2> DEFINE t == Tail(s)
  <2>1. t \in Seq(Facts)
    BY <1>4
  <2> HIDE DEF t
  <2>2. LET g == [Top EXCEPT !.facts = t] IN
        g \in FrameSet /\ g.facts = t /\ g.or = Top.or /\ g.exprs = Top.exprs /\ g.start = Top.start
    BY <1>2, <2>1 DEF FrameSet
  <2> QED BY <2>2 DEF t
<1>9. stack' = SetTop(f)
  BY <1>1
<1> HIDE DEF f
<1>10. Within(f)
  BY <1>2, <1>5, <1>7, <1>8 DEF Within
<1> QED BY <1>1, <1>8, <1>9, <1>10, SetTopTyped

LEMMA NextAlternativeTyped ==
  ASSUME Typed, NextAlternative PROVE Typed'
<1>1. /\ pc \in Running /\ pc' = "factor" /\ UNCHANGED <<bnf, text, pos>> /\ Len(Top.or) > 1
      /\ stack' = SetTop([Top EXCEPT !.or = Tail(Top.or), !.facts = Head(Tail(Top.or)), !.start = pos])
  BY DEF NextAlternative, Running
<1>2. Top \in FrameSet /\ Within(Top)
  BY <1>1, TopIs
<1>p. pos \in Nat
  <2>1. Len(text) \in Nat /\ pos \in 0 .. Len(text)
    BY TextIsSeq DEF Typed
  <2> QED BY <2>1
<1> HIDE DEF Top
<1> DEFINE s == Top.or
           t == Tail(s)
           h == Head(t)
           f == [Top EXCEPT !.or = t, !.facts = h, !.start = pos]
<1>3. s \in Seq(Alternatives) /\ s # <<>> /\ IsSuffix(s, bnf.exprs[Top.exprs])
      /\ Top.exprs \in DOMAIN bnf.exprs
  BY <1>2 DEF FrameSet, Within
<1>4. t \in Seq(Alternatives) /\ Len(t) = Len(s) - 1
  BY <1>3, HeadTailProperties
<1>5. t # <<>>
  BY <1>1, <1>3, TailOfLonger
<1>6. bnf.exprs[Top.exprs] \in Seq(Alternatives)
  BY <1>3, GrammarIs DEF Typed
<1>7. IsSuffix(t, bnf.exprs[Top.exprs])
  BY <1>3, <1>6, SuffixTail
<1> HIDE DEF t
<1>8. h \in Seq(Facts) /\ h # <<>> /\ IsSuffix(h, h)
  <2>1. h \in Alternatives
    BY <1>4, <1>5, HeadTailProperties
  <2> QED BY <2>1, SuffixSelf DEF Alternatives
<1>9. /\ f \in FrameSet /\ f.facts = h /\ f.or = t /\ f.exprs = Top.exprs /\ f.start = pos
  <2> HIDE DEF h
  <2> QED BY <1>2, <1>p, <1>4, <1>8 DEF FrameSet
<1>10. stack' = SetTop(f)
  BY <1>1 DEF t
<1> HIDE DEF f
<1>11. Within(f)
  BY <1>p, <1>5, <1>7, <1>8, <1>9 DEF Within
<1> QED BY <1>1, <1>9, <1>10, <1>11, SetTopTyped

LEMMA RepeatTyped ==
  ASSUME Typed, Repeat PROVE Typed'
<1>1. /\ pc \in Running /\ pc' = "factor" /\ UNCHANGED <<bnf, text, pos>>
      /\ stack' = SetTop(Frame("FACT_EXPR_NGTE", Top.exprs))
  BY DEF Repeat, Running
<1>2. Top.exprs \in DOMAIN bnf.exprs /\ "FACT_EXPR_NGTE" \in Couples
  BY <1>1, TopFactor DEF Couples
<1> DEFINE f == Frame("FACT_EXPR_NGTE", Top.exprs)
<1>3. f \in FrameSet /\ Within(f)
  BY <1>2, FrameIs
<1> HIDE DEF f
<1> QED BY <1>1, <1>3, SetTopTyped DEF f

LEMMA LeaveTyped ==
  ASSUME Typed, Leave PROVE Typed'
<1>1. /\ pc \in Running /\ UNCHANGED <<bnf, text, pos>> /\ stack' = Front(stack)
      /\ pc' = IF Len(stack) = 1 THEN "done" ELSE "returned"
  BY DEF Leave, Running
<1>2. /\ Front(stack) \in Seq(FrameSet) /\ stack = Append(Front(stack), Top)
      /\ \A i \in DOMAIN Front(stack) : Within(Front(stack)[i])
  BY <1>1, TopIs
<1> DEFINE u == Front(stack)
<1>3. /\ u \in Seq(FrameSet) /\ stack = Append(u, Top) /\ stack' = u
      /\ \A i \in DOMAIN u : Within(u[i])
  BY <1>1, <1>2
<1> HIDE DEF u, Top
<1>4. Len(stack) = 1 <=> u = <<>>
  <2>1. Top \in FrameSet
    BY <1>1, TopIs
  <2>2. Len(stack) = Len(u) + 1
    BY <1>3, <2>1, AppendProperties
  <2>3. Len(u) \in Nat /\ (u = <<>> <=> Len(u) = 0)
    BY <1>3, EmptySeq, LenProperties
  <2> QED BY <2>2, <2>3
<1>5. pos' \in pos .. Len(text)
  <2>1. Len(text) \in Nat /\ pos \in 0 .. Len(text)
    BY TextIsSeq DEF Typed
  <2> QED BY <1>1, <2>1
<1> QED BY <1>1, <1>3, <1>4, <1>5, StackStep DEF Running

LEMMA StepTyped ==
  ASSUME Typed, [Next]_vars PROVE Typed'
<1>1. CASE Finished \/ UNCHANGED vars
  BY <1>1 DEF Finished, vars, Typed, FrameSet, Alternatives, Facts, AllWithin, Within
<1> QED BY <1>1, ApplyBNFTyped, EvalCallTyped, EvalLiteralTyped, StayingTyped, NextFactorTyped,
           NextAlternativeTyped, RepeatTyped, LeaveTyped DEF Next

LEMMA InitTyped == Init => Typed
<1>1. SUFFICES ASSUME Init PROVE Typed
  OBVIOUS
<1>2. text \in Texts /\ bnf \in Grammars /\ pos = 0 /\ stack = <<>> /\ pc = "apply"
  BY <1>1 DEF Init
<1>3. 0 \in 0 .. Len(text)
  BY <1>2, TextIsSeq
<1>4. stack \in Seq(FrameSet) /\ AllWithin
  BY <1>2 DEF AllWithin
<1> QED BY <1>2, <1>3, <1>4 DEF Typed, Running

\* Every call of _eval_orexpr stays within the alternatives of its expression and
\* within the factors of its alternative, for every linked grammar, and nothing is
\* consumed behind the end of the data.
THEOREM Typing == Spec => []TypeOK
<1>1. Init => Typed
  BY InitTyped
<1>2. Typed /\ [Next]_vars => Typed'
  BY StepTyped
<1>3. Typed /\ IInv => TypeOK
  <2>1. SUFFICES ASSUME Typed, IInv PROVE TypeOK
    OBVIOUS
  <2>2. ASSUME NEW i \in DOMAIN stack
        PROVE  /\ IsSuffix(stack[i].or, bnf.exprs[stack[i].exprs]) /\ stack[i].or # <<>>
               /\ IsSuffix(stack[i].facts, Head(stack[i].or)) /\ stack[i].facts # <<>>
               /\ stack[i].start \in 0 .. pos
    <3>1. stack[i] \in FrameSet /\ Within(stack[i])
      BY <2>1, ElementOfSeq, LenProperties DEF Typed, AllWithin
    <3>2. pos \in Nat
      <4>1. Len(text) \in Nat /\ pos \in 0 .. Len(text)
        BY <2>1, TextIsSeq DEF Typed
      <4> QED BY <4>1
    <3>3. stack[i].start \in Nat
      BY <3>1 DEF FrameSet
    <3> QED BY <3>1, <3>2, <3>3 DEF Within
  <2> QED BY <2>1, <2>2 DEF Typed, IInv, Results, Running, TypeOK
<1>4. IInv /\ [Next]_vars => IInv'
  BY StepIInv
<1> QED BY <1>1, <1>2, <1>3, <1>4, InitIInv, PTL DEF Spec

-----------------------------------------------------------------------------
(* What a literal means *)

\* A stream that goes on is the same up to there.
LEMMA StreamIs ==
  ASSUME text \in Texts, NEW ext, IsSequence(ext), NEW t, t = text \o ext
  PROVE  /\ Len(text) \in Nat /\ Len(ext) \in Nat /\ Len(t) = Len(text) + Len(ext)
         /\ \A i \in 1 .. Len(text) : t[i] = text[i]
         /\ t \in Seq(Range(text) \cup Range(ext)) /\ text \in Seq(Range(text) \cup Range(ext))
<1> DEFINE S == Range(text) \cup Range(ext)
<1>1. text \in Seq(Range(text)) /\ ext \in Seq(Range(ext))
  BY TextIsSeq DEF IsSequence
<1>2. text \in Seq(S) /\ ext \in Seq(S)
  BY <1>1
<1> HIDE DEF S
<1>3. /\ Len(text \o ext) = Len(text) + Len(ext) /\ text \o ext \in Seq(S)
      /\ \A i \in 1 .. Len(text) : (text \o ext)[i] = text[i]
  BY <1>2, ConcatProperties, LenProperties
<1>4. Len(text) \in Nat /\ Len(ext) \in Nat
  BY <1>2, LenProperties
<1> QED BY <1>2, <1>3, <1>4 DEF S

\* A prefix, element by element.
LEMMA PrefixIs ==
  ASSUME NEW S, NEW t \in Seq(S), NEW q \in 0 .. Len(t), NEW lit, IsSequence(lit)
  PROVE  /\ IsPrefix(lit, SubSeq(t, q + 1, Len(t))) <=>
              Len(lit) <= Len(t) - q /\ \A i \in 1 .. Len(lit) : lit[i] = t[q + i]
         /\ IsPrefix(SubSeq(t, q + 1, Len(t)), lit) <=>
              Len(t) - q <= Len(lit) /\ \A i \in 1 .. Len(t) - q : lit[i] = t[q + i]
<1>1. Len(t) \in Nat /\ Len(lit) \in Nat /\ lit \in Seq(Range(lit))
  BY LenProperties DEF IsSequence
<1>2. PICK n \in Nat : n = Len(t)
  BY <1>1
<1>3. PICK l \in Nat : l = Len(lit)
  BY <1>1
<1>q. q \in 0 .. n
  BY <1>2
<1> DEFINE r == SubSeq(t, q + 1, n)
<1>4. PICK d \in Nat : d = n - q
  BY <1>q
<1>5. r = [i \in 1 .. d |-> t[q + i]]
  <2>1. r = [i \in 1 .. (n - (q + 1) + 1) |-> t[(q + 1) + i - 1]]
    BY <1>2, <1>q
  <2>2. n - (q + 1) + 1 = d /\ \A i \in 1 .. d : (q + 1) + i - 1 = q + i
    BY <1>q, <1>4
  <2> QED BY <2>1, <2>2
<1>6. Len(r) = d /\ \A i \in 1 .. d : r[i] = t[q + i]
  BY <1>5, SMTT(30)
<1> HIDE DEF r
<1>7. r \in Seq(S)
  <2>1. \A i \in 1 .. d : q + i \in 1 .. n
    BY <1>q, <1>4
  <2>2. \A i \in 1 .. d : t[q + i] \in S
    BY <1>2, <2>1, ElementOfSeq
  <2> QED BY <1>5, <2>2
<1>8. IsPrefix(lit, r) <=> l <= d /\ SubSeq(lit, 1, l) = SubSeq(r, 1, l)
  BY <1>3, <1>6 DEF IsPrefix
<1>9. ASSUME l <= d PROVE SubSeq(lit, 1, l) = SubSeq(r, 1, l) <=> \A i \in 1 .. l : lit[i] = r[i]
  <2>1. SubSeq(lit, 1, l) = [i \in 1 .. l |-> lit[i]] /\ SubSeq(r, 1, l) = [i \in 1 .. l |-> r[i]]
    BY <1>1, <1>3, <1>6, <1>7, <1>9
  <2> QED BY <2>1
<1>10. IsPrefix(r, lit) <=> d <= l /\ SubSeq(r, 1, d) = SubSeq(lit, 1, d)
  BY <1>3, <1>6 DEF IsPrefix
<1>11. ASSUME d <= l PROVE SubSeq(r, 1, d) = SubSeq(lit, 1, d) <=> \A i \in 1 .. d : lit[i] = r[i]
  <2>1. SubSeq(lit, 1, d) = [i \in 1 .. d |-> lit[i]] /\ SubSeq(r, 1, d) = [i \in 1 .. d |-> r[i]]
    BY <1>1, <1>3, <1>6, <1>7, <1>11
  <2> QED BY <2>1
<1>12. IsPrefix(lit, r) <=> l <= n - q /\ \A i \in 1 .. l : lit[i] = t[q + i]
  BY <1>4, <1>6, <1>8, <1>9
<1>13. IsPrefix(r, lit) <=> n - q <= l /\ \A i \in 1 .. n - q : lit[i] = t[q + i]
  BY <1>4, <1>6, <1>10, <1>11
<1> QED BY <1>2, <1>3, <1>12, <1>13 DEF r

\* What may follow the data that was read.
Following == IF whole THEN {<<>>} ELSE Extensions

LEMMA FollowingIs == \A ext \in Following : IsSequence(ext)
<1>1. <<>> \in Seq(Range(<<>>))
  OBVIOUS
<1> QED BY <1>1, BnfRunAssumption DEF Following, IsSequence

\* A comparison that gives no error says of every stream the data may turn out to
\* begin what the literal means there.
LEMMA LiteralMeans ==
  ASSUME text \in Texts, pos \in 0 .. Len(text), NEW lit, IsSequence(lit), Literal(lit) \in {0, 1},
         NEW ext \in Following, NEW t, t = text \o ext
  PROVE  /\ Skip(pos) \in Behind(t, pos)
         /\ LiteralTo(lit, t, pos, Skip(pos)) =
              IF Literal(lit) = 1 THEN IF lit = <<>> THEN pos ELSE Skip(pos) + Len(lit) ELSE Fail
<1>e. IsSequence(ext)
  BY FollowingIs
<1>s. /\ Len(text) \in Nat /\ Len(ext) \in Nat /\ Len(t) = Len(text) + Len(ext)
      /\ \A i \in 1 .. Len(text) : t[i] = text[i]
      /\ t \in Seq(Range(text) \cup Range(ext)) /\ text \in Seq(Range(text) \cup Range(ext))
  BY <1>e, StreamIs
<1> DEFINE S == Range(text) \cup Range(ext)
<1>t. t \in Seq(S) /\ text \in Seq(S)
  BY <1>s
<1> HIDE DEF S
<1> DEFINE p == Skip(pos)
<1>1. /\ p \in pos .. Len(text)
      /\ \A i \in pos + 1 .. p : text[i] = Blank
      /\ p < Len(text) => text[p + 1] # Blank
  BY SkippedIs
<1>2. PICK n \in Nat : n = Len(text)
  BY <1>s
<1>3. PICK d \in Nat : d = Len(ext)
  BY <1>s
<1>4. PICK l \in Nat : l = Len(lit)
  BY LenProperties DEF IsSequence
<1>p. p \in 0 .. Len(text)
  BY <1>1, <1>2
<1> HIDE DEF p
<1>x. /\ IsPrefix(lit, SubSeq(text, p + 1, Len(text))) <=>
           Len(lit) <= Len(text) - p /\ \A i \in 1 .. Len(lit) : lit[i] = text[p + i]
      /\ IsPrefix(SubSeq(text, p + 1, Len(text)), lit) <=>
           Len(text) - p <= Len(lit) /\ \A i \in 1 .. Len(text) - p : lit[i] = text[p + i]
  BY <1>t, <1>p, PrefixIs, SMTT(30)
<1>5. Matches(lit) <=> p < n /\ l <= n - p /\ \A i \in 1 .. l : lit[i] = text[p + i]
  <2>1. Matches(lit) <=> p < Len(text) /\ IsPrefix(lit, SubSeq(text, p + 1, Len(text)))
    BY Zenon DEF Matches, p
  <2> QED BY <1>x, <1>2, <1>4, <2>1, Zenon
<1>6. CutShort(lit) <=> n - p <= l /\ \A i \in 1 .. n - p : lit[i] = text[p + i]
  <2>1. CutShort(lit) <=> IsPrefix(SubSeq(text, p + 1, Len(text)), lit)
    BY Zenon DEF CutShort, p
  <2> QED BY <1>x, <1>2, <1>4, <2>1, Zenon
<1>7. /\ Literal(lit) = 1 <=> Matches(lit)
      /\ Literal(lit) = 0 => ~Matches(lit) /\ (whole \/ ~CutShort(lit))
  <2>1. Symbol(p) # OpenComment
    BY DEF Literal, ERRBNF_SYNTAX, VCSM_INCOMPLETE_TOKEN, p
  <2>2. Literal(lit) = IF Matches(lit) THEN 1 ELSE IF CutShort(lit) /\ ~whole THEN VCSM_INCOMPLETE_TOKEN ELSE 0
    BY <2>1 DEF Literal, p
  <2> QED BY <2>2 DEF VCSM_INCOMPLETE_TOKEN
<1>8. p \in Nat /\ p <= n
  BY <1>1, <1>2
<1>9. whole => d = 0
  BY <1>3 DEF Following
<1>10. p = n => d = 0
  <2>1. p = n => ~Matches(lit) /\ CutShort(lit)
    BY <1>4, <1>5, <1>6, <1>8
  <2> QED BY <1>7, <1>9, <2>1
<1>11. IsPrefix(lit, SubSeq(t, p + 1, Len(t))) <=>
          l <= (n + d) - p /\ \A i \in 1 .. l : lit[i] = t[p + i]
  <2>1. p \in 0 .. Len(t) /\ Len(t) = n + d
    BY <1>s, <1>2, <1>3, <1>8
  <2>2. t \in Seq(S) /\ p \in 0 .. Len(t)
    BY <1>t, <2>1
  <2>5. /\ IsPrefix(lit, SubSeq(t, p + 1, Len(t))) <=>
             Len(lit) <= Len(t) - p /\ \A i \in 1 .. Len(lit) : lit[i] = t[p + i]
        /\ IsPrefix(SubSeq(t, p + 1, Len(t)), lit) <=>
             Len(t) - p <= Len(lit) /\ \A i \in 1 .. Len(t) - p : lit[i] = t[p + i]
    <3>1. \A u \in Seq(S) : \A q \in 0 .. Len(u) :
           /\ IsPrefix(lit, SubSeq(u, q + 1, Len(u))) <=>
                Len(lit) <= Len(u) - q /\ \A i \in 1 .. Len(lit) : lit[i] = u[q + i]
           /\ IsPrefix(SubSeq(u, q + 1, Len(u)), lit) <=>
                Len(u) - q <= Len(lit) /\ \A i \in 1 .. Len(u) - q : lit[i] = u[q + i]
      <4> TAKE u \in Seq(S)
      <4> TAKE q \in 0 .. Len(u)
      <4> QED BY PrefixIs, SMTT(30)
    <3> QED BY <2>2, <3>1, Zenon
  <2>3. Len(t) - p = (n + d) - p
    BY <2>1, Zenon
  <2>4. IsPrefix(lit, SubSeq(t, p + 1, Len(t))) <=>
          l <= Len(t) - p /\ \A i \in 1 .. l : lit[i] = t[p + i]
    BY <1>4, <2>5, Zenon
  <2> QED BY <2>3, <2>4, Zenon
<1>12. \A i \in 1 .. n - p : t[p + i] = text[p + i]
  <2>1. \A i \in 1 .. n - p : p + i \in 1 .. n
    BY <1>8
  <2> QED BY <1>s, <1>2, <2>1
<1> DEFINE fits == l <= (n + d) - p /\ \A i \in 1 .. l : lit[i] = t[p + i]
<1>13. Literal(lit) = 1 <=> p # n + d /\ fits
  <2>1. CASE Matches(lit)
    <3>1. p < n /\ l <= n - p /\ \A i \in 1 .. l : lit[i] = text[p + i]
      BY <1>5, <2>1
    <3>2. \A i \in 1 .. l : i \in 1 .. n - p
      BY <3>1, <1>8
    <3>3. \A i \in 1 .. l : lit[i] = t[p + i]
      BY <1>12, <3>1, <3>2
    <3>4. p # n + d /\ l <= (n + d) - p
      BY <1>3, <1>8, <3>1
    <3> QED BY <1>7, <2>1, <3>3, <3>4
  <2>2. CASE ~Matches(lit) /\ whole
    <3>1. d = 0
      BY <1>9, <2>2
    <3>2. ASSUME p # n + d, fits PROVE FALSE
      <4>1. p < n /\ l <= n - p
        BY <1>8, <3>1, <3>2
      <4>2. \A i \in 1 .. l : i \in 1 .. n - p
        BY <1>8, <4>1
      <4>3. \A i \in 1 .. l : lit[i] = text[p + i]
        BY <1>12, <3>2, <4>2
      <4> QED BY <1>5, <2>2, <4>1, <4>3
    <3> QED BY <1>7, <2>2, <3>2
  <2>3. CASE ~Matches(lit) /\ ~whole
    <3>1. Literal(lit) = 0 /\ ~CutShort(lit)
      BY <1>7, <2>3
    <3>2. ASSUME fits PROVE FALSE
      <4>1. CASE l <= n - p
        <5>1. \A i \in 1 .. l : i \in 1 .. n - p
          BY <1>8, <4>1
        <5>2. \A i \in 1 .. l : lit[i] = text[p + i]
          BY <1>12, <3>2, <5>1
        <5>3. p # n
          BY <1>6, <1>8, <3>1
        <5> QED BY <1>5, <1>8, <2>3, <4>1, <5>2, <5>3
      <4>2. CASE n - p <= l
        <5>1. \A i \in 1 .. n - p : i \in 1 .. l
          BY <1>8, <4>2
        <5>2. \A i \in 1 .. n - p : lit[i] = text[p + i]
          BY <1>12, <3>2, <5>1
        <5> QED BY <1>6, <3>1, <4>2, <5>2
      <4> QED BY <1>8, <4>1, <4>2
    <3> HIDE DEF fits
    <3> QED BY <3>1, <3>2
  <2> QED BY <2>1, <2>2, <2>3
<1>14. p \in Behind(t, pos)
  <2>1. PICK o \in Nat : o = pos /\ o <= p
    BY <1>1, <1>2
  <2>2. p \in pos .. Len(t)
    BY <1>s, <1>2, <1>3, <1>8, <2>1
  <2>3. \A i \in pos + 1 .. p : i \in 1 .. n
    BY <1>8, <2>1
  <2>4. \A i \in pos + 1 .. p : t[i] = Blank
    BY <1>s, <1>1, <1>2, <2>3
  <2>5. p < Len(t) => t[p + 1] # Blank
    <3>1. p < Len(t) => p < n
      BY <1>s, <1>2, <1>3, <1>8, <1>10
    <3>2. p < n => p + 1 \in 1 .. n
      BY <1>8
    <3> QED BY <1>s, <1>1, <1>2, <3>1, <3>2
  <2> QED BY <2>2, <2>4, <2>5 DEF Behind
<1>15. LiteralTo(lit, t, pos, p) = IF p # n + d /\ fits THEN IF lit = <<>> THEN pos ELSE p + Len(lit) ELSE Fail
  <2>1. Len(t) = n + d
    BY <1>s, <1>2, <1>3
  <2> QED BY <1>11, <2>1 DEF LiteralTo
<1> HIDE DEF fits
<1> QED BY <1>13, <1>14, <1>15 DEF p

-----------------------------------------------------------------------------
(* The calls of _eval_orexpr as a chain of promises *)

At(t) == 0 .. Len(t)
To(t) == At(t) \cup {Fail}

\* m is the meaning of the grammar g on the stream t.  What comes of the rest of the
\* frame f, read from h on, comes of its expression.
Reads(m, t, g, f, h) ==
  \A k \in To(t) :
    /\ <<f.facts, h, k>> \in m.sequence => <<Head(f.or), f.start, k>> \in m.sequence
    /\ <<f.or, f.start, k>> \in m.alternatives => <<g.exprs[f.exprs], f.start, k>> \in m.alternatives

\* What comes of the expression of the frame f comes of c from b on: by the factor
\* type it was called for, R says so.
Serves(m, t, g, f, R, c, b) ==
  LET x == g.exprs[f.exprs]
  IN  /\ f.call \in Repetitions => \A n \in At(t) : RepetitionRules(m, t, x, n)
      /\ f.call = "FACT_RULE_LINKED" =>
           f.start = b /\ \A k \in To(t) : <<x, f.start, k>> \in m.alternatives => <<c, b, k>> \in R
      /\ f.call = "FACT_EXPR_OPT" =>
           \A k \in To(t) : <<x, f.start, k>> \in m.alternatives
                            => <<c, b, IF k = Fail THEN f.start ELSE k>> \in R
      /\ f.call = "FACT_EXPR_NGTE" =>
           \A k \in At(t) : <<x, f.start, k>> \in m.repetition => <<c, b, k>> \in R
      /\ f.call = "FACT_EXPR_NGT" =>
           /\ f.start = b
           /\ <<x, f.start, Fail>> \in m.alternatives => <<c, b, Fail>> \in R
           /\ \A j \in At(t) : <<x, f.start, j>> \in m.alternatives =>
                \A k \in At(t) : <<x, j, k>> \in m.repetition => <<c, b, k>> \in R

\* The frame f serves the factor that the call below it evaluates, or the caller,
\* who asked for the expression e.
Link(m, t, g, e, u, f, o) ==
  IF u = <<>> THEN Serves(m, t, g, f, m.alternatives, e, o[1])
  ELSE Serves(m, t, g, f, m.factor, Head(Last(u).facts), o[Len(u) + 1])

\* o[i + 1] is where the factor that the call i evaluates began.
Linked(m, t, g, e, s, o, i) ==
  /\ Reads(m, t, g, s[i], o[i + 1])
  /\ IF i = 1 THEN Serves(m, t, g, s[i], m.alternatives, e, o[1])
     ELSE Serves(m, t, g, s[i], m.factor, Head(s[i - 1].facts), o[i])

Chain(m, t, g, e, s, o) ==
  /\ o \in [Nat -> At(t)] /\ o[1] = 0
  /\ \A i \in 1 .. Len(s) : Linked(m, t, g, e, s, o, i)

\* What the result r means when n symbols are consumed, by what comes next.
Now(m, e, s, o, p, r, n) ==
  LET k == IF r = 1 THEN n ELSE Fail
      f == Last(s)
  IN  /\ p = "apply" => n = 0
      /\ p = "factor" => n = o[Len(s) + 1]
      /\ p = "returned" => <<Head(f.facts), o[Len(s) + 1], k>> \in m.factor
      /\ p = "alternative" => <<Head(f.or), f.start, k>> \in m.sequence /\ (r = 0 => n = f.start)
      /\ p = "done" => <<e, 0, k>> \in m.alternatives /\ (r = 0 => n = 0)

\* The top of a chain.
LEMMA ChainTop ==
  ASSUME NEW m, NEW t, NEW g, NEW e, NEW S, NEW u \in Seq(S), NEW f \in S, NEW o,
         Chain(m, t, g, e, Append(u, f), o)
  PROVE  /\ Chain(m, t, g, e, u, o)
         /\ Reads(m, t, g, f, o[Len(u) + 2]) /\ Link(m, t, g, e, u, f, o)
         /\ o[Len(u) + 1] \in At(t) /\ o[Len(u) + 2] \in At(t)
<1>1. PICK l \in Nat : l = Len(u)
  BY LenProperties
<1> DEFINE s == Append(u, f)
<1>2. Len(s) = l + 1 /\ s[l + 1] = f /\ \A i \in 1 .. l : s[i] = u[i]
  BY <1>1, AppendProperties
<1>3. o \in [Nat -> At(t)] /\ o[1] = 0 /\ \A i \in 1 .. l + 1 : Linked(m, t, g, e, s, o, i)
  BY <1>2 DEF Chain
<1>4. ASSUME NEW i \in 1 .. l PROVE Linked(m, t, g, e, u, o, i)
  <2>1. i \in 1 .. l + 1 /\ (i # 1 => i - 1 \in 1 .. l)
    OBVIOUS
  <2>2. s[i] = u[i] /\ (i # 1 => s[i - 1] = u[i - 1])
    BY <1>2, <2>1
  <2> HIDE DEF s
  <2>3. Linked(m, t, g, e, s, o, i)
    BY <1>3, <2>1
  <2> QED BY <2>2, <2>3, Zenon DEF Linked
<1>5. Reads(m, t, g, f, o[l + 2]) /\ Link(m, t, g, e, u, f, o)
  <2>1. l + 1 \in 1 .. l + 1 /\ (l + 1) + 1 = l + 2 /\ (l + 1) - 1 = l /\ (l + 1 = 1 <=> l = 0)
    OBVIOUS
  <2>2. Linked(m, t, g, e, s, o, l + 1)
    BY <1>3, <2>1
  <2>3. u = <<>> <=> l = 0
    BY <1>1, EmptySeq
  <2>4. l # 0 => s[l] = Last(u)
    BY <1>1, <1>2 DEF Last
  <2> HIDE DEF s
  <2>5. Reads(m, t, g, s[l + 1], o[(l + 1) + 1])
    BY <2>2, Zenon DEF Linked
  <2>6. CASE l = 0
    <3>1. Serves(m, t, g, s[l + 1], m.alternatives, e, o[1])
      BY <2>1, <2>2, <2>6, Zenon DEF Linked
    <3> QED BY <1>2, <2>1, <2>3, <2>5, <2>6, <3>1 DEF Link
  <2>7. CASE l # 0
    <3>1. Serves(m, t, g, s[l + 1], m.factor, Head(s[(l + 1) - 1].facts), o[l + 1])
      BY <2>1, <2>2, <2>7, Zenon DEF Linked
    <3>2. Serves(m, t, g, f, m.factor, Head(Last(u).facts), o[Len(u) + 1])
      BY <1>1, <1>2, <2>1, <2>4, <2>7, <3>1
    <3> QED BY <1>2, <2>1, <2>3, <2>5, <2>7, <3>2, Zenon DEF Link
  <2> QED BY <2>6, <2>7
<1>6. o[l + 1] \in At(t) /\ o[l + 2] \in At(t)
  <2>1. l + 1 \in Nat /\ l + 2 \in Nat
    OBVIOUS
  <2> QED BY <1>3, <2>1
<1>7. Chain(m, t, g, e, u, o)
  BY <1>1, <1>3, <1>4, Zenon DEF Chain
<1> QED BY <1>1, <1>5, <1>6, <1>7

\* A frame on top of a chain, whose factor begins at h.
LEMMA ChainPush ==
  ASSUME NEW m, NEW t, NEW g, NEW e, NEW S, NEW u \in Seq(S), NEW f \in S, NEW o,
         Chain(m, t, g, e, u, o), NEW h \in At(t), Reads(m, t, g, f, h), Link(m, t, g, e, u, f, o)
  PROVE  LET q == [o EXCEPT ![Len(u) + 2] = h] IN
         /\ Chain(m, t, g, e, Append(u, f), q) /\ q[Len(u) + 1] = o[Len(u) + 1]
         /\ q[Len(Append(u, f)) + 1] = h
<1>1. PICK l \in Nat : l = Len(u)
  BY LenProperties
<1> DEFINE s == Append(u, f)
           q == [o EXCEPT ![l + 2] = h]
<1>2. Len(s) = l + 1 /\ s[l + 1] = f /\ \A i \in 1 .. l : s[i] = u[i]
  BY <1>1, AppendProperties
<1>3. o \in [Nat -> At(t)] /\ o[1] = 0 /\ \A i \in 1 .. l : Linked(m, t, g, e, u, o, i)
  BY <1>1 DEF Chain
<1>4. q \in [Nat -> At(t)] /\ q[l + 2] = h /\ (\A i \in 1 .. l + 1 : q[i] = o[i]) /\ q[1] = 0
  <2> HIDE DEF At
  <2>1. l + 2 \in Nat
    OBVIOUS
  <2>2. q \in [Nat -> At(t)] /\ q[l + 2] = h /\ \A i \in 1 .. l + 1 : q[i] = o[i]
    BY <1>3, <2>1
  <2>3. 1 \in 1 .. l + 1
    OBVIOUS
  <2> HIDE DEF q
  <2> QED BY <1>3, <2>2, <2>3
<1> HIDE DEF s, q
<1>5. ASSUME NEW i \in 1 .. l PROVE Linked(m, t, g, e, s, q, i)
  <2>1. i \in 1 .. l + 1 /\ i + 1 \in 1 .. l + 1 /\ 1 \in 1 .. l + 1 /\ (i # 1 => i - 1 \in 1 .. l)
    OBVIOUS
  <2>2. s[i] = u[i] /\ (i # 1 => s[i - 1] = u[i - 1])
    BY <1>2, <2>1
  <2>3. q[i] = o[i] /\ q[i + 1] = o[i + 1] /\ q[1] = o[1]
    BY <1>4, <2>1
  <2>4. Linked(m, t, g, e, u, o, i)
    BY <1>3
  <2> QED BY <2>2, <2>3, <2>4, Zenon DEF Linked
<1>6. Linked(m, t, g, e, s, q, l + 1)
  <2>1. (l + 1) + 1 = l + 2 /\ (l + 1) - 1 = l /\ (l + 1 = 1 <=> l = 0) /\ l + 1 \in 1 .. l + 1
    OBVIOUS
  <2>3. u = <<>> <=> l = 0
    BY <1>1, EmptySeq
  <2>4. l # 0 => s[l] = Last(u)
    BY <1>1, <1>2 DEF Last
  <2>5. Reads(m, t, g, s[l + 1], q[(l + 1) + 1])
    BY <1>2, <1>4, <2>1
  <2>6. l = 0 => Serves(m, t, g, s[l + 1], m.alternatives, e, q[1])
    <3>1. l = 0 => Serves(m, t, g, f, m.alternatives, e, o[1])
      BY <2>3, Zenon DEF Link
    <3> QED BY <1>2, <1>3, <1>4, <3>1
  <2>7. l # 0 => Serves(m, t, g, s[l + 1], m.factor, Head(s[(l + 1) - 1].facts), q[l + 1])
    <3>1. l # 0 => Serves(m, t, g, f, m.factor, Head(Last(u).facts), o[l + 1])
      BY <1>1, <2>3, Zenon DEF Link
    <3>2. q[l + 1] = o[l + 1]
      BY <1>4, <2>1
    <3> QED BY <1>2, <2>1, <2>4, <3>1, <3>2
  <2> QED BY <2>1, <2>5, <2>6, <2>7, Zenon DEF Linked
<1>7. \A i \in 1 .. l + 1 : i \in 1 .. l \/ i = l + 1
  OBVIOUS
<1>8. Chain(m, t, g, e, s, q)
  BY <1>2, <1>4, <1>5, <1>6, <1>7, Zenon DEF Chain
<1>9. q[l + 1] = o[l + 1] /\ q[Len(s) + 1] = h
  <2>1. l + 1 \in 1 .. l + 1 /\ (l + 1) + 1 = l + 2
    OBVIOUS
  <2> QED BY <1>2, <1>4, <2>1
<1> QED BY <1>1, <1>8, <1>9 DEF s, q

\* A suffix is one of the suffixes.
LEMMA SuffixIn ==
  ASSUME NEW S, NEW s \in Seq(S), NEW t \in Seq(S), IsSuffix(s, t)
  PROVE  s \in Suffixes(t)
<1>1. PICK m \in Nat : m = Len(s)
  BY LenProperties
<1>2. PICK n \in Nat : n = Len(t)
  BY LenProperties
<1>3. m <= n /\ \A i \in 1 .. m : s[m - i + 1] = t[n - i + 1]
  BY <1>1, <1>2, SuffixIs
<1>4. CASE m = 0
  <2>1. s = <<>>
    BY <1>1, <1>4, EmptySeq
  <2> QED BY <2>1 DEF Suffixes
<1>5. CASE m # 0
  <2> DEFINE l == n - m + 1
  <2>1. l \in 1 .. n /\ l \in Nat /\ n - l + 1 = m
    BY <1>3, <1>5
  <2>2. SubSeq(t, l, n) = [i \in 1 .. m |-> t[l + i - 1]]
    BY <1>2, <2>1
  <2>3. ASSUME NEW i \in 1 .. m PROVE s[i] = t[l + i - 1]
    <3>1. m - i + 1 \in 1 .. m /\ m - (m - i + 1) + 1 = i /\ n - (m - i + 1) + 1 = l + i - 1
      BY <1>3
    <3> QED BY <1>3, <3>1
  <2> HIDE DEF l
  <2>4. s = [i \in 1 .. m |-> s[i]]
    BY <1>1
  <2>5. s = SubSeq(t, l, n)
    BY <2>2, <2>3, <2>4
  <2> QED BY <1>2, <2>1, <2>5 DEF Suffixes
<1> QED BY <1>4, <1>5

\* What a meaning says of the frames and of the factors.
LEMMA RulesOf ==
  ASSUME bnf \in Grammars, NEW m, NEW t, IsMeaning(m, bnf, t), NEW n \in At(t)
  PROVE  /\ \A f \in FrameSet : Within(f) =>
              /\ SequenceRules(m, t, f.facts, n) /\ SequenceRules(m, t, <<>>, n)
              /\ AlternativesRules(m, t, f.or, n) /\ AlternativesRules(m, t, <<>>, n)
         /\ \A fact \in Facts :
              /\ FactorRules(m, bnf, t, fact, n)
              /\ fact.type \in Repetitions => RepetitionRules(m, t, bnf.exprs[fact.target], n)
<1>1. /\ \A fact \in Facts :
           /\ FactorRules(m, bnf, t, fact, n)
           /\ fact.type \in Repetitions => RepetitionRules(m, t, bnf.exprs[fact.target], n)
      /\ \A x \in DOMAIN bnf.exprs :
           /\ \A a \in DOMAIN bnf.exprs[x] : \A s \in Suffixes(bnf.exprs[x][a]) : SequenceRules(m, t, s, n)
           /\ \A or \in Suffixes(bnf.exprs[x]) : AlternativesRules(m, t, or, n)
  BY Zenon DEF IsMeaning, At, Facts
<1>2. ASSUME NEW f \in FrameSet, Within(f)
      PROVE  /\ SequenceRules(m, t, f.facts, n) /\ SequenceRules(m, t, <<>>, n)
             /\ AlternativesRules(m, t, f.or, n) /\ AlternativesRules(m, t, <<>>, n)
  <2>1. f.exprs \in DOMAIN bnf.exprs /\ f.or \in Seq(Alternatives) /\ f.facts \in Seq(Facts)
    BY DEF FrameSet
  <2>2. IsSuffix(f.or, bnf.exprs[f.exprs]) /\ f.or # <<>> /\ IsSuffix(f.facts, Head(f.or))
    BY <1>2 DEF Within
  <2> DEFINE x == bnf.exprs[f.exprs]
             o == f.or
             s == f.facts
  <2>3. x \in Seq(Alternatives)
    BY <2>1, GrammarIs
  <2>4. o \in Seq(Alternatives) /\ o # <<>> /\ IsSuffix(o, x) /\ s \in Seq(Facts) /\ IsSuffix(s, Head(o))
    BY <2>1, <2>2
  <2>5. /\ \A a \in DOMAIN x : \A r \in Suffixes(x[a]) : SequenceRules(m, t, r, n)
        /\ \A r \in Suffixes(x) : AlternativesRules(m, t, r, n)
    BY <1>1, <2>1
  <2> HIDE DEF x, o, s
  <2>6. o \in Suffixes(x) /\ <<>> \in Suffixes(x)
    <3>1. o \in Suffixes(x)
      BY <2>3, <2>4, SuffixIn
    <3> QED BY <3>1 DEF Suffixes
  <2>7. PICK a \in DOMAIN x : Head(o) = x[a]
    <3>1. PICK k \in Nat : k = Len(o)
      BY <2>4, LenProperties
    <3>2. PICK l \in Nat : l = Len(x)
      BY <2>3, LenProperties
    <3>3. k <= l /\ \A i \in 1 .. k : o[k - i + 1] = x[l - i + 1]
      BY <2>3, <2>4, <3>1, <3>2, SuffixIs
    <3>4. k # 0
      BY <2>4, <3>1, EmptySeq
    <3>5. k \in 1 .. k /\ k - k + 1 = 1 /\ l - k + 1 \in 1 .. l
      BY <3>3, <3>4
    <3>6. o[1] = x[l - k + 1]
      BY <3>3, <3>5
    <3>7. Head(o) = o[1]
      BY <2>4, HeadTailProperties
    <3> QED BY <2>3, <3>2, <3>5, <3>6, <3>7, LenProperties
  <2>8. s \in Suffixes(x[a]) /\ <<>> \in Suffixes(x[a])
    <3>1. x[a] \in Seq(Facts)
      <4>1. x[a] \in Alternatives
        BY <2>3, ElementOfSeq, LenProperties
      <4> QED BY <4>1 DEF Alternatives
    <3>2. IsSuffix(s, x[a])
      BY <2>4, <2>7
    <3>3. s \in Suffixes(x[a])
      BY <2>4, <3>1, <3>2, SuffixIn
    <3> QED BY <3>3 DEF Suffixes
  <2>9. SequenceRules(m, t, s, n) /\ SequenceRules(m, t, <<>>, n)
    BY <2>5, <2>7, <2>8, Zenon
  <2>10. AlternativesRules(m, t, o, n) /\ AlternativesRules(m, t, <<>>, n)
    BY <2>5, <2>6, Zenon
  <2> QED BY <2>9, <2>10 DEF o, s
<1> QED BY <1>1, <1>2

\* What there is consumed, and where the frames begin, on a stream that goes on.
LEMMA PlacesAre ==
  ASSUME Typed, NEW ext \in Following, NEW t, t = text \o ext
  PROVE  /\ Len(t) \in Nat /\ t \in Streams
         /\ \A n \in 0 .. Len(text) : n \in At(t)
         /\ \A f \in FrameSet : Within(f) => f.start \in At(t) /\ f.start <= pos
<1>t. text \in Texts /\ pos \in 0 .. Len(text)
  BY DEF Typed
<1>e. IsSequence(ext)
  BY FollowingIs
<1>1. Len(text) \in Nat /\ Len(ext) \in Nat /\ Len(t) = Len(text) + Len(ext)
  BY <1>t, <1>e, StreamIs
<1>2. PICK n \in Nat, d \in Nat : n = Len(text) /\ d = Len(ext) /\ Len(t) = n + d
  BY <1>1
<1>3. t \in Streams
  <2>1. CASE whole
    <3>1. ext = <<>>
      BY <2>1 DEF Following
    <3>2. text \in Seq(Range(text))
      BY <1>t, TextIsSeq
    <3>3. text \o <<>> = text
      BY <3>2, ConcatProperties
    <3> QED BY <1>t, <3>1, <3>3 DEF Streams
  <2>2. CASE ~whole
    BY <1>t, <2>2 DEF Following, Streams
  <2> QED BY <2>1, <2>2
<1>4. \A k \in 0 .. Len(text) : k \in At(t)
  BY <1>2 DEF At
<1>5. ASSUME NEW f \in FrameSet, Within(f) PROVE f.start \in At(t) /\ f.start <= pos
  <2>1. f.start \in Nat /\ f.start <= pos
    BY <1>5 DEF FrameSet, Within
  <2>2. f.start \in 0 .. Len(text)
    BY <1>t, <1>2, <2>1
  <2> QED BY <1>4, <2>1, <2>2
<1> QED BY <1>2, <1>3, <1>4, <1>5

\* The innermost call of a chain.
LEMMA TopLink ==
  ASSUME Typed, pc \in Running, NEW m, NEW t, NEW e, NEW o, Chain(m, t, bnf, e, stack, o)
  PROVE  /\ Chain(m, t, bnf, e, Front(stack), o)
         /\ Reads(m, t, bnf, Top, o[Len(stack) + 1]) /\ Link(m, t, bnf, e, Front(stack), Top, o)
         /\ o[Len(stack)] \in At(t) /\ o[Len(stack) + 1] \in At(t)
         /\ Len(Front(stack)) \in Nat /\ Len(stack) = Len(Front(stack)) + 1
<1>1. Top \in FrameSet /\ Front(stack) \in Seq(FrameSet) /\ stack = Append(Front(stack), Top)
  BY TopIs
<1> DEFINE u == Front(stack)
           f == Top
<1>2. f \in FrameSet /\ u \in Seq(FrameSet) /\ stack = Append(u, f)
  BY <1>1
<1> HIDE DEF u, f
<1>3. Chain(m, t, bnf, e, Append(u, f), o)
  BY <1>2
<1>4. /\ Chain(m, t, bnf, e, u, o)
      /\ Reads(m, t, bnf, f, o[Len(u) + 2]) /\ Link(m, t, bnf, e, u, f, o)
      /\ o[Len(u) + 1] \in At(t) /\ o[Len(u) + 2] \in At(t)
  BY <1>2, <1>3, ChainTop
<1>5. PICK l \in Nat : l = Len(u)
  BY <1>2, LenProperties
<1>6. Len(stack) = l + 1
  BY <1>2, <1>5, AppendProperties
<1>7. (l + 1) + 1 = l + 2
  OBVIOUS
<1>8. Reads(m, t, bnf, f, o[Len(stack) + 1]) /\ o[Len(stack)] \in At(t) /\ o[Len(stack) + 1] \in At(t)
  BY <1>4, <1>5, <1>6, <1>7
<1> QED BY <1>4, <1>5, <1>6, <1>8 DEF u, f

\* It is replaced by one whose factor begins at h.
LEMMA TopReplaced ==
  ASSUME Typed, pc \in Running, NEW m, NEW t, NEW e, NEW o, Chain(m, t, bnf, e, stack, o),
         NEW f \in FrameSet, stack' = SetTop(f), NEW h \in At(t),
         Reads(m, t, bnf, f, h), Link(m, t, bnf, e, Front(stack), f, o)
  PROVE  \E q : Chain(m, t, bnf, e, stack', q) /\ q[Len(stack') + 1] = h
<1>1. Front(stack) \in Seq(FrameSet) /\ stack' = Append(Front(stack), f)
  BY TopIs
<1>2. Chain(m, t, bnf, e, Front(stack), o)
  BY TopLink
<1> DEFINE u == Front(stack)
           q == [o EXCEPT ![Len(u) + 2] = h]
<1>3. u \in Seq(FrameSet) /\ stack' = Append(u, f) /\ Chain(m, t, bnf, e, u, o)
      /\ Link(m, t, bnf, e, u, f, o)
  BY <1>1, <1>2
<1> HIDE DEF u
<1>4. Chain(m, t, bnf, e, Append(u, f), q) /\ q[Len(Append(u, f)) + 1] = h
  BY <1>3, ChainPush
<1> HIDE DEF q
<1> QED BY <1>3, <1>4

\* It serves as another one that was called for the same at the same place.
LEMMA SameLink ==
  ASSUME NEW m, NEW t, NEW g, NEW e, NEW u, NEW o, NEW f, NEW h,
         h.call = f.call, h.exprs = f.exprs, h.start = f.start
  PROVE  Link(m, t, g, e, u, f, o) => Link(m, t, g, e, u, h, o)
<1>1. ASSUME NEW R, NEW c, NEW b PROVE Serves(m, t, g, f, R, c, b) => Serves(m, t, g, h, R, c, b)
  BY Zenon DEF Serves
<1> QED BY <1>1, Zenon DEF Link

LEMMA NextFactorMeans ==
  ASSUME Typed, NextFactor, NEW ext \in Following, NEW t, t = text \o ext,
         NEW m, IsMeaning(m, bnf, t), NEW e, NEW o, Chain(m, t, bnf, e, stack, o),
         Now(m, e, stack, o, pc, ret, pos), ret \in {0, 1}
  PROVE  \E q : Chain(m, t, bnf, e, stack', q) /\ Now(m, e, stack', q, pc', ret', pos')
<1>1. /\ pc \in Running /\ pc = "returned" /\ pc' = "factor" /\ UNCHANGED <<bnf, text, pos>>
      /\ ret = 1
      /\ stack' = SetTop([Top EXCEPT !.facts = Tail(Top.facts)])
  BY DEF NextFactor, SequenceGoesOn, Running
<1>2. Top \in FrameSet /\ Within(Top)
  BY <1>1, TopIs
<1>3. Reads(m, t, bnf, Top, o[Len(stack) + 1]) /\ Link(m, t, bnf, e, Front(stack), Top, o)
      /\ o[Len(stack) + 1] \in At(t)
  BY <1>1, TopLink
<1>4. <<Head(Top.facts), o[Len(stack) + 1], pos>> \in m.factor
  BY <1>1 DEF Now, Top
<1>5. pos \in At(t)
  BY PlacesAre DEF Typed
<1> HIDE DEF Top
<1> DEFINE f == Top
           s == f.facts
           h == [f EXCEPT !.facts = Tail(s)]
           b == o[Len(stack) + 1]
<1>6. s \in Seq(Facts) /\ s # <<>> /\ Tail(s) \in Seq(Facts)
  <2>1. s \in Seq(Facts) /\ s # <<>>
    BY <1>2 DEF FrameSet, Within
  <2> QED BY <2>1, HeadTailProperties
<1>7. SequenceRules(m, t, s, b)
  BY <1>2, <1>3, RulesOf DEF Typed
<1>8. /\ h \in FrameSet /\ h.facts = Tail(s) /\ h.or = f.or /\ h.exprs = f.exprs /\ h.start = f.start
      /\ h.call = f.call
  <2> DEFINE v == Tail(s)
  <2>1. v \in Seq(Facts) /\ f \in FrameSet
    BY <1>2, <1>6
  <2> HIDE DEF v, f
  <2>2. LET g == [f EXCEPT !.facts = v] IN
        /\ g \in FrameSet /\ g.facts = v /\ g.or = f.or /\ g.exprs = f.exprs /\ g.start = f.start
        /\ g.call = f.call
    BY <2>1 DEF FrameSet
  <2> QED BY <2>2 DEF v
<1>9. stack' = SetTop(h)
  BY <1>1
<1>f. Reads(m, t, bnf, f, b) /\ Link(m, t, bnf, e, Front(stack), f, o) /\ <<Head(s), b, pos>> \in m.factor
  BY <1>3, <1>4
<1> HIDE DEF h, f, b
<1>10. \A k \in To(t) : <<Tail(s), pos, k>> \in m.sequence => <<s, b, k>> \in m.sequence
  BY <1>5, <1>6, <1>7, <1>f, Zenon DEF SequenceRules, At, To
<1>11. Reads(m, t, bnf, h, pos)
  BY <1>8, <1>10, <1>f, Zenon DEF Reads
<1>12. Link(m, t, bnf, e, Front(stack), h, o)
  BY <1>8, <1>f, SameLink
<1>13. PICK q : Chain(m, t, bnf, e, stack', q) /\ q[Len(stack') + 1] = pos
  <2>1. pc \in Running /\ h \in FrameSet
    BY <1>1, <1>8
  <2>2. PICK c \in FrameSet, d \in At(t) : c = h /\ d = pos
    BY <1>5, <2>1
  <2>3. stack' = SetTop(c) /\ Reads(m, t, bnf, c, d) /\ Link(m, t, bnf, e, Front(stack), c, o)
    BY <1>9, <1>11, <1>12, <2>2
  <2>4. \E q : Chain(m, t, bnf, e, stack', q) /\ q[Len(stack') + 1] = d
    BY <2>1, <2>3, TopReplaced
  <2> QED BY <2>2, <2>4
<1>14. Now(m, e, stack', q, pc', ret', pos')
  BY <1>1, <1>13 DEF Now
<1> QED BY <1>13, <1>14

LEMMA NextAlternativeMeans ==
  ASSUME Typed, NextAlternative, NEW ext \in Following, NEW t, t = text \o ext,
         NEW m, IsMeaning(m, bnf, t), NEW e, NEW o, Chain(m, t, bnf, e, stack, o),
         Now(m, e, stack, o, pc, ret, pos), ret \in {0, 1}
  PROVE  \E q : Chain(m, t, bnf, e, stack', q) /\ Now(m, e, stack', q, pc', ret', pos')
<1>1. /\ pc \in Running /\ pc = "alternative" /\ pc' = "factor" /\ UNCHANGED <<bnf, text, pos>>
      /\ ret = 0 /\ Len(Top.or) > 1
      /\ stack' = SetTop([Top EXCEPT !.or = Tail(Top.or), !.facts = Head(Tail(Top.or)), !.start = pos])
  BY DEF NextAlternative, Running
<1>2. Top \in FrameSet /\ Within(Top)
  BY <1>1, TopIs
<1>3. Reads(m, t, bnf, Top, o[Len(stack) + 1]) /\ Link(m, t, bnf, e, Front(stack), Top, o)
  BY <1>1, TopLink
<1>4. <<Head(Top.or), Top.start, Fail>> \in m.sequence /\ pos = Top.start
  BY <1>1 DEF Now, Top
<1>5. pos \in At(t)
  BY PlacesAre DEF Typed
<1> HIDE DEF Top
<1> DEFINE f == Top
           s == f.or
           v == Tail(s)
           w == Head(v)
           h == [f EXCEPT !.or = v, !.facts = w, !.start = pos]
<1>6. s \in Seq(Alternatives) /\ s # <<>> /\ v \in Seq(Alternatives) /\ v # <<>>
  <2>1. s \in Seq(Alternatives) /\ s # <<>>
    BY <1>2 DEF FrameSet, Within
  <2> QED BY <1>1, <2>1, HeadTailProperties, TailOfLonger
<1>7. AlternativesRules(m, t, s, pos)
  BY <1>2, <1>5, RulesOf DEF Typed
<1>w. w \in Seq(Facts)
  <2> HIDE DEF v
  <2>1. w \in Alternatives
    BY <1>6, HeadTailProperties
  <2> QED BY <2>1 DEF Alternatives
<1>p. pos \in Nat
  <2>1. Len(text) \in Nat /\ pos \in 0 .. Len(text)
    BY TextIsSeq DEF Typed
  <2> QED BY <2>1
<1>9. stack' = SetTop(h)
  BY <1>1
<1>f. /\ Reads(m, t, bnf, f, o[Len(stack) + 1]) /\ Link(m, t, bnf, e, Front(stack), f, o)
      /\ <<Head(s), pos, Fail>> \in m.sequence /\ f.start = pos /\ f \in FrameSet
  BY <1>2, <1>3, <1>4
<1> HIDE DEF f
<1>8. /\ h \in FrameSet /\ h.facts = w /\ h.or = v /\ h.exprs = f.exprs /\ h.start = pos
      /\ h.call = f.call
  <2> HIDE DEF v, w
  <2> QED BY <1>6, <1>w, <1>p, <1>f DEF FrameSet
<1> HIDE DEF h
<1>10. \A k \in To(t) : <<v, pos, k>> \in m.alternatives => <<s, pos, k>> \in m.alternatives
  BY <1>6, <1>7, <1>f, Zenon DEF AlternativesRules, At, To
<1> HIDE DEF v
<1>11. Reads(m, t, bnf, h, pos)
  BY <1>8, <1>10, <1>f, Zenon DEF Reads
<1>12. Link(m, t, bnf, e, Front(stack), h, o)
  BY <1>8, <1>f, SameLink
<1>13. PICK q : Chain(m, t, bnf, e, stack', q) /\ q[Len(stack') + 1] = pos
  <2>1. pc \in Running /\ h \in FrameSet
    BY <1>1, <1>8
  <2>2. PICK c \in FrameSet, d \in At(t) : c = h /\ d = pos
    BY <1>5, <2>1
  <2>3. stack' = SetTop(c) /\ Reads(m, t, bnf, c, d) /\ Link(m, t, bnf, e, Front(stack), c, o)
    BY <1>9, <1>11, <1>12, <2>2
  <2>4. \E q : Chain(m, t, bnf, e, stack', q) /\ q[Len(stack') + 1] = d
    BY <2>1, <2>3, TopReplaced
  <2> QED BY <2>2, <2>4
<1>14. Now(m, e, stack', q, pc', ret', pos')
  BY <1>1, <1>13 DEF Now
<1> QED BY <1>13, <1>14

\* A call on top of the chain.
LEMMA Called ==
  ASSUME stack \in Seq(FrameSet), NEW m, NEW t, NEW e, NEW o, Chain(m, t, bnf, e, stack, o),
         NEW f \in FrameSet, stack' = Append(stack, f), NEW h \in At(t),
         Reads(m, t, bnf, f, h), Link(m, t, bnf, e, stack, f, o)
  PROVE  \E q : Chain(m, t, bnf, e, stack', q) /\ q[Len(stack') + 1] = h
<1> DEFINE q == [o EXCEPT ![Len(stack) + 2] = h]
<1>1. Chain(m, t, bnf, e, Append(stack, f), q) /\ q[Len(Append(stack, f)) + 1] = h
  BY ChainPush
<1> HIDE DEF q
<1> QED BY <1>1

\* It begins with the first factor of the first alternative.
LEMMA FrameReads ==
  ASSUME NEW m, NEW t, NEW x, NEW call
  PROVE  Reads(m, t, bnf, Frame(call, x), pos)
<1> DEFINE f == Frame(call, x)
<1>1. f.facts = Head(bnf.exprs[x]) /\ f.or = bnf.exprs[x] /\ f.start = pos /\ f.exprs = x
  BY DEF Frame
<1> HIDE DEF f
<1>2. Reads(m, t, bnf, f, pos)
  BY <1>1, Zenon DEF Reads
<1> QED BY <1>2 DEF f

\* The call of _eval_orexpr for the factor c gives what c means.
LEMMA CallServes ==
  ASSUME bnf \in Grammars, NEW m, NEW t, IsMeaning(m, bnf, t), NEW c \in Facts, NEW n \in At(t), NEW x,
         x # NULL,
         \/ c.type = "FACT_RULE_LINKED" /\ x = bnf.prods[c.target].exprs
         \/ c.type \in Couples /\ x = c.target,
         NEW f, f.call = c.type, f.exprs = x, f.start = n
  PROVE  Serves(m, t, bnf, f, m.factor, c, n)
<1>1. FactorRules(m, bnf, t, c, n)
  BY RulesOf
<1>2. f.call \in Repetitions => \A i \in At(t) : RepetitionRules(m, t, bnf.exprs[x], i)
  <2>1. SUFFICES ASSUME c.type \in Repetitions, NEW i \in At(t) PROVE RepetitionRules(m, t, bnf.exprs[x], i)
    OBVIOUS
  <2>2. RepetitionRules(m, t, bnf.exprs[c.target], i)
    BY <2>1, RulesOf
  <2>3. x = c.target
    BY <2>1 DEF Repetitions
  <2> QED BY <2>2, <2>3
<1>3. c.type = "FACT_RULE_LINKED" =>
        \A k \in To(t) : <<bnf.exprs[x], n, k>> \in m.alternatives => <<c, n, k>> \in m.factor
  <2>1. SUFFICES ASSUME c.type = "FACT_RULE_LINKED"
                 PROVE \A k \in To(t) : <<bnf.exprs[x], n, k>> \in m.alternatives => <<c, n, k>> \in m.factor
    OBVIOUS
  <2>2. x = bnf.prods[c.target].exprs
    BY <2>1 DEF Couples
  <2> QED BY <1>1, <2>1, <2>2, Zenon DEF FactorRules, At, To
<1>4. c.type \in Couples => x = c.target /\ c.type # "FACT_RULE_LINKED"
  BY DEF Couples
<1>5. c.type = "FACT_EXPR_OPT" =>
        \A k \in To(t) : <<bnf.exprs[x], n, k>> \in m.alternatives
                         => <<c, n, IF k = Fail THEN n ELSE k>> \in m.factor
  <2>1. c.type = "FACT_EXPR_OPT" => x = c.target /\ c.type # "FACT_RULE_LINKED"
    BY <1>4 DEF Couples
  <2> QED BY <1>1, <2>1, Zenon DEF FactorRules, At, To
<1>6. c.type = "FACT_EXPR_NGTE" =>
        \A k \in At(t) : <<bnf.exprs[x], n, k>> \in m.repetition => <<c, n, k>> \in m.factor
  <2>1. c.type = "FACT_EXPR_NGTE" => x = c.target /\ c.type # "FACT_RULE_LINKED"
    BY <1>4 DEF Couples
  <2> QED BY <1>1, <2>1, Zenon DEF FactorRules, At, To
<1>7. c.type = "FACT_EXPR_NGT" =>
        /\ <<bnf.exprs[x], n, Fail>> \in m.alternatives => <<c, n, Fail>> \in m.factor
        /\ \A j \in At(t) : <<bnf.exprs[x], n, j>> \in m.alternatives =>
             \A k \in At(t) : <<bnf.exprs[x], j, k>> \in m.repetition => <<c, n, k>> \in m.factor
  <2>1. c.type = "FACT_EXPR_NGT" => x = c.target /\ c.type # "FACT_RULE_LINKED"
    BY <1>4 DEF Couples
  <2> QED BY <1>1, <2>1, Zenon DEF FactorRules, At, To
<1> QED BY <1>2, <1>3, <1>5, <1>6, <1>7, Zenon DEF Serves

LEMMA EvalCallMeans ==
  ASSUME Typed, EvalCall, NEW ext \in Following, NEW t, t = text \o ext,
         NEW m, IsMeaning(m, bnf, t), NEW e, NEW o, Chain(m, t, bnf, e, stack, o),
         Now(m, e, stack, o, pc, ret, pos), ret \in {0, 1}
  PROVE  \E q : Chain(m, t, bnf, e, stack', q) /\ Now(m, e, stack', q, pc', ret', pos')
<1>1. PICK call, x :
        /\ pc = "factor" /\ UNCHANGED <<bnf, text, pos>> /\ EvalOrexpr(call, x) /\ call = Fact.type
        /\ \/ Fact.type = "FACT_RULE_LINKED" /\ x = bnf.prods[Fact.target].exprs
           \/ Fact.type \in Couples /\ x = Fact.target
  BY DEF EvalCall
<1>2. pc \in Running /\ Fact \in Facts
  BY <1>1, TopFactor DEF Running
<1>3. CASE pc' = "crashed" /\ stack' = stack
  BY <1>3 DEF Now
<1>4. CASE pc' = "factor" /\ stack' = Append(stack, Frame(call, x)) /\ x # NULL
  <2>1. /\ call \in Couples \cup {"FACT_RULE_LINKED"} /\ x \in DOMAIN bnf.exprs
    <3> HIDE DEF Fact
    <3>1. bnf \in Grammars
      BY DEF Typed
    <3>2. CASE Fact.type = "FACT_RULE_LINKED" /\ x = bnf.prods[Fact.target].exprs
      BY <1>1, <1>2, <1>4, <3>1, <3>2, GrammarIs
    <3>3. CASE Fact.type \in Couples /\ x = Fact.target
      BY <1>1, <1>2, <3>1, <3>3, GrammarIs
    <3> QED BY <1>1, <3>2, <3>3
  <2>2. pos \in At(t) /\ bnf \in Grammars /\ stack \in Seq(FrameSet) /\ stack # <<>>
    BY <1>2, PlacesAre DEF Typed
  <2>3. Frame(call, x) \in FrameSet
    BY <2>1, FrameIs
  <2>4. PICK n \in At(t), c \in Facts : n = pos /\ c = Fact
    BY <1>2, <2>2
  <2>5. PICK f \in FrameSet : f = Frame(call, x)
    BY <2>3
  <2>6. f.call = c.type /\ f.exprs = x /\ f.start = n
    BY <1>1, <2>4, <2>5 DEF Frame
  <2>7. Serves(m, t, bnf, f, m.factor, c, n)
    <3>1. \/ c.type = "FACT_RULE_LINKED" /\ x = bnf.prods[c.target].exprs
          \/ c.type \in Couples /\ x = c.target
      BY <1>1, <2>4
    <3> QED BY <1>4, <2>2, <2>6, <3>1, CallServes
  <2>8. n = o[Len(stack) + 1] /\ c = Head(Last(stack).facts)
    BY <1>1, <2>4 DEF Now, Fact, Top
  <2>9. Link(m, t, bnf, e, stack, f, o)
    BY <2>2, <2>7, <2>8, Zenon DEF Link
  <2>10. Reads(m, t, bnf, f, n)
    BY <2>4, <2>5, FrameReads
  <2>11. PICK q : Chain(m, t, bnf, e, stack', q) /\ q[Len(stack') + 1] = n
    <3>1. stack' = Append(stack, f) /\ stack \in Seq(FrameSet)
      BY <1>4, <2>2, <2>5
    <3> QED BY <2>9, <2>10, <3>1, Called
  <2>12. Now(m, e, stack', q, pc', ret', pos')
    BY <1>1, <1>4, <2>4, <2>11 DEF Now
  <2> QED BY <2>11, <2>12
<1> QED BY <1>1, <1>3, <1>4 DEF EvalOrexpr

LEMMA ApplyBNFMeans ==
  ASSUME Typed, ApplyBNF, NEW ext \in Following, NEW t, t = text \o ext,
         NEW m, IsMeaning(m, bnf, t), NEW e, e = Asked, NEW o, Chain(m, t, bnf, e, stack, o),
         Now(m, e, stack, o, pc, ret, pos), ret' \in {0, 1}
  PROVE  \E q : Chain(m, t, bnf, e, stack', q) /\ Now(m, e, stack', q, pc', ret', pos')
<1> DEFINE rule == SelectInSeq(bnf.prods, LAMBDA p : p.name = id)
<1>0. PICK x : x = bnf.prods[rule].exprs
  OBVIOUS
<1>1. /\ pc = "apply" /\ UNCHANGED <<bnf, text, pos>>
      /\ EvalOrexpr("FACT_RULE_LINKED", x) /\ rule # 0
  <2>1. CASE rule # 0
    BY <1>0, <2>1 DEF ApplyBNF
  <2>2. CASE rule = 0
    BY <2>2 DEF ApplyBNF, ERR_MISC, ERRBNF_MISSINGID
  <2> QED BY <2>1, <2>2
<1>e. e = bnf.exprs[x]
  BY <1>0 DEF Asked
<1>2. CASE pc' = "crashed" /\ stack' = stack
  BY <1>2 DEF Now
<1>3. CASE pc' = "factor" /\ stack' = Append(stack, Frame("FACT_RULE_LINKED", x)) /\ x # NULL
  <2>1. bnf \in Grammars /\ stack \in Seq(FrameSet) /\ stack = <<>> /\ pos = 0 /\ pos \in At(t)
    BY <1>1, PlacesAre DEF Typed, Now
  <2>2. x \in DOMAIN bnf.exprs
    <3>1. rule \in DOMAIN bnf.prods
      BY <1>1, <2>1, RuleIs
    <3> HIDE DEF rule
    <3> QED BY <1>0, <1>3, <2>1, <3>1, GrammarIs
  <2> HIDE DEF rule
  <2>3. PICK f \in FrameSet : f = Frame("FACT_RULE_LINKED", x)
    BY <2>2, FrameIs
  <2>4. f.call = "FACT_RULE_LINKED" /\ f.exprs = x /\ f.start = 0
    BY <2>1, <2>3 DEF Frame
  <2>5. Reads(m, t, bnf, f, 0)
    BY <2>1, <2>3, FrameReads
  <2>6. Serves(m, t, bnf, f, m.alternatives, e, 0)
    <3>1. f.call \notin Repetitions /\ f.call \notin Couples
      BY <2>4 DEF Repetitions, Couples
    <3> QED BY <1>e, <2>4, <3>1 DEF Serves, Couples
  <2>7. Link(m, t, bnf, e, stack, f, o)
    BY <2>1, <2>6 DEF Link, Chain
  <2>8. PICK q : Chain(m, t, bnf, e, stack', q) /\ q[Len(stack') + 1] = 0
    BY <1>3, <2>1, <2>3, <2>5, <2>7, Called
  <2>9. Now(m, e, stack', q, pc', ret', pos')
    BY <1>1, <1>3, <2>1, <2>8 DEF Now
  <2> QED BY <2>8, <2>9
<1> QED BY <1>1, <1>2, <1>3 DEF EvalOrexpr

LEMMA EvalLiteralMeans ==
  ASSUME Typed, EvalLiteral, NEW ext \in Following, NEW t, t = text \o ext,
         NEW m, IsMeaning(m, bnf, t), NEW e, NEW o, Chain(m, t, bnf, e, stack, o),
         Now(m, e, stack, o, pc, ret, pos), ret' \in {0, 1}
  PROVE  \E q : Chain(m, t, bnf, e, stack', q) /\ Now(m, e, stack', q, pc', ret', pos')
<1>1. /\ pc = "factor" /\ Fact.type = "FACT_LITERAL" /\ ret' = Literal(Fact.lit) /\ pc' = "returned"
      /\ pos' = IF ret' = 1 /\ Fact.lit # <<>> THEN Skip(pos) + Len(Fact.lit) ELSE pos
      /\ stack' = stack
  BY DEF EvalLiteral
<1>2. PICK c \in Facts : c = Fact
  BY <1>1, TopFactor DEF Running
<1>3. /\ text \in Texts /\ pos \in 0 .. Len(text) /\ IsSequence(c.lit) /\ bnf \in Grammars
      /\ pos \in At(t)
  BY <1>1, <1>2, PlacesAre, GrammarIs DEF Typed
<1>4. PICK n \in At(t), l \in {c.lit} : n = pos /\ l = c.lit
  BY <1>3
<1>5. /\ Skip(n) \in Behind(t, n)
      /\ LiteralTo(l, t, n, Skip(n)) =
           IF Literal(l) = 1 THEN IF l = <<>> THEN n ELSE Skip(n) + Len(l) ELSE Fail
  <2>1. IsSequence(l) /\ Literal(l) \in {0, 1}
    BY <1>1, <1>2, <1>3, <1>4
  <2>2. /\ Skip(pos) \in Behind(t, pos)
        /\ LiteralTo(l, t, pos, Skip(pos)) =
             IF Literal(l) = 1 THEN IF l = <<>> THEN pos ELSE Skip(pos) + Len(l) ELSE Fail
    BY <1>3, <2>1, LiteralMeans
  <2> QED BY <1>4, <2>2
<1>6. FactorRules(m, bnf, t, c, n) /\ c.type = "FACT_LITERAL"
  BY <1>1, <1>2, <1>3, RulesOf
<1>7. <<c, n, LiteralTo(l, t, n, Skip(n))>> \in m.factor
  BY <1>4, <1>5, <1>6, Zenon DEF FactorRules
<1>8. LiteralTo(l, t, n, Skip(n)) = IF ret' = 1 THEN pos' ELSE Fail
  BY <1>1, <1>2, <1>4, <1>5
<1>9. n = o[Len(stack) + 1] /\ c = Head(Last(stack).facts)
  BY <1>1, <1>2, <1>4 DEF Now, Fact, Top
<1>10. Now(m, e, stack', o, pc', ret', pos')
  BY <1>1, <1>7, <1>8, <1>9 DEF Now
<1> QED BY <1>1, <1>10

LEMMA EvalBuiltinMeans ==
  ASSUME Typed, EvalBuiltin, NEW ext \in Following, NEW t, t = text \o ext,
         NEW m, IsMeaning(m, bnf, t), NEW e, NEW o, Chain(m, t, bnf, e, stack, o),
         Now(m, e, stack, o, pc, ret, pos)
  PROVE  \E q : Chain(m, t, bnf, e, stack', q) /\ Now(m, e, stack', q, pc', ret', pos')
<1>1. /\ pc = "factor" /\ Fact.type = "FACT_RULE_BUILTIN" /\ ret' = 0 /\ pc' = "returned"
      /\ pos' = pos /\ stack' = stack
  BY DEF EvalBuiltin
<1>2. PICK c \in Facts : c = Fact
  BY <1>1, TopFactor DEF Running
<1>3. bnf \in Grammars /\ pos \in At(t)
  BY PlacesAre DEF Typed
<1>4. PICK n \in At(t) : n = pos
  BY <1>3
<1>5. FactorRules(m, bnf, t, c, n) /\ c.type = "FACT_RULE_BUILTIN"
  BY <1>1, <1>2, <1>3, RulesOf
<1>6. <<c, n, Fail>> \in m.factor
  BY <1>5, Zenon DEF FactorRules
<1>7. n = o[Len(stack) + 1] /\ c = Head(Last(stack).facts)
  BY <1>1, <1>2, <1>4 DEF Now, Fact, Top
<1>8. Now(m, e, stack', o, pc', ret', pos')
  BY <1>1, <1>6, <1>7 DEF Now
<1> QED BY <1>1, <1>8

\* A sequence ends: what its last factor gave is what it gives.
LEMMA EndSequenceMeans ==
  ASSUME Typed, EndSequence, NEW ext \in Following, NEW t, t = text \o ext,
         NEW m, IsMeaning(m, bnf, t), NEW e, NEW o, Chain(m, t, bnf, e, stack, o),
         Now(m, e, stack, o, pc, ret, pos), ret \in {0, 1}, ~spoilt'
  PROVE  \E q : Chain(m, t, bnf, e, stack', q) /\ Now(m, e, stack', q, pc', ret', pos')
<1>1. /\ pc \in Running /\ pc = "returned" /\ pc' = "alternative" /\ pos' = pos /\ stack' = stack /\ ret' = ret
      /\ ~(ret > 0 /\ Len(Top.facts) > 1) /\ (ret = 0 => ~(pos > Top.start))
  BY DEF EndSequence, SequenceGoesOn, Running
<1>2. PICK f \in FrameSet : f = Top /\ Within(f)
  BY <1>1, TopIs
<1>3. PICK b \in At(t) : b = o[Len(stack) + 1] /\ Reads(m, t, bnf, f, b)
  BY <1>1, <1>2, TopLink
<1>4. bnf \in Grammars /\ pos \in At(t) /\ f.start \in At(t) /\ f.start <= pos /\ Len(t) \in Nat
  BY <1>2, PlacesAre DEF Typed
<1>5. PICK n \in At(t) : n = pos
  BY <1>4
<1> DEFINE k == IF ret = 1 THEN n ELSE Fail
           s == f.facts
<1>6. <<Head(s), b, k>> \in m.factor
  BY <1>1, <1>2, <1>3, <1>5 DEF Now, Top
<1>7. s \in Seq(Facts) /\ s # <<>>
  BY <1>2 DEF FrameSet, Within
<1>8. SequenceRules(m, t, s, b) /\ SequenceRules(m, t, <<>>, n)
  BY <1>2, <1>4, RulesOf
<1> HIDE DEF s
<1>9. <<s, b, k>> \in m.sequence
  <2>1. CASE ret = 1
    <3>1. Tail(s) = <<>>
      <4>1. Len(s) \in Nat /\ Len(s) # 0 /\ ~(Len(s) > 1)
        BY <1>1, <1>2, <1>7, <2>1, EmptySeq, LenProperties DEF s
      <4>2. Tail(s) \in Seq(Facts) /\ Len(Tail(s)) = Len(s) - 1
        BY <1>7, HeadTailProperties
      <4>3. Len(Tail(s)) = 0
        BY <4>1, <4>2
      <4> QED BY <4>2, <4>3, EmptySeq
    <3>2. <<<<>>, n, n>> \in m.sequence
      BY <1>8, Zenon DEF SequenceRules
    <3>3. n \in To(t) /\ k = n
      BY <2>1 DEF To
    <3>4. <<Head(s), b, n>> \in m.factor /\ <<Tail(s), n, n>> \in m.sequence
      BY <1>6, <3>1, <3>2, <3>3
    <3> HIDE DEF k
    <3>5. <<s, b, n>> \in m.sequence
      BY <1>7, <1>8, <3>3, <3>4, Zenon DEF SequenceRules, At, To
    <3> QED BY <3>3, <3>5
  <2>2. CASE ret # 1
    <3>1. <<Head(s), b, Fail>> \in m.factor
      BY <1>6, <2>2
    <3>2. <<s, b, Fail>> \in m.sequence
      BY <1>7, <1>8, <3>1, Zenon DEF SequenceRules
    <3> QED BY <2>2, <3>2
  <2> QED BY <2>1, <2>2
<1>10. k \in To(t)
  BY DEF To
<1> HIDE DEF k
<1>11. <<Head(f.or), f.start, k>> \in m.sequence
  BY <1>3, <1>9, <1>10, Zenon DEF Reads, s
<1>12. ret = 0 => n = f.start
  BY <1>1, <1>2, <1>4, <1>5 DEF At
<1>13. k = IF ret = 1 THEN n ELSE Fail
  BY DEF k
<1>14. Now(m, e, stack', o, pc', ret', pos')
  BY <1>1, <1>2, <1>5, <1>11, <1>12, <1>13 DEF Now, Top
<1> QED BY <1>1, <1>14

\* What the expression of the innermost call comes to.
LEMMA AlternativesGive ==
  ASSUME bnf \in Grammars, NEW t,
         NEW m, IsMeaning(m, bnf, t), NEW f \in FrameSet, Within(f), f.start \in At(t), NEW b, Reads(m, t, bnf, f, b),
         NEW k \in To(t), <<Head(f.or), f.start, k>> \in m.sequence,
         k # Fail \/ Len(f.or) = 1
  PROVE  <<bnf.exprs[f.exprs], f.start, k>> \in m.alternatives
<1> DEFINE s == f.or
<1>2. s \in Seq(Alternatives) /\ s # <<>>
  BY DEF FrameSet, Within
<1>3. PICK n \in At(t) : n = f.start
  OBVIOUS
<1>4. AlternativesRules(m, t, s, n) /\ AlternativesRules(m, t, <<>>, n)
  BY RulesOf
<1>5. <<Head(s), n, k>> \in m.sequence
  BY <1>3
<1> HIDE DEF s
<1>6. <<s, n, k>> \in m.alternatives
  <2>1. CASE k # Fail
    <3>1. k \in At(t)
      BY <2>1 DEF To
    <3> QED BY <1>2, <1>4, <1>5, <3>1, Zenon DEF AlternativesRules, At
  <2>2. CASE k = Fail
    <3>1. Tail(s) = <<>>
      <4>1. Len(s) = 1
        BY <2>2 DEF s
      <4>2. Tail(s) \in Seq(Alternatives) /\ Len(Tail(s)) = Len(s) - 1
        BY <1>2, HeadTailProperties
      <4>3. Len(Tail(s)) = 0
        BY <4>1, <4>2
      <4> QED BY <4>2, <4>3, EmptySeq
    <3>2. <<<<>>, n, Fail>> \in m.alternatives
      BY <1>4, Zenon DEF AlternativesRules
    <3>3. <<Head(s), n, Fail>> \in m.sequence /\ <<Tail(s), n, Fail>> \in m.alternatives /\ Fail \in To(t)
      BY <1>5, <2>2, <3>1, <3>2 DEF To
    <3>4. <<s, n, Fail>> \in m.alternatives
      BY <1>2, <1>4, <3>3, Zenon DEF AlternativesRules, At, To
    <3> QED BY <2>2, <3>4
  <2> QED BY <2>1, <2>2
<1> QED BY <1>3, <1>6, Zenon DEF Reads, s

\* A repetition goes on behind the expression.
LEMMA RepeatServes ==
  ASSUME NEW m, NEW t, NEW g, NEW f, f.call \in Repetitions, f.start \in At(t), NEW n \in At(t),
         <<g.exprs[f.exprs], f.start, n>> \in m.alternatives,
         NEW h, h.call = "FACT_EXPR_NGTE", h.exprs = f.exprs, h.start = n,
         NEW R, NEW c, NEW b, Serves(m, t, g, f, R, c, b)
  PROVE  Serves(m, t, g, h, R, c, b)
<1> DEFINE x == g.exprs[f.exprs]
<1>1. \A i \in At(t) : RepetitionRules(m, t, x, i)
  BY Zenon DEF Serves
<1>2. \A k \in At(t) : <<x, n, k>> \in m.repetition => <<x, f.start, k>> \in m.repetition
  <2>1. RepetitionRules(m, t, x, f.start)
    BY <1>1
  <2> HIDE DEF x
  <2>2. <<x, f.start, n>> \in m.alternatives
    BY DEF x
  <2> QED BY <2>1, <2>2, Zenon DEF RepetitionRules, At
<1>3. \A k \in At(t) : <<x, n, k>> \in m.repetition => <<c, b, k>> \in R
  <2>1. CASE f.call = "FACT_EXPR_NGTE"
    <3>1. \A k \in At(t) : <<x, f.start, k>> \in m.repetition => <<c, b, k>> \in R
      BY <2>1, Zenon DEF Serves
    <3> HIDE DEF x
    <3> QED BY <1>2, <3>1
  <2>2. CASE f.call = "FACT_EXPR_NGT"
    <3>1. \A j \in At(t) : <<x, f.start, j>> \in m.alternatives =>
            \A k \in At(t) : <<x, j, k>> \in m.repetition => <<c, b, k>> \in R
      BY <2>2, Zenon DEF Serves
    <3> QED BY <3>1
  <2> QED BY <2>1, <2>2 DEF Repetitions
<1>4. g.exprs[h.exprs] = x
  OBVIOUS
<1> HIDE DEF x
<1>5. h.call # "FACT_RULE_LINKED" /\ h.call # "FACT_EXPR_OPT" /\ h.call # "FACT_EXPR_NGT"
  OBVIOUS
<1> QED BY <1>1, <1>3, <1>4, <1>5, Zenon DEF Serves

LEMMA RepeatMeans ==
  ASSUME Typed, Repeat, NEW ext \in Following, NEW t, t = text \o ext,
         NEW m, IsMeaning(m, bnf, t), NEW e, NEW o, Chain(m, t, bnf, e, stack, o),
         Now(m, e, stack, o, pc, ret, pos), ret \in {0, 1}
  PROVE  \E q : Chain(m, t, bnf, e, stack', q) /\ Now(m, e, stack', q, pc', ret', pos')
<1>1. /\ pc \in Running /\ pc = "alternative" /\ pc' = "factor" /\ UNCHANGED <<bnf, text, pos>>
      /\ ret = 1 /\ Top.call \in Repetitions
      /\ stack' = SetTop(Frame("FACT_EXPR_NGTE", Top.exprs))
  BY DEF Repeat, Running
<1>2. PICK f \in FrameSet : f = Top /\ Within(f)
  BY <1>1, TopIs
<1>3. PICK b : Reads(m, t, bnf, f, b) /\ Link(m, t, bnf, e, Front(stack), f, o)
  BY <1>1, <1>2, TopLink
<1>4. bnf \in Grammars /\ pos \in At(t) /\ f.start \in At(t)
  BY <1>2, PlacesAre DEF Typed
<1>5. PICK n \in At(t) : n = pos
  BY <1>4
<1>6. n \in To(t) /\ n # Fail /\ <<Head(f.or), f.start, n>> \in m.sequence
  <2>1. n # Fail
    BY <1>2, PlacesAre DEF At, Fail
  <2>2. <<Head(f.or), f.start, n>> \in m.sequence
    BY <1>1, <1>2, <1>5 DEF Now, Top
  <2> QED BY <2>1, <2>2 DEF To
<1>7. <<bnf.exprs[f.exprs], f.start, n>> \in m.alternatives
  BY <1>2, <1>3, <1>4, <1>6, AlternativesGive
<1>8. PICK h \in FrameSet : h = Frame("FACT_EXPR_NGTE", f.exprs)
  <2>1. f.exprs \in DOMAIN bnf.exprs /\ "FACT_EXPR_NGTE" \in Couples
    BY DEF FrameSet, Couples
  <2> QED BY <2>1, FrameIs
<1>9. h.call = "FACT_EXPR_NGTE" /\ h.exprs = f.exprs /\ h.start = n
  BY <1>5, <1>8 DEF Frame
<1>10. f.call \in Repetitions
  BY <1>1, <1>2
<1>11. ASSUME NEW R, NEW c, NEW a, Serves(m, t, bnf, f, R, c, a)
       PROVE  Serves(m, t, bnf, h, R, c, a)
  BY <1>4, <1>7, <1>9, <1>10, <1>11, RepeatServes
<1>12. Link(m, t, bnf, e, Front(stack), h, o)
  BY <1>3, <1>11, Zenon DEF Link
<1>13. Reads(m, t, bnf, h, n)
  BY <1>5, <1>8, FrameReads
<1>14. stack' = SetTop(h)
  BY <1>1, <1>2, <1>8
<1>15. PICK q : Chain(m, t, bnf, e, stack', q) /\ q[Len(stack') + 1] = n
  BY <1>1, <1>12, <1>13, <1>14, TopReplaced
<1>16. Now(m, e, stack', q, pc', ret', pos')
  BY <1>1, <1>5, <1>15 DEF Now
<1> QED BY <1>15, <1>16

\* How far a result says that something goes.
Reached(r, n) == IF r = 1 THEN n ELSE Fail

\* What the caller of _eval_orexpr makes of the result is what its factor means.
LEMMA AnswerServes ==
  ASSUME NEW m, NEW t, Len(t) \in Nat, NEW g, NEW f, f.call \in Couples \cup {"FACT_RULE_LINKED"},
         f.start \in At(t), NEW r \in {0, 1}, NEW n \in At(t), r = 0 => n = f.start,
         <<g.exprs[f.exprs], f.start, Reached(r, n)>> \in m.alternatives,
         r = 0 \/ f.call \notin Repetitions
  PROVE  \A R, c, b : Serves(m, t, g, f, R, c, b) =>
         /\ <<c, b, Reached(Answer(f.call, r), n)>> \in R
         /\ Answer(f.call, r) = 0 => n = b
<1> SUFFICES ASSUME NEW R, NEW c, NEW b, Serves(m, t, g, f, R, c, b)
             PROVE  /\ <<c, b, Reached(Answer(f.call, r), n)>> \in R
                    /\ Answer(f.call, r) = 0 => n = b
  OBVIOUS
<1> DEFINE x == g.exprs[f.exprs]
<1>k. PICK k : k = (IF r = 1 THEN n ELSE Fail) /\ <<x, f.start, k>> \in m.alternatives
  BY DEF Reached
<1>1. n # Fail /\ n \in To(t) /\ k \in To(t)
  <2>1. n # Fail
    BY DEF At, Fail
  <2> QED BY <1>k, <2>1 DEF To
<1>2. CASE f.call = "FACT_RULE_LINKED"
  <2>1. f.start = b /\ \A i \in To(t) : <<x, f.start, i>> \in m.alternatives => <<c, b, i>> \in R
    BY <1>2, Zenon DEF Serves
  <2>2. <<c, b, k>> \in R
    BY <1>k, <1>1, <2>1
  <2>3. Answer(f.call, r) = r
    BY <1>2 DEF Answer
  <2> QED BY <1>k, <1>1, <2>1, <2>2, <2>3 DEF Reached
<1>3. CASE f.call = "FACT_EXPR_OPT"
  <2>1. \A i \in To(t) : <<x, f.start, i>> \in m.alternatives
                         => <<c, b, IF i = Fail THEN f.start ELSE i>> \in R
    BY <1>3, Zenon DEF Serves
  <2>2. <<c, b, IF k = Fail THEN f.start ELSE k>> \in R
    BY <1>k, <1>1, <2>1
  <2>3. Answer(f.call, r) = 1
    BY <1>3 DEF Answer
  <2>4. (IF k = Fail THEN f.start ELSE k) = n
    BY <1>k, <1>1
  <2> QED BY <2>2, <2>3, <2>4 DEF Reached
<1>4. CASE f.call = "FACT_EXPR_NGTE"
  <2>1. /\ \A i \in At(t) : RepetitionRules(m, t, x, i)
        /\ \A i \in At(t) : <<x, f.start, i>> \in m.repetition => <<c, b, i>> \in R
    BY <1>4, Zenon DEF Serves, Repetitions
  <2>2. r = 0 /\ n = f.start /\ k = Fail
    BY <1>4, <1>k DEF Repetitions
  <2>3. RepetitionRules(m, t, x, n) /\ <<x, n, Fail>> \in m.alternatives
    BY <1>k, <2>1, <2>2
  <2> HIDE DEF x
  <2>4. <<x, n, n>> \in m.repetition
    BY <2>3, Zenon DEF RepetitionRules
  <2>5. Answer(f.call, r) = 1
    BY <1>4 DEF Answer
  <2> QED BY <2>1, <2>2, <2>4, <2>5 DEF Reached
<1>5. CASE f.call = "FACT_EXPR_NGT"
  <2>1. f.start = b /\ (<<x, f.start, Fail>> \in m.alternatives => <<c, b, Fail>> \in R)
    BY <1>5, Zenon DEF Serves
  <2>2. r = 0 /\ n = f.start /\ k = Fail
    BY <1>5, <1>k DEF Repetitions
  <2>3. Answer(f.call, r) = 0
    BY <1>5, <2>2 DEF Answer
  <2> QED BY <1>k, <1>1, <2>1, <2>2, <2>3 DEF Reached
<1> QED BY <1>2, <1>3, <1>4, <1>5 DEF Couples

LEMMA LeaveGives ==
  ASSUME Typed, Leave, NEW t, Len(t) \in Nat, pos \in At(t), Top.start \in At(t),
         NEW m, IsMeaning(m, bnf, t), NEW e, NEW o, Chain(m, t, bnf, e, stack, o),
         Now(m, e, stack, o, pc, ret, pos), ret \in {0, 1}
  PROVE  \E q : Chain(m, t, bnf, e, stack', q) /\ Now(m, e, stack', q, pc', ret', pos')
<1>1. /\ pc \in Running /\ pc = "alternative" /\ pos' = pos
      /\ ret # 0 \/ Len(Top.or) = 1
      /\ ret = 0 \/ Top.call \notin Repetitions
      /\ ret' = Answer(Top.call, ret) /\ stack' = Front(stack)
      /\ pc' = IF Len(stack) = 1 THEN "done" ELSE "returned"
  BY DEF Leave, Running
<1>2. PICK f \in FrameSet : f = Top /\ Within(f)
  BY <1>1, TopIs
<1>3. PICK u, b : /\ u = Front(stack) /\ Chain(m, t, bnf, e, u, o)
                  /\ Reads(m, t, bnf, f, b) /\ Link(m, t, bnf, e, u, f, o)
                  /\ Len(u) \in Nat /\ Len(stack) = Len(u) + 1
  BY <1>1, <1>2, TopLink
<1>4. bnf \in Grammars /\ pos \in At(t) /\ f.start \in At(t) /\ Len(t) \in Nat
  BY <1>2 DEF Typed
<1>5. PICK n \in At(t) : n = pos
  BY <1>4
<1>6. PICK r \in {0, 1} : r = ret
  OBVIOUS
<1>7. PICK k : k = IF r = 1 THEN n ELSE Fail
  OBVIOUS
<1>8. <<Head(f.or), f.start, k>> \in m.sequence /\ (r = 0 => n = f.start)
  BY <1>1, <1>2, <1>5, <1>6, <1>7 DEF Now, Top
<1>9. k \in To(t) /\ (k # Fail \/ Len(f.or) = 1)
  <2>1. n # Fail
    BY <1>4 DEF At, Fail
  <2> QED BY <1>1, <1>2, <1>6, <1>7, <2>1 DEF To
<1>10. <<bnf.exprs[f.exprs], f.start, k>> \in m.alternatives
  BY <1>2, <1>3, <1>4, <1>8, <1>9, AlternativesGive
<1>11. \A R, c, d : Serves(m, t, bnf, f, R, c, d) =>
         /\ <<c, d, Reached(Answer(f.call, r), n)>> \in R
         /\ Answer(f.call, r) = 0 => n = d
  <2>1. f.call \in Couples \cup {"FACT_RULE_LINKED"}
    BY DEF FrameSet
  <2>2. r = 0 \/ f.call \notin Repetitions
    BY <1>1, <1>2, <1>6
  <2>3. PICK g : g = bnf
    OBVIOUS
  <2>4. /\ f.start \in At(t) /\ Len(t) \in Nat /\ (r = 0 => n = f.start)
        /\ <<g.exprs[f.exprs], f.start, Reached(r, n)>> \in m.alternatives
    BY <1>4, <1>7, <1>8, <1>10, <2>3 DEF Reached
  <2>5. \A R, c, d : Serves(m, t, g, f, R, c, d) =>
          /\ <<c, d, Reached(Answer(f.call, r), n)>> \in R
          /\ Answer(f.call, r) = 0 => n = d
    BY <2>1, <2>2, <2>4, AnswerServes
  <2> QED BY <2>3, <2>5
<1>12. ret' = Answer(f.call, r)
  BY <1>1, <1>2, <1>6
<1>13. u \in Seq(FrameSet)
  BY <1>1, <1>3, TopIs
<1>14. CASE u = <<>>
  <2>1. Serves(m, t, bnf, f, m.alternatives, e, 0)
    BY <1>3, <1>14 DEF Link, Chain
  <2>2. /\ <<e, 0, IF ret' = 1 THEN n ELSE Fail>> \in m.alternatives
        /\ ret' = 0 => n = 0
    BY <1>11, <1>12, <2>1 DEF Reached
  <2>3. pc' = "done"
    BY <1>1, <1>3, <1>14
  <2>4. Now(m, e, stack', o, pc', ret', pos')
    BY <1>1, <1>5, <2>2, <2>3 DEF Now
  <2> QED BY <1>1, <1>3, <2>4
<1>15. CASE u # <<>>
  <2>1. Serves(m, t, bnf, f, m.factor, Head(Last(u).facts), o[Len(u) + 1])
    BY <1>3, <1>15, Zenon DEF Link
  <2>2. <<Head(Last(u).facts), o[Len(u) + 1], IF ret' = 1 THEN n ELSE Fail>> \in m.factor
    BY <1>11, <1>12, <2>1 DEF Reached
  <2>3. pc' = "returned"
    <3>1. Len(u) # 0
      BY <1>13, <1>15, EmptySeq
    <3> QED BY <1>1, <1>3, <3>1
  <2>4. Now(m, e, stack', o, pc', ret', pos')
    BY <1>1, <1>3, <1>5, <2>2, <2>3 DEF Now
  <2> QED BY <1>1, <1>3, <2>4
<1> QED BY <1>14, <1>15

LEMMA LeaveMeans ==
  ASSUME Typed, Leave, NEW ext \in Following, NEW t, t = text \o ext,
         NEW m, IsMeaning(m, bnf, t), NEW e, NEW o, Chain(m, t, bnf, e, stack, o),
         Now(m, e, stack, o, pc, ret, pos), ret \in {0, 1}
  PROVE  \E q : Chain(m, t, bnf, e, stack', q) /\ Now(m, e, stack', q, pc', ret', pos')
<1>1. Top \in FrameSet /\ Within(Top)
  BY TopIs DEF Leave, Running
<1>2. Len(t) \in Nat /\ pos \in At(t) /\ Top.start \in At(t)
  BY <1>1, PlacesAre DEF Typed
<1> QED BY <1>2, LeaveGives

-----------------------------------------------------------------------------
(* The evaluation gives what the grammar means *)

\* The inductive invariant: unless a sequence failed behind what it had consumed, or
\* an error is on its way up, the calls are a chain of promises, and what was
\* returned last holds, on every stream that the data may turn out to begin.
Meant ==
  (~spoilt /\ ret \in {0, 1}) =>
    \A ext \in Following : \E o :
      LET m == Meaning(bnf, text \o ext) IN
      Chain(m, text \o ext, bnf, Asked, stack, o) /\ Now(m, Asked, stack, o, pc, ret, pos)

\* No step but the call of rdfl_applyBNF begins with another grammar, rule or stream.
LEMMA AskedKept ==
  ASSUME [Next]_vars
  PROVE  UNCHANGED <<bnf, id, text, whole>> /\ Following' = Following /\ Asked' = Asked
<1>1. UNCHANGED <<bnf, id, text, whole>>
  BY DEF Next, vars, ApplyBNF, EvalCall, EvalLiteral, EvalBuiltin, NextFactor, EndSequence,
         NextAlternative, Repeat, Leave, Finished
<1>2. Following' = Following
  BY <1>1 DEF Following
<1>3. Asked' = Asked
  BY <1>1 DEF Asked, SelectInSeq
<1> QED BY <1>1, <1>2, <1>3

LEMMA StepMeant ==
  ASSUME Typed, IInv, Meant, [Next]_vars
  PROVE  Meant'
<1>1. SUFFICES ASSUME ~spoilt', ret' \in {0, 1}, NEW ext \in Following
      PROVE  \E q : LET m == Meaning(bnf, text \o ext) IN
               /\ Chain(m, text \o ext, bnf, Asked, stack', q)
               /\ Now(m, Asked, stack', q, pc', ret', pos')
  BY AskedKept DEF Meant
<1>2. ret \in {0, 1}
  <2>1. ret < 0 \/ ret = 0 \/ ret = 1
    BY ResultIs DEF IInv
  <2>2. ~(ret < 0)
    BY <1>1, StepIInv
  <2> QED BY <2>1, <2>2
<1>3. ~spoilt
  BY <1>1 DEF Next, vars, ApplyBNF, EvalCall, EvalLiteral, EvalBuiltin, NextFactor, EndSequence,
              NextAlternative, Repeat, Leave, Finished
<1>4. PICK t, m, e : t = text \o ext /\ m = Meaning(bnf, t) /\ e = Asked
  OBVIOUS
<1>5. PICK o : Chain(m, t, bnf, e, stack, o) /\ Now(m, e, stack, o, pc, ret, pos)
  BY <1>1, <1>2, <1>3, <1>4 DEF Meant
<1>6. IsMeaning(m, bnf, t)
  BY <1>4, PlacesAre, MeaningAssumption DEF Typed
<1>7. \E q : Chain(m, t, bnf, e, stack', q) /\ Now(m, e, stack', q, pc', ret', pos')
  <2>1. CASE ApplyBNF
    BY <1>1, <1>4, <1>5, <1>6, <2>1, ApplyBNFMeans
  <2>2. CASE EvalCall
    BY <1>2, <1>4, <1>5, <1>6, <2>2, EvalCallMeans
  <2>3. CASE EvalLiteral
    BY <1>1, <1>4, <1>5, <1>6, <2>3, EvalLiteralMeans
  <2>4. CASE EvalBuiltin
    BY <1>4, <1>5, <1>6, <2>4, EvalBuiltinMeans
  <2>5. CASE NextFactor
    BY <1>2, <1>4, <1>5, <1>6, <2>5, NextFactorMeans
  <2>6. CASE EndSequence
    BY <1>1, <1>2, <1>4, <1>5, <1>6, <2>6, EndSequenceMeans
  <2>7. CASE NextAlternative
    BY <1>2, <1>4, <1>5, <1>6, <2>7, NextAlternativeMeans
  <2>8. CASE Repeat
    BY <1>2, <1>4, <1>5, <1>6, <2>8, RepeatMeans
  <2>9. CASE Leave
    BY <1>2, <1>4, <1>5, <1>6, <2>9, LeaveMeans
  <2>10. CASE Finished \/ UNCHANGED vars
    BY <1>5, <2>10 DEF Finished, vars
  <2> QED BY <2>1, <2>2, <2>3, <2>4, <2>5, <2>6, <2>7, <2>8, <2>9, <2>10 DEF Next
<1> QED BY <1>4, <1>7

LEMMA InitMeant == Init => Meant
<1>1. SUFFICES ASSUME Init, NEW ext \in Following
      PROVE  \E o : LET m == Meaning(bnf, text \o ext) IN
               Chain(m, text \o ext, bnf, Asked, stack, o) /\ Now(m, Asked, stack, o, pc, ret, pos)
  BY DEF Meant
<1>2. text \in Texts /\ bnf \in Grammars /\ pos = 0 /\ stack = <<>> /\ pc = "apply"
  BY <1>1 DEF Init
<1>e. IsSequence(ext)
  BY FollowingIs
<1>3. PICK t : t = text \o ext
  OBVIOUS
<1>4. 0 \in At(t)
  <2>1. Len(text) \in Nat /\ Len(ext) \in Nat /\ Len(t) = Len(text) + Len(ext)
    BY <1>2, <1>3, <1>e, StreamIs
  <2> QED BY <2>1 DEF At
<1> DEFINE o == [i \in Nat |-> 0]
<1>5. o \in [Nat -> At(t)] /\ o[1] = 0
  <2> HIDE DEF At
  <2> QED BY <1>4
<1>6. Chain(Meaning(bnf, t), t, bnf, Asked, stack, o)
  BY <1>2, <1>5 DEF Chain
<1>7. Now(Meaning(bnf, t), Asked, stack, o, pc, ret, pos)
  BY <1>2 DEF Now
<1> QED BY <1>3, <1>6, <1>7

\* The result of rdfl_applyBNF is what the grammar means on the stream, and on every
\* stream the data read so far may turn out to begin: a match that ends where the
\* grammar says, or a failure with nothing consumed, for every linked grammar, unless
\* a sequence failed behind what it had consumed.
THEOREM MeansWhatItSays == Spec => []Recognizes
<1>1. Typed /\ IInv /\ Meant /\ [Next]_vars => Meant'
  BY StepMeant
<1>2. IInv /\ Meant => Recognizes
  <2>1. SUFFICES ASSUME IInv, Meant, pc = "done", ~spoilt, ret >= 0
                 PROVE  /\ \A ext \in Following :
                             <<Asked, 0, IF ret = 1 THEN pos ELSE Fail>> \in Meaning(bnf, text \o ext).alternatives
                        /\ ret = 1 \/ (ret = 0 /\ pos = 0)
    BY DEF Recognizes, Following
  <2>2. ret \in {0, 1}
    BY <2>1, ResultIs DEF IInv
  <2>3. ASSUME NEW ext \in Following
        PROVE  /\ <<Asked, 0, IF ret = 1 THEN pos ELSE Fail>> \in Meaning(bnf, text \o ext).alternatives
               /\ ret = 0 => pos = 0
    BY <2>1, <2>2 DEF Meant, Now
  <2>4. Following # {}
    BY BnfRunAssumption DEF Following
  <2> QED BY <2>2, <2>3, <2>4
<1>3. Typed /\ [Next]_vars => Typed'
  BY StepTyped
<1>4. IInv /\ [Next]_vars => IInv'
  BY StepIInv
<1> QED BY <1>1, <1>2, <1>3, <1>4, InitTyped, InitIInv, InitMeant, PTL DEF Spec

=============================================================================
