------------------------------ MODULE MCBnfRun ------------------------------
(***************************************************************************)
(* Instances of BnfRun for TLC, and a meaning of its grammars: functions   *)
(* that follow the parsing expression grammar each of them is.             *)
(***************************************************************************)
EXTENDS BnfRun

Rule(i) == [type |-> "FACT_RULE_LINKED", target |-> i, lit |-> <<>>]
Builtin == [type |-> "FACT_RULE_BUILTIN", target |-> NULL, lit |-> <<>>]
Lit(s) == [type |-> "FACT_LITERAL", target |-> NULL, lit |-> s]
Opt(x) == [type |-> "FACT_EXPR_OPT", target |-> x, lit |-> <<>>]
Ngt(x) == [type |-> "FACT_EXPR_NGT", target |-> x, lit |-> <<>>]
Ngte(x) == [type |-> "FACT_EXPR_NGTE", target |-> x, lit |-> <<>>]

a == Lit(<<"a">>)
b == Lit(<<"b">>)
ab == Lit(<<"a", "b">>)

\* r is the first expression, s the second, and the couple is the third.
Firsts ==
  LET facts == {a, Rule(2), Opt(3), Ngt(3), Ngte(3)} IN
  {<<<<f>>>> : f \in facts} \cup {<<<<f, g>>>> : f, g \in facts}
    \cup {<<<<f>>, <<g>>>> : f, g \in facts} \cup {<<<<f, b>>, <<g, a>>>> : f, g \in {a, Rule(2), Ngte(3)}}
Seconds == {<<<<b>>>>, <<<<a, Rule(1)>>, <<b>>>>, <<<<Rule(1), b>>>>}
Thirds == {<<<<a>>>>, <<<<ab>>, <<Rule(2), b>>>>, <<<<b, Lit(<<>>)>>>>, <<<<Lit(<<>>)>>>>,
           <<<<Builtin>>, <<Opt(2), a>>>>}
Built == {[prods |-> <<[name |-> "r", exprs |-> 1], [name |-> "s", exprs |-> 2]>>,
           exprs |-> <<x, y, z>>] : x \in Firsts, y \in Seconds, z \in Thirds}
NoExprs == [prods |-> <<[name |-> "s", exprs |-> 1], [name |-> "r", exprs |-> NULL]>>,
            exprs |-> <<<<<<b, Rule(2)>>>>>>]
NoGrammar == [prods |-> <<>>, exprs |-> <<>>]
AllGrammars == Built \cup {NoExprs, NoGrammar}

AllTexts == {<<>>, <<"a">>, <<"a", "b", Blank>>, <<Blank, "a", Blank, "a", "b">>,
             <<"b", "a", "b", "b">>, <<"a", OpenComment>>}
AllExtensions == {<<>>, <<"a">>, <<"b">>, <<"b", "a">>}

-----------------------------------------------------------------------------
RECURSIVE AlternativesTo(_, _, _, _), SequenceTo(_, _, _, _), RepetitionTo(_, _, _, _)

Blanks(t, n) == Cardinality({i \in n + 1 .. Len(t) : \A j \in n + 1 .. i : t[j] = Blank})

\* How far a factor of g goes in t from n on.
FactorTo(g, fact, t, n) ==
  CASE fact.type = "FACT_LITERAL" ->
         LET m == n + Blanks(t, n) IN
         IF fact.lit = <<>> THEN IF m = Len(t) THEN Fail ELSE n
         ELSE IF m + Len(fact.lit) <= Len(t) /\ SubSeq(t, m + 1, m + Len(fact.lit)) = fact.lit
           THEN m + Len(fact.lit) ELSE Fail
    [] fact.type = "FACT_RULE_BUILTIN" -> Fail
    [] fact.type = "FACT_RULE_LINKED" -> AlternativesTo(g, g.exprs[g.prods[fact.target].exprs], t, n)
    [] fact.type = "FACT_EXPR_OPT" ->
         LET m == AlternativesTo(g, g.exprs[fact.target], t, n) IN IF m = Fail THEN n ELSE m
    [] fact.type = "FACT_EXPR_NGTE" -> RepetitionTo(g, g.exprs[fact.target], t, n)
    [] fact.type = "FACT_EXPR_NGT" ->
         LET m == AlternativesTo(g, g.exprs[fact.target], t, n)
         IN  IF m = Fail THEN Fail ELSE RepetitionTo(g, g.exprs[fact.target], t, m)

SequenceTo(g, facts, t, n) ==
  IF facts = <<>> THEN n
  ELSE LET m == FactorTo(g, Head(facts), t, n) IN IF m = Fail THEN Fail ELSE SequenceTo(g, Tail(facts), t, m)

AlternativesTo(g, or, t, n) ==
  IF or = <<>> THEN Fail
  ELSE LET m == SequenceTo(g, Head(or), t, n) IN IF m = Fail THEN AlternativesTo(g, Tail(or), t, n) ELSE m

RepetitionTo(g, or, t, n) ==
  LET m == AlternativesTo(g, or, t, n) IN IF m = Fail THEN n ELSE RepetitionTo(g, or, t, m)

\* What these functions say; of a grammar they do not end on, nothing is said.
Sequences(g) == UNION {UNION {Suffixes(g.exprs[x][i]) : i \in DOMAIN g.exprs[x]} : x \in DOMAIN g.exprs}
PegMeaning(g, t) ==
  LET At == 0 .. Len(t)
      ends == WellFormed(g)
      Goes(items, To(_, _)) == IF ends THEN {<<i, n, To(i, n)>> : i \in items, n \in At}
                               ELSE items \X At \X (At \cup {Fail})
      Exprs == Range(g.exprs)
  IN  [factor |-> Goes(FactorsOf(g), LAMBDA f, n : FactorTo(g, f, t, n)),
       sequence |-> Goes(Sequences(g), LAMBDA s, n : SequenceTo(g, s, t, n)),
       alternatives |-> Goes(UNION {Suffixes(x) : x \in Exprs}, LAMBDA o, n : AlternativesTo(g, o, t, n)),
       repetition |-> Goes({g.exprs[f.target] : f \in {f \in FactorsOf(g) : f.type \in Repetitions}}, LAMBDA x, n : RepetitionTo(g, x, t, n))]

=============================================================================
