---------------------------- MODULE MCBnfReader ----------------------------
(***************************************************************************)
(* Instances of BnfReader for TLC: plain grammars, and broken ones made of *)
(* them by cutting, dropping, adding and replacing symbols.                *)
(***************************************************************************)
EXTENDS BnfReader

\* What stands between "::=" and ";" of the first production.
Bodies ==
  {<<"r">>, <<"'a'", "|", "s">>, <<":", "s", "r">>, <<"[", "'a'", "]", "+">>,
   <<"r", "[", "'a'", "|", "s", "]", "*", "'a'">>,
   <<"[", "[", "r", "]", "?", "|", "s", "]", "+", "|", "'a'">>}
Heads == {<<"r">>, <<"r", "(", "s", "r", ")">>, <<"r", "(", "r", "s", Comma, "s", "s", ")">>}
Production(head, body) == head \o OP_RULE \o body \o <<OP_RULE_END>>
Second == Production(<<"s">>, <<"r">>)

Single == {Production(<<"r">>, body) : body \in Bodies}
          \cup {Production(head, <<"r">>) : head \in Heads}
Several == {p \o Second : p \in Single} \cup {<<Blank>> \o Second \o <<Blank>> \o p \o <<Blank>> : p \in Single}
PlainTexts == Single \cup Several
                \cup {Second \o <<Blank>> \o Second \o Production(<<"r">>, <<Blank, "s", Blank, "'a'">>)}

\* A few of them, to be broken at every place.
Whole == {p \o Second : p \in {
  Production(<<"r">>, <<"r", "[", "'a'", "|", "s", "]", "*">>),
  Production(<<"r", "(", "s", "r", Comma, "r", "s", ")">>, <<":", "s">>),
  Production(<<"r">>, <<"[", "[", "r", "]", "?", "|", "s", "]", "+">>)}}
Wrong == {"s", "'a'", "|", "[", "]", "(", "+", OP_RULE_END, ":", Comma, ")", Blank, OpenComment, OpenQuote}
BrokenTexts == UNION {
  {SubSeq(t, 1, n) : n \in 0 .. Len(t)}
    \cup {RemoveAt(t, n) : n \in 1 .. Len(t)}
    \cup {InsertAt(t, n, x) : n \in 1 .. Len(t), x \in Wrong}
    \cup {ReplaceAt(t, n, x) : n \in 1 .. Len(t), x \in Wrong} : t \in Whole}

AllTexts == PlainTexts \cup BrokenTexts

=============================================================================
