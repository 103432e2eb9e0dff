----------------------------- MODULE MCIterate -----------------------------
(***************************************************************************)
(* Instances of Iterate for TLC: the alphabet, the files and the tokens.   *)
(***************************************************************************)
EXTENDS Iterate

Alphabet == {"a", "1", " ", "/", "#", "'"}

\* Every file of up to three characters, and some longer ones.
ShortTexts == UNION {[1 .. n -> Alphabet] : n \in 0 .. 3}
LongTexts ==
  {<<"a", "1", "a", " ", "1", "#">>,
   <<" ", "/", "/", "a", "#", " ", "a", "1">>,
   <<"'", "a", " ", "1", "'", "a">>,
   <<"/", "/", "#", "/", "/", "1", "#", "a">>,
   <<"a", "/", "/", " ", "/", "#", "1", "1">>}

\* A file that can be read to its end, and one that cannot be read from an offset on.
Whole(t) == [text |-> t, fault |-> Len(t) + 1]
Broken(t, n) == [text |-> t, fault |-> n]

\* All of them whole; and the longer ones, and some of the others, broken somewhere.
AllFiles ==
  {Whole(t) : t \in ShortTexts \cup LongTexts}
    \cup UNION {{Broken(t, n) : n \in 0 .. Len(t)} : t \in LongTexts}
    \cup {Broken(t, 2) : t \in [1 .. 3 -> {"a", "/", "#"}]}
LongFiles == {Whole(t) : t \in LongTexts}

LineComment == <<[beg |-> <<"/", "/">>, end |-> <<"#">>]>>
BlockComment == <<[beg |-> <<"/", "/">>, end |-> <<"#", "/">>]>>

Plain == [autoread |-> TRUE, noextend |-> FALSE, blanks |-> TRUE, comments |-> LineComment, buffsize |-> 2]

\* Reading by itself, or not; and a ring that is not extended.
AllSettings ==
  {Plain, [Plain EXCEPT !.autoread = FALSE],
   [Plain EXCEPT !.noextend = TRUE, !.blanks = FALSE, !.comments = <<>>, !.buffsize = 3]}
CutComments == {[Plain EXCEPT !.autoread = FALSE, !.blanks = FALSE, !.comments = BlockComment, !.buffsize = 4]}
FullRing == {[Plain EXCEPT !.noextend = TRUE, !.buffsize = 4]}

OpenComments ==
  {Whole(<<"/", "/", "a", "#">>), Whole(<<"/", "/", "a", "#", "/", "a">>)}

OneByteTokens == {<<"#">>, <<"/">>}
SomeTokens == {<<"#">>, <<"/", "#">>}

AllOptions == {{}, {"CONSUME", "EXTRACT"}, {"IGNORE_PREDATASKIP"}}

=============================================================================
