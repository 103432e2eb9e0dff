-------------------------- MODULE BnfReadBackProofs --------------------------
(***************************************************************************)
(* A grammar written as it should be is read back by rdfl_readBNF as it    *)
(* was written, and accepted: the proof, for every text and every failing  *)
(* malloc.  What was read so far stands in the text by BnfReaderProofs;    *)
(* here it is shown where the reader stands, branch by branch, hence that  *)
(* nothing of what was consumed is given up.                               *)
(***************************************************************************)
EXTENDS BnfReaderProofs

-----------------------------------------------------------------------------
(* A grammar written as it should be: its text *)

\* What may stand behind a factor that is the last of its alternative, and what a
\* factor may begin with.
FactorsEnd == {"|", "]", OP_RULE_END}
FactorBegins == Names \cup Literals \cup {":", "["}

\* What the reader is to find behind the first n symbols when c comes next.
Expects(c, n) ==
  /\ c \in LevelPCs => InBody(n)
  /\ c = "begin" => n = 0
  /\ c = "production" => n = 0 \/ (n \in DOMAIN text /\ text[n] = OP_RULE_END)
  /\ c = "params" => After(n) = "(" \/ RuleAfter(n)
  /\ c = "param" => ParamAfter(n)
  /\ c = "param_next" => After(n) \in {Comma, ")"}
  /\ c = "param_end" => After(n) = ")"
  /\ c = "rule" => RuleAfter(n)
  /\ c = "alternative" => FactorAfter(n)
  /\ c = "factor" => GoesOn(n)
  /\ c = "operand" => After(n) \in Names \cup Literals \cup {"["} \cup FactorsEnd
  /\ c \in {"no_factor", "or"} => After(n) \in FactorsEnd
  /\ c # "no_alternative"
  /\ c = "close" => After(n) = "]"
  /\ c = "rule_end" => After(n) = OP_RULE_END
  /\ c \in LastPCs \cup {"no_production"} => Skip(n) = Len(text)

\* k couples and expressions are being read there: those that were opened.
Depth(c, n, k) ==
  k + Count("]", n) = Count("[", n) + (IF c \in LevelPCs THEN 1 ELSE 0)

\* The locals go with the text.
LocalsOnTrack ==
  /\ pc \notin LastPCs \cup {"no_production"} => ~eof
  /\ pc = "no_production" => eof
  /\ pc = "production" /\ pos # 0 => grammar # <<>>
  /\ pc \in {"no_production", "link"} => grammar # <<>>
  /\ pc = "param_end" => prod.params # <<>>
  /\ pc = "factor" /\ Level.facts = <<>> => FactorAfter(pos)
  /\ pc \in {"operand", "no_factor"} /\ Level.facts = <<>> => After(pos) \notin FactorsEnd

\* The reader is where the text says it is, and met no error.
OnTrack == e = ERR_NONE /\ Expects(pc, pos) /\ Depth(pc, pos, Len(levels)) /\ LocalsOnTrack

\* What was given up for a malloc that failed ends as an error, whatever follows:
\* the next symbol is not what stands behind it.
Refused ==
  /\ ~NoMallocFailed
  /\ \/ pc \in {"done", "end"} /\ grammar = <<>>
     \/ pc \notin LastPCs \cup {"begin"} /\ e # ERR_NONE
     \/ pc = "no_production" /\ ~eof
     \/ /\ pc \in {"no_factor", "no_alternative", "or", "close", "rule_end"}
        /\ ~eof /\ After(pos) \in FactorBegins
     \/ pc \in {"param_end", "rule"} /\ ~eof /\ After(pos) \in Names

\* The text stays what it is.
LEMMA TextStays ==
  ASSUME text' = text
  PROVE  /\ \A n : After(n)' = After(n) /\ Skip(n)' = Skip(n) /\ Symbol(n)' = Symbol(n)
         /\ \A n : (FactorAfter(n)' <=> FactorAfter(n)) /\ (InBody(n)' <=> InBody(n))
         /\ \A n : (GoesOn(n)' <=> GoesOn(n)) /\ (RuleAfter(n)' <=> RuleAfter(n))
         /\ \A c, n : Expects(c, n)' <=> Expects(c, n)
         /\ \A c, n, k : Depth(c, n, k)' <=> Depth(c, n, k)
         /\ Plain' <=> Plain
         /\ Used' = Used /\ Headed' = Headed
<1>1. \A n : Symbol(n)' = Symbol(n)
  BY DEF Symbol
<1>2. ASSUME NEW n PROVE Skip(n)' = Skip(n)
  BY Zenon DEF Skip, Symbol
<1>3. \A n : After(n)' = After(n)
  BY <1>1, <1>2 DEF After
<1>4. ASSUME NEW n PROVE FactorAfter(n)' <=> FactorAfter(n)
  BY <1>1, <1>2, <1>3 DEF FactorAfter
<1>5. ASSUME NEW n PROVE InBody(n)' <=> InBody(n)
  BY DEF InBody
<1>6. ASSUME NEW n PROVE RuleAfter(n)' <=> RuleAfter(n)
  BY <1>2 DEF RuleAfter
<1>7. ASSUME NEW n PROVE GoesOn(n)' <=> GoesOn(n)
  BY <1>3, <1>4 DEF GoesOn
<1>8. ASSUME NEW n PROVE ParamAfter(n)' <=> ParamAfter(n)
  BY <1>1, <1>2, <1>3 DEF ParamAfter
<1>9. ASSUME NEW n PROVE HeadAfter(n)' <=> HeadAfter(n)
  BY <1>2, <1>3, <1>6 DEF HeadAfter
<1>10. \A x, n : Count(x, n)' = Count(x, n)
  BY DEF Count
<1>11. \A c, n : Expects(c, n)' <=> Expects(c, n)
  BY <1>2, <1>3, <1>4, <1>5, <1>6, <1>7, <1>8 DEF Expects
<1>12. \A c, n, k : Depth(c, n, k)' <=> Depth(c, n, k)
  BY <1>10 DEF Depth
<1>13. Plain' <=> Plain
  BY <1>2, <1>3, <1>4, <1>5, <1>6, <1>7, <1>8, <1>9, <1>10, Zenon DEF Plain
<1>14. Used' = Used
  BY <1>5, Zenon DEF Used
<1>15. Headed' = Headed
  BY <1>3, Zenon DEF Headed
<1> QED BY <1>1, <1>2, <1>3, <1>4, <1>5, <1>6, <1>7, <1>11, <1>12, <1>13, <1>14, <1>15

\* Between the first m and the first n symbols there is nothing but what is in S.
Only(S, m, n) == m <= n /\ \A k \in m + 1 .. n : text[k] \in S

LEMMA NextSymbol ==
  ASSUME text \in Texts, NEW n \in 0 .. Len(text), After(n) # End
  PROVE  /\ n \in Nat /\ Skip(n) \in Nat /\ n <= Skip(n)
         /\ Skip(n) + 1 \in Nat /\ Skip(n) + 1 \in 1 .. Len(text) /\ Skip(n) + 1 \in 0 .. Len(text)
         /\ Skip(n) + 1 \in DOMAIN text
         /\ text[Skip(n) + 1] = After(n) /\ After(n) # Blank
         /\ Only({Blank}, n, Skip(n)) /\ Only({Blank, After(n)}, n, Skip(n) + 1)
<1>t. text \in Seq(Symbols) /\ Len(text) \in Nat /\ DOMAIN text = 1 .. Len(text)
  BY TextIsSeq
<1>l. PICK l \in Nat : l = Len(text)
  BY <1>t
<1>n. n \in 0 .. l
  BY <1>l
<1>1. Skip(n) \in n .. l /\ Symbol(Skip(n)) # Blank
  BY <1>l, <1>n, SkipIs
<1>2. \A i \in n .. Skip(n) - 1 : Symbol(i) = Blank
  BY <1>l, <1>n, SkipIs
<1> DEFINE h == Skip(n)
<1>3. h \in n .. l /\ h \in Nat /\ Symbol(h) # Blank /\ Symbol(h) = After(n)
      /\ \A i \in n .. h - 1 : Symbol(i) = Blank
  BY <1>n, <1>1, <1>2 DEF After
<1> HIDE DEF h
<1>4. h + 1 \in 1 .. Len(text) /\ text[h + 1] = Symbol(h)
  BY <1>3, WithinText
<1>5. h + 1 \in 1 .. l
  BY <1>4, <1>l
<1>6. ASSUME NEW k \in n + 1 .. h PROVE text[k] = Blank
  <2>1. k - 1 \in n .. h - 1 /\ k - 1 < l /\ (k - 1) + 1 = k
    BY <1>n, <1>3, <1>5
  <2>2. Symbol(k - 1) = text[k]
    BY <1>l, <2>1 DEF Symbol
  <2> QED BY <1>3, <2>1, <2>2
<1>7. n \in Nat /\ n <= h /\ n <= h + 1 /\ h + 1 \in Nat /\ h + 1 \in 0 .. l
      /\ \A k \in n + 1 .. h + 1 : k \in n + 1 .. h \/ k = h + 1
  BY <1>n, <1>3, <1>5
<1>8. Only({Blank}, n, h) /\ Only({Blank, After(n)}, n, h + 1)
  BY <1>3, <1>4, <1>6, <1>7 DEF Only
<1> QED BY <1>t, <1>l, <1>3, <1>4, <1>7, <1>8 DEF h

LEMMA StaysInBody ==
  ASSUME NEW m \in Nat, NEW n \in Nat, NEW S, Only(S, m, n), OP_RULE_END \notin S, InBody(m)
  PROVE  InBody(n)
<1>1. PICK j \in 1 .. m : text[j] = "=" /\ \A k \in j .. m : text[k] # OP_RULE_END
  BY DEF InBody
<1>2. j \in 1 .. n /\ \A k \in j .. n : k \in j .. m \/ k \in m + 1 .. n
  BY DEF Only
<1> QED BY <1>1, <1>2 DEF InBody, Only

LEMMA CountStays ==
  ASSUME NEW m \in Nat, NEW n \in Nat, NEW S, Only(S, m, n), NEW x, x \notin S
  PROVE  Count(x, n) = Count(x, m)
<1>1. \A k \in 1 .. n : k \in 1 .. m \/ text[k] # x
  <2>1. \A k \in 1 .. n : k \in 1 .. m \/ k \in m + 1 .. n
    OBVIOUS
  <2> QED BY <2>1 DEF Only
<1>2. \A k \in 1 .. m : k \in 1 .. n
  BY DEF Only
<1>3. {k \in 1 .. n : text[k] = x} = {k \in 1 .. m : text[k] = x}
  BY <1>1, <1>2
<1> QED BY <1>3 DEF Count

LEMMA CountNext ==
  ASSUME NEW n \in Nat, NEW x
  PROVE  /\ Count(x, n) \in Nat /\ Count(x, 0) = 0
         /\ Count(x, n + 1) = Count(x, n) + (IF text[n + 1] = x THEN 1 ELSE 0)
<1> DEFINE S == {k \in 1 .. n : text[k] = x}
           T == {k \in 1 .. n + 1 : text[k] = x}
<1>1. IsFiniteSet(S) /\ Cardinality(S) \in Nat
  <2>1. S \in SUBSET (1 .. n)
    OBVIOUS
  <2>2. IsFiniteSet(1 .. n)
    BY FS_Interval
  <2> HIDE DEF S
  <2> QED BY <2>1, <2>2, FS_Subset, FS_CardinalityType
<1>2. T = IF text[n + 1] = x THEN S \cup {n + 1} ELSE S
  <2>1. \A k \in 1 .. n + 1 : k \in 1 .. n \/ k = n + 1
    OBVIOUS
  <2>2. n + 1 \in 1 .. n + 1 /\ \A k \in 1 .. n : k \in 1 .. n + 1
    OBVIOUS
  <2>3. CASE text[n + 1] = x
    BY <2>1, <2>2, <2>3
  <2>4. CASE text[n + 1] # x
    BY <2>1, <2>2, <2>4
  <2> QED BY <2>3, <2>4
<1>3. n + 1 \notin S
  OBVIOUS
<1>4. Count(x, n) = Cardinality(S) /\ Count(x, n + 1) = Cardinality(T)
  BY DEF Count
<1>5. Count(x, 0) = 0
  <2>1. {k \in 1 .. 0 : text[k] = x} = {}
    OBVIOUS
  <2> QED BY <2>1, FS_EmptySet DEF Count
<1> HIDE DEF S, T
<1>6. Cardinality(S \cup {n + 1}) = Cardinality(S) + 1
  BY <1>1, <1>3, FS_AddElement
<1>7. Cardinality(T) = Cardinality(S) + (IF text[n + 1] = x THEN 1 ELSE 0)
  BY <1>1, <1>2, <1>6
<1> QED BY <1>1, <1>4, <1>5, <1>7

\* The next symbol is passed.
LEMMA Passed ==
  ASSUME text \in Texts, NEW n \in 0 .. Len(text), After(n) # End
  PROVE  /\ InBody(n) /\ After(n) # OP_RULE_END => InBody(Skip(n) + 1)
         /\ \A x : x # Blank => Count(x, Skip(n) + 1) = Count(x, n) + (IF After(n) = x THEN 1 ELSE 0)
<1> DEFINE h == Skip(n)
<1>1. n \in Nat /\ h \in Nat /\ h + 1 \in Nat /\ text[h + 1] = After(n)
      /\ Only({Blank}, n, h) /\ Only({Blank, After(n)}, n, h + 1)
  BY NextSymbol
<1>2. Blank # OP_RULE_END
  BY SymbolsDiffer DEF Operators
<1> HIDE DEF h
<1>3. InBody(n) /\ After(n) # OP_RULE_END => InBody(h + 1)
  <2>1. After(n) # OP_RULE_END => OP_RULE_END \notin {Blank, After(n)}
    BY <1>2
  <2> HIDE DEF InBody
  <2> QED BY <1>1, <2>1, StaysInBody
<1>4. ASSUME NEW x, x # Blank PROVE Count(x, h + 1) = Count(x, n) + (IF After(n) = x THEN 1 ELSE 0)
  <2>1. x \notin {Blank}
    BY <1>4
  <2>2. Count(x, h) = Count(x, n)
    BY <1>1, <2>1, CountStays
  <2>3. Count(x, h + 1) = Count(x, h) + (IF text[h + 1] = x THEN 1 ELSE 0)
    BY <1>1, CountNext
  <2> QED BY <1>1, <2>2, <2>3
<1> QED BY <1>3, <1>4 DEF h

\* What the symbols are not.
LEMMA PlainSymbols ==
  /\ \A x \in Names : x \notin Literals /\ x \notin Marks
  /\ \A x \in Literals : x \notin Names /\ x \notin Marks
  /\ \A x \in Marks : x \notin Names /\ x \notin Literals
  /\ DOMAIN OpFeed = {"+", "*", "?"} /\ DOMAIN OpFeed \subseteq Marks
  /\ \A x \in DOMAIN OpFeed : x \notin {"(", ")", Comma, ":", "=", OP_RULE_END, "|", "[", "]",
                                        Blank, OpenComment, OpenQuote, End}
  /\ "(" # ")" /\ "(" # ":" /\ ")" # ":" /\ ":" # "[" /\ ":" # "]" /\ ":" # "|" /\ ":" # OP_RULE_END
  /\ "[" # "]" /\ "[" # "|" /\ "[" # OP_RULE_END /\ "]" # "|" /\ "]" # OP_RULE_END /\ "|" # OP_RULE_END
  /\ Comma # ")" /\ ":" # "=" /\ "=" # OP_RULE_END /\ "(" # OP_RULE_END /\ ")" # OP_RULE_END
  /\ "[" # Blank /\ "]" # Blank /\ ":" # Blank /\ "=" # Blank /\ OP_RULE_END # Blank
  /\ Comma # "[" /\ Comma # "]" /\ "(" # "[" /\ "(" # "]" /\ ")" # "[" /\ ")" # "]" /\ "=" # "[" /\ "=" # "]"
  /\ "[" \in Marks /\ "]" \in Marks /\ ":" \in Marks /\ OP_RULE_END \in Marks /\ "|" \in Marks
  /\ "(" \in Marks /\ ")" \in Marks /\ "=" \in Marks /\ Comma \in Marks
  /\ End \in Marks /\ Blank \in Marks /\ OpenComment \in Marks /\ OpenQuote \in Marks
  /\ \A x \in {"(", ")", Comma, ":", "=", OP_RULE_END, "|", "[", "]", "+", "*", "?"} :
       x # Blank /\ x # OpenComment /\ x # OpenQuote /\ x # End
<1>1. \A x \in Names : x \notin Literals /\ x \notin Marks
  BY BnfReaderAssumption
<1>2. \A x \in Literals : x \notin Names /\ x \notin Marks
  BY BnfReaderAssumption
<1>3. DOMAIN OpFeed = {"+", "*", "?"}
  BY DEF OpFeed
<1>4. {"+", "*", "?"} \subseteq Marks
  BY DEF Marks
<1>5. \A x \in {"+", "*", "?"} : x \notin {"(", ")", Comma, ":", "=", OP_RULE_END, "|", "[", "]",
                                          Blank, OpenComment, OpenQuote, End}
  BY Zenon DEF Comma, OP_RULE_END, Blank, OpenComment, OpenQuote, End
<1>6. /\ "(" # ")" /\ "(" # ":" /\ ")" # ":" /\ ":" # "[" /\ ":" # "]" /\ ":" # "|" /\ ":" # OP_RULE_END
      /\ "[" # "]" /\ "[" # "|" /\ "[" # OP_RULE_END /\ "]" # "|" /\ "]" # OP_RULE_END /\ "|" # OP_RULE_END
      /\ Comma # ")" /\ ":" # "=" /\ "=" # OP_RULE_END /\ "(" # OP_RULE_END /\ ")" # OP_RULE_END
      /\ "[" # Blank /\ "]" # Blank /\ ":" # Blank /\ "=" # Blank /\ OP_RULE_END # Blank
      /\ Comma # "[" /\ Comma # "]" /\ "(" # "[" /\ "(" # "]" /\ ")" # "[" /\ ")" # "]"
      /\ "=" # "[" /\ "=" # "]"
  BY DEF Comma, OP_RULE_END, Blank
<1>7. /\ "[" \in Marks /\ "]" \in Marks /\ ":" \in Marks /\ OP_RULE_END \in Marks /\ "|" \in Marks
      /\ "(" \in Marks /\ ")" \in Marks /\ "=" \in Marks /\ Comma \in Marks
      /\ End \in Marks /\ Blank \in Marks /\ OpenComment \in Marks /\ OpenQuote \in Marks
  BY DEF Marks
<1>8. \A x \in {"(", ")", Comma, ":", "=", OP_RULE_END, "|", "[", "]", "+", "*", "?"} :
        x # Blank /\ x # OpenComment /\ x # OpenQuote /\ x # End
  BY DEF Comma, OP_RULE_END, Blank, OpenComment, OpenQuote, End
<1> HIDE DEF Marks
<1> QED BY <1>1, <1>2, <1>3, <1>4, <1>5, <1>6, <1>7, <1>8

-----------------------------------------------------------------------------
(* A grammar written as it should be: the reader is on track, or refuses it *)

\* On track nothing is lost but the ":" of a builtin rule for which malloc fails.
Straight ==
  /\ pc' = "no_production" => pc = "production"
  /\ pc = "param" => pc' = "param_next"
  /\ pc = "param_end" => prod.params # <<>> /\ At(")")
  /\ pc # "no_alternative" /\ pc' # "no_alternative"
  /\ pc = "close" => pc' = "factor"
  /\ pc = "factor" /\ pc' = "operand" => pos' = pos \/ ~NoMallocFailed'
  /\ grammar' = <<>> => grammar = <<>> \/ pc' \in {"done", "end"}

GoesStraight == OnTrack' /\ Straight

LEMMA Now ==
  ASSUME Typed
  PROVE  /\ text \in Texts /\ pos \in 0 .. Len(text) /\ pos \in Nat
         /\ Here = Skip(pos) /\ Symbol(Here) = After(pos)
         /\ LooksAtEnd <=> After(pos) \in {End, OpenComment}
         /\ \A op : At(op) <=> After(pos) = op
<1>1. text \in Texts /\ pos \in 0 .. Len(text)
  BY DEF Typed, StreamTyped
<1>2. pos \in Nat
  BY HereBehind
<1> QED BY <1>1, <1>2 DEF Here, After, LooksAtEnd, At

\* The reader arrives where it is expected.
LEMMA Arrives ==
  ASSUME text' = text, e' = ERR_NONE, Expects(pc', pos'), Depth(pc', pos', Len(levels')),
         pc' \notin LastPCs \cup {"no_production"} => ~eof',
         pc' = "no_production" => eof',
         pc' = "production" /\ pos' # 0 => grammar' # <<>>,
         pc' \in {"no_production", "link"} => grammar' # <<>>,
         pc' = "param_end" => prod'.params # <<>>,
         pc' = "factor" /\ Level'.facts = <<>> => FactorAfter(pos'),
         pc' \in {"operand", "no_factor"} /\ Level'.facts = <<>> => After(pos') \notin FactorsEnd
  PROVE  OnTrack'
<1>1. (Expects(pc, pos))' <=> Expects(pc', pos')
  BY TextStays
<1>2. (Depth(pc, pos, Len(levels)))' <=> Depth(pc', pos', Len(levels'))
  BY TextStays
<1>3. FactorAfter(pos)' <=> FactorAfter(pos')
  BY TextStays
<1>4. After(pos)' = After(pos')
  BY TextStays
<1>5. LocalsOnTrack'
  BY <1>3, <1>4 DEF LocalsOnTrack
<1> QED BY <1>1, <1>2, <1>5 DEF OnTrack

LEMMA FailedNow ==
  ASSUME Typed
  PROVE  /\ MallocFails => ~NoMallocFailed'
         /\ ~NoMallocFailed /\ (MallocFails \/ failures' = failures) => ~NoMallocFailed'
<1>1. PICK m \in Nat : m = MaxFailures
  BY BnfReaderAssumption
<1>2. failures \in 0 .. m
  BY <1>1 DEF Typed, MemoryTyped
<1> QED BY <1>1, <1>2 DEF MallocFails, NoMallocFailed

LEMMA Errors == ERR_MEMORY_ALLOC # ERR_NONE /\ ERRBNF_SYNTAX # ERR_NONE
  BY DEF ERR_MEMORY_ALLOC, ERRBNF_SYNTAX, ERR_NONE

\* What comes next stays where it is.
LEMMA RefusedNow ==
  ASSUME text' = text, ~NoMallocFailed',
         \/ pc' \in {"done", "end"} /\ grammar' = <<>>
         \/ pc' \notin LastPCs \cup {"begin"} /\ e' # ERR_NONE
         \/ pc' = "no_production" /\ ~eof'
         \/ /\ pc' \in {"no_factor", "no_alternative", "or", "close", "rule_end"}
            /\ ~eof' /\ After(pos') \in FactorBegins
         \/ pc' \in {"param_end", "rule"} /\ ~eof' /\ After(pos') \in Names
  PROVE  Refused'
<1>1. After(pos)' = After(pos')
  BY TextStays
<1> QED BY <1>1 DEF Refused, FactorBegins

LEMMA AfterAll ==
  ASSUME text \in Texts, NEW n \in 0 .. Len(text), Skip(n) = Len(text)
  PROVE  After(n) = End
<1>1. Len(text) \in Nat
  BY TextIsSeq
<1>2. PICK l \in Nat : l = Len(text)
  BY <1>1
<1>3. Symbol(l) = End
  BY <1>2 DEF Symbol
<1> QED BY <1>2, <1>3 DEF After

\* Who reads a symbol to its end does not see the end of the file if more follows.
LEMMA NotLast ==
  ASSUME text \in Texts, NEW n \in Nat, n + 1 \in 0 .. Len(text), After(n + 1) # End
  PROVE  ~LastName(n)
<1>1. PICK l \in Nat : l = Len(text)
  BY TextIsSeq
<1>2. SUFFICES ASSUME n + 1 = l PROVE FALSE
  BY <1>1 DEF LastName
<1>3. Skip(n + 1) \in n + 1 .. l
  BY <1>1, <1>2, SkipIs
<1>4. Skip(n + 1) = Len(text)
  BY <1>1, <1>2, <1>3
<1> QED BY <1>4, AfterAll

\* A symbol that is not blank is the next.
LEMMA SkipStays ==
  ASSUME text \in Texts, NEW n \in 0 .. Len(text), Symbol(n) # Blank
  PROVE  Skip(n) = n /\ After(n) = Symbol(n)
<1>1. PICK l \in Nat : l = Len(text)
  BY TextIsSeq
<1>2. Skip(n) \in n .. l /\ \A i \in n .. Skip(n) - 1 : Symbol(i) = Blank
  BY <1>1, SkipIs
<1> DEFINE h == Skip(n)
<1>3. h \in n .. l /\ \A i \in n .. h - 1 : Symbol(i) = Blank
  BY <1>2
<1> HIDE DEF h, Symbol
<1>4. n \in n .. h - 1 => FALSE
  BY <1>3
<1>5. h = n
  BY <1>1, <1>3, <1>4
<1> QED BY <1>5 DEF h, After

\* "::=" is next.
LEMMA RuleNext ==
  ASSUME text \in Texts, NEW n \in 0 .. Len(text), RuleAfter(n)
  PROVE  /\ After(n) = ":" /\ Skip(n) + 3 \in Nat /\ Skip(n) + 3 \in 1 .. Len(text)
         /\ Skip(n) + 3 \in DOMAIN text /\ Skip(n) + 3 \in 0 .. Len(text)
         /\ text[Skip(n) + 3] = "=" /\ Only({Blank, ":", "="}, n, Skip(n) + 3)
<1>1. text \in Seq(Symbols) /\ Len(text) \in Nat /\ DOMAIN text = 1 .. Len(text)
  BY TextIsSeq
<1>2. PICK l \in Nat : l = Len(text)
  BY <1>1
<1>s. Skip(n) \in n .. l /\ \A i \in n .. Skip(n) - 1 : Symbol(i) = Blank
  BY <1>2, SkipIs
<1> DEFINE h == Skip(n)
           Rest == SubSeq(text, h + 1, Len(text))
           r == SubSeq(Rest, 1, 3)
<1>3. h \in n .. l /\ h \in Nat /\ n \in Nat
  BY <1>2, <1>s
<1>p. IsPrefix(OP_RULE, Rest)
  BY DEF RuleAfter
<1>b. Only({Blank}, n, h)
  <2>1. \A i \in n .. h - 1 : Symbol(i) = Blank
    BY <1>s
  <2> HIDE DEF h
  <2>2. ASSUME NEW k \in n + 1 .. h PROVE text[k] = Blank
    <3>1. k - 1 \in n .. h - 1 /\ k - 1 < l /\ (k - 1) + 1 = k
      BY <1>2, <1>3
    <3>2. Symbol(k - 1) = text[k]
      BY <1>2, <3>1 DEF Symbol
    <3> QED BY <2>1, <3>1, <3>2
  <2> QED BY <1>3, <2>2 DEF Only
<1> HIDE DEF h
<1>4. Len(Rest) >= 3 /\ r[1] = ":" /\ r[2] = ":" /\ r[3] = "="
  <2>1. /\ Len(OP_RULE) = 3 /\ SubSeq(OP_RULE, 1, 3)[1] = ":" /\ SubSeq(OP_RULE, 1, 3)[2] = ":"
        /\ SubSeq(OP_RULE, 1, 3)[3] = "="
    BY DEF OP_RULE
  <2>2. Len(Rest) >= 3 /\ r = SubSeq(OP_RULE, 1, 3)
    <3> HIDE DEF Rest
    <3> QED BY <1>p, <2>1 DEF IsPrefix
  <2> HIDE DEF r, Rest
  <2> QED BY <2>1, <2>2
<1>5. \A k \in 1 .. 3 : r[k] = Rest[k]
  <2>1. Rest \in Seq(Symbols)
    BY <1>1, <1>2, <1>3
  <2> HIDE DEF Rest, r
  <2>2. \A k \in 1 .. 3 : k \in 1 .. Len(Rest)
    BY <1>4, <2>1, LenProperties
  <2>3. \A k \in 1 .. 3 : SubSeq(Rest, 1, 3)[k] = Rest[k]
    BY <2>1, <2>2, <1>4, SMTT(30)
  <2> QED BY <2>3 DEF r
<1>6. /\ Len(Rest) = IF h + 1 <= l THEN l - h ELSE 0
      /\ \A k \in 1 .. Len(Rest) : Rest[k] = text[h + k]
  BY <1>1, <1>2, <1>3
<1> HIDE DEF r
<1>7. text[h + 1] = ":" /\ text[h + 2] = ":" /\ text[h + 3] = "=" /\ h + 3 <= l
  <2>1. 1 \in 1 .. 3 /\ 2 \in 1 .. 3 /\ 3 \in 1 .. 3
    OBVIOUS
  <2>2. 1 \in 1 .. Len(Rest) /\ 2 \in 1 .. Len(Rest) /\ 3 \in 1 .. Len(Rest) /\ h + 3 <= l
    BY <1>2, <1>3, <1>4, <1>6
  <2> HIDE DEF Rest
  <2> QED BY <1>4, <1>5, <1>6, <2>1, <2>2
<1> HIDE DEF Rest
<1>8. After(n) = ":"
  <2>1. h < Len(text)
    BY <1>2, <1>3, <1>7
  <2>2. Symbol(h) = ":"
    BY <1>7, <2>1 DEF Symbol
  <2> QED BY <2>2 DEF After, h
<1>9. \A k \in n + 1 .. h + 3 : k \in n + 1 .. h \/ k = h + 1 \/ k = h + 2 \/ k = h + 3
  BY <1>3
<1>10. n <= h + 3 /\ h + 3 \in Nat /\ h + 3 \in 1 .. l /\ h + 3 \in 0 .. l
  BY <1>3, <1>7
<1>11. Only({Blank, ":", "="}, n, h + 3)
  BY <1>b, <1>7, <1>9, <1>10 DEF Only
<1> QED BY <1>1, <1>2, <1>7, <1>8, <1>10, <1>11 DEF h

\* The next symbol is consumed.
LEMMA Consumed ==
  ASSUME Typed, After(pos) # End, pos' = Here + 1
  PROVE  /\ pos' \in Nat /\ pos' \in DOMAIN text /\ pos' \in 0 .. Len(text) /\ text[pos'] = After(pos)
         /\ Here \in Nat /\ Here + 1 = pos'
         /\ InBody(pos) /\ After(pos) # OP_RULE_END => InBody(pos')
         /\ \A x : x # Blank => Count(x, pos') = Count(x, pos) + (IF After(pos) = x THEN 1 ELSE 0)
<1>1. text \in Texts /\ pos \in 0 .. Len(text) /\ Here = Skip(pos)
  BY Now
<1> QED BY <1>1, NextSymbol, Passed

LEMMA DepthStays ==
  ASSUME Typed, Depth(pc, pos, Len(levels)), levels' = levels, pc \in LevelPCs <=> pc' \in LevelPCs,
         \/ pos' = pos
         \/ pos' = Here + 1 /\ After(pos) \notin {End, "[", "]"}
  PROVE  Depth(pc', pos', Len(levels'))
<1>1. CASE pos' = pos
  BY <1>1 DEF Depth
<1>2. CASE pos' = Here + 1 /\ After(pos) \notin {End, "[", "]"}
  <2>1. Count("[", pos') = Count("[", pos) + 0 /\ Count("]", pos') = Count("]", pos) + 0
    BY <1>2, Consumed, PlainSymbols
  <2>2. Count("[", pos) \in Nat /\ Count("]", pos) \in Nat
    BY Now, CountNext
  <2> QED BY <2>1, <2>2 DEF Depth
<1> QED BY <1>1, <1>2

\* Nothing is read when nothing is being read.
LEMMA NoLevelsNow ==
  ASSUME Typed, pc \notin LevelPCs PROVE levels = <<>> /\ Len(levels) = 0
  BY DEF Typed, LevelsTyped

-----------------------------------------------------------------------------
(* On track: the productions and their parameters *)

LEMMA BeginOnTrack ==
  ASSUME Typed, Phases, Plain, OnTrack, Begin PROVE Refused' \/ GoesStraight
<1>0. /\ pc = "begin" /\ pc \notin LevelPCs /\ UNCHANGED <<text, pos, eof, e, levels, grammar>>
      /\ grammar = <<>> /\ pos = 0 /\ ~eof /\ e = ERR_NONE
  BY DEF Begin, LevelPCs, LastPCs, Phases, OnTrack, Expects, LocalsOnTrack
<1>1. CASE pc' = "production"
  <2>1. Expects(pc', pos')
    BY <1>0, <1>1 DEF Expects, LevelPCs, LastPCs
  <2>2. Depth(pc', pos', Len(levels'))
    BY <1>0, <1>1, DepthStays DEF OnTrack, LevelPCs
  <2>3. OnTrack'
    BY <1>0, <1>1, <2>1, <2>2, Arrives
  <2> QED BY <1>0, <1>1, <2>3 DEF GoesStraight, Straight
<1>2. CASE pc' = "done" /\ MallocFails
  BY <1>0, <1>2, FailedNow, RefusedNow
<1> QED BY <1>1, <1>2 DEF Begin

LEMMA ReadNameOnTrack ==
  ASSUME Typed, Phases, Plain, OnTrack, ReadName PROVE Refused' \/ GoesStraight
<1>0. /\ pc = "production" /\ pc \notin LevelPCs /\ UNCHANGED <<text, levels, grammar>>
      /\ ~eof /\ e = ERR_NONE /\ (pos # 0 => grammar # <<>>)
      /\ pos = 0 \/ (pos \in DOMAIN text /\ text[pos] = OP_RULE_END)
  BY DEF ReadName, LevelPCs, LastPCs, OnTrack, Expects, LocalsOnTrack
<1>n. /\ text \in Texts /\ pos \in 0 .. Len(text) /\ Here = Skip(pos) /\ Symbol(Here) = After(pos)
      /\ LooksAtEnd <=> After(pos) \in {End, OpenComment}
  BY Now
<1>1. HeadAfter(pos) \/ (Skip(pos) = Len(text) /\ pos # 0)
  BY <1>0, Zenon DEF Plain
<1>2. CASE HeadAfter(pos) /\ Malloc /\ pos' = Here + 1 /\ pc' = "params" /\ e' = e
  <2>1. After(pos) \in Names /\ (After(pos') = "(" \/ RuleAfter(pos'))
    BY <1>n, <1>2 DEF HeadAfter
  <2>2. After(pos) \notin {End, "[", "]", OpenComment}
    BY <2>1, PlainSymbols
  <2>3. pos' \in Nat /\ pos' \in 0 .. Len(text) /\ Here \in Nat /\ Here + 1 = pos'
    BY <1>2, <2>2, Consumed
  <2>4. After(pos') # End
    BY <1>n, <2>1, <2>3, RuleNext, PlainSymbols
  <2>5. ~LastName(Here)
    BY <1>n, <2>3, <2>4, NotLast
  <2>6. ~eof'
    BY <1>0, <1>n, <2>2, <2>5 DEF ReadName
  <2>7. Expects(pc', pos')
    BY <1>2, <2>1 DEF Expects, LevelPCs, LastPCs
  <2>8. Depth(pc', pos', Len(levels'))
    BY <1>0, <1>2, <2>2, DepthStays DEF OnTrack, LevelPCs
  <2>9. OnTrack'
    BY <1>0, <1>2, <2>6, <2>7, <2>8, Arrives
  <2> QED BY <1>0, <1>2, <2>9 DEF GoesStraight, Straight
<1>3. CASE MallocFails /\ e' = ERR_MEMORY_ALLOC /\ pc' = "no_production"
  BY <1>0, <1>3, FailedNow, RefusedNow, Errors DEF LastPCs
<1>4. CASE Skip(pos) = Len(text) /\ pos # 0 /\ Symbol(Here) \notin Names
  <2>1. After(pos) = End /\ End # OpenComment
    BY <1>n, <1>4, AfterAll, Zenon DEF End, OpenComment
  <2>2. e' = e /\ pc' = "no_production" /\ pos' = pos /\ eof'
    BY <1>n, <1>4, <2>1 DEF ReadName
  <2>3. Expects(pc', pos')
    BY <1>4, <2>2 DEF Expects, LevelPCs, LastPCs
  <2>4. Depth(pc', pos', Len(levels'))
    BY <1>0, <2>2, DepthStays DEF OnTrack, LevelPCs
  <2>5. OnTrack'
    BY <1>0, <1>4, <2>2, <2>3, <2>4, Arrives
  <2> QED BY <1>0, <2>2, <2>5 DEF GoesStraight, Straight
<1>5. HeadAfter(pos) => Symbol(Here) \in Names
  BY <1>n DEF HeadAfter
<1>6. Skip(pos) = Len(text) => Symbol(Here) \notin Names
  BY <1>n, AfterAll, PlainSymbols
<1> QED BY <1>1, <1>2, <1>3, <1>4, <1>5, <1>6 DEF ReadName

LEMMA ReadParamsOnTrack ==
  ASSUME Typed, Phases, Plain, OnTrack, ReadParams PROVE Refused' \/ GoesStraight
<1>0. /\ pc = "params" /\ pc \notin LevelPCs /\ UNCHANGED <<text, e, levels, grammar>>
      /\ ~eof /\ e = ERR_NONE /\ (After(pos) = "(" \/ RuleAfter(pos))
  BY DEF ReadParams, LevelPCs, LastPCs, OnTrack, Expects, LocalsOnTrack
<1>n. /\ text \in Texts /\ pos \in 0 .. Len(text) /\ Symbol(Here) = After(pos)
      /\ LooksAtEnd <=> After(pos) \in {End, OpenComment}
  BY Now
<1>r. RuleAfter(pos) => After(pos) = ":"
  BY <1>n, RuleNext
<1>1. CASE Consume("(") /\ pc' = "param"
  <2>1. After(pos) = "(" /\ pos' = Here + 1 /\ ~eof'
    BY <1>0, <1>n, <1>1 DEF Consume, At
  <2>2. After(pos) \notin {End, "[", "]"}
    BY <2>1, PlainSymbols
  <2>3. pos' \in DOMAIN text /\ text[pos'] = "("
    BY <2>1, <2>2, Consumed
  <2>4. ParamAfter(pos')
    BY <2>3 DEF Plain
  <2>5. Expects(pc', pos')
    BY <1>1, <2>4 DEF Expects, LevelPCs, LastPCs
  <2>6. Depth(pc', pos', Len(levels'))
    BY <1>0, <1>1, <2>1, <2>2, DepthStays DEF OnTrack, LevelPCs
  <2>7. OnTrack'
    BY <1>0, <1>1, <2>1, <2>5, <2>6, Arrives
  <2> QED BY <1>0, <1>1, <2>7 DEF GoesStraight, Straight
<1>2. CASE NoOperator({"("}) /\ pc' = WithoutParams(e)
  <2>1. After(pos) # "(" /\ pos' = pos /\ pc' = "rule"
    BY <1>0, <1>n, <1>2 DEF NoOperator, WithoutParams
  <2>2. RuleAfter(pos) /\ After(pos) = ":" /\ ":" \notin {End, OpenComment}
    BY <1>0, <1>r, <2>1, PlainSymbols
  <2>3. ~eof'
    BY <1>0, <1>n, <1>2, <2>2 DEF NoOperator
  <2>4. Expects(pc', pos')
    BY <2>1, <2>2 DEF Expects, LevelPCs, LastPCs
  <2>5. Depth(pc', pos', Len(levels'))
    BY <1>0, <2>1, DepthStays DEF OnTrack, LevelPCs
  <2>6. OnTrack'
    BY <1>0, <2>1, <2>3, <2>4, <2>5, Arrives
  <2> QED BY <1>0, <2>1, <2>6 DEF GoesStraight, Straight
<1> QED BY <1>1, <1>2 DEF ReadParams

\* A type and a name are there.
LEMMA ReadParamOnTrack ==
  ASSUME Typed, Phases, Plain, OnTrack, ReadParam PROVE Refused' \/ GoesStraight
<1> DEFINE id == Skip(Here + 1)
<1>0. /\ pc = "param" /\ pc \notin LevelPCs /\ UNCHANGED <<text, levels, grammar>>
      /\ ~eof /\ e = ERR_NONE /\ ParamAfter(pos)
  BY DEF ReadParam, LevelPCs, LastPCs, OnTrack, Expects, LocalsOnTrack
<1>n. /\ text \in Texts /\ pos \in 0 .. Len(text) /\ Here = Skip(pos) /\ Symbol(Here) = After(pos)
      /\ LooksAtEnd <=> After(pos) \in {End, OpenComment}
  BY Now
<1>1. After(pos) \in Names /\ Symbol(id) \in Names /\ After(id + 1) \in {Comma, ")"}
      /\ Symbol(id) = After(Here + 1)
  BY <1>0, <1>n DEF ParamAfter, After
<1>2. After(pos) \notin {End, "[", "]", OpenComment} /\ Symbol(id) \notin {End, "[", "]", Blank}
      /\ After(id + 1) # End
  BY <1>1, PlainSymbols
<1>3. Here + 1 \in 0 .. Len(text) /\ Here + 1 \in Nat /\ Here \in Nat
  BY <1>n, <1>2, NextSymbol
<1>4. id \in Nat /\ id + 1 \in 0 .. Len(text) /\ id + 1 \in Nat
  BY <1>n, <1>1, <1>2, <1>3, NextSymbol
<1>5. ~LastName(Here) /\ ~LastName(id)
  <2> HIDE DEF id
  <2> QED BY <1>n, <1>1, <1>2, <1>3, <1>4, NotLast
<1>6. /\ Count("[", id + 1) = Count("[", pos) /\ Count("]", id + 1) = Count("]", pos)
  <2>1. /\ Count("[", Here + 1) = Count("[", pos) + 0 /\ Count("]", Here + 1) = Count("]", pos) + 0
    BY <1>n, <1>2, Passed, PlainSymbols
  <2>2. /\ Count("[", id + 1) = Count("[", Here + 1) + 0 /\ Count("]", id + 1) = Count("]", Here + 1) + 0
    BY <1>n, <1>1, <1>2, <1>3, Passed, PlainSymbols
  <2>3. Count("[", pos) \in Nat /\ Count("]", pos) \in Nat
    BY Now, CountNext
  <2> QED BY <2>1, <2>2, <2>3
<1>7. CASE pos' = id + 1 /\ eof' = (eof \/ LastName(id)) /\ pc' = "param_next" /\ e' = e
  <2>1. Expects(pc', pos')
    BY <1>1, <1>7 DEF Expects, LevelPCs, LastPCs
  <2>2. Depth(pc', pos', Len(levels'))
    BY <1>0, <1>6, <1>7 DEF OnTrack, Depth, LevelPCs
  <2> HIDE DEF id
  <2>3. OnTrack'
    BY <1>0, <1>5, <1>7, <2>1, <2>2, Arrives
  <2> QED BY <1>0, <1>7, <2>3 DEF GoesStraight, Straight
<1>8. CASE MallocFails /\ (NoParam(ERR_MEMORY_ALLOC) \/ NoParam(ERRBNF_SYNTAX))
  <2>1. e' # ERR_NONE /\ pc' = "no_production"
    BY <1>8, Errors DEF NoParam
  <2> QED BY <1>0, <1>8, <2>1, FailedNow, RefusedNow DEF LastPCs
<1>9. CASE MallocFails /\ NoParam(e) /\ eof' = (eof \/ LooksAtEnd \/ LastName(Here)) /\ pos' = pos
  <2>1. \/ e' # ERR_NONE /\ pc' = "no_production"
        \/ pc' = "param_end"
    BY <1>9 DEF NoParam
  <2>2. ~eof' /\ After(pos') \in Names
    BY <1>0, <1>n, <1>1, <1>2, <1>5, <1>9
  <2> QED BY <1>0, <1>9, <2>1, <2>2, FailedNow, RefusedNow DEF LastPCs
<1>10. \/ pos' = id + 1 /\ eof' = (eof \/ LastName(id)) /\ pc' = "param_next" /\ e' = e
       \/ MallocFails /\ NoParam(ERR_MEMORY_ALLOC)
       \/ MallocFails /\ NoParam(ERRBNF_SYNTAX)
       \/ MallocFails /\ NoParam(e) /\ eof' = (eof \/ LooksAtEnd \/ LastName(Here)) /\ pos' = pos
  <2>1. Symbol(Here) \in Names /\ Symbol(Skip(Here + 1)) \in Names
    BY <1>n, <1>1
  <2> QED BY <2>1, Zenon DEF ReadParam
<1> HIDE DEF id
<1> QED BY <1>7, <1>8, <1>9, <1>10

LEMMA ReadParamNextOnTrack ==
  ASSUME Typed, Phases, Plain, OnTrack, ReadParamNext PROVE Refused' \/ GoesStraight
<1>0. /\ pc = "param_next" /\ pc \notin LevelPCs /\ UNCHANGED <<text, e, prod, levels, grammar>>
      /\ ~eof /\ e = ERR_NONE /\ After(pos) \in {Comma, ")"} /\ prod.params # <<>>
  BY DEF ReadParamNext, LevelPCs, LastPCs, OnTrack, Expects, LocalsOnTrack, Phases
<1>n. /\ text \in Texts /\ pos \in 0 .. Len(text) /\ Symbol(Here) = After(pos)
      /\ LooksAtEnd <=> After(pos) \in {End, OpenComment}
  BY Now
<1>s. Comma \notin {End, "[", "]"} /\ ")" \notin {End, "[", "]", OpenComment}
  BY PlainSymbols
<1>1. CASE Consume(Comma) /\ pc' = "param"
  <2>1. After(pos) = Comma /\ pos' = Here + 1 /\ ~eof'
    BY <1>0, <1>n, <1>1 DEF Consume, At
  <2>3. pos' \in DOMAIN text /\ text[pos'] = Comma
    BY <1>s, <2>1, Consumed
  <2>4. ParamAfter(pos')
    BY <2>3 DEF Plain
  <2>5. Expects(pc', pos')
    BY <1>1, <2>4 DEF Expects, LevelPCs, LastPCs
  <2>6. Depth(pc', pos', Len(levels'))
    BY <1>0, <1>1, <1>s, <2>1, DepthStays DEF OnTrack, LevelPCs
  <2>7. OnTrack'
    BY <1>0, <1>1, <2>1, <2>5, <2>6, Arrives
  <2> QED BY <1>0, <1>1, <2>7 DEF GoesStraight, Straight
<1>2. CASE NoOperator({Comma}) /\ pc' = "param_end"
  <2>1. After(pos) = ")" /\ pos' = pos /\ ~eof'
    BY <1>0, <1>n, <1>s, <1>2 DEF NoOperator
  <2>4. Expects(pc', pos')
    BY <1>2, <2>1 DEF Expects, LevelPCs, LastPCs
  <2>5. Depth(pc', pos', Len(levels'))
    BY <1>0, <1>2, <2>1, DepthStays DEF OnTrack, LevelPCs
  <2>6. OnTrack'
    BY <1>0, <1>2, <2>1, <2>4, <2>5, Arrives
  <2> QED BY <1>0, <1>2, <2>6 DEF GoesStraight, Straight
<1> QED BY <1>1, <1>2 DEF ReadParamNext

LEMMA ReadParamEndOnTrack ==
  ASSUME Typed, Phases, Plain, OnTrack, ReadParamEnd PROVE Refused' \/ GoesStraight
<1>0. /\ pc = "param_end" /\ pc \notin LevelPCs /\ UNCHANGED <<text, e, levels, grammar>>
      /\ ~eof /\ e = ERR_NONE /\ After(pos) = ")" /\ prod.params # <<>>
  BY DEF ReadParamEnd, LevelPCs, LastPCs, OnTrack, Expects, LocalsOnTrack
<1>n. Symbol(Here) = After(pos) /\ (At(")") <=> After(pos) = ")")
  BY Now
<1>1. Consume(")") /\ pc' = "rule"
  BY <1>0, <1>n DEF ReadParamEnd, NoOperator
<1>2. pos' = Here + 1 /\ ~eof' /\ ")" \notin {End, "[", "]"}
  BY <1>0, <1>1, PlainSymbols DEF Consume
<1>3. pos' \in DOMAIN text /\ text[pos'] = ")"
  BY <1>0, <1>2, Consumed
<1>4. RuleAfter(pos')
  BY <1>3 DEF Plain
<1>5. Expects(pc', pos')
  BY <1>1, <1>4 DEF Expects, LevelPCs, LastPCs
<1>6. Depth(pc', pos', Len(levels'))
  BY <1>0, <1>1, <1>2, DepthStays DEF OnTrack, LevelPCs
<1>7. OnTrack'
  BY <1>0, <1>1, <1>2, <1>5, <1>6, Arrives
<1> QED BY <1>0, <1>n, <1>1, <1>7 DEF GoesStraight, Straight

LEMMA ReadRuleOnTrack ==
  ASSUME Typed, Phases, Plain, OnTrack, ReadRule PROVE Refused' \/ GoesStraight
<1>0. /\ pc = "rule" /\ pc \notin LevelPCs /\ UNCHANGED <<text, e, grammar>>
      /\ ~eof /\ e = ERR_NONE /\ RuleAfter(pos)
  BY DEF ReadRule, LevelPCs, LastPCs, OnTrack, Expects, LocalsOnTrack
<1>n. text \in Texts /\ pos \in 0 .. Len(text) /\ Here = Skip(pos) /\ pos \in Nat
  BY Now
<1>1. IsPrefix(OP_RULE, Ahead)
  BY <1>0, <1>n DEF RuleAfter, Ahead
<1>2. /\ pos' = Here + 3 /\ pc' = "alternative" /\ levels' = <<NoLevel>> /\ eof' = eof
  BY <1>1 DEF ReadRule, NoLevel
<1>3. /\ pos' \in Nat /\ pos' \in 1 .. Len(text) /\ pos' \in DOMAIN text /\ text[pos'] = "="
      /\ Only({Blank, ":", "="}, pos, pos')
  BY <1>0, <1>n, <1>2, RuleNext
<1>4. FactorAfter(pos')
  BY <1>3 DEF Plain
<1>5. InBody(pos')
  <2>1. pos' \in 1 .. pos' /\ \A k \in pos' .. pos' : k = pos'
    BY <1>3
  <2>2. "=" # OP_RULE_END
    BY PlainSymbols
  <2> QED BY <1>3, <2>1, <2>2 DEF InBody
<1>6. Expects(pc', pos')
  BY <1>2, <1>4, <1>5 DEF Expects, LevelPCs, LastPCs
<1>7. Depth(pc', pos', Len(levels'))
  <2>1. "[" \notin {Blank, ":", "="} /\ "]" \notin {Blank, ":", "="}
    BY PlainSymbols
  <2>2. Count("[", pos') = Count("[", pos) /\ Count("]", pos') = Count("]", pos)
    BY <1>n, <1>3, <2>1, CountStays
  <2>3. Count("[", pos) \in Nat /\ Count("]", pos) \in Nat
    BY <1>n, CountNext
  <2>4. Len(levels) = 0 /\ Len(levels') = 1
    BY <1>0, <1>2, NoLevelsNow
  <2>5. pc' \in LevelPCs
    BY <1>2 DEF LevelPCs
  <2> QED BY <1>0, <2>2, <2>3, <2>4, <2>5 DEF OnTrack, Depth
<1>8. OnTrack'
  BY <1>0, <1>2, <1>6, <1>7, Arrives
<1> QED BY <1>0, <1>2, <1>8 DEF GoesStraight, Straight

LEMMA ReadRuleEndOnTrack ==
  ASSUME Typed, Phases, Plain, OnTrack, ReadRuleEnd PROVE Refused' \/ GoesStraight
<1>0. /\ pc = "rule_end" /\ pc \notin LevelPCs /\ UNCHANGED <<text, levels>>
      /\ ~eof /\ e = ERR_NONE /\ After(pos) = OP_RULE_END
  BY DEF ReadRuleEnd, LevelPCs, LastPCs, OnTrack, Expects, LocalsOnTrack
<1>n. Symbol(Here) = After(pos)
  BY Now
<1>1. Consume(OP_RULE_END)
  BY <1>0, <1>n DEF ReadRuleEnd, NoOperator
<1>2. pos' = Here + 1 /\ ~eof' /\ OP_RULE_END \notin {End, "[", "]"}
  BY <1>0, <1>1, PlainSymbols DEF Consume
<1>3. pos' \in DOMAIN text /\ text[pos'] = OP_RULE_END
  BY <1>0, <1>2, Consumed
<1>4. CASE Malloc /\ grammar' = Append(grammar, [prod EXCEPT !.block = Fresh(1)]) /\ pc' = "production" /\ e' = e
  <2>1. grammar' # <<>>
    <3>1. grammar \in Seq(ProdSet(NodeSet))
      BY DEF Typed, GrammarTyped
    <3> HIDE DEF ProdSet
    <3> QED BY <1>4, <3>1
  <2>2. Expects(pc', pos')
    BY <1>3, <1>4 DEF Expects, LevelPCs, LastPCs
  <2>3. Depth(pc', pos', Len(levels'))
    BY <1>0, <1>2, <1>4, DepthStays DEF OnTrack, LevelPCs
  <2>4. OnTrack'
    BY <1>0, <1>2, <1>4, <2>1, <2>2, <2>3, Arrives
  <2> QED BY <1>0, <1>4, <2>1, <2>4 DEF GoesStraight, Straight
<1>5. CASE MallocFails /\ e' = ERR_MEMORY_ALLOC /\ pc' = "no_production"
  BY <1>0, <1>5, FailedNow, RefusedNow, Errors DEF LastPCs
<1>6. ~NoOperator({OP_RULE_END})
  BY <1>0, <1>n DEF NoOperator
<1> QED BY <1>4, <1>5, <1>6 DEF ReadRuleEnd

-----------------------------------------------------------------------------
(* On track: expressions and factors *)

LEMMA LevelSetTo ==
  ASSUME Typed, pc \in LevelPCs, NEW l \in LevelSet, levels' = SetLevel(l)
  PROVE  Len(levels') = Len(levels) /\ Level' = l
<1> DEFINE f == Front(levels)
           m == Level
<1>1. f \in Seq(LevelSet) /\ m \in LevelSet /\ levels = Append(f, m) /\ levels' = Append(f, l)
  BY LastLevel
<1> HIDE DEF f, m
<1>2. Len(Append(f, m)) = Len(f) + 1 /\ Len(Append(f, l)) = Len(f) + 1
  BY <1>1, AppendProperties
<1>3. Last(levels') = l
  BY <1>1, LastOfAppend
<1> QED BY <1>1, <1>2, <1>3 DEF Level

LEMMA DepthKept ==
  ASSUME Typed, Depth(pc, pos, Len(levels)), Len(levels') = Len(levels),
         pc \in LevelPCs, pc' \in LevelPCs,
         pos' = pos \/ (pos' = Here + 1 /\ After(pos) \notin {End, "[", "]"})
  PROVE  Depth(pc', pos', Len(levels'))
<1>1. CASE pos' = pos
  BY <1>1 DEF Depth
<1>2. CASE pos' = Here + 1 /\ After(pos) \notin {End, "[", "]"}
  <2>1. Count("[", pos') = Count("[", pos) + 0 /\ Count("]", pos') = Count("]", pos) + 0
    BY <1>2, Consumed, PlainSymbols
  <2>2. Count("[", pos) \in Nat /\ Count("]", pos) \in Nat
    BY Now, CountNext
  <2> QED BY <2>1, <2>2 DEF Depth
<1> QED BY <1>1, <1>2

\* Nodes were added.
LEMMA FactsThere ==
  ASSUME NEW S, NEW s \in Seq(S), NEW u \in Seq(S), u # <<>> PROVE s \o u # <<>>
<1>1. Len(s) \in Nat /\ Len(u) \in Nat /\ Len(u) # 0
  BY EmptySeq, LenProperties
<1>2. Len(s \o u) = Len(s) + Len(u)
  BY ConcatProperties
<1>3. Len(s \o u) # 0 /\ s \o u \in Seq(S)
  BY <1>1, <1>2, ConcatProperties
<1> QED BY <1>3, EmptySeq

LEMMA ReadAlternativeOnTrack ==
  ASSUME Typed, Phases, Plain, OnTrack, ReadAlternative PROVE Refused' \/ GoesStraight
<1>0. /\ pc = "alternative" /\ pc \in LevelPCs /\ UNCHANGED <<text, pos, eof, e, grammar>>
      /\ ~eof /\ e = ERR_NONE /\ FactorAfter(pos) /\ InBody(pos)
  BY DEF ReadAlternative, LevelPCs, LastPCs, OnTrack, Expects, LocalsOnTrack
<1>l. Level \in LevelSet
  BY <1>0, LastLevel
<1>1. CASE Malloc /\ levels' = SetLevel([Level EXCEPT !.expr = Fresh(1)]) /\ pc' = "factor"
  <2> DEFINE m == [Level EXCEPT !.expr = Fresh(1)]
  <2>1. m \in LevelSet
    BY <1>l, FreshIsFree DEF LevelSet
  <2> HIDE DEF m
  <2>2. Len(levels') = Len(levels)
    BY <1>0, <1>1, <2>1, LevelSetTo DEF m
  <2>3. Expects(pc', pos')
    BY <1>0, <1>1 DEF Expects, LevelPCs, LastPCs, GoesOn
  <2>4. Depth(pc', pos', Len(levels'))
    BY <1>0, <1>1, <2>2, DepthKept DEF OnTrack, LevelPCs
  <2>5. OnTrack'
    BY <1>0, <1>1, <2>3, <2>4, Arrives
  <2> QED BY <1>0, <1>1, <2>5 DEF GoesStraight, Straight
<1>2. CASE MallocFails /\ pc' = "no_alternative"
  <2>1. After(pos) \in FactorBegins
    BY <1>0 DEF FactorAfter, FactorBegins
  <2> QED BY <1>0, <1>2, <2>1, FailedNow, RefusedNow
<1> QED BY <1>1, <1>2 DEF ReadAlternative

\* Behind a name or a literal of a rule the rule goes on.
LEMMA FactorRead ==
  ASSUME Typed, Plain, NEW n \in Nat, n + 1 \in DOMAIN text, n + 1 \in 0 .. Len(text), InBody(n + 1),
         text[n + 1] \in Names \cup Literals
  PROVE  GoesOn(n + 1) /\ ~LastName(n)
<1>1. GoesOn(n + 1)
  BY DEF Plain
<1>2. After(n + 1) # End
  BY <1>1, PlainSymbols DEF GoesOn, FactorAfter
<1> QED BY <1>1, <1>2, Now, NotLast

\* A factor of the level is read.
LEMMA FactorOnTrack ==
  ASSUME Typed, Phases, OnTrack, text' = text, UNCHANGED <<e, grammar>>, pc \in {"factor", "operand"}, ~eof',
         NEW ns \in Seq(ReadNode), ns # <<>>, AddFactor(Level, ns), InBody(pos'), GoesOn(pos'),
         Count("[", pos') = Count("[", pos), Count("]", pos') = Count("]", pos)
  PROVE  GoesStraight
<1>1. pc \in LevelPCs /\ pc' = "factor" /\ pc' \in LevelPCs /\ e = ERR_NONE
  BY DEF LevelPCs, AddFactor, OnTrack
<1>2. Level \in LevelSet
  BY <1>1, LastLevel
<1> DEFINE m == WithFacts(Level, ns)
<1>3. m \in LevelSet /\ m.facts = Level.facts \o ns
  BY <1>2, FactAdded
<1>4. levels' = SetLevel(m)
  BY DEF AddFactor, WithFacts
<1>5. m.facts # <<>>
  BY <1>2, <1>3, FactsThere, LevelFields
<1> HIDE DEF m
<1>6. Level' = m /\ Len(levels') = Len(levels)
  BY <1>1, <1>3, <1>4, LevelSetTo
<1>7. Expects(pc', pos')
  BY <1>1 DEF Expects, LevelPCs, LastPCs
<1>8. Depth(pc', pos', Len(levels'))
  BY <1>1, <1>6 DEF Depth, OnTrack
<1>9. OnTrack'
  BY <1>1, <1>5, <1>6, <1>7, <1>8, Arrives
<1> QED BY <1>1, <1>9 DEF GoesStraight, Straight

LEMMA ReadBuiltinOnTrack ==
  ASSUME Typed, Phases, Plain, OnTrack, ReadBuiltin PROVE Refused' \/ GoesStraight
<1>0. /\ pc = "factor" /\ pc \in LevelPCs /\ UNCHANGED <<text, e, prod, grammar>>
      /\ ~eof /\ e = ERR_NONE /\ GoesOn(pos) /\ InBody(pos)
      /\ Level.facts = <<>> => FactorAfter(pos)
  BY DEF ReadBuiltin, LevelPCs, LastPCs, OnTrack, Expects, LocalsOnTrack
<1>n. /\ text \in Texts /\ pos \in 0 .. Len(text) /\ Here = Skip(pos) /\ Symbol(Here) = After(pos)
      /\ LooksAtEnd <=> After(pos) \in {End, OpenComment}
      /\ At(":") <=> After(pos) = ":"
  BY Now
<1>l. Level \in LevelSet
  BY <1>0, LastLevel
<1>f. FactorAfter(pos) => After(pos) \in FactorBegins /\ After(pos) \notin FactorsEnd
  BY PlainSymbols DEF FactorAfter, FactorBegins, FactorsEnd
<1>1. CASE MallocFails /\ pc' = "no_factor" /\ UNCHANGED <<pos, eof, levels, live>>
  <2>1. CASE FactorAfter(pos)
    BY <1>0, <1>1, <1>f, <2>1, FailedNow, RefusedNow
  <2>2. CASE ~FactorAfter(pos)
    <3>1. After(pos) \in FactorsEnd /\ Level.facts # <<>> /\ Level' = Level
      BY <1>0, <1>1, <2>2 DEF GoesOn, FactorsEnd, Level
    <3>2. Expects(pc', pos')
      BY <1>0, <1>1, <3>1 DEF Expects, LevelPCs, LastPCs
    <3>3. Depth(pc', pos', Len(levels'))
      BY <1>0, <1>1, DepthKept DEF OnTrack, LevelPCs
    <3>4. OnTrack'
      BY <1>0, <1>1, <3>1, <3>2, <3>3, Arrives
    <3> QED BY <1>0, <1>1, <3>4 DEF GoesStraight, Straight
  <2> QED BY <2>1, <2>2
<1>c. ASSUME After(pos) = ":"
      PROVE  /\ Symbol(Here + 1) \in Names /\ Here + 1 \in Nat /\ Here + 1 \in 0 .. Len(text)
             /\ (Here + 1) + 1 = Here + 2 /\ Here + 2 \in Nat
             /\ Here + 2 \in DOMAIN text /\ Here + 2 \in 0 .. Len(text)
             /\ text[Here + 2] = Symbol(Here + 1) /\ InBody(Here + 1) /\ InBody(Here + 2)
             /\ Count("[", Here + 1) = Count("[", pos) /\ Count("]", Here + 1) = Count("]", pos)
             /\ Count("[", Here + 2) = Count("[", pos) /\ Count("]", Here + 2) = Count("]", pos)
             /\ GoesOn(Here + 2) /\ ~LastName(Here + 1)
             /\ Skip(Here + 1) = Here + 1 /\ After(Here + 1) = Symbol(Here + 1)
  <2>1. Symbol(Here + 1) \in Names
    <3>1. ":" \notin Names \cup Literals \cup {"["} /\ ":" \notin {"|", "]", OP_RULE_END}
      BY PlainSymbols
    <3> QED BY <1>0, <1>c, <1>n, <3>1 DEF GoesOn, FactorAfter
  <2>2. ":" # End /\ ":" # OP_RULE_END /\ ":" # "[" /\ ":" # "]" /\ "[" # Blank /\ "]" # Blank
    BY PlainSymbols
  <2>3. Here \in Nat /\ Here + 1 \in Nat /\ Here + 1 \in 0 .. Len(text)
    BY <1>n, <1>c, <2>2, NextSymbol
  <2>4. Symbol(Here + 1) \notin {End, Blank, OP_RULE_END, "[", "]"}
    BY <2>1, PlainSymbols
  <2> DEFINE k == Here + 1
  <2>5. Skip(k) = k /\ After(k) = Symbol(k)
    BY <1>n, <2>3, <2>4, SkipStays
  <2>6. k \in 0 .. Len(text) /\ After(k) \notin {End, Blank, OP_RULE_END, "[", "]"} /\ k \in Nat
    BY <2>3, <2>4, <2>5
  <2>7. InBody(k) /\ Count("[", k) = Count("[", pos) + 0 /\ Count("]", k) = Count("]", pos) + 0
    BY <1>0, <1>n, <1>c, <2>2, Passed
  <2> HIDE DEF k
  <2>8. /\ k + 1 \in Nat /\ k + 1 \in DOMAIN text /\ k + 1 \in 0 .. Len(text) /\ text[k + 1] = After(k)
    BY <1>n, <2>5, <2>6, NextSymbol
  <2>9. InBody(k + 1) /\ Count("[", k + 1) = Count("[", k) + 0 /\ Count("]", k + 1) = Count("]", k) + 0
    BY <1>n, <2>2, <2>5, <2>6, <2>7, Passed
  <2>10. Count("[", pos) \in Nat /\ Count("]", pos) \in Nat
    BY Now, CountNext
  <2>11. /\ Count("[", k) = Count("[", pos) /\ Count("]", k) = Count("]", pos)
         /\ Count("[", k + 1) = Count("[", pos) /\ Count("]", k + 1) = Count("]", pos)
    BY <2>7, <2>9, <2>10
  <2>12. text[k + 1] \in Names \cup Literals
    BY <2>1, <2>5, <2>8 DEF k
  <2>13. GoesOn(k + 1) /\ ~LastName(k)
    BY <2>6, <2>8, <2>9, <2>12, FactorRead
  <2>14. k + 1 = Here + 2
    BY <2>3 DEF k
  <2> QED BY <2>1, <2>3, <2>5, <2>7, <2>8, <2>9, <2>11, <2>13, <2>14 DEF k
<1>2. CASE /\ At(":") /\ Symbol(Here + 1) \in Names
           /\ AddFactor(Level, <<Node("FACT_RULE_BUILTIN", <<":", Symbol(Here + 1)>>, Fresh(1), Fresh(2))>>)
           /\ pos' = Here + 2 /\ eof' = (eof \/ LastName(Here + 1))
  <2> DEFINE b == Node("FACT_RULE_BUILTIN", <<":", Symbol(Here + 1)>>, Fresh(1), Fresh(2))
  <2>1. b \in ReadNode
    <3>1. <<":", Symbol(Here + 1)>> \in Seq(Shown)
      <4>1. ":" \in Shown /\ Symbol(Here + 1) \in Shown
        BY <1>2 DEF Shown
      <4> HIDE DEF Shown
      <4> QED BY <4>1
    <3>2. "FACT_RULE_BUILTIN" \in NodeTypes \ {"FACT_RULE_LINKED"} /\ "FACT_RULE_BUILTIN" # "FACT_RULE"
      BY DEF NodeTypes
    <3> QED BY <3>1, <3>2, FreshIsFree, NodeTyped
  <2>2. ~eof'
    BY <1>0, <1>n, <1>2, <1>c
  <2>3. AddFactor(Level, <<b>>)
    BY <1>2
  <2> HIDE DEF b
  <2>4. <<b>> \in Seq(ReadNode) /\ <<b>> # <<>>
    BY <2>1
  <2>5. /\ InBody(pos') /\ GoesOn(pos')
        /\ Count("[", pos') = Count("[", pos) /\ Count("]", pos') = Count("]", pos)
    BY <1>n, <1>2, <1>c
  <2>6. GoesStraight
    BY <1>0, <2>2, <2>3, <2>4, <2>5, FactorOnTrack
  <2> QED BY <2>6
<1>m. /\ [Level EXCEPT !.fact = Fresh(1)] \in LevelSet
      /\ [Level EXCEPT !.fact = Fresh(1)].facts = Level.facts
  BY <1>l, FreshIsFree DEF LevelSet
<1>3. CASE /\ At(":") /\ (IF Symbol(Here + 1) \in Names THEN MallocFails ELSE NoMalloc)
           /\ levels' = SetLevel([Level EXCEPT !.fact = Fresh(1)]) /\ pc' = "operand"
           /\ pos' = Here + 1
           /\ eof' = (eof \/ Symbol(Here + 1) = End \/ LastName(Here + 1))
  <2>1. After(pos) = ":"
    BY <1>n, <1>3
  <2>2. /\ Symbol(Here + 1) \in Names /\ InBody(pos') /\ After(pos') = Symbol(Here + 1) /\ ~LastName(Here + 1)
        /\ Count("[", pos') = Count("[", pos) /\ Count("]", pos') = Count("]", pos)
    BY <1>3, <1>c, <2>1
  <2>3. MallocFails /\ ~NoMallocFailed' /\ ~eof' /\ After(pos') \in Names /\ After(pos') \notin FactorsEnd
    BY <1>0, <1>3, <2>2, FailedNow, PlainSymbols DEF FactorsEnd
  <2>4. Len(levels') = Len(levels)
    BY <1>0, <1>3, <1>m, LevelSetTo
  <2>5. Expects(pc', pos')
    BY <1>3, <2>2, <2>3 DEF Expects, LevelPCs, LastPCs
  <2>6. Depth(pc', pos', Len(levels'))
    BY <1>0, <1>3, <2>2, <2>4 DEF OnTrack, Depth, LevelPCs
  <2>7. OnTrack'
    BY <1>0, <1>3, <2>3, <2>5, <2>6, Arrives
  <2> QED BY <1>0, <1>3, <2>3, <2>7 DEF GoesStraight, Straight
<1>4. CASE /\ NoOperator({":"})
           /\ levels' = SetLevel([Level EXCEPT !.fact = Fresh(1)]) /\ pc' = "operand"
  <2>1. After(pos) # ":" /\ pos' = pos
    BY <1>n, <1>4 DEF NoOperator
  <2>2. After(pos) \in Names \cup Literals \cup {"["} \cup FactorsEnd
    BY <1>0, <2>1 DEF GoesOn, FactorAfter, FactorsEnd
  <2>3. After(pos) \notin {End, OpenComment}
    BY <2>2, PlainSymbols DEF FactorsEnd
  <2>4. ~eof'
    BY <1>0, <1>n, <1>4, <2>3 DEF NoOperator
  <2>5. Len(levels') = Len(levels) /\ Level'.facts = Level.facts
    BY <1>0, <1>4, <1>m, LevelSetTo
  <2>6. Expects(pc', pos')
    BY <1>0, <1>4, <2>1, <2>2 DEF Expects, LevelPCs, LastPCs
  <2>7. Depth(pc', pos', Len(levels'))
    BY <1>0, <1>4, <2>1, <2>5, DepthKept DEF OnTrack, LevelPCs
  <2>8. OnTrack'
    BY <1>0, <1>4, <1>f, <2>1, <2>4, <2>5, <2>6, <2>7, Arrives
  <2> QED BY <1>0, <1>4, <2>1, <2>8 DEF GoesStraight, Straight
<1> QED BY <1>1, <1>2, <1>3, <1>4, Zenon DEF ReadBuiltin

LEMMA ReadOperandOnTrack ==
  ASSUME Typed, Phases, Plain, OnTrack, ReadOperand PROVE Refused' \/ GoesStraight
<1>0. /\ pc = "operand" /\ UNCHANGED <<text, e, prod, grammar>>
      /\ ~eof /\ InBody(pos) /\ pos' = Here + 1 /\ eof' = (eof \/ LastName(Here))
      /\ Symbol(Here) \in Names \cup Literals
  BY DEF ReadOperand, LevelPCs, LastPCs, OnTrack, Expects, LocalsOnTrack
<1>n. Symbol(Here) = After(pos)
  BY Now
<1>1. After(pos) \notin {End, "[", "]", OP_RULE_END}
  BY <1>0, <1>n, PlainSymbols
<1>2. /\ pos' \in DOMAIN text /\ pos' \in 0 .. Len(text) /\ text[pos'] = After(pos)
      /\ Here \in Nat /\ Here + 1 = pos' /\ InBody(pos')
      /\ Count("[", pos') = Count("[", pos) + 0 /\ Count("]", pos') = Count("]", pos) + 0
  BY <1>0, <1>1, Consumed, PlainSymbols
<1>3. GoesOn(pos') /\ ~LastName(Here)
  <2> DEFINE h == Here
  <2>1. h \in Nat /\ h + 1 = pos' /\ text[h + 1] \in Names \cup Literals /\ InBody(h + 1)
        /\ h + 1 \in DOMAIN text /\ h + 1 \in 0 .. Len(text)
    BY <1>0, <1>n, <1>2
  <2> HIDE DEF h
  <2>2. GoesOn(h + 1) /\ ~LastName(h)
    BY <2>1, FactorRead
  <2> QED BY <2>1, <2>2 DEF h
<1>4. Count("[", pos') = Count("[", pos) /\ Count("]", pos') = Count("]", pos)
  <2>1. Count("[", pos) \in Nat /\ Count("]", pos) \in Nat
    BY Now, CountNext
  <2> QED BY <1>2, <2>1
<1> DEFINE type == IF Symbol(Here) \in Names THEN "FACT_RULE" ELSE "FACT_LITERAL"
           b == Node(type, <<Symbol(Here)>>, Level.fact, Fresh(1))
<1>5. b \in ReadNode
  <2>1. <<Symbol(Here)>> \in Seq(Shown)
    BY <1>0 DEF Shown
  <2>2. type \in NodeTypes \ {"FACT_RULE_LINKED"}
    BY DEF NodeTypes
  <2>3. Level.fact \in Nat /\ Level.fact # Fresh(1) /\ Fresh(1) \in Nat
    <3>1. Level.fact \in live /\ Level \in LevelSet
      BY <1>0, LastLevel DEF Phases, LevelPCs
    <3> QED BY <3>1, FreshIsFree, LevelFields
  <2> HIDE DEF type
  <2> QED BY <2>1, <2>2, <2>3, NodeTyped
<1>6. AddFactor(Level, <<b>>)
  BY DEF ReadOperand
<1> HIDE DEF b
<1>7. <<b>> \in Seq(ReadNode) /\ <<b>> # <<>>
  BY <1>5
<1>8. ~eof'
  BY <1>0, <1>3
<1>9. GoesStraight
  BY <1>0, <1>2, <1>3, <1>4, <1>6, <1>7, <1>8, FactorOnTrack
<1> QED BY <1>9

LEMMA OpenCoupleOnTrack ==
  ASSUME Typed, Phases, Plain, OnTrack, OpenCouple PROVE Refused' \/ GoesStraight
<1>0. /\ pc = "operand" /\ pc \in LevelPCs /\ UNCHANGED <<text, e, prod, grammar>> /\ e = ERR_NONE
      /\ ~eof /\ InBody(pos) /\ pos' = Here + 1 /\ ~eof' /\ Symbol(Here) = "["
      /\ levels' = Append(levels, NoLevel) /\ pc' = "alternative"
  BY DEF OpenCouple, Consume, At, LevelPCs, LastPCs, OnTrack, Expects, LocalsOnTrack, NoLevel
<1>n. Symbol(Here) = After(pos)
  BY Now
<1>1. After(pos) = "[" /\ "[" # End /\ "[" # OP_RULE_END /\ "[" # "]" /\ "[" # Blank /\ "]" # Blank
  BY <1>0, <1>n, PlainSymbols
<1>2. /\ pos' \in DOMAIN text /\ text[pos'] = "[" /\ InBody(pos')
      /\ Count("[", pos') = Count("[", pos) + 1 /\ Count("]", pos') = Count("]", pos) + 0
  BY <1>0, <1>1, Consumed
<1>3. FactorAfter(pos')
  BY <1>2 DEF Plain
<1>4. Expects(pc', pos')
  BY <1>0, <1>2, <1>3 DEF Expects, LevelPCs, LastPCs
<1>5. Len(levels') = Len(levels) + 1 /\ Len(levels) \in Nat
  <2>1. levels \in Seq(LevelSet)
    BY DEF Typed, LevelsTyped
  <2> QED BY <1>0, <2>1, NoLevelTyped, AppendProperties, LenProperties
<1>6. Depth(pc', pos', Len(levels'))
  <2>1. Count("[", pos) \in Nat /\ Count("]", pos) \in Nat
    BY Now, CountNext
  <2>2. pc' \in LevelPCs
    BY <1>0 DEF LevelPCs
  <2> QED BY <1>0, <1>2, <1>5, <2>1, <2>2 DEF OnTrack, Depth
<1>7. OnTrack'
  BY <1>0, <1>4, <1>6, Arrives
<1> QED BY <1>0, <1>7 DEF GoesStraight, Straight

LEMMA NotAFactorOnTrack ==
  ASSUME Typed, Phases, Plain, OnTrack, NotAFactor PROVE Refused' \/ GoesStraight
<1>0. /\ pc = "operand" /\ pc \in LevelPCs /\ UNCHANGED <<text, pos, e, prod, grammar>> /\ e = ERR_NONE
      /\ ~eof /\ InBody(pos) /\ Symbol(Here) # "["
      /\ eof' = (eof \/ LooksAtEnd \/ LastName(Here) \/ Symbol(Here) = OpenQuote)
      /\ levels' = SetLevel(WithoutFact(Level)) /\ pc' = "no_factor"
      /\ After(pos) \in Names \cup Literals \cup {"["} \cup FactorsEnd
      /\ Level.facts = <<>> => After(pos) \notin FactorsEnd
  BY DEF NotAFactor, LevelPCs, LastPCs, OnTrack, Expects, LocalsOnTrack, WithoutFact
<1>n. /\ Symbol(Here) = After(pos)
      /\ LooksAtEnd <=> After(pos) \in {End, OpenComment}
  BY Now
<1>1. After(pos) \notin {End, OpenComment, OpenQuote}
  BY <1>0, PlainSymbols DEF FactorsEnd
<1>2. CASE After(pos) \in Names \cup Literals
  <2>1. MallocFails
    BY <1>2, <1>n DEF NotAFactor
  <2>2. ~LastName(Here)
    <3> DEFINE h == Here
    <3>1. After(pos) \notin {End, OP_RULE_END}
      BY <1>2, PlainSymbols
    <3>2. text \in Texts /\ pos \in 0 .. Len(text) /\ h = Skip(pos)
      BY Now
    <3>3. /\ h \in Nat /\ h + 1 \in DOMAIN text /\ h + 1 \in 0 .. Len(text) /\ text[h + 1] = After(pos)
      BY <3>1, <3>2, NextSymbol
    <3>4. InBody(h + 1)
      BY <1>0, <3>1, <3>2, Passed
    <3> HIDE DEF h
    <3>5. ~LastName(h)
      BY <1>2, <3>3, <3>4, FactorRead
    <3> QED BY <3>5 DEF h
  <2>3. ~eof'
    BY <1>0, <1>1, <1>n, <2>2
  <2>4. After(pos') \in FactorBegins
    BY <1>0, <1>2 DEF FactorBegins
  <2> QED BY <1>0, <2>1, <2>3, <2>4, FailedNow, RefusedNow
<1>3. CASE After(pos) \in FactorsEnd
  <2>1. ~LastName(Here)
    BY <1>3, <1>n, PlainSymbols DEF LastName, FactorsEnd
  <2>2. ~eof'
    BY <1>0, <1>1, <1>n, <2>1
  <2>3. Level \in LevelSet
    BY <1>0, LastLevel
  <2>4. WithoutFact(Level) \in LevelSet /\ WithoutFact(Level).facts = Level.facts
    BY <2>3, FactDropped
  <2>5. Len(levels') = Len(levels) /\ Level'.facts = Level.facts
    BY <1>0, <2>4, LevelSetTo
  <2>6. Expects(pc', pos')
    BY <1>0, <1>3 DEF Expects, LevelPCs, LastPCs
  <2>7. Depth(pc', pos', Len(levels'))
    BY <1>0, <2>5, DepthKept DEF OnTrack, LevelPCs
  <2>8. OnTrack'
    BY <1>0, <1>3, <2>2, <2>5, <2>6, <2>7, Arrives
  <2> QED BY <1>0, <2>8 DEF GoesStraight, Straight
<1> QED BY <1>0, <1>2, <1>3, <1>n

LEMMA NoFactorOnTrack ==
  ASSUME Typed, Phases, Plain, OnTrack, NoFactor PROVE Refused' \/ GoesStraight
<1>0. /\ pc = "no_factor" /\ pc \in LevelPCs /\ UNCHANGED <<text, pos, eof, e, prod, grammar>> /\ e = ERR_NONE
      /\ ~eof /\ InBody(pos) /\ After(pos) \in FactorsEnd /\ Level.facts # <<>>
  BY DEF NoFactor, LevelPCs, LastPCs, OnTrack, Expects, LocalsOnTrack
<1>1. levels' = SetLevel(Alternative(Level)) /\ pc' = "or"
  BY <1>0 DEF NoFactor, Alternative
<1>2. Level \in LevelSet
  BY <1>0, LastLevel
<1>3. Len(levels') = Len(levels)
  BY <1>0, <1>1, <1>2, AlternativeIs, LevelSetTo
<1>4. Expects(pc', pos')
  BY <1>0, <1>1 DEF Expects, LevelPCs, LastPCs
<1>5. Depth(pc', pos', Len(levels'))
  BY <1>0, <1>1, <1>3, DepthKept DEF OnTrack, LevelPCs
<1>6. OnTrack'
  BY <1>0, <1>1, <1>4, <1>5, Arrives
<1> QED BY <1>0, <1>1, <1>6 DEF GoesStraight, Straight

\* The brackets tell whether the expression is that of a couple.
LEMMA ReadOrOnTrack ==
  ASSUME Typed, Phases, Plain, OnTrack, ReadOr PROVE Refused' \/ GoesStraight
<1>0. /\ pc = "or" /\ pc \in LevelPCs /\ UNCHANGED <<text, e, grammar>> /\ e = ERR_NONE
      /\ ~eof /\ InBody(pos) /\ After(pos) \in FactorsEnd
  BY DEF ReadOr, LevelPCs, LastPCs, OnTrack, Expects, LocalsOnTrack
<1>n. /\ text \in Texts /\ pos \in 0 .. Len(text) /\ Here = Skip(pos) /\ Symbol(Here) = After(pos)
      /\ LooksAtEnd <=> After(pos) \in {End, OpenComment}
  BY Now
<1>s. After(pos) \notin {End, OpenComment}
  BY <1>0, PlainSymbols DEF FactorsEnd
<1>1. CASE Consume("|") /\ pc' = "alternative" /\ UNCHANGED <<levels, prod>>
  <2>1. After(pos) = "|" /\ pos' = Here + 1 /\ ~eof' /\ "|" \notin {End, "[", "]", OP_RULE_END}
    BY <1>0, <1>1, <1>n, PlainSymbols DEF Consume, At
  <2>2. pos' \in DOMAIN text /\ text[pos'] = "|" /\ InBody(pos')
    BY <1>0, <2>1, Consumed
  <2>3. FactorAfter(pos')
    BY <2>2 DEF Plain
  <2>4. Expects(pc', pos')
    BY <1>1, <2>2, <2>3 DEF Expects, LevelPCs, LastPCs
  <2>5. Depth(pc', pos', Len(levels'))
    BY <1>0, <1>1, <2>1, DepthKept DEF OnTrack, LevelPCs
  <2>6. OnTrack'
    BY <1>0, <1>1, <2>1, <2>4, <2>5, Arrives
  <2> QED BY <1>0, <1>1, <2>6 DEF GoesStraight, Straight
<1>2. CASE NoOperator({"|"}) /\ EndLoop(Level.target)
  <2>1. After(pos) \in {"]", OP_RULE_END} /\ pos' = pos /\ ~eof'
    BY <1>0, <1>2, <1>n, <1>s DEF NoOperator, FactorsEnd
  <2> DEFINE m == Here + 1
  <2>2. /\ m \in DOMAIN text /\ text[m] = After(pos)
        /\ Count("[", m) = Count("[", pos) + (IF After(pos) = "[" THEN 1 ELSE 0)
        /\ Count("]", m) = Count("]", pos) + (IF After(pos) = "]" THEN 1 ELSE 0)
    BY <1>n, <1>s, NextSymbol, Passed, PlainSymbols
  <2>3. /\ "]" # "[" /\ OP_RULE_END # "]" /\ OP_RULE_END # "["
    BY PlainSymbols
  <2>4. /\ Count("[", pos) \in Nat /\ Count("]", pos) \in Nat /\ Len(levels) \in Nat /\ Len(levels) # 0
    <3>1. levels \in Seq(LevelSet) /\ levels # <<>>
      BY <1>0 DEF Typed, LevelsTyped
    <3> QED BY <3>1, Now, CountNext, LenProperties, EmptySeq
  <2>5. Len(levels) + Count("]", pos) = Count("[", pos) + 1
    BY <1>0 DEF OnTrack, Depth
  <2>6. /\ text[m] = "]" => Count("]", m) <= Count("[", m)
        /\ text[m] = OP_RULE_END => Count("]", m) = Count("[", m)
    BY <2>2 DEF Plain
  <2> HIDE DEF m
  <2>7. Len(levels) > 1 <=> After(pos) = "]"
    BY <2>1, <2>2, <2>3, <2>4, <2>5, <2>6
  <2>8. CASE Len(levels) > 1
    <3>1. levels' = SetLevel([Level EXCEPT !.target = Level.target]) /\ pc' = "close" /\ UNCHANGED prod
      BY <1>2, <2>8 DEF EndLoop
    <3>2. Level \in LevelSet
      BY <1>0, LastLevel
    <3>3. [Level EXCEPT !.target = Level.target] \in LevelSet
      BY <3>2 DEF LevelSet
    <3>4. Len(levels') = Len(levels)
      BY <1>0, <3>1, <3>3, LevelSetTo
    <3>5. Expects(pc', pos')
      BY <1>0, <2>1, <2>7, <2>8, <3>1 DEF Expects, LevelPCs, LastPCs
    <3>6. Depth(pc', pos', Len(levels'))
      BY <1>0, <2>1, <3>1, <3>4, DepthKept DEF OnTrack, LevelPCs
    <3>7. OnTrack'
      BY <1>0, <2>1, <3>1, <3>5, <3>6, Arrives
    <3> QED BY <1>0, <3>1, <3>7 DEF GoesStraight, Straight
  <2>9. CASE ~(Len(levels) > 1)
    <3>1. levels' = <<>> /\ pc' = "rule_end" /\ pc' \notin LevelPCs
      BY <1>2, <2>9 DEF EndLoop, LevelPCs
    <3>2. Len(levels') = 0 /\ Len(levels) = 1
      <4>1. PICK d \in Nat : d = Len(levels)
        BY <2>4
      <4>2. d = 1
        BY <2>4, <2>9, <4>1
      <4>3. Len(levels') = 0
        <5>1. levels' = <<>>
          BY <3>1
        <5> QED BY <5>1
      <4> QED BY <4>1, <4>2, <4>3
    <3>3. Expects(pc', pos')
      BY <2>1, <2>7, <2>9, <3>1 DEF Expects, LevelPCs, LastPCs
    <3>4. Depth(pc', pos', Len(levels'))
      BY <2>1, <2>4, <2>5, <3>1, <3>2 DEF Depth
    <3>5. OnTrack'
      BY <1>0, <2>1, <3>1, <3>3, <3>4, Arrives
    <3> QED BY <1>0, <3>1, <3>5 DEF GoesStraight, Straight
  <2> QED BY <2>8, <2>9
<1> QED BY <1>1, <1>2 DEF ReadOr

LEMMA CoupleOnTrack ==
  ASSUME Typed, Phases, Plain, OnTrack, CloseCouple \/ NotClosed \/ NoFeed
  PROVE  Refused' \/ GoesStraight
<1>0. /\ pc = "close" /\ pc \in LevelPCs /\ UNCHANGED <<text, e, grammar>> /\ e = ERR_NONE
      /\ ~eof /\ InBody(pos) /\ After(pos) = "]"
  BY DEF CloseCouple, NotClosed, NoFeed, LevelPCs, LastPCs, OnTrack, Expects, LocalsOnTrack
<1>n. /\ text \in Texts /\ pos \in 0 .. Len(text) /\ Here = Skip(pos) /\ Symbol(Here) = After(pos)
      /\ At("]") <=> After(pos) = "]"
  BY Now
<1>s. /\ "]" # End /\ "]" # OP_RULE_END /\ "]" # "[" /\ "[" # Blank /\ "]" # Blank
  BY PlainSymbols
<1> DEFINE k == Here + 1
<1>1. /\ k \in Nat /\ k \in DOMAIN text /\ k \in 0 .. Len(text) /\ text[k] = "]"
  BY <1>0, <1>n, <1>s, NextSymbol
<1>2. /\ InBody(k) /\ Count("[", k) = Count("[", pos) + 0 /\ Count("]", k) = Count("]", pos) + 1
  BY <1>0, <1>n, <1>s, Passed
<1>3. After(k) \in DOMAIN OpFeed
  BY <1>1 DEF Plain
<1>4. ~NotClosed /\ ~NoFeed
  BY <1>0, <1>n, <1>3 DEF NotClosed, NoFeed, NoOperator, After
<1>5. /\ pos' = Skip(Here + 1) + 1 /\ pc' = "factor" /\ eof' = eof /\ CloseCouple
  BY <1>4 DEF CloseCouple
<1>6. After(k) \notin {End, "[", "]", OP_RULE_END}
  BY <1>3, PlainSymbols
<1>7. pos' = Skip(k) + 1
  BY <1>5
<1> HIDE DEF k
<1>8. pos' \in DOMAIN text /\ text[pos'] \in DOMAIN OpFeed
  BY <1>n, <1>1, <1>3, <1>6, <1>7, NextSymbol
<1>9. /\ InBody(pos') /\ Count("[", pos') = Count("[", k) + 0 /\ Count("]", pos') = Count("]", k) + 0
  BY <1>n, <1>s, <1>1, <1>2, <1>6, <1>7, Passed
<1>10. GoesOn(pos')
  BY <1>8 DEF Plain
<1>11. Expects(pc', pos')
  BY <1>5, <1>9, <1>10 DEF Expects, LevelPCs, LastPCs
<1>12. Len(levels') + 1 = Len(levels) /\ Len(levels') \in Nat /\ Level'.facts # <<>>
  <2>1. PICK type \in {"FACT_EXPR_NGT", "FACT_EXPR_NGTE", "FACT_EXPR_OPT"} :
          levels' = Append(Front(Front(levels)), WithFacts(Outer, Couple(Outer.fact, type, Level.target)))
    BY <1>5, CloseCoupleIs
  <2>2. Front(levels) # <<>>
    BY <1>0 DEF Phases
  <2>3. /\ Outer \in LevelSet /\ Front(Front(levels)) \in Seq(LevelSet)
        /\ Front(levels) = Append(Front(Front(levels)), Outer)
    BY <1>0, <2>2, OuterLevel
  <2>4. Level \in LevelSet /\ Front(levels) \in Seq(LevelSet) /\ levels = Append(Front(levels), Level)
    BY <1>0, LastLevel
  <2> DEFINE c == Couple(Outer.fact, type, Level.target)
             o == WithFacts(Outer, c)
  <2>5. /\ c \in Seq(ReadNode)
        /\ c = (<<CoupleNode(Outer.fact, type)>> \o Level.target) \o <<CoupleEnd(type)>>
        /\ CoupleNode(Outer.fact, type) \in ReadNode /\ CoupleEnd(type) \in ReadNode
    BY <2>3, <2>4, LevelFields, CoupleTyped
  <2>6. c # <<>>
    <3> DEFINE a == <<CoupleNode(Outer.fact, type)>> \o Level.target
               z == <<CoupleEnd(type)>>
    <3>1. z \in Seq(ReadNode) /\ z # <<>>
      BY <2>5
    <3>2. <<CoupleNode(Outer.fact, type)>> \in Seq(ReadNode)
      BY <2>5
    <3>3. a \in Seq(ReadNode)
      BY <2>4, <3>2, LevelFields, ConcatProperties
    <3> HIDE DEF a, z
    <3>4. a \o z # <<>>
      BY <3>1, <3>3, FactsThere
    <3> QED BY <2>5, <3>4 DEF a, z
  <2> HIDE DEF c
  <2>7. o \in LevelSet /\ o.facts = Outer.facts \o c
    BY <2>3, <2>5, FactAdded
  <2>8. o.facts # <<>>
    BY <2>3, <2>5, <2>6, <2>7, FactsThere, LevelFields
  <2>9. levels' = Append(Front(Front(levels)), o)
    BY <2>1 DEF c
  <2> HIDE DEF o
  <2> DEFINE f == Front(Front(levels))
             g == Front(levels)
             v == Outer
             u == Level
  <2>10. f \in Seq(LevelSet) /\ g \in Seq(LevelSet) /\ v \in LevelSet /\ u \in LevelSet
         /\ g = Append(f, v) /\ levels = Append(g, u) /\ levels' = Append(f, o)
    BY <2>3, <2>4, <2>9
  <2> HIDE DEF f, g, v, u
  <2>11. /\ Len(g) = Len(f) + 1 /\ Len(levels) = Len(g) + 1 /\ Len(levels') = Len(f) + 1 /\ Len(f) \in Nat
    BY <2>7, <2>10, AppendProperties, LenProperties
  <2>12. Level' = o
    BY <2>7, <2>10, LastOfAppend DEF Level
  <2> QED BY <2>8, <2>11, <2>12
<1>13. Depth(pc', pos', Len(levels'))
  <2>1. Count("[", pos) \in Nat /\ Count("]", pos) \in Nat
    BY Now, CountNext
  <2>2. pc' \in LevelPCs
    BY <1>5 DEF LevelPCs
  <2> QED BY <1>0, <1>2, <1>9, <1>12, <2>1, <2>2 DEF OnTrack, Depth
<1>14. OnTrack'
  BY <1>0, <1>5, <1>11, <1>12, <1>13, Arrives
<1> QED BY <1>0, <1>5, <1>14 DEF GoesStraight, Straight

-----------------------------------------------------------------------------
(* On track: the end, and what is refused *)

LEMMA NoProductionOnTrack ==
  ASSUME Typed, Phases, OnTrack, NoProduction PROVE Refused' \/ GoesStraight
<1>0. /\ pc = "no_production" /\ pc \notin LevelPCs /\ UNCHANGED <<text, pos, eof, e, levels>> /\ e = ERR_NONE
      /\ eof /\ Skip(pos) = Len(text) /\ grammar # <<>>
  BY DEF NoProduction, LevelPCs, LastPCs, OnTrack, Expects, LocalsOnTrack
<1>1. pc' = "link" /\ grammar' = grammar
  BY <1>0 DEF NoProduction
<1>2. Expects(pc', pos')
  BY <1>0, <1>1 DEF Expects, LevelPCs, LastPCs
<1>3. Depth(pc', pos', Len(levels'))
  BY <1>0, <1>1, DepthStays DEF OnTrack, LevelPCs
<1>4. OnTrack'
  BY <1>0, <1>1, <1>2, <1>3, Arrives DEF LastPCs
<1> QED BY <1>0, <1>1, <1>4 DEF GoesStraight, Straight

LEMMA LinkOnTrack ==
  ASSUME Typed, Phases, OnTrack, Link \/ FreeBNF PROVE Refused' \/ GoesStraight
<1>0. /\ pc \in LastPCs /\ pc \notin LevelPCs /\ UNCHANGED <<text, pos, eof, e, levels>> /\ e = ERR_NONE
      /\ Skip(pos) = Len(text)
  BY DEF Link, FreeBNF, LevelPCs, LastPCs, OnTrack, Expects
<1>g. grammar \in Seq(ProdSet(NodeSet))
  BY DEF Typed, GrammarTyped
<1>1. /\ pc' \in LastPCs /\ pc' \notin LevelPCs /\ (pc' \in {"done", "end"} \/ grammar' # <<>>)
  <2>1. CASE FreeBNF
    BY <2>1 DEF FreeBNF, LastPCs, LevelPCs
  <2>2. CASE Link /\ Unlinked = {} /\ pc' = "done"
    BY <2>2 DEF LastPCs, LevelPCs
  <2>3. CASE Link /\ \E i \in DOMAIN grammar : \E k \in DOMAIN grammar[i].exprs : Links(i, k)
    <3>1. PICK i \in DOMAIN grammar : \E k \in DOMAIN grammar[i].exprs : Links(i, k)
      BY <2>3
    <3>2. PICK k \in DOMAIN grammar[i].exprs : Links(i, k)
      BY <3>1
    <3>3. DOMAIN LinkedGrammar(i, k) = DOMAIN grammar
      BY LinkedGrammarIs
    <3>4. LinkedGrammar(i, k) # <<>>
      <4>1. DOMAIN <<>> = {}
        OBVIOUS
      <4> QED BY <3>3, <4>1
    <3>5. pc = "link"
      BY <2>3 DEF Link
    <3> QED BY <3>2, <3>4, <3>5 DEF Links, LastPCs, LevelPCs
  <2> QED BY <1>g, <2>1, <2>2, <2>3, LinkIs
<1>2. Expects(pc', pos')
  BY <1>0, <1>1 DEF Expects, LevelPCs, LastPCs
<1>3. Depth(pc', pos', Len(levels'))
  BY <1>0, <1>1, DepthStays DEF OnTrack
<1>4. OnTrack'
  BY <1>0, <1>1, <1>2, <1>3, Arrives DEF LastPCs
<1> QED BY <1>0, <1>1, <1>4 DEF GoesStraight, Straight, LastPCs

LEMMA StepOnTrack ==
  ASSUME Typed, Phases, Plain, OnTrack, Next PROVE Refused' \/ GoesStraight \/ UNCHANGED vars
<1> HIDE DEF Typed, Phases, Plain, OnTrack, GoesStraight, Refused
<1>1. CASE Begin \/ ReadName \/ ReadParams \/ ReadParam \/ ReadParamNext \/ ReadParamEnd
  BY <1>1, BeginOnTrack, ReadNameOnTrack, ReadParamsOnTrack, ReadParamOnTrack, ReadParamNextOnTrack,
     ReadParamEndOnTrack
<1>2. CASE ReadRule \/ ReadRuleEnd
  BY <1>2, ReadRuleOnTrack, ReadRuleEndOnTrack
<1>3. CASE ReadAlternative \/ ReadBuiltin \/ ReadOperand \/ OpenCouple \/ NotAFactor
  BY <1>3, ReadAlternativeOnTrack, ReadBuiltinOnTrack, ReadOperandOnTrack, OpenCoupleOnTrack,
     NotAFactorOnTrack
<1>4. CASE NoFactor \/ ReadOr
  BY <1>4, NoFactorOnTrack, ReadOrOnTrack
<1>5. CASE CloseCouple \/ NotClosed \/ NoFeed
  BY <1>5, CoupleOnTrack
<1>6. CASE NoAlternative
  BY <1>6 DEF NoAlternative, OnTrack, Expects
<1>7. CASE NoProduction \/ Link \/ FreeBNF
  BY <1>7, NoProductionOnTrack, LinkOnTrack
<1>8. CASE Finished
  BY <1>8 DEF Finished
<1> QED BY <1>1, <1>2, <1>3, <1>4, <1>5, <1>6, <1>7, <1>8 DEF Next

-----------------------------------------------------------------------------
(* A grammar written as it should be: what is refused stays refused *)

\* The reader ended without a grammar.
Gone == pc \in {"done", "end"} /\ grammar = <<>>

LEMMA FailuresFall ==
  ASSUME Next PROVE MallocFails \/ failures' = failures
<1>1. CASE Begin \/ ReadName \/ ReadParams \/ ReadParamNext \/ ReadParamEnd \/ ReadRule
  BY <1>1 DEF Begin, ReadName, ReadParams, ReadParamNext, ReadParamEnd, ReadRule, NoMalloc, Malloc
<1>2. CASE ReadParam
  BY <1>2 DEF ReadParam, NoMalloc
<1>3. CASE ReadRuleEnd \/ ReadAlternative \/ ReadBuiltin \/ ReadOperand \/ OpenCouple
  BY <1>3 DEF ReadRuleEnd, ReadAlternative, ReadBuiltin, ReadOperand, OpenCouple, NoMalloc, Malloc
<1>4. CASE NotAFactor \/ NoFactor \/ ReadOr \/ NoAlternative \/ CloseCouple \/ NotClosed \/ NoFeed
  BY <1>4 DEF NotAFactor, NoFactor, ReadOr, NoAlternative, CloseCouple, NotClosed, NoFeed, NoMalloc
<1>5. CASE NoProduction \/ Link \/ FreeBNF \/ Finished
  BY <1>5 DEF NoProduction, Link, FreeBNF, Finished, vars
<1> QED BY <1>1, <1>2, <1>3, <1>4, <1>5 DEF Next

\* An error stays, and the loop of the productions ends with nothing.
LEMMA ErrorStays ==
  ASSUME e # ERR_NONE, pc \notin LastPCs \cup {"begin"}, Next
  PROVE  \/ pc' \notin LastPCs \cup {"begin"} /\ e' # ERR_NONE
         \/ pc' \in {"done", "end"} /\ grammar' = <<>>
<1>1. pc \notin {"link", "done", "end", "begin"} /\ ERR_MEMORY_ALLOC # ERR_NONE /\ ERRBNF_SYNTAX # ERR_NONE
  BY Errors DEF LastPCs
<1>2. CASE ReadName \/ ReadParams \/ ReadParamNext \/ ReadParamEnd \/ ReadRule
  BY <1>1, <1>2 DEF ReadName, ReadParams, ReadParamNext, ReadParamEnd, ReadRule, WithoutParams, LastPCs
<1>3. CASE ReadParam
  <2>1. \A err : NoParam(err) /\ err # ERR_NONE => e' # ERR_NONE /\ pc' = "no_production"
    BY <1>1, Zenon DEF NoParam
  <2>2. \/ UNCHANGED e /\ pc' = "param_next"
        \/ e' # ERR_NONE /\ pc' = "no_production"
    BY <1>1, <1>3, <2>1, Zenon DEF ReadParam
  <2> QED BY <2>2 DEF LastPCs
<1>4. CASE ReadRuleEnd \/ ReadAlternative \/ ReadBuiltin \/ ReadOperand \/ OpenCouple
  BY <1>1, <1>4 DEF ReadRuleEnd, ReadAlternative, ReadBuiltin, ReadOperand, OpenCouple, AddFactor, LastPCs
<1>5. CASE NotAFactor \/ NoFactor \/ ReadOr \/ CloseCouple \/ NotClosed \/ NoFeed
  BY <1>5 DEF NotAFactor, NoFactor, ReadOr, CloseCouple, NotClosed, NoFeed, EndLoop, CoupleFails, LastPCs
<1>6. CASE NoAlternative
  BY <1>1, <1>6 DEF NoAlternative, CoupleFails, LastPCs
<1>7. CASE NoProduction
  BY <1>7 DEF NoProduction
<1> QED BY <1>1, <1>2, <1>3, <1>4, <1>5, <1>6, <1>7 DEF Next, Begin, Link, FreeBNF, Finished

\* A factor begins there, so nothing that ends one is found.
LEMMA FactorWaits ==
  ASSUME Typed, pc \in {"no_factor", "no_alternative", "or", "close", "rule_end"},
         ~eof, After(pos) \in FactorBegins, Next
  PROVE  \/ pc' \notin LastPCs \cup {"begin"} /\ e' # ERR_NONE
         \/ pc' = "no_production" /\ ~eof'
         \/ /\ pc' \in {"no_factor", "no_alternative", "or", "close", "rule_end"}
            /\ ~eof' /\ After(pos') \in FactorBegins
<1>1. After(pos) \notin {"|", "]", OP_RULE_END, End, OpenComment}
  <2>1. \A x \in {":", "["} : x \notin {"|", "]", OP_RULE_END, End, OpenComment}
    BY PlainSymbols
  <2>2. \A x \in Names \cup Literals : x \notin {"|", "]", OP_RULE_END, End, OpenComment}
    BY PlainSymbols
  <2> QED BY <2>1, <2>2 DEF FactorBegins
<1>2. ~At("|") /\ ~At("]") /\ ~At(OP_RULE_END) /\ ~LooksAtEnd
  BY <1>1, Now
<1>3. CASE NoFactor
  BY <1>3 DEF NoFactor
<1>4. CASE ReadOr
  BY <1>2, <1>4 DEF ReadOr, Consume, NoOperator, EndLoop
<1>5. CASE NoAlternative
  <2>1. pos' = pos /\ eof' = eof
    BY <1>5 DEF NoAlternative
  <2>2. pc' \in {"no_factor", "rule_end"} \/ (pc' = "no_production" /\ e' # ERR_NONE)
    BY <1>5 DEF NoAlternative, CoupleFails
  <2> QED BY <2>1, <2>2 DEF LastPCs
<1>6. CASE CloseCouple \/ NotClosed \/ NoFeed
  BY <1>2, <1>6 DEF CloseCouple, NotClosed, NoFeed, NoOperator, CoupleFails
<1>7. CASE ReadRuleEnd
  BY <1>2, <1>7 DEF ReadRuleEnd, Consume, NoOperator
<1> QED BY <1>3, <1>4, <1>5, <1>6, <1>7
        DEF Next, Begin, ReadName, ReadParams, ReadParam, ReadParamNext, ReadParamEnd, ReadRule,
            ReadAlternative, ReadBuiltin, ReadOperand, OpenCouple, NotAFactor, NoProduction, Link,
            FreeBNF, Finished

\* A name stands where the parameters or the rule should go on.
LEMMA ParamWaits ==
  ASSUME Typed, pc \in {"param_end", "rule"}, ~eof, After(pos) \in Names, Next
  PROVE  \/ pc' = "no_production" /\ ~eof'
         \/ pc' \in {"param_end", "rule"} /\ ~eof' /\ After(pos') \in Names
<1>1. After(pos) \notin {")", ":", End, OpenComment}
  BY PlainSymbols
<1>2. ~At(")") /\ ~At(":") /\ ~LooksAtEnd /\ text \in Texts /\ pos \in 0 .. Len(text) /\ Here = Skip(pos)
  BY <1>1, Now
<1>3. CASE ReadParamEnd
  BY <1>2, <1>3 DEF ReadParamEnd, Consume, NoOperator, WithoutParams
<1>4. CASE ReadRule
  <2>1. ~IsPrefix(OP_RULE, Ahead)
    BY <1>1, <1>2, RuleNext DEF RuleAfter, Ahead
  <2>2. ~RuleCut
    <3>1. Here + 1 \in DOMAIN text /\ text[Here + 1] = After(pos) /\ Here \in Nat
          /\ Here + 1 \in 1 .. Len(text)
      BY <1>1, <1>2, NextSymbol
    <3>2. text \in Seq(Symbols) /\ Len(text) \in Nat
      BY <1>2, TextIsSeq
    <3>3. Ahead[1] = text[Here + 1]
      <4> DEFINE h == Here
      <4>1. h \in Nat /\ h + 1 \in 1 .. Len(text)
        BY <3>1
      <4> HIDE DEF h
      <4>2. SubSeq(text, h + 1, Len(text))[1] = text[h + 1]
        BY <3>2, <4>1
      <4> QED BY <4>2 DEF Ahead, h
    <3>4. <<":">>[1] = ":" /\ <<":", ":">>[1] = ":"
      OBVIOUS
    <3> HIDE DEF Ahead
    <3>5. SUFFICES ASSUME Ahead \in {<<":">>, <<":", ":">>} PROVE FALSE
      BY DEF RuleCut
    <3> QED BY <1>1, <3>1, <3>3, <3>4, <3>5
  <2> QED BY <1>2, <1>4, <2>1, <2>2 DEF ReadRule
<1> QED BY <1>3, <1>4
        DEF Next, Begin, ReadName, ReadParams, ReadParam, ReadParamNext, ReadRuleEnd,
            ReadAlternative, ReadBuiltin, ReadOperand, OpenCouple, NotAFactor, NoFactor, ReadOr,
            NoAlternative, CloseCouple, NotClosed, NoFeed, NoProduction, Link, FreeBNF, Finished

LEMMA StepGone ==
  ASSUME Gone, Next PROVE pc' \in {"done", "end"} /\ grammar' = <<>>
BY DEF Gone, Next, Begin, ReadName, ReadParams, ReadParam, ReadParamNext, ReadParamEnd, ReadRule,
       ReadRuleEnd, ReadAlternative, ReadBuiltin, ReadOperand, OpenCouple, NotAFactor, NoFactor, ReadOr,
       NoAlternative, CloseCouple, NotClosed, NoFeed, NoProduction, Link, FreeBNF, Finished, vars

LEMMA StepText ==
  ASSUME [Next]_vars PROVE text' = text
<1>1. CASE Begin \/ ReadName \/ ReadParams \/ ReadParam \/ ReadParamNext \/ ReadParamEnd \/ ReadRule
  BY <1>1 DEF Begin, ReadName, ReadParams, ReadParam, ReadParamNext, ReadParamEnd, ReadRule
<1>2. CASE ReadRuleEnd \/ ReadAlternative \/ ReadBuiltin \/ ReadOperand \/ OpenCouple \/ NotAFactor
  BY <1>2 DEF ReadRuleEnd, ReadAlternative, ReadBuiltin, ReadOperand, OpenCouple, NotAFactor
<1>3. CASE NoFactor \/ ReadOr \/ NoAlternative \/ CloseCouple \/ NotClosed \/ NoFeed
  BY <1>3 DEF NoFactor, ReadOr, NoAlternative, CloseCouple, NotClosed, NoFeed
<1>4. CASE NoProduction \/ Link \/ FreeBNF \/ Finished \/ UNCHANGED vars
  BY <1>4 DEF NoProduction, Link, FreeBNF, Finished, vars
<1> QED BY <1>1, <1>2, <1>3, <1>4 DEF Next

LEMMA StepRefused ==
  ASSUME Typed, Refused, Next PROVE Refused'
<1>1. ~NoMallocFailed'
  BY FailedNow, FailuresFall DEF Refused
<1>2. text' = text
  BY StepText
<1> HIDE DEF Typed, Next
<1>3. CASE pc \in {"done", "end"} /\ grammar = <<>>
  BY <1>1, <1>2, <1>3, StepGone, RefusedNow DEF Gone
<1>4. CASE pc \notin LastPCs \cup {"begin"} /\ e # ERR_NONE
  BY <1>1, <1>2, <1>4, ErrorStays, RefusedNow
<1>5. CASE pc = "no_production" /\ ~eof
  <2>1. pc' \in {"done", "end"} /\ grammar' = <<>>
    BY <1>5 DEF Next, Begin, ReadName, ReadParams, ReadParam, ReadParamNext, ReadParamEnd, ReadRule,
         ReadRuleEnd, ReadAlternative, ReadBuiltin, ReadOperand, OpenCouple, NotAFactor, NoFactor, ReadOr,
         NoAlternative, CloseCouple, NotClosed, NoFeed, NoProduction, Link, FreeBNF, Finished
  <2> QED BY <1>1, <1>2, <2>1, RefusedNow
<1>6. CASE /\ pc \in {"no_factor", "no_alternative", "or", "close", "rule_end"}
           /\ ~eof /\ After(pos) \in FactorBegins
  BY <1>1, <1>2, <1>6, FactorWaits, RefusedNow
<1>7. CASE pc \in {"param_end", "rule"} /\ ~eof /\ After(pos) \in Names
  BY <1>1, <1>2, <1>7, ParamWaits, RefusedNow
<1> QED BY <1>3, <1>4, <1>5, <1>6, <1>7 DEF Refused

-----------------------------------------------------------------------------
(* A grammar written as it should be: what was read is what was written *)

\* The reader is where it should be, and what it read stands in the text as a whole.
ReadAll == OnTrack /\ Stood({Blank, ":"}) /\ (NoMallocFailed => Stood({Blank}))

\* What is read of a grammar written as it should be.
GoesWell == Plain => Refused \/ Gone \/ ReadAll

LEMMA StraightLoses ==
  ASSUME GoesStraight, ~Gone', NEW X, ":" \in X \/ NoMallocFailed' PROVE LosesOnly(X)
<1>1. grammar' = <<>> => grammar = <<>>
  BY DEF GoesStraight, Straight, Gone
<1> QED BY <1>1 DEF GoesStraight, Straight, LosesOnly

\* Without a step nothing changes.
LEMMA StutterTrack ==
  ASSUME UNCHANGED vars
  PROVE  /\ text' = text /\ pos' = pos /\ pc' = pc /\ prod' = prod /\ levels' = levels /\ grammar' = grammar
         /\ (Refused' <=> Refused) /\ (Gone' <=> Gone) /\ (OnTrack' <=> OnTrack)
         /\ (NoMallocFailed' <=> NoMallocFailed) /\ \A X : Stood(X)' <=> Stood(X)
<1>0. /\ text' = text /\ pos' = pos /\ pc' = pc /\ prod' = prod /\ levels' = levels /\ grammar' = grammar
      /\ eof' = eof /\ e' = e /\ failures' = failures
  BY DEF vars
<1>1. After(pos)' = After(pos) /\ (FactorAfter(pos)' <=> FactorAfter(pos))
  BY <1>0, TextStays
<1>2. (Expects(pc, pos)' <=> Expects(pc, pos)) /\ (Depth(pc, pos, Len(levels))' <=> Depth(pc, pos, Len(levels)))
  BY <1>0, TextStays
<1>3. NoMallocFailed' <=> NoMallocFailed
  BY <1>0 DEF NoMallocFailed
<1>4. LocalsOnTrack' <=> LocalsOnTrack
  BY <1>0, <1>1 DEF LocalsOnTrack, Level
<1>5. Refused' <=> Refused
  BY <1>0, <1>1, <1>3 DEF Refused, FactorBegins
<1>6. \A X : Stood(X)' <=> Stood(X)
  BY <1>0 DEF Stood, SoFar, Printed
<1> QED BY <1>0, <1>2, <1>3, <1>4, <1>5, <1>6 DEF Gone, OnTrack

LEMMA MallocsNow ==
  ASSUME Typed, Next, NoMallocFailed' PROVE NoMallocFailed
  BY FailuresFall, FailedNow

LEMMA StepGoesWell ==
  ASSUME Typed, Phases, Unlisted, GoesWell, [Next]_vars PROVE GoesWell'
<1>1. text' = text
  BY StepText
<1>2. Plain' <=> Plain
  BY <1>1, TextStays
<1>3. SUFFICES ASSUME Plain, Refused \/ Gone \/ ReadAll PROVE (Refused \/ Gone \/ ReadAll)'
  BY <1>2 DEF GoesWell
<1> HIDE DEF Typed, Phases, Unlisted, Plain, Refused, OnTrack, Stood, NoMallocFailed
<1>4. CASE UNCHANGED vars
  BY <1>3, <1>4, StutterTrack DEF ReadAll
<1>5. CASE Next /\ Refused
  BY <1>5, StepRefused
<1>6. CASE Next /\ Gone
  BY <1>6, StepGone DEF Gone
<1>7. CASE Next /\ ReadAll /\ GoesStraight
  <2>1. SUFFICES ASSUME ~Gone' PROVE ReadAll'
    OBVIOUS
  <2>2. OnTrack'
    BY <1>7 DEF GoesStraight
  <2>3. Stood({Blank, ":"})'
    <3>1. LosesOnly({Blank, ":"})
      BY <1>7, <2>1, StraightLoses
    <3> HIDE DEF LosesOnly
    <3> QED BY <1>7, <3>1, StepStands DEF ReadAll
  <2>4. ASSUME NoMallocFailed' PROVE Stood({Blank})'
    <3>1. LosesOnly({Blank})
      BY <1>7, <2>1, <2>4, StraightLoses
    <3>2. NoMallocFailed
      BY <1>7, <2>4, MallocsNow
    <3> HIDE DEF LosesOnly
    <3> QED BY <1>7, <3>1, <3>2, StepStands DEF ReadAll
  <2> QED BY <2>2, <2>3, <2>4 DEF ReadAll
<1>8. CASE Next /\ ReadAll /\ ~GoesStraight
  <2>1. Refused' \/ UNCHANGED vars
    BY <1>3, <1>8, StepOnTrack DEF ReadAll
  <2> QED BY <1>4, <2>1
<1> QED BY <1>3, <1>4, <1>5, <1>6, <1>7, <1>8

LEMMA InitGoesWell ==
  ASSUME Init PROVE GoesWell
<1>1. /\ pos = 0 /\ ~eof /\ pc = "begin" /\ e = ERR_NONE /\ levels = <<>> /\ Len(levels) = 0
  BY DEF Init
<1>2. \A X : Stood(X)
  BY InitStands
<1>3. Expects(pc, pos)
  BY <1>1 DEF Expects, LevelPCs, LastPCs
<1>4. Depth(pc, pos, Len(levels))
  <2>1. Count("[", 0) = 0 /\ Count("]", 0) = 0
    BY CountNext
  <2> QED BY <1>1, <2>1 DEF Depth, LevelPCs
<1>5. LocalsOnTrack
  BY <1>1 DEF LocalsOnTrack
<1>6. OnTrack
  BY <1>1, <1>3, <1>4, <1>5 DEF OnTrack
<1> QED BY <1>2, <1>6 DEF GoesWell, ReadAll

-----------------------------------------------------------------------------
(* What is printed is the text but for blanks *)

\* Behind what was read there are only blanks.
LEMMA OnlyBlanksLeft ==
  ASSUME Typed, Skip(pos) = Len(text)
  PROVE  \A p \in pos + 1 .. Len(text) : text[p] = Blank
<1>1. Here = Len(text)
  BY DEF Here
<1> QED BY <1>1, BlanksBefore

LEMMA NotWritten == {Blank} \cap Written = {}
<1>1. ASSUME Blank \in Written PROVE FALSE
  <2>1. Blank \in Names \cup Literals \/ Blank \in {"|", ":", "[", "]", "+", "*", "?", "x"}
          \/ Blank \in {"(", ")", Comma, "=", OP_RULE_END, End}
    BY <1>1, Zenon DEF Written, Shown
  <2>2. Blank \notin Names \cup Literals
    BY PlainSymbols
  <2> QED BY <2>1, <2>2 DEF Blank, Comma, OP_RULE_END, End
<1> QED BY <1>1

\* At the end everything that stands in the text is all there is.
LEMMA PrintedAsWritten ==
  ASSUME Typed, pc = "done", Skip(pos) = Len(text), NEW X, Blank \in X, Stood(X), NEW Y, X \subseteq Y
  PROVE  Without(Printed, Y) = Without(text, Y)
<1>1. text \in Seq(Symbols) /\ Len(text) \in Nat /\ DOMAIN text = 1 .. Len(text)
  BY TextIsSeq DEF Typed, StreamTyped
<1>2. PICK n \in Nat : n = Len(text)
  BY <1>1
<1>3. \A p \in pos + 1 .. Len(text) : text[p] \in X
  BY OnlyBlanksLeft
<1> DEFINE p == Printed
<1>4. p \in Seq(Written) /\ StandsIn(p, text, Len(text), X)
  BY <1>3, AllStands
<1> HIDE DEF p
<1>5. Kept(Y, p) = Kept(Y, text)
  BY <1>1, <1>2, <1>4, FilledKept
<1> QED BY <1>5, Zenon DEF Kept, Keep, Without, p

LEMMA ReadsBackNow ==
  ASSUME Typed, GoesWell, pc = "done", Plain, grammar # <<>>
  PROVE  /\ Without(Printed, {Blank, ":"}) = Without(text, {Blank, ":"})
         /\ NoMallocFailed => Printed = Without(text, {Blank})
<1>1. ReadAll
  BY DEF GoesWell, Gone, Refused, LastPCs
<1>2. Skip(pos) = Len(text)
  BY <1>1 DEF ReadAll, OnTrack, Expects, LastPCs
<1> HIDE DEF Typed, Stood
<1>3. Without(Printed, {Blank, ":"}) = Without(text, {Blank, ":"})
  BY <1>1, <1>2, PrintedAsWritten DEF ReadAll
<1>4. ASSUME NoMallocFailed PROVE Printed = Without(text, {Blank})
  <2>1. Without(Printed, {Blank}) = Without(text, {Blank})
    BY <1>1, <1>2, <1>4, PrintedAsWritten DEF ReadAll
  <2> DEFINE p == Printed
  <2>2. p \in Seq(Written)
    BY BegunWritten
  <2> HIDE DEF p
  <2>3. Kept({Blank}, p) = p
    BY <2>2, NotWritten, AllKept
  <2>4. Without(p, {Blank}) = Kept({Blank}, p)
    BY Zenon DEF Without, Kept, Keep
  <2> QED BY <2>1, <2>3, <2>4 DEF p
<1> QED BY <1>3, <1>4

-----------------------------------------------------------------------------
(* A grammar written as it should be: what a step passes *)

\* The step passes no end of a rule, and no ":" is the last it passes.
PassesOn ==
  /\ \E S : OP_RULE_END \notin S /\ Only(S, pos, pos')
  /\ pos' = pos \/ pc' \notin LevelPCs \/ text[pos'] # ":"

LEMMA OnlyThrough ==
  ASSUME NEW m \in Nat, NEW k \in Nat, NEW n \in Nat, NEW S, NEW T, Only(S, m, k), Only(T, k, n)
  PROVE  Only(S \cup T, m, n)
<1>1. m <= n /\ \A i \in m + 1 .. n : i \in m + 1 .. k \/ i \in k + 1 .. n
  BY DEF Only
<1> QED BY <1>1 DEF Only

LEMMA OnePasses ==
  ASSUME Typed, pos' = pos \/ (pos' = Here + 1 /\ After(pos) \notin {End, OP_RULE_END, ":"})
  PROVE  PassesOn
<1>1. CASE pos' = pos
  <2>1. Only({}, pos, pos')
    <3>1. pos \in Nat
      BY Now
    <3> QED BY <1>1, <3>1 DEF Only
  <2>2. \E S : OP_RULE_END \notin S /\ Only(S, pos, pos')
    BY <2>1
  <2> QED BY <1>1, <2>2 DEF PassesOn
<1>2. CASE pos' = Here + 1 /\ After(pos) \notin {End, OP_RULE_END, ":"}
  <2>1. Only({Blank, After(pos)}, pos, pos') /\ text[pos'] = After(pos)
    BY <1>2, Now, NextSymbol
  <2>2. OP_RULE_END \notin {Blank, After(pos)}
    BY <1>2, PlainSymbols
  <2>3. \E S : OP_RULE_END \notin S /\ Only(S, pos, pos')
    BY <2>1, <2>2
  <2> QED BY <1>2, <2>1, <2>3 DEF PassesOn
<1> QED BY <1>1, <1>2

\* Two symbols are passed, with what is blank before each of them.
LEMMA TwoPass ==
  ASSUME Typed, After(pos) \notin {End, OP_RULE_END}, After(Here + 1) \notin {End, OP_RULE_END, ":"},
         pos' = Skip(Here + 1) + 1
  PROVE  PassesOn
<1>n. text \in Texts /\ pos \in 0 .. Len(text) /\ Here = Skip(pos) /\ pos \in Nat
  BY Now
<1> DEFINE k == Here + 1
<1>1. Only({Blank, After(pos)}, pos, k) /\ k \in Nat /\ k \in 0 .. Len(text)
  BY <1>n, NextSymbol
<1>2. After(k) \notin {End, OP_RULE_END, ":"} /\ pos' = Skip(k) + 1
  OBVIOUS
<1> HIDE DEF k
<1>3. Only({Blank, After(k)}, k, pos') /\ pos' \in Nat /\ text[pos'] = After(k)
  BY <1>n, <1>1, <1>2, NextSymbol
<1>4. Only({Blank, After(pos)} \cup {Blank, After(k)}, pos, pos')
  BY <1>n, <1>1, <1>3, OnlyThrough
<1>5. OP_RULE_END \notin {Blank, After(pos)} \cup {Blank, After(k)}
  BY <1>2, PlainSymbols
<1>6. \E S : OP_RULE_END \notin S /\ Only(S, pos, pos')
  BY <1>4, <1>5
<1> QED BY <1>2, <1>3, <1>6 DEF PassesOn

LEMMA ReadParamPasses ==
  ASSUME Typed, ReadParam PROVE PassesOn
<1>n. Symbol(Here) = After(pos) /\ Here = Skip(pos) /\ text \in Texts /\ pos \in 0 .. Len(text)
  BY Now
<1>s. \A x \in Names : x \notin {End, OP_RULE_END, ":"}
  BY PlainSymbols
<1> DEFINE id == Skip(Here + 1)
<1>1. \/ pos' = pos
      \/ Symbol(Here) \in Names /\ pos' = Here + 1
      \/ Symbol(Here) \in Names /\ Symbol(id) \in Names /\ pos' = id + 1
  BY DEF ReadParam
<1>2. CASE pos' = pos \/ (Symbol(Here) \in Names /\ pos' = Here + 1)
  BY <1>n, <1>s, <1>2, OnePasses
<1>3. CASE Symbol(Here) \in Names /\ Symbol(id) \in Names /\ pos' = id + 1
  <2>1. After(Here + 1) = Symbol(id)
    BY DEF After
  <2> QED BY <1>n, <1>s, <1>3, <2>1, TwoPass
<1> QED BY <1>1, <1>2, <1>3

LEMMA ReadRulePasses ==
  ASSUME Typed, ReadRule PROVE PassesOn
<1>n. Here = Skip(pos) /\ text \in Texts /\ pos \in 0 .. Len(text)
  BY Now
<1>1. CASE IsPrefix(OP_RULE, Ahead) /\ pos' = Here + 3
  <2>1. RuleAfter(pos)
    BY <1>n, <1>1 DEF RuleAfter, Ahead
  <2>2. text[pos'] = "=" /\ Only({Blank, ":", "="}, pos, pos')
    BY <1>n, <1>1, <2>1, RuleNext
  <2>3. OP_RULE_END \notin {Blank, ":", "="} /\ "=" # ":"
    BY PlainSymbols
  <2>4. \E S : OP_RULE_END \notin S /\ Only(S, pos, pos')
    BY <2>2, <2>3
  <2> QED BY <2>2, <2>3, <2>4 DEF PassesOn
<1>2. CASE pos' = pos
  BY <1>2, OnePasses
<1> QED BY <1>1, <1>2 DEF ReadRule

LEMMA ReadBuiltinPasses ==
  ASSUME Typed, ReadBuiltin, Straight, NoMallocFailed' PROVE PassesOn
<1>n. /\ Symbol(Here) = After(pos) /\ Here = Skip(pos) /\ text \in Texts /\ pos \in 0 .. Len(text)
      /\ At(":") <=> After(pos) = ":"
  BY Now
<1>1. CASE At(":") /\ Symbol(Here + 1) \in Names /\ pos' = Here + 2
  <2>1. Symbol(Here + 1) \notin {Blank, End, OP_RULE_END, ":"} /\ ":" \notin {End, OP_RULE_END}
    BY <1>1, PlainSymbols
  <2>2. Here \in Nat /\ Here + 1 \in 0 .. Len(text) /\ After(pos) = ":"
    BY <1>n, <1>1, <2>1, NextSymbol
  <2> DEFINE k == Here + 1
  <2>3. Skip(k) = k /\ After(k) = Symbol(k)
    BY <1>n, <2>1, <2>2, SkipStays
  <2>4. pos' = k + 1
    BY <1>1, <2>2
  <2> QED BY <2>1, <2>2, <2>3, <2>4, TwoPass
<1>2. CASE pos' = pos
  BY <1>2, OnePasses
<1>3. pc = "factor" /\ (pos' = pos \/ pc' = "operand" \/ (At(":") /\ Symbol(Here + 1) \in Names /\ pos' = Here + 2))
  BY Zenon DEF ReadBuiltin
<1> QED BY <1>1, <1>2, <1>3 DEF Straight

LEMMA CoupleEndPasses ==
  ASSUME Typed, CloseCouple \/ NotClosed \/ NoFeed PROVE PassesOn
<1>n. Symbol(Here) = After(pos) /\ (At("]") <=> After(pos) = "]")
  BY Now
<1>s. "]" \notin {End, OP_RULE_END, ":"} /\ \A x \in DOMAIN OpFeed : x \notin {End, OP_RULE_END, ":"}
  BY PlainSymbols
<1>1. CASE CloseCouple
  <2>1. After(Here + 1) \in DOMAIN OpFeed /\ After(pos) = "]" /\ pos' = Skip(Here + 1) + 1
    BY <1>1, <1>n DEF CloseCouple, After
  <2> QED BY <1>s, <2>1, TwoPass
<1>2. CASE NotClosed
  BY <1>2, OnePasses DEF NotClosed, NoOperator
<1>3. CASE NoFeed
  BY <1>3, <1>n, <1>s, OnePasses DEF NoFeed
<1> QED BY <1>1, <1>2, <1>3

LEMMA OperatorPasses ==
  ASSUME Typed, NEW op \in {"(", ")", Comma, "[", "|"}, Consume(op) \/ NoOperator({op}) PROVE PassesOn
<1>1. op \notin {End, OP_RULE_END, ":"}
  BY PlainSymbols, Zenon DEF End, OP_RULE_END, Comma
<1>2. pos' = pos \/ (pos' = Here + 1 /\ After(pos) = op)
  BY Now DEF Consume, NoOperator
<1> QED BY <1>1, <1>2, OnePasses

LEMMA StepPasses ==
  ASSUME Typed, Next, GoesStraight, NoMallocFailed', pc # "rule_end" PROVE PassesOn
<1>s. \A x \in Names \cup Literals : x \notin {End, OP_RULE_END, ":"}
  BY PlainSymbols
<1>n. Symbol(Here) = After(pos)
  BY Now
<1>1. CASE Begin \/ ReadAlternative \/ NotAFactor \/ NoFactor \/ NoAlternative
  BY <1>1, OnePasses DEF Begin, ReadAlternative, NotAFactor, NoFactor, NoAlternative
<1>2. CASE NoProduction \/ Link \/ FreeBNF \/ Finished
  BY <1>2, OnePasses DEF NoProduction, Link, FreeBNF, Finished, vars
<1>3. CASE ReadName \/ ReadOperand
  <2>1. pos' = pos \/ (pos' = Here + 1 /\ Symbol(Here) \in Names \cup Literals)
    BY <1>3 DEF ReadName, ReadOperand
  <2> QED BY <1>s, <1>n, <2>1, OnePasses
<1>4. CASE ReadParams \/ ReadParamNext \/ ReadParamEnd
  BY <1>4, OperatorPasses DEF ReadParams, ReadParamNext, ReadParamEnd
<1>5. CASE OpenCouple \/ ReadOr
  BY <1>5, OperatorPasses DEF OpenCouple, ReadOr
<1>6. CASE ReadParam \/ ReadRule \/ ReadBuiltin
  BY <1>6, ReadParamPasses, ReadRulePasses, ReadBuiltinPasses DEF GoesStraight
<1>7. CASE CloseCouple \/ NotClosed \/ NoFeed
  BY <1>7, CoupleEndPasses
<1>8. ~ReadRuleEnd
  BY DEF ReadRuleEnd
<1> HIDE DEF Typed, GoesStraight, NoMallocFailed, PassesOn
<1> QED BY <1>1, <1>2, <1>3, <1>4, <1>5, <1>6, <1>7, <1>8 DEF Next

-----------------------------------------------------------------------------
(* A grammar written as it should be: the rules it uses *)

\* A node that names a rule names one that the text uses.
NamesUsed(n) == n.type = "FACT_RULE" => Last(n.text) \in Used
AllNamesUsed(ns) == \A k \in DOMAIN ns : NamesUsed(ns[k])
LevelUsed(l) == AllNamesUsed(l.target) /\ AllNamesUsed(l.facts)
LevelsUsed(ls) == \A i \in DOMAIN ls : LevelUsed(ls[i])
UsesKnown == /\ \A i \in DOMAIN grammar : AllNamesUsed(grammar[i].exprs)
             /\ AllNamesUsed(prod.exprs) /\ LevelsUsed(levels)

\* No ":" without its name was consumed.
NoColon == pc \in LevelPCs => text[pos] # ":"

LEMMA UsedEmpty == AllNamesUsed(<<>>) /\ LevelsUsed(<<>>) /\ LevelUsed(NoLevel)
<1>1. AllNamesUsed(<<>>) /\ LevelsUsed(<<>>)
  BY DEF AllNamesUsed, LevelsUsed
<1> QED BY <1>1, NoLevelTyped DEF LevelUsed

LEMMA UsedConcat ==
  ASSUME NEW s \in Seq(NodeSet), NEW u \in Seq(NodeSet), AllNamesUsed(s), AllNamesUsed(u)
  PROVE  AllNamesUsed(s \o u)
<1>1. PICK m \in Nat, n \in Nat : m = Len(s) /\ n = Len(u)
  BY LenProperties
<1>2. /\ DOMAIN s = 1 .. m /\ DOMAIN u = 1 .. n /\ DOMAIN (s \o u) = 1 .. m + n
      /\ \A k \in 1 .. m + n : (s \o u)[k] = IF k <= m THEN s[k] ELSE u[k - m]
  BY <1>1, ConcatProperties, LenProperties
<1>3. ASSUME NEW k \in 1 .. m + n PROVE NamesUsed((s \o u)[k])
  <2>1. CASE k <= m
    <3>1. k \in DOMAIN s /\ (s \o u)[k] = s[k]
      BY <1>2, <2>1
    <3> QED BY <3>1 DEF AllNamesUsed
  <2>2. CASE ~(k <= m)
    <3>1. k - m \in DOMAIN u /\ (s \o u)[k] = u[k - m]
      BY <1>2, <2>2
    <3> QED BY <3>1 DEF AllNamesUsed
  <2> QED BY <2>1, <2>2
<1> QED BY <1>2, <1>3 DEF AllNamesUsed

LEMMA UsedOne ==
  ASSUME NEW n \in ReadNode, NamesUsed(n)
  PROVE  AllNamesUsed(<<n>>) /\ <<n>> \in Seq(ReadNode) /\ <<n>> \in Seq(NodeSet)
<1>1. DOMAIN <<n>> = {1} /\ <<n>>[1] = n
  OBVIOUS
<1>2. <<n>> \in Seq(ReadNode)
  OBVIOUS
<1>3. <<n>> \in Seq(NodeSet)
  BY <1>2, ReadNodesAreNodes
<1> QED BY <1>1, <1>2, <1>3 DEF AllNamesUsed

LEMMA LevelsUsedAppend ==
  ASSUME NEW ls \in Seq(LevelSet), NEW l \in LevelSet
  PROVE  LevelsUsed(Append(ls, l)) <=> LevelsUsed(ls) /\ LevelUsed(l)
<1>1. PICK m \in Nat : m = Len(ls)
  BY LenProperties
<1>2. /\ DOMAIN ls = 1 .. m /\ DOMAIN Append(ls, l) = 1 .. m + 1 /\ Append(ls, l)[m + 1] = l
      /\ \A k \in 1 .. m : Append(ls, l)[k] = ls[k]
  BY <1>1, AppendProperties, LenProperties
<1>3. \A k \in 1 .. m + 1 : k \in 1 .. m \/ k = m + 1
  OBVIOUS
<1>4. m + 1 \in 1 .. m + 1 /\ \A k \in 1 .. m : k \in 1 .. m + 1
  OBVIOUS
<1> HIDE DEF LevelUsed
<1> DEFINE z == Append(ls, l)
<1>5. DOMAIN z = 1 .. m + 1 /\ z[m + 1] = l /\ \A k \in 1 .. m : z[k] = ls[k]
  BY <1>2
<1> HIDE DEF z
<1>6. LevelsUsed(z) <=> LevelsUsed(ls) /\ LevelUsed(l)
  BY <1>2, <1>3, <1>4, <1>5 DEF LevelsUsed
<1> QED BY <1>6 DEF z

\* The text stays, and the rules it uses.
LEMMA UsesArrive ==
  ASSUME text' = text, \A i \in DOMAIN grammar' : AllNamesUsed(grammar'[i].exprs),
         AllNamesUsed(prod'.exprs), LevelsUsed(levels')
  PROVE  UsesKnown'
<1>0. Used' = Used
  BY TextStays
<1>1. ASSUME NEW n PROVE NamesUsed(n)' <=> NamesUsed(n)
  BY <1>0 DEF NamesUsed
<1>2. ASSUME NEW ns PROVE AllNamesUsed(ns)' <=> AllNamesUsed(ns)
  BY <1>1 DEF AllNamesUsed
<1>3. ASSUME NEW l PROVE LevelUsed(l)' <=> LevelUsed(l)
  BY <1>2 DEF LevelUsed
<1>4. ASSUME NEW ls PROVE LevelsUsed(ls)' <=> LevelsUsed(ls)
  BY <1>3 DEF LevelsUsed
<1> QED BY <1>2, <1>4 DEF UsesKnown

\* The levels of an expression, and what is in them.
LEMMA LevelsNow ==
  ASSUME Typed, UsesKnown, pc \in LevelPCs
  PROVE  /\ Level \in LevelSet /\ Front(levels) \in Seq(LevelSet) /\ levels = Append(Front(levels), Level)
         /\ LevelUsed(Level) /\ LevelsUsed(Front(levels))
         /\ Level.target \in Seq(NodeSet) /\ Level.facts \in Seq(NodeSet)
         /\ \A l \in LevelSet : LevelUsed(l) => LevelsUsed(SetLevel(l))
<1>1. /\ Level \in LevelSet /\ Front(levels) \in Seq(LevelSet) /\ levels = Append(Front(levels), Level)
      /\ \A l \in LevelSet : SetLevel(l) = Append(Front(levels), l)
  BY LastLevel
<1> DEFINE f == Front(levels)
           m == Level
<1>2. f \in Seq(LevelSet) /\ m \in LevelSet /\ LevelsUsed(Append(f, m))
      /\ \A l \in LevelSet : SetLevel(l) = Append(f, l)
  BY <1>1 DEF UsesKnown
<1> HIDE DEF f, m, LevelsUsed, LevelUsed
<1>3. LevelUsed(m) /\ LevelsUsed(f)
  BY <1>2, LevelsUsedAppend
<1>4. ASSUME NEW l \in LevelSet, LevelUsed(l) PROVE LevelsUsed(SetLevel(l))
  <2>1. LevelsUsed(Append(f, l))
    BY <1>2, <1>3, <1>4, LevelsUsedAppend
  <2>2. SetLevel(l) = Append(f, l)
    BY <1>2
  <2> QED BY <2>1, <2>2
<1>5. m.target \in Seq(NodeSet) /\ m.facts \in Seq(NodeSet)
  BY <1>2, LevelFields, ReadNodesAreNodes
<1> QED BY <1>1, <1>3, <1>4, <1>5 DEF f, m

\* Only the innermost level changes.
LEMMA LevelSetUsed ==
  ASSUME Typed, UsesKnown, pc \in LevelPCs, UNCHANGED <<text, grammar, prod>>,
         NEW l \in LevelSet, LevelUsed(l), levels' = SetLevel(l)
  PROVE  UsesKnown'
<1>1. LevelsUsed(levels')
  BY LevelsNow
<1> HIDE DEF AllNamesUsed, LevelsUsed
<1> QED BY <1>1, UsesArrive DEF UsesKnown

LEMMA SameUsed ==
  ASSUME UsesKnown, UNCHANGED <<text, grammar, levels>>, prod'.exprs = prod.exprs \/ prod'.exprs = <<>>
  PROVE  UsesKnown'
<1> HIDE DEF AllNamesUsed, LevelsUsed
<1> QED BY UsesArrive, UsedEmpty DEF UsesKnown

\* A factor is read.
LEMMA FactorUsed ==
  ASSUME Typed, UsesKnown, pc \in LevelPCs, UNCHANGED <<text, grammar, prod>>,
         NEW b \in ReadNode, NamesUsed(b), AddFactor(Level, <<b>>)
  PROVE  UsesKnown'
<1> DEFINE m == WithFacts(Level, <<b>>)
<1>1. /\ Level \in LevelSet /\ LevelUsed(Level) /\ Level.facts \in Seq(NodeSet)
  BY LevelsNow
<1> HIDE DEF NamesUsed, AllNamesUsed
<1>2. <<b>> \in Seq(ReadNode) /\ <<b>> \in Seq(NodeSet)
  BY UsedOne
<1>3. m \in LevelSet /\ m.facts = Level.facts \o <<b>> /\ m.target = Level.target
  BY <1>1, <1>2, FactAdded
<1>4. AllNamesUsed(<<b>>)
  BY UsedOne
<1>5. AllNamesUsed(Level.facts \o <<b>>)
  BY <1>1, <1>2, <1>4, UsedConcat DEF LevelUsed
<1>6. levels' = SetLevel(m)
  BY DEF AddFactor, WithFacts
<1> HIDE DEF m, NamesUsed, AllNamesUsed
<1>7. LevelUsed(m)
  BY <1>1, <1>3, <1>5 DEF LevelUsed
<1> QED BY <1>3, <1>6, <1>7, LevelSetUsed

LEMMA ReadAlternativeUsed ==
  ASSUME Typed, UsesKnown, ReadAlternative PROVE UsesKnown'
<1>0. pc \in LevelPCs /\ UNCHANGED <<text, grammar, prod>>
  BY DEF ReadAlternative, LevelPCs
<1>1. CASE levels' = SetLevel([Level EXCEPT !.expr = Fresh(1)])
  <2> DEFINE m == [Level EXCEPT !.expr = Fresh(1)]
  <2>1. Level \in LevelSet /\ LevelUsed(Level)
    BY <1>0, LevelsNow
  <2>2. m \in LevelSet /\ m.target = Level.target /\ m.facts = Level.facts
    BY <2>1, FreshIsFree DEF LevelSet
  <2> HIDE DEF m
  <2>3. LevelUsed(m)
    BY <2>1, <2>2 DEF LevelUsed
  <2>4. levels' = SetLevel(m)
    BY <1>1 DEF m
  <2> QED BY <1>0, <2>2, <2>3, <2>4, LevelSetUsed
<1>2. CASE levels' = levels
  BY <1>0, <1>2, SameUsed
<1> QED BY <1>1, <1>2 DEF ReadAlternative

LEMMA ReadBuiltinUsed ==
  ASSUME Typed, UsesKnown, ReadBuiltin PROVE UsesKnown'
<1>0. pc \in LevelPCs /\ UNCHANGED <<text, grammar, prod>>
  BY DEF ReadBuiltin, LevelPCs
<1>1. CASE levels' = SetLevel([Level EXCEPT !.fact = Fresh(1)])
  <2> DEFINE m == [Level EXCEPT !.fact = Fresh(1)]
  <2>1. Level \in LevelSet /\ LevelUsed(Level)
    BY <1>0, LevelsNow
  <2>2. m \in LevelSet /\ m.target = Level.target /\ m.facts = Level.facts
    BY <2>1, FreshIsFree DEF LevelSet
  <2> HIDE DEF m
  <2>3. LevelUsed(m)
    BY <2>1, <2>2 DEF LevelUsed
  <2>4. levels' = SetLevel(m)
    BY <1>1 DEF m
  <2> QED BY <1>0, <2>2, <2>3, <2>4, LevelSetUsed
<1>2. CASE levels' = levels
  BY <1>0, <1>2, SameUsed
<1> DEFINE b == Node("FACT_RULE_BUILTIN", <<":", Symbol(Here + 1)>>, Fresh(1), Fresh(2))
<1>3. CASE Symbol(Here + 1) \in Names /\ AddFactor(Level, <<b>>)
  <2>1. b \in ReadNode
    <3>1. <<":", Symbol(Here + 1)>> \in Seq(Shown)
      <4>1. ":" \in Shown /\ Symbol(Here + 1) \in Shown
        BY <1>3 DEF Shown
      <4> HIDE DEF Shown
      <4> QED BY <4>1
    <3>2. "FACT_RULE_BUILTIN" \in NodeTypes \ {"FACT_RULE_LINKED"} /\ "FACT_RULE_BUILTIN" # "FACT_RULE"
      BY DEF NodeTypes
    <3> QED BY <3>1, <3>2, FreshIsFree, NodeTyped
  <2>2. b.type # "FACT_RULE"
    BY DEF Node
  <2>3. AddFactor(Level, <<b>>)
    BY <1>3
  <2> HIDE DEF b
  <2>4. NamesUsed(b)
    BY <2>2 DEF NamesUsed
  <2> QED BY <1>0, <2>1, <2>3, <2>4, FactorUsed
<1> QED BY <1>1, <1>2, <1>3, Zenon DEF ReadBuiltin

\* The name of a rule is used where it stands.
LEMMA ReadOperandUsed ==
  ASSUME Typed, Phases, OnTrack, NoColon, UsesKnown, ReadOperand PROVE UsesKnown'
<1>0. /\ pc = "operand" /\ pc \in LevelPCs /\ UNCHANGED <<text, grammar, prod>> /\ InBody(pos)
      /\ Symbol(Here) \in Names \cup Literals
  BY DEF ReadOperand, LevelPCs, OnTrack, Expects
<1>n. /\ Symbol(Here) = After(pos) /\ Here = Skip(pos) /\ text \in Texts /\ pos \in 0 .. Len(text)
  BY Now
<1> DEFINE type == IF Symbol(Here) \in Names THEN "FACT_RULE" ELSE "FACT_LITERAL"
           b == Node(type, <<Symbol(Here)>>, Level.fact, Fresh(1))
<1>1. b \in ReadNode
  <2>1. <<Symbol(Here)>> \in Seq(Shown)
    BY <1>0 DEF Shown
  <2>2. type \in NodeTypes \ {"FACT_RULE_LINKED"}
    BY DEF NodeTypes
  <2>3. Level.fact \in Nat /\ Level.fact # Fresh(1) /\ Fresh(1) \in Nat
    <3>1. Level.fact \in live /\ Level \in LevelSet
      BY <1>0, LastLevel DEF Phases, LevelPCs
    <3> QED BY <3>1, FreshIsFree, LevelFields
  <2> HIDE DEF type
  <2> QED BY <2>1, <2>2, <2>3, NodeTyped
<1>2. Symbol(Here) \in Names => Symbol(Here) \in Used
  <2>1. SUFFICES ASSUME Symbol(Here) \in Names PROVE Symbol(Here) \in Used
    OBVIOUS
  <2>2. After(pos) \notin {End, OP_RULE_END}
    BY <1>n, <2>1, PlainSymbols
  <2> DEFINE h == Here
  <2>3. h \in Nat /\ h + 1 \in DOMAIN text /\ text[h + 1] = Symbol(Here) /\ InBody(h + 1)
    BY <1>0, <1>n, <2>2, NextSymbol, Passed
  <2>4. text[h] # ":"
    <3>1. pos \in Nat /\ h \in Nat /\ pos <= h /\ \A p \in pos + 1 .. h : text[p] = Blank
      BY HereBehind, BlanksBefore
    <3>2. text[pos] # ":" /\ Blank # ":"
      BY <1>0, PlainSymbols DEF NoColon
    <3> HIDE DEF h
    <3>3. h = pos \/ h \in pos + 1 .. h
      BY <3>1
    <3> QED BY <3>1, <3>2, <3>3
  <2> HIDE DEF h
  <2>5. (h + 1) - 1 = h
    BY <2>3
  <2>6. h + 1 \in {n \in DOMAIN text : text[n] \in Names /\ InBody(n) /\ text[n - 1] # ":"}
    BY <2>1, <2>3, <2>4, <2>5
  <2> QED BY <2>3, <2>6 DEF Used
<1>3. NamesUsed(b)
  <2>1. b.type = type /\ b.text = <<Symbol(Here)>>
    BY DEF Node
  <2>2. Last(<<Symbol(Here)>>) = Symbol(Here)
    BY DEF Last
  <2>3. type = "FACT_RULE" => Symbol(Here) \in Names
    OBVIOUS
  <2> HIDE DEF b, type
  <2> QED BY <1>2, <2>1, <2>2, <2>3 DEF NamesUsed
<1>4. AddFactor(Level, <<b>>)
  BY DEF ReadOperand
<1> HIDE DEF b
<1> QED BY <1>0, <1>1, <1>3, <1>4, FactorUsed

LEMMA OpenCoupleUsed ==
  ASSUME Typed, UsesKnown, OpenCouple PROVE UsesKnown'
<1>0. UNCHANGED <<text, grammar, prod>> /\ levels' = Append(levels, NoLevel)
  BY DEF OpenCouple, NoLevel
<1>1. levels \in Seq(LevelSet) /\ LevelsUsed(levels)
  BY DEF Typed, LevelsTyped, UsesKnown
<1> HIDE DEF LevelsUsed, LevelUsed
<1>2. LevelsUsed(levels')
  BY <1>0, <1>1, NoLevelTyped, UsedEmpty, LevelsUsedAppend
<1> HIDE DEF AllNamesUsed
<1> QED BY <1>0, <1>2, UsesArrive DEF UsesKnown

LEMMA NotAFactorUsed ==
  ASSUME Typed, UsesKnown, NotAFactor PROVE UsesKnown'
<1>0. pc \in LevelPCs /\ UNCHANGED <<text, grammar, prod>> /\ levels' = SetLevel(WithoutFact(Level))
  BY DEF NotAFactor, LevelPCs, WithoutFact
<1>1. Level \in LevelSet /\ LevelUsed(Level)
  BY <1>0, LevelsNow
<1>2. /\ WithoutFact(Level) \in LevelSet /\ WithoutFact(Level).facts = Level.facts
      /\ WithoutFact(Level).target = Level.target
  BY <1>1, FactDropped
<1>3. LevelUsed(WithoutFact(Level))
  BY <1>1, <1>2 DEF LevelUsed
<1> QED BY <1>0, <1>2, <1>3, LevelSetUsed

LEMMA NoFactorUsed ==
  ASSUME Typed, UsesKnown, NoFactor, Straight PROVE UsesKnown'
<1>0. pc \in LevelPCs /\ UNCHANGED <<text, grammar, prod>> /\ levels' = SetLevel(Alternative(Level))
  BY DEF NoFactor, LevelPCs, Alternative, Straight
<1>1. Level \in LevelSet /\ LevelUsed(Level) /\ Level.target \in Seq(NodeSet) /\ Level.facts \in Seq(NodeSet)
  BY <1>0, LevelsNow
<1> DEFINE n == ExprNode(Level)
           m == Alternative(Level)
<1>2. /\ m \in LevelSet /\ m.facts = <<>> /\ n \in ReadNode
      /\ m.target = (Level.target \o <<n>>) \o Level.facts
  BY <1>1, AlternativeIs
<1>3. NamesUsed(n)
  BY DEF ExprNode, Node, NamesUsed
<1> HIDE DEF n, m, NamesUsed, AllNamesUsed
<1>4. <<n>> \in Seq(NodeSet) /\ AllNamesUsed(<<n>>)
  BY <1>2, <1>3, UsedOne
<1>5. Level.target \o <<n>> \in Seq(NodeSet) /\ AllNamesUsed(Level.target \o <<n>>)
  BY <1>1, <1>4, ConcatProperties, UsedConcat DEF LevelUsed
<1>6. AllNamesUsed(m.target)
  BY <1>1, <1>2, <1>5, UsedConcat DEF LevelUsed
<1>7. LevelUsed(m)
  BY <1>2, <1>6, UsedEmpty DEF LevelUsed
<1> QED BY <1>0, <1>2, <1>7, LevelSetUsed DEF m

LEMMA ReadOrUsed ==
  ASSUME Typed, UsesKnown, ReadOr PROVE UsesKnown'
<1>0. pc \in LevelPCs /\ UNCHANGED <<text, grammar>>
  BY DEF ReadOr, LevelPCs
<1>1. Level \in LevelSet /\ LevelUsed(Level)
  BY <1>0, LevelsNow
<1>2. CASE UNCHANGED <<levels, prod>>
  BY <1>0, <1>2, SameUsed
<1>3. CASE levels' = SetLevel([Level EXCEPT !.target = Level.target]) /\ UNCHANGED prod
  <2>1. [Level EXCEPT !.target = Level.target] = Level
    BY <1>1 DEF LevelSet
  <2> QED BY <1>0, <1>1, <1>3, <2>1, LevelSetUsed
<1>4. CASE levels' = <<>> /\ prod' = [prod EXCEPT !.exprs = Level.target]
  <2>1. prod \in ProdSet(ReadNode)
    BY DEF Typed, ProdTyped
  <2>2. prod'.exprs = Level.target
    BY <1>4, <2>1 DEF ProdSet
  <2> HIDE DEF AllNamesUsed, LevelsUsed
  <2>3. AllNamesUsed(prod'.exprs) /\ LevelsUsed(levels')
    BY <1>1, <1>4, <2>2, UsedEmpty DEF LevelUsed
  <2> QED BY <1>0, <2>3, UsesArrive DEF UsesKnown
<1> QED BY <1>2, <1>3, <1>4 DEF ReadOr, EndLoop

\* The expressions of a couple go to the level around it.
LEMMA CloseCoupleUsed ==
  ASSUME Typed, Phases, UsesKnown, CloseCouple PROVE UsesKnown'
<1>0. pc \in LevelPCs /\ UNCHANGED <<text, grammar, prod>> /\ Front(levels) # <<>>
  BY DEF CloseCouple, LevelPCs, Phases
<1>1. PICK type \in {"FACT_EXPR_NGT", "FACT_EXPR_NGTE", "FACT_EXPR_OPT"} :
        levels' = Append(Front(Front(levels)), WithFacts(Outer, Couple(Outer.fact, type, Level.target)))
  BY CloseCoupleIs
<1>2. /\ LevelUsed(Level) /\ LevelsUsed(Front(levels)) /\ Level \in LevelSet
      /\ Level.target \in Seq(NodeSet) /\ Level.target \in Seq(ReadNode)
  BY <1>0, LevelsNow, LevelFields
<1>3. /\ Outer \in LevelSet /\ Front(Front(levels)) \in Seq(LevelSet)
      /\ Front(levels) = Append(Front(Front(levels)), Outer)
  BY <1>0, OuterLevel
<1>4. LevelsUsed(Front(Front(levels))) /\ LevelUsed(Outer)
  <2> DEFINE f == Front(Front(levels))
             o == Outer
  <2>1. f \in Seq(LevelSet) /\ o \in LevelSet /\ LevelsUsed(Append(f, o))
    BY <1>2, <1>3
  <2> HIDE DEF f, o, LevelsUsed, LevelUsed
  <2>2. LevelsUsed(f) /\ LevelUsed(o)
    BY <2>1, LevelsUsedAppend
  <2> QED BY <2>2 DEF f, o
<1> DEFINE c == Couple(Outer.fact, type, Level.target)
           a == CoupleNode(Outer.fact, type)
           z == CoupleEnd(type)
<1>5. Outer.fact \in Nat /\ Outer.facts \in Seq(ReadNode) /\ Outer.facts \in Seq(NodeSet)
  BY <1>3, LevelFields, ReadNodesAreNodes
<1>6. c \in Seq(ReadNode) /\ c = (<<a>> \o Level.target) \o <<z>> /\ a \in ReadNode /\ z \in ReadNode
  BY <1>2, <1>5, CoupleTyped
<1>7. NamesUsed(a) /\ NamesUsed(z)
  BY DEF CoupleNode, CoupleEnd, Node, NamesUsed
<1> HIDE DEF c, a, z, NamesUsed, AllNamesUsed
<1>8. /\ <<a>> \in Seq(NodeSet) /\ <<z>> \in Seq(NodeSet) /\ AllNamesUsed(<<a>>) /\ AllNamesUsed(<<z>>)
  BY <1>6, <1>7, UsedOne
<1>9. <<a>> \o Level.target \in Seq(NodeSet) /\ AllNamesUsed(<<a>> \o Level.target)
  BY <1>2, <1>8, ConcatProperties, UsedConcat DEF LevelUsed
<1>10. AllNamesUsed(c) /\ c \in Seq(NodeSet)
  BY <1>6, <1>8, <1>9, UsedConcat, ReadNodesAreNodes
<1> DEFINE w == WithFacts(Outer, c)
<1>11. w \in LevelSet /\ w.facts = Outer.facts \o c /\ w.target = Outer.target
  BY <1>3, <1>6, FactAdded
<1>12. levels' = Append(Front(Front(levels)), w)
  BY <1>1 DEF c
<1> HIDE DEF w
<1>13. AllNamesUsed(w.facts)
  BY <1>4, <1>5, <1>10, <1>11, UsedConcat DEF LevelUsed
<1>14. LevelUsed(w)
  BY <1>4, <1>11, <1>13 DEF LevelUsed
<1> HIDE DEF LevelsUsed, LevelUsed
<1>15. LevelsUsed(levels')
  BY <1>3, <1>4, <1>11, <1>12, <1>14, LevelsUsedAppend
<1> QED BY <1>0, <1>15, UsesArrive DEF UsesKnown

-----------------------------------------------------------------------------
(* A grammar written as it should be: the productions it defines *)

HeadPCs == ParamPCs \cup LevelPCs \cup {"rule_end"}

\* Each name at the head of a rule, up to where the reader is, is that of a
\* production, or of the one that is being read.
HeadsKnown ==
  \A n \in 0 .. pos : (n = 0 \/ text[n] = OP_RULE_END) /\ After(n) \in Names =>
    \/ \E i \in DOMAIN grammar : grammar[i].name = After(n)
    \/ pc \in HeadPCs /\ prod.name = After(n)
    \/ n = pos /\ pc \in {"begin", "production"}

LEMMA HeadsStay ==
  ASSUME Typed, text' = text, PassesOn, HeadsKnown,
         \A i \in DOMAIN grammar : \E j \in DOMAIN grammar' : grammar'[j].name = grammar[i].name,
         pc \in HeadPCs => pc' \in HeadPCs /\ prod'.name = prod.name,
         pc \in {"begin", "production"} =>
           \/ pos' = pos /\ pc' = "production"
           \/ After(pos) \in Names => pc' \in HeadPCs /\ prod'.name = After(pos)
  PROVE  HeadsKnown'
<1>1. \A n : After(n)' = After(n)
  BY TextStays
<1>2. PICK S : OP_RULE_END \notin S /\ Only(S, pos, pos')
  BY DEF PassesOn
<1>3. pos \in Nat
  BY Now
<1>4. ASSUME NEW n \in 0 .. pos', n = 0 \/ text[n] = OP_RULE_END PROVE n \in 0 .. pos
  <2>1. n \in pos + 1 .. pos' => text[n] \in S
    BY <1>2 DEF Only
  <2>2. pos <= pos'
    BY <1>2 DEF Only
  <2>3. n \in 0 .. pos \/ n \in pos + 1 .. pos'
    BY <1>3, <2>2
  <2>4. n # 0 \/ n \in 0 .. pos
    BY <1>3
  <2> QED BY <1>2, <1>4, <2>1, <2>3, <2>4
<1>5. ASSUME NEW n \in 0 .. pos', n = 0 \/ text[n] = OP_RULE_END, After(n) \in Names
      PROVE  \/ \E i \in DOMAIN grammar' : grammar'[i].name = After(n)
             \/ pc' \in HeadPCs /\ prod'.name = After(n)
             \/ n = pos' /\ pc' \in {"begin", "production"}
  <2>1. n \in 0 .. pos
    BY <1>4, <1>5
  <2>2. \/ \E i \in DOMAIN grammar : grammar[i].name = After(n)
        \/ pc \in HeadPCs /\ prod.name = After(n)
        \/ n = pos /\ pc \in {"begin", "production"}
    BY <1>5, <2>1 DEF HeadsKnown
  <2> HIDE DEF HeadPCs
  <2> QED BY <1>5, <2>2
<1> HIDE DEF HeadPCs
<1> QED BY <1>1, <1>5 DEF HeadsKnown

\* While a production is read, it and the grammar keep their names.
LEMMA HeadKept ==
  ASSUME Typed, Next, Straight, pc \in HeadPCs \ {"rule_end"}
  PROVE  grammar' = grammar /\ prod'.name = prod.name /\ pc' \in HeadPCs
<1>p. prod \in ProdSet(ReadNode)
  BY DEF Typed, ProdTyped
<1>q. \A x : /\ [prod EXCEPT !.params = x].name = prod.name
             /\ [prod EXCEPT !.exprs = x].name = prod.name
  BY <1>p DEF ProdSet
<1>n. pc # "production" /\ pc' # "no_production"
  BY DEF HeadPCs, ParamPCs, LevelPCs, Straight
<1>1. CASE ReadParams \/ ReadParamNext \/ ReadRule
  BY <1>n, <1>1 DEF ReadParams, ReadParamNext, ReadRule, WithoutParams, HeadPCs, ParamPCs, LevelPCs
<1>2. CASE ReadParam
  <2>1. grammar' = grammar /\ pc' \in {"param_next", "param_end", "no_production"}
    BY <1>2 DEF ReadParam, NoParam
  <2>2. \E x : prod' = [prod EXCEPT !.params = x]
    BY <1>2, Zenon DEF ReadParam, NoParam
  <2>3. pc' \in HeadPCs
    BY <1>n, <2>1 DEF HeadPCs, ParamPCs
  <2> HIDE DEF HeadPCs
  <2> QED BY <1>q, <2>1, <2>2, <2>3
<1>3. CASE ReadParamEnd
  <2>1. grammar' = grammar /\ pc' \in {"rule", "no_production"}
    BY <1>3 DEF ReadParamEnd, WithoutParams
  <2>2. prod' = prod \/ prod' = [prod EXCEPT !.params = <<>>]
    BY <1>3 DEF ReadParamEnd
  <2>3. pc' \in HeadPCs
    BY <1>n, <2>1 DEF HeadPCs, ParamPCs
  <2> HIDE DEF HeadPCs
  <2> QED BY <1>q, <2>1, <2>2, <2>3
<1>4. CASE ReadAlternative \/ ReadBuiltin \/ ReadOperand \/ OpenCouple \/ NotAFactor \/ NoFactor
  <2>1. pc' \in {"factor", "no_alternative", "no_factor", "operand", "alternative", "or"}
        /\ UNCHANGED <<grammar, prod>>
    BY <1>4 DEF ReadAlternative, ReadBuiltin, ReadOperand, OpenCouple, NotAFactor, NoFactor, AddFactor
  <2> QED BY <2>1 DEF HeadPCs, LevelPCs
<1>5. CASE ReadOr
  <2>1. grammar' = grammar /\ pc' \in {"alternative", "close", "rule_end"}
    BY <1>5 DEF ReadOr, EndLoop
  <2>2. prod' = prod \/ \E x : prod' = [prod EXCEPT !.exprs = x]
    BY <1>5, Zenon DEF ReadOr, EndLoop
  <2>3. pc' \in HeadPCs
    BY <2>1 DEF HeadPCs, LevelPCs
  <2> HIDE DEF HeadPCs
  <2> QED BY <1>q, <2>1, <2>2, <2>3
<1>6. CASE NoAlternative
  BY <1>6 DEF NoAlternative, Straight
<1>7. CASE CloseCouple \/ NotClosed \/ NoFeed
  <2>1. pc' \in {"factor", "no_factor"} /\ UNCHANGED <<grammar, prod>>
    BY <1>7 DEF CloseCouple, NotClosed, NoFeed, CoupleFails
  <2> QED BY <2>1 DEF HeadPCs, LevelPCs
<1>8. ~(Begin \/ ReadName \/ ReadRuleEnd \/ NoProduction \/ Link \/ FreeBNF \/ Finished)
  BY DEF Begin, ReadName, ReadRuleEnd, NoProduction, Link, FreeBNF, Finished, HeadPCs, ParamPCs, LevelPCs
<1> QED BY <1>1, <1>2, <1>3, <1>4, <1>5, <1>6, <1>7, <1>8 DEF Next

LEMMA ReadNameHeads ==
  ASSUME Typed, HeadsKnown, ReadName, NoMallocFailed', PassesOn PROVE HeadsKnown'
<1>0. text' = text /\ grammar' = grammar /\ pc = "production" /\ ~MallocFails /\ pc \notin HeadPCs
  BY FailedNow DEF ReadName, HeadPCs, ParamPCs, LevelPCs
<1>n. Symbol(Here) = After(pos)
  BY Now
<1>1. After(pos) \in Names => pc' \in HeadPCs /\ prod'.name = After(pos)
  <2>1. CASE /\ Symbol(Here) \in Names /\ pc' = "params"
             /\ prod' = [NoProd EXCEPT !.name = Symbol(Here), !.identifier = Fresh(1)]
    <3>1. prod'.name = Symbol(Here)
      BY <2>1 DEF NoProd
    <3> QED BY <1>n, <2>1, <3>1 DEF HeadPCs, ParamPCs
  <2>2. CASE Symbol(Here) \notin Names
    BY <1>n, <2>2
  <2> QED BY <1>0, <2>1, <2>2, Zenon DEF ReadName
<1> HIDE DEF HeadPCs, PassesOn, HeadsKnown, Typed
<1> QED BY <1>0, <1>1, HeadsStay

\* A production is complete.
LEMMA ReadRuleEndHeads ==
  ASSUME Typed, HeadsKnown, ReadRuleEnd, GoesStraight PROVE HeadsKnown'
<1>0. /\ text' = text /\ pc = "rule_end" /\ pc' # "no_production"
  BY DEF ReadRuleEnd, GoesStraight, Straight
<1>1. /\ Consume(OP_RULE_END) /\ pc' = "production"
      /\ grammar' = Append(grammar, [prod EXCEPT !.block = Fresh(1)])
  BY <1>0 DEF ReadRuleEnd
<1>2. After(pos) = OP_RULE_END /\ OP_RULE_END # End /\ pos' = Here + 1 /\ Here = Skip(pos) /\ OP_RULE_END # Blank
      /\ text \in Texts /\ pos \in 0 .. Len(text) /\ pos \in Nat
  BY <1>1, Now, PlainSymbols DEF Consume
<1>3. Only({Blank}, pos, Here) /\ Here \in Nat
  BY <1>2, NextSymbol
<1>g. grammar \in Seq(ProdSet(NodeSet)) /\ prod \in ProdSet(ReadNode)
  BY DEF Typed, GrammarTyped, ProdTyped
<1> DEFINE p == [prod EXCEPT !.block = Fresh(1)]
<1>4. p \in ProdSet(NodeSet) /\ p.name = prod.name
  <2>1. p.name = prod.name
    BY <1>g DEF ProdSet
  <2>2. p \in ProdSet(ReadNode)
    BY <1>g, FreshIsFree DEF ProdSet
  <2> HIDE DEF p
  <2> QED BY <2>1, <2>2, ReadNodesAreNodes
<1>5. /\ \A i \in DOMAIN grammar : \E j \in DOMAIN grammar' : grammar'[j].name = grammar[i].name
      /\ \E j \in DOMAIN grammar' : grammar'[j].name = prod.name
  <2>1. PICK m \in Nat : m = Len(grammar)
    BY <1>g, LenProperties
  <2> HIDE DEF p, ProdSet
  <2>2. /\ DOMAIN grammar = 1 .. m /\ DOMAIN Append(grammar, p) = 1 .. m + 1
        /\ Append(grammar, p)[m + 1] = p /\ \A k \in 1 .. m : Append(grammar, p)[k] = grammar[k]
    BY <1>g, <1>4, <2>1, AppendProperties, LenProperties
  <2>3. grammar' = Append(grammar, p)
    BY <1>1 DEF p
  <2>4. m + 1 \in 1 .. m + 1 /\ \A k \in 1 .. m : k \in 1 .. m + 1
    OBVIOUS
  <2> QED BY <1>4, <2>2, <2>3, <2>4
<1>6. \A n : After(n)' = After(n)
  BY <1>0, TextStays
<1>7. ASSUME NEW n \in 0 .. pos', n = 0 \/ text[n] = OP_RULE_END, After(n) \in Names
      PROVE  \/ \E i \in DOMAIN grammar' : grammar'[i].name = After(n)
             \/ n = pos'
  <2>1. n \in 0 .. pos \/ n \in pos + 1 .. Here \/ n = pos'
    BY <1>2, <1>3 DEF Only
  <2>2. CASE n \in pos + 1 .. Here
    <3>1. text[n] = Blank
      BY <1>3, <2>2 DEF Only
    <3>2. n # 0
      BY <1>2, <2>2
    <3> QED BY <1>2, <1>7, <3>1, <3>2
  <2>3. CASE n \in 0 .. pos
    <3>1. \/ \E i \in DOMAIN grammar : grammar[i].name = After(n)
          \/ pc \in HeadPCs /\ prod.name = After(n)
          \/ n = pos /\ pc \in {"begin", "production"}
      BY <1>7, <2>3 DEF HeadsKnown
    <3> QED BY <1>0, <1>5, <3>1
  <2> QED BY <2>1, <2>2, <2>3
<1> QED BY <1>0, <1>1, <1>6, <1>7 DEF HeadsKnown

LEMMA SeekTargetFinds ==
  ASSUME Typed, NEW x \in DOMAIN grammar
  PROVE  _seek_target(grammar[x].name) # NULL
<1> DEFINE id == grammar[x].name
           T == { j \in 1 .. Len(grammar) : grammar[j].name = id }
           n == SelectInSeq(grammar, LAMBDA p : p.name = id)
<1>1. n = IF T # {} THEN Min(T) ELSE 0
  BY DEF SelectInSeq
<1>2. _seek_target(id) = IF n = 0 THEN NULL ELSE grammar[n].block
  BY DEF _seek_target
<1>g. grammar \in Seq(ProdSet(NodeSet))
  BY DEF Typed, GrammarTyped
<1>l. Len(grammar) \in Nat /\ DOMAIN grammar = 1 .. Len(grammar)
  BY <1>g, LenProperties
<1>3. T \subseteq Nat
  <2>1. T \subseteq 1 .. Len(grammar) /\ 1 .. Len(grammar) \subseteq Nat
    BY <1>l
  <2> QED BY <2>1
<1> HIDE DEF n
<1>4. T # {}
  BY <1>l
<1>5. \E m \in T : \A k \in T : m <= k
  <2> HIDE DEF T
  <2> QED BY <1>3, <1>4, LeastNatural
<1>6. Min(T) \in T /\ \A k \in T : Min(T) <= k
  <2> HIDE DEF T
  <2> QED BY <1>5, Zenon DEF Min
<1>7. n \in T
  BY <1>1, <1>4, <1>6
<1>8. n \in DOMAIN grammar /\ n # 0
  BY <1>7, <1>l
<1>9. grammar[n].block # NULL
  BY <1>8 DEF Typed, GrammarTyped
<1> QED BY <1>2, <1>8, <1>9

\* What the text uses and defines was read.
LEMMA LinkFinds ==
  ASSUME Typed, HeadsKnown, UsesKnown, Defined, Skip(pos) = Len(text), pc = "link",
         NEW i \in DOMAIN grammar, NEW k \in DOMAIN grammar[i].exprs, grammar[i].exprs[k].type = "FACT_RULE"
  PROVE  LinkTarget(i, k) # NULL
<1> DEFINE x == Last(grammar[i].exprs[k].text)
<1>1. x \in Used
  BY DEF UsesKnown, AllNamesUsed, NamesUsed
<1>2. x \in Headed
  BY <1>1 DEF Defined
<1>3. x \in Names
  BY <1>1 DEF Used
<1> HIDE DEF x
<1>4. PICK n \in 0 .. Len(text) : (n = 0 \/ text[n] = OP_RULE_END) /\ x = After(n)
  BY <1>2 DEF Headed
<1>5. n \in 0 .. pos
  <2>1. PICK l \in Nat : l = Len(text)
    BY TextIsSeq DEF Typed, StreamTyped
  <2>2. \A p \in pos + 1 .. l : text[p] = Blank
    BY <2>1, OnlyBlanksLeft
  <2>3. Blank # OP_RULE_END /\ pos \in Nat
    BY Now, PlainSymbols
  <2>4. n \in 0 .. pos \/ n \in pos + 1 .. l
    BY <2>1, <2>3
  <2>5. n \in 0 .. pos \/ n # 0
    BY <2>3
  <2> QED BY <1>4, <2>2, <2>3, <2>4, <2>5
<1>6. \E j \in DOMAIN grammar : grammar[j].name = x
  BY <1>3, <1>4, <1>5 DEF HeadsKnown, HeadPCs, ParamPCs, LevelPCs
<1>7. PICK j \in DOMAIN grammar : grammar[j].name = x
  BY <1>6
<1>8. _seek_target(x) # NULL
  BY <1>7, SeekTargetFinds
<1> QED BY <1>8 DEF LinkTarget, x

-----------------------------------------------------------------------------
(* A grammar written as it should be is accepted *)

\* A rule that is used is found.
LEMMA LinkGoes ==
  ASSUME Typed, OnTrack, HeadsKnown, UsesKnown, Defined, Link
  PROVE  \/ grammar' = grammar /\ pc' = "done"
         \/ /\ pc' = pc
            /\ \E i \in DOMAIN grammar : \E k \in DOMAIN grammar[i].exprs : grammar' = LinkedGrammar(i, k)
<1>p. pc = "link"
  BY DEF Link
<1>g. grammar \in Seq(ProdSet(NodeSet))
  BY DEF Typed, GrammarTyped
<1>0. pc = "link" /\ Skip(pos) = Len(text) /\ grammar \in Seq(ProdSet(NodeSet))
  BY <1>p, <1>g DEF OnTrack, Expects, LastPCs
<1>1. CASE \E i \in DOMAIN grammar : \E k \in DOMAIN grammar[i].exprs : Links(i, k)
  <2>1. PICK i \in DOMAIN grammar : \E k \in DOMAIN grammar[i].exprs : Links(i, k)
    BY <1>1
  <2>2. PICK k \in DOMAIN grammar[i].exprs : Links(i, k)
    BY <2>1
  <2>3. LinkTarget(i, k) # NULL
    BY <1>0, <2>2, LinkFinds DEF Links
  <2>4. pc' = pc /\ grammar' = LinkedGrammar(i, k)
    BY <2>2, <2>3 DEF Links
  <2> QED BY <2>4
<1>2. CASE pc' = "done" /\ UNCHANGED grammar
  BY <1>2
<1> QED BY <1>0, <1>1, <1>2, LinkIs

LEMMA LinkUsed ==
  ASSUME Typed, OnTrack, HeadsKnown, UsesKnown, Defined, Link PROVE UsesKnown'
<1>0. UNCHANGED <<text, prod, levels>>
  BY DEF Link
<1>1. CASE grammar' = grammar
  BY <1>0, <1>1, SameUsed
<1>2. CASE \E i \in DOMAIN grammar : \E k \in DOMAIN grammar[i].exprs : grammar' = LinkedGrammar(i, k)
  <2>1. PICK i \in DOMAIN grammar : \E k \in DOMAIN grammar[i].exprs : grammar' = LinkedGrammar(i, k)
    BY <1>2
  <2>2. PICK k \in DOMAIN grammar[i].exprs : grammar' = LinkedGrammar(i, k)
    BY <2>1
  <2> DEFINE es == LinkedExprs(i, k)
             n == Linked(grammar[i].exprs[k], LinkTarget(i, k))
  <2>3. /\ es \in Seq(NodeSet) /\ DOMAIN es = DOMAIN grammar[i].exprs
        /\ \A m \in DOMAIN grammar[i].exprs : es[m] = IF m = k THEN n ELSE grammar[i].exprs[m]
        /\ DOMAIN grammar' = DOMAIN grammar
        /\ \A j \in DOMAIN grammar : grammar'[j] = IF j = i THEN WithExprs(grammar[i], es) ELSE grammar[j]
    BY <2>2, LinkedGrammarIs
  <2>4. n.type # "FACT_RULE"
    <3>1. grammar[i].exprs[k] \in NodeSet /\ LinkTarget(i, k) \in Nat
      BY GrammarFields, LinkTargetTyped DEF LinkTarget
    <3> QED BY <3>1, LinkedNode
  <2>5. WithExprs(grammar[i], es).exprs = es
    <3>1. grammar[i] \in ProdSet(NodeSet)
      BY GrammarFields
    <3> HIDE DEF es
    <3> QED BY <2>3, <3>1, ExprsReplaced
  <2> HIDE DEF es, n, NamesUsed
  <2>6. AllNamesUsed(grammar[i].exprs)
    BY DEF UsesKnown
  <2>7. AllNamesUsed(es)
    <3>1. NamesUsed(n)
      BY <2>4 DEF NamesUsed
    <3> QED BY <2>3, <2>6, <3>1 DEF AllNamesUsed
  <2>8. ASSUME NEW j \in DOMAIN grammar' PROVE AllNamesUsed(grammar'[j].exprs)
    <3>1. CASE j = i
      BY <2>3, <2>5, <2>7, <3>1
    <3>2. CASE j # i
      BY <2>3, <3>2 DEF UsesKnown
    <3> QED BY <3>1, <3>2
  <2> HIDE DEF AllNamesUsed, LevelsUsed
  <2> QED BY <1>0, <2>8, UsesArrive DEF UsesKnown
<1> QED BY <1>1, <1>2, LinkGoes

\* Linking changes no name.
LEMMA LinkKeepsNames ==
  ASSUME Typed, OnTrack, HeadsKnown, UsesKnown, Defined, Link
  PROVE  /\ grammar' # <<>> \/ grammar = <<>>
         /\ \A i \in DOMAIN grammar : \E j \in DOMAIN grammar' : grammar'[j].name = grammar[i].name
<1>1. CASE grammar' = grammar
  BY <1>1
<1>2. CASE \E i \in DOMAIN grammar : \E k \in DOMAIN grammar[i].exprs : grammar' = LinkedGrammar(i, k)
  <2>1. PICK i \in DOMAIN grammar : \E k \in DOMAIN grammar[i].exprs : grammar' = LinkedGrammar(i, k)
    BY <1>2
  <2>2. PICK k \in DOMAIN grammar[i].exprs : grammar' = LinkedGrammar(i, k)
    BY <2>1
  <2> DEFINE es == LinkedExprs(i, k)
  <2>3. /\ es \in Seq(NodeSet) /\ DOMAIN grammar' = DOMAIN grammar
        /\ \A j \in DOMAIN grammar : grammar'[j] = IF j = i THEN WithExprs(grammar[i], es) ELSE grammar[j]
    BY <2>2, LinkedGrammarIs
  <2>4. grammar[i] \in ProdSet(NodeSet)
    BY GrammarFields
  <2> HIDE DEF es
  <2>5. WithExprs(grammar[i], es).name = grammar[i].name
    BY <2>3, <2>4, ExprsReplaced
  <2>6. \A j \in DOMAIN grammar : grammar'[j].name = grammar[j].name
    BY <2>3, <2>5
  <2>7. DOMAIN <<>> = {}
    OBVIOUS
  <2>8. grammar' # <<>>
    BY <2>3, <2>7
  <2> QED BY <2>3, <2>6, <2>8
<1> QED BY <1>1, <1>2, LinkGoes

\* The head of a production is read.
LEMMA HeadUsed ==
  ASSUME Typed, UsesKnown,
         Begin \/ ReadName \/ ReadParams \/ ReadParam \/ ReadParamNext \/ ReadParamEnd
  PROVE  UsesKnown'
<1>p. prod \in ProdSet(ReadNode)
  BY DEF Typed, ProdTyped
<1>q. \A x : [prod EXCEPT !.params = x].exprs = prod.exprs
  BY <1>p DEF ProdSet
<1>0. UNCHANGED <<text, grammar, levels>>
  BY DEF Begin, ReadName, ReadParams, ReadParam, ReadParamNext, ReadParamEnd
<1>1. CASE Begin \/ ReadParams \/ ReadParamNext
  BY <1>0, <1>1, SameUsed DEF Begin, ReadParams, ReadParamNext
<1>2. CASE ReadName
  <2>1. \A x, y : [NoProd EXCEPT !.name = x, !.identifier = y].exprs = <<>>
    BY DEF NoProd
  <2>2. prod' = prod \/ prod' = [NoProd EXCEPT !.name = Symbol(Here), !.identifier = Fresh(1)]
    BY <1>2, Zenon DEF ReadName
  <2>3. prod'.exprs = prod.exprs \/ prod'.exprs = <<>>
    BY <2>1, <2>2
  <2> QED BY <1>0, <2>3, SameUsed
<1>3. CASE ReadParam
  <2>1. \E x : prod' = [prod EXCEPT !.params = x]
    BY <1>3, Zenon DEF ReadParam, NoParam
  <2>2. prod'.exprs = prod.exprs
    BY <1>q, <2>1
  <2> QED BY <1>0, <2>2, SameUsed
<1>4. CASE ReadParamEnd
  <2>1. prod' = prod \/ prod' = [prod EXCEPT !.params = <<>>]
    BY <1>4 DEF ReadParamEnd
  <2>2. prod'.exprs = prod.exprs
    BY <1>q, <2>1
  <2> QED BY <1>0, <2>2, SameUsed
<1> QED BY <1>1, <1>2, <1>3, <1>4

\* Its rule begins, and ends.
LEMMA RuleUsed ==
  ASSUME Typed, UsesKnown, ReadRule \/ ReadRuleEnd, GoesStraight PROVE UsesKnown'
<1>0. text' = text
  BY DEF ReadRule, ReadRuleEnd
<1>1. CASE ReadRule
  <2>1. levels' = <<NoLevel>> \/ levels' = levels
    BY <1>1 DEF ReadRule, NoLevel
  <2>2. LevelsUsed(<<NoLevel>>)
    <3>1. DOMAIN <<NoLevel>> = {1} /\ <<NoLevel>>[1] = NoLevel
      OBVIOUS
    <3> HIDE DEF NoLevel, LevelUsed
    <3> QED BY <3>1, UsedEmpty DEF LevelsUsed
  <2>3. UNCHANGED <<grammar, prod>>
    BY <1>1 DEF ReadRule
  <2> HIDE DEF LevelsUsed, AllNamesUsed, NoLevel
  <2> QED BY <1>0, <2>1, <2>2, <2>3, UsesArrive DEF UsesKnown
<1>2. CASE ReadRuleEnd
  <2>0. pc = "rule_end" /\ pc' # "no_production" /\ levels' = levels
    BY <1>2 DEF ReadRuleEnd, GoesStraight, Straight
  <2>1. prod' = NoProd /\ grammar' = Append(grammar, [prod EXCEPT !.block = Fresh(1)])
    BY <1>2, <2>0 DEF ReadRuleEnd
  <2> DEFINE p == [prod EXCEPT !.block = Fresh(1)]
  <2>g. grammar \in Seq(ProdSet(NodeSet)) /\ prod \in ProdSet(ReadNode)
    BY DEF Typed, GrammarTyped, ProdTyped
  <2>2. p \in ProdSet(NodeSet) /\ p.exprs = prod.exprs
    <3>1. p.exprs = prod.exprs
      BY <2>g DEF ProdSet
    <3>2. p \in ProdSet(ReadNode)
      BY <2>g, FreshIsFree DEF ProdSet
    <3> HIDE DEF p
    <3> QED BY <3>1, <3>2, ReadNodesAreNodes
  <2>3. NoProd.exprs = <<>>
    BY DEF NoProd
  <2>4. PICK m \in Nat : m = Len(grammar)
    BY <2>g, LenProperties
  <2>5. grammar' = Append(grammar, p)
    BY <2>1
  <2> HIDE DEF p, ProdSet, AllNamesUsed, LevelsUsed
  <2>6. /\ DOMAIN grammar = 1 .. m /\ DOMAIN grammar' = 1 .. m + 1
        /\ grammar'[m + 1] = p /\ \A k \in 1 .. m : grammar'[k] = grammar[k]
    BY <2>g, <2>2, <2>4, <2>5, AppendProperties, LenProperties
  <2>7. \A k \in 1 .. m + 1 : k \in 1 .. m \/ k = m + 1
    OBVIOUS
  <2>8. ASSUME NEW k \in DOMAIN grammar' PROVE AllNamesUsed(grammar'[k].exprs)
    <3>1. CASE k \in 1 .. m
      BY <2>6, <3>1 DEF UsesKnown
    <3>2. CASE k = m + 1
      BY <2>2, <2>6, <3>2 DEF UsesKnown
    <3> QED BY <2>6, <2>7, <3>1, <3>2
  <2> QED BY <1>0, <2>0, <2>1, <2>3, <2>8, UsesArrive, UsedEmpty DEF UsesKnown
<1> QED BY <1>1, <1>2

LEMMA StepUsed ==
  ASSUME Typed, Phases, OnTrack, HeadsKnown, UsesKnown, NoColon, Defined, Next, GoesStraight, pc' # "end"
  PROVE  UsesKnown'
<1>1. CASE Begin \/ ReadName \/ ReadParams \/ ReadParam \/ ReadParamNext \/ ReadParamEnd
  BY <1>1, HeadUsed
<1>2. CASE ReadRule \/ ReadRuleEnd
  BY <1>2, RuleUsed
<1>3. CASE ReadAlternative \/ ReadBuiltin \/ ReadOperand \/ OpenCouple \/ NotAFactor
  BY <1>3, ReadAlternativeUsed, ReadBuiltinUsed, ReadOperandUsed, OpenCoupleUsed, NotAFactorUsed
<1>4. CASE NoFactor \/ ReadOr \/ CloseCouple
  BY <1>4, NoFactorUsed, ReadOrUsed, CloseCoupleUsed DEF GoesStraight
<1>5. ~(NoAlternative \/ NotClosed \/ NoFeed \/ FreeBNF \/ Finished)
  BY DEF GoesStraight, Straight, NoAlternative, NotClosed, NoFeed, CoupleFails, FreeBNF, Finished, vars
<1>6. CASE NoProduction
  <2>1. text' = text /\ levels' = levels /\ prod' = NoProd /\ grammar' = grammar
    BY <1>6 DEF NoProduction, OnTrack, LocalsOnTrack
  <2>2. NoProd.exprs = <<>>
    BY DEF NoProd
  <2> QED BY <2>1, <2>2, SameUsed
<1>7. CASE Link
  BY <1>7, LinkUsed
<1> HIDE DEF Typed, Phases, OnTrack, UsesKnown, HeadsKnown, NoColon, GoesStraight
<1> QED BY <1>1, <1>2, <1>3, <1>4, <1>5, <1>6, <1>7 DEF Next

LEMMA StepHeads ==
  ASSUME Typed, OnTrack, HeadsKnown, UsesKnown, Defined, Next, GoesStraight, NoMallocFailed', pc' # "end"
  PROVE  HeadsKnown'
<1>t. text' = text
  BY StepText
<1>1. CASE ReadRuleEnd
  BY <1>1, ReadRuleEndHeads
<1>2. ASSUME ~ReadRuleEnd, pc # "rule_end" PROVE HeadsKnown'
  <2>1. PassesOn
    BY <1>2, StepPasses
  <2>2. CASE pc \in HeadPCs
    <3>1. grammar' = grammar /\ prod'.name = prod.name /\ pc' \in HeadPCs
      BY <1>2, <2>2, HeadKept DEF GoesStraight
    <3>2. pc \notin {"begin", "production"}
      BY <2>2 DEF HeadPCs, ParamPCs, LevelPCs
    <3> HIDE DEF HeadPCs, PassesOn, HeadsKnown, Typed
    <3> QED BY <1>t, <2>1, <3>1, <3>2, HeadsStay
  <2>3. CASE ReadName
    BY <2>1, <2>3, ReadNameHeads
  <2>4. CASE Begin
    <3>1. pc \notin HeadPCs /\ pos' = pos /\ pc' = "production" /\ grammar' = grammar
      <4>1. ~MallocFails
        BY FailedNow
      <4> QED BY <2>4, <4>1 DEF Begin, HeadPCs, ParamPCs, LevelPCs
    <3> HIDE DEF HeadPCs, PassesOn, HeadsKnown, Typed
    <3> QED BY <1>t, <2>1, <3>1, HeadsStay
  <2>5. CASE NoProduction \/ Link
    <3>1. pc \notin HeadPCs /\ pc \notin {"begin", "production"}
      BY <2>5 DEF NoProduction, Link, HeadPCs, ParamPCs, LevelPCs
    <3>2. \A i \in DOMAIN grammar : \E j \in DOMAIN grammar' : grammar'[j].name = grammar[i].name
      <4>1. CASE NoProduction
        BY <4>1 DEF NoProduction, OnTrack, LocalsOnTrack
      <4>2. CASE Link
        BY <4>2, LinkKeepsNames
      <4> QED BY <2>5, <4>1, <4>2
    <3> HIDE DEF HeadPCs, PassesOn, HeadsKnown, Typed
    <3> QED BY <1>t, <2>1, <3>1, <3>2, HeadsStay
  <2>6. ~(FreeBNF \/ Finished)
    BY DEF FreeBNF, Finished, vars
  <2>7. Begin \/ ReadName \/ NoProduction \/ Link \/ pc \in HeadPCs
    BY <2>6 DEF Next, HeadPCs, ParamPCs, LevelPCs, ReadParams, ReadParam, ReadParamNext, ReadParamEnd,
         ReadRule, ReadRuleEnd, ReadAlternative, ReadBuiltin, ReadOperand, OpenCouple, NotAFactor,
         NoFactor, ReadOr, NoAlternative, CloseCouple, NotClosed, NoFeed
  <2> QED BY <2>2, <2>3, <2>4, <2>5, <2>7
<1>3. CASE pc = "rule_end" /\ ~ReadRuleEnd
  BY <1>3 DEF Next, Begin, ReadName, ReadParams, ReadParam, ReadParamNext, ReadParamEnd, ReadRule,
       ReadAlternative, ReadBuiltin, ReadOperand, OpenCouple, NotAFactor, NoFactor, ReadOr,
       NoAlternative, CloseCouple, NotClosed, NoFeed, NoProduction, Link, FreeBNF, Finished
<1> QED BY <1>1, <1>2, <1>3

\* An expression is entered by its rule only, and the end is left by no step.
LEMMA EntersLevels ==
  ASSUME Next
  PROVE  /\ pc' \in LevelPCs => pc \in LevelPCs \/ ReadRule
         /\ pc = "end" => pc' = "end"
<1>1. CASE Begin \/ ReadName \/ ReadParams \/ ReadParamNext \/ ReadParamEnd
  BY <1>1 DEF Begin, ReadName, ReadParams, ReadParamNext, ReadParamEnd, WithoutParams, LevelPCs
<1>2. CASE ReadParam
  <2>1. pc = "param" /\ pc' \in {"param_next", "param_end", "no_production"}
    BY <1>2 DEF ReadParam, NoParam
  <2> QED BY <2>1 DEF LevelPCs
<1>3. CASE ReadRule
  BY <1>3 DEF ReadRule
<1>4. CASE ReadRuleEnd
  <2>1. pc = "rule_end" /\ pc' \in {"production", "no_production"}
    BY <1>4 DEF ReadRuleEnd
  <2> QED BY <2>1 DEF LevelPCs
<1>5. CASE ReadAlternative \/ ReadBuiltin \/ ReadOperand \/ OpenCouple \/ NotAFactor
  <2>1. pc \in LevelPCs
    BY <1>5 DEF ReadAlternative, ReadBuiltin, ReadOperand, OpenCouple, NotAFactor, LevelPCs
  <2> QED BY <2>1 DEF LevelPCs
<1>6. CASE NoFactor \/ ReadOr \/ NoAlternative \/ CloseCouple \/ NotClosed \/ NoFeed
  <2>1. pc \in LevelPCs
    BY <1>6 DEF NoFactor, ReadOr, NoAlternative, CloseCouple, NotClosed, NoFeed, LevelPCs
  <2> QED BY <2>1 DEF LevelPCs
<1>7. CASE NoProduction \/ FreeBNF \/ Finished
  BY <1>7 DEF NoProduction, FreeBNF, Finished, vars, LevelPCs
<1>8. CASE Link
  <2>1. pc = "link" /\ pc' \in {pc, "done"}
    BY <1>8 DEF Link
  <2> QED BY <2>1 DEF LevelPCs
<1> QED BY <1>1, <1>2, <1>3, <1>4, <1>5, <1>6, <1>7, <1>8 DEF Next

LEMMA StepNoColon ==
  ASSUME Typed, NoColon, Next, GoesStraight, NoMallocFailed' PROVE NoColon'
<1>t. text' = text
  BY StepText
<1>1. SUFFICES ASSUME pc' \in LevelPCs PROVE text[pos'] # ":"
  BY <1>t DEF NoColon
<1>2. pc \in LevelPCs \/ ReadRule
  BY <1>1, EntersLevels
<1>s. pc # "rule_end"
  BY <1>2 DEF LevelPCs, ReadRule
<1>3. pos' = pos \/ text[pos'] # ":"
  BY <1>1, <1>s, StepPasses DEF PassesOn
<1>4. CASE pc \in LevelPCs
  BY <1>3, <1>4 DEF NoColon
<1>5. CASE ReadRule
  <2>1. pc' = "alternative" /\ IsPrefix(OP_RULE, Ahead) /\ pos' = Here + 3
    BY <1>1, <1>5 DEF ReadRule, LevelPCs
  <2>n. Here = Skip(pos) /\ text \in Texts /\ pos \in 0 .. Len(text)
    BY Now
  <2>2. RuleAfter(pos)
    BY <2>n, <2>1 DEF RuleAfter, Ahead
  <2>3. text[pos'] = "="
    BY <2>n, <2>1, <2>2, RuleNext
  <2> QED BY <2>3
<1> QED BY <1>2, <1>4, <1>5

\* Where a grammar written as it should be is on its way to be accepted.
OnItsWay == OnTrack /\ HeadsKnown /\ UsesKnown /\ NoColon /\ (pc \in {"link", "done"} => grammar # <<>>)
Accepts == (Plain /\ Defined /\ NoMallocFailed /\ pc # "end") => OnItsWay

LEMMA StepOnItsWay ==
  ASSUME Typed, Phases, Defined, OnItsWay, Next, GoesStraight, NoMallocFailed', pc' # "end"
  PROVE  OnItsWay'
<1>1. OnTrack' /\ HeadsKnown' /\ UsesKnown' /\ NoColon'
  BY StepHeads, StepUsed, StepNoColon DEF OnItsWay, GoesStraight
<1>2. ASSUME pc' \in {"link", "done"} PROVE grammar' # <<>>
  <2>1. CASE pc' = "link"
    BY <1>1, <2>1 DEF OnTrack, LocalsOnTrack
  <2>2. CASE pc' = "done"
    <3>1. CASE Link
      <4>1. pc = "link"
        BY <3>1 DEF Link
      <4> QED BY <3>1, <4>1, LinkKeepsNames DEF OnItsWay
    <3>2. CASE ~Link
      <4>1. ~MallocFails
        BY FailedNow
      <4>2. Begin \/ NoProduction
        BY <2>2, <3>2 DEF Next, Begin, ReadName, ReadParams, ReadParam, ReadParamNext, ReadParamEnd, ReadRule,
             ReadRuleEnd, ReadAlternative, ReadBuiltin, ReadOperand, OpenCouple, NotAFactor, NoFactor, ReadOr,
             NoAlternative, CloseCouple, NotClosed, NoFeed, FreeBNF, Finished, vars, WithoutParams, NoParam,
             AddFactor, EndLoop, CoupleFails
      <4>3. ~Begin
        BY <2>2, <4>1 DEF Begin
      <4>4. ~NoProduction
        BY <2>2 DEF NoProduction, OnItsWay, OnTrack, LocalsOnTrack
      <4> QED BY <4>2, <4>3, <4>4
    <3> QED BY <3>1, <3>2
  <2> QED BY <1>2, <2>1, <2>2
<1> QED BY <1>1, <1>2 DEF OnItsWay

LEMMA StutterOnItsWay ==
  ASSUME OnItsWay, UNCHANGED vars PROVE OnItsWay'
<1>1. /\ text' = text /\ pos' = pos /\ pc' = pc /\ prod' = prod /\ levels' = levels /\ grammar' = grammar
      /\ OnTrack'
  BY StutterTrack DEF OnItsWay
<1>2. \A n : After(n)' = After(n)
  BY <1>1, TextStays
<1>3. HeadsKnown'
  BY <1>1, <1>2 DEF HeadsKnown, OnItsWay
<1>4. UsesKnown'
  BY <1>1, SameUsed DEF OnItsWay
<1>5. NoColon'
  BY <1>1 DEF NoColon, OnItsWay
<1> QED BY <1>1, <1>3, <1>4, <1>5 DEF OnItsWay

LEMMA StepAccepts ==
  ASSUME Typed, Phases, Accepts, [Next]_vars PROVE Accepts'
<1>t. text' = text
  BY StepText
<1>1. (Plain' <=> Plain) /\ (Defined' <=> Defined)
  BY <1>t, TextStays DEF Defined
<1>2. SUFFICES ASSUME Plain, Defined, NoMallocFailed', pc' # "end" PROVE OnItsWay'
  BY <1>1 DEF Accepts
<1> HIDE DEF Typed, Phases, Plain, Defined, OnItsWay, NoMallocFailed
<1>3. CASE Next
  <2>1. NoMallocFailed
    BY <1>2, <1>3, MallocsNow
  <2>2. pc # "end"
    BY <1>2, <1>3, EntersLevels
  <2>3. OnItsWay
    BY <1>2, <2>1, <2>2 DEF Accepts
  <2>4. ~Refused'
    BY <1>2 DEF Refused
  <2>5. GoesStraight \/ UNCHANGED vars
    BY <1>2, <1>3, <2>3, <2>4, StepOnTrack DEF OnItsWay
  <2>6. CASE GoesStraight
    BY <1>2, <1>3, <2>3, <2>6, StepOnItsWay
  <2>7. CASE UNCHANGED vars
    BY <2>3, <2>7, StutterOnItsWay
  <2> QED BY <2>5, <2>6, <2>7
<1>4. CASE UNCHANGED vars
  <2>1. NoMallocFailed /\ pc # "end"
    BY <1>2, <1>4, StutterTrack
  <2>2. OnItsWay
    BY <1>2, <2>1 DEF Accepts
  <2> QED BY <1>4, <2>2, StutterOnItsWay
<1> QED BY <1>3, <1>4

LEMMA InitAccepts ==
  ASSUME Init PROVE Accepts
<1>1. /\ pos = 0 /\ pc = "begin" /\ prod = NoProd /\ levels = <<>> /\ grammar = <<>>
  BY DEF Init
<1>2. Plain => OnTrack
  <2>1. ~Refused /\ ~Gone
    BY DEF Init, Refused, Gone, NoMallocFailed
  <2> QED BY <2>1, InitGoesWell DEF GoesWell, ReadAll
<1>3. HeadsKnown
  BY <1>1 DEF HeadsKnown
<1>4. UsesKnown
  <2>1. NoProd.exprs = <<>> /\ DOMAIN <<>> = {}
    BY DEF NoProd
  <2> HIDE DEF AllNamesUsed, LevelsUsed
  <2> QED BY <1>1, <2>1, UsedEmpty DEF UsesKnown
<1>5. NoColon
  BY <1>1 DEF NoColon, LevelPCs
<1> QED BY <1>1, <1>2, <1>3, <1>4, <1>5 DEF Accepts, OnItsWay

\* Every grammar written as it should be, of whatever length and nesting, is read
\* back as it was written, and accepted if its rules are defined and no malloc
\* fails; what a failed malloc leaves of it is never anything else but the ":" of a
\* builtin rule.
THEOREM ReadBackAsWritten == Spec => []ReadsBack
<1> DEFINE IInv == GoesWell /\ Accepts /\ Unlisted
<1>1. Init => IInv
  BY InitGoesWell, InitAccepts, InitStands
<1>2. IInv /\ (Typed /\ Phases) /\ [Next]_vars => IInv'
  BY StepGoesWell, StepAccepts, StepUnlisted
<1>3. IInv /\ (Typed /\ Phases) => ReadsBack
  <2>1. SUFFICES ASSUME IInv, Typed, pc = "done", Plain
                 PROVE  /\ (NoMallocFailed /\ Defined) => grammar # <<>>
                        /\ grammar # <<>> => Without(Printed, {Blank, ":"}) = Without(text, {Blank, ":"})
                        /\ (NoMallocFailed /\ grammar # <<>>) => Printed = Without(text, {Blank})
    BY Zenon DEF ReadsBack
  <2>2. (NoMallocFailed /\ Defined) => grammar # <<>>
    BY <2>1 DEF Accepts, OnItsWay
  <2> HIDE DEF Typed, GoesWell, Plain, NoMallocFailed
  <2> QED BY <2>1, <2>2, ReadsBackNow
<1> HIDE DEF IInv
<1> QED BY <1>1, <1>2, <1>3, TypedAlways, PTL DEF Spec

=============================================================================
