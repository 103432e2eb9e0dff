SPECIFICATION Spec
CONSTANTS
  Grammars <- AllGrammars
  Ids = {"r", "q"}
  Texts <- AllTexts
  Extensions <- AllExtensions
  MaxDepth = 15
  Meaning <- PegMeaning
INVARIANT TypeOK
INVARIANT Recognizes
PROPERTY ErrorsFinal
PROPERTY Ends
