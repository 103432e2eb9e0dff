SPECIFICATION Spec
CONSTANTS
  Names = {"r", "s"}
  Literals = {"'a'"}
  Texts <- AllTexts
  MaxFailures = 2
INVARIANT TypeOK
INVARIANT HeldOnce
INVARIANT NothingLeaks
INVARIANT ReadsBack
INVARIANT NothingInvented
INVARIANT NoDanglingSeparator
INVARIANT LinksResolve
PROPERTY Terminates
