SPECIFICATION Spec
CONSTANTS
  MaxAlloc = 4
  Files <- OpenComments
  Grains = {1, 2}
  Settings <- CutComments
  Blanks = {" "}
  Letters = {"a"}
  Digits = {"1"}
  Quote = "'"
  Tokens <- SomeTokens
  Options <- AllOptions
INVARIANT SkipNeverPastTotal
