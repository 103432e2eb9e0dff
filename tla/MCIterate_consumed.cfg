SPECIFICATION Spec
CONSTANTS
  MaxAlloc = 4
  Files <- LongFiles
  Grains = {1, 2}
  Settings <- FullRing
  Blanks = {" "}
  Letters = {"a"}
  Digits = {"1"}
  Quote = "'"
  Tokens <- OneByteTokens
  Options <- AllOptions
INVARIANT SkipNeverPastTotal
