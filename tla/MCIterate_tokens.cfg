SPECIFICATION Spec
CONSTANTS
  MaxAlloc = 3
  Files <- AllFiles
  Grains = {1, 2}
  Settings <- AllSettings
  Blanks = {" "}
  Letters = {"a"}
  Digits = {"1"}
  Quote = "'"
  Tokens <- SomeTokens
  Options <- AllOptions
INVARIANT TypeOK
INVARIANT SkipNeverPastTotal
INVARIANT TokensExact
INVARIANT UntilNeverWrong
INVARIANT ExtractsToken
INVARIANT StandsAfterToken
INVARIANT ContentExact
