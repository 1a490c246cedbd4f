SPECIFICATION ClaimsSpec
CONSTANTS
  MaxDepth = 30
  StringCap = 4
  Word = 255
  Pending = Pending
INVARIANT LanguageClaimHolds
CHECK_DEADLOCK FALSE
