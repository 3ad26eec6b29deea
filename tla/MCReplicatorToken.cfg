SPECIFICATION KeysSpec
CONSTANTS
  MaxTime = 5
  MaxTokens = 3
  MaxPages = 2
  KeySpace = 4
INVARIANTS
  PageTokensIncrease
  KeysReachOwn
CHECK_DEADLOCK FALSE
