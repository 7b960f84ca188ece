SPECIFICATION IFairSpec
CONSTANTS
  Texts <- MCTexts
  Calls <- LowerOnly
  MaxChars = 5
  kMaxScriptBytes = 40
  kMaxScriptBuffer = 48
  kWithinScriptTail = 8
  Languages <- TwoLanguages
  NumLangs <- MCNumLangs
  Functions <- BothFunctions
  min_num_bytes = 4
  IntLimit = 4
INVARIANTS
  BytesAddUp
  ReturnsTopN
  RangesDisjoint
PROPERTY
  CallReturns
CHECK_DEADLOCK FALSE
