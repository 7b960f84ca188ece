SPECIFICATION ISpec
CONSTANTS
  Texts <- MCTexts
  Calls <- LowerOnly
  MaxChars = 4
  kMaxScriptBytes = 40
  kMaxScriptBuffer = 48
  kWithinScriptTail = 8
  Languages <- TwoLanguages
  NumLangs <- MCNumLangs
  Functions <- TopNOnly
  min_num_bytes = 4
  IntLimit = 4
INVARIANTS
  RangesCoverSpans
CHECK_DEADLOCK FALSE
