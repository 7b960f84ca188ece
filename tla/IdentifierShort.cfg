SPECIFICATION ISpec
CONSTANTS
  Texts <- MCTexts
  Calls <- LowerOnly
  MaxChars = 3
  kMaxScriptBytes = 40
  kMaxScriptBuffer = 48
  kWithinScriptTail = 8
  Languages <- TwoLanguages
  NumLangs <- MCNumLangs
  Functions <- FindOnly
  min_num_bytes = 5
  IntLimit = 4
INVARIANTS
  UnknownWhenShort
CHECK_DEADLOCK FALSE
