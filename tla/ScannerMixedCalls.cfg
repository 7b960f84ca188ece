SPECIFICATION Spec
CONSTANTS
  Texts <- MCTexts
  Calls <- BothCalls
  MaxChars = 3
  kMaxScriptBytes = 40
  kMaxScriptBuffer = 48
  kWithinScriptTail = 2
INVARIANTS
  MapsLettersBack
