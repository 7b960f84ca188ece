SPECIFICATION FairSpec
CONSTANTS
  Texts <- MCTexts
  Calls <- LowerOnly
  MaxChars = 5
  kMaxScriptBytes = 6
  kMaxScriptBuffer = 14
  kWithinScriptTail = 2
INVARIANTS
  TypeOK
  EveryLetterOnce
  OneScript
  FitsBuffer
  MapsLettersBack
  CutsWordsWhenFull
PROPERTY
  ScanEnds
