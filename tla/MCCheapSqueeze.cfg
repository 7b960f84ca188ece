SPECIFICATION FairSpec
CONSTANTS
  Texts <- MCTexts
  Chunksizes <- DefaultOnly
  MaxWords = 5
  kMaxSpaceScan = 6
  kChunksizeDefault = 8
  kSpacesThreshPercent = 65
  kPredictThreshPercent = 65
INVARIANTS
  TypeOK
  NoClobber
  InOrder
  WholeChars
  CutsAtSpaces
PROPERTY
  CallReturns
