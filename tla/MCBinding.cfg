\* Three calls by two threads, under the GIL.
SPECIFICATION Spec
CONSTANTS
  t1 = t1
  t2 = t2
  o1 = o1
  l1 = l1
  l2 = l2
  NoThread = NoThread
  Threads <- MCThreads
  Objects <- MCObjects
  Languages <- MCLanguages
  Components <- MCComponents
  Features <- MCFeatures
  Sizes <- MCSizes
  NumLangs <- MCNumLangs
  IntLimit = 4
  FirstAlone = FALSE
  MaxConstructions = 3
  MaxCalls = 3
  MaxFound = 2
INVARIANTS
  FeaturesFound
  Accounted
  ReturnsFound
PROPERTIES
  CallReturns
CHECK_DEADLOCK FALSE
