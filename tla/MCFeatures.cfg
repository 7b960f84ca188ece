\* The last state of a prediction has no successor.
SPECIFICATION Spec
CONSTANTS
  Setups <- MCSetups
  Hash <- MCHash
  ULScript <- MCULScript
  NUM_ULSCRIPTS = 4
  ULScript_Hani = 3
  ContinuousNames <- MCContinuousNames
  MaxText = 4
  MaxForest = 4
INVARIANTS
  ParsesTree
  SharesAsDefined
  AddsOwnRows
PROPERTIES
  PredictionEnds
CHECK_DEADLOCK FALSE
