SPECIFICATION FairSpec
CONSTANTS
  Bytes <- MCBytes
  Tables <- MCTables
  Texts <- MCTexts
  Rooms <- MCRooms
  Cont <- MCCont
  MaxPieces = 5
  MaxChars = 3
  kWord = 1
INVARIANTS
  TypeOK
  ScansLongest
  ReplacesCharacters
  MapDescribes
  RoomKept
PROPERTY
  CallReturns
