SPECIFICATION Spec
CONSTANTS
  Radix = 3
  MaxDigits = 6
  MaxBytes = 5
  Lengths <- MCLengths
  Offsets <- MCOffsets
INVARIANTS
  TypeOK
  MapsAsBuilt
  CursorCoherent
  Monotone
PROPERTIES
  Implements
  WalkAdvances
