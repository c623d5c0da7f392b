CONSTANTS
  Definitions <- Eight
  MaxString = 5

SPECIFICATION Spec

INVARIANT
  ReadInOrder

CHECK_DEADLOCK FALSE
