CONSTANTS
  Definitions <- MCDefinitions
  MaxString = 5

SPECIFICATION Spec

INVARIANTS
  Fits
  InBounds
  Faithful
  TellsIfHandled

CHECK_DEADLOCK FALSE
