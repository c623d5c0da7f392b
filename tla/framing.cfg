CONSTANTS
  HeaderSize = 4
  Sizes = {1, 3}
  MaxMessages = 3
  Capacity = 5

SPECIFICATION FairSpec

INVARIANTS
  TypeOK
  Contiguous

PROPERTIES
  CarriesMessages
  EveryMessageArrives
  EndIsNoticed

CHECK_DEADLOCK FALSE
