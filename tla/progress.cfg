CONSTANTS
  Client = Client
  Server = Server
  Sends <- PutOff
  Quota <- TwoOne
  Timed = {TRUE, FALSE}
  MaxDepth = 1
  SockCap = 1
  Failing = {Client}

SPECIFICATION FairSpec

INVARIANTS
  ReturnsForAReason
  NoStaleTimer

PROPERTIES
  CallsReturn
  Delivered
  Announced

CHECK_DEADLOCK FALSE
