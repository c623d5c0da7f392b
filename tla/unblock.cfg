CONSTANTS
  Client = Client
  Server = Server
  Sends <- BothCall
  Quota <- Two
  Timed = {TRUE}
  MaxDepth = 1
  SockCap = 1
  Failing = {}

SPECIFICATION Spec

INVARIANT
  UnblockIsImmediate

CHECK_DEADLOCK FALSE
