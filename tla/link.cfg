CONSTANTS
  Client = Client
  Server = Server
  Sends <- ThreadAndCall
  Quota <- Uneven
  Timed = {TRUE}
  MaxDepth = 1
  SockCap = 1
  Failing = {Client, Server}

SPECIFICATION Spec

INVARIANTS
  TypeOK
  DisconnectScheduled

PROPERTIES
  ImplementsLink

CHECK_DEADLOCK FALSE
