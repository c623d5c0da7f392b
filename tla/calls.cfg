CONSTANTS
  Client = Client
  Server = Server
  Sends <- BothCall
  Quota <- Two
  Timed = {TRUE}
  MaxDepth = 2
  SockCap = 1
  Failing = {Client}

SPECIFICATION Spec

INVARIANTS
  OutputWatched
  DispatcherScheduled
  NoOrphanCall
  OwnReply
  BufferedWhileBlocked

PROPERTIES
  StopsOnlyWhenBlocked

CHECK_DEADLOCK FALSE
