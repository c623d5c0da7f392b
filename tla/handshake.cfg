CONSTANTS
  Clients = {c1, c2}
  Nobody = nobody
  NameLen = 2
  Frames = 1
  Backlog = 1

SPECIFICATION FairSpec

INVARIANTS
  TypeOK
  ChannelBegins

PROPERTIES
  NotCutOff
  EveryClientHears
  EveryClientIsServed

CHECK_DEADLOCK FALSE
