CONSTANTS
  Main = main
  Others = {t1, t2}
  Posters = {t1, t2}
  Free = free
  Quota = 2
  PipeCap = 1

SPECIFICATION FairSpec

PROPERTIES
  ImplementsMailbox
  PostReturns

CHECK_DEADLOCK FALSE
