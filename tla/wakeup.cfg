CONSTANTS
  Main = main
  Others = {t1, t2}
  Posters = {main, t1, t2}
  Free = free
  Quota = 2
  PipeCap = 1

SPECIFICATION Spec

INVARIANTS
  TypeOK
  NoRace
  Awake
  InOrder

SYMMETRY Alike

CHECK_DEADLOCK FALSE
