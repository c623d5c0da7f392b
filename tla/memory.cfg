CONSTANTS
  Procs = {p1, p2}
  Buffers = {b}
  Mutexes = {m}
  Nobody = nobody
  MaxCount = 2
  BufferSizes = {1, 9}
  Page = 8
  Header = 6
  Object = 3

SPECIFICATION FairSpec

INVARIANTS
  TypeOK
  Exclusive
  Accounted
  StaysUsable
  DataFits

PROPERTIES
  EndUnblocks

CHECK_DEADLOCK FALSE
