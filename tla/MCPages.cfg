CONSTANTS
  Byte = 2
  Procs = 3
  KBytes = 8
  UBytes = 2
  VBytes = 2
  MapPages = 3
  PtePer = 4
  PgSize = 4
  MallocPages = {2}
  MaxHeap = 1
  Segments <- MCSegments
SPECIFICATION PagesSpec
INVARIANTS
  FramesExact
  KernelPagesKnown
  MarkedIsMapped
  StopsExplained
  
