CONSTANTS
  Kernel = "kernel"
  Proc = {"p", "c"}
  MaxPage = 2
  DescCnt = 2
  MinBlock = 4
  PgSize = 12
  ArenaSize = 3
  Sizes = {4, 5, 10}
  KernelSizes = {4}
  SegPages <- MCSegPages
  MaxLive <- MCMaxLive
SPECIFICATION HeapSpec
INVARIANTS
  HeapExact
PROPERTY
  ImplementsAllocator
