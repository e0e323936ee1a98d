CONSTANTS
  main = main
  init = init
  idle = idle
  p1 = p1
  p2 = p2
  Main = main
  InitProc = init
  Idle = idle
  Thread <- MCThreads
  Prio <- MCPrio
SPECIFICATION ThreadSpec
INVARIANTS
  NoPanic
  ReadyListExact
PROPERTY
  OnlyWakeupsOvertake
  ReadyRuns
