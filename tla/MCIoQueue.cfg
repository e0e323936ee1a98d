CONSTANTS
  main = main
  init = init
  idle = idle
  r1 = r1
  r2 = r2
  qlock = qlock
  NULL = NULL
  Main = main
  InitProc = init
  Idle = idle
  Reader = {r1, r2}
  Char = {a, b}
  BUF_SIZE = 3
  MaxCount = 2
  QLock = qlock
  Thread <- MCThreads
  Sem <- MCSem
  Prio <- MCPrio
SPECIFICATION IoqSpec
INVARIANTS
  OneSleeper
PROPERTIES
  ImplementsFifo
  AloneReads
