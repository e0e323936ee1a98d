CONSTANTS
  Main = 2
  InitProc = 1
  Idle = 3
  MaxPid = 6
  PgSize = 4
  BtmpBytes = 11
  KernelPages = 40
  Taken = {0, 20}
  Thread <- MCThreads
  Prio <- MCPrio
SPECIFICATION WESpec
INVARIANTS
  ParentLives
  NoSleepOverZombie
PROPERTIES
  WaitReturns
