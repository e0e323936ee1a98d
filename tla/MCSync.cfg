CONSTANTS
  main = main
  init = init
  idle = idle
  p1 = p1
  l1 = l1
  NULL = NULL
  Main = main
  InitProc = init
  Idle = idle
  Thread <- MCThreads
  Prio <- MCPrio
  Sem = {l1}
  MaxRepeat = 2
SPECIFICATION SyncSpec
INVARIANTS
  TagInOneList
  MutualExclusion
  NoLostWakeup
PROPERTY
  ImplementsMutex
  LockHandedOn
