CONSTANTS
  main = main
  init = init
  idle = idle
  p1 = p1
  p2 = p2
  lock = lock
  done = done
  Main = main
  InitProc = init
  Idle = idle
  Proc = {p1, p2}
  ChannelLock = lock
  DiskDone = done
  BootOps = 1
  MaxOps = 2
  TimeLimit = 3
  Thread <- MCThreads
  Sem <- MCSem
  Prio <- MCPrio
SPECIFICATION IdeSpec
INVARIANTS
  PanicOnlyOnFault
  NoStaleCompletion
  SyscallsDoNotInterleave
PROPERTIES
  CommandEnds
