----------------------------- MODULE MCWaitExit -----------------------------
(* Small instances of WaitExit.  With 4-byte pages and an 11-byte bitmap a   *)
(* process has 3 bitmap pages, of which 11 \div 4 = 2 are whole.             *)
EXTENDS WaitExit

MCThreads == 1..MaxPid
MCPrio == [t \in MCThreads |-> 0]
=============================================================================
