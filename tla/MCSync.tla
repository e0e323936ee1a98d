------------------------------- MODULE MCSync -------------------------------
(* A small instance of Sync.  Every slice is one tick long, so the timer    *)
(* may switch threads at every instruction that has interrupts on.          *)
EXTENDS Sync, TLC

CONSTANTS main, init, idle, p1, l1

MCThreads == {main, init, idle, p1}
MCPrio == [t \in MCThreads |-> 0]
=============================================================================
