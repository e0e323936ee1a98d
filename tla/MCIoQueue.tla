----------------------------- MODULE MCIoQueue ------------------------------
(* Instances of IoQueue with a ring of three places and slices of one tick.  *)
EXTENDS IoQueue

CONSTANTS main, init, idle, r1, r2, qlock

MCThreads == {main, init, idle} \cup Reader
MCSem == {qlock}
MCPrio == [t \in MCThreads |-> 0]
=============================================================================
