------------------------------- MODULE MCIde --------------------------------
(* Instances of Ide with slices of one tick.                                 *)
EXTENDS Ide

CONSTANTS main, init, idle, p1, p2, lock, done

MCThreads == {main, init, idle} \cup Proc
MCSem == {lock, done}
MCPrio == [t \in MCThreads |-> 0]
=============================================================================
