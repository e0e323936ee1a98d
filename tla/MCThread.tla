------------------------------ MODULE MCThread ------------------------------
(* A small instance of Thread: the three threads of boot and two processes. *)
EXTENDS Thread, TLC

CONSTANTS main, init, idle, p1, p2

MCThreads == {main, init, idle, p1, p2}

\* Slices of different length; 0 makes every tick a switch.
MCPrio == (main :> 1) @@ (init :> 1) @@ (idle :> 0) @@ (p1 :> 1) @@ (p2 :> 0)

=============================================================================
