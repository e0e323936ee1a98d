------------------------------- MODULE MCHeap --------------------------------
(* Instances of Heap for TLC                                                *)
EXTENDS Heap

MCSegPages == {{1}}

\* Two blocks of the kernel fill and empty an arena.
MCMaxLive == [s \in Space |-> IF s = Kernel THEN 2 ELSE 3]
=============================================================================
